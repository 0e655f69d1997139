----------------------------- MODULE CARequest -----------------------------
(***************************************************************************)
(* `ca request` and what becomes of the names a user types: runRequest     *)
(* checks the command line, GenerateCSR makes a key, saves it through a    *)
(* .tmp file and then writes the request in place, `ca sign` copies the    *)
(* names of a request into a certificate and prints them for index.json.   *)
(* The user's files lie outside the data directory; commands run one at a  *)
(* time, each may fail or be killed between its steps.                     *)
(***************************************************************************)
EXTENDS CANames

CONSTANTS
    UserPaths,  \* files of the user
    Outputs,    \* values of --out-key and --out-csr, a set of pairs of paths
    Typed,      \* values of --subject and --san: [subject, san], each in parts
    NotASCII,   \* words no DNS name in a request can hold
    MaxKeys,    \* bound: keys made
    Faults      \* "write", "remove", "rename", "crash"

ASSUME OutputsAssumption == Outputs \subseteq UserPaths \X UserPaths

ASSUME MaxKeysAssumption == MaxKeys \in Nat

VARIABLES
    files,     \* [UserPaths -> file]
    tmp,       \* [UserPaths -> file]: what is under <path>.tmp
    pc,        \* where the running `ca request` is
    job,       \* its key, names and output paths
    made,      \* keys made so far
    issued,    \* {} or {the certificate signed last}
    verdict,   \* history: whether the last names typed were as they should be
    saved,     \* history: the keys that have been under a final path
    reported,  \* history: {} or {the output paths of the request that succeeded}
    exit       \* the exit code of the last command

userFiles == <<files, tmp>>
history   == <<verdict, saved, reported>>
vars      == <<files, tmp, pc, job, made, issued, verdict, saved, reported, exit>>

Nothing == [kind |-> "nothing"]
Absent  == [kind |-> "absent"]
Torn    == [kind |-> "torn"]

UserKey(k) == [kind |-> "key", key |-> k]

(* names is [name, dns, ips]; asked is history: the names the user meant. *)
Request(k, names, asked) ==
    [kind |-> "request", key |-> k, names |-> names, asked |-> asked]

----------------------------------------------------------------------------
(* A typed text is made of parts, and what it means is read off the parts: *)
(*     [text, kind |-> "blank"] or [text, kind |-> "bad"]                  *)
(*     [text, kind |-> an attribute, "dns" or "ip", value]                 *)

AllBlank(text) == \A i \in DOMAIN text : text[i] = Blank

(* The value text[f .. l] of attribute a: a type, an equals sign and a     *)
(* value, with blanks around each of them.                                 *)
AttributeAt(text, a, f, l) ==
    \E t, e \in DOMAIN text :
        /\ t < e /\ e < f /\ f <= l
        /\ text[t] \in {a, LowerCase[a]} /\ text[e] = Equals
        /\ text[f] # Blank /\ text[l] # Blank
        /\ \A i \in DOMAIN text : i \notin {t, e} \cup (f .. l) => text[i] = Blank

(* The value text[p + 1 .. l], right after a prefix, with blanks around.   *)
PrefixedAt(text, prefix, p, l) ==
    /\ p < l /\ text[p] = prefix /\ text[l] # Blank
    /\ \A i \in DOMAIN text : i \notin p .. l => text[i] = Blank

AddressAt(text, p, l) ==
    PrefixedAt(text, "IP:", p, l) /\ SubSeq(text, p + 1, l) \in Addresses

SubjectPart(p) ==
    /\ p.kind \in {"blank", "bad"} \cup Attributes
    /\ p.kind \in Attributes =>
        \E f, l \in DOMAIN p.text :
            AttributeAt(p.text, p.kind, f, l) /\ p.value = SubSeq(p.text, f, l)
    /\ p.kind = "bad" =>
        \A a \in Attributes, f, l \in DOMAIN p.text : ~AttributeAt(p.text, a, f, l)

SanPart(p) ==
    /\ p.kind \in {"blank", "bad", "dns", "ip"}
    /\ p.kind = "dns" =>
        \E n, l \in DOMAIN p.text :
            PrefixedAt(p.text, "DNS:", n, l) /\ p.value = SubSeq(p.text, n + 1, l)
    /\ p.kind = "ip" =>
        \E n, l \in DOMAIN p.text :
            AddressAt(p.text, n, l) /\ p.value = SubSeq(p.text, n + 1, l)
    /\ p.kind = "bad" =>
        \A n, l \in DOMAIN p.text :
            ~PrefixedAt(p.text, "DNS:", n, l) /\ ~AddressAt(p.text, n, l)

Part(p) ==
    /\ p.text \in Text
    /\ \A i \in DOMAIN p.text : p.text[i] # Comma
    /\ p.kind = "blank" <=> AllBlank(p.text)

(* Of nothing typed, one part is blank. *)
Parts(parts) ==
    /\ Len(parts) \in Nat \ {0} /\ DOMAIN parts = 1 .. Len(parts)
    /\ \A i \in DOMAIN parts : Part(parts[i])

ASSUME TypedAssumption ==
    \A t \in Typed :
        /\ Parts(t.subject) /\ \A i \in DOMAIN t.subject : SubjectPart(t.subject[i])
        /\ Parts(t.san) /\ \A i \in DOMAIN t.san : SanPart(t.san[i])

Line(parts) == JoinWithCommas([i \in DOMAIN parts |-> parts[i].text])

MeantValues(parts, kind) ==
    LET own == {i \in DOMAIN parts : parts[i].kind = kind}
    IN  Pick([i \in DOMAIN parts |-> IF i \in own THEN parts[i].value ELSE << >>], own)

MeantName(parts) == [a \in Attributes |-> MeantValues(parts, a)]

(* Encoding a name in DER puts the values of an attribute in some order.   *)
ASSUME SortedAssumption ==
    \A t \in Typed, a \in Attributes :
        LET values == ParseDN(Line(t.subject)).name[a]
        IN  Sorted(values) \in Seq(ToSet(values)) /\ Len(Sorted(values)) = Len(values)

Meant(t) ==
    [ name |-> MeantName(t.subject),
      dns  |-> MeantValues(t.san, "dns"),
      ips  |-> MeantValues(t.san, "ip") ]

SaysSomething(parts) == \E i \in DOMAIN parts : parts[i].kind # "blank"
NothingBad(parts)    == \A i \in DOMAIN parts : parts[i].kind # "bad"

WellFormed(t) ==
    SaysSomething(t.subject) /\ NothingBad(t.subject) /\ NothingBad(t.san)

(* A subject of commas and blanks: a text that is not empty and no name.   *)
OnlySeparators(t) ==
    ~SaysSomething(t.subject) /\ Len(t.subject) > 1 /\ NothingBad(t.san)

----------------------------------------------------------------------------
(* runRequest *)

Idle == pc = "idle"

Flags == [parses : BOOLEAN, paths : BOOLEAN, algorithm : {"ecdsa-p256", "rsa-2048", "other"}]

FlagsOK(f) == f.parses /\ f.paths /\ f.algorithm # "other"

(* ParseDN and ParseSANs of what was typed. *)
Parsed ==
    [t \in Typed |->
        LET subject == ParseDN(Line(t.subject))
            sans    == ParseSANs(Line(t.san))
        IN  [ ok    |-> subject.ok /\ sans.ok,
              names |-> [name |-> subject.name, dns |-> sans.dns, ips |-> sans.ips] ]]

(* x509.CreateCertificateRequest *)
CanEncode(names) == \A i \in DOMAIN names.dns : ToSet(names.dns[i]) \cap NotASCII = {}

UsageError(f) ==
    /\ Idle
    /\ ~FlagsOK(f)
    /\ exit' = 2
    /\ verdict' = "unread"
    /\ reported' = {}
    /\ UNCHANGED <<userFiles, pc, job, made, issued, saved>>

Judged(t) ==
    verdict' = CASE WellFormed(t)     -> "wellFormed"
                 [] OnlySeparators(t) -> "onlySeparators"
                 [] OTHER             -> "malformed"

RefuseNames(t) ==
    /\ Idle
    /\ ~Parsed[t].ok
    /\ Judged(t)
    /\ exit' = 2
    /\ reported' = {}
    /\ UNCHANGED <<userFiles, pc, job, made, issued, saved>>

CannotEncode(t) ==
    /\ Idle
    /\ Parsed[t].ok
    /\ ~CanEncode(Parsed[t].names)
    /\ Judged(t)
    /\ exit' = 1
    /\ reported' = {}
    /\ UNCHANGED <<userFiles, pc, job, made, issued, saved>>

(* GenerateCSR: the key and the encoded request, still in memory. *)
BeginRequest(t, out) ==
    /\ Idle
    /\ Parsed[t].ok
    /\ CanEncode(Parsed[t].names)
    /\ made < MaxKeys
    /\ Judged(t)
    /\ made' = made + 1
    /\ pc' = "writeKey"
    /\ job' = [ outKey  |-> out[1],
                outCSR  |-> out[2],
                request |-> Request(made + 1,
                                    [Parsed[t].names EXCEPT !.name = Encoded(@)],
                                    Meant(t)) ]
    /\ exit' = -1
    /\ reported' = {}
    /\ UNCHANGED <<userFiles, issued, saved>>

----------------------------------------------------------------------------
(* SavePrivateKey, through writeFileAtomic *)

(* The program ends; without an exit code if it is killed. *)
End(code) ==
    /\ pc' = "idle"
    /\ job' = Nothing
    /\ exit' = code

(* Mutant: the request is written before the key it belongs to is saved. *)
WriteKeyAfterRequest ==
    /\ pc = "writeKey"
    /\ files' = [files EXCEPT ![job.outCSR] = job.request]
    /\ tmp' = [tmp EXCEPT ![job.outKey] = UserKey(job.request.key)]
    /\ pc' = "renameKey"
    /\ UNCHANGED <<job, made, issued, history, exit>>

WriteKey ==
    /\ pc = "writeKey"
    /\ tmp' = [tmp EXCEPT ![job.outKey] = UserKey(job.request.key)]
    /\ pc' = "renameKey"
    /\ UNCHANGED <<files, job, made, issued, history, exit>>

RenameKey ==
    /\ pc = "renameKey"
    /\ files' = [files EXCEPT ![job.outKey] = tmp[job.outKey]]
    /\ tmp' = [tmp EXCEPT ![job.outKey] = Absent]
    /\ saved' = saved \cup {job.request.key}
    /\ pc' = "writeRequest"
    /\ UNCHANGED <<job, made, issued, verdict, reported, exit>>

(* Mutant: the error of the write is dropped. *)
SaveKeyFailsUnnoticed ==
    /\ pc = "writeKey" /\ "write" \in Faults
    /\ tmp' = [tmp EXCEPT ![job.outKey] = Torn]
    /\ pc' = "renameKey"
    /\ UNCHANGED <<files, job, made, issued, history, exit>>

(* The .tmp file of a step that failed or was cut short. *)
AfterPartialSave ==
    {tmp} \cup IF pc = "writeKey" THEN {[tmp EXCEPT ![job.outKey] = Torn]} ELSE {}

(* The write or the rename fails; so may the removal of the .tmp file.     *)
SaveKeyFails ==
    /\ \/ pc = "writeKey" /\ "write" \in Faults
       \/ pc = "renameKey" /\ "rename" \in Faults
    /\ tmp' \in {[tmp EXCEPT ![job.outKey] = Absent]}
                \cup IF "remove" \in Faults THEN AfterPartialSave ELSE {}
    /\ End(1)
    /\ UNCHANGED <<files, made, issued, history>>

----------------------------------------------------------------------------
(* The request itself is written in place *)

WriteRequest ==
    /\ pc = "writeRequest"
    /\ files' = [files EXCEPT ![job.outCSR] = job.request]
    /\ reported' = {<<job.outKey, job.outCSR>>}
    /\ End(0)
    /\ UNCHANGED <<tmp, made, issued, verdict, saved>>

AfterPartialWrite == {files, [files EXCEPT ![job.outCSR] = Torn]}

(* Mutant: the error of the write is dropped. *)
WriteRequestFailsUnnoticed ==
    /\ pc = "writeRequest"
    /\ "write" \in Faults
    /\ files' \in AfterPartialWrite
    /\ reported' = {<<job.outKey, job.outCSR>>}
    /\ End(0)
    /\ UNCHANGED <<tmp, made, issued, verdict, saved>>

WriteRequestFails ==
    /\ pc = "writeRequest"
    /\ "write" \in Faults
    /\ files' \in AfterPartialWrite
    /\ End(1)
    /\ UNCHANGED <<tmp, made, issued, history>>

Crash ==
    /\ ~Idle
    /\ "crash" \in Faults
    /\ tmp' \in AfterPartialSave
    /\ files' \in IF pc = "writeRequest" THEN AfterPartialWrite ELSE {files}
    /\ End(-1)
    /\ UNCHANGED <<made, issued, history>>

----------------------------------------------------------------------------
(* `ca sign` of one of the files: the names are copied, the index gets     *)
(* what FormatDN prints.                                                   *)

Sign(p) ==
    /\ Idle
    /\ files[p].kind = "request"
    /\ issued' = {[ request |-> files[p],
                    listed  |-> FormatDN(files[p].names.name) ]}
    /\ exit' = 0
    /\ verdict' = "unread"
    /\ UNCHANGED <<userFiles, pc, job, made, saved, reported>>

SignFails(p) ==
    /\ Idle
    /\ files[p].kind # "request"
    /\ exit' = 1
    /\ verdict' = "unread"
    /\ UNCHANGED <<userFiles, pc, job, made, issued, saved, reported>>

----------------------------------------------------------------------------

Init ==
    /\ files = [p \in UserPaths |-> Absent]
    /\ tmp = [p \in UserPaths |-> Absent]
    /\ pc = "idle"
    /\ job = Nothing
    /\ made = 0
    /\ issued = {}
    /\ verdict = "unread"
    /\ saved = {}
    /\ reported = {}
    /\ exit = 0

User ==
    \/ \E f \in Flags : UsageError(f)
    \/ \E t \in Typed : RefuseNames(t) \/ CannotEncode(t)
    \/ \E t \in Typed, out \in Outputs : BeginRequest(t, out)
    \/ \E p \in UserPaths : Sign(p) \/ SignFails(p)

Progress ==
    \/ WriteKey \/ RenameKey \/ SaveKeyFails
    \/ WriteRequest \/ WriteRequestFails

Next == User \/ Progress \/ Crash

Spec == Init /\ [][Next]_vars

----------------------------------------------------------------------------
(* Properties *)

(* A private key is never found cut short under its own path, however      *)
(* often the same paths are used again; only a request may be torn.        *)
TypeOK ==
    /\ \A p \in UserPaths :
        /\ files[p].kind \in {"absent", "torn", "key", "request"}
        /\ files[p] = Torn => \E out \in Outputs : out[2] = p
        /\ tmp[p].kind \in {"absent", "torn", "key"}
    /\ pc \in {"idle", "writeKey", "renameKey", "writeRequest"}
    /\ made \in 0 .. MaxKeys /\ saved \subseteq 1 .. made
    /\ exit \in {-1, 0, 1, 2}

Requests == {files[p] : p \in {q \in UserPaths : files[q].kind = "request"}}
                \cup {c.request : c \in issued}

(* CON-BD-020: a request, and the certificate signed from it, hold every   *)
(* alternative name the user typed and, of each attribute, all the values  *)
(* typed and no others (ParseDN, ParseSANs).  Several common names are left *)
(* out: of them the program keeps only the last, against CON-BD-020.        *)
NameAsTyped ==
    \A r \in Requests :
        /\ r.names.dns = r.asked.dns /\ r.names.ips = r.asked.ips
        /\ \A a \in Attributes :
            a # "CN" \/ Len(r.asked.name[a]) <= 1 =>
                r.names.name[a] = Sorted(r.asked.name[a])

(* CON-BD-005, CON-DI-003: the subject index.json lists, typed again,      *)
(* names the subject of the certificate (FormatDN after the DER encoding   *)
(* has sorted the values of an attribute, ParseDN).                        *)
ListedNameReadsBack ==
    \A c \in issued :
        c.request.names.name # EmptyName =>
            /\ ParseDN(c.listed).ok
            /\ ParseDN(c.listed).name = c.request.names.name

(* CON-BD-019, CON-BD-021: names are refused with exit code 2 exactly if   *)
(* some component is malformed or no subject was typed.  A subject of       *)
(* separators only is left out: ParseDN accepts it, against CON-BD-019.     *)
RefusedExactlyIfMalformed ==
    verdict \in {"wellFormed", "malformed"} => (exit = 2 <=> verdict = "malformed")

(* GenerateCSR saves the key first: whatever fails or dies, no request can *)
(* be found, and none was ever certified, whose key had not been saved.    *)
CertifiedKeyWasSaved == \A r \in Requests : r.key \in saved

(* CON-BD-020: a request that has reported success has left a key under    *)
(* the path given with --out-key.                                          *)
KeyIsLeft == \A out \in reported : files[out[1]].kind = "key"

(* CON-BD-020: and, of two different paths, the key and the request that   *)
(* belong together.  Of one path for both only KeyIsLeft speaks.           *)
PairMatches ==
    \A out \in reported :
        out[1] # out[2] =>
            /\ files[out[1]].kind = "key" /\ files[out[2]].kind = "request"
            /\ files[out[1]].key = files[out[2]].key

=============================================================================
