----------------------------- MODULE CACommands -----------------------------
(***************************************************************************)
(* The command line as a script sees it: the commands on one data          *)
(* directory, the checks each makes before it does anything, its exit code *)
(* and the clock it reads.  Every command is one step here; CAStore has    *)
(* the same commands file by file, with what can go wrong in between.      *)
(*                                                                         *)
(* Time is counted in ticks, a fraction of a second, so that a reading of  *)
(* the clock may fall between the whole seconds certificates record.       *)
(***************************************************************************)
EXTENDS CAFiles, CASerials, Integers

CONSTANTS
    Times,        \* the readings of the clock at which a command is run
    Days,         \* values of --validity
    Hours,        \* values of --next-update
    Second,       \* ticks in a second
    Hour,         \* ticks in an hour, the value of time.Hour
    HoursPerDay,  \* 24 in the program
    Limit         \* the first number a time.Duration cannot hold, 2^63 in the program

ASSUME TimeAssumption ==
    /\ Times \subseteq Int /\ Days \subseteq Int /\ Hours \subseteq Int
    /\ Second \in Nat \ {0} /\ Hour \in Nat \ {0} /\ Hour % Second = 0
    /\ HoursPerDay \in Nat /\ Limit \in Nat \ {0}

VARIABLES
    now,        \* what the system clock shows
    root,       \* {} or {the certificate in ca.crt}
    serial,     \* the text in serial
    crlnumber,  \* the text in crlnumber
    index,      \* the entries of index.json
    certs,      \* the certificates in certs/
    crl,        \* {} or {the list in ca.crl}
    exit        \* the exit code of the last command

directory == <<root, serial, crlnumber, index, certs, crl>>
vars      == <<now, root, serial, crlnumber, index, certs, crl, exit>>

NoText == [digits |-> << >>, upper |-> FALSE]

IsInitialized == root # {}

----------------------------------------------------------------------------
(* Time *)

(* Arithmetic on time.Duration wraps around. *)
Word(x) == ((x + Limit) % (2 * Limit)) - Limit

(* Mutant: the factor 24 is missing. *)
DaysLaterInHours(n) == Word(n * Hour)

DaysLater(n) == Word(Word(n * HoursPerDay) * Hour)
HoursLater(n) == Word(n * Hour)

(* X.509 and RFC 3339 drop the fraction of a second. *)
WholeSeconds(t) == t - (t % Second)

(* asked is history: the period the operator gave. *)
Issue(n, k, days) ==
    [ serial    |-> n,
      signer    |-> k,
      notBefore |-> WholeSeconds(now),
      notAfter  |-> WholeSeconds(now + DaysLater(days)),
      asked     |-> days ]

----------------------------------------------------------------------------
(* What the read-only commands answer *)

(* Mutant: the boundary is counted as expired. *)
DisplayStatusEarly(e) ==
    CASE e.status = "revoked" -> "revoked"
      [] e.status # "revoked" /\ now >= e.notAfter -> "expired"
      [] OTHER -> "active"

(* ListCerts *)
DisplayStatus(e) ==
    CASE e.status = "revoked" -> "revoked"
      [] e.status # "revoked" /\ now > e.notAfter -> "expired"
      [] OTHER -> "active"

(* crl.go:27, back from the codes of a list to the names of reasons. *)
ReasonNames ==
    [code \in {0, 1, 3, 4, 5} |-> CHOOSE r \in DOMAIN ReasonCodes : ReasonCodes[r] = code]

Revocation(c) ==
    LET hits == {e \in UNION {l.revoked : l \in crl} : e.serial = c.serial}
    IN  CASE crl = {}                -> "not checked"
          [] crl # {} /\ hits = {}   -> "ok"
          [] OTHER                   -> ReasonNames[(CHOOSE e \in hits : TRUE).code]

InPeriod(c) == ~(now < c.notBefore) /\ ~(now > c.notAfter)

SignedByRoot(c) == \E r \in root : c.signer = r.signer

(* VerifyCert; a failed signature ends it before the other checks. *)
Verdict(c) ==
    IF ~SignedByRoot(c)
    THEN [sigOK |-> FALSE, expiryOK |-> FALSE, revocation |-> "not reached", valid |-> FALSE]
    ELSE [ sigOK      |-> TRUE,
           expiryOK   |-> InPeriod(c),
           revocation |-> Revocation(c),
           valid      |-> InPeriod(c) /\ Revocation(c) \in {"ok", "not checked"} ]

----------------------------------------------------------------------------
(* How a command ends *)

Ends(code) == exit' = code /\ UNCHANGED <<now, directory>>

Succeeds   == Ends(0)   \* of a command that only reads
Fails      == Ends(1)
UsageError == Ends(2)

(* No command, or an unknown one. *)
RunUnknown == UsageError

----------------------------------------------------------------------------
(* ca init *)

InitArgs ==
    [ parses    : BOOLEAN,
      subject   : {"", "malformed", "well formed"},
      algorithm : {"ecdsa-p256", "rsa-2048", "other"},
      days      : Days ]

InitArgsOK(a) ==
    /\ a.parses
    /\ a.subject = "well formed"
    /\ a.algorithm # "other"
    /\ a.days > 0

RunInit(a) ==
    \/ ~InitArgsOK(a) /\ UsageError
    \/ InitArgsOK(a) /\ IsInitialized /\ Fails
    \/ /\ InitArgsOK(a)
       /\ ~IsInitialized
       /\ \E k \in Keys : root' = {Issue(1, k, a.days)}
       /\ serial' = FormatSerial(2)
       /\ crlnumber' = FormatSerial(1)
       /\ index' = << >>
       /\ exit' = 0
       /\ UNCHANGED <<now, certs, crl>>

----------------------------------------------------------------------------
(* ca sign *)

SignArgs == [parses : BOOLEAN, positional : BOOLEAN, days : Days]

SignArgsOK(a) == a.parses /\ a.positional /\ a.days > 0

(* request is {} if the file cannot be read. *)
Issuable(request) == IsInitialized /\ \E csr \in request : PassesGate(csr)

RunSign(a) ==
    \/ ~SignArgsOK(a) /\ UsageError
    \/ /\ SignArgsOK(a)
       /\ \E request \in {{}} \cup {{csr} : csr \in CSR} : ~Issuable(request)
       /\ Fails
    \/ /\ SignArgsOK(a)
       /\ \E csr \in CSR : Issuable({csr})
       /\ ParseSerial(serial) <= MaxSerial
       /\ \E r \in root :
            LET c == Issue(ParseSerial(serial), r.signer, a.days) IN
            /\ certs' = certs \cup {c}
            /\ index' = Append(index, [ serial   |-> FormatSerial(c.serial),
                                        notAfter |-> c.notAfter,
                                        status   |-> "active",
                                        reason   |-> NoReason ])
       /\ serial' = FormatSerial(ParseSerial(serial) + 1)
       /\ exit' = 0
       /\ UNCHANGED <<now, root, crlnumber, crl>>

----------------------------------------------------------------------------
(* ca revoke *)

RevokeArgs == [parses : BOOLEAN, positional : BOOLEAN, reason : Reasons \cup {"other"}]

RevokeArgsOK(a) == a.parses /\ a.positional /\ a.reason \in DOMAIN ReasonCodes

(* What an operator may type for a serial: a digit more than the program prints. *)
Arguments == Text(Len(FormatSerial(MaxSerial).digits) + 1)

(* Mutant: the argument is compared as it was typed. *)
FindsAsTyped(argument, i) == IsFirstMatch(index, argument, i)

(* runRevoke lowers the argument, RevokeCert takes the first equal text. *)
Finds(argument, i) == IsFirstMatch(index, ToLower(argument), i)

Revocable(argument, i) ==
    IsInitialized /\ Finds(argument, i) /\ index[i].status # "revoked"

RunRevoke(a) ==
    \/ ~RevokeArgsOK(a) /\ UsageError
    \/ /\ RevokeArgsOK(a)
       /\ \E argument \in Arguments : ~\E i \in DOMAIN index : Revocable(argument, i)
       /\ Fails
    \/ /\ RevokeArgsOK(a)
       /\ \E argument \in Arguments, i \in DOMAIN index :
            /\ Revocable(argument, i)
            /\ index' = [index EXCEPT ![i] = MarkRevoked(index[i], a.reason)]
       /\ exit' = 0
       /\ UNCHANGED <<now, root, serial, crlnumber, certs, crl>>

----------------------------------------------------------------------------
(* ca crl *)

CRLArgs == [parses : BOOLEAN, hours : Hours]

CRLArgsOK(a) == a.parses /\ a.hours > 0

(* Mutant: a certificate that has expired is left off the list. *)
RevokedOnListUnexpired ==
    {[serial |-> ParseSerial(index[i].serial), code |-> ReasonCode(index[i].reason)] :
        i \in {j \in DOMAIN index : index[j].status = "revoked" /\ now <= index[j].notAfter}}

(* Mutant: the serial texts are parsed in another base. *)
RevokedOnListOtherBase ==
    {[ serial |-> FoldLeft(LAMBDA value, d : value * (Base - 1) + d, 0, index[i].serial.digits),
       code   |-> ReasonCode(index[i].reason) ] :
        i \in {j \in DOMAIN index : index[j].status = "revoked"}}

RevokedOnList ==
    {[serial |-> ParseSerial(index[i].serial), code |-> ReasonCode(index[i].reason)] :
        i \in {j \in DOMAIN index : index[j].status = "revoked"}}

(* x509.CreateRevocationList refuses a list that ends before it begins. *)
ListPeriodOK(thisUpdate, nextUpdate) == ~(nextUpdate < thisUpdate)

RunCRL(a) ==
    LET nextUpdate == now + HoursLater(a.hours) IN
    \/ ~CRLArgsOK(a) /\ UsageError
    \/ CRLArgsOK(a) /\ ~(IsInitialized /\ ListPeriodOK(now, nextUpdate)) /\ Fails
    \/ /\ CRLArgsOK(a)
       /\ IsInitialized /\ ListPeriodOK(now, nextUpdate)
       /\ ParseSerial(crlnumber) <= MaxCRLNumber
       /\ crl' = {[ number     |-> ParseSerial(crlnumber),
                    revoked    |-> RevokedOnList,
                    thisUpdate |-> WholeSeconds(now),
                    nextUpdate |-> WholeSeconds(nextUpdate),
                    asked      |-> a.hours ]}
       /\ crlnumber' = FormatSerial(ParseSerial(crlnumber) + 1)
       /\ exit' = 0
       /\ UNCHANGED <<now, root, serial, index, certs>>

----------------------------------------------------------------------------
(* ca list and ca verify *)

RunList(parses) ==
    \/ ~parses /\ UsageError
    \/ parses /\ ~IsInitialized /\ Fails
    \/ parses /\ IsInitialized /\ Succeeds

(* Certificates of another authority, as good as certificates can be. *)
Foreign ==
    [ serial    : Serials,
      signer    : {k \in Keys : \A r \in root : r.signer # k},
      notBefore : {CHOOSE t \in Times : \A u \in Times : t <= u},
      notAfter  : {CHOOSE t \in Times : \A u \in Times : t >= u} ]

Presented == root \cup certs \cup Foreign

VerifyArgs == [parses : BOOLEAN, positional : BOOLEAN]

(* certificate is {} if the file cannot be read or holds none. *)
RunVerify(a, certificate) ==
    \/ ~(a.parses /\ a.positional) /\ UsageError
    \/ a.parses /\ a.positional /\ (certificate = {} \/ ~IsInitialized) /\ Fails
    \/ /\ a.parses /\ a.positional /\ IsInitialized
       /\ \E c \in certificate : IF Verdict(c).valid THEN Succeeds ELSE Fails

----------------------------------------------------------------------------

(* The clock goes on, or is set, forward or back. *)
SetClock(t) ==
    /\ now' = t
    /\ UNCHANGED <<directory, exit>>

Init ==
    /\ now \in Times
    /\ root = {}
    /\ serial = NoText
    /\ crlnumber = NoText
    /\ index = << >>
    /\ certs = {}
    /\ crl = {}
    /\ exit = 0

Next ==
    \/ \E t \in Times : SetClock(t)
    \/ RunUnknown
    \/ \E a \in InitArgs : RunInit(a)
    \/ \E a \in SignArgs : RunSign(a)
    \/ \E a \in RevokeArgs : RunRevoke(a)
    \/ \E a \in CRLArgs : RunCRL(a)
    \/ \E parses \in BOOLEAN : RunList(parses)
    \/ \E a \in VerifyArgs, certificate \in {{}} \cup {{c} : c \in Presented} :
            RunVerify(a, certificate)

Spec == Init /\ [][Next]_vars

----------------------------------------------------------------------------
(* Properties *)

(* CON-DI-002 among the types: every number is kept as text of at least    *)
(* two digits in lower case.                                               *)
TypeOK ==
    /\ now \in Times
    /\ \A t \in ({serial, crlnumber} \ {NoText}) \cup {index[i].serial : i \in DOMAIN index} :
        Len(t.digits) >= 2 /\ ~t.upper
    /\ \A c \in root \cup certs : c.signer \in Keys /\ c.serial \in {1} \cup Serials
    /\ \A i \in DOMAIN index : index[i].status \in {"active", "revoked"}
    /\ \A l \in crl : l.number \in 1 .. MaxCRLNumber

EntryOf(c) ==
    index[CHOOSE i \in DOMAIN index : ParseSerial(index[i].serial) = c.serial]

(* Nothing was revoked since the last `ca crl`. *)
ListIsCurrent == RevokedOnList = UNION {l.revoked : l \in crl}

(* CON-BD-014, CON-BD-017: whatever list is in place, a certificate that   *)
(* `ca list` shows as active verifies as VALID; only a list that is behind *)
(* makes `ca verify` accept one that is not active, never the reverse. At  *)
(* the boundary of a period and for one that has wrapped around too,       *)
(* unless the clock was set back before the issue (ListCerts, VerifyCert). *)
ListAndVerifyAgree ==
    \A c \in certs :
        now >= c.notBefore =>
            /\ DisplayStatus(EntryOf(c)) = "active" => Verdict(c).valid
            /\ ListIsCurrent /\ Verdict(c).valid => DisplayStatus(EntryOf(c)) = "active"

(* CON-DI-006, CON-INV-003: whatever list is in place, a certificate it    *)
(* makes `ca verify` report as revoked is listed as revoked, for that      *)
(* reason: codes and serial texts there and back (GenerateCRL, VerifyCert).*)
RevokedIsListed ==
    \A c \in certs :
        Verdict(c).revocation \notin {"ok", "not checked"} =>
            /\ DisplayStatus(EntryOf(c)) = "revoked"
            /\ EntryOf(c).reason = Verdict(c).revocation

(* CON-INV-003 as a relying party sees it: once `ca verify` has reported a *)
(* certificate as revoked it does so for ever, for the same reason, even   *)
(* after the certificate expires or the clock is set back.                 *)
RevokedForEver ==
    [][ \A c \in certs :
            Verdict(c).revocation \notin {"ok", "not checked"} =>
                Verdict(c)'.revocation = Verdict(c).revocation ]_vars

(* The days a Duration can hold; 106751 with 64 bits. *)
Representable(days) == days * HoursPerDay * Hour < Limit

(* CON-BD-004, CON-BD-017: a certificate is in its period from the second  *)
(* of its issue to exactly as many days later as the operator asked for,   *)
(* for every number of days a Duration can hold (SignCSR, VerifyCert).     *)
PeriodAsAsked ==
    \A c \in certs \cup root :
        Representable(c.asked) =>
            (Verdict(c).expiryOK <=>
                /\ c.notBefore <= now
                /\ now <= c.notBefore + c.asked * HoursPerDay * Hour)

(* CON-BD-007: the text the program prints for an active certificate, in   *)
(* upper or lower case, revokes it, and no text revokes a certificate of   *)
(* another number (FormatSerial, runRevoke, RevokeCert).                   *)
SerialTextIsItsName ==
    \A i \in DOMAIN index :
        /\ \A t \in Arguments :
            Finds(t, i) => ParseSerial(t) = ParseSerial(index[i].serial)
        /\ \A upper \in {FALSE, HasLetter(index[i].serial.digits)} :
            Finds([index[i].serial EXCEPT !.upper = upper], i)

(* CON-BD-011: nextUpdate is thisUpdate plus the configured hours.         *)
NextUpdateAsAsked ==
    \A l \in crl : l.nextUpdate = l.thisUpdate + l.asked * Hour

=============================================================================
