-------------------------- MODULE CARequestProofs --------------------------
(***************************************************************************)
(* `ca request`, for any paths, names, bound and faults: no request        *)
(* without a key that was saved, the pair a successful command leaves      *)
(* belongs together, no key is found cut short, and the names a user types *)
(* are refused exactly if malformed and otherwise reach the index.         *)
(***************************************************************************)
EXTENDS CANamesProofs

----------------------------------------------------------------------------
(* The inductive invariant *)

FilesAreFunctions ==
    /\ files = [p \in UserPaths |-> files[p]]
    /\ tmp = [p \in UserPaths |-> tmp[p]]

(* What a running request relies on, and that it has not reported yet. *)
JobInv ==
    pc # "idle" =>
        /\ job.outKey \in UserPaths
        /\ job.outCSR \in UserPaths
        /\ job.request.kind = "request"
        /\ reported = {}

KeyStaged == pc = "renameKey" => tmp[job.outKey] = UserKey(job.request.key)

KeyPlaced ==
    pc = "writeRequest" =>
        /\ job.request.key \in saved
        /\ files[job.outKey] = UserKey(job.request.key)

FilesHaveSavedKeys ==
    \A p \in UserPaths : files[p].kind = "request" => files[p].key \in saved

IssuedHaveSavedKeys == \A c \in issued : c.request.key \in saved

RequestInv ==
    /\ FilesAreFunctions
    /\ JobInv
    /\ KeyStaged
    /\ KeyPlaced
    /\ FilesHaveSavedKeys
    /\ IssuedHaveSavedKeys
    /\ PairMatches

----------------------------------------------------------------------------
(* The files and what is remembered of them are untouched, the command     *)
(* that ran is over or has not begun.                                      *)
LEMMA NothingSaved ==
    ASSUME RequestInv,
           UNCHANGED <<files, issued, saved>>,
           tmp' = [p \in UserPaths |-> tmp'[p]],
           pc' = "idle",
           reported' \in {reported, {}}
    PROVE  RequestInv'
  BY DEF RequestInv, FilesAreFunctions, JobInv, KeyStaged, KeyPlaced,
         FilesHaveSavedKeys, IssuedHaveSavedKeys, PairMatches

LEMMA NoRequest == Absent.kind # "request" /\ Torn.kind # "request"
  BY DEF Absent, Torn

LEMMA InitHolds == Init => RequestInv
  <1> SUFFICES ASSUME Init PROVE RequestInv
    OBVIOUS
  <1>1. FilesHaveSavedKeys
    BY NoRequest DEF Init, FilesHaveSavedKeys
  <1>2. FilesAreFunctions
    BY DEF Init, FilesAreFunctions
  <1>3. JobInv /\ KeyStaged /\ KeyPlaced
    BY DEF Init, JobInv, KeyStaged, KeyPlaced
  <1>4. IssuedHaveSavedKeys /\ PairMatches
    BY DEF Init, IssuedHaveSavedKeys, PairMatches
  <1> QED
    BY <1>1, <1>2, <1>3, <1>4 DEF RequestInv

----------------------------------------------------------------------------
(* The steps of a running command *)

LEMMA BeginKeeps ==
    ASSUME RequestInv, NEW t \in Typed, NEW out \in Outputs, BeginRequest(t, out)
    PROVE  RequestInv'
  <1>1. job'.outKey \in UserPaths /\ job'.outCSR \in UserPaths
    BY OutputsAssumption DEF BeginRequest
  <1>2. job'.request.kind = "request"
    BY DEF BeginRequest, Request
  <1> QED
    BY <1>1, <1>2 DEF BeginRequest, userFiles, RequestInv, FilesAreFunctions, JobInv,
       KeyStaged, KeyPlaced, FilesHaveSavedKeys, IssuedHaveSavedKeys, PairMatches

LEMMA WriteKeyKeeps ==
    ASSUME RequestInv, WriteKey
    PROVE  RequestInv'
  <1>1. /\ job.outKey \in UserPaths
        /\ tmp'[job.outKey] = UserKey(job.request.key)
        /\ tmp' = [p \in UserPaths |-> tmp'[p]]
    BY DEF WriteKey, RequestInv, FilesAreFunctions, JobInv
  <1> QED
    BY <1>1 DEF WriteKey, history, RequestInv, FilesAreFunctions, JobInv, KeyStaged,
       KeyPlaced, FilesHaveSavedKeys, IssuedHaveSavedKeys, PairMatches

(* After the rename the key is under its path and counts as saved. *)
LEMMA RenameKeyKeeps ==
    ASSUME RequestInv, RenameKey
    PROVE  RequestInv'
  <1>1. /\ job.outKey \in UserPaths
        /\ tmp[job.outKey] = UserKey(job.request.key)
        /\ reported = {}
    BY DEF RenameKey, RequestInv, JobInv, KeyStaged
  <1>2. /\ files'[job.outKey] = UserKey(job.request.key)
        /\ \A p \in UserPaths \ {job.outKey} : files'[p] = files[p]
    BY <1>1 DEF RenameKey, RequestInv, FilesAreFunctions
  <1>3. FilesAreFunctions'
    BY <1>1 DEF RenameKey, RequestInv, FilesAreFunctions
  <1>4. FilesHaveSavedKeys'
    <2>1. UserKey(job.request.key).kind # "request"
      BY DEF UserKey
    <2>2. saved \subseteq saved'
      BY DEF RenameKey
    <2> QED
      BY <1>2, <2>1, <2>2 DEF RequestInv, FilesHaveSavedKeys
  <1>5. JobInv' /\ KeyStaged' /\ KeyPlaced'
    BY <1>2 DEF RenameKey, RequestInv, JobInv, KeyStaged, KeyPlaced
  <1>6. IssuedHaveSavedKeys' /\ PairMatches'
    BY <1>1 DEF RenameKey, RequestInv, IssuedHaveSavedKeys, PairMatches
  <1> QED
    BY <1>3, <1>4, <1>5, <1>6 DEF RequestInv

LEMMA SaveKeyFailsKeeps ==
    ASSUME RequestInv, SaveKeyFails
    PROVE  RequestInv'
  <1>1. tmp' = [p \in UserPaths |-> tmp'[p]]
    BY DEF SaveKeyFails, AfterPartialSave, RequestInv, FilesAreFunctions
  <1> QED
    BY <1>1, NothingSaved DEF SaveKeyFails, End, history

(* The request arrives beside the key that was placed before it. *)
LEMMA WriteRequestKeeps ==
    ASSUME RequestInv, WriteRequest
    PROVE  RequestInv'
  <1>1. /\ job.outKey \in UserPaths /\ job.outCSR \in UserPaths
        /\ job.request.kind = "request"
        /\ job.request.key \in saved
        /\ files[job.outKey] = UserKey(job.request.key)
    BY DEF WriteRequest, RequestInv, JobInv, KeyPlaced
  <1>2. /\ files'[job.outCSR] = job.request
        /\ \A p \in UserPaths \ {job.outCSR} : files'[p] = files[p]
        /\ files' = [p \in UserPaths |-> files'[p]]
    BY <1>1 DEF WriteRequest, RequestInv, FilesAreFunctions
  <1>3. FilesHaveSavedKeys'
    BY <1>1, <1>2 DEF WriteRequest, RequestInv, FilesHaveSavedKeys
  <1>4. PairMatches'
    <2> DEFINE pair == <<job.outKey, job.outCSR>>
    <2>1. pair[1] = job.outKey /\ pair[2] = job.outCSR
      OBVIOUS
    <2>2. reported' = {pair}
      BY DEF WriteRequest
    <2> HIDE DEF pair
    <2>3. \A out \in reported' : out[1] = job.outKey /\ out[2] = job.outCSR
      BY <2>1, <2>2
    <2> SUFFICES ASSUME job.outKey # job.outCSR
                 PROVE  /\ files'[job.outKey].kind = "key"
                        /\ files'[job.outCSR].kind = "request"
                        /\ files'[job.outKey].key = files'[job.outCSR].key
      BY <2>3 DEF PairMatches
    <2>4. files'[job.outKey] = UserKey(job.request.key)
      BY <1>1, <1>2
    <2>5. /\ UserKey(job.request.key).kind = "key"
          /\ UserKey(job.request.key).key = job.request.key
      BY DEF UserKey
    <2> QED
      BY <1>1, <1>2, <2>4, <2>5
  <1>5. JobInv' /\ KeyStaged' /\ KeyPlaced'
    BY DEF WriteRequest, End, JobInv, KeyStaged, KeyPlaced
  <1>6. FilesAreFunctions' /\ IssuedHaveSavedKeys'
    BY <1>2 DEF WriteRequest, RequestInv, FilesAreFunctions, IssuedHaveSavedKeys
  <1> QED
    BY <1>3, <1>4, <1>5, <1>6 DEF RequestInv

(* A torn file is no request, and nothing was reported of the paths. *)
LEMMA PartialWriteKeeps ==
    ASSUME RequestInv,
           pc = "writeRequest",
           files' \in AfterPartialWrite,
           pc' = "idle",
           UNCHANGED <<tmp, issued, saved, reported>>
    PROVE  RequestInv'
  <1>1. job.outCSR \in UserPaths /\ reported = {}
    BY DEF RequestInv, JobInv
  <1>2. /\ files' = [p \in UserPaths |-> files'[p]]
        /\ \A p \in UserPaths : files'[p] \in {files[p], Torn}
    BY <1>1 DEF AfterPartialWrite, RequestInv, FilesAreFunctions
  <1>3. FilesHaveSavedKeys'
    BY <1>2, NoRequest DEF RequestInv, FilesHaveSavedKeys
  <1> QED
    BY <1>1, <1>2, <1>3 DEF RequestInv, FilesAreFunctions, JobInv, KeyStaged, KeyPlaced,
       IssuedHaveSavedKeys, PairMatches

LEMMA CrashKeeps ==
    ASSUME RequestInv, Crash
    PROVE  RequestInv'
  <1>1. CASE pc = "writeRequest"
    BY <1>1, PartialWriteKeeps DEF Crash, AfterPartialSave, End, history
  <1>2. CASE pc # "writeRequest"
    <2>1. tmp' = [p \in UserPaths |-> tmp'[p]]
      BY DEF Crash, AfterPartialSave, RequestInv, FilesAreFunctions
    <2> QED
      BY <1>2, <2>1, NothingSaved DEF Crash, AfterPartialSave, End, history
  <1> QED
    BY <1>1, <1>2

----------------------------------------------------------------------------
(* `ca sign` *)

LEMMA SignKeeps ==
    ASSUME RequestInv, NEW p \in UserPaths, Sign(p)
    PROVE  RequestInv'
  <1>1. files[p].key \in saved
    BY DEF Sign, RequestInv, FilesHaveSavedKeys
  <1>2. IssuedHaveSavedKeys'
    <2> DEFINE cert(text) == [request |-> files[p], listed |-> text]
    <2>1. \A text : cert(text).request = files[p]
      OBVIOUS
    <2>2. issued' = {cert(FormatDN(files[p].names.name))}
      BY DEF Sign
    <2> HIDE DEF cert
    <2>3. \A c \in issued' : c.request = files[p]
      BY <2>1, <2>2
    <2>4. saved' = saved
      BY DEF Sign
    <2> QED
      BY <1>1, <2>3, <2>4 DEF IssuedHaveSavedKeys
  <1> QED
    BY <1>2 DEF Sign, Idle, userFiles, RequestInv, FilesAreFunctions, JobInv, KeyStaged,
       KeyPlaced, FilesHaveSavedKeys, PairMatches

----------------------------------------------------------------------------

LEMMA StepKeeps == RequestInv /\ [Next]_vars => RequestInv'
  <1> SUFFICES ASSUME RequestInv, [Next]_vars
               PROVE  RequestInv'
    OBVIOUS
  <1>0. FilesAreFunctions
    BY DEF RequestInv
  <1>1. ASSUME NEW f \in Flags, UsageError(f) PROVE RequestInv'
    BY <1>0, <1>1, NothingSaved DEF UsageError, Idle, userFiles, FilesAreFunctions
  <1>2. ASSUME NEW t \in Typed, RefuseNames(t) \/ CannotEncode(t) PROVE RequestInv'
    BY <1>0, <1>2, NothingSaved DEF RefuseNames, CannotEncode, Idle, userFiles, FilesAreFunctions
  <1>3. ASSUME NEW t \in Typed, NEW out \in Outputs, BeginRequest(t, out) PROVE RequestInv'
    BY <1>3, BeginKeeps
  <1>4. ASSUME NEW p \in UserPaths, Sign(p) PROVE RequestInv'
    BY <1>4, SignKeeps
  <1>5. ASSUME NEW p \in UserPaths, SignFails(p) PROVE RequestInv'
    BY <1>0, <1>5, NothingSaved DEF SignFails, Idle, userFiles, FilesAreFunctions
  <1>6. CASE WriteRequestFails
    BY <1>6, PartialWriteKeeps DEF WriteRequestFails, End, history
  <1>7. CASE UNCHANGED vars
    BY <1>7 DEF vars, RequestInv, FilesAreFunctions, JobInv, KeyStaged, KeyPlaced,
       FilesHaveSavedKeys, IssuedHaveSavedKeys, PairMatches
  <1> QED
    BY <1>1, <1>2, <1>3, <1>4, <1>5, <1>6, <1>7, WriteKeyKeeps, RenameKeyKeeps,
       SaveKeyFailsKeeps, WriteRequestKeeps, CrashKeeps DEF Next, User, Progress

(* At every step of `ca request` and `ca sign`, whatever fails or dies: the *)
(* key is staged, placed and remembered before the request exists.         *)
THEOREM RequestInvariance == Spec => []RequestInv
  BY InitHolds, StepKeeps, PTL DEF Spec

(* GenerateCSR saves the key before the request, so no request is ever     *)
(* found or certified whose key had not been saved.                        *)
THEOREM KeysAreSaved == Spec => []CertifiedKeyWasSaved
  <1>1. RequestInv => CertifiedKeyWasSaved
    BY DEF RequestInv, FilesHaveSavedKeys, IssuedHaveSavedKeys, CertifiedKeyWasSaved, Requests
  <1> QED
    BY <1>1, RequestInvariance, PTL

(* CON-BD-020: the two files of a request that reported success belong     *)
(* together until another command is given.                                *)
THEOREM PairsMatch == Spec => []PairMatches
  <1>1. RequestInv => PairMatches
    BY DEF RequestInv
  <1> QED
    BY <1>1, RequestInvariance, PTL

----------------------------------------------------------------------------
(* Type correctness: the request under way is torn under one of the paths  *)
(* asked for, and its key is one of those made.                            *)

RunningJob ==
    pc # "idle" =>
        /\ job.request.key \in 1 .. made
        /\ \E out \in Outputs : out[2] = job.outCSR

RequestTypes == TypeOK /\ RunningJob

LEMMA Kinds ==
    /\ Absent.kind = "absent" /\ Torn.kind = "torn"
    /\ \A k : UserKey(k).kind = "key"
  BY DEF Absent, Torn, UserKey

LEMMA TypesInit == Init => RequestTypes
  <1> SUFFICES ASSUME Init PROVE RequestTypes
    OBVIOUS
  <1>1. Absent # Torn
    BY Kinds
  <1>2. \A p \in UserPaths : files[p] = Absent /\ tmp[p] = Absent
    BY DEF Init
  <1>3. made \in 0 .. MaxKeys
    BY MaxKeysAssumption DEF Init
  <1> QED
    BY <1>1, <1>2, <1>3, Kinds DEF Init, RequestTypes, TypeOK, RunningJob

LEMMA StepKeepsTypes == RequestInv /\ RequestTypes /\ [Next]_vars => RequestTypes'
  <1> SUFFICES ASSUME RequestInv, RequestTypes, [Next]_vars
               PROVE  RequestTypes'
    OBVIOUS
  <1>f. /\ files = [p \in UserPaths |-> files[p]]
        /\ tmp = [p \in UserPaths |-> tmp[p]]
    BY DEF RequestInv, FilesAreFunctions
  <1>j. pc # "idle" =>
          /\ job.outKey \in UserPaths /\ job.outCSR \in UserPaths
          /\ job.request.kind = "request" /\ job.request # Torn
    BY Kinds DEF RequestInv, JobInv
  <1>m. made \in Nat
    BY MaxKeysAssumption DEF RequestTypes, TypeOK
  <1> USE DEF RequestTypes, TypeOK, RunningJob
  <1>1. CASE UNCHANGED vars
    BY <1>1 DEF vars
  <1>2. ASSUME NEW f \in Flags, UsageError(f) PROVE RequestTypes'
    BY <1>2 DEF UsageError, Idle, userFiles
  <1>3. ASSUME NEW t \in Typed, RefuseNames(t) \/ CannotEncode(t) PROVE RequestTypes'
    BY <1>3 DEF RefuseNames, CannotEncode, Idle, userFiles
  <1>4. ASSUME NEW t \in Typed, NEW out \in Outputs, BeginRequest(t, out) PROVE RequestTypes'
    <2>1. made' = made + 1 /\ made' \in 0 .. MaxKeys /\ 1 .. made \subseteq 1 .. made'
      BY <1>4, <1>m, MaxKeysAssumption DEF BeginRequest
    <2>2. job'.request.key = made' /\ job'.outCSR = out[2]
      BY <1>4 DEF BeginRequest, Request
    <2>3. UNCHANGED <<files, tmp, saved>> /\ pc' = "writeKey" /\ exit' = -1
      BY <1>4 DEF BeginRequest, userFiles
    <2>4. QED
      BY <1>m, <2>1, <2>2, <2>3
  <1>5. ASSUME NEW p \in UserPaths, Sign(p) \/ SignFails(p) PROVE RequestTypes'
    BY <1>5 DEF Sign, SignFails, Idle, userFiles
  <1>6. CASE WriteKey
    <2>1. /\ \A p \in UserPaths : tmp'[p] \in {tmp[p], UserKey(job.request.key)}
          /\ UNCHANGED <<files, job, made, saved, exit>> /\ pc' = "renameKey" /\ pc # "idle"
      BY <1>f, <1>6 DEF WriteKey, history
    <2>2. QED
      BY <2>1, Kinds
  <1>7. CASE RenameKey
    <2>1. /\ \A p \in UserPaths : files'[p] \in {files[p], UserKey(job.request.key)}
          /\ \A p \in UserPaths : tmp'[p] \in {tmp[p], Absent}
          /\ saved' = saved \cup {job.request.key}
          /\ UNCHANGED <<job, made, exit>> /\ pc' = "writeRequest" /\ pc # "idle"
      BY <1>f, <1>7 DEF RenameKey, RequestInv, KeyStaged
    <2>2. \A p \in UserPaths :
            /\ files'[p].kind \in {"absent", "torn", "key", "request"}
            /\ files'[p] = Torn => \E out \in Outputs : out[2] = p
      BY <2>1, Kinds
    <2>3. \A p \in UserPaths : tmp'[p].kind \in {"absent", "torn", "key"}
      BY <2>1, Kinds
    <2>4. saved' \subseteq 1 .. made'
      BY <2>1
    <2>5. QED
      BY <2>1, <2>2, <2>3, <2>4
  <1>8. CASE SaveKeyFails
    <2>1. /\ \A p \in UserPaths : tmp'[p] \in {tmp[p], Absent, Torn}
          /\ UNCHANGED <<files, made, saved>> /\ pc' = "idle" /\ exit' = 1
      BY <1>f, <1>8 DEF SaveKeyFails, AfterPartialSave, End, history
    <2>2. QED
      BY <2>1, Kinds
  <1>9. CASE WriteRequest
    <2>1. /\ \A p \in UserPaths : files'[p] \in {files[p], job.request}
          /\ UNCHANGED <<tmp, made, saved>> /\ pc' = "idle" /\ exit' = 0 /\ pc # "idle"
      BY <1>f, <1>9 DEF WriteRequest, End
    <2>2. QED
      BY <1>j, <2>1
  <1>p. ASSUME pc = "writeRequest", files' \in AfterPartialWrite
        PROVE  \A p \in UserPaths : files'[p] = files[p] \/ (p = job.outCSR /\ files'[p] = Torn)
    BY <1>f, <1>p DEF AfterPartialWrite
  <1>10. CASE WriteRequestFails
    <2>1. /\ \A p \in UserPaths : files'[p] = files[p] \/ (p = job.outCSR /\ files'[p] = Torn)
          /\ UNCHANGED <<tmp, made, saved>> /\ pc' = "idle" /\ exit' = 1 /\ pc # "idle"
      BY <1>p, <1>10 DEF WriteRequestFails, End, history
    <2>2. QED
      BY <2>1, Kinds
  <1>11. CASE Crash
    <2>1. pc # "idle" /\ pc' = "idle" /\ exit' = -1 /\ UNCHANGED <<made, saved>>
      BY <1>11 DEF Crash, End, Idle, history
    <2>2. \A p \in UserPaths : files'[p] = files[p] \/ (p = job.outCSR /\ files'[p] = Torn)
      BY <1>p, <1>11 DEF Crash
    <2>3. \A p \in UserPaths : tmp'[p] \in {tmp[p], Torn}
      BY <1>f, <1>11 DEF Crash, AfterPartialSave
    <2>4. QED
      BY <2>1, <2>2, <2>3, Kinds
  <1>12. QED
    BY <1>1, <1>2, <1>3, <1>4, <1>5, <1>6, <1>7, <1>8, <1>9, <1>10, <1>11
    DEF Next, User, Progress

(* SavePrivateKey goes through a .tmp file and GenerateCSR writes the      *)
(* request in place: only a request can be found torn, and only under a    *)
(* path given with --out-csr.                                              *)
THEOREM RequestTypeCorrect == Spec => []TypeOK
  <1>1. RequestTypes => TypeOK
    BY DEF RequestTypes
  <1> QED
    BY <1>1, TypesInit, StepKeepsTypes, RequestInvariance, PTL DEF Spec

----------------------------------------------------------------------------
(* What a request holds was parsed out of what the user typed.             *)

AsTyped(r) ==
    /\ r.names.dns = r.asked.dns /\ r.names.ips = r.asked.ips
    /\ \A a \in Attributes :
        a # "CN" \/ Len(r.asked.name[a]) <= 1 =>
            r.names.name[a] = Sorted(r.asked.name[a])

ReadsBack(r) ==
    r.names.name # EmptyName =>
        /\ ParseDN(FormatDN(r.names.name)).ok
        /\ ParseDN(FormatDN(r.names.name)).name = r.names.name

NamesHold(r) == AsTyped(r) /\ ReadsBack(r)

RequestsHoldNames ==
    /\ pc # "idle" => NamesHold(job.request)
    /\ \A p \in UserPaths : files[p].kind = "request" => NamesHold(files[p])
    /\ \A c \in issued : NamesHold(c.request) /\ c.listed = FormatDN(c.request.names.name)

(* A job comes from names that parsed; a command that has ended reported   *)
(* what became of them.                                                    *)
Verdicts ==
    /\ pc # "idle" => verdict # "malformed" /\ exit = -1
    /\ RefusedExactlyIfMalformed

NamesInv == RequestsHoldNames /\ Verdicts

LEMMA NamesInit == Init => NamesInv
<1> SUFFICES ASSUME Init PROVE NamesInv
  OBVIOUS
<1>1. \A p \in UserPaths : files[p].kind # "request"
  BY NoRequest DEF Init
<1> QED
  BY <1>1 DEF Init, NamesInv, RequestsHoldNames, Verdicts, RefusedExactlyIfMalformed

(* The files change only where a key or the request of the job is placed,  *)
(* or where it is torn.                                                    *)
LEMMA FilesKeepNames ==
    ASSUME RequestsHoldNames, issued' = issued, pc' # "idle" => pc # "idle" /\ job' = job,
           \A p \in UserPaths :
                \/ files'[p] = files[p]
                \/ files'[p].kind # "request"
                \/ pc # "idle" /\ files'[p] = job.request
    PROVE  RequestsHoldNames'
BY DEF RequestsHoldNames

LEMMA EndKeepsVerdicts ==
    ASSUME Verdicts, pc # "idle", pc' = "idle", verdict' = verdict, exit' \in {-1, 0, 1}
    PROVE  Verdicts'
BY DEF Verdicts, RefusedExactlyIfMalformed

LEMMA PartialWriteKeepsNames ==
    ASSUME RequestInv, NamesInv, pc # "idle", files' \in AfterPartialWrite \cup {files},
           issued' = issued, pc' = "idle", verdict' = verdict, exit' \in {-1, 0, 1}
    PROVE  NamesInv'
<1>1. \A p \in UserPaths : files'[p] = files[p] \/ files'[p].kind # "request"
  BY NoRequest DEF AfterPartialWrite, RequestInv, FilesAreFunctions
<1>2. RequestsHoldNames'
  BY <1>1, FilesKeepNames DEF NamesInv
<1> QED
  BY <1>2, EndKeepsVerdicts DEF NamesInv

LEMMA ReadingKeepsNames ==
    ASSUME NamesInv, UNCHANGED <<files, issued>>, pc' = "idle",
           \/ verdict' \in {"unread", "onlySeparators"}
           \/ exit' = 2 <=> verdict' = "malformed"
    PROVE  NamesInv'
<1>1. RequestsHoldNames'
  BY FilesKeepNames DEF NamesInv
<1> QED
  BY <1>1 DEF NamesInv, Verdicts, RefusedExactlyIfMalformed

LEMMA BeginKeepsNames ==
    ASSUME RequestInv, NamesInv, NEW t \in Typed, NEW out \in Outputs, BeginRequest(t, out)
    PROVE  NamesInv'
<1>1. /\ WellFormed(t) \/ OnlySeparators(t)
      /\ Parsed[t].ok /\ Parsed[t].names = Kept(t)
  BY ParsedIs DEF BeginRequest
<1>2. job'.request = Request(made + 1, [Parsed[t].names EXCEPT !.name = Encoded(@)], Meant(t))
  BY DEF BeginRequest
<1>3. NamesHold(job'.request)
  <2> DEFINE names == [Kept(t) EXCEPT !.name = Encoded(@)]
  <2>1. job'.request.names = names /\ job'.request.asked = Meant(t)
    BY <1>1, <1>2 DEF Request
  <2>2. /\ names.name = Encoded(KeptName(t.subject))
        /\ names.dns = Meant(t).dns /\ names.ips = Meant(t).ips
        /\ Kept(t).name = KeptName(t.subject) /\ Meant(t).name = MeantName(t.subject)
    BY DEF Kept, Meant
  <2> HIDE DEF names
  <2>3. ASSUME NEW a \in Attributes, a # "CN" \/ Len(MeantName(t.subject)[a]) <= 1
        PROVE  names.name[a] = Sorted(MeantName(t.subject)[a])
    <3>1. KeptName(t.subject)[a] = MeantName(t.subject)[a]
      BY <2>3, TypedAssumption, KeptAsTyped
    <3> QED
      BY <2>2, <3>1 DEF Encoded
  <2>4. AsTyped(job'.request)
    BY <2>1, <2>2, <2>3 DEF AsTyped
  <2>5. ReadsBack(job'.request)
    BY <1>1, <2>1, <2>2, EncodedIsPlain, PrintedReads DEF ReadsBack
  <2> QED
    BY <2>4, <2>5 DEF NamesHold
<1>4. UNCHANGED <<files, issued>> /\ pc' = "writeKey" /\ exit' = -1 /\ verdict' # "malformed"
  BY <1>1 DEF BeginRequest, Judged, userFiles
<1>5. RequestsHoldNames'
  BY <1>3, <1>4 DEF NamesInv, RequestsHoldNames
<1> QED
  BY <1>4, <1>5 DEF NamesInv, Verdicts, RefusedExactlyIfMalformed

LEMMA StepKeepsNames == RequestInv /\ NamesInv /\ [Next]_vars => NamesInv'
<1> SUFFICES ASSUME RequestInv, NamesInv, [Next]_vars PROVE NamesInv'
  OBVIOUS
<1>f. FilesAreFunctions /\ JobInv /\ KeyStaged
  BY DEF RequestInv
<1>1. ASSUME NEW f \in Flags, UsageError(f) PROVE NamesInv'
  BY <1>1, ReadingKeepsNames DEF UsageError, Idle, userFiles
<1>2. ASSUME NEW t \in Typed, RefuseNames(t) PROVE NamesInv'
  <2>1. ~WellFormed(t) /\ ~OnlySeparators(t)
    BY <1>2, ParsedIs DEF RefuseNames
  <2> QED
    BY <1>2, <2>1, ReadingKeepsNames DEF RefuseNames, Judged, Idle, userFiles
<1>3. ASSUME NEW t \in Typed, CannotEncode(t) PROVE NamesInv'
  <2>1. WellFormed(t) \/ OnlySeparators(t)
    BY <1>3, ParsedIs DEF CannotEncode
  <2> QED
    BY <1>3, <2>1, ReadingKeepsNames DEF CannotEncode, Judged, Idle, userFiles
<1>4. ASSUME NEW t \in Typed, NEW out \in Outputs, BeginRequest(t, out) PROVE NamesInv'
  BY <1>4, BeginKeepsNames
<1>5. ASSUME NEW p \in UserPaths, Sign(p) PROVE NamesInv'
  <2>1. NamesHold(files[p])
    BY <1>5 DEF Sign, NamesInv, RequestsHoldNames
  <2>2. \A c \in issued' :
            NamesHold(c.request) /\ c.listed = FormatDN(c.request.names.name)
    BY <1>5, <2>1 DEF Sign
  <2>3. UNCHANGED <<files, pc>> /\ pc = "idle" /\ verdict' = "unread"
    BY <1>5 DEF Sign, Idle, userFiles
  <2>4. RequestsHoldNames'
    BY <2>2, <2>3 DEF NamesInv, RequestsHoldNames
  <2> QED
    BY <2>3, <2>4 DEF NamesInv, Verdicts, RefusedExactlyIfMalformed
<1>6. ASSUME NEW p \in UserPaths, SignFails(p) PROVE NamesInv'
  BY <1>6, ReadingKeepsNames DEF SignFails, Idle, userFiles
<1>7. CASE WriteKey
  <2>1. RequestsHoldNames'
    BY <1>7, FilesKeepNames DEF WriteKey, NamesInv
  <2> QED
    BY <1>7, <2>1 DEF WriteKey, NamesInv, Verdicts, RefusedExactlyIfMalformed, history
<1>8. CASE RenameKey
  <2>1. \A p \in UserPaths : files'[p] = files[p] \/ files'[p].kind # "request"
    BY <1>8, <1>f, Kinds DEF RenameKey, KeyStaged, FilesAreFunctions
  <2>2. RequestsHoldNames'
    BY <1>8, <2>1, FilesKeepNames DEF RenameKey, NamesInv
  <2> QED
    BY <1>8, <2>2 DEF RenameKey, NamesInv, Verdicts, RefusedExactlyIfMalformed
<1>9. CASE SaveKeyFails
  BY <1>9, PartialWriteKeepsNames DEF SaveKeyFails, End, history
<1>10. CASE WriteRequest
  <2>1. \A p \in UserPaths : files'[p] = files[p] \/ (pc # "idle" /\ files'[p] = job.request)
    BY <1>10, <1>f DEF WriteRequest, FilesAreFunctions
  <2>2. RequestsHoldNames'
    BY <1>10, <2>1, FilesKeepNames DEF WriteRequest, End, NamesInv
  <2>3. Verdicts'
    BY <1>10, EndKeepsVerdicts DEF WriteRequest, End, NamesInv
  <2> QED
    BY <2>2, <2>3 DEF NamesInv
<1>11. CASE WriteRequestFails
  BY <1>11, PartialWriteKeepsNames DEF WriteRequestFails, End, history
<1>12. CASE Crash
  BY <1>12, PartialWriteKeepsNames DEF Crash, Idle, End, history
<1>13. CASE UNCHANGED vars
  BY <1>13 DEF vars, NamesInv, RequestsHoldNames, Verdicts, RefusedExactlyIfMalformed
<1> QED
  BY <1>1, <1>2, <1>3, <1>4, <1>5, <1>6, <1>7, <1>8, <1>9, <1>10, <1>11, <1>12, <1>13
     DEF Next, User, Progress

LEMMA NamesInvariance == Spec => [](RequestInv /\ NamesInv)
  BY InitHolds, NamesInit, StepKeeps, StepKeepsNames, PTL DEF Spec

(* CON-BD-020: of every line a user can type, the alternative names and    *)
(* the values of each attribute, and nothing else, reach the request and   *)
(* the certificate, as long as there is one common name at most.           *)
THEOREM NamesAreAsTyped == Spec => []NameAsTyped
  <1>1. NamesInv => NameAsTyped
    BY DEF NamesInv, RequestsHoldNames, NamesHold, AsTyped, NameAsTyped, Requests
  <1> QED
    BY <1>1, NamesInvariance, PTL

(* CON-BD-019, CON-BD-021: of the lines that are empty or name something   *)
(* ParseDN and ParseSANs refuse exactly the empty and the malformed.       *)
THEOREM RefusalsAreExact == Spec => []RefusedExactlyIfMalformed
  <1>1. NamesInv => RefusedExactlyIfMalformed
    BY DEF NamesInv, Verdicts
  <1> QED
    BY <1>1, NamesInvariance, PTL

(* CON-BD-005, CON-DI-003: whatever name a certificate has, the subject    *)
(* index.json lists for it, which FormatDN prints, is one ParseDN accepts  *)
(* and reads as that name.                                                 *)
THEOREM ListedNamesReadBack == Spec => []ListedNameReadsBack
  <1>1. NamesInv => ListedNameReadsBack
    BY DEF NamesInv, RequestsHoldNames, NamesHold, ReadsBack, ListedNameReadsBack
  <1> QED
    BY <1>1, NamesInvariance, PTL

=============================================================================
