------------------------------ MODULE CAStore ------------------------------
(***************************************************************************)
(* The commands of the certificate authority that change its data          *)
(* directory: `ca init`, `ca sign`, `ca revoke` and `ca crl` (InitCA,      *)
(* SignCSR, RevokeCert, GenerateCRL).  Each is one run of the program: it  *)
(* validates, reads files, prepares its writes, stages every one in the    *)
(* .tmp sibling of its path, and then renames them one at a time in a      *)
(* fixed order.  A write, a removal or a rename may fail and the process   *)
(* may be killed between any two steps, as far as Faults allows; one       *)
(* operator runs one command at a time (SPEC.md, A-2).                     *)
(***************************************************************************)
EXTENDS CAFiles

CONSTANT Faults   \* what may go wrong, a subset of FaultKinds

FaultKinds == {"write", "remove", "rename", "crash"}

ASSUME FaultsAssumption == Faults \subseteq FaultKinds

VARIABLES
    disk,      \* [Paths -> file]: what is under each final path
    tmp,       \* [Paths -> file]: what is under <path>.tmp
    certsDir,  \* the directory certs/ exists (and with it the data directory)
    op,        \* the running command, or "none"
    pc,        \* where it stands
    mem,       \* what it has read or generated and still needs
    plan,      \* the writes it prepared, in commit order
    pos,       \* the write it stages or commits next
    outcome,   \* how the last command ended
    before     \* history: the disk as the running command found it

data    == <<disk, tmp, certsDir>>
process == <<op, pc, mem, plan, pos>>
vars    == <<disk, tmp, certsDir, op, pc, mem, plan, pos, outcome, before>>

NoFiles == [p \in Paths |-> Absent]
Nothing == [kind |-> "nothing"]

----------------------------------------------------------------------------
(* Reading the disk *)

Exists(p)      == disk[p] # Absent
Loads(p, kind) == disk[p].kind = kind

IsInitialized == Exists(CaKey) /\ Exists(CaCrt)

Entries == disk[IndexFile].entries

(* LoadPrivateKey, LoadCertificate and ReadCounter succeed, and so does    *)
(* x509.CreateCertificate, which compares the key with ca.crt.             *)
SignInputsLoad ==
    /\ Loads(CaKey, "key")
    /\ Loads(CaCrt, "certificate")
    /\ Loads(SerialFile, "counter")
    /\ disk[CaCrt].signer = disk[CaKey].key

CRLInputsLoad ==
    /\ Loads(CaKey, "key")
    /\ Loads(CaCrt, "certificate")
    /\ Loads(IndexFile, "index")

----------------------------------------------------------------------------
(* The life of a command *)

Idle == pc = "idle"

Begin(command, where, memory) ==
    /\ op' = command
    /\ pc' = where
    /\ mem' = memory
    /\ UNCHANGED <<data, plan, pos, outcome, before>>

Prepare(writes) ==
    /\ pc' = "stage"
    /\ plan' = writes
    /\ pos' = 1
    /\ UNCHANGED <<disk, tmp, op, mem, outcome, before>>

(* The process ends; the steps that use it say what becomes of the files. *)
Finish(result) ==
    /\ op' = "none"
    /\ pc' = "idle"
    /\ mem' = Nothing
    /\ plan' = << >>
    /\ pos' = 1
    /\ outcome' = result
    /\ before' = disk'

(* A validation or a load failed: exit 1 before anything was written. *)
Reject ==
    /\ Idle
    /\ outcome' = "error"
    /\ UNCHANGED <<data, process, before>>

----------------------------------------------------------------------------
(* ca init *)

(* Mutant: `ca init` does not look for an earlier one. *)
BeginInitUnchecked(k) ==
    /\ Idle
    /\ Begin("init", "mkdir", [key |-> k])

BeginInit(k) ==
    /\ Idle
    /\ ~IsInitialized
    /\ Begin("init", "mkdir", [key |-> k])

RejectInit == IsInitialized /\ Reject

MakeDataDir ==
    /\ pc = "mkdir"
    /\ certsDir' = TRUE
    /\ Prepare(InitPlan(mem.key))

(* MkdirAll of a directory that is there succeeds. *)
MakeDataDirFails ==
    /\ pc = "mkdir"
    /\ ~certsDir
    /\ "write" \in Faults
    /\ UNCHANGED data
    /\ Finish("error")

----------------------------------------------------------------------------
(* ca sign *)

BeginSign(csr) ==
    /\ Idle
    /\ IsInitialized
    /\ PassesGate(csr)
    /\ SignInputsLoad
    /\ disk[SerialFile].value <= MaxSerial
    /\ Begin("sign", "loadIndex",
             [ key     |-> disk[CaKey].key,
               serial  |-> disk[SerialFile].value,
               subject |-> csr.subject ])

RejectSign(csr) ==
    /\ ~(IsInitialized /\ PassesGate(csr) /\ SignInputsLoad)
    /\ Reject

SignLoadIndex ==
    /\ pc = "loadIndex"
    /\ Loads(IndexFile, "index")
    /\ Prepare(SignPlan(mem.serial, mem.subject, mem.key, Entries))
    /\ UNCHANGED certsDir

SignLoadIndexFails ==
    /\ pc = "loadIndex"
    /\ ~Loads(IndexFile, "index")
    /\ UNCHANGED data
    /\ Finish("error")

----------------------------------------------------------------------------
(* ca revoke: the entry is looked up, changed and saved in one file *)

(* Mutant: a revoked entry may be revoked again. *)
BeginRevokeUnchecked(n, r) ==
    /\ Idle
    /\ IsInitialized
    /\ Loads(IndexFile, "index")
    /\ \E i \in DOMAIN Entries :
        /\ IsFirstMatch(Entries, n, i)
        /\ op' = "revoke"
        /\ pc' = "stage"
        /\ mem' = [position |-> i, reason |-> r]
        /\ plan' = RevokePlan(Entries, i, r)
        /\ pos' = 1
    /\ UNCHANGED <<data, outcome, before>>

BeginRevoke(n, r) ==
    /\ Idle
    /\ IsInitialized
    /\ Loads(IndexFile, "index")
    /\ \E i \in DOMAIN Entries :
        /\ IsFirstMatch(Entries, n, i)
        /\ Entries[i].status # "revoked"
        /\ op' = "revoke"
        /\ pc' = "stage"
        /\ mem' = [position |-> i, reason |-> r]
        /\ plan' = RevokePlan(Entries, i, r)
        /\ pos' = 1
    /\ UNCHANGED <<data, outcome, before>>

Revocable(n) ==
    \E i \in DOMAIN Entries :
        IsFirstMatch(Entries, n, i) /\ Entries[i].status # "revoked"

RejectRevoke(n) ==
    /\ ~(IsInitialized /\ Loads(IndexFile, "index") /\ Revocable(n))
    /\ Reject

----------------------------------------------------------------------------
(* ca crl *)

BeginCRL ==
    /\ Idle
    /\ IsInitialized
    /\ CRLInputsLoad
    /\ Loads(CrlNumberFile, "counter") => disk[CrlNumberFile].value <= MaxCRLNumber
    /\ Begin("crl", "loadCounter",
             [ key     |-> disk[CaKey].key,
               revoked |-> RevokedEntries(Entries) ])

RejectCRL ==
    /\ ~(IsInitialized /\ CRLInputsLoad)
    /\ Reject

(* It ends here if the counter cannot be read, or if the library refuses   *)
(* the list: a nextUpdate that has wrapped around (CACommands, RunCRL).    *)
CRLLoadCounter ==
    /\ pc = "loadCounter"
    /\ \/ /\ Loads(CrlNumberFile, "counter")
          /\ Prepare(CRLPlan(disk[CrlNumberFile].value, mem.revoked, mem.key))
          /\ UNCHANGED certsDir
       \/ /\ UNCHANGED data
          /\ Finish("error")

----------------------------------------------------------------------------
(* Stage, then commit (ADR-006).  RevokeCert reaches the same protocol,    *)
(* for a plan of one write, through SaveIndex and writeFileAtomic.         *)

Current == plan[pos]

PlanPaths == {plan[i].path : i \in DOMAIN plan}

(* Mutant: the write goes to the final path. *)
StageWriteInPlace ==
    /\ pc = "stage"
    /\ certsDir
    /\ disk' = [disk EXCEPT ![Current.path] = Current.content]
    /\ tmp' = [tmp EXCEPT ![Current.path] = Current.content]
    /\ IF pos < Len(plan)
       THEN pos' = pos + 1 /\ pc' = pc
       ELSE pos' = 1 /\ pc' = "commit"
    /\ UNCHANGED <<certsDir, op, mem, plan, outcome, before>>

(* A write to path.tmp succeeds, replacing whatever an earlier command left *)
(* there; after the last one the commit starts.                            *)
StageWrite ==
    /\ pc = "stage"
    /\ certsDir
    /\ tmp' = [tmp EXCEPT ![Current.path] = Current.content]
    /\ IF pos < Len(plan)
       THEN pos' = pos + 1 /\ pc' = pc
       ELSE pos' = 1 /\ pc' = "commit"
    /\ UNCHANGED <<disk, certsDir, op, mem, plan, outcome, before>>

(* The write may have truncated the file and written part of it. *)
AfterPartialWrite == {tmp, [tmp EXCEPT ![Current.path] = Torn]}

(* Mutant: the file of the write that failed is not removed. *)
CleanUpEarlier(files) ==
    tmp' = [p \in Paths |->
              IF p \in {plan[i].path : i \in 1 .. pos - 1} THEN Absent ELSE files[p]]

(* Mutant: every .tmp file of the directory is removed. *)
CleanUpEverything(files) == tmp' = NoFiles

(* cleanupTempFiles: a removal that fails is ignored and leaves the file. *)
CleanUp(files) ==
    \E left \in SUBSET PlanPaths :
        /\ left # {} => "remove" \in Faults
        /\ tmp' = [p \in Paths |-> IF p \in PlanPaths \ left THEN Absent ELSE files[p]]

(* Mutant: the error of the write is dropped. *)
StageWriteFailsUnnoticed ==
    /\ pc = "stage"
    /\ "write" \in Faults
    /\ tmp' \in AfterPartialWrite
    /\ IF pos < Len(plan)
       THEN pos' = pos + 1 /\ pc' = pc
       ELSE pos' = 1 /\ pc' = "commit"
    /\ UNCHANGED <<disk, certsDir, op, mem, plan, outcome, before>>

(* Mutant: the writes are tried again from the first. *)
StageWriteFailsRetried ==
    /\ pc = "stage"
    /\ "write" \in Faults
    /\ CleanUp(tmp)
    /\ pos' = 1
    /\ UNCHANGED <<disk, certsDir, op, pc, mem, plan, outcome, before>>

StageWriteFails ==
    /\ pc = "stage"
    /\ "write" \in Faults \/ ~certsDir
    /\ \E files \in AfterPartialWrite : CleanUp(files)
    /\ UNCHANGED <<disk, certsDir>>
    /\ Finish("error")

(* Mutant: the file to be replaced is removed first. *)
CommitRenameAfterRemoval ==
    /\ pc = "commit"
    /\ tmp[Current.path] # Absent
    /\ IF Exists(Current.path)
       THEN /\ disk' = [disk EXCEPT ![Current.path] = Absent]
            /\ UNCHANGED <<tmp, process, outcome, before>>
       ELSE /\ disk' = [disk EXCEPT ![Current.path] = tmp[Current.path]]
            /\ tmp' = [tmp EXCEPT ![Current.path] = Absent]
            /\ IF pos < Len(plan)
               THEN /\ pos' = pos + 1
                    /\ UNCHANGED <<op, pc, mem, plan, outcome, before>>
               ELSE Finish("ok")
    /\ UNCHANGED certsDir

CommitRename ==
    /\ pc = "commit"
    /\ tmp[Current.path] # Absent
    /\ disk' = [disk EXCEPT ![Current.path] = tmp[Current.path]]
    /\ tmp' = [tmp EXCEPT ![Current.path] = Absent]
    /\ IF pos < Len(plan)
       THEN /\ pos' = pos + 1
            /\ UNCHANGED <<op, pc, mem, plan, outcome, before>>
       ELSE Finish("ok")
    /\ UNCHANGED certsDir

(* What was renamed before stays: there is no roll back. *)
CommitRenameFails ==
    /\ pc = "commit"
    /\ "rename" \in Faults \/ tmp[Current.path] = Absent
    /\ CleanUp(tmp)
    /\ UNCHANGED <<disk, certsDir>>
    /\ Finish("error")

(* The process is killed: no clean-up, and a write under way may be cut.   *)
(* Killed during a clean-up, it leaves what a failed removal leaves.       *)
Crash ==
    /\ ~Idle
    /\ "crash" \in Faults
    /\ tmp' \in IF pc = "stage" THEN AfterPartialWrite ELSE {tmp}
    /\ UNCHANGED <<disk, certsDir>>
    /\ Finish("crash")

----------------------------------------------------------------------------

Init ==
    /\ disk = NoFiles
    /\ tmp = NoFiles
    /\ certsDir = FALSE
    /\ op = "none"
    /\ pc = "idle"
    /\ mem = Nothing
    /\ plan = << >>
    /\ pos = 1
    /\ outcome = "none"
    /\ before = NoFiles

(* The operator starts a command.  A serial of `ca revoke` may be unknown. *)
Operator ==
    \/ \E k \in Keys : BeginInit(k)
    \/ RejectInit
    \/ \E csr \in CSR : BeginSign(csr)
    \/ \E csr \in CSR : RejectSign(csr)
    \/ \E n \in 1 .. MaxSerial, r \in Reasons : BeginRevoke(n, r)
    \/ \E n \in 1 .. MaxSerial : RejectRevoke(n)
    \/ BeginCRL
    \/ RejectCRL

(* The running command takes its next step. *)
Progress ==
    \/ MakeDataDir
    \/ MakeDataDirFails
    \/ SignLoadIndex
    \/ SignLoadIndexFails
    \/ CRLLoadCounter
    \/ StageWrite
    \/ StageWriteFails
    \/ CommitRename
    \/ CommitRenameFails

Next == Operator \/ Progress \/ Crash

Spec == Init /\ [][Next]_vars

(* The operating system keeps running a process that can run. *)
FairSpec == Spec /\ WF_vars(Progress)

----------------------------------------------------------------------------
(* Properties *)

IndexEntries(d) == IF d[IndexFile].kind = "index" THEN d[IndexFile].entries ELSE << >>

FilesOK ==
    /\ disk = [p \in Paths |-> disk[p]] /\ tmp = [p \in Paths |-> tmp[p]]
    /\ \A p \in Paths : Fits(p, disk[p]) \/ disk[p] = Absent
    /\ \A p \in Paths : Fits(p, tmp[p]) \/ tmp[p] \in {Absent, Torn}
    /\ certsDir \in BOOLEAN

(* Every file under a final path has the format of its path: whatever      *)
(* fails or dies, no command puts a truncated or foreign file in place.    *)
TypeOK ==
    /\ FilesOK
    /\ op \in {"none", "init", "sign", "revoke", "crl"}
    /\ pc \in {"idle", "mkdir", "loadIndex", "loadCounter", "stage", "commit"}
    /\ Len(plan) \in 0 .. 5
    /\ \A i \in 1 .. Len(plan) : Fits(plan[i].path, plan[i].content)
    /\ pos \in 1 .. 5
    /\ outcome \in {"none", "ok", "error", "crash"}

(* CON-DI-007: for every entry of the index its certificate is in certs/,  *)
(* with the subject the entry names (SignCSR renames the index last).      *)
IndexedIsOnFile ==
    \A i \in DOMAIN IndexEntries(disk) :
        LET e == IndexEntries(disk)[i] IN
        /\ disk[CertFile(e.serial)].kind = "certificate"
        /\ disk[CertFile(e.serial)].subject = e.subject

(* CON-INV-001, CON-INV-002: the counter is ahead of every certificate     *)
(* ever placed, indexed or not, and the index lists serials in increasing  *)
(* order: SignCSR renames the counter before the certificate it numbers.   *)
SerialsAreFresh ==
    /\ \A n \in Serials :
        Exists(CertFile(n)) => Loads(SerialFile, "counter") /\ n < disk[SerialFile].value
    /\ \A i, j \in DOMAIN IndexEntries(disk) :
        i < j => IndexEntries(disk)[i].serial < IndexEntries(disk)[j].serial

(* CON-INV-005: the root, every certificate and the list are signed with   *)
(* the key in ca.key, also after an init that was cut short and repeated.  *)
ChainOfTrust ==
    \A p \in {CaCrt, CaCrl} \cup CertFiles :
        Exists(p) => Loads(CaKey, "key") /\ disk[p].signer = disk[CaKey].key

(* CON-DI-006, CON-INV-003: whatever the published list revokes, the index *)
(* still records as revoked for that reason, and its number has not been   *)
(* overtaken by the counter (GenerateCRL renames the list first).          *)
CRLMatchesIndex ==
    Exists(CaCrl) =>
        /\ disk[CaCrl].revoked \subseteq RevokedEntries(IndexEntries(disk))
        /\ disk[CaCrl].number <= disk[CrlNumberFile].value

(* CON-INV-003: the index only grows, an entry keeps its serial and its    *)
(* subject, and a revoked one never changes again.                         *)
HistoryIsKept ==
    [][ LET old == IndexEntries(disk)
            new == IndexEntries(disk')
        IN  /\ DOMAIN old \subseteq DOMAIN new
            /\ \A i \in DOMAIN old :
                /\ new[i].serial = old[i].serial
                /\ new[i].subject = old[i].subject
                /\ old[i].status = "revoked" => new[i] = old[i] ]_vars

(* CON-INV-001: a certificate once placed in certs/ is never replaced, by  *)
(* a retry after a failure either, so no serial names two certificates.    *)
IssuedIsFinal ==
    [][ \A p \in CertFiles : Exists(p) => disk'[p] = disk[p] ]_vars

(* CON-BD-003: once ca.key and ca.crt are both there no command replaces   *)
(* either (the check of InitCA precedes its renames by many steps).        *)
IdentityIsFixed ==
    [][ IsInitialized => disk'[CaKey] = disk[CaKey] /\ disk'[CaCrt] = disk[CaCrt] ]_vars

(* CON-INV-003, CON-INV-007 as far as a crash lets it: a new list holds    *)
(* every revocation of the one it replaces and no smaller number.          *)
CRLNeverForgets ==
    [][ Exists(CaCrl) =>
            /\ disk[CaCrl].revoked \subseteq disk'[CaCrl].revoked
            /\ disk[CaCrl].number <= disk'[CaCrl].number ]_vars

(* Between commands the directory is complete or uninitialized (ADR-006:   *)
(* a partial init leaves a non-initialized state).                         *)
InitializedIsComplete ==
    Idle /\ IsInitialized =>
        \A p \in {SerialFile, CrlNumberFile, IndexFile} : Exists(p)

(* CON-DI-007: between commands every certificate in certs/ is indexed. *)
CertificatesAreIndexed ==
    Idle => \A n \in Serials :
        Exists(CertFile(n)) => \E i \in DOMAIN IndexEntries(disk) :
                                  IndexEntries(disk)[i].serial = n

(* CON-DI-007, CON-DI-008: and, if nothing was interrupted, every serial   *)
(* below the counter is indexed: N certificates leave it at N + 2.         *)
FilesMatchIndex ==
    /\ CertificatesAreIndexed
    /\ Idle /\ Exists(IndexFile) => disk[SerialFile].value = Len(Entries) + 2

(* ADR-006: a command that ends by itself leaves no .tmp file behind.      *)
NothingLeftStaged == Idle => tmp = NoFiles

(* CON-INV-007: a list that replaces another one has a greater number.     *)
CRLNumberIncreases ==
    [][ Exists(CaCrl) /\ disk'[CaCrl] # disk[CaCrl]
            => disk'[CaCrl].number > disk[CaCrl].number ]_vars

(* CON-DI-004: a command that fails leaves the state it found.             *)
FailureChangesNothing ==
    [][ pc # "idle" /\ pc' = "idle" /\ outcome' = "error" => disk' = before ]_vars

(* CON-DI-004 and the postconditions: a command leaves the state it found  *)
(* or, reporting success, that state with every one of its writes.         *)
AllOrNothing ==
    [][ pc # "idle" /\ pc' = "idle" =>
            disk' = IF outcome' = "ok"
                    THEN [p \in Paths |->
                            IF p \in PlanPaths
                            THEN (CHOOSE w \in {plan[i] : i \in DOMAIN plan} : w.path = p).content
                            ELSE before[p]]
                    ELSE before ]_vars

(* CON-BD-001, CON-BD-003: `ca init` never replaces a ca.key or a ca.crt.  *)
InitNeverOverwrites ==
    [][ \A p \in {CaKey, CaCrt} : Exists(p) => disk'[p] = disk[p] ]_vars

(* Where only writes may fail, every command ends, whichever of them do and *)
(* whatever an earlier command has left of its own.                         *)
Terminates == ~Idle ~> Idle

----------------------------------------------------------------------------
(* Refinement: the index is the commit point of init, sign and revoke, the *)
(* rename of ca.crl that of crl, the rename of serial a reservation.       *)

Committed == Exists(IndexFile)

TheAuthority == IF Committed THEN {disk[CaKey].key} ELSE {}

NextSerial == IF Committed THEN disk[SerialFile].value ELSE 2

PositionOf(es, n) == CHOOSE i \in DOMAIN es : es[i].serial = n

IssuedOn(d) ==
    [n \in {IndexEntries(d)[i].serial : i \in DOMAIN IndexEntries(d)} |->
        [ subject |-> d[CertFile(n)].subject,
          signer  |-> d[CertFile(n)].signer,
          reason  |-> IndexEntries(d)[PositionOf(IndexEntries(d), n)].reason ]]

PublishedList ==
    IF Exists(CaCrl)
    THEN {[ number  |-> disk[CaCrl].number,
            revoked |-> disk[CaCrl].revoked,
            signer  |-> disk[CaCrl].signer ]}
    ELSE {}

Registry == INSTANCE CARegistry WITH
    Code      <- [r \in Reasons |-> ReasonCode(r)],
    authority <- TheAuthority,
    next      <- NextSerial,
    issued    <- IssuedOn(disk),
    crl       <- PublishedList

(* The files implement the registry, whatever fails.                       *)
ImplementsRegistry == Registry!Spec

=============================================================================
