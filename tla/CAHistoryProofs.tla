-------------------------- MODULE CAHistoryProofs --------------------------
(***************************************************************************)
(* The action properties of CAStore, for all keys, subjects, reasons,      *)
(* bounds and faults: what no step of any command does to the disk.  The   *)
(* last part is about a process that is not alone on the directory, and is *)
(* what CAConcurrentProofs rests on.                                       *)
(***************************************************************************)
EXTENDS CAStoreProofs

LEMMA OnlyRenamesChangeTheDisk ==
    ASSUME [Next]_vars, ~CommitRename
    PROVE  disk' = disk
<1>1. CASE Operator
  BY <1>1 DEF Operator, BeginInit, RejectInit, BeginSign, RejectSign, BeginRevoke, RejectRevoke,
              BeginCRL, RejectCRL, Begin, Reject, data
<1>2. CASE Progress
  BY <1>2 DEF Progress, MakeDataDir, MakeDataDirFails, SignLoadIndex, SignLoadIndexFails,
              CRLLoadCounter, StageWrite, StageWriteFails, CommitRenameFails, Prepare, data
<1>3. CASE Crash
  BY <1>3 DEF Crash
<1>4. CASE UNCHANGED vars
  BY <1>4 DEF vars
<1>5. QED
  BY <1>1, <1>2, <1>3, <1>4 DEF Next

(* What a rename does to the disk, by command, and what it finds there.    *)
InitEffect ==
    /\ ~Exists(IndexFile)
    /\ \/ \E p \in {CaKey, CaCrt, SerialFile, CrlNumberFile} : \E c :
            Put(p, c) /\ (p \in {CaKey, CaCrt} => ~Exists(CaCrt))
       \/ \E k \in Keys :
            /\ disk[CaKey] = PrivateKey(k)
            /\ disk[SerialFile] = Counter(2)
            /\ Put(IndexFile, Index(<< >>))

SignEffect ==
    /\ Exists(IndexFile)
    /\ \E n \in Serials :
        \/ disk[SerialFile] = Counter(n) /\ Put(SerialFile, Counter(n + 1))
        \/ \E c : ~Exists(CertFile(n)) /\ Put(CertFile(n), c)
        \/ \E s \in Subjects, k \in Keys :
            /\ disk[CaKey] = PrivateKey(k)
            /\ disk[SerialFile] = Counter(n + 1)
            /\ disk[CertFile(n)] = Certificate(n, s, k)
            /\ \A i \in DOMAIN Entries : Entries[i].serial < n
            /\ Put(IndexFile, Index(Append(Entries, NewEntry(n, s))))

RevokeEffect ==
    \E i \in DOMAIN Entries, r \in Reasons :
        /\ Exists(IndexFile)
        /\ Entries[i].status = "active"
        /\ Put(IndexFile, Index([Entries EXCEPT ![i] = MarkRevoked(Entries[i], r)]))

CRLEffect ==
    /\ Exists(IndexFile)
    /\ \/ \E m \in 1 .. MaxCRLNumber, k \in Keys :
            /\ disk[CaKey] = PrivateKey(k)
            /\ disk[CrlNumberFile] = Counter(m)
            /\ Put(CaCrl, Crl(m, RevokedEntries(Entries), k))
       \/ \E c : Put(CrlNumberFile, c)

LEMMA RenameEffect ==
    ASSUME TypeInv, SafeInv, CommitRename
    PROVE  \/ op = "init" /\ InitEffect
           \/ op = "sign" /\ SignEffect
           \/ op = "revoke" /\ RevokeEffect
           \/ op = "crl" /\ CRLEffect
<1>f. FilesOK
  BY DEF TypeInv, TypeOK
<1>w. \A p, c : plan[pos] = Write(p, c) => Put(p, c)
  BY CommitEffect DEF Write
<1>r. \/ op = "init" /\ InitRun
      \/ op = "sign" /\ SignRun
      \/ op = "revoke" /\ RevokeRun
      \/ op = "crl" /\ CRLRun
  BY CommitEffect DEF SafeInv, RunInv
<1>1. ASSUME InitRun PROVE InitEffect
  <2>1. /\ plan = InitPlan(mem.key) /\ Len(plan) = 5 /\ pos \in 1 .. 5 /\ Done = pos - 1
        /\ ~Exists(IndexFile)
    BY <1>1, CommitEffect DEF InitRun, InitPlan
  <2>2. /\ pos = 1 => Put(CaKey, PrivateKey(mem.key))
        /\ pos = 2 => Put(CaCrt, Certificate(1, RootSubject, mem.key))
        /\ pos = 3 => Put(SerialFile, Counter(2))
        /\ pos = 4 => Put(CrlNumberFile, Counter(1))
        /\ pos = 5 => Put(IndexFile, Index(<< >>))
    BY <2>1, <1>w DEF InitPlan
  <2>3. pos \in {1, 2} => ~Exists(CaCrt)
    BY <1>1, <2>1 DEF InitRun
  <2>4. CASE pos \in 1 .. 4
    BY <2>1, <2>2, <2>3, <2>4, FixedPathsDiffer DEF InitEffect
  <2>5. CASE pos = 5
    <3>1. disk[CaKey] = PrivateKey(mem.key) /\ disk[SerialFile] = Counter(2) /\ mem.key \in Keys
      BY <1>1, <2>1, <2>5 DEF InitRun
    <3>2. QED
      BY <2>1, <2>2, <2>5, <3>1 DEF InitEffect
  <2>6. QED
    BY <2>1, <2>4, <2>5
<1>2. ASSUME SignRun PROVE SignEffect
  <2>1. /\ plan = SignPlan(mem.serial, mem.subject, mem.key, Entries)
        /\ Len(plan) = 3 /\ pos \in 1 .. 3 /\ Done = pos - 1
        /\ mem.serial \in Serials /\ mem.subject \in Subjects /\ mem.key \in Keys
        /\ Exists(IndexFile)
    BY <1>2, <1>f, CommitEffect, LoadsExists DEF SignRun, SignPlan
  <2>2. /\ pos = 1 => Put(SerialFile, Counter(mem.serial + 1))
        /\ pos = 2 => Put(CertFile(mem.serial), Certificate(mem.serial, mem.subject, mem.key))
        /\ pos = 3 => Put(IndexFile, Index(Append(Entries, NewEntry(mem.serial, mem.subject))))
    BY <2>1, <1>w DEF SignPlan
  <2>3. pos = 2 => ~Exists(CertFile(mem.serial))
    BY <1>2, <2>1 DEF SignRun, Exists
  <2>4. CASE pos = 1
    <3>1. disk[SerialFile] = Counter(mem.serial)
      BY <1>2, <2>1, <2>4 DEF SignRun
    <3>2. QED
      BY <2>1, <2>2, <2>4, <3>1 DEF SignEffect
  <2>5. CASE pos = 2
    BY <2>1, <2>2, <2>3, <2>5 DEF SignEffect
  <2>6. CASE pos = 3
    <3>1. /\ disk[CaKey] = PrivateKey(mem.key)
          /\ disk[SerialFile] = Counter(mem.serial + 1)
          /\ disk[CertFile(mem.serial)] = Certificate(mem.serial, mem.subject, mem.key)
          /\ \A i \in DOMAIN Entries : Entries[i].serial < mem.serial
      BY <1>2, <2>1, <2>6 DEF SignRun
    <3>2. QED
      BY <2>1, <2>2, <2>6, <3>1 DEF SignEffect
  <2>7. QED
    BY <2>1, <2>4, <2>5, <2>6
<1>3. ASSUME RevokeRun PROVE RevokeEffect
  <2>1. /\ mem.position \in DOMAIN Entries /\ mem.reason \in Reasons
        /\ Entries[mem.position].status = "active"
        /\ plan = RevokePlan(Entries, mem.position, mem.reason)
        /\ Exists(IndexFile)
    BY <1>3, <1>f, LoadsExists DEF RevokeRun
  <2>2. pos = 1
    BY <2>1, CommitEffect DEF RevokePlan
  <2>3. plan[pos] = Write(IndexFile,
          Index([Entries EXCEPT ![mem.position] = MarkRevoked(Entries[mem.position], mem.reason)]))
    BY <2>1, <2>2 DEF RevokePlan
  <2>4. QED
    BY <1>w, <2>1, <2>3 DEF RevokeEffect
<1>4. ASSUME CRLRun PROVE CRLEffect
  <2>1. PICK m \in 1 .. MaxCRLNumber :
          disk[CrlNumberFile] = Counter(m) /\ plan = CRLPlan(m, mem.revoked, mem.key)
    BY <1>4 DEF CRLRun
  <2>2. /\ mem.key \in Keys /\ mem.revoked = RevokedEntries(Entries)
        /\ disk[CaKey] = PrivateKey(mem.key)
        /\ Exists(IndexFile)
    BY <1>4, <1>f, LoadsExists DEF CRLRun
  <2>3. pos \in 1 .. 2
    BY <2>1, CommitEffect DEF CRLPlan
  <2>4. /\ pos = 1 => Put(CaCrl, Crl(m, RevokedEntries(Entries), mem.key))
        /\ pos = 2 => Put(CrlNumberFile, Counter(m + 1))
    BY <1>w, <2>1, <2>2, <2>3 DEF CRLPlan
  <2>5. QED
    BY <2>1, <2>2, <2>3, <2>4 DEF CRLEffect
<1>5. QED
  BY <1>r, <1>1, <1>2, <1>3, <1>4

(* A file a rename does not name keeps its contents.                       *)
LEMMA PutElsewhere ==
    ASSUME FilesOK, NEW p \in Paths, NEW q \in Paths, NEW c, Put(p, c), p # q
    PROVE  disk'[q] = disk[q]
BY PutFrame

(* A rename of index.json puts these entries in place.                     *)
LEMMA IndexPutEntries ==
    ASSUME FilesOK, NEW es, Put(IndexFile, Index(es))
    PROVE  IndexEntries(disk') = es
BY PutFrame, KnownPaths, ContentFields DEF IndexEntries

LEMMA OtherPutEntries ==
    ASSUME FilesOK, NEW p \in Paths, NEW c, Put(p, c), p # IndexFile
    PROVE  IndexEntries(disk') = IndexEntries(disk)
BY PutFrame, KnownPaths DEF IndexEntries

----------------------------------------------------------------------------
(* The identity of the authority *)

LEMMA RenameKeepsIdentity ==
    ASSUME TypeInv, SafeInv, CommitRename, IsInitialized
    PROVE  disk'[CaKey] = disk[CaKey] /\ disk'[CaCrt] = disk[CaCrt]
<1>f. FilesOK
  BY DEF TypeInv, TypeOK
<1>1. PICK p \in Paths : \E c : Put(p, c) /\ p \notin {CaKey, CaCrt}
  <2>1. CASE InitEffect
    BY <2>1, KnownPaths DEF InitEffect, IsInitialized
  <2>2. CASE SignEffect
    BY <2>2, KnownPaths, FixedPathsDiffer, CertFilesDiffer DEF SignEffect
  <2>3. CASE RevokeEffect
    BY <2>3, KnownPaths, FixedPathsDiffer DEF RevokeEffect
  <2>4. CASE CRLEffect
    BY <2>4, KnownPaths, FixedPathsDiffer DEF CRLEffect
  <2>5. QED
    BY <2>1, <2>2, <2>3, <2>4, RenameEffect
<1>2. QED
  BY <1>f, <1>1, PutElsewhere, KnownPaths

(* Once ca.key and ca.crt are both there no command replaces either: the   *)
(* check at the start of InitCA holds until its last rename.               *)
THEOREM IdentityFixed == Spec => IdentityIsFixed
<1>1. TypeInv /\ SafeInv /\ [Next]_vars =>
        [IsInitialized => disk'[CaKey] = disk[CaKey] /\ disk'[CaCrt] = disk[CaCrt]]_vars
  BY RenameKeepsIdentity, OnlyRenamesChangeTheDisk
<1>2. QED
  BY <1>1, SafeInvariance, PTL DEF Spec, IdentityIsFixed

----------------------------------------------------------------------------
(* Certificates *)

LEMMA RenameKeepsCertificates ==
    ASSUME TypeInv, SafeInv, CommitRename, NEW q \in CertFiles, Exists(q)
    PROVE  disk'[q] = disk[q]
<1>f. FilesOK /\ q \in Paths
  BY KnownPaths DEF TypeInv, TypeOK
<1>1. PICK p \in Paths : \E c : Put(p, c) /\ p # q
  <2>1. CASE InitEffect
    BY <2>1, KnownPaths, CertFilesDiffer DEF InitEffect
  <2>2. CASE SignEffect
    BY <2>2, KnownPaths, CertFilesDiffer DEF SignEffect
  <2>3. CASE RevokeEffect
    BY <2>3, KnownPaths, CertFilesDiffer DEF RevokeEffect
  <2>4. CASE CRLEffect
    BY <2>4, KnownPaths, CertFilesDiffer DEF CRLEffect
  <2>5. QED
    BY <2>1, <2>2, <2>3, <2>4, RenameEffect
<1>2. QED
  BY <1>f, <1>1, PutElsewhere

(* No serial ever names two certificates: SignCSR renames the counter      *)
(* first, so a retry of what failed or died takes another number.          *)
THEOREM CertificatesFinal == Spec => IssuedIsFinal
<1>1. TypeInv /\ SafeInv /\ [Next]_vars =>
        [\A p \in CertFiles : Exists(p) => disk'[p] = disk[p]]_vars
  BY RenameKeepsCertificates, OnlyRenamesChangeTheDisk
<1>2. QED
  BY <1>1, SafeInvariance, PTL DEF Spec, IssuedIsFinal

----------------------------------------------------------------------------
(* The index *)

Extends(new, old) ==
    /\ DOMAIN old \subseteq DOMAIN new
    /\ \A i \in DOMAIN old :
        /\ new[i].serial = old[i].serial
        /\ new[i].subject = old[i].subject
        /\ old[i].status = "revoked" => new[i] = old[i]

LEMMA IndexPutExtends ==
    ASSUME FilesOK, Exists(IndexFile), NEW es, Put(IndexFile, Index(es)), Extends(es, Entries)
    PROVE  Extends(IndexEntries(disk'), IndexEntries(disk))
<1>1. disk'[IndexFile] = Index(es)
  BY PutFrame, KnownPaths
<1>2. IndexEntries(disk') = es
  BY <1>1, ContentFields DEF IndexEntries
<1>3. QED
  BY <1>2, IndexEntriesType

LEMMA RenameKeepsHistory ==
    ASSUME TypeInv, SafeInv, CommitRename
    PROVE  Extends(IndexEntries(disk'), IndexEntries(disk))
<1>f. FilesOK
  BY DEF TypeInv, TypeOK
<1>k. ASSUME NEW p \in Paths, NEW c, Put(p, c), p # IndexFile
      PROVE  Extends(IndexEntries(disk'), IndexEntries(disk))
  <2>1. disk'[IndexFile] = disk[IndexFile]
    BY <1>f, <1>k, PutElsewhere, KnownPaths
  <2>2. QED
    BY <2>1 DEF IndexEntries, Extends
<1>t. Exists(IndexFile) => Entries \in Seq(IndexEntry)
  BY <1>f, LoadsExists, LoadedTypes
<1>1. CASE InitEffect
  BY <1>1, <1>f, IndexEntriesType DEF InitEffect, Extends
<1>2. CASE SignEffect
  <2>1. CASE \E p \in Paths : \E c : Put(p, c) /\ p # IndexFile
    BY <2>1, <1>k
  <2>2. CASE \E n \in Serials, s \in Subjects :
                Exists(IndexFile) /\ Put(IndexFile, Index(Append(Entries, NewEntry(n, s))))
    <3>1. PICK n \in Serials, s \in Subjects :
                Exists(IndexFile) /\ Put(IndexFile, Index(Append(Entries, NewEntry(n, s))))
      BY <2>2
    <3>2. Extends(Append(Entries, NewEntry(n, s)), Entries)
      BY <1>t, <3>1, NewEntryType DEF Extends
    <3>3. QED
      BY <1>f, <3>1, <3>2, IndexPutExtends
  <2>3. QED
    BY <1>2, <2>1, <2>2, KnownPaths, FixedPathsDiffer, CertFilesDiffer DEF SignEffect
<1>3. CASE RevokeEffect
  <2>1. PICK i \in DOMAIN Entries, r \in Reasons :
            /\ Exists(IndexFile)
            /\ Entries[i].status = "active"
            /\ Put(IndexFile, Index([Entries EXCEPT ![i] = MarkRevoked(Entries[i], r)]))
    BY <1>3 DEF RevokeEffect
  <2> DEFINE es == [Entries EXCEPT ![i] = MarkRevoked(Entries[i], r)]
  <2>2. Entries[i] \in IndexEntry
    BY <1>t, <2>1
  <2>3. es[i] = MarkRevoked(Entries[i], r) /\ \A j \in DOMAIN Entries : j # i => es[j] = Entries[j]
    BY <1>t, <2>1
  <2>4. Extends(es, Entries)
    BY <1>t, <2>1, <2>2, <2>3, MarkRevokedType DEF Extends
  <2>5. QED
    BY <1>f, <2>1, <2>4, IndexPutExtends
<1>4. CASE CRLEffect
  BY <1>4, <1>k, KnownPaths, FixedPathsDiffer DEF CRLEffect
<1>5. QED
  BY <1>1, <1>2, <1>3, <1>4, RenameEffect

(* The index only grows, an entry keeps its serial and subject, and a      *)
(* revocation is final (RevokeCert, SignCSR).                              *)
THEOREM HistoryKept == Spec => HistoryIsKept
<1>1. TypeInv /\ SafeInv /\ [Next]_vars =>
        [LET old == IndexEntries(disk)
             new == IndexEntries(disk')
         IN  /\ DOMAIN old \subseteq DOMAIN new
             /\ \A i \in DOMAIN old :
                 /\ new[i].serial = old[i].serial
                 /\ new[i].subject = old[i].subject
                 /\ old[i].status = "revoked" => new[i] = old[i]]_vars
  BY RenameKeepsHistory, OnlyRenamesChangeTheDisk DEF Extends
<1>2. QED
  BY <1>1, SafeInvariance, PTL DEF Spec, HistoryIsKept

----------------------------------------------------------------------------
(* The published list *)

LEMMA RenameKeepsRevocations ==
    ASSUME TypeInv, SafeInv, CommitRename, Exists(CaCrl)
    PROVE  /\ disk[CaCrl].revoked \subseteq disk'[CaCrl].revoked
           /\ disk[CaCrl].number <= disk'[CaCrl].number
<1>f. FilesOK
  BY DEF TypeInv, TypeOK
<1>n. disk[CaCrl].number \in Nat
  BY <1>f, ExistsLoads DEF CrlFiles
<1>k. ASSUME NEW p \in Paths, NEW c, Put(p, c), p # CaCrl
      PROVE  disk'[CaCrl] = disk[CaCrl]
  BY <1>f, <1>k, PutElsewhere, KnownPaths
<1>1. CASE \E p \in Paths : \E c : Put(p, c) /\ p # CaCrl
  BY <1>1, <1>k, <1>n
<1>2. CASE \E m \in 1 .. MaxCRLNumber, k \in Keys :
              /\ Exists(IndexFile)
              /\ disk[CrlNumberFile] = Counter(m)
              /\ Put(CaCrl, Crl(m, RevokedEntries(Entries), k))
  <2>1. PICK m \in 1 .. MaxCRLNumber, k \in Keys :
              /\ Exists(IndexFile)
              /\ disk[CrlNumberFile] = Counter(m)
              /\ Put(CaCrl, Crl(m, RevokedEntries(Entries), k))
    BY <1>2
  <2>2. disk'[CaCrl].revoked = RevokedEntries(Entries) /\ disk'[CaCrl].number = m
    BY <1>f, <2>1, PutFrame, KnownPaths, ContentFields
  <2>3. /\ disk[CaCrl].revoked \subseteq RevokedEntries(Entries)
        /\ disk[CaCrl].number <= m
    BY <1>f, <2>1, IndexEntriesType, ContentFields DEF SafeInv, DiskInv, CRLMatchesIndex
  <2>4. QED
    BY <2>2, <2>3
<1>3. QED
  BY <1>1, <1>2, RenameEffect, KnownPaths, FixedPathsDiffer, CertFilesDiffer
  DEF InitEffect, SignEffect, RevokeEffect, CRLEffect

(* A new list revokes all the one it replaces did and carries no smaller   *)
(* number, also after a crash between the two renames of GenerateCRL.      *)
THEOREM ListsNeverForget == Spec => CRLNeverForgets
<1>1. TypeInv /\ SafeInv /\ [Next]_vars =>
        [Exists(CaCrl) =>
            /\ disk[CaCrl].revoked \subseteq disk'[CaCrl].revoked
            /\ disk[CaCrl].number <= disk'[CaCrl].number]_vars
  <2>1. SUFFICES ASSUME TypeInv, SafeInv, [Next]_vars, Exists(CaCrl)
                 PROVE  /\ disk[CaCrl].revoked \subseteq disk'[CaCrl].revoked
                        /\ disk[CaCrl].number <= disk'[CaCrl].number
    OBVIOUS
  <2>2. disk[CaCrl].number \in Nat
    BY <2>1, ExistsLoads DEF CrlFiles, TypeInv, TypeOK
  <2>3. CASE CommitRename
    BY <2>1, <2>3, RenameKeepsRevocations
  <2>4. CASE ~CommitRename
    <3>1. disk' = disk
      BY <2>1, <2>4, OnlyRenamesChangeTheDisk
    <3>2. QED
      BY <2>2, <3>1
  <2>5. QED
    BY <2>3, <2>4
<1>2. QED
  BY <1>1, SafeInvariance, PTL DEF Spec, CRLNeverForgets

----------------------------------------------------------------------------
(* Two processes on one directory: what the steps of one do to the files   *)
(* and what that leaves of the invariants of the other.                    *)

(* The running command's plan is a sequence. *)
PlanIsSequence == pc \in {"stage", "commit"} => DOMAIN plan = 1 .. Len(plan)

LEMMA PlanDomain ==
    ASSUME SafeInv
    PROVE  PlanIsSequence
<1>1. pc \in {"stage", "commit"} =>
      \/ plan = InitPlan(mem.key)
      \/ plan = SignPlan(mem.serial, mem.subject, mem.key, Entries)
      \/ plan = RevokePlan(Entries, mem.position, mem.reason)
      \/ \E m \in 1 .. MaxCRLNumber : plan = CRLPlan(m, mem.revoked, mem.key)
  BY DEF SafeInv, RunInv, InitRun, SignRun, RevokeRun, CRLRun
<1>2. QED
  BY <1>1 DEF InitPlan, SignPlan, RevokePlan, CRLPlan, PlanIsSequence

LEMMA PlanPathsKnown ==
    ASSUME TypeInv, PlanIsSequence, pc \in {"stage", "commit"}
    PROVE  PlanPaths \subseteq Paths
BY FitsKind DEF TypeInv, PlanOK, WellFormed, PlanIsSequence, PlanPaths

(* A process writes and removes the .tmp files of its own plan only        *)
(* (cleanupTempFiles is given the paths the command has staged).           *)
LEMMA OwnTemporaries ==
    ASSUME TypeInv, PlanIsSequence, [Next]_vars, NEW p \in Paths,
           pc \in {"stage", "commit"} => p \notin PlanPaths
    PROVE  tmp'[p] = tmp[p]
<1>f. tmp = [q \in Paths |-> tmp[q]]
  BY DEF TypeInv, TypeOK, FilesOK
<1>p. pc \in {"stage", "commit"} => Current.path # p
  <2>1. pc \in {"stage", "commit"} => pos \in DOMAIN plan
    BY DEF PlanIsSequence, TypeInv, PlanOK
  <2>2. QED
    BY <2>1 DEF PlanPaths, Current
<1>a. pc = "stage" => \A files \in AfterPartialWrite : files[p] = tmp[p]
  BY <1>f, <1>p DEF AfterPartialWrite
<1>c. pc \in {"stage", "commit"} => \A files : CleanUp(files) => tmp'[p] = files[p]
  BY DEF CleanUp
<1>1. CASE Operator \/ UNCHANGED vars
  BY <1>1
  DEF Operator, BeginInit, RejectInit, BeginSign, RejectSign, BeginRevoke, RejectRevoke,
      BeginCRL, RejectCRL, Begin, Reject, data, vars
<1>2. CASE MakeDataDir \/ MakeDataDirFails \/ SignLoadIndex \/ SignLoadIndexFails \/ CRLLoadCounter
  BY <1>2
  DEF MakeDataDir, MakeDataDirFails, SignLoadIndex, SignLoadIndexFails, CRLLoadCounter,
      Prepare, data
<1>3. CASE StageWrite
  BY <1>3, <1>f, <1>p DEF StageWrite
<1>4. CASE StageWriteFails
  BY <1>4, <1>a, <1>c DEF StageWriteFails
<1>5. CASE CommitRename
  BY <1>5, <1>f, <1>p DEF CommitRename
<1>6. CASE CommitRenameFails
  BY <1>6, <1>c DEF CommitRenameFails
<1>7. CASE Crash
  BY <1>7, <1>a DEF Crash
<1>8. QED
  BY <1>1, <1>2, <1>3, <1>4, <1>5, <1>6, <1>7 DEF Next, Progress

(* What init, sign and revoke touch once there is an index.                *)
IssuerFiles == {SerialFile, IndexFile} \cup CertFiles

LEMMA IssuerPlanPaths ==
    ASSUME SafeInv, pc \in {"stage", "commit"}, op # "crl", Exists(IndexFile)
    PROVE  PlanPaths \subseteq IssuerFiles
<1>1. CASE SignRun
  <2>1. plan = SignPlan(mem.serial, mem.subject, mem.key, Entries) /\ mem.serial \in Serials
    BY <1>1 DEF SignRun
  <2>2. QED
    BY <2>1, KnownPaths DEF SignPlan, Write, PlanPaths, IssuerFiles
<1>2. CASE RevokeRun
  <2>1. plan = RevokePlan(Entries, mem.position, mem.reason)
    BY <1>2 DEF RevokeRun
  <2>2. QED
    BY <2>1 DEF RevokePlan, Write, PlanPaths, IssuerFiles
<1>3. QED
  BY <1>1, <1>2 DEF SafeInv, RunInv, InitRun

LEMMA IssuerTouches ==
    ASSUME TypeInv, SafeInv, [Next]_vars, op # "crl", Exists(IndexFile)
    PROVE  /\ \A p \in Paths \ IssuerFiles : disk'[p] = disk[p]
           /\ Exists(IndexFile)'
<1>f. FilesOK
  BY DEF TypeInv, TypeOK
<1>1. CASE ~CommitRename
  BY <1>1, OnlyRenamesChangeTheDisk DEF Exists
<1>2. CASE CommitRename
  <2>1. CASE SignEffect
    <3>1. PICK p \in IssuerFiles : \E c : Put(p, c) /\ (p = IndexFile => c # Absent)
      BY <2>1, KnownPaths, CertFilesDiffer, FixedPathsDiffer, ContentFields
      DEF SignEffect, IssuerFiles
    <3>2. p \in Paths /\ IndexFile \in Paths
      BY KnownPaths DEF IssuerFiles
    <3>3. QED
      BY <1>f, <3>1, <3>2, PutFrame DEF Exists
  <2>2. CASE RevokeEffect
    <3>1. PICK es : Put(IndexFile, Index(es))
      BY <2>2 DEF RevokeEffect
    <3>2. QED
      BY <1>f, <3>1, PutFrame, KnownPaths, ContentFields DEF Exists, IssuerFiles
  <2>3. QED
    BY <1>2, <2>1, <2>2, RenameEffect DEF InitEffect
<1>3. QED
  BY <1>1, <1>2

LEMMA ExtendsKeepsRevoked ==
    ASSUME NEW new, NEW old, Extends(new, old)
    PROVE  RevokedEntries(old) \subseteq RevokedEntries(new)
BY DEF Extends, RevokedEntries

LEMMA StepsKeepCertificates ==
    ASSUME TypeInv, SafeInv, [Next]_vars, NEW q \in CertFiles, Exists(q)
    PROVE  disk'[q] = disk[q]
BY RenameKeepsCertificates, OnlyRenamesChangeTheDisk

LEMMA StepsExtendTheIndex ==
    ASSUME TypeInv, SafeInv, [Next]_vars
    PROVE  Extends(IndexEntries(disk'), IndexEntries(disk))
BY RenameKeepsHistory, OnlyRenamesChangeTheDisk DEF Extends

(* What another process leaves of the invariants of this one.              *)
LEMMA OthersKeepTypeInv ==
    ASSUME TypeInv, FilesOK', PlanIsSequence, UNCHANGED process, outcome' = outcome,
           pc = "loadCounter" => disk'[CrlNumberFile] = disk[CrlNumberFile],
           pc \in {"stage", "commit"} => \A p \in PlanPaths : tmp'[p] = tmp[p]
    PROVE  TypeInv'
<1>1. op' = op /\ pc' = pc /\ mem' = mem /\ plan' = plan /\ pos' = pos
  BY DEF process
<1>p. pc \in {"stage", "commit"} =>
        \A i \in 1 .. Len(plan) : tmp'[plan[i].path] = tmp[plan[i].path]
  BY DEF PlanIsSequence, PlanPaths
<1>2. TypeOK'
  BY <1>1 DEF TypeInv, TypeOK
<1>3. MemOK'
  BY <1>1 DEF TypeInv, MemOK, Loads
<1>4. PlanOK'
  BY <1>1 DEF TypeInv, PlanOK
<1>5. StagedOK'
  <2>1. CASE pc = "stage"
    <3>1. pos \in 1 .. Len(plan) /\ Len(plan) \in 1 .. 5
      BY <2>1 DEF TypeInv, PlanOK, WellFormed
    <3>2. \A i \in 1 .. pos - 1 : i \in 1 .. Len(plan)
      BY <3>1
    <3>3. QED
      BY <1>1, <1>p, <2>1, <3>2 DEF TypeInv, StagedOK
  <2>2. CASE pc = "commit"
    <3>1. pos \in 1 .. Len(plan) /\ Len(plan) \in 1 .. 5
      BY <2>2 DEF TypeInv, PlanOK, WellFormed
    <3>2. \A i \in pos .. Len(plan) : i \in 1 .. Len(plan)
      BY <3>1
    <3>3. QED
      BY <1>1, <1>p, <2>2, <3>2 DEF TypeInv, StagedOK
  <2>3. QED
    BY <1>1, <2>1, <2>2 DEF StagedOK
<1>6. QED
  BY <1>2, <1>3, <1>4, <1>5 DEF TypeInv

CrlFilesOnly == {CaCrl, CrlNumberFile}

LEMMA JobKeepsRunInv ==
    ASSUME RunInv, op # "crl", UNCHANGED process,
           \A p \in Paths \ CrlFilesOnly : disk'[p] = disk[p],
           Exists(IndexFile) \/ disk' = disk
    PROVE  RunInv'
<1>1. op' = op /\ pc' = pc /\ mem' = mem /\ plan' = plan /\ pos' = pos /\ Done' = Done
  BY DEF process, Done
<1>2. /\ disk'[CaKey] = disk[CaKey] /\ disk'[CaCrt] = disk[CaCrt]
      /\ disk'[SerialFile] = disk[SerialFile] /\ disk'[IndexFile] = disk[IndexFile]
      /\ \A p \in CertFiles : disk'[p] = disk[p]
  BY KnownPaths, FixedPathsDiffer, CertFilesDiffer DEF CrlFilesOnly
<1>3. SignRun => SignRun'
  <2>1. SUFFICES ASSUME SignRun PROVE SignRun'
    OBVIOUS
  <2>2. CertFile(mem.serial) \in CertFiles
    BY <2>1, KnownPaths DEF SignRun
  <2>3. QED
    BY <1>1, <1>2, <2>1, <2>2 DEF SignRun, Loads, Entries
<1>4. RevokeRun => RevokeRun'
  BY <1>1, <1>2 DEF RevokeRun, Loads, Entries
<1>5. InitRun => InitRun'
  <2>1. SUFFICES ASSUME InitRun, disk' = disk PROVE InitRun'
    BY DEF InitRun
  <2>2. QED
    BY <1>1, <2>1 DEF InitRun, Exists
<1>6. QED
  BY <1>1, <1>2, <1>3, <1>4, <1>5 DEF RunInv, Exists

----------------------------------------------------------------------------
(* The job's run of `ca crl` beside other commands: the index may have     *)
(* grown since it read it, and the list in place is still no longer than   *)
(* the one it has prepared.                                                *)

JobRun ==
    pc # "idle" =>
        /\ op = "crl"
        /\ pc \in {"loadCounter", "stage", "commit"}
        /\ mem \in [key : Keys, revoked : SUBSET CrlEntry]
        /\ disk[CaKey] = PrivateKey(mem.key)
        /\ Exists(IndexFile)
        /\ mem.revoked \subseteq RevokedEntries(IndexEntries(disk))
        /\ Exists(CaCrl) => disk[CaCrl].revoked \subseteq mem.revoked
        /\ pc \in {"stage", "commit"} =>
            \E m \in 1 .. MaxCRLNumber :
                disk[CrlNumberFile] = Counter(m) /\ plan = CRLPlan(m, mem.revoked, mem.key)

JobStep == BeginCRL \/ RejectCRL \/ Progress \/ Crash

JobEffect ==
    /\ \A p \in Paths \ CrlFilesOnly : disk'[p] = disk[p]
    /\ Exists(IndexFile) \/ disk' = disk
    /\ Exists(CaCrl) =>
        /\ Exists(CaCrl)'
        /\ disk[CaCrl].revoked \subseteq disk'[CaCrl].revoked
        /\ disk[CaCrl].number <= disk'[CaCrl].number

LEMMA JobStepsAreSteps == JobStep => Next
BY DEF JobStep, Next, Operator

(* The operator of init, sign and revoke starts no other command.          *)
IssuerStep ==
    \/ \E k \in Keys : BeginInit(k)
    \/ \E csr \in CSR : BeginSign(csr)
    \/ \E n \in Serials, r \in Reasons : BeginRevoke(n, r)
    \/ RejectInit
    \/ \E csr \in CSR : RejectSign(csr)
    \/ \E n \in Serials : RejectRevoke(n)
    \/ Progress
    \/ Crash

LEMMA IssuerStepsAreSteps == IssuerStep => Next
BY BoundsAssumption DEF IssuerStep, Next, Operator, Serials

LEMMA ProcessesKeepTheirCommand ==
    /\ op \in {"none", "init", "sign", "revoke"} /\ IssuerStep
            => op' \in {"none", "init", "sign", "revoke"}
    /\ op \in {"none", "crl"} /\ JobStep => op' \in {"none", "crl"}
<1>1. Progress \/ Crash => op' \in {op, "none"}
  BY DEF Progress, Crash, MakeDataDir, MakeDataDirFails, SignLoadIndex, SignLoadIndexFails,
         CRLLoadCounter, StageWrite, StageWriteFails, CommitRename, CommitRenameFails,
         Prepare, Finish
<1>2. QED
  BY <1>1
  DEF IssuerStep, JobStep, BeginInit, RejectInit, BeginSign, RejectSign, BeginRevoke,
      RejectRevoke, BeginCRL, RejectCRL, Begin, Reject, process

LEMMA JobPlan ==
    ASSUME JobRun
    PROVE  /\ PlanIsSequence
           /\ pc \in {"stage", "commit"} => PlanPaths = CrlFilesOnly
<1>1. pc \in {"stage", "commit"} => \E m, R, k : plan = CRLPlan(m, R, k)
  BY DEF JobRun
<1>2. QED
  BY <1>1 DEF CRLPlan, Write, PlanIsSequence, PlanPaths, CrlFilesOnly

LEMMA JobCommit ==
    ASSUME TypeInv, DiskInv, JobRun, CommitRename
    PROVE  DiskInv' /\ JobRun' /\ JobEffect
<1>f. FilesOK
  BY DEF TypeInv, TypeOK
<1>0. pc = "commit" /\ pos \in 1 .. Len(plan)
  BY CommitEffect
<1>1. PICK m \in 1 .. MaxCRLNumber :
        disk[CrlNumberFile] = Counter(m) /\ plan = CRLPlan(m, mem.revoked, mem.key)
  BY <1>0 DEF JobRun
<1>2. /\ mem \in [key : Keys, revoked : SUBSET CrlEntry] /\ mem.key \in Keys /\ m \in Nat
      /\ disk[CaKey] = PrivateKey(mem.key) /\ Exists(IndexFile)
      /\ mem.revoked \subseteq RevokedEntries(IndexEntries(disk))
      /\ IndexEntries(disk) = Entries
      /\ Exists(CaCrl) => disk[CaCrl].revoked \subseteq mem.revoked
  BY <1>f, <1>0, BoundsAssumption, IndexEntriesType DEF JobRun
<1>3. /\ plan[1] = Write(CaCrl, Crl(m, mem.revoked, mem.key))
      /\ plan[2] = Write(CrlNumberFile, Counter(m + 1))
      /\ Len(plan) = 2 /\ pos \in 1 .. 2
  BY <1>0, <1>1 DEF CRLPlan
<1>4. \A p, c : plan[pos] = Write(p, c) => Put(p, c)
  BY CommitEffect DEF Write
<1>5. Exists(CaCrl) => disk[CaCrl].number \in Nat /\ disk[CaCrl].number <= m
  BY <1>f, <1>1, ExistsLoads, ContentFields DEF CrlFiles, DiskInv, CRLMatchesIndex
<1>6. CASE pos = 1
  <2>1. Put(CaCrl, Crl(m, mem.revoked, mem.key))
    BY <1>3, <1>4, <1>6
  <2>2. DiskInv'
    BY <1>f, <1>1, <1>2, <2>1, CrlPut
  <2>3. /\ \A p \in Paths : p # CaCrl => disk'[p] = disk[p]
        /\ disk'[CaCrl] = Crl(m, mem.revoked, mem.key)
    BY <1>f, <2>1, PutFrame, KnownPaths
  <2>4. /\ disk'[CaKey] = disk[CaKey] /\ disk'[IndexFile] = disk[IndexFile]
        /\ disk'[CrlNumberFile] = disk[CrlNumberFile]
        /\ IndexEntries(disk') = IndexEntries(disk)
    BY <2>3, KnownPaths, FixedPathsDiffer DEF IndexEntries
  <2>5. pc' = "commit" /\ op' = op /\ mem' = mem /\ plan' = plan
    BY <1>3, <1>6, CommitEffect
  <2>6. JobRun'
    BY <1>0, <1>1, <1>2, <2>3, <2>4, <2>5, ContentFields DEF JobRun, Exists
  <2>7. JobEffect
    BY <1>2, <1>5, <2>3, ContentFields DEF JobEffect, CrlFilesOnly, Exists
  <2>8. QED
    BY <2>2, <2>6, <2>7
<1>7. CASE pos = 2
  <2>1. Put(CrlNumberFile, Counter(m + 1)) /\ Finish("ok")
    BY <1>3, <1>4, <1>7, CommitEffect
  <2>2. DiskInv'
    BY <1>f, <1>1, <1>2, <2>1, CrlNumberPut
  <2>3. JobRun'
    BY <2>1 DEF JobRun, Finish
  <2>4. \A p \in Paths : p # CrlNumberFile => disk'[p] = disk[p]
    BY <1>f, <2>1, PutFrame, KnownPaths
  <2>5. disk'[CaCrl] = disk[CaCrl]
    BY <2>4, KnownPaths, FixedPathsDiffer
  <2>6. JobEffect
    BY <1>2, <1>5, <2>4, <2>5 DEF JobEffect, CrlFilesOnly, Exists
  <2>7. QED
    BY <2>2, <2>3, <2>6
<1>8. QED
  BY <1>3, <1>6, <1>7

LEMMA JobKeepsInv ==
    ASSUME TypeInv, DiskInv, JobRun, JobStep
    PROVE  DiskInv' /\ JobRun' /\ JobEffect
<1>f. FilesOK
  BY DEF TypeInv, TypeOK
<1>1. CASE CommitRename
  BY <1>1, JobCommit
<1>2. CASE ~CommitRename
  <2>1. disk' = disk
    BY <1>2, OnlyRenamesChangeTheDisk DEF JobStep, Next, Operator
  <2>2. DiskInv'
    BY <2>1, DiskInvDependsOnDisk
  <2>3. JobEffect
    <3>1. Exists(CaCrl) => disk[CaCrl].number \in Nat
      BY <1>f, ExistsLoads DEF CrlFiles
    <3>2. QED
      BY <2>1, <3>1 DEF JobEffect, Exists
  <2>4. ASSUME NEW r, Finish(r) PROVE JobRun'
    BY <2>4 DEF JobRun, Finish
  <2>5. CASE BeginCRL
    <3>1. /\ op' = "crl" /\ pc' = "loadCounter"
          /\ mem' = [key |-> disk[CaKey].key, revoked |-> RevokedEntries(Entries)]
          /\ Loads(CaKey, "key") /\ Loads(IndexFile, "index")
      BY <2>5 DEF BeginCRL, CRLInputsLoad, Begin
    <3>2. Exists(CaKey) /\ Exists(IndexFile) /\ IndexEntries(disk) = Entries
      BY <1>f, <3>1, LoadsExists, IndexEntriesType
    <3>3. disk[CaKey] = PrivateKey(disk[CaKey].key) /\ disk[CaKey].key \in Keys
      BY <1>f, <3>2, ExistsLoads, ContentFields
    <3>4. RevokedEntries(Entries) \in SUBSET CrlEntry
      BY <1>f, <3>2, IndexEntriesType, RevokedEntriesType
    <3>5. Exists(CaCrl) => disk[CaCrl].revoked \subseteq RevokedEntries(Entries)
      BY <3>2 DEF DiskInv, CRLMatchesIndex
    <3>6. mem' \in [key : Keys, revoked : SUBSET CrlEntry]
      BY <3>1, <3>3, <3>4
    <3>7. JobRun'
      BY <2>1, <3>1, <3>2, <3>3, <3>5, <3>6 DEF JobRun, Exists
    <3>8. QED
      BY <2>2, <2>3, <3>7
  <2>6. CASE RejectCRL
    BY <2>1, <2>2, <2>3, <2>6 DEF RejectCRL, Reject, Idle, process, JobRun
  <2>7. CASE CRLLoadCounter
    <3>1. CASE pc' = "stage"
      <4>1. /\ pc = "loadCounter" /\ Loads(CrlNumberFile, "counter") /\ op' = op /\ mem' = mem
            /\ plan' = CRLPlan(disk[CrlNumberFile].value, mem.revoked, mem.key)
        BY <2>7, <3>1 DEF CRLLoadCounter, Prepare, Finish
      <4>2. disk[CrlNumberFile].value \in 1 .. MaxCRLNumber
        BY <1>f, <4>1, LoadedTypes, BoundsAssumption DEF TypeInv, MemOK
      <4>3. disk[CrlNumberFile] = Counter(disk[CrlNumberFile].value)
        BY <1>f, <4>1, LoadsExists, ExistsLoads, ContentFields
      <4>4. JobRun'
        BY <2>1, <3>1, <4>1, <4>2, <4>3 DEF JobRun, Exists
      <4>5. QED
        BY <2>2, <2>3, <4>4
    <3>2. CASE pc' # "stage"
      BY <2>2, <2>3, <2>4, <2>7, <3>2 DEF CRLLoadCounter, Prepare
    <3>3. QED
      BY <3>1, <3>2
  <2>8. CASE StageWrite
    <3>1. /\ pc = "stage" /\ pc' \in {"stage", "commit"}
          /\ op' = op /\ mem' = mem /\ plan' = plan
      BY <2>8 DEF StageWrite
    <3>2. JobRun'
      BY <2>1, <3>1 DEF JobRun, Exists
    <3>3. QED
      BY <2>2, <2>3, <3>2
  <2>9. CASE StageWriteFails \/ CommitRenameFails \/ Crash
    BY <2>2, <2>3, <2>4, <2>9 DEF StageWriteFails, CommitRenameFails, Crash
  <2>10. ~(MakeDataDir \/ MakeDataDirFails \/ SignLoadIndex \/ SignLoadIndexFails)
    BY DEF JobRun, MakeDataDir, MakeDataDirFails, SignLoadIndex, SignLoadIndexFails
  <2>11. QED
    BY <1>2, <2>5, <2>6, <2>7, <2>8, <2>9, <2>10 DEF JobStep, Progress
<1>3. QED
  BY <1>1, <1>2

LEMMA OthersKeepJobRun ==
    ASSUME JobRun, UNCHANGED process,
           pc # "idle" =>
              /\ \A p \in {CaKey, CrlNumberFile, CaCrl} : disk'[p] = disk[p]
              /\ Exists(IndexFile)'
              /\ RevokedEntries(IndexEntries(disk)) \subseteq RevokedEntries(IndexEntries(disk'))
    PROVE  JobRun'
BY DEF JobRun, process, Exists

=============================================================================
