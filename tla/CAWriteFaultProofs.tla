------------------------- MODULE CAWriteFaultProofs -------------------------
(***************************************************************************)
(* What the commands promise beyond CAStoreProofs when nothing but writes  *)
(* fails: ADR-006 prepares every write before the first rename, so a write *)
(* that fails leaves no trace.  The hypothesis of each theorem is that no  *)
(* rename and no removal fails and that nothing kills the process; the     *)
(* runs StoreRenameFails, StoreHalfInit, StoreOrphan and StoreCRLReuse     *)
(* show that the same promises do not survive those.                       *)
(***************************************************************************)
EXTENDS CAHistoryProofs

OnlyWritesFail == Faults \subseteq {"write"}

(* A commit that has begun is not cut short.                               *)
LEMMA CommitSucceeds ==
    ASSUME TypeInv, OnlyWritesFail
    PROVE  ~CommitRenameFails /\ ~Crash
<1>1. pc = "commit" => tmp[Current.path] # Absent
  <2>1. SUFFICES ASSUME pc = "commit" PROVE tmp[Current.path] # Absent
    OBVIOUS
  <2>2. pos \in 1 .. Len(plan) /\ Len(plan) \in 1 .. 5 /\ Fits(plan[pos].path, plan[pos].content)
    BY <2>1 DEF TypeInv, PlanOK, WellFormed
  <2>3. tmp[plan[pos].path] = plan[pos].content
    BY <2>1, <2>2 DEF TypeInv, StagedOK
  <2>4. QED
    BY <2>2, <2>3, FitsKind DEF Current
<1>2. QED
  BY <1>1 DEF OnlyWritesFail, CommitRenameFails, Crash

(* What the other steps do: a command commits from its first rename on.    *)
LEMMA StepsBeforeCommit ==
    ASSUME TypeInv, [Next]_vars, ~CommitRename, OnlyWritesFail
    PROVE  /\ disk' = disk
           /\ \/ UNCHANGED vars
              \/ pc # "commit" /\ pc' # "commit"
              \/ pc = "stage" /\ pc' = "commit" /\ pos' = 1 /\ UNCHANGED <<op, mem, plan>>
           /\ before' \in {before, disk}
           /\ pc # "idle" /\ pc' = "idle" => outcome' # "ok"
<1>1. disk' = disk
  BY OnlyRenamesChangeTheDisk
<1>2. CASE Operator
  BY <1>1, <1>2
  DEF Operator, BeginInit, RejectInit, BeginSign, RejectSign, BeginRevoke, RejectRevoke,
      BeginCRL, RejectCRL, Begin, Reject, Idle, process, data
<1>3. CASE MakeDataDir \/ MakeDataDirFails \/ SignLoadIndex \/ SignLoadIndexFails \/ CRLLoadCounter
  BY <1>1, <1>3
  DEF MakeDataDir, MakeDataDirFails, SignLoadIndex, SignLoadIndexFails, CRLLoadCounter,
      Prepare, Finish
<1>4. CASE StageWrite
  BY <1>1, <1>4 DEF StageWrite
<1>5. CASE StageWriteFails
  BY <1>1, <1>5 DEF StageWriteFails, Finish
<1>6. CASE UNCHANGED vars
  BY <1>1, <1>6 DEF vars
<1>7. QED
  BY <1>1, <1>2, <1>3, <1>4, <1>5, <1>6, CommitSucceeds DEF Next, Progress

----------------------------------------------------------------------------
(* Nothing is left staged: a .tmp file is there only while the command     *)
(* that wrote it has yet to rename it.                                     *)

StagedOnly ==
    \A p \in Paths : tmp[p] # Absent =>
        \/ pc = "stage" /\ \E i \in 1 .. Len(plan) : plan[i].path = p
        \/ pc = "commit" /\ \E i \in pos .. Len(plan) : plan[i].path = p

LEMMA NextKeepsStagedOnly ==
    ASSUME TypeInv, SafeInv, StagedOnly, [Next]_vars, OnlyWritesFail
    PROVE  StagedOnly'
<1>1. CASE UNCHANGED vars
  BY <1>1 DEF vars, StagedOnly
<1>2. ASSUME pc \notin {"stage", "commit"}, tmp' = tmp
      PROVE  StagedOnly'
  BY <1>2 DEF StagedOnly
<1>3. CASE Operator
  BY <1>2, <1>3
  DEF Operator, BeginInit, RejectInit, BeginSign, RejectSign, BeginRevoke, RejectRevoke,
      BeginCRL, RejectCRL, Begin, Reject, Idle, data
<1>4. CASE MakeDataDir \/ MakeDataDirFails \/ SignLoadIndex \/ SignLoadIndexFails \/ CRLLoadCounter
  BY <1>2, <1>4
  DEF MakeDataDir, MakeDataDirFails, SignLoadIndex, SignLoadIndexFails, CRLLoadCounter,
      Prepare, data
<1>5. CASE StageWrite
  <2>1. /\ pc = "stage" /\ pos \in 1 .. Len(plan) /\ Len(plan) \in 1 .. 5
        /\ plan' = plan /\ tmp' = [tmp EXCEPT ![plan[pos].path] = plan[pos].content]
        /\ pc' \in {"stage", "commit"} /\ (pc' = "commit" => pos' = 1)
    BY <1>5 DEF StageWrite, Current, TypeInv, PlanOK, WellFormed
  <2>2. ASSUME NEW p \in Paths, tmp'[p] # Absent
        PROVE  \E i \in 1 .. Len(plan) : plan[i].path = p
    <3>1. CASE p = plan[pos].path
      BY <2>1, <3>1
    <3>2. CASE p # plan[pos].path
      BY <2>1, <2>2, <3>2 DEF StagedOnly, TypeInv, TypeOK, FilesOK
    <3>3. QED
      BY <3>1, <3>2
  <2>3. QED
    BY <2>1, <2>2 DEF StagedOnly
<1>6. CASE StageWriteFails
  <2>1. pc = "stage" /\ pos \in 1 .. Len(plan) /\ DOMAIN plan = 1 .. Len(plan)
    BY <1>6, PlanDomain DEF PlanIsSequence, StageWriteFails, TypeInv, PlanOK
  <2>2. PICK files \in AfterPartialWrite : CleanUp(files)
    BY <1>6 DEF StageWriteFails
  <2>3. \A p \in Paths : tmp'[p] = IF p \in PlanPaths THEN Absent ELSE files[p]
    BY <2>2 DEF CleanUp, OnlyWritesFail
  <2>4. ASSUME NEW p \in Paths, p \notin PlanPaths
        PROVE  files[p] = Absent
    <3>1. p # Current.path
      BY <2>1, <2>4 DEF PlanPaths, Current
    <3>2. files[p] = tmp[p]
      BY <2>2, <3>1 DEF AfterPartialWrite, TypeInv, TypeOK, FilesOK
    <3>3. ~\E i \in 1 .. Len(plan) : plan[i].path = p
      BY <2>1, <2>4 DEF PlanPaths
    <3>4. QED
      BY <2>1, <3>2, <3>3 DEF StagedOnly
  <2>5. QED
    BY <2>3, <2>4 DEF StagedOnly
<1>7. CASE CommitRename
  <2>1. /\ pc = "commit" /\ pos \in 1 .. Len(plan) /\ Len(plan) \in 1 .. 5
        /\ tmp' = [tmp EXCEPT ![plan[pos].path] = Absent]
        /\ \/ pos < Len(plan) /\ pc' = "commit" /\ plan' = plan /\ pos' = pos + 1
           \/ pos = Len(plan)
    BY <1>7, CommitEffect DEF CommitRename, Current, TypeInv, PlanOK, WellFormed
  <2>2. ASSUME NEW p \in Paths, tmp'[p] # Absent
        PROVE  \E i \in pos + 1 .. Len(plan) : plan[i].path = p
    <3>1. p # plan[pos].path /\ tmp[p] # Absent
      BY <2>1, <2>2 DEF TypeInv, TypeOK, FilesOK
    <3>2. PICK i \in pos .. Len(plan) : plan[i].path = p
      BY <2>1, <3>1 DEF StagedOnly
    <3>3. i # pos
      BY <3>1, <3>2
    <3>4. QED
      BY <2>1, <3>2, <3>3
  <2>3. QED
    BY <2>1, <2>2 DEF StagedOnly
<1>8. QED
  BY <1>1, <1>3, <1>4, <1>5, <1>6, <1>7, CommitSucceeds DEF Next, Progress

LEMMA StagedOnlyInvariance ==
    ASSUME OnlyWritesFail
    PROVE  Spec => []StagedOnly
<1>1. Init => StagedOnly
  BY DEF Init, NoFiles, StagedOnly
<1>2. TypeInv /\ SafeInv /\ StagedOnly /\ [Next]_vars => StagedOnly'
  BY NextKeepsStagedOnly
<1>3. QED
  BY <1>1, <1>2, SafeInvariance, PTL DEF Spec

(* A command that ends leaves no .tmp file, whichever of its writes failed *)
(* (cleanupTempFiles after a failed stage, the renames after a full one).  *)
THEOREM NothingStaysStaged ==
    ASSUME OnlyWritesFail
    PROVE  Spec => []NothingLeftStaged
<1>1. TypeInv /\ StagedOnly => NothingLeftStaged
  BY DEF TypeInv, TypeOK, FilesOK, StagedOnly, NothingLeftStaged, Idle, NoFiles
<1>2. QED
  BY <1>1, StagedOnlyInvariance, TypeInvariance, PTL

----------------------------------------------------------------------------
(* All or nothing: what is on the disk is what the command found there and *)
(* the writes it has renamed, of which a command that fails has none.      *)

FromBefore ==
    /\ before = [p \in Paths |-> before[p]]
    /\ pc # "commit" => disk = before
    /\ pc = "commit" =>
        /\ \A i \in 1 .. pos - 1 : disk[plan[i].path] = plan[i].content
        /\ \A p \in Paths :
            (\A i \in 1 .. pos - 1 : plan[i].path # p) => disk[p] = before[p]

(* What a rename adds to what was renamed before it.                       *)
LEMMA RenameExtends ==
    ASSUME TypeInv, FromBefore, CommitRename
    PROVE  /\ \A i \in 1 .. pos : disk'[plan[i].path] = plan[i].content
           /\ \A p \in Paths :
                (\A i \in 1 .. pos : plan[i].path # p) => disk'[p] = before[p]
<1>1. /\ pc = "commit" /\ pos \in 1 .. Len(plan) /\ plan[pos].path \in Paths
      /\ WellFormed(plan) /\ Len(plan) \in 1 .. 5
  BY CommitEffect DEF TypeInv, PlanOK, WellFormed
<1>2. /\ disk'[plan[pos].path] = plan[pos].content
      /\ \A q \in Paths : q # plan[pos].path => disk'[q] = disk[q]
  BY <1>1, CommitEffect, PutFrame DEF TypeInv, TypeOK
<1>3. ASSUME NEW i \in 1 .. pos
      PROVE  disk'[plan[i].path] = plan[i].content
  <2>1. CASE i = pos
    BY <1>2, <2>1
  <2>2. CASE i # pos
    <3>1. i \in 1 .. pos - 1 /\ i \in 1 .. Len(plan)
      BY <1>1, <2>2
    <3>2. plan[i].path # plan[pos].path /\ plan[i].path \in Paths
      BY <1>1, <2>2, <3>1, FitsKind DEF WellFormed
    <3>3. QED
      BY <1>1, <1>2, <3>1, <3>2 DEF FromBefore
  <2>3. QED
    BY <2>1, <2>2
<1>4. ASSUME NEW p \in Paths, \A i \in 1 .. pos : plan[i].path # p
      PROVE  disk'[p] = before[p]
  <2>1. pos \in 1 .. pos /\ \A i \in 1 .. pos - 1 : i \in 1 .. pos
    BY <1>1
  <2>2. QED
    BY <1>1, <1>2, <1>4, <2>1 DEF FromBefore
<1>5. QED
  BY <1>3, <1>4

LEMMA NextKeepsFromBefore ==
    ASSUME TypeInv, TypeInv', SafeInv, FromBefore, [Next]_vars, OnlyWritesFail
    PROVE  FromBefore'
<1>1. CASE ~CommitRename
  <2>1. CASE UNCHANGED vars
    BY <2>1 DEF vars, FromBefore
  <2>2. CASE ~UNCHANGED vars
    <3>1. disk' = disk /\ before' \in {before, disk} /\ pc # "commit"
          /\ (pc' = "commit" => pos' = 1)
      BY <1>1, <2>2, StepsBeforeCommit
    <3>2. disk' = before'
      BY <3>1 DEF FromBefore
    <3>3. before' = [p \in Paths |-> before'[p]]
      BY <3>1, <3>2 DEF FromBefore
    <3>4. QED
      BY <3>1, <3>2, <3>3 DEF FromBefore
  <2>3. QED
    BY <2>1, <2>2
<1>2. CASE CommitRename
  <2>1. pos \in 1 .. Len(plan) /\ Len(plan) \in 1 .. 5
    BY <1>2, CommitEffect DEF TypeInv, PlanOK, WellFormed
  <2>2. CASE pos < Len(plan)
    <3>1. pc' = "commit" /\ plan' = plan /\ pos' = pos + 1 /\ before' = before
      BY <1>2, <2>2, CommitEffect DEF CommitRename
    <3>2. pos' - 1 = pos
      BY <2>1, <3>1
    <3>3. QED
      BY <1>2, <3>1, <3>2, RenameExtends DEF FromBefore
  <2>3. CASE ~(pos < Len(plan))
    <3>1. pc' = "idle" /\ before' = disk'
      BY <1>2, <2>3, CommitEffect DEF Finish
    <3>2. QED
      BY <3>1 DEF FromBefore, TypeInv, TypeOK, FilesOK
  <2>4. QED
    BY <2>2, <2>3
<1>3. QED
  BY <1>1, <1>2

LEMMA FromBeforeInvariance ==
    ASSUME OnlyWritesFail
    PROVE  Spec => []FromBefore
<1>1. Init => FromBefore
  BY DEF Init, NoFiles, FromBefore
<1>2. TypeInv /\ TypeInv' /\ SafeInv /\ FromBefore /\ [Next]_vars => FromBefore'
  BY NextKeepsFromBefore
<1>3. QED
  BY <1>1, <1>2, SafeInvariance, PTL DEF Spec

(* The disk with every write of the plan in place.                         *)
AllWritten ==
    [p \in Paths |->
        IF p \in PlanPaths
        THEN (CHOOSE w \in {plan[i] : i \in DOMAIN plan} : w.path = p).content
        ELSE before[p]]

LEMMA LastRename ==
    ASSUME TypeInv, TypeInv', SafeInv, FromBefore, CommitRename, pc' = "idle"
    PROVE  outcome' = "ok" /\ disk' = AllWritten
<1>1. /\ pc = "commit" /\ WellFormed(plan) /\ DOMAIN plan = 1 .. Len(plan)
      /\ pos = Len(plan) /\ outcome' = "ok"
  BY CommitEffect, PlanDomain DEF PlanIsSequence, Finish, TypeInv, PlanOK
<1>2. disk' = [p \in Paths |-> disk'[p]]
  BY DEF TypeInv, TypeOK, FilesOK
<1>3. ASSUME NEW p \in Paths, p \in PlanPaths
      PROVE  disk'[p] = (CHOOSE w \in {plan[i] : i \in DOMAIN plan} : w.path = p).content
  <2>1. PICK i \in 1 .. Len(plan) : plan[i].path = p
    BY <1>1, <1>3 DEF PlanPaths
  <2>2. \A w \in {plan[j] : j \in DOMAIN plan} : w.path = p => w = plan[i]
    BY <1>1, <2>1 DEF WellFormed
  <2>3. plan[i] \in {plan[j] : j \in DOMAIN plan}
    BY <1>1
  <2>4. (CHOOSE w \in {plan[j] : j \in DOMAIN plan} : w.path = p) = plan[i]
    BY <2>1, <2>2, <2>3
  <2>5. disk'[plan[i].path] = plan[i].content
    BY <1>1, RenameExtends
  <2>6. QED
    BY <2>1, <2>4, <2>5
<1>4. ASSUME NEW p \in Paths, p \notin PlanPaths
      PROVE  disk'[p] = before[p]
  BY <1>1, <1>4, RenameExtends DEF PlanPaths
<1>5. QED
  BY <1>1, <1>2, <1>3, <1>4 DEF AllWritten

(* A command leaves the state it found or, reporting success, that state   *)
(* with every one of its writes (InitCA, SignCSR, RevokeCert, GenerateCRL).*)
THEOREM CommandsAreAtomic ==
    ASSUME OnlyWritesFail
    PROVE  Spec => AllOrNothing
<1>1. /\ TypeInv /\ TypeInv' /\ SafeInv /\ FromBefore /\ [Next]_vars
      => [pc # "idle" /\ pc' = "idle" =>
            disk' = IF outcome' = "ok" THEN AllWritten ELSE before]_vars
  <2>1. SUFFICES ASSUME TypeInv, TypeInv', SafeInv, FromBefore, [Next]_vars,
                        pc # "idle", pc' = "idle"
                 PROVE  disk' = IF outcome' = "ok" THEN AllWritten ELSE before
    OBVIOUS
  <2>2. CASE CommitRename
    BY <2>1, <2>2, LastRename
  <2>3. CASE ~CommitRename
    <3>1. ~UNCHANGED vars
      BY <2>1 DEF vars
    <3>2. disk' = disk /\ pc # "commit" /\ outcome' # "ok"
      BY <2>1, <2>3, <3>1, StepsBeforeCommit
    <3>3. QED
      BY <2>1, <3>2 DEF FromBefore
  <2>4. QED
    BY <2>2, <2>3
<1>2. QED
  BY <1>1, SafeInvariance, FromBeforeInvariance, PTL DEF Spec, AllOrNothing, AllWritten

----------------------------------------------------------------------------
(* The files match the index.  While a certificate is placed and its entry *)
(* is not, the command that does both is committing.                       *)

IsListed(n) == \E i \in DOMAIN IndexEntries(disk) : IndexEntries(disk)[i].serial = n

Signing == pc = "commit" /\ op = "sign"

(* The numbers reserved and not yet listed. *)
InFlight == IF Signing /\ pos > 1 THEN 1 ELSE 0

Settled ==
    /\ \A n \in Serials : Exists(CertFile(n)) => IsListed(n) \/ (Signing /\ n = mem.serial)
    /\ Exists(IndexFile) => disk[SerialFile].value = Len(Entries) + 2 + InFlight

(* A rename that leaves certificates, index and counter as they are.       *)
LEMMA SettledFrame ==
    ASSUME FilesOK, Settled, ~Signing, ~Signing',
           NEW p \in Paths, NEW c, Put(p, c), p \notin {SerialFile, IndexFile} \cup CertFiles
    PROVE  Settled'
<1>1. disk'[SerialFile] = disk[SerialFile] /\ disk'[IndexFile] = disk[IndexFile]
  BY PutElsewhere, KnownPaths
<1>2. \A n \in Serials : disk'[CertFile(n)] = disk[CertFile(n)]
  BY PutElsewhere, KnownPaths
<1>3. IndexEntries(disk') = IndexEntries(disk)
  BY <1>1 DEF IndexEntries
<1>4. QED
  BY <1>1, <1>2, <1>3 DEF Settled, InFlight, IsListed, Entries, Exists

LEMMA InitKeepsSettled ==
    ASSUME TypeInv, SafeInv, Settled, CommitRename, InitRun, op = "init", ~Signing'
    PROVE  Settled'
<1>f. FilesOK
  BY DEF TypeInv, TypeOK
<1>1. /\ plan = InitPlan(mem.key) /\ Len(plan) = 5 /\ pos \in 1 .. 5 /\ Done = pos - 1
      /\ ~Exists(IndexFile)
  BY CommitEffect DEF InitRun, InitPlan
<1>2. /\ \E c : Put(plan[pos].path, c)
      /\ plan[pos].path \in {CaKey, CaCrt, SerialFile, CrlNumberFile, IndexFile}
  BY <1>1, CommitEffect DEF InitPlan, Write
<1>3. \A n \in Serials : disk'[CertFile(n)] = Absent
  <2>1. ASSUME NEW n \in Serials
        PROVE  disk'[CertFile(n)] = Absent
    <3>1. disk[CertFile(n)] = Absent
      BY <1>1, KnownPaths DEF SafeInv, DiskInv, InCommitOrder, Exists
    <3>2. plan[pos].path # CertFile(n)
      BY <1>2, KnownPaths, CertFilesDiffer
    <3>3. QED
      BY <1>f, <1>2, <3>1, <3>2, PutElsewhere, KnownPaths
  <2>2. QED
    BY <2>1
<1>4. CASE pos # 5
  <2>1. plan[pos].path # IndexFile
    BY <1>1, <1>4, FixedPathsDiffer DEF InitPlan, Write
  <2>2. disk'[IndexFile] = disk[IndexFile]
    BY <1>f, <1>2, <2>1, PutElsewhere, KnownPaths
  <2>3. QED
    BY <1>1, <1>3, <2>2 DEF Settled, Exists
<1>5. CASE pos = 5
  <2>1. plan[pos].path = IndexFile /\ plan[pos].content = Index(<< >>)
    BY <1>1, <1>5 DEF InitPlan, Write
  <2>2. disk'[IndexFile] = Index(<< >>) /\ disk'[SerialFile] = disk[SerialFile]
    BY <1>f, <2>1, CommitEffect, PutFrame, PutElsewhere, KnownPaths, FixedPathsDiffer
  <2>3. disk[SerialFile] = Counter(2)
    BY <1>1, <1>5 DEF InitRun
  <2>4. disk'[SerialFile].value = 2 /\ disk'[IndexFile].entries = << >>
    BY <2>2, <2>3, ContentFields
  <2>5. QED
    BY <1>3, <2>4 DEF Settled, InFlight, Entries, Exists
<1>6. QED
  BY <1>4, <1>5

LEMMA SignKeepsSettled ==
    ASSUME TypeInv, SafeInv, Settled, CommitRename, SignRun, op = "sign"
    PROVE  Settled'
<1> DEFINE n == mem.serial
           s == mem.subject
<1>f. FilesOK
  BY DEF TypeInv, TypeOK
<1>1. /\ plan = SignPlan(n, s, mem.key, Entries)
      /\ Len(plan) = 3 /\ pos \in 1 .. 3 /\ Done = pos - 1
      /\ n \in Serials /\ s \in Subjects /\ n \in Nat
      /\ Exists(IndexFile) /\ Entries \in Seq(IndexEntry) /\ IndexEntries(disk) = Entries
      /\ pc = "commit" /\ Signing
  <2>1. n \in Serials /\ s \in Subjects /\ Exists(IndexFile)
    BY <1>f, LoadsExists DEF SignRun
  <2>2. n \in Nat
    BY <2>1, BoundsAssumption DEF Serials
  <2>3. QED
    BY <1>f, <2>1, <2>2, CommitEffect, IndexEntriesType DEF SignRun, SignPlan, Signing
<1>2. Len(Entries) \in Nat
  BY <1>1
<1>3. n = Len(Entries) + 2
  BY <1>1, <1>2, ContentFields DEF SignRun, Settled, InFlight
<1>4. CASE pos = 1
  <2>1. plan[pos] = Write(SerialFile, Counter(n + 1))
    BY <1>1, <1>4 DEF SignPlan
  <2>2. Put(SerialFile, Counter(n + 1))
    BY <2>1, CommitEffect DEF Write
  <2>3. disk'[SerialFile].value = n + 1 /\ disk'[IndexFile] = disk[IndexFile]
    BY <1>f, <2>2, PutFrame, PutElsewhere, KnownPaths, FixedPathsDiffer, ContentFields
  <2>4. \A m \in Serials : disk'[CertFile(m)] = disk[CertFile(m)]
    BY <1>f, <2>2, PutElsewhere, KnownPaths, CertFilesDiffer
  <2>5. Signing' /\ mem' = mem /\ pos' = 2
    BY <1>1, <1>4, CommitEffect DEF Signing
  <2>6. IndexEntries(disk') = IndexEntries(disk)
    BY <2>3 DEF IndexEntries
  <2>7. \A m \in Serials : Exists(CertFile(m)) => IsListed(m) \/ m = n
    BY DEF Settled
  <2>8. \A m \in Serials : disk'[CertFile(m)] # Absent => IsListed(m)' \/ m = n
    BY <2>4, <2>6, <2>7 DEF Exists, IsListed
  <2>9. InFlight' = 1 /\ Entries' = Entries
    BY <2>3, <2>5 DEF InFlight, Entries
  <2>10. QED
    BY <1>2, <1>3, <2>3, <2>5, <2>8, <2>9 DEF Settled, Exists
<1>5. CASE pos = 2
  <2>1. plan[pos] = Write(CertFile(n), Certificate(n, s, mem.key))
    BY <1>1, <1>5 DEF SignPlan
  <2>2. Put(CertFile(n), Certificate(n, s, mem.key))
    BY <2>1, CommitEffect DEF Write
  <2>3. disk'[SerialFile] = disk[SerialFile] /\ disk'[IndexFile] = disk[IndexFile]
    BY <1>f, <1>1, <2>2, PutElsewhere, KnownPaths, CertFilesDiffer
  <2>4. \A m \in Serials : m # n => disk'[CertFile(m)] = disk[CertFile(m)]
    BY <1>f, <1>1, <2>2, PutElsewhere, KnownPaths, CertFilesDiffer
  <2>5. Signing' /\ mem' = mem /\ pos' = 3
    BY <1>1, <1>5, CommitEffect DEF Signing
  <2>6. IndexEntries(disk') = IndexEntries(disk)
    BY <2>3 DEF IndexEntries
  <2>7. \A m \in Serials : disk'[CertFile(m)] # Absent => IsListed(m)' \/ m = n
    BY <2>4, <2>6 DEF Settled, Exists, IsListed
  <2>8. InFlight' = InFlight /\ Entries' = Entries
    BY <1>1, <1>5, <2>3, <2>5 DEF InFlight, Entries
  <2>9. QED
    BY <2>3, <2>5, <2>7, <2>8 DEF Settled, Exists
<1>6. CASE pos = 3
  <2>1. plan[pos] = Write(IndexFile, Index(Append(Entries, NewEntry(n, s))))
    BY <1>1, <1>6 DEF SignPlan
  <2>2. Put(IndexFile, Index(Append(Entries, NewEntry(n, s))))
    BY <2>1, CommitEffect DEF Write
  <2>3. /\ disk'[SerialFile] = disk[SerialFile]
        /\ disk'[IndexFile] = Index(Append(Entries, NewEntry(n, s)))
        /\ \A m \in Serials : disk'[CertFile(m)] = disk[CertFile(m)]
    BY <1>f, <2>2, PutFrame, PutElsewhere, KnownPaths, FixedPathsDiffer, CertFilesDiffer
  <2>4. Entries' = Append(Entries, NewEntry(n, s)) /\ IndexEntries(disk') = Entries'
    <3>1. IndexEntries(disk') = Append(Entries, NewEntry(n, s))
      BY <1>f, <2>2, IndexPutEntries
    <3>2. disk'[IndexFile].kind = "index"
      BY <2>3, ContentFields
    <3>3. IndexEntries(disk') = disk'[IndexFile].entries
      BY <3>2 DEF IndexEntries
    <3>4. Entries' = disk'[IndexFile].entries
      BY DEF Entries
    <3>5. QED
      BY <3>1, <3>3, <3>4
  <2>5. ~Signing'
    BY <1>1, <1>6, CommitEffect DEF Finish, Signing
  <2>6. NewEntry(n, s) \in IndexEntry /\ NewEntry(n, s).serial = n
    BY <1>1, NewEntryType DEF NewEntry
  <2>7. /\ Len(Entries') = Len(Entries) + 1
        /\ Entries'[Len(Entries) + 1] = NewEntry(n, s)
        /\ \A i \in DOMAIN Entries : i \in DOMAIN Entries' /\ Entries'[i] = Entries[i]
        /\ Len(Entries) + 1 \in DOMAIN Entries'
    BY <1>1, <2>4, <2>6
  <2>8. ASSUME NEW m \in Serials, disk'[CertFile(m)] # Absent
        PROVE  IsListed(m)'
    <3>1. CASE m = n
      BY <2>4, <2>6, <2>7, <3>1 DEF IsListed
    <3>2. CASE m # n
      <4>1. IsListed(m)
        BY <2>3, <2>8, <3>2 DEF Settled, Exists
      <4>2. PICK i \in DOMAIN Entries : Entries[i].serial = m
        BY <1>1, <4>1 DEF IsListed
      <4>3. QED
        BY <2>4, <2>7, <4>2 DEF IsListed
    <3>3. QED
      BY <3>1, <3>2
  <2>9. disk[SerialFile].value = n + 1
    BY <1>1, <1>6, ContentFields DEF SignRun
  <2>10. Len(Entries') + 2 + InFlight' = n + 1
    BY <1>2, <1>3, <2>5, <2>7 DEF InFlight
  <2>11. QED
    BY <2>3, <2>8, <2>9, <2>10 DEF Settled, Exists
<1>7. QED
  BY <1>1, <1>4, <1>5, <1>6

LEMMA NextKeepsSettled ==
    ASSUME TypeInv, SafeInv, Settled, [Next]_vars, OnlyWritesFail
    PROVE  Settled'
<1>f. FilesOK
  BY DEF TypeInv, TypeOK
<1>1. CASE ~CommitRename
  <2>1. disk' = disk
    BY <1>1, StepsBeforeCommit
  <2>2. /\ ~Signing \/ UNCHANGED <<op, pc, mem, pos>>
        /\ InFlight' = InFlight
    BY <1>1, StepsBeforeCommit DEF Signing, InFlight, vars
  <2>3. \A n \in Serials : IsListed(n)' <=> IsListed(n)
    BY <2>1 DEF IsListed
  <2>4. QED
    BY <2>1, <2>2, <2>3 DEF Settled, Exists, Entries, Signing
<1>2. CASE CommitRename
  <2>r. /\ \/ op = "init" /\ InitRun
           \/ op = "sign" /\ SignRun
           \/ op = "revoke" /\ RevokeRun
           \/ op = "crl" /\ CRLRun
        /\ op # "sign" => ~Signing /\ ~Signing'
    BY <1>2, CommitEffect DEF SafeInv, RunInv, Signing, Finish
  <2>1. CASE op = "init" /\ InitRun
    BY <1>2, <2>r, <2>1, InitKeepsSettled
  <2>2. CASE op = "sign" /\ SignRun
    BY <1>2, <2>2, SignKeepsSettled
  <2>3. CASE op = "revoke" /\ RevokeRun
    <3>1. PICK i \in DOMAIN Entries, r \in Reasons :
            plan = RevokePlan(Entries, i, r) /\ Loads(IndexFile, "index")
      BY <2>3 DEF RevokeRun
    <3>2. Entries \in Seq(IndexEntry) /\ IndexEntries(disk) = Entries /\ Exists(IndexFile)
      BY <1>f, <3>1, LoadsExists, IndexEntriesType
    <3> DEFINE new == [Entries EXCEPT ![i] = MarkRevoked(Entries[i], r)]
    <3>3. Put(IndexFile, Index(new))
      <4>1. pos = 1 /\ plan[1] = Write(IndexFile, Index(new))
        BY <1>2, <3>1, CommitEffect DEF RevokePlan
      <4>2. QED
        BY <1>2, <4>1, CommitEffect DEF Write
    <3>4. /\ Len(new) = Len(Entries) /\ DOMAIN new = DOMAIN Entries
          /\ \A j \in DOMAIN Entries : new[j].serial = Entries[j].serial
      BY <3>2, MarkRevokedType
    <3>5. IndexEntries(disk') = new
      BY <1>f, <3>3, IndexPutEntries
    <3>6. Entries' = new
      <4>1. disk'[IndexFile] = Index(new)
        BY <1>f, <3>3, PutFrame, KnownPaths
      <4>2. Entries' = disk'[IndexFile].entries
        BY DEF Entries
      <4>3. QED
        BY <4>1, <4>2, ContentFields
    <3>7. /\ disk'[SerialFile] = disk[SerialFile]
          /\ \A n \in Serials : disk'[CertFile(n)] = disk[CertFile(n)]
      BY <1>f, <3>3, PutElsewhere, KnownPaths, FixedPathsDiffer, CertFilesDiffer
    <3> HIDE DEF new
    <3>8. \A n \in Serials : IsListed(n)' <=> IsListed(n)
      BY <3>2, <3>4, <3>5 DEF IsListed
    <3>9. InFlight = 0 /\ InFlight' = 0
      BY <2>r, <2>3 DEF InFlight
    <3>10. disk'[SerialFile].value = Len(Entries') + 2 + InFlight'
      BY <3>2, <3>4, <3>6, <3>7, <3>9 DEF Settled
    <3>11. QED
      BY <2>r, <2>3, <3>7, <3>8, <3>10 DEF Settled, Exists
  <2>4. CASE op = "crl" /\ CRLRun
    <3>1. \E c : Put(plan[pos].path, c) /\ plan[pos].path \in {CaCrl, CrlNumberFile}
      <4>1. PICK m \in 1 .. MaxCRLNumber : plan = CRLPlan(m, mem.revoked, mem.key)
        BY <2>4 DEF CRLRun
      <4>2. QED
        BY <1>2, <4>1, CommitEffect DEF CRLPlan, Write
    <3>2. /\ plan[pos].path \in Paths
          /\ plan[pos].path \notin {SerialFile, IndexFile} \cup CertFiles
      BY <3>1, KnownPaths, FixedPathsDiffer, CertFilesDiffer
    <3>3. QED
      BY <1>f, <2>r, <2>4, <3>1, <3>2, SettledFrame
  <2>5. QED
    BY <2>r, <2>1, <2>2, <2>3, <2>4
<1>3. QED
  BY <1>1, <1>2

LEMMA SettledInvariance ==
    ASSUME OnlyWritesFail
    PROVE  Spec => []Settled
<1>1. Init => Settled
  BY KnownPaths DEF Init, NoFiles, Settled, Exists
<1>2. TypeInv /\ SafeInv /\ Settled /\ [Next]_vars => Settled'
  BY NextKeepsSettled
<1>3. QED
  BY <1>1, <1>2, SafeInvariance, PTL DEF Spec

(* Between commands every certificate in certs/ is indexed and N of them   *)
(* leave the counter at N + 2, whichever writes failed (SignCSR).          *)
THEOREM FilesAgree ==
    ASSUME OnlyWritesFail
    PROVE  Spec => []FilesMatchIndex
<1>1. TypeInv /\ Settled => FilesMatchIndex
  <2>1. SUFFICES ASSUME TypeInv, Settled, Idle PROVE FilesMatchIndex
    BY DEF FilesMatchIndex, CertificatesAreIndexed
  <2>2. ~Signing /\ InFlight = 0
    BY <2>1 DEF Idle, Signing, InFlight
  <2>3. Exists(IndexFile) => Entries \in Seq(IndexEntry)
    BY <2>1, IndexEntriesType DEF TypeInv, TypeOK
  <2>4. Exists(IndexFile) => disk[SerialFile].value = Len(Entries) + 2
    BY <2>1, <2>2, <2>3 DEF Settled
  <2>5. CertificatesAreIndexed
    BY <2>1, <2>2 DEF Settled, IsListed, CertificatesAreIndexed
  <2>6. QED
    BY <2>4, <2>5 DEF FilesMatchIndex
<1>2. QED
  BY <1>1, SettledInvariance, TypeInvariance, PTL

----------------------------------------------------------------------------
(* The published list is behind the counter of the lists, except while     *)
(* GenerateCRL has renamed the one and not the other.                      *)

BetweenCRLRenames == pc = "commit" /\ op = "crl" /\ pos = 2

ListIsBehind ==
    Exists(CaCrl) => disk[CaCrl].number < disk[CrlNumberFile].value \/ BetweenCRLRenames

(* The commands that do not touch the list or its counter.                 *)
LEMMA ListFrame ==
    ASSUME FilesOK, ListIsBehind, ~BetweenCRLRenames,
           NEW p \in Paths, NEW c, Put(p, c), p \notin {CaCrl, CrlNumberFile}
    PROVE  ListIsBehind' /\ disk'[CaCrl] = disk[CaCrl]
<1>1. disk'[CaCrl] = disk[CaCrl] /\ disk'[CrlNumberFile] = disk[CrlNumberFile]
  BY PutElsewhere, KnownPaths
<1>2. QED
  BY <1>1 DEF ListIsBehind, Exists

LEMMA RenameOfList ==
    ASSUME TypeInv, SafeInv, ListIsBehind, CommitRename
    PROVE  /\ ListIsBehind'
           /\ Exists(CaCrl) /\ disk'[CaCrl] # disk[CaCrl]
                => disk'[CaCrl].number > disk[CaCrl].number
<1>f. FilesOK
  BY DEF TypeInv, TypeOK
<1>n. Exists(CaCrl) => disk[CaCrl].number \in Nat
  BY <1>f, ExistsLoads DEF CrlFiles
<1>r. \/ op = "init" /\ InitRun
      \/ op = "sign" /\ SignRun
      \/ op = "revoke" /\ RevokeRun
      \/ op = "crl" /\ CRLRun
  BY CommitEffect DEF SafeInv, RunInv
<1>1. CASE op = "init" /\ InitRun
  <2>1. ~Exists(CaCrl)
    BY <1>1 DEF InitRun, SafeInv, DiskInv, InCommitOrder
  <2>2. plan[pos].path \in {CaKey, CaCrt, SerialFile, CrlNumberFile, IndexFile}
    BY <1>1, CommitEffect DEF InitRun, InitPlan, Write
  <2>3. plan[pos].path # CaCrl
    BY <2>2, FixedPathsDiffer
  <2>4. disk'[CaCrl] = disk[CaCrl]
    BY <1>f, <2>3, CommitEffect, PutElsewhere, KnownPaths
  <2>5. QED
    BY <2>1, <2>4 DEF ListIsBehind, Exists
<1>2. CASE op = "sign" /\ SignRun
  <2>1. mem.serial \in Serials
    BY <1>2 DEF SignRun
  <2>2. plan[pos].path \in {SerialFile, CertFile(mem.serial), IndexFile}
    BY <1>2, CommitEffect DEF SignRun, SignPlan, Write
  <2>3. plan[pos].path \notin {CaCrl, CrlNumberFile}
    BY <2>1, <2>2, KnownPaths, FixedPathsDiffer, CertFilesDiffer
  <2>4. QED
    BY <1>f, <1>2, <2>3, CommitEffect, ListFrame DEF BetweenCRLRenames
<1>3. CASE op = "revoke" /\ RevokeRun
  <2>1. plan[pos].path = IndexFile
    BY <1>3, CommitEffect DEF RevokeRun, RevokePlan, Write
  <2>2. plan[pos].path \notin {CaCrl, CrlNumberFile}
    BY <2>1, FixedPathsDiffer
  <2>3. QED
    BY <1>f, <1>3, <2>2, CommitEffect, ListFrame DEF BetweenCRLRenames
<1>4. CASE op = "crl" /\ CRLRun
  <2>1. PICK m \in 1 .. MaxCRLNumber :
          disk[CrlNumberFile] = Counter(m) /\ plan = CRLPlan(m, mem.revoked, mem.key)
    BY <1>4 DEF CRLRun
  <2>2. Len(plan) = 2 /\ pos \in 1 .. 2
    BY <2>1, CommitEffect DEF CRLPlan
  <2>3. CASE pos = 1
    <3>1. plan[pos] = Write(CaCrl, Crl(m, mem.revoked, mem.key))
      BY <2>1, <2>3 DEF CRLPlan
    <3>2. Put(CaCrl, Crl(m, mem.revoked, mem.key))
      BY <3>1, CommitEffect DEF Write
    <3>3. disk'[CaCrl].number = m
      BY <1>f, <3>2, PutFrame, KnownPaths, ContentFields
    <3>4. BetweenCRLRenames'
      BY <1>4, <2>2, <2>3, CommitEffect DEF BetweenCRLRenames
    <3>5. Exists(CaCrl) => disk[CaCrl].number < m
      BY <2>1, <2>3, ContentFields DEF ListIsBehind, BetweenCRLRenames
    <3>6. QED
      BY <1>n, <3>3, <3>4, <3>5 DEF ListIsBehind
  <2>4. CASE pos = 2
    <3>1. plan[pos] = Write(CrlNumberFile, Counter(m + 1))
      BY <2>1, <2>4 DEF CRLPlan
    <3>2. Put(CrlNumberFile, Counter(m + 1))
      BY <3>1, CommitEffect DEF Write
    <3>3. disk'[CrlNumberFile].value = m + 1 /\ disk'[CaCrl] = disk[CaCrl]
      BY <1>f, <3>2, PutFrame, PutElsewhere, KnownPaths, FixedPathsDiffer, ContentFields
    <3>4. Exists(CaCrl) => disk[CaCrl].number <= m
      BY <2>1, ContentFields DEF SafeInv, DiskInv, CRLMatchesIndex
    <3>5. QED
      BY <1>n, <3>3, <3>4 DEF ListIsBehind, Exists
  <2>5. QED
    BY <2>2, <2>3, <2>4
<1>5. QED
  BY <1>r, <1>1, <1>2, <1>3, <1>4

LEMMA ListIsBehindInvariance ==
    ASSUME OnlyWritesFail
    PROVE  Spec => []ListIsBehind
<1>1. Init => ListIsBehind
  BY KnownPaths DEF Init, NoFiles, ListIsBehind, Exists
<1>2. TypeInv /\ SafeInv /\ ListIsBehind /\ [Next]_vars => ListIsBehind'
  <2>1. SUFFICES ASSUME TypeInv, SafeInv, ListIsBehind, [Next]_vars, ~CommitRename
                 PROVE  ListIsBehind'
    BY RenameOfList
  <2>2. disk' = disk /\ (BetweenCRLRenames => BetweenCRLRenames')
    BY <2>1, StepsBeforeCommit DEF BetweenCRLRenames, vars
  <2>3. QED
    BY <2>1, <2>2 DEF ListIsBehind, Exists
<1>3. QED
  BY <1>1, <1>2, SafeInvariance, PTL DEF Spec

(* A list that replaces another one has a greater number (GenerateCRL).    *)
THEOREM ListNumbersIncrease ==
    ASSUME OnlyWritesFail
    PROVE  Spec => CRLNumberIncreases
<1>1. /\ TypeInv /\ SafeInv /\ ListIsBehind /\ [Next]_vars
      => [Exists(CaCrl) /\ disk'[CaCrl] # disk[CaCrl]
            => disk'[CaCrl].number > disk[CaCrl].number]_vars
  BY RenameOfList, OnlyRenamesChangeTheDisk
<1>2. QED
  BY <1>1, SafeInvariance, ListIsBehindInvariance, PTL DEF Spec, CRLNumberIncreases

----------------------------------------------------------------------------
(* What a rename that fails or a crash takes away (StoreRenameFails,       *)
(* StoreHalfInit): the two promises below hold of writes alone.            *)

(* A command that fails leaves the state it found (ADR-006).               *)
THEOREM FailuresChangeNothing ==
    ASSUME OnlyWritesFail
    PROVE  Spec => FailureChangesNothing
<1>1. /\ TypeInv /\ TypeInv' /\ SafeInv /\ FromBefore /\ [Next]_vars
      => [pc # "idle" /\ pc' = "idle" /\ outcome' = "error" => disk' = before]_vars
  <2>1. SUFFICES ASSUME TypeInv, TypeInv', SafeInv, FromBefore, [Next]_vars,
                        pc # "idle", pc' = "idle", outcome' = "error"
                 PROVE  disk' = before
    OBVIOUS
  <2>2. ~CommitRename
    BY <2>1, LastRename
  <2>3. ~UNCHANGED vars
    BY <2>1 DEF vars
  <2>4. disk' = disk /\ pc # "commit"
    BY <2>1, <2>2, <2>3, StepsBeforeCommit
  <2>5. QED
    BY <2>1, <2>4 DEF FromBefore
<1>2. QED
  BY <1>1, SafeInvariance, FromBeforeInvariance, PTL DEF Spec, FailureChangesNothing

(* A directory with a key has all of `ca init` unless it is being made.    *)
CreatedAtOnce == Exists(CaKey) => Exists(IndexFile) \/ (pc = "commit" /\ op = "init")

LEMMA RenameKeepsCreatedAtOnce ==
    ASSUME TypeInv, SafeInv, CreatedAtOnce, CommitRename
    PROVE  CreatedAtOnce'
<1>f. FilesOK
  BY DEF TypeInv, TypeOK
<1>1. ASSUME Exists(IndexFile)
      PROVE  CreatedAtOnce'
  <2>1. disk'[IndexFile] # Absent
    <3>1. CASE plan[pos].path = IndexFile
      <4>1. Fits(plan[pos].path, plan[pos].content)
        BY CommitEffect DEF TypeInv, PlanOK, WellFormed
      <4>2. QED
        BY <1>f, <3>1, <4>1, CommitEffect, PutFrame, KnownPaths, FitsKind
    <3>2. CASE plan[pos].path # IndexFile
      BY <1>1, <1>f, <3>2, CommitEffect, PutElsewhere, KnownPaths DEF Exists
    <3>3. QED
      BY <3>1, <3>2
  <2>2. QED
    BY <2>1 DEF CreatedAtOnce, Exists
<1>2. ASSUME ~Exists(IndexFile)
      PROVE  CreatedAtOnce'
  <2>1. op = "init" /\ InitRun
    BY <1>2, <1>f, CommitEffect, LoadsExists DEF SafeInv, RunInv, SignRun, RevokeRun, CRLRun
  <2>2. Len(plan) = 5 /\ plan[5] = Write(IndexFile, Index(<< >>))
    BY <2>1 DEF InitRun, InitPlan
  <2>3. CASE pos < Len(plan)
    BY <2>1, <2>3, CommitEffect DEF CreatedAtOnce
  <2>4. CASE pos = Len(plan)
    <3>1. Put(IndexFile, Index(<< >>))
      BY <2>2, <2>4, CommitEffect DEF Write
    <3>2. disk'[IndexFile] # Absent
      BY <1>f, <3>1, PutFrame, KnownPaths, ContentFields
    <3>3. QED
      BY <3>2 DEF CreatedAtOnce, Exists
  <2>5. QED
    BY <2>3, <2>4, CommitEffect
<1>3. QED
  BY <1>1, <1>2

(* Between commands the directory is complete or uninitialized (ADR-006).  *)
THEOREM DirectoryIsComplete ==
    ASSUME OnlyWritesFail
    PROVE  Spec => []InitializedIsComplete
<1>1. Init => CreatedAtOnce
  BY KnownPaths DEF Init, NoFiles, CreatedAtOnce, Exists
<1>2. TypeInv /\ SafeInv /\ CreatedAtOnce /\ [Next]_vars => CreatedAtOnce'
  <2>1. SUFFICES ASSUME TypeInv, SafeInv, CreatedAtOnce, [Next]_vars, ~CommitRename
                 PROVE  CreatedAtOnce'
    BY RenameKeepsCreatedAtOnce
  <2>2. disk' = disk /\ (pc = "commit" => pc' = "commit" /\ op' = op)
    BY <2>1, StepsBeforeCommit DEF vars
  <2>3. QED
    BY <2>1, <2>2 DEF CreatedAtOnce, Exists
<1>3. SafeInv /\ CreatedAtOnce => InitializedIsComplete
  BY DEF SafeInv, DiskInv, InCommitOrder, CreatedAtOnce, InitializedIsComplete, Idle,
         IsInitialized
<1>4. QED
  BY <1>1, <1>2, <1>3, SafeInvariance, PTL DEF Spec

=============================================================================
