--------------------------- MODULE CAStoreProofs ---------------------------
(***************************************************************************)
(* Type correctness of CAStore (what may be under a path and what a        *)
(* command may hold) and its safety invariants, for all keys, subjects,    *)
(* reasons, bounds and faults.                                             *)
(***************************************************************************)
EXTENDS CAStore, TLAPS

----------------------------------------------------------------------------
(* Paths and formats *)

LEMMA FixedPathsDiffer ==
    /\ CaKey \notin {CaCrt, SerialFile, CrlNumberFile, IndexFile, CaCrl}
    /\ CaCrt \notin {SerialFile, CrlNumberFile, IndexFile, CaCrl}
    /\ SerialFile \notin {CrlNumberFile, IndexFile, CaCrl}
    /\ CrlNumberFile \notin {IndexFile, CaCrl}
    /\ IndexFile # CaCrl
BY DEF CaKey, CaCrt, SerialFile, CrlNumberFile, IndexFile, CaCrl

LEMMA CertFilesDiffer ==
    /\ {CaKey, CaCrt, SerialFile, CrlNumberFile, IndexFile, CaCrl} \cap CertFiles = {}
    /\ \A m, n : CertFile(m) = CertFile(n) => m = n
BY DEF CertFile, CertFiles, CaKey, CaCrt, SerialFile, CrlNumberFile, IndexFile, CaCrl

LEMMA FitsPath ==
    ASSUME NEW c
    PROVE  /\ Fits(CaKey, c) <=> c \in KeyFiles
           /\ Fits(CaCrt, c) <=> c \in RootFiles
           /\ Fits(SerialFile, c) <=> c \in SerialFiles
           /\ Fits(CrlNumberFile, c) <=> c \in CrlNumberFiles
           /\ Fits(IndexFile, c) <=> c \in IndexFiles
           /\ Fits(CaCrl, c) <=> c \in CrlFiles
           /\ \A n \in Serials : Fits(CertFile(n), c) <=> c \in CertificateFiles(n)
<1>1. \A n \in Serials :
        CertFile(n) \notin {CaKey, CaCrt, SerialFile, CrlNumberFile, IndexFile, CaCrl}
  BY CertFilesDiffer DEF CertFiles
<1>2. \A m, n \in Serials : CertFile(m) = CertFile(n) => m = n
  BY CertFilesDiffer
<1>3. QED
  BY <1>1, <1>2, FixedPathsDiffer DEF Fits

LEMMA FitsKind ==
    ASSUME NEW p, NEW c, Fits(p, c)
    PROVE  /\ c \notin {Absent, Torn}
           /\ p \in Paths
BY DEF Fits, Paths, CertFiles, Absent, Torn, KeyFiles, RootFiles, SerialFiles, CrlNumberFiles,
       IndexFiles, CrlFiles, CertificateFiles, PrivateKey, Certificate, Counter

----------------------------------------------------------------------------
(* Plans *)

(* A plan has at least one write, every write fits its path, and no path   *)
(* is written twice.                                                       *)
WellFormed(ws) ==
    /\ Len(ws) \in 1 .. 5
    /\ \A i \in 1 .. Len(ws) : Fits(ws[i].path, ws[i].content)
    /\ \A i, j \in 1 .. Len(ws) : ws[i].path = ws[j].path => i = j

LEMMA InitPlanWellFormed ==
    ASSUME NEW k \in Keys
    PROVE  WellFormed(InitPlan(k))
<1>1. Fits(CaKey, PrivateKey(k))
  BY FitsPath DEF KeyFiles
<1>2. Fits(CaCrt, Certificate(1, RootSubject, k))
  BY FitsPath DEF RootFiles
<1>3. Fits(SerialFile, Counter(2))
  BY FitsPath, BoundsAssumption DEF SerialFiles
<1>4. Fits(CrlNumberFile, Counter(1))
  BY FitsPath, BoundsAssumption DEF CrlNumberFiles
<1>5. Fits(IndexFile, Index(<< >>))
  <2>1. << >> \in Seq(IndexEntry)
    OBVIOUS
  <2>2. Index(<< >>) \in IndexFiles
    BY <2>1 DEF IndexFiles, Index
  <2>3. QED
    BY <2>2, FitsPath
<1>6. QED
  BY <1>1, <1>2, <1>3, <1>4, <1>5, FixedPathsDiffer DEF WellFormed, InitPlan, Write

LEMMA NewEntryType ==
    ASSUME NEW n \in Serials, NEW s \in Subjects
    PROVE  NewEntry(n, s) \in IndexEntry
BY DEF NewEntry, IndexEntry

LEMMA SignPlanWellFormed ==
    ASSUME NEW n \in Serials, NEW s \in Subjects, NEW k \in Keys, NEW es \in Seq(IndexEntry)
    PROVE  WellFormed(SignPlan(n, s, k, es))
<1>1. Fits(SerialFile, Counter(n + 1))
  <2>1. n + 1 \in 2 .. MaxSerial + 1
    BY BoundsAssumption DEF Serials
  <2>2. QED
    BY <2>1, FitsPath DEF SerialFiles
<1>2. Fits(CertFile(n), Certificate(n, s, k))
  BY FitsPath DEF CertificateFiles, Certificate
<1>3. Fits(IndexFile, Index(Append(es, NewEntry(n, s))))
  BY FitsPath, NewEntryType DEF IndexFiles, Index
<1>4. CertFile(n) \notin {SerialFile, IndexFile}
  BY CertFilesDiffer DEF CertFiles
<1>5. QED
  BY <1>1, <1>2, <1>3, <1>4, FixedPathsDiffer DEF WellFormed, SignPlan, Write

LEMMA MarkRevokedType ==
    ASSUME NEW e \in IndexEntry, NEW r \in Reasons
    PROVE  /\ MarkRevoked(e, r) \in IndexEntry
           /\ MarkRevoked(e, r).serial = e.serial
           /\ MarkRevoked(e, r).subject = e.subject
           /\ MarkRevoked(e, r).status = "revoked"
           /\ MarkRevoked(e, r).reason = r
BY DEF MarkRevoked, IndexEntry

LEMMA RevokePlanWellFormed ==
    ASSUME NEW es \in Seq(IndexEntry), NEW i \in DOMAIN es, NEW r \in Reasons
    PROVE  WellFormed(RevokePlan(es, i, r))
<1>1. MarkRevoked(es[i], r) \in IndexEntry
  BY MarkRevokedType
<1>2. [es EXCEPT ![i] = MarkRevoked(es[i], r)] \in Seq(IndexEntry)
  BY <1>1
<1>3. Fits(IndexFile, Index([es EXCEPT ![i] = MarkRevoked(es[i], r)]))
  BY <1>2, FitsPath DEF IndexFiles, Index
<1>4. QED
  BY <1>3 DEF WellFormed, RevokePlan, Write

LEMMA CRLPlanWellFormed ==
    ASSUME NEW m \in 1 .. MaxCRLNumber, NEW R \in SUBSET CrlEntry, NEW k \in Keys
    PROVE  WellFormed(CRLPlan(m, R, k))
<1>1. Fits(CaCrl, Crl(m, R, k))
  BY FitsPath DEF CrlFiles, Crl
<1>2. Fits(CrlNumberFile, Counter(m + 1))
  <2>1. m + 1 \in 1 .. MaxCRLNumber + 1
    BY BoundsAssumption
  <2>2. QED
    BY <2>1, FitsPath DEF CrlNumberFiles
<1>3. QED
  BY <1>1, <1>2, FixedPathsDiffer DEF WellFormed, CRLPlan, Write

LEMMA RevokedEntriesType ==
    ASSUME NEW es \in Seq(IndexEntry)
    PROVE  RevokedEntries(es) \in SUBSET CrlEntry
<1>1. ASSUME NEW i \in DOMAIN es
      PROVE  [serial |-> es[i].serial, code |-> ReasonCode(es[i].reason)] \in CrlEntry
  <2>1. es[i].serial \in Serials
    <3>1. es[i] \in IndexEntry
      OBVIOUS
    <3>2. QED
      BY <3>1 DEF IndexEntry
  <2>2. \A r : ReasonCode(r) \in {ReasonCodes[q] : q \in DOMAIN ReasonCodes}
    BY DEF ReasonCode, ReasonCodes
  <2>3. QED
    BY <2>1, <2>2 DEF CrlEntry
<1>2. QED
  BY <1>1 DEF RevokedEntries

----------------------------------------------------------------------------
(* Type correctness.  TypeOK is not inductive: a rename puts in place what *)
(* is in the .tmp file, so the invariant has to say that what a command    *)
(* has staged is there until it is renamed, and what a command holds in    *)
(* memory between two of its steps.                                        *)

MemOK ==
    /\ pc = "mkdir" => mem \in [key : Keys]
    /\ pc = "loadIndex" => mem \in [key : Keys, serial : Serials, subject : Subjects]
    /\ pc = "loadCounter" =>
        /\ mem \in [key : Keys, revoked : SUBSET CrlEntry]
        /\ Loads(CrlNumberFile, "counter") => disk[CrlNumberFile].value <= MaxCRLNumber

PlanOK == pc \in {"stage", "commit"} => WellFormed(plan) /\ pos \in 1 .. Len(plan)

StagedOK ==
    /\ pc = "stage" => \A i \in 1 .. pos - 1 : tmp[plan[i].path] = plan[i].content
    /\ pc = "commit" => \A i \in pos .. Len(plan) : tmp[plan[i].path] = plan[i].content

TypeInv == TypeOK /\ MemOK /\ PlanOK /\ StagedOK

(* What a load that succeeds returns. *)
LEMMA LoadedTypes ==
    ASSUME FilesOK
    PROVE  /\ Loads(CaKey, "key") => disk[CaKey].key \in Keys
           /\ Loads(SerialFile, "counter") => disk[SerialFile].value \in 2 .. MaxSerial + 1
           /\ Loads(CrlNumberFile, "counter") =>
                disk[CrlNumberFile].value \in 1 .. MaxCRLNumber + 1
           /\ Loads(IndexFile, "index") => Entries \in Seq(IndexEntry)
<1>1. {CaKey, SerialFile, CrlNumberFile, IndexFile} \subseteq Paths
  BY DEF Paths
<1>2. Loads(CaKey, "key") => disk[CaKey].key \in Keys
  BY <1>1, FitsPath DEF FilesOK, Loads, Absent, KeyFiles, PrivateKey
<1>3. Loads(SerialFile, "counter") => disk[SerialFile].value \in 2 .. MaxSerial + 1
  BY <1>1, FitsPath DEF FilesOK, Loads, Absent, SerialFiles, Counter
<1>4. Loads(CrlNumberFile, "counter") => disk[CrlNumberFile].value \in 1 .. MaxCRLNumber + 1
  BY <1>1, FitsPath DEF FilesOK, Loads, Absent, CrlNumberFiles, Counter
<1>5. Loads(IndexFile, "index") => Entries \in Seq(IndexEntry)
  BY <1>1, FitsPath DEF FilesOK, Loads, Absent, IndexFiles, Entries
<1>6. QED
  BY <1>2, <1>3, <1>4, <1>5

(* A command that ends keeps the invariant if the files keep theirs.       *)
LEMMA FinishKeepsTypeInv ==
    ASSUME NEW r \in {"ok", "error", "crash"}, Finish(r), FilesOK'
    PROVE  TypeInv'
BY DEF TypeInv, TypeOK, MemOK, PlanOK, StagedOK, Finish

(* A command that has prepared its writes has staged none of them.         *)
LEMMA PrepareKeepsTypeInv ==
    ASSUME TypeInv, NEW ws, WellFormed(ws), Prepare(ws), certsDir' \in BOOLEAN
    PROVE  TypeInv'
<1>1. FilesOK'
  BY DEF TypeInv, TypeOK, FilesOK, Prepare
<1>2. TypeOK'
  BY <1>1 DEF TypeInv, TypeOK, Prepare, WellFormed
<1>3. MemOK' /\ StagedOK'
  BY DEF MemOK, StagedOK, Prepare
<1>4. PlanOK'
  BY DEF PlanOK, Prepare, WellFormed
<1>5. QED
  BY <1>2, <1>3, <1>4 DEF TypeInv

LEMMA CleanUpKeepsTypes ==
    ASSUME FilesOK, UNCHANGED <<disk, certsDir>>, NEW files, CleanUp(files),
           \A p \in Paths : Fits(p, files[p]) \/ files[p] \in {Absent, Torn}
    PROVE  FilesOK'
BY DEF FilesOK, CleanUp

LEMMA TypeInvInit == Init => TypeInv
<1> SUFFICES ASSUME Init PROVE TypeInv
  OBVIOUS
<1>1. FilesOK
  BY DEF Init, NoFiles, FilesOK
<1>2. TypeOK
  BY <1>1 DEF Init, TypeOK
<1>3. MemOK /\ PlanOK /\ StagedOK
  BY DEF Init, MemOK, PlanOK, StagedOK
<1>4. QED
  BY <1>2, <1>3 DEF TypeInv

LEMMA OperatorKeepsTypeInv ==
    ASSUME TypeInv, Operator
    PROVE  TypeInv'
<1> USE DEF TypeInv
<1>1. ASSUME NEW k \in Keys, BeginInit(k) PROVE TypeInv'
  BY <1>1 DEF BeginInit, Begin, data, Idle, TypeOK, FilesOK, MemOK, PlanOK, StagedOK
<1>2. ASSUME Reject PROVE TypeInv'
  BY <1>2 DEF Reject, data, process, Loads, TypeOK, FilesOK, MemOK, PlanOK, StagedOK
<1>3. ASSUME NEW csr \in CSR, BeginSign(csr) PROVE TypeInv'
  <2>1. mem' \in [key : Keys, serial : Serials, subject : Subjects]
    <3>1. disk[CaKey].key \in Keys /\ disk[SerialFile].value \in 2 .. MaxSerial + 1
      BY <1>3, LoadedTypes DEF BeginSign, SignInputsLoad, TypeOK
    <3>2. disk[SerialFile].value \in Serials
      BY <1>3, <3>1, BoundsAssumption DEF BeginSign, Serials
    <3>3. QED
      BY <1>3, <3>1, <3>2 DEF BeginSign, Begin, CSR
  <2>2. QED
    BY <1>3, <2>1 DEF BeginSign, Begin, data, Idle, TypeOK, FilesOK, MemOK, PlanOK, StagedOK
<1>4. ASSUME NEW n \in 1 .. MaxSerial, NEW r \in Reasons, BeginRevoke(n, r) PROVE TypeInv'
  <2>1. Entries \in Seq(IndexEntry)
    BY <1>4, LoadedTypes DEF BeginRevoke, TypeOK
  <2>2. PICK i \in DOMAIN Entries : plan' = RevokePlan(Entries, i, r)
    BY <1>4 DEF BeginRevoke
  <2>3. WellFormed(plan')
    BY <2>1, <2>2, RevokePlanWellFormed
  <2>4. FilesOK'
    BY <1>4 DEF BeginRevoke, data, TypeOK, FilesOK
  <2>5. op' = "revoke" /\ pc' = "stage" /\ pos' = 1 /\ outcome' = outcome
    BY <1>4 DEF BeginRevoke
  <2>6. TypeOK'
    BY <2>3, <2>4, <2>5 DEF TypeOK, WellFormed
  <2>7. MemOK' /\ StagedOK'
    <3>1. MemOK'
      BY <2>5 DEF MemOK
    <3>2. StagedOK'
      BY <2>5 DEF StagedOK
    <3>3. QED
      BY <3>1, <3>2
  <2>8. PlanOK'
    <3>1. WellFormed(plan)'
      BY <2>3 DEF WellFormed
    <3>2. (pos \in 1 .. Len(plan))'
      BY <2>3, <2>5 DEF WellFormed
    <3>3. QED
      BY <3>1, <3>2 DEF PlanOK
  <2>9. QED
    BY <2>6, <2>7, <2>8
<1>5. ASSUME BeginCRL PROVE TypeInv'
  <2>1. mem' \in [key : Keys, revoked : SUBSET CrlEntry]
    BY <1>5, LoadedTypes, RevokedEntriesType DEF BeginCRL, CRLInputsLoad, Begin, TypeOK
  <2>2. MemOK'
    BY <1>5, <2>1 DEF BeginCRL, Begin, data, Loads, MemOK
  <2>3. QED
    BY <1>5, <2>2 DEF BeginCRL, Begin, data, Idle, TypeOK, FilesOK, PlanOK, StagedOK
<1>6. QED
  BY <1>1, <1>2, <1>3, <1>4, <1>5
  DEF Operator, RejectInit, RejectSign, RejectRevoke, RejectCRL

LEMMA ProgressKeepsTypeInv ==
    ASSUME TypeInv, Progress
    PROVE  TypeInv'
<1> USE DEF TypeInv
<1>1. CASE MakeDataDir
  <2>1. WellFormed(InitPlan(mem.key))
    BY <1>1, InitPlanWellFormed DEF MakeDataDir, MemOK
  <2>2. QED
    BY <1>1, <2>1, PrepareKeepsTypeInv DEF MakeDataDir
<1>2. CASE MakeDataDirFails \/ SignLoadIndexFails
  <2>1. FilesOK' /\ Finish("error")
    BY <1>2 DEF MakeDataDirFails, SignLoadIndexFails, data, TypeOK, FilesOK
  <2>2. QED
    BY <2>1, FinishKeepsTypeInv
<1>3. CASE SignLoadIndex
  <2>1. Entries \in Seq(IndexEntry)
    BY <1>3, LoadedTypes DEF SignLoadIndex, TypeOK
  <2>2. WellFormed(SignPlan(mem.serial, mem.subject, mem.key, Entries))
    BY <1>3, <2>1, SignPlanWellFormed DEF SignLoadIndex, MemOK
  <2>3. certsDir' \in BOOLEAN
    BY <1>3 DEF SignLoadIndex, TypeOK, FilesOK
  <2>4. QED
    BY <1>3, <2>2, <2>3, PrepareKeepsTypeInv DEF SignLoadIndex
<1>4. CASE CRLLoadCounter
  <2>1. CASE pc' = "stage"
    <3>f. /\ pc = "loadCounter" /\ Loads(CrlNumberFile, "counter")
          /\ Prepare(CRLPlan(disk[CrlNumberFile].value, mem.revoked, mem.key))
          /\ certsDir' = certsDir
      BY <1>4, <2>1 DEF CRLLoadCounter, Finish
    <3>1. disk[CrlNumberFile].value \in 1 .. MaxCRLNumber
      BY <3>f, LoadedTypes, BoundsAssumption DEF TypeOK, MemOK
    <3>2. WellFormed(CRLPlan(disk[CrlNumberFile].value, mem.revoked, mem.key))
      BY <3>f, <3>1, CRLPlanWellFormed DEF MemOK
    <3>3. certsDir' \in BOOLEAN
      BY <3>f DEF TypeOK, FilesOK
    <3>4. QED
      BY <3>f, <3>2, <3>3, PrepareKeepsTypeInv
  <2>2. CASE pc' # "stage"
    <3>1. FilesOK' /\ Finish("error")
      BY <1>4, <2>2 DEF CRLLoadCounter, Prepare, data, TypeOK, FilesOK
    <3>2. QED
      BY <3>1, FinishKeepsTypeInv
  <2>3. QED
    BY <2>1, <2>2
<1>5. CASE StageWrite
  <2>1. /\ pc = "stage" /\ pos \in 1 .. Len(plan) /\ WellFormed(plan)
        /\ Fits(plan[pos].path, plan[pos].content) /\ plan[pos].path \in Paths
        /\ plan' = plan
        /\ tmp' = [tmp EXCEPT ![plan[pos].path] = plan[pos].content]
    BY <1>5, FitsKind DEF StageWrite, Current, PlanOK, WellFormed
  <2>2. FilesOK'
    BY <1>5, <2>1 DEF StageWrite, TypeOK, FilesOK
  <2>3. \A i \in 1 .. pos : tmp'[plan[i].path] = plan[i].content
    <3>1. TAKE i \in 1 .. pos
    <3>2. i \in 1 .. Len(plan) /\ plan[i].path \in Paths
      BY <2>1, FitsKind DEF WellFormed
    <3>3. CASE i = pos
      BY <2>1, <3>3 DEF TypeOK, FilesOK
    <3>4. CASE i # pos
      <4>1. plan[i].path # plan[pos].path
        BY <2>1, <3>2, <3>4 DEF WellFormed
      <4>2. i \in 1 .. pos - 1
        BY <2>1, <3>2, <3>4
      <4>3. QED
        BY <2>1, <3>2, <4>1, <4>2 DEF StagedOK, TypeOK, FilesOK
    <3>5. QED
      BY <3>3, <3>4
  <2>4. TypeOK' /\ MemOK' /\ PlanOK'
    <3>1. Len(plan) \in 1 .. 5
      BY <2>1 DEF WellFormed
    <3>2. pos' \in 1 .. Len(plan) /\ pc' \in {"stage", "commit"}
      BY <1>5, <2>1, <3>1 DEF StageWrite
    <3>3. QED
      BY <1>5, <2>1, <2>2, <3>1, <3>2 DEF StageWrite, TypeOK, MemOK, PlanOK
  <2>5. StagedOK'
    BY <1>5, <2>1, <2>3 DEF StageWrite, StagedOK, WellFormed
  <2>6. QED
    BY <2>4, <2>5
<1>6. CASE StageWriteFails
  <2>1. PICK files \in AfterPartialWrite : CleanUp(files)
    BY <1>6 DEF StageWriteFails
  <2>2. \A p \in Paths : Fits(p, files[p]) \/ files[p] \in {Absent, Torn}
    BY <2>1 DEF AfterPartialWrite, TypeOK, FilesOK
  <2>3. FilesOK'
    BY <1>6, <2>1, <2>2, CleanUpKeepsTypes DEF StageWriteFails, TypeOK
  <2>4. QED
    BY <1>6, <2>3, FinishKeepsTypeInv DEF StageWriteFails
<1>7. CASE CommitRename
  <2>1. /\ pc = "commit" /\ pos \in 1 .. Len(plan) /\ WellFormed(plan)
        /\ plan[pos].path \in Paths
        /\ tmp[plan[pos].path] = plan[pos].content
        /\ Fits(plan[pos].path, plan[pos].content)
    BY <1>7, FitsKind DEF CommitRename, PlanOK, StagedOK, WellFormed
  <2>2. /\ disk' = [disk EXCEPT ![plan[pos].path] = plan[pos].content]
        /\ tmp' = [tmp EXCEPT ![plan[pos].path] = Absent]
    BY <1>7, <2>1 DEF CommitRename, Current
  <2>3. FilesOK'
    BY <1>7, <2>1, <2>2 DEF CommitRename, TypeOK, FilesOK
  <2>4. CASE pos < Len(plan)
    <3>1. /\ pos' = pos + 1 /\ pos' \in 1 .. Len(plan) /\ Len(plan) \in 1 .. 5
          /\ plan' = plan /\ pc' = pc /\ mem' = mem /\ op' = op /\ outcome' = outcome
      BY <1>7, <2>1, <2>4 DEF CommitRename, WellFormed
    <3>2. TypeOK' /\ MemOK' /\ PlanOK'
      BY <2>1, <2>3, <3>1 DEF TypeOK, MemOK, PlanOK
    <3>3. ASSUME NEW i \in pos + 1 .. Len(plan)
          PROVE  tmp'[plan[i].path] = plan[i].content
      <4>1. i \in 1 .. Len(plan) /\ i \in pos .. Len(plan) /\ i # pos
        BY <2>1
      <4>2. plan[i].path # plan[pos].path /\ plan[i].path \in Paths
        BY <2>1, <4>1, FitsKind DEF WellFormed
      <4>3. QED
        BY <2>1, <2>2, <4>1, <4>2 DEF StagedOK, TypeOK, FilesOK
    <3>4. StagedOK'
      BY <2>1, <3>1, <3>3 DEF StagedOK
    <3>5. QED
      BY <3>2, <3>4
  <2>5. CASE ~(pos < Len(plan))
    BY <1>7, <2>3, <2>5, FinishKeepsTypeInv DEF CommitRename
  <2>6. QED
    BY <2>4, <2>5
<1>8. CASE CommitRenameFails
  <2>1. FilesOK'
    BY <1>8, CleanUpKeepsTypes DEF CommitRenameFails, TypeOK, FilesOK
  <2>2. QED
    BY <1>8, <2>1, FinishKeepsTypeInv DEF CommitRenameFails
<1>9. QED
  BY <1>1, <1>2, <1>3, <1>4, <1>5, <1>6, <1>7, <1>8 DEF Progress

LEMMA CrashKeepsTypeInv ==
    ASSUME TypeInv, Crash
    PROVE  TypeInv'
<1>1. \A p \in Paths : Fits(p, tmp'[p]) \/ tmp'[p] \in {Absent, Torn}
  BY DEF Crash, AfterPartialWrite, TypeInv, TypeOK, FilesOK
<1>2. tmp' = [p \in Paths |-> tmp'[p]]
  BY DEF Crash, AfterPartialWrite, TypeInv, TypeOK, FilesOK
<1>3. FilesOK'
  BY <1>1, <1>2 DEF Crash, TypeInv, TypeOK, FilesOK
<1>4. QED
  BY <1>3, FinishKeepsTypeInv DEF Crash

LEMMA NextKeepsTypeInv == TypeInv /\ [Next]_vars => TypeInv'
<1> SUFFICES ASSUME TypeInv, [Next]_vars PROVE TypeInv'
  OBVIOUS
<1>1. CASE UNCHANGED vars
  BY <1>1 DEF vars, Loads, TypeInv, TypeOK, FilesOK, MemOK, PlanOK, StagedOK
<1>2. QED
  BY <1>1, OperatorKeepsTypeInv, ProgressKeepsTypeInv, CrashKeepsTypeInv DEF Next

(* What is under a .tmp path when it is renamed is what the command staged *)
(* there, however many torn or stale .tmp files earlier commands left.     *)
THEOREM TypeInvariance == Spec => []TypeInv
BY TypeInvInit, NextKeepsTypeInv, PTL DEF Spec

(* Whatever fails and whenever the process dies, every file under a final  *)
(* path has the format of its path (writeFileAtomic and the stage phases   *)
(* of InitCA, SignCSR and GenerateCRL).                                    *)
THEOREM TypeCorrect == Spec => []TypeOK
<1>1. TypeInv => TypeOK
  BY DEF TypeInv
<1>2. QED
  BY <1>1, TypeInvariance, PTL

----------------------------------------------------------------------------
(* The safety invariants.  Each of them holds of the disk between any two  *)
(* renames of any command, so the inductive invariant says how far the     *)
(* running command has come and what it relies on: nobody else has changed *)
(* what it has read.                                                       *)

(* The files appear in the commit order of InitCA, and certificates and    *)
(* the list only once it is complete.                                      *)
InCommitOrder ==
    /\ Exists(CaCrt) => Exists(CaKey)
    /\ Exists(SerialFile) => Exists(CaCrt)
    /\ Exists(CrlNumberFile) => Exists(SerialFile)
    /\ Exists(IndexFile) => Exists(CrlNumberFile)
    /\ \A p \in {CaCrl} \cup CertFiles : Exists(p) => Exists(IndexFile)

DiskInv ==
    /\ InCommitOrder
    /\ ChainOfTrust
    /\ IndexedIsOnFile
    /\ SerialsAreFresh
    /\ CRLMatchesIndex

(* How many writes of the running command are in place. *)
Done == IF pc = "commit" THEN pos - 1 ELSE 0

InitRun ==
    /\ mem \in [key : Keys]
    /\ plan = InitPlan(mem.key)
    /\ ~Exists(IndexFile)
    /\ Done < 2 => ~Exists(CaCrt)
    /\ Done >= 1 => disk[CaKey] = PrivateKey(mem.key)
    /\ Done >= 2 => disk[CaCrt] = Certificate(1, RootSubject, mem.key)
    /\ Done >= 3 => disk[SerialFile] = Counter(2)
    /\ Done >= 4 => disk[CrlNumberFile] = Counter(1)

SignRun ==
    /\ mem \in [key : Keys, serial : Serials, subject : Subjects]
    /\ Loads(IndexFile, "index")
    /\ plan = SignPlan(mem.serial, mem.subject, mem.key, Entries)
    /\ disk[CaKey] = PrivateKey(mem.key)
    /\ disk[SerialFile] = Counter(IF Done = 0 THEN mem.serial ELSE mem.serial + 1)
    /\ \A i \in DOMAIN Entries : Entries[i].serial < mem.serial
    /\ disk[CertFile(mem.serial)] =
        IF Done < 2 THEN Absent ELSE Certificate(mem.serial, mem.subject, mem.key)

RevokeRun ==
    /\ Loads(IndexFile, "index")
    /\ mem \in [position : DOMAIN Entries, reason : Reasons]
    /\ Entries[mem.position].status = "active"
    /\ plan = RevokePlan(Entries, mem.position, mem.reason)

CRLRun ==
    /\ mem \in [key : Keys, revoked : SUBSET CrlEntry]
    /\ Loads(IndexFile, "index")
    /\ disk[CaKey] = PrivateKey(mem.key)
    /\ mem.revoked = RevokedEntries(Entries)
    /\ \E m \in 1 .. MaxCRLNumber :
        disk[CrlNumberFile] = Counter(m) /\ plan = CRLPlan(m, mem.revoked, mem.key)

RunInv ==
    /\ pc = "mkdir" => op = "init" /\ ~Exists(CaCrt)
    /\ pc = "loadIndex" =>
        /\ op = "sign"
        /\ disk[CaKey] = PrivateKey(mem.key)
        /\ disk[SerialFile] = Counter(mem.serial)
    /\ pc = "loadCounter" =>
        /\ op = "crl"
        /\ disk[CaKey] = PrivateKey(mem.key)
        /\ Loads(IndexFile, "index")
        /\ mem.revoked = RevokedEntries(Entries)
    /\ pc \in {"stage", "commit"} =>
        \/ op = "init" /\ InitRun
        \/ op = "sign" /\ SignRun
        \/ op = "revoke" /\ RevokeRun
        \/ op = "crl" /\ CRLRun

SafeInv == DiskInv /\ RunInv

----------------------------------------------------------------------------
(* One file changes *)

Put(p, c) == disk' = [disk EXCEPT ![p] = c]

LEMMA KnownPaths ==
    /\ {CaKey, CaCrt, SerialFile, CrlNumberFile, IndexFile, CaCrl} \subseteq Paths
    /\ CertFiles \subseteq Paths
    /\ \A n \in Serials : CertFile(n) \in CertFiles
BY DEF Paths, CertFiles

LEMMA PutFrame ==
    ASSUME FilesOK, NEW p \in Paths, NEW c, Put(p, c)
    PROVE  /\ disk'[p] = c
           /\ \A q \in Paths : q # p => disk'[q] = disk[q]
BY DEF FilesOK, Put

LEMMA ContentFields ==
    /\ \A k : /\ PrivateKey(k).kind = "key"
              /\ PrivateKey(k).key = k
    /\ \A n, s, k : /\ Certificate(n, s, k).kind = "certificate"
                    /\ Certificate(n, s, k).serial = n
                    /\ Certificate(n, s, k).subject = s
                    /\ Certificate(n, s, k).signer = k
    /\ \A v : /\ Counter(v).kind = "counter"
              /\ Counter(v).value = v
    /\ \A es : /\ Index(es).kind = "index"
               /\ Index(es).entries = es
    /\ \A m, R, k : /\ Crl(m, R, k).kind = "crl"
                    /\ Crl(m, R, k).number = m
                    /\ Crl(m, R, k).revoked = R
                    /\ Crl(m, R, k).signer = k
    /\ Absent.kind = "absent"
BY DEF PrivateKey, Certificate, Counter, Index, Crl, Absent

(* A file that is there loads.                                             *)
LEMMA ExistsLoads ==
    ASSUME FilesOK
    PROVE  /\ Exists(CaKey) => \E k \in Keys : disk[CaKey] = PrivateKey(k)
           /\ Exists(CaCrt) => \E k \in Keys : disk[CaCrt] = Certificate(1, RootSubject, k)
           /\ Exists(SerialFile) => \E v \in 2 .. MaxSerial + 1 : disk[SerialFile] = Counter(v)
           /\ Exists(CrlNumberFile) =>
                \E v \in 1 .. MaxCRLNumber + 1 : disk[CrlNumberFile] = Counter(v)
           /\ Exists(IndexFile) => disk[IndexFile] \in IndexFiles
           /\ Exists(CaCrl) => disk[CaCrl] \in CrlFiles
           /\ \A n \in Serials :
                Exists(CertFile(n)) => disk[CertFile(n)] \in CertificateFiles(n)
BY FitsPath, KnownPaths DEF FilesOK, Exists, KeyFiles, RootFiles, SerialFiles, CrlNumberFiles

LEMMA LoadsExists ==
    ASSUME FilesOK
    PROVE  /\ Loads(CaKey, "key") <=> Exists(CaKey)
           /\ Loads(CaCrt, "certificate") <=> Exists(CaCrt)
           /\ Loads(SerialFile, "counter") <=> Exists(SerialFile)
           /\ Loads(CrlNumberFile, "counter") <=> Exists(CrlNumberFile)
           /\ Loads(IndexFile, "index") <=> Exists(IndexFile)
<1>1. \A p, t : t # "absent" /\ Loads(p, t) => Exists(p)
  BY DEF Loads, Exists, Absent
<1>2. Exists(CaKey) => Loads(CaKey, "key")
  BY ExistsLoads, ContentFields DEF Loads
<1>3. Exists(CaCrt) => Loads(CaCrt, "certificate")
  BY ExistsLoads, ContentFields DEF Loads
<1>4. Exists(SerialFile) => Loads(SerialFile, "counter")
  BY ExistsLoads, ContentFields DEF Loads
<1>5. Exists(CrlNumberFile) => Loads(CrlNumberFile, "counter")
  BY ExistsLoads, ContentFields DEF Loads
<1>6. Exists(IndexFile) => Loads(IndexFile, "index")
  BY ExistsLoads DEF Loads, IndexFiles
<1>7. QED
  BY <1>1, <1>2, <1>3, <1>4, <1>5, <1>6

LEMMA IndexEntriesType ==
    ASSUME FilesOK
    PROVE  /\ IndexEntries(disk) \in Seq(IndexEntry)
           /\ Exists(IndexFile) => IndexEntries(disk) = Entries
           /\ ~Exists(IndexFile) => IndexEntries(disk) = << >>
<1>1. CASE Exists(IndexFile)
  <2>1. disk[IndexFile] \in IndexFiles
    BY <1>1, ExistsLoads
  <2>2. QED
    BY <1>1, <2>1 DEF IndexEntries, Entries, IndexFiles
<1>2. CASE ~Exists(IndexFile)
  <2>1. IndexEntries(disk) = << >>
    BY <1>2 DEF IndexEntries, Exists, Absent
  <2>2. << >> \in Seq(IndexEntry)
    OBVIOUS
  <2>3. QED
    BY <1>2, <2>1, <2>2
<1>3. QED
  BY <1>1, <1>2

LEMMA EntryFields ==
    ASSUME FilesOK, NEW i \in DOMAIN IndexEntries(disk)
    PROVE  /\ IndexEntries(disk)[i] \in IndexEntry
           /\ IndexEntries(disk)[i].serial \in Serials
           /\ CertFile(IndexEntries(disk)[i].serial) \in CertFiles
<1>1. IndexEntries(disk)[i] \in IndexEntry
  BY IndexEntriesType
<1>2. IndexEntries(disk)[i].serial \in Serials
  BY <1>1 DEF IndexEntry
<1>3. QED
  BY <1>1, <1>2, KnownPaths

LEMMA DiskInvDependsOnDisk ==
    ASSUME DiskInv, disk' = disk
    PROVE  DiskInv'
BY DEF DiskInv, InCommitOrder, ChainOfTrust, IndexedIsOnFile, SerialsAreFresh, CRLMatchesIndex,
       Exists, Loads

----------------------------------------------------------------------------
(* What each rename does to the invariants of the disk *)

LEMMA NoEntries ==
    ASSUME IndexEntries(disk') = << >>,
           \A p \in {CaCrl} \cup CertFiles : disk'[p] = Absent
    PROVE  IndexedIsOnFile' /\ SerialsAreFresh' /\ CRLMatchesIndex'
BY KnownPaths DEF IndexedIsOnFile, SerialsAreFresh, CRLMatchesIndex, Exists

(* A rename of InitCA.                                                     *)
LEMMA InitPut ==
    ASSUME FilesOK, DiskInv, ~Exists(IndexFile),
           NEW p \in {CaKey, CaCrt, SerialFile, CrlNumberFile, IndexFile}, NEW c, Put(p, c),
           p = IndexFile => c = Index(<< >>),
           InCommitOrder',
           Exists(CaCrt)' => Loads(CaKey, "key")' /\ (disk[CaCrt].signer = disk[CaKey].key)'
    PROVE  DiskInv'
<1>1. p \in Paths /\ p \notin {CaCrl} \cup CertFiles
  BY KnownPaths, FixedPathsDiffer, CertFilesDiffer
<1>2. \A q \in {CaCrl} \cup CertFiles : disk'[q] = Absent
  BY <1>1, PutFrame, KnownPaths DEF DiskInv, InCommitOrder, Exists
<1>3. IndexEntries(disk') = << >>
  <2>1. CASE p = IndexFile
    BY <2>1, <1>1, PutFrame, ContentFields DEF IndexEntries
  <2>2. CASE p # IndexFile
    BY <2>2, <1>1, PutFrame, KnownPaths, ContentFields DEF IndexEntries, Exists
  <2>3. QED
    BY <2>1, <2>2
<1>4. IndexedIsOnFile' /\ SerialsAreFresh' /\ CRLMatchesIndex'
  BY <1>2, <1>3, NoEntries
<1>5. ChainOfTrust'
  BY <1>2 DEF ChainOfTrust, Exists
<1>6. QED
  BY <1>4, <1>5 DEF DiskInv

(* The first rename of SignCSR.                                            *)
LEMMA SerialPut ==
    ASSUME FilesOK, DiskInv, NEW n \in Serials,
           disk[SerialFile] = Counter(n), Put(SerialFile, Counter(n + 1))
    PROVE  DiskInv'
<1>1. disk'[SerialFile] = Counter(n + 1)
  BY PutFrame, KnownPaths
<1>2. \A q \in Paths : q # SerialFile => disk'[q] = disk[q]
  BY PutFrame, KnownPaths
<1>3. /\ disk'[CaKey] = disk[CaKey] /\ disk'[CaCrt] = disk[CaCrt]
      /\ disk'[CrlNumberFile] = disk[CrlNumberFile] /\ disk'[IndexFile] = disk[IndexFile]
      /\ disk'[CaCrl] = disk[CaCrl]
      /\ \A q \in CertFiles : disk'[q] = disk[q]
  BY <1>2, KnownPaths, FixedPathsDiffer, CertFilesDiffer
<1>4. disk[SerialFile] # Absent /\ disk'[SerialFile] # Absent
  BY <1>1, ContentFields
<1>5. IndexEntries(disk') = IndexEntries(disk)
  BY <1>3 DEF IndexEntries
<1>6. InCommitOrder'
  BY <1>3, <1>4 DEF DiskInv, InCommitOrder, Exists
<1>7. ChainOfTrust'
  BY <1>3 DEF DiskInv, ChainOfTrust, Exists, Loads
<1>8. IndexedIsOnFile'
  <2>1. \A i \in DOMAIN IndexEntries(disk) : CertFile(IndexEntries(disk)[i].serial) \in CertFiles
    BY EntryFields
  <2>2. QED
    BY <2>1, <1>3, <1>5 DEF DiskInv, IndexedIsOnFile
<1>9. SerialsAreFresh'
  <2>1. \A m \in Serials : disk'[CertFile(m)] # Absent => m < n
    BY <1>3, KnownPaths, ContentFields DEF DiskInv, SerialsAreFresh, Exists
  <2>2. \A m \in Serials : disk'[CertFile(m)] # Absent => m < n + 1
    BY <2>1, BoundsAssumption DEF Serials
  <2>3. QED
    BY <2>2, <1>1, <1>5, ContentFields DEF DiskInv, SerialsAreFresh, Exists, Loads
<1>10. CRLMatchesIndex'
  BY <1>3, <1>5 DEF DiskInv, CRLMatchesIndex, Exists
<1>11. QED
  BY <1>6, <1>7, <1>8, <1>9, <1>10 DEF DiskInv

(* The second rename of SignCSR.                                           *)
LEMMA CertificatePut ==
    ASSUME FilesOK, DiskInv, NEW n \in Serials, NEW s \in Subjects, NEW k \in Keys,
           disk[CaKey] = PrivateKey(k),
           disk[SerialFile] = Counter(n + 1),
           disk[CertFile(n)] = Absent,
           Exists(IndexFile),
           Put(CertFile(n), Certificate(n, s, k))
    PROVE  DiskInv'
<1>1. disk'[CertFile(n)] = Certificate(n, s, k)
  BY PutFrame, KnownPaths
<1>2. \A q \in Paths : q # CertFile(n) => disk'[q] = disk[q]
  BY PutFrame, KnownPaths
<1>3. /\ disk'[CaKey] = disk[CaKey] /\ disk'[CaCrt] = disk[CaCrt]
      /\ disk'[SerialFile] = disk[SerialFile]
      /\ disk'[CrlNumberFile] = disk[CrlNumberFile] /\ disk'[IndexFile] = disk[IndexFile]
      /\ disk'[CaCrl] = disk[CaCrl]
  BY <1>2, KnownPaths, CertFilesDiffer
<1>4. \A q \in CertFiles : q # CertFile(n) => disk'[q] = disk[q]
  BY <1>2, KnownPaths
<1>5. IndexEntries(disk') = IndexEntries(disk)
  BY <1>3 DEF IndexEntries
<1>6. InCommitOrder'
  BY <1>3, <1>4 DEF DiskInv, InCommitOrder, Exists
<1>7. ChainOfTrust'
  <2>1. ASSUME NEW q \in {CaCrt, CaCrl} \cup CertFiles, disk'[q] # Absent
        PROVE  disk'[CaKey].kind = "key" /\ disk'[q].signer = disk'[CaKey].key
    <3>1. CASE q = CertFile(n)
      BY <3>1, <1>1, <1>3, ContentFields
    <3>2. CASE q # CertFile(n)
      BY <2>1, <3>2, <1>3, <1>4 DEF DiskInv, ChainOfTrust, Exists, Loads
    <3>3. QED
      BY <3>1, <3>2
  <2>2. QED
    BY <2>1 DEF ChainOfTrust, Exists, Loads
<1>8. IndexedIsOnFile'
  <2>1. ASSUME NEW i \in DOMAIN IndexEntries(disk)
        PROVE  LET e == IndexEntries(disk)[i] IN
               /\ disk'[CertFile(e.serial)].kind = "certificate"
               /\ disk'[CertFile(e.serial)].subject = e.subject
    <3>1. /\ CertFile(IndexEntries(disk)[i].serial) \in CertFiles
          /\ disk[CertFile(IndexEntries(disk)[i].serial)].kind = "certificate"
          /\ disk[CertFile(IndexEntries(disk)[i].serial)].subject = IndexEntries(disk)[i].subject
      BY EntryFields DEF DiskInv, IndexedIsOnFile
    <3>2. CertFile(IndexEntries(disk)[i].serial) # CertFile(n)
      BY <3>1, ContentFields
    <3>3. QED
      BY <3>1, <3>2, <1>4
  <2>2. QED
    BY <2>1, <1>5 DEF IndexedIsOnFile
<1>9. SerialsAreFresh'
  <2>1. ASSUME NEW m \in Serials, disk'[CertFile(m)] # Absent
        PROVE  m < n + 1
    <3>1. CASE m = n
      BY <3>1, BoundsAssumption DEF Serials
    <3>2. CASE m # n
      BY <2>1, <3>2, <1>4, KnownPaths, CertFilesDiffer, ContentFields
      DEF DiskInv, SerialsAreFresh, Exists
    <3>3. QED
      BY <3>1, <3>2
  <2>2. QED
    BY <2>1, <1>3, <1>5, ContentFields DEF DiskInv, SerialsAreFresh, Exists, Loads
<1>10. CRLMatchesIndex'
  BY <1>3, <1>5 DEF DiskInv, CRLMatchesIndex, Exists
<1>11. QED
  BY <1>6, <1>7, <1>8, <1>9, <1>10 DEF DiskInv

(* A rename of index.json by SignCSR or RevokeCert.                        *)
LEMMA IndexPut ==
    ASSUME FilesOK, DiskInv, Exists(IndexFile),
           NEW es \in Seq(IndexEntry), Put(IndexFile, Index(es)),
           \A i \in DOMAIN es : /\ disk[CertFile(es[i].serial)].kind = "certificate"
                                /\ disk[CertFile(es[i].serial)].subject = es[i].subject,
           \A i, j \in DOMAIN es : i < j => es[i].serial < es[j].serial,
           RevokedEntries(Entries) \subseteq RevokedEntries(es)
    PROVE  DiskInv'
<1>1. disk'[IndexFile] = Index(es)
  BY PutFrame, KnownPaths
<1>2. \A q \in Paths : q # IndexFile => disk'[q] = disk[q]
  BY PutFrame, KnownPaths
<1>3. /\ disk'[CaKey] = disk[CaKey] /\ disk'[CaCrt] = disk[CaCrt]
      /\ disk'[SerialFile] = disk[SerialFile]
      /\ disk'[CrlNumberFile] = disk[CrlNumberFile]
      /\ disk'[CaCrl] = disk[CaCrl]
      /\ \A q \in CertFiles : disk'[q] = disk[q]
  BY <1>2, KnownPaths, FixedPathsDiffer, CertFilesDiffer
<1>4. disk'[IndexFile] # Absent
  BY <1>1, ContentFields
<1>5. IndexEntries(disk') = es /\ IndexEntries(disk) = Entries
  BY <1>1, ContentFields, IndexEntriesType DEF IndexEntries
<1>6. InCommitOrder'
  BY <1>3, <1>4 DEF DiskInv, InCommitOrder, Exists
<1>7. ChainOfTrust'
  BY <1>3 DEF DiskInv, ChainOfTrust, Exists, Loads
<1>8. IndexedIsOnFile'
  <2>1. ASSUME NEW i \in DOMAIN es
        PROVE  CertFile(es[i].serial) \in CertFiles
    <3>1. es[i] \in IndexEntry
      OBVIOUS
    <3>2. es[i].serial \in Serials
      BY <3>1 DEF IndexEntry
    <3>3. QED
      BY <3>2, KnownPaths
  <2>2. QED
    BY <2>1, <1>3, <1>5 DEF IndexedIsOnFile
<1>9. SerialsAreFresh'
  BY <1>3, <1>5, KnownPaths DEF DiskInv, SerialsAreFresh, Exists, Loads
<1>10. CRLMatchesIndex'
  BY <1>3, <1>5 DEF DiskInv, CRLMatchesIndex, Exists
<1>11. QED
  BY <1>6, <1>7, <1>8, <1>9, <1>10 DEF DiskInv

LEMMA AppendKeepsRevoked ==
    ASSUME NEW es \in Seq(IndexEntry), NEW n \in Serials, NEW s \in Subjects
    PROVE  RevokedEntries(es) \subseteq RevokedEntries(Append(es, NewEntry(n, s)))
<1>1. ASSUME NEW i \in {j \in DOMAIN es : es[j].status = "revoked"}
      PROVE  /\ i \in DOMAIN Append(es, NewEntry(n, s))
             /\ Append(es, NewEntry(n, s))[i] = es[i]
  BY NewEntryType
<1>2. QED
  BY <1>1 DEF RevokedEntries

LEMMA RevokeKeepsRevoked ==
    ASSUME NEW es \in Seq(IndexEntry), NEW i \in DOMAIN es, NEW r \in Reasons,
           es[i].status = "active"
    PROVE  RevokedEntries(es) \subseteq RevokedEntries([es EXCEPT ![i] = MarkRevoked(es[i], r)])
<1>1. ASSUME NEW j \in {h \in DOMAIN es : es[h].status = "revoked"}
      PROVE  /\ j \in DOMAIN [es EXCEPT ![i] = MarkRevoked(es[i], r)]
             /\ [es EXCEPT ![i] = MarkRevoked(es[i], r)][j] = es[j]
  OBVIOUS
<1>2. QED
  BY <1>1 DEF RevokedEntries

(* The first rename of GenerateCRL.  The list may lag behind the index.    *)
LEMMA CrlPut ==
    ASSUME FilesOK, DiskInv, Exists(IndexFile), NEW m \in Nat, NEW k \in Keys,
           NEW R \in SUBSET RevokedEntries(Entries),
           disk[CaKey] = PrivateKey(k),
           disk[CrlNumberFile] = Counter(m),
           Put(CaCrl, Crl(m, R, k))
    PROVE  DiskInv'
<1>1. disk'[CaCrl] = Crl(m, R, k)
  BY PutFrame, KnownPaths
<1>2. \A q \in Paths : q # CaCrl => disk'[q] = disk[q]
  BY PutFrame, KnownPaths
<1>3. /\ disk'[CaKey] = disk[CaKey] /\ disk'[CaCrt] = disk[CaCrt]
      /\ disk'[SerialFile] = disk[SerialFile]
      /\ disk'[CrlNumberFile] = disk[CrlNumberFile] /\ disk'[IndexFile] = disk[IndexFile]
      /\ \A q \in CertFiles : disk'[q] = disk[q]
  BY <1>2, KnownPaths, FixedPathsDiffer, CertFilesDiffer
<1>4. IndexEntries(disk') = IndexEntries(disk) /\ IndexEntries(disk) = Entries
  BY <1>3, IndexEntriesType DEF IndexEntries
<1>5. InCommitOrder'
  BY <1>3 DEF DiskInv, InCommitOrder, Exists
<1>6. ChainOfTrust'
  BY <1>1, <1>3, ContentFields DEF DiskInv, ChainOfTrust, Exists, Loads
<1>7. IndexedIsOnFile'
  BY <1>3, <1>4, EntryFields DEF DiskInv, IndexedIsOnFile
<1>8. SerialsAreFresh'
  BY <1>3, <1>4, KnownPaths DEF DiskInv, SerialsAreFresh, Exists, Loads
<1>9. CRLMatchesIndex'
  BY <1>1, <1>3, <1>4, ContentFields DEF CRLMatchesIndex
<1>10. QED
  BY <1>5, <1>6, <1>7, <1>8, <1>9 DEF DiskInv

(* The second rename of GenerateCRL.                                       *)
LEMMA CrlNumberPut ==
    ASSUME FilesOK, DiskInv, NEW m \in Nat,
           disk[CrlNumberFile] = Counter(m),
           Put(CrlNumberFile, Counter(m + 1))
    PROVE  DiskInv'
<1>1. disk'[CrlNumberFile] = Counter(m + 1)
  BY PutFrame, KnownPaths
<1>2. \A q \in Paths : q # CrlNumberFile => disk'[q] = disk[q]
  BY PutFrame, KnownPaths
<1>3. /\ disk'[CaKey] = disk[CaKey] /\ disk'[CaCrt] = disk[CaCrt]
      /\ disk'[SerialFile] = disk[SerialFile]
      /\ disk'[IndexFile] = disk[IndexFile] /\ disk'[CaCrl] = disk[CaCrl]
      /\ \A q \in CertFiles : disk'[q] = disk[q]
  BY <1>2, KnownPaths, FixedPathsDiffer, CertFilesDiffer
<1>4. IndexEntries(disk') = IndexEntries(disk)
  BY <1>3 DEF IndexEntries
<1>5. disk[CrlNumberFile] # Absent /\ disk'[CrlNumberFile] # Absent
  BY <1>1, ContentFields
<1>6. InCommitOrder'
  BY <1>3, <1>5 DEF DiskInv, InCommitOrder, Exists
<1>7. ChainOfTrust'
  BY <1>3 DEF DiskInv, ChainOfTrust, Exists, Loads
<1>8. IndexedIsOnFile'
  BY <1>3, <1>4, EntryFields DEF DiskInv, IndexedIsOnFile
<1>9. SerialsAreFresh'
  BY <1>3, <1>4, KnownPaths DEF DiskInv, SerialsAreFresh, Exists, Loads
<1>10. CRLMatchesIndex'
  <2>1. SUFFICES ASSUME disk'[CaCrl] # Absent
                 PROVE  /\ disk'[CaCrl].revoked \subseteq RevokedEntries(IndexEntries(disk'))
                        /\ disk'[CaCrl].number <= m + 1
    BY <1>1, ContentFields DEF CRLMatchesIndex, Exists
  <2>2. /\ disk[CaCrl].revoked \subseteq RevokedEntries(IndexEntries(disk))
        /\ disk[CaCrl].number <= m
    BY <2>1, <1>3, ContentFields DEF DiskInv, CRLMatchesIndex, Exists
  <2>3. disk[CaCrl].number \in Nat
    BY <2>1, <1>3, ExistsLoads DEF Exists, CrlFiles
  <2>4. QED
    BY <2>2, <2>3, <1>3, <1>4
<1>11. QED
  BY <1>6, <1>7, <1>8, <1>9, <1>10 DEF DiskInv

----------------------------------------------------------------------------
(* Every step keeps the safety invariant *)

LEMMA SafeInvInit == Init => SafeInv
<1> SUFFICES ASSUME Init PROVE SafeInv
  OBVIOUS
<1>1. \A p \in Paths : disk[p] = Absent
  BY DEF Init, NoFiles
<1>2. IndexEntries(disk) = << >>
  BY <1>1, KnownPaths, ContentFields DEF IndexEntries
<1>3. DiskInv
  BY <1>1, <1>2, KnownPaths
  DEF DiskInv, InCommitOrder, ChainOfTrust, IndexedIsOnFile, SerialsAreFresh, CRLMatchesIndex,
      Exists
<1>4. RunInv
  BY DEF Init, RunInv
<1>5. QED
  BY <1>3, <1>4 DEF SafeInv

LEMMA FinishKeepsSafeInv ==
    ASSUME NEW r, Finish(r), DiskInv'
    PROVE  SafeInv'
<1>1. RunInv'
  BY DEF Finish, RunInv
<1>2. QED
  BY <1>1 DEF SafeInv

LEMMA OperatorKeepsSafeInv ==
    ASSUME TypeInv, SafeInv, Operator
    PROVE  SafeInv'
<1> USE DEF SafeInv
<1>f. FilesOK
  BY DEF TypeInv, TypeOK
<1>1. ASSUME NEW k \in Keys, BeginInit(k) PROVE SafeInv'
  <2>1. disk' = disk /\ op' = "init" /\ pc' = "mkdir"
    BY <1>1 DEF BeginInit, Begin, data
  <2>2. ~Exists(CaCrt)
    BY <1>1 DEF BeginInit, IsInitialized, DiskInv, InCommitOrder
  <2>3. RunInv'
    BY <2>1, <2>2 DEF RunInv, Exists
  <2>4. QED
    BY <2>1, <2>3, DiskInvDependsOnDisk
<1>2. ASSUME Reject PROVE SafeInv'
  <2>1. disk' = disk /\ pc' = pc /\ pc = "idle"
    BY <1>2 DEF Reject, data, process, Idle
  <2>2. RunInv'
    BY <2>1 DEF RunInv
  <2>3. QED
    BY <2>1, <2>2, DiskInvDependsOnDisk
<1>3. ASSUME NEW csr \in CSR, BeginSign(csr) PROVE SafeInv'
  <2>1. /\ disk' = disk /\ op' = "sign" /\ pc' = "loadIndex"
        /\ mem'.key = disk[CaKey].key /\ mem'.serial = disk[SerialFile].value
    BY <1>3 DEF BeginSign, Begin, data
  <2>2. Exists(CaKey) /\ Exists(SerialFile)
    BY <1>f, <1>3, LoadsExists DEF BeginSign, SignInputsLoad
  <2>3. disk[CaKey] = PrivateKey(disk[CaKey].key)
    BY <1>f, <2>2, ExistsLoads, ContentFields
  <2>4. disk[SerialFile] = Counter(disk[SerialFile].value)
    BY <1>f, <2>2, ExistsLoads, ContentFields
  <2>5. RunInv'
    BY <2>1, <2>3, <2>4 DEF RunInv
  <2>6. QED
    BY <2>1, <2>5, DiskInvDependsOnDisk
<1>4. ASSUME NEW n \in 1 .. MaxSerial, NEW r \in Reasons, BeginRevoke(n, r) PROVE SafeInv'
  <2>1. PICK i \in DOMAIN Entries :
            /\ Entries[i].status # "revoked"
            /\ mem' = [position |-> i, reason |-> r]
            /\ plan' = RevokePlan(Entries, i, r)
    BY <1>4 DEF BeginRevoke
  <2>2. disk' = disk /\ op' = "revoke" /\ pc' = "stage" /\ Loads(IndexFile, "index")
    BY <1>4 DEF BeginRevoke, data
  <2>3. Entries[i].status = "active"
    <3>1. Entries \in Seq(IndexEntry)
      BY <1>f, <2>2, LoadedTypes
    <3>2. Entries[i] \in IndexEntry
      BY <3>1
    <3>3. QED
      BY <2>1, <3>2 DEF IndexEntry
  <2>4. RevokeRun'
    BY <2>1, <2>2, <2>3 DEF RevokeRun, Loads, Entries
  <2>5. RunInv'
    BY <2>2, <2>4 DEF RunInv
  <2>6. QED
    BY <2>2, <2>5, DiskInvDependsOnDisk
<1>5. ASSUME BeginCRL PROVE SafeInv'
  <2>1. /\ disk' = disk /\ op' = "crl" /\ pc' = "loadCounter"
        /\ mem'.key = disk[CaKey].key /\ mem'.revoked = RevokedEntries(Entries)
        /\ Loads(CaKey, "key") /\ Loads(IndexFile, "index")
    BY <1>5 DEF BeginCRL, Begin, data, CRLInputsLoad
  <2>2. disk[CaKey] = PrivateKey(disk[CaKey].key)
    BY <1>f, <2>1, LoadsExists, ExistsLoads, ContentFields
  <2>3. RunInv'
    BY <2>1, <2>2 DEF RunInv, Loads, Entries
  <2>4. QED
    BY <2>1, <2>3, DiskInvDependsOnDisk
<1>6. QED
  BY <1>1, <1>2, <1>3, <1>4, <1>5
  DEF Operator, RejectInit, RejectSign, RejectRevoke, RejectCRL

(* The steps of a running command that rename nothing.                     *)
LEMMA PreparationKeepsSafeInv ==
    ASSUME TypeInv, SafeInv, Progress, ~CommitRename
    PROVE  SafeInv'
<1> USE DEF SafeInv
<1>f. FilesOK
  BY DEF TypeInv, TypeOK
<1>1. CASE MakeDataDir
  <2>1. /\ disk' = disk /\ op' = op /\ mem' = mem /\ pc' = "stage" /\ pc = "mkdir"
        /\ plan' = InitPlan(mem.key)
    BY <1>1 DEF MakeDataDir, Prepare
  <2>2. op = "init" /\ ~Exists(CaCrt) /\ mem \in [key : Keys]
    BY <2>1 DEF RunInv, TypeInv, MemOK
  <2>3. ~Exists(IndexFile)
    BY <2>2 DEF DiskInv, InCommitOrder
  <2>4. Done' = 0
    BY <2>1 DEF Done
  <2>5. InitRun'
    BY <2>1, <2>2, <2>3, <2>4 DEF InitRun, Exists
  <2>6. QED
    BY <2>1, <2>2, <2>5, DiskInvDependsOnDisk DEF RunInv
<1>2. CASE SignLoadIndex
  <2>1. /\ disk' = disk /\ op' = op /\ mem' = mem /\ pc' = "stage" /\ pc = "loadIndex"
        /\ plan' = SignPlan(mem.serial, mem.subject, mem.key, Entries)
        /\ Loads(IndexFile, "index")
    BY <1>2 DEF SignLoadIndex, Prepare
  <2>2. /\ op = "sign" /\ disk[CaKey] = PrivateKey(mem.key)
        /\ disk[SerialFile] = Counter(mem.serial)
        /\ mem \in [key : Keys, serial : Serials, subject : Subjects]
    BY <2>1 DEF RunInv, TypeInv, MemOK
  <2>3. mem.serial \in Nat /\ disk[SerialFile].value = mem.serial
    BY <2>2, BoundsAssumption, ContentFields DEF Serials
  <2>4. \A m \in Serials : Exists(CertFile(m)) => m < mem.serial
    BY <2>3 DEF DiskInv, SerialsAreFresh
  <2>5. disk[CertFile(mem.serial)] = Absent
    BY <2>2, <2>3, <2>4 DEF Exists
  <2>6. Entries = IndexEntries(disk)
    BY <1>f, <2>1, LoadsExists, IndexEntriesType
  <2>7. \A i \in DOMAIN Entries : Entries[i].serial < mem.serial
    <3>1. TAKE i \in DOMAIN Entries
    <3>2. Entries[i].serial \in Serials /\ disk[CertFile(Entries[i].serial)].kind = "certificate"
      BY <1>f, <2>6, EntryFields DEF DiskInv, IndexedIsOnFile
    <3>3. QED
      BY <2>4, <3>2, ContentFields DEF Exists
  <2>8. Done' = 0
    BY <2>1 DEF Done
  <2>9. SignRun'
    BY <2>1, <2>2, <2>5, <2>7, <2>8 DEF SignRun, Loads, Entries
  <2>10. QED
    BY <2>1, <2>2, <2>9, DiskInvDependsOnDisk DEF RunInv
<1>3. CASE CRLLoadCounter
  <2>1. CASE pc' = "stage"
    <3>1. /\ disk' = disk /\ op' = op /\ mem' = mem /\ pc = "loadCounter"
          /\ plan' = CRLPlan(disk[CrlNumberFile].value, mem.revoked, mem.key)
          /\ Loads(CrlNumberFile, "counter")
      BY <1>3, <2>1 DEF CRLLoadCounter, Prepare, Finish
    <3>2. /\ op = "crl" /\ disk[CaKey] = PrivateKey(mem.key)
          /\ Loads(IndexFile, "index") /\ mem.revoked = RevokedEntries(Entries)
          /\ mem \in [key : Keys, revoked : SUBSET CrlEntry]
          /\ disk[CrlNumberFile].value <= MaxCRLNumber
      BY <3>1 DEF RunInv, TypeInv, MemOK
    <3>3. /\ disk[CrlNumberFile].value \in 1 .. MaxCRLNumber
          /\ disk[CrlNumberFile] = Counter(disk[CrlNumberFile].value)
      BY <1>f, <3>1, <3>2, LoadsExists, ExistsLoads, ContentFields, BoundsAssumption
    <3>4. CRLRun'
      BY <3>1, <3>2, <3>3 DEF CRLRun, Loads, Entries
    <3>5. QED
      BY <2>1, <3>1, <3>2, <3>4, DiskInvDependsOnDisk DEF RunInv
  <2>2. CASE pc' # "stage"
    <3>1. disk' = disk /\ Finish("error")
      BY <1>3, <2>2 DEF CRLLoadCounter, Prepare, data
    <3>2. QED
      BY <3>1, DiskInvDependsOnDisk, FinishKeepsSafeInv
  <2>3. QED
    BY <2>1, <2>2
<1>4. CASE StageWrite
  <2>1. /\ disk' = disk /\ op' = op /\ mem' = mem /\ plan' = plan /\ pc = "stage"
        /\ pc' \in {"stage", "commit"} /\ (pc' = "commit" => pos' = 1)
    BY <1>4 DEF StageWrite
  <2>2. Done' = 0 /\ Done = 0
    BY <2>1 DEF Done
  <2>3. /\ InitRun => InitRun'
        /\ SignRun => SignRun'
        /\ RevokeRun => RevokeRun'
        /\ CRLRun => CRLRun'
    BY <2>1, <2>2 DEF InitRun, SignRun, RevokeRun, CRLRun, Exists, Loads, Entries
  <2>4. RunInv'
    BY <2>1, <2>3 DEF RunInv
  <2>5. QED
    BY <2>1, <2>4, DiskInvDependsOnDisk
<1>5. CASE MakeDataDirFails \/ SignLoadIndexFails \/ StageWriteFails \/ CommitRenameFails
  <2>1. disk' = disk /\ Finish("error")
    BY <1>5 DEF MakeDataDirFails, SignLoadIndexFails, StageWriteFails, CommitRenameFails, data
  <2>2. QED
    BY <2>1, DiskInvDependsOnDisk, FinishKeepsSafeInv
<1>6. QED
  BY <1>1, <1>2, <1>3, <1>4, <1>5 DEF Progress

(* A rename puts in place the write it was prepared for, and either the    *)
(* command goes on to the next one or it has succeeded.                    *)
LEMMA CommitEffect ==
    ASSUME TypeInv, CommitRename
    PROVE  /\ pc = "commit" /\ pos \in 1 .. Len(plan) /\ Done = pos - 1
           /\ plan[pos].path \in Paths
           /\ Put(plan[pos].path, plan[pos].content)
           /\ \/ /\ pos < Len(plan)
                 /\ pc' = "commit" /\ op' = op /\ mem' = mem /\ plan' = plan
                 /\ pos' = pos + 1 /\ Done' = pos
              \/ pos = Len(plan) /\ Finish("ok")
<1>1. pc = "commit" /\ pos \in 1 .. Len(plan) /\ WellFormed(plan)
  BY DEF CommitRename, TypeInv, PlanOK
<1>2. Len(plan) \in 1 .. 5 /\ plan[pos].path \in Paths
  BY <1>1, FitsKind DEF WellFormed
<1>3. tmp[plan[pos].path] = plan[pos].content
  BY <1>1, <1>2 DEF TypeInv, StagedOK
<1>4. Put(plan[pos].path, plan[pos].content)
  BY <1>3 DEF CommitRename, Current, Put
<1>5. CASE pos < Len(plan)
  BY <1>1, <1>2, <1>4, <1>5 DEF CommitRename, Done
<1>6. CASE pos = Len(plan)
  BY <1>1, <1>2, <1>4, <1>6 DEF CommitRename, Done
<1>7. QED
  BY <1>1, <1>2, <1>5, <1>6

LEMMA InitCommitKeepsSafeInv ==
    ASSUME TypeInv, SafeInv, CommitRename, op = "init", InitRun
    PROVE  SafeInv'
<1> USE DEF SafeInv
<1> DEFINE k == mem.key
<1>f. FilesOK
  BY DEF TypeInv, TypeOK
<1>1. mem \in [key : Keys] /\ k \in Keys /\ plan = InitPlan(k) /\ ~Exists(IndexFile)
  BY DEF InitRun
<1>2. Len(plan) = 5 /\ pos \in 1 .. 5 /\ Done = pos - 1
  BY <1>1, CommitEffect DEF InitPlan
<1>3. /\ plan[1] = Write(CaKey, PrivateKey(k))
      /\ plan[2] = Write(CaCrt, Certificate(1, RootSubject, k))
      /\ plan[3] = Write(SerialFile, Counter(2))
      /\ plan[4] = Write(CrlNumberFile, Counter(1))
      /\ plan[5] = Write(IndexFile, Index(<< >>))
  BY <1>1 DEF InitPlan
<1>4. \A p, c : Write(p, c).path = p /\ Write(p, c).content = c
  BY DEF Write
<1>5. /\ disk'[plan[pos].path] = plan[pos].content
      /\ \A q \in Paths : q # plan[pos].path => disk'[q] = disk[q]
  BY <1>f, CommitEffect, PutFrame
<1>6. \A q \in {CaCrl} \cup CertFiles : disk[q] = Absent /\ disk'[q] = Absent
  <2>1. \A q \in {CaCrl} \cup CertFiles : disk[q] = Absent /\ q \in Paths
    BY <1>1, KnownPaths DEF DiskInv, InCommitOrder, Exists
  <2>2. plan[pos].path \in {CaKey, CaCrt, SerialFile, CrlNumberFile, IndexFile}
    BY <1>2, <1>3, <1>4
  <2>3. \A q \in {CaCrl} \cup CertFiles : q # plan[pos].path
    BY <2>2, FixedPathsDiffer, CertFilesDiffer
  <2>4. QED
    BY <2>1, <2>3, <1>5
<1>7. pos < 5 => pc' = "commit" /\ op' = op /\ mem' = mem /\ plan' = plan /\ Done' = pos
  BY <1>2, CommitEffect
<1>8. \A p, c : plan[pos] = Write(p, c) => Put(p, c)
  BY <1>4, CommitEffect
<1>9. pos < 5 /\ InitRun' => RunInv'
  BY <1>7 DEF RunInv
<1>10. pos = 5 => RunInv'
  BY <1>2, CommitEffect DEF Finish, RunInv
<1>11. CASE pos = 1
  <2>1. Put(CaKey, PrivateKey(k)) /\ ~Exists(CaCrt)
    BY <1>2, <1>3, <1>8, <1>11 DEF InitRun
  <2>2. /\ disk'[CaKey] = PrivateKey(k) /\ disk'[CaCrt] = Absent /\ disk'[SerialFile] = Absent
        /\ disk'[CrlNumberFile] = Absent /\ disk'[IndexFile] = Absent
    BY <1>f, <2>1, PutFrame, KnownPaths, FixedPathsDiffer DEF DiskInv, InCommitOrder, Exists
  <2>3. InCommitOrder' /\ ~Exists(CaCrt)'
    BY <2>2, <1>6 DEF InCommitOrder, Exists
  <2>4. DiskInv'
    BY <1>f, <1>1, <2>1, <2>3, FixedPathsDiffer, InitPut
  <2>5. InitRun'
    BY <1>1, <1>7, <1>11, <2>2 DEF InitRun, Exists
  <2>6. QED
    BY <1>9, <1>11, <2>4, <2>5
<1>12. CASE pos = 2
  <2>1. /\ Put(CaCrt, Certificate(1, RootSubject, k)) /\ ~Exists(CaCrt)
        /\ disk[CaKey] = PrivateKey(k)
    BY <1>2, <1>3, <1>8, <1>12 DEF InitRun
  <2>2. /\ disk'[CaKey] = PrivateKey(k) /\ disk'[CaCrt] = Certificate(1, RootSubject, k)
        /\ disk'[SerialFile] = Absent /\ disk'[CrlNumberFile] = Absent
        /\ disk'[IndexFile] = Absent
    BY <1>f, <2>1, PutFrame, KnownPaths, FixedPathsDiffer DEF DiskInv, InCommitOrder, Exists
  <2>3. /\ InCommitOrder'
        /\ Loads(CaKey, "key")' /\ (disk[CaCrt].signer = disk[CaKey].key)'
    BY <2>2, <1>6, ContentFields DEF InCommitOrder, Exists, Loads
  <2>4. DiskInv'
    BY <1>f, <1>1, <2>1, <2>3, FixedPathsDiffer, InitPut
  <2>5. InitRun'
    BY <1>1, <1>7, <1>12, <2>2 DEF InitRun, Exists
  <2>6. QED
    BY <1>9, <1>12, <2>4, <2>5
<1>13. CASE pos \in {3, 4, 5}
  <2>1. disk[CaKey] = PrivateKey(k) /\ disk[CaCrt] = Certificate(1, RootSubject, k)
    BY <1>2, <1>13 DEF InitRun
  <2>2. plan[pos].path \in {SerialFile, CrlNumberFile, IndexFile}
    BY <1>3, <1>4, <1>13
  <2>3. disk'[CaKey] = PrivateKey(k) /\ disk'[CaCrt] = Certificate(1, RootSubject, k)
    BY <1>5, <2>1, <2>2, KnownPaths, FixedPathsDiffer
  <2>4. Loads(CaKey, "key")' /\ (disk[CaCrt].signer = disk[CaKey].key)'
    BY <2>3, ContentFields DEF Loads
  <2>5. CASE pos = 3
    <3>1. Put(SerialFile, Counter(2))
      BY <1>3, <1>8, <2>5
    <3>2. /\ disk'[SerialFile] = Counter(2) /\ disk'[IndexFile] = Absent
          /\ disk'[CrlNumberFile] = disk[CrlNumberFile]
      BY <1>f, <1>1, <3>1, PutFrame, KnownPaths, FixedPathsDiffer DEF Exists
    <3>3. InCommitOrder'
      BY <1>6, <2>3, <3>2, ContentFields DEF InCommitOrder, Exists
    <3>4. DiskInv'
      BY <1>f, <1>1, <2>4, <3>1, <3>3, FixedPathsDiffer, InitPut
    <3>5. InitRun'
      BY <1>1, <1>7, <2>3, <2>5, <3>2 DEF InitRun, Exists
    <3>6. QED
      BY <1>9, <2>5, <3>4, <3>5
  <2>6. CASE pos = 4
    <3>1. Put(CrlNumberFile, Counter(1)) /\ disk[SerialFile] = Counter(2)
      BY <1>2, <1>3, <1>8, <2>6 DEF InitRun
    <3>2. /\ disk'[SerialFile] = Counter(2) /\ disk'[IndexFile] = Absent
          /\ disk'[CrlNumberFile] = Counter(1)
      BY <1>f, <1>1, <3>1, PutFrame, KnownPaths, FixedPathsDiffer DEF Exists
    <3>3. InCommitOrder'
      BY <1>6, <2>3, <3>2, ContentFields DEF InCommitOrder, Exists
    <3>4. DiskInv'
      BY <1>f, <1>1, <2>4, <3>1, <3>3, FixedPathsDiffer, InitPut
    <3>5. InitRun'
      BY <1>1, <1>7, <2>3, <2>6, <3>2 DEF InitRun, Exists
    <3>6. QED
      BY <1>9, <2>6, <3>4, <3>5
  <2>7. CASE pos = 5
    <3>1. /\ Put(IndexFile, Index(<< >>)) /\ disk[SerialFile] = Counter(2)
          /\ disk[CrlNumberFile] = Counter(1)
      BY <1>2, <1>3, <1>8, <2>7 DEF InitRun
    <3>2. /\ disk'[SerialFile] = Counter(2) /\ disk'[IndexFile] = Index(<< >>)
          /\ disk'[CrlNumberFile] = Counter(1)
      BY <1>f, <3>1, PutFrame, KnownPaths, FixedPathsDiffer
    <3>3. InCommitOrder'
      BY <1>6, <2>3, <3>2, ContentFields DEF InCommitOrder, Exists
    <3>4. DiskInv'
      BY <1>f, <1>1, <2>4, <3>1, <3>3, FixedPathsDiffer, InitPut
    <3>5. QED
      BY <1>10, <2>7, <3>4
  <2>8. QED
    BY <1>13, <2>5, <2>6, <2>7
<1>14. QED
  BY <1>2, <1>11, <1>12, <1>13

LEMMA SignCommitKeepsSafeInv ==
    ASSUME TypeInv, SafeInv, CommitRename, op = "sign", SignRun
    PROVE  SafeInv'
<1> USE DEF SafeInv
<1> DEFINE n == mem.serial
<1> DEFINE s == mem.subject
<1> DEFINE k == mem.key
<1>f. FilesOK
  BY DEF TypeInv, TypeOK
<1>1. /\ mem \in [key : Keys, serial : Serials, subject : Subjects]
      /\ n \in Serials /\ n \in Nat /\ s \in Subjects /\ k \in Keys
      /\ plan = SignPlan(n, s, k, Entries)
      /\ Loads(IndexFile, "index")
      /\ disk[CaKey] = PrivateKey(k)
  BY BoundsAssumption DEF SignRun, Serials
<1>2. Len(plan) = 3 /\ pos \in 1 .. 3 /\ Done = pos - 1
  BY <1>1, CommitEffect DEF SignPlan
<1>3. /\ plan[1] = Write(SerialFile, Counter(n + 1))
      /\ plan[2] = Write(CertFile(n), Certificate(n, s, k))
      /\ plan[3] = Write(IndexFile, Index(Append(Entries, NewEntry(n, s))))
  BY <1>1 DEF SignPlan
<1>4. \A p, c : plan[pos] = Write(p, c) => Put(p, c)
  BY CommitEffect DEF Write
<1>5. pos < 3 => pc' = "commit" /\ op' = op /\ mem' = mem /\ plan' = plan /\ Done' = pos
  BY <1>2, CommitEffect
<1>6. pos < 3 /\ SignRun' => RunInv'
  BY <1>5 DEF RunInv
<1>7. pos = 3 => RunInv'
  BY <1>2, CommitEffect DEF Finish, RunInv
<1>8. /\ Entries \in Seq(IndexEntry) /\ Exists(IndexFile)
      /\ Entries = IndexEntries(disk)
  BY <1>f, <1>1, LoadedTypes, LoadsExists, IndexEntriesType
<1>9. CertFile(n) \in CertFiles /\ CertFile(n) \in Paths
  BY <1>1, KnownPaths
<1>10. CASE pos = 1
  <2>1. /\ Put(SerialFile, Counter(n + 1)) /\ disk[SerialFile] = Counter(n)
        /\ disk[CertFile(n)] = Absent
    BY <1>2, <1>3, <1>4, <1>10 DEF SignRun
  <2>2. /\ disk'[SerialFile] = Counter(n + 1) /\ disk'[CaKey] = disk[CaKey]
        /\ disk'[IndexFile] = disk[IndexFile] /\ disk'[CertFile(n)] = disk[CertFile(n)]
    BY <1>f, <1>9, <2>1, PutFrame, KnownPaths, FixedPathsDiffer, CertFilesDiffer
  <2>3. DiskInv'
    BY <1>f, <1>1, <2>1, SerialPut
  <2>4. SignRun'
    BY <1>1, <1>5, <1>10, <2>1, <2>2 DEF SignRun, Loads, Entries
  <2>5. QED
    BY <1>6, <1>10, <2>3, <2>4
<1>11. CASE pos = 2
  <2>1. /\ Put(CertFile(n), Certificate(n, s, k)) /\ disk[SerialFile] = Counter(n + 1)
        /\ disk[CertFile(n)] = Absent
    BY <1>2, <1>3, <1>4, <1>11 DEF SignRun
  <2>2. /\ disk'[CertFile(n)] = Certificate(n, s, k) /\ disk'[CaKey] = disk[CaKey]
        /\ disk'[IndexFile] = disk[IndexFile] /\ disk'[SerialFile] = disk[SerialFile]
    BY <1>f, <1>9, <2>1, PutFrame, KnownPaths, CertFilesDiffer
  <2>3. DiskInv'
    BY <1>f, <1>1, <1>8, <2>1, CertificatePut
  <2>4. SignRun'
    BY <1>1, <1>5, <1>11, <2>1, <2>2 DEF SignRun, Loads, Entries
  <2>5. QED
    BY <1>6, <1>11, <2>3, <2>4
<1>12. CASE pos = 3
  <2> DEFINE es == Append(Entries, NewEntry(n, s))
  <2>1. /\ Put(IndexFile, Index(es))
        /\ disk[CertFile(n)] = Certificate(n, s, k)
        /\ \A i \in DOMAIN Entries : Entries[i].serial < n
    BY <1>2, <1>3, <1>4, <1>12 DEF SignRun
  <2>2. es \in Seq(IndexEntry)
    BY <1>1, <1>8, NewEntryType
  <2>3. /\ DOMAIN es = 1 .. Len(Entries) + 1
        /\ \A i \in 1 .. Len(Entries) : es[i] = Entries[i]
        /\ es[Len(Entries) + 1] = NewEntry(n, s)
        /\ Len(Entries) \in Nat /\ DOMAIN Entries = 1 .. Len(Entries)
    BY <1>1, <1>8, NewEntryType
  <2>4. NewEntry(n, s).serial = n /\ NewEntry(n, s).subject = s
    BY DEF NewEntry
  <2>5. \A i \in DOMAIN es : /\ disk[CertFile(es[i].serial)].kind = "certificate"
                            /\ disk[CertFile(es[i].serial)].subject = es[i].subject
    <3>1. TAKE i \in DOMAIN es
    <3>2. CASE i = Len(Entries) + 1
      BY <2>1, <2>3, <2>4, <3>2, ContentFields
    <3>3. CASE i \in 1 .. Len(Entries)
      BY <1>8, <2>3, <3>3 DEF DiskInv, IndexedIsOnFile
    <3>4. QED
      BY <2>3, <3>2, <3>3
  <2>6. \A i, j \in DOMAIN es : i < j => es[i].serial < es[j].serial
    <3>1. SUFFICES ASSUME NEW i \in DOMAIN es, NEW j \in DOMAIN es, i < j
                   PROVE  es[i].serial < es[j].serial
      OBVIOUS
    <3>2. i \in 1 .. Len(Entries)
      BY <2>3, <3>1
    <3>3. CASE j = Len(Entries) + 1
      BY <2>1, <2>3, <2>4, <3>2, <3>3
    <3>4. CASE j \in 1 .. Len(Entries)
      BY <1>8, <2>3, <3>1, <3>2, <3>4 DEF DiskInv, SerialsAreFresh
    <3>5. QED
      BY <2>3, <3>3, <3>4
  <2>7. RevokedEntries(Entries) \subseteq RevokedEntries(es)
    BY <1>1, <1>8, AppendKeepsRevoked
  <2>8. DiskInv'
    BY <1>f, <1>8, <2>1, <2>2, <2>5, <2>6, <2>7, IndexPut
  <2>9. QED
    BY <1>7, <1>12, <2>8
<1>13. QED
  BY <1>2, <1>10, <1>11, <1>12

LEMMA RevokeCommitKeepsSafeInv ==
    ASSUME TypeInv, SafeInv, CommitRename, op = "revoke", RevokeRun
    PROVE  SafeInv'
<1> USE DEF SafeInv
<1> DEFINE i == mem.position
<1> DEFINE r == mem.reason
<1> DEFINE es == [Entries EXCEPT ![i] = MarkRevoked(Entries[i], r)]
<1>f. FilesOK
  BY DEF TypeInv, TypeOK
<1>1. /\ i \in DOMAIN Entries /\ r \in Reasons /\ Loads(IndexFile, "index")
      /\ Entries[i].status = "active"
      /\ plan = << Write(IndexFile, Index(es)) >>
  BY DEF RevokeRun, RevokePlan
<1>2. /\ Entries \in Seq(IndexEntry) /\ Exists(IndexFile)
      /\ Entries = IndexEntries(disk)
  BY <1>f, <1>1, LoadedTypes, LoadsExists, IndexEntriesType
<1>3. pos = 1 /\ Len(plan) = 1
  BY <1>1, CommitEffect
<1>4. Put(IndexFile, Index(es)) /\ Finish("ok")
  <2>1. plan[pos] = Write(IndexFile, Index(es))
    BY <1>1, <1>3
  <2>2. \A p, c : plan[pos] = Write(p, c) => Put(p, c)
    BY CommitEffect DEF Write
  <2>3. Put(IndexFile, Index(es))
    BY <2>1, <2>2
  <2>4. QED
    BY <1>3, <2>3, CommitEffect
<1>5. Entries[i] \in IndexEntry
  BY <1>1, <1>2
<1>6. es \in Seq(IndexEntry) /\ DOMAIN es = DOMAIN Entries
  BY <1>1, <1>2, <1>5, MarkRevokedType
<1>7. \A j \in DOMAIN es : /\ es[j].serial = Entries[j].serial
                          /\ es[j].subject = Entries[j].subject
  <2>1. TAKE j \in DOMAIN es
  <2>2. CASE j = i
    BY <1>1, <1>2, <1>5, <2>2, MarkRevokedType
  <2>3. CASE j # i
    BY <1>2, <1>6, <2>3
  <2>4. QED
    BY <2>2, <2>3
<1>8. \A j \in DOMAIN es : /\ disk[CertFile(es[j].serial)].kind = "certificate"
                          /\ disk[CertFile(es[j].serial)].subject = es[j].subject
  BY <1>2, <1>6, <1>7 DEF DiskInv, IndexedIsOnFile
<1>9. \A h, j \in DOMAIN es : h < j => es[h].serial < es[j].serial
  BY <1>2, <1>6, <1>7 DEF DiskInv, SerialsAreFresh
<1>10. RevokedEntries(Entries) \subseteq RevokedEntries(es)
  BY <1>1, <1>2, RevokeKeepsRevoked
<1>11. DiskInv'
  BY <1>f, <1>2, <1>4, <1>6, <1>8, <1>9, <1>10, IndexPut
<1>12. QED
  BY <1>4, <1>11, FinishKeepsSafeInv

LEMMA CRLCommitKeepsSafeInv ==
    ASSUME TypeInv, SafeInv, CommitRename, op = "crl", CRLRun
    PROVE  SafeInv'
<1> USE DEF SafeInv
<1> DEFINE k == mem.key
<1>f. FilesOK
  BY DEF TypeInv, TypeOK
<1>1. PICK m \in 1 .. MaxCRLNumber :
        disk[CrlNumberFile] = Counter(m) /\ plan = CRLPlan(m, mem.revoked, k)
  BY DEF CRLRun
<1>2. /\ mem \in [key : Keys, revoked : SUBSET CrlEntry] /\ k \in Keys /\ m \in Nat
      /\ disk[CaKey] = PrivateKey(k) /\ Loads(IndexFile, "index")
      /\ mem.revoked = RevokedEntries(Entries)
  BY BoundsAssumption DEF CRLRun
<1>3. Exists(IndexFile)
  BY <1>f, <1>2, LoadsExists
<1>4. /\ plan[1] = Write(CaCrl, Crl(m, RevokedEntries(Entries), k))
      /\ plan[2] = Write(CrlNumberFile, Counter(m + 1))
      /\ Len(plan) = 2
  BY <1>1, <1>2 DEF CRLPlan
<1>5. pos \in 1 .. 2
  BY <1>4, CommitEffect
<1>6. \A p, c : plan[pos] = Write(p, c) => Put(p, c)
  BY CommitEffect DEF Write
<1>7. CASE pos = 1
  <2>1. Put(CaCrl, Crl(m, RevokedEntries(Entries), k))
    BY <1>4, <1>6, <1>7
  <2>2. DiskInv'
    BY <1>f, <1>1, <1>2, <1>3, <2>1, CrlPut
  <2>3. /\ disk'[CaKey] = disk[CaKey] /\ disk'[IndexFile] = disk[IndexFile]
        /\ disk'[CrlNumberFile] = disk[CrlNumberFile]
    BY <1>f, <2>1, PutFrame, KnownPaths, FixedPathsDiffer
  <2>4. pc' = "commit" /\ op' = op /\ mem' = mem /\ plan' = plan
    BY <1>4, <1>7, CommitEffect
  <2>5. CRLRun'
    BY <1>1, <1>2, <2>3, <2>4 DEF CRLRun, Loads, Entries
  <2>6. RunInv'
    BY <2>4, <2>5 DEF RunInv
  <2>7. QED
    BY <2>2, <2>6
<1>8. CASE pos = 2
  <2>1. Put(CrlNumberFile, Counter(m + 1)) /\ Finish("ok")
    BY <1>4, <1>6, <1>8, CommitEffect
  <2>2. DiskInv'
    BY <1>f, <1>1, <1>2, <2>1, CrlNumberPut
  <2>3. QED
    BY <2>1, <2>2, FinishKeepsSafeInv
<1>9. QED
  BY <1>5, <1>7, <1>8

LEMMA CommitKeepsSafeInv ==
    ASSUME TypeInv, SafeInv, CommitRename
    PROVE  SafeInv'
<1>1. \/ op = "init" /\ InitRun
      \/ op = "sign" /\ SignRun
      \/ op = "revoke" /\ RevokeRun
      \/ op = "crl" /\ CRLRun
  BY CommitEffect DEF SafeInv, RunInv
<1>2. QED
  BY <1>1, InitCommitKeepsSafeInv, SignCommitKeepsSafeInv, RevokeCommitKeepsSafeInv,
     CRLCommitKeepsSafeInv

LEMMA CrashKeepsSafeInv ==
    ASSUME SafeInv, Crash
    PROVE  SafeInv'
<1>1. disk' = disk /\ Finish("crash")
  BY DEF Crash
<1>2. QED
  BY <1>1, DiskInvDependsOnDisk, FinishKeepsSafeInv DEF SafeInv

LEMMA StutterKeepsSafeInv ==
    ASSUME SafeInv, UNCHANGED vars
    PROVE  SafeInv'
<1>1. /\ disk' = disk /\ op' = op /\ pc' = pc /\ mem' = mem /\ plan' = plan /\ pos' = pos
      /\ Done' = Done
  BY DEF vars, Done
<1>2. /\ InitRun => InitRun'
      /\ SignRun => SignRun'
      /\ RevokeRun => RevokeRun'
      /\ CRLRun => CRLRun'
  BY <1>1 DEF InitRun, SignRun, RevokeRun, CRLRun, Exists, Loads, Entries
<1>3. RunInv'
  BY <1>1, <1>2 DEF SafeInv, RunInv, Exists, Loads, Entries
<1>4. QED
  BY <1>1, <1>3, DiskInvDependsOnDisk DEF SafeInv

LEMMA NextKeepsSafeInv == TypeInv /\ SafeInv /\ [Next]_vars => SafeInv'
BY OperatorKeepsSafeInv, PreparationKeepsSafeInv, CommitKeepsSafeInv, CrashKeepsSafeInv,
   StutterKeepsSafeInv DEF Next

(* Between any two steps the disk is one the next command can start from,  *)
(* and the running command relies on nothing that has changed since it     *)
(* read it: store.go renames file by file and rolls nothing back.          *)
THEOREM SafeInvariance == Spec => [](TypeInv /\ SafeInv)
BY SafeInvInit, NextKeepsSafeInv, TypeInvariance, PTL DEF Spec

----------------------------------------------------------------------------
(* The safety invariants *)

(* An indexed certificate is on file, with its subject, at every moment of *)
(* every command (the commit order of SignCSR).                            *)
THEOREM IndexedCertificates == Spec => []IndexedIsOnFile
<1>1. SafeInv => IndexedIsOnFile
  BY DEF SafeInv, DiskInv
<1>2. QED
  BY <1>1, SafeInvariance, PTL

(* The serial counter is ahead of every certificate ever placed, so that a *)
(* retry cannot use a number twice (SignCSR renames the counter first).    *)
THEOREM FreshSerials == Spec => []SerialsAreFresh
<1>1. SafeInv => SerialsAreFresh
  BY DEF SafeInv, DiskInv
<1>2. QED
  BY <1>1, SafeInvariance, PTL

(* Whatever the CA has signed is signed with the key it holds, a cut short *)
(* and repeated `ca init` included (the commit order of InitCA).           *)
THEOREM SignedByTheKey == Spec => []ChainOfTrust
<1>1. SafeInv => ChainOfTrust
  BY DEF SafeInv, DiskInv
<1>2. QED
  BY <1>1, SafeInvariance, PTL

(* A published list revokes only what the index has revoked, for the same  *)
(* reason, under a number the counter has reached (GenerateCRL).           *)
THEOREM ListsAgreeWithIndex == Spec => []CRLMatchesIndex
<1>1. SafeInv => CRLMatchesIndex
  BY DEF SafeInv, DiskInv
<1>2. QED
  BY <1>1, SafeInvariance, PTL

=============================================================================
