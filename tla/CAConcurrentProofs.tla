------------------------- MODULE CAConcurrentProofs -------------------------
(***************************************************************************)
(* The theorems about CAConcurrent, for all keys, subjects, reasons,       *)
(* bounds and faults.  Each writer keeps the invariant the proofs about    *)
(* CAStore give it, because no step of the other touches what it relies    *)
(* on: once there is an index the operator's commands and the job write    *)
(* different files, and before that the job writes none.                   *)
(***************************************************************************)
EXTENDS CAConcurrent, TLAPS

IssuerFacts == INSTANCE CAHistoryProofs WITH
    op <- iOp, pc <- iPc, mem <- iMem, plan <- iPlan, pos <- iPos,
    outcome <- iOutcome, before <- iBefore

JobFacts == INSTANCE CAHistoryProofs WITH
    op <- cOp, pc <- cPc, mem <- cMem, plan <- cPlan, pos <- cPos,
    outcome <- cOutcome, before <- cBefore

----------------------------------------------------------------------------
(* Every instance has its own names for the same things *)

(* The assumptions of the instantiated modules hold of these constants.    *)
LEMMA Assumptions ==
    /\ MaxSerial \in Nat /\ MaxSerial >= 2
    /\ MaxCRLNumber \in Nat /\ MaxCRLNumber >= 1
    /\ Reasons \subseteq DOMAIN IssuerFacts!ReasonCodes
    /\ Reasons \subseteq DOMAIN JobFacts!ReasonCodes
    /\ Faults \subseteq IssuerFacts!FaultKinds
    /\ Faults \subseteq JobFacts!FaultKinds
BY BoundsAssumption, ReasonsAssumption, FaultsAssumption
DEF ReasonCodes, IssuerFacts!ReasonCodes, JobFacts!ReasonCodes,
    Issuer!FaultKinds, IssuerFacts!FaultKinds, JobFacts!FaultKinds

(* The operator's steps are those CAStore's theorems are about. *)
LEMMA SameIssuerSteps ==
    /\ Issuer!Progress <=> IssuerFacts!Progress
    /\ Issuer!Crash <=> IssuerFacts!Crash
    /\ \A k : Issuer!BeginInit(k) <=> IssuerFacts!BeginInit(k)
    /\ \A csr : Issuer!BeginSign(csr) <=> IssuerFacts!BeginSign(csr)
    /\ \A n, r : Issuer!BeginRevoke(n, r) <=> IssuerFacts!BeginRevoke(n, r)
    /\ Issuer!RejectInit <=> IssuerFacts!RejectInit
    /\ \A csr : Issuer!RejectSign(csr) <=> IssuerFacts!RejectSign(csr)
    /\ \A n : Issuer!RejectRevoke(n) <=> IssuerFacts!RejectRevoke(n)
<1> USE DEF Issuer!CaKey, IssuerFacts!CaKey, Issuer!CaCrt, IssuerFacts!CaCrt, Issuer!SerialFile,
            IssuerFacts!SerialFile, Issuer!CrlNumberFile, IssuerFacts!CrlNumberFile,
            Issuer!IndexFile, IssuerFacts!IndexFile, Issuer!CaCrl, IssuerFacts!CaCrl,
            Issuer!Serials, IssuerFacts!Serials, Issuer!CertFile, IssuerFacts!CertFile,
            Issuer!CertFiles, IssuerFacts!CertFiles, Issuer!Paths, IssuerFacts!Paths,
            Issuer!Absent, IssuerFacts!Absent, Issuer!Torn, IssuerFacts!Torn, Issuer!NoReason,
            IssuerFacts!NoReason, Issuer!RootSubject, IssuerFacts!RootSubject, Issuer!PrivateKey,
            IssuerFacts!PrivateKey, Issuer!Certificate, IssuerFacts!Certificate, Issuer!Counter,
            IssuerFacts!Counter, Issuer!Index, IssuerFacts!Index, Issuer!Crl, IssuerFacts!Crl,
            Issuer!ReasonCodes, IssuerFacts!ReasonCodes, Issuer!ReasonCode,
            IssuerFacts!ReasonCode, Issuer!RevokedEntries, IssuerFacts!RevokedEntries,
            Issuer!PassesGate, IssuerFacts!PassesGate, Issuer!NewEntry, IssuerFacts!NewEntry,
            Issuer!MarkRevoked, IssuerFacts!MarkRevoked, Issuer!IsFirstMatch,
            IssuerFacts!IsFirstMatch, Issuer!Write, IssuerFacts!Write, Issuer!InitPlan,
            IssuerFacts!InitPlan, Issuer!SignPlan, IssuerFacts!SignPlan, Issuer!RevokePlan,
            IssuerFacts!RevokePlan, Issuer!CRLPlan, IssuerFacts!CRLPlan, Issuer!Nothing,
            IssuerFacts!Nothing, Issuer!Exists, IssuerFacts!Exists, Issuer!Loads,
            IssuerFacts!Loads, Issuer!IsInitialized, IssuerFacts!IsInitialized, Issuer!Entries,
            IssuerFacts!Entries, Issuer!SignInputsLoad, IssuerFacts!SignInputsLoad,
            Issuer!CRLInputsLoad, IssuerFacts!CRLInputsLoad, Issuer!Revocable,
            IssuerFacts!Revocable, Issuer!Idle, IssuerFacts!Idle, Issuer!data, IssuerFacts!data,
            Issuer!process, IssuerFacts!process, Issuer!Begin, IssuerFacts!Begin, Issuer!Prepare,
            IssuerFacts!Prepare, Issuer!Finish, IssuerFacts!Finish, Issuer!Reject,
            IssuerFacts!Reject, Issuer!Current, IssuerFacts!Current, Issuer!PlanPaths,
            IssuerFacts!PlanPaths, Issuer!AfterPartialWrite, IssuerFacts!AfterPartialWrite,
            Issuer!CleanUp, IssuerFacts!CleanUp
<1>1. Issuer!MakeDataDir <=> IssuerFacts!MakeDataDir
  BY DEF Issuer!MakeDataDir, IssuerFacts!MakeDataDir
<1>2. Issuer!MakeDataDirFails <=> IssuerFacts!MakeDataDirFails
  BY DEF Issuer!MakeDataDirFails, IssuerFacts!MakeDataDirFails
<1>3. Issuer!SignLoadIndex <=> IssuerFacts!SignLoadIndex
  BY DEF Issuer!SignLoadIndex, IssuerFacts!SignLoadIndex
<1>4. Issuer!SignLoadIndexFails <=> IssuerFacts!SignLoadIndexFails
  BY DEF Issuer!SignLoadIndexFails, IssuerFacts!SignLoadIndexFails
<1>5. Issuer!CRLLoadCounter <=> IssuerFacts!CRLLoadCounter
  BY DEF Issuer!CRLLoadCounter, IssuerFacts!CRLLoadCounter
<1>6. Issuer!StageWrite <=> IssuerFacts!StageWrite
  BY DEF Issuer!StageWrite, IssuerFacts!StageWrite
<1>7. Issuer!StageWriteFails <=> IssuerFacts!StageWriteFails
  BY DEF Issuer!StageWriteFails, IssuerFacts!StageWriteFails
<1>8. Issuer!CommitRename <=> IssuerFacts!CommitRename
  BY DEF Issuer!CommitRename, IssuerFacts!CommitRename
<1>9. Issuer!CommitRenameFails <=> IssuerFacts!CommitRenameFails
  BY DEF Issuer!CommitRenameFails, IssuerFacts!CommitRenameFails
<1>10. Issuer!Crash <=> IssuerFacts!Crash
  BY DEF Issuer!Crash, IssuerFacts!Crash
<1>11. \A k : Issuer!BeginInit(k) <=> IssuerFacts!BeginInit(k)
  BY DEF Issuer!BeginInit, IssuerFacts!BeginInit
<1>12. \A csr : Issuer!BeginSign(csr) <=> IssuerFacts!BeginSign(csr)
  BY DEF Issuer!BeginSign, IssuerFacts!BeginSign
<1>13. \A n, r : Issuer!BeginRevoke(n, r) <=> IssuerFacts!BeginRevoke(n, r)
  BY DEF Issuer!BeginRevoke, IssuerFacts!BeginRevoke
<1>14. Issuer!RejectInit <=> IssuerFacts!RejectInit
  BY DEF Issuer!RejectInit, IssuerFacts!RejectInit
<1>15. \A csr : Issuer!RejectSign(csr) <=> IssuerFacts!RejectSign(csr)
  BY DEF Issuer!RejectSign, IssuerFacts!RejectSign
<1>16. \A n : Issuer!RejectRevoke(n) <=> IssuerFacts!RejectRevoke(n)
  BY DEF Issuer!RejectRevoke, IssuerFacts!RejectRevoke
<1>17. Issuer!Progress <=> IssuerFacts!Progress
  BY <1>1, <1>2, <1>3, <1>4, <1>5, <1>6, <1>7, <1>8, <1>9 DEF Issuer!Progress, IssuerFacts!Progress
<1>18. QED
  BY <1>10, <1>11, <1>12, <1>13, <1>14, <1>15, <1>16, <1>17

(* So are the job's. *)
LEMMA SameJobSteps ==
    /\ CrlJob!Progress <=> JobFacts!Progress
    /\ CrlJob!Crash <=> JobFacts!Crash
    /\ CrlJob!BeginCRL <=> JobFacts!BeginCRL
    /\ CrlJob!RejectCRL <=> JobFacts!RejectCRL
<1> USE DEF CrlJob!CaKey, JobFacts!CaKey, CrlJob!CaCrt, JobFacts!CaCrt, CrlJob!SerialFile,
            JobFacts!SerialFile, CrlJob!CrlNumberFile, JobFacts!CrlNumberFile, CrlJob!IndexFile,
            JobFacts!IndexFile, CrlJob!CaCrl, JobFacts!CaCrl, CrlJob!Serials, JobFacts!Serials,
            CrlJob!CertFile, JobFacts!CertFile, CrlJob!CertFiles, JobFacts!CertFiles,
            CrlJob!Paths, JobFacts!Paths, CrlJob!Absent, JobFacts!Absent, CrlJob!Torn,
            JobFacts!Torn, CrlJob!NoReason, JobFacts!NoReason, CrlJob!RootSubject,
            JobFacts!RootSubject, CrlJob!PrivateKey, JobFacts!PrivateKey, CrlJob!Certificate,
            JobFacts!Certificate, CrlJob!Counter, JobFacts!Counter, CrlJob!Index, JobFacts!Index,
            CrlJob!Crl, JobFacts!Crl, CrlJob!ReasonCodes, JobFacts!ReasonCodes, CrlJob!ReasonCode,
            JobFacts!ReasonCode, CrlJob!RevokedEntries, JobFacts!RevokedEntries,
            CrlJob!PassesGate, JobFacts!PassesGate, CrlJob!NewEntry, JobFacts!NewEntry,
            CrlJob!MarkRevoked, JobFacts!MarkRevoked, CrlJob!IsFirstMatch, JobFacts!IsFirstMatch,
            CrlJob!Write, JobFacts!Write, CrlJob!InitPlan, JobFacts!InitPlan, CrlJob!SignPlan,
            JobFacts!SignPlan, CrlJob!RevokePlan, JobFacts!RevokePlan, CrlJob!CRLPlan,
            JobFacts!CRLPlan, CrlJob!Nothing, JobFacts!Nothing, CrlJob!Exists, JobFacts!Exists,
            CrlJob!Loads, JobFacts!Loads, CrlJob!IsInitialized, JobFacts!IsInitialized,
            CrlJob!Entries, JobFacts!Entries, CrlJob!SignInputsLoad, JobFacts!SignInputsLoad,
            CrlJob!CRLInputsLoad, JobFacts!CRLInputsLoad, CrlJob!Revocable, JobFacts!Revocable,
            CrlJob!Idle, JobFacts!Idle, CrlJob!data, JobFacts!data, CrlJob!process,
            JobFacts!process, CrlJob!Begin, JobFacts!Begin, CrlJob!Prepare, JobFacts!Prepare,
            CrlJob!Finish, JobFacts!Finish, CrlJob!Reject, JobFacts!Reject, CrlJob!Current,
            JobFacts!Current, CrlJob!PlanPaths, JobFacts!PlanPaths, CrlJob!AfterPartialWrite,
            JobFacts!AfterPartialWrite, CrlJob!CleanUp, JobFacts!CleanUp
<1>1. CrlJob!MakeDataDir <=> JobFacts!MakeDataDir
  BY DEF CrlJob!MakeDataDir, JobFacts!MakeDataDir
<1>2. CrlJob!MakeDataDirFails <=> JobFacts!MakeDataDirFails
  BY DEF CrlJob!MakeDataDirFails, JobFacts!MakeDataDirFails
<1>3. CrlJob!SignLoadIndex <=> JobFacts!SignLoadIndex
  BY DEF CrlJob!SignLoadIndex, JobFacts!SignLoadIndex
<1>4. CrlJob!SignLoadIndexFails <=> JobFacts!SignLoadIndexFails
  BY DEF CrlJob!SignLoadIndexFails, JobFacts!SignLoadIndexFails
<1>5. CrlJob!CRLLoadCounter <=> JobFacts!CRLLoadCounter
  BY DEF CrlJob!CRLLoadCounter, JobFacts!CRLLoadCounter
<1>6. CrlJob!StageWrite <=> JobFacts!StageWrite
  BY DEF CrlJob!StageWrite, JobFacts!StageWrite
<1>7. CrlJob!StageWriteFails <=> JobFacts!StageWriteFails
  BY DEF CrlJob!StageWriteFails, JobFacts!StageWriteFails
<1>8. CrlJob!CommitRename <=> JobFacts!CommitRename
  BY DEF CrlJob!CommitRename, JobFacts!CommitRename
<1>9. CrlJob!CommitRenameFails <=> JobFacts!CommitRenameFails
  BY DEF CrlJob!CommitRenameFails, JobFacts!CommitRenameFails
<1>10. CrlJob!Crash <=> JobFacts!Crash
  BY DEF CrlJob!Crash, JobFacts!Crash
<1>11. CrlJob!BeginCRL <=> JobFacts!BeginCRL
  BY DEF CrlJob!BeginCRL, JobFacts!BeginCRL
<1>12. CrlJob!RejectCRL <=> JobFacts!RejectCRL
  BY DEF CrlJob!RejectCRL, JobFacts!RejectCRL
<1>13. CrlJob!Progress <=> JobFacts!Progress
  BY <1>1, <1>2, <1>3, <1>4, <1>5, <1>6, <1>7, <1>8, <1>9 DEF CrlJob!Progress, JobFacts!Progress
<1>14. QED
  BY <1>10, <1>11, <1>12, <1>13

LEMMA SamePaths ==
    /\ IssuerFacts!Paths = Paths /\ JobFacts!Paths = Paths
    /\ IssuerFacts!CertFiles = CertFiles
    /\ IssuerFacts!IndexFile = IndexFile /\ JobFacts!IndexFile = IndexFile
    /\ IssuerFacts!CrlNumberFile = CrlNumberFile /\ JobFacts!CrlNumberFile = CrlNumberFile
    /\ IssuerFacts!CaCrl = CaCrl /\ JobFacts!CaCrl = CaCrl
    /\ JobFacts!CaKey = CaKey
    /\ IssuerFacts!IssuerFiles = {SerialFile, IndexFile} \cup CertFiles
    /\ JobFacts!CrlFilesOnly = {CaCrl, CrlNumberFile}
    /\ IssuerFacts!CrlFilesOnly = {CaCrl, CrlNumberFile}
    /\ {CaKey, CrlNumberFile, IndexFile, CaCrl} \subseteq Paths
    /\ CertFiles \subseteq Paths
    /\ {CaKey, CrlNumberFile, CaCrl} \cap ({SerialFile, IndexFile} \cup CertFiles) = {}
BY DEF IssuerFacts!CaKey, JobFacts!CaKey, IssuerFacts!CaCrt, JobFacts!CaCrt,
       IssuerFacts!SerialFile, JobFacts!SerialFile, IssuerFacts!CrlNumberFile,
       JobFacts!CrlNumberFile, IssuerFacts!IndexFile, JobFacts!IndexFile, IssuerFacts!CaCrl,
       JobFacts!CaCrl, IssuerFacts!Serials, JobFacts!Serials, IssuerFacts!CertFile,
       JobFacts!CertFile, IssuerFacts!CertFiles, JobFacts!CertFiles, IssuerFacts!Paths,
       JobFacts!Paths,
       IssuerFacts!IssuerFiles, IssuerFacts!CrlFilesOnly, JobFacts!CrlFilesOnly,
       CaKey, CaCrt, SerialFile, CrlNumberFile, IndexFile, CaCrl, Serials, CertFile, CertFiles,
       Paths

LEMMA SameFormats ==
    /\ \A p, c : JobFacts!Fits(p, c) <=> IssuerFacts!Fits(p, c)
    /\ \A p, c : Issuer!Fits(p, c) <=> IssuerFacts!Fits(p, c)
    /\ Issuer!Paths = Paths
    /\ Issuer!Absent = IssuerFacts!Absent /\ JobFacts!Absent = IssuerFacts!Absent
    /\ Issuer!Torn = IssuerFacts!Torn /\ JobFacts!Torn = IssuerFacts!Torn
<1> USE DEF Issuer!CaKey, IssuerFacts!CaKey, JobFacts!CaKey, Issuer!CaCrt, IssuerFacts!CaCrt,
            JobFacts!CaCrt, Issuer!SerialFile, IssuerFacts!SerialFile, JobFacts!SerialFile,
            Issuer!CrlNumberFile, IssuerFacts!CrlNumberFile, JobFacts!CrlNumberFile,
            Issuer!IndexFile, IssuerFacts!IndexFile, JobFacts!IndexFile, Issuer!CaCrl,
            IssuerFacts!CaCrl, JobFacts!CaCrl, Issuer!Serials, IssuerFacts!Serials,
            JobFacts!Serials, Issuer!CertFile, IssuerFacts!CertFile, JobFacts!CertFile,
            Issuer!CertFiles, IssuerFacts!CertFiles, JobFacts!CertFiles, Issuer!Paths,
            IssuerFacts!Paths, JobFacts!Paths, Issuer!Absent, IssuerFacts!Absent, JobFacts!Absent,
            Issuer!Torn, IssuerFacts!Torn, JobFacts!Torn, Issuer!RootSubject,
            IssuerFacts!RootSubject, JobFacts!RootSubject, Issuer!NoReason, IssuerFacts!NoReason,
            JobFacts!NoReason, Issuer!PrivateKey, IssuerFacts!PrivateKey, JobFacts!PrivateKey,
            Issuer!Certificate, IssuerFacts!Certificate, JobFacts!Certificate, Issuer!Counter,
            IssuerFacts!Counter, JobFacts!Counter
<1>1. /\ Issuer!IndexEntry = IssuerFacts!IndexEntry
      /\ JobFacts!IndexEntry = IssuerFacts!IndexEntry
  BY DEF Issuer!IndexEntry, IssuerFacts!IndexEntry, JobFacts!IndexEntry
<1>2. /\ Issuer!CrlEntry = IssuerFacts!CrlEntry
      /\ JobFacts!CrlEntry = IssuerFacts!CrlEntry
  BY DEF Issuer!CrlEntry, IssuerFacts!CrlEntry, JobFacts!CrlEntry, Issuer!ReasonCodes,
         IssuerFacts!ReasonCodes, JobFacts!ReasonCodes
<1>3. /\ Issuer!IndexFiles = IssuerFacts!IndexFiles
      /\ JobFacts!IndexFiles = IssuerFacts!IndexFiles
  BY <1>1 DEF Issuer!IndexFiles, IssuerFacts!IndexFiles, JobFacts!IndexFiles
<1>4. /\ Issuer!CrlFiles = IssuerFacts!CrlFiles
      /\ JobFacts!CrlFiles = IssuerFacts!CrlFiles
  BY <1>2 DEF Issuer!CrlFiles, IssuerFacts!CrlFiles, JobFacts!CrlFiles
<1>5. \A n : /\ Issuer!CertificateFiles(n) = IssuerFacts!CertificateFiles(n)
             /\ JobFacts!CertificateFiles(n) = IssuerFacts!CertificateFiles(n)
  BY DEF Issuer!CertificateFiles, IssuerFacts!CertificateFiles, JobFacts!CertificateFiles
<1>6. /\ Issuer!KeyFiles = IssuerFacts!KeyFiles /\ JobFacts!KeyFiles = IssuerFacts!KeyFiles
      /\ Issuer!RootFiles = IssuerFacts!RootFiles /\ JobFacts!RootFiles = IssuerFacts!RootFiles
      /\ Issuer!SerialFiles = IssuerFacts!SerialFiles
      /\ JobFacts!SerialFiles = IssuerFacts!SerialFiles
      /\ Issuer!CrlNumberFiles = IssuerFacts!CrlNumberFiles
      /\ JobFacts!CrlNumberFiles = IssuerFacts!CrlNumberFiles
  BY DEF Issuer!KeyFiles, IssuerFacts!KeyFiles, JobFacts!KeyFiles, Issuer!RootFiles,
         IssuerFacts!RootFiles, JobFacts!RootFiles, Issuer!SerialFiles, IssuerFacts!SerialFiles,
         JobFacts!SerialFiles, Issuer!CrlNumberFiles, IssuerFacts!CrlNumberFiles,
         JobFacts!CrlNumberFiles
<1>7. \A p, c : JobFacts!Fits(p, c) <=> IssuerFacts!Fits(p, c)
  BY <1>3, <1>4, <1>5, <1>6 DEF JobFacts!Fits, IssuerFacts!Fits
<1>8. \A p, c : Issuer!Fits(p, c) <=> IssuerFacts!Fits(p, c)
  BY <1>3, <1>4, <1>5, <1>6 DEF Issuer!Fits, IssuerFacts!Fits
<1>9. Issuer!Paths = Paths
  BY DEF CaKey, CaCrt, SerialFile, CrlNumberFile, IndexFile, CaCrl, Serials, CertFile, CertFiles,
         Paths
<1>10. /\ Issuer!Absent = IssuerFacts!Absent /\ JobFacts!Absent = IssuerFacts!Absent
       /\ Issuer!Torn = IssuerFacts!Torn /\ JobFacts!Torn = IssuerFacts!Torn
  OBVIOUS
<1>11. QED
  BY <1>7, <1>8, <1>9, <1>10

LEMMA SameFilesOK ==
    /\ Issuer!FilesOK <=> IssuerFacts!FilesOK
    /\ JobFacts!FilesOK <=> IssuerFacts!FilesOK
    /\ JobFacts!FilesOK' <=> IssuerFacts!FilesOK'
BY SamePaths, SameFormats DEF Issuer!FilesOK, IssuerFacts!FilesOK, JobFacts!FilesOK

LEMMA SameReads ==
    /\ \A p : /\ Issuer!Exists(p) <=> IssuerFacts!Exists(p)
              /\ JobFacts!Exists(p) <=> IssuerFacts!Exists(p)
              /\ JobFacts!Exists(p)' <=> IssuerFacts!Exists(p)'
              /\ Issuer!Exists(p)' <=> IssuerFacts!Exists(p)'
    /\ \A d : /\ Issuer!IndexEntries(d) = IssuerFacts!IndexEntries(d)
              /\ JobFacts!IndexEntries(d) = IssuerFacts!IndexEntries(d)
    /\ \A es : /\ Issuer!RevokedEntries(es) = IssuerFacts!RevokedEntries(es)
               /\ JobFacts!RevokedEntries(es) = IssuerFacts!RevokedEntries(es)
BY SameFormats
DEF Issuer!Exists, IssuerFacts!Exists, JobFacts!Exists, Issuer!IndexFile, IssuerFacts!IndexFile,
    JobFacts!IndexFile, Issuer!IndexEntries, IssuerFacts!IndexEntries, JobFacts!IndexEntries,
    Issuer!ReasonCodes, IssuerFacts!ReasonCodes, JobFacts!ReasonCodes, Issuer!ReasonCode,
    IssuerFacts!ReasonCode, JobFacts!ReasonCode, Issuer!RevokedEntries,
    IssuerFacts!RevokedEntries, JobFacts!RevokedEntries

LEMMA SameInvariants ==
    /\ JobFacts!DiskInv <=> IssuerFacts!DiskInv
    /\ JobFacts!DiskInv' <=> IssuerFacts!DiskInv'
    /\ IssuerFacts!DiskInv => SafeTogether
<1> USE DEF Issuer!CaKey, IssuerFacts!CaKey, JobFacts!CaKey, Issuer!CaCrt, IssuerFacts!CaCrt,
            JobFacts!CaCrt, Issuer!SerialFile, IssuerFacts!SerialFile, JobFacts!SerialFile,
            Issuer!CrlNumberFile, IssuerFacts!CrlNumberFile, JobFacts!CrlNumberFile,
            Issuer!IndexFile, IssuerFacts!IndexFile, JobFacts!IndexFile, Issuer!CaCrl,
            IssuerFacts!CaCrl, JobFacts!CaCrl, Issuer!Serials, IssuerFacts!Serials,
            JobFacts!Serials, Issuer!CertFile, IssuerFacts!CertFile, JobFacts!CertFile,
            Issuer!CertFiles, IssuerFacts!CertFiles, JobFacts!CertFiles, Issuer!Absent,
            IssuerFacts!Absent, JobFacts!Absent, Issuer!ReasonCodes, IssuerFacts!ReasonCodes,
            JobFacts!ReasonCodes, Issuer!ReasonCode, IssuerFacts!ReasonCode, JobFacts!ReasonCode,
            Issuer!RevokedEntries, IssuerFacts!RevokedEntries, JobFacts!RevokedEntries,
            Issuer!Exists, IssuerFacts!Exists, JobFacts!Exists, Issuer!Loads, IssuerFacts!Loads,
            JobFacts!Loads, Issuer!IndexEntries, IssuerFacts!IndexEntries, JobFacts!IndexEntries
<1>1. /\ JobFacts!InCommitOrder <=> IssuerFacts!InCommitOrder
      /\ JobFacts!InCommitOrder' <=> IssuerFacts!InCommitOrder'
  BY DEF JobFacts!InCommitOrder, IssuerFacts!InCommitOrder
<1>2. /\ JobFacts!ChainOfTrust <=> IssuerFacts!ChainOfTrust
      /\ JobFacts!ChainOfTrust' <=> IssuerFacts!ChainOfTrust'
      /\ Issuer!ChainOfTrust <=> IssuerFacts!ChainOfTrust
  BY DEF JobFacts!ChainOfTrust, IssuerFacts!ChainOfTrust, Issuer!ChainOfTrust
<1>3. /\ JobFacts!IndexedIsOnFile <=> IssuerFacts!IndexedIsOnFile
      /\ JobFacts!IndexedIsOnFile' <=> IssuerFacts!IndexedIsOnFile'
      /\ Issuer!IndexedIsOnFile <=> IssuerFacts!IndexedIsOnFile
  BY DEF JobFacts!IndexedIsOnFile, IssuerFacts!IndexedIsOnFile, Issuer!IndexedIsOnFile
<1>4. /\ JobFacts!SerialsAreFresh <=> IssuerFacts!SerialsAreFresh
      /\ JobFacts!SerialsAreFresh' <=> IssuerFacts!SerialsAreFresh'
      /\ Issuer!SerialsAreFresh <=> IssuerFacts!SerialsAreFresh
  BY DEF JobFacts!SerialsAreFresh, IssuerFacts!SerialsAreFresh, Issuer!SerialsAreFresh
<1>5. /\ JobFacts!CRLMatchesIndex <=> IssuerFacts!CRLMatchesIndex
      /\ JobFacts!CRLMatchesIndex' <=> IssuerFacts!CRLMatchesIndex'
      /\ Issuer!CRLMatchesIndex <=> IssuerFacts!CRLMatchesIndex
  BY DEF JobFacts!CRLMatchesIndex, IssuerFacts!CRLMatchesIndex, Issuer!CRLMatchesIndex
<1>6. QED
  BY <1>1, <1>2, <1>3, <1>4, <1>5 DEF JobFacts!DiskInv, IssuerFacts!DiskInv, SafeTogether

----------------------------------------------------------------------------
(* The invariant: each writer keeps the one it has alone, but for the job, *)
(* which may find the index grown since it read it.                        *)

WritersInv ==
    /\ IssuerFacts!TypeInv
    /\ IssuerFacts!SafeInv
    /\ iOp \in {"none", "init", "sign", "revoke"}
    /\ JobFacts!TypeInv
    /\ JobFacts!JobRun
    /\ cOp \in {"none", "crl"}

LEMMA IssuerMoves ==
    ASSUME IssuerStarts \/ IssuerSteps \/ IssuerCrashes
    PROVE  /\ IssuerFacts!IssuerStep
           /\ IssuerFacts!Next
           /\ UNCHANGED <<crlJob, verifier>>
<1>1. IssuerFacts!CSR = CSR /\ IssuerFacts!Serials = Serials
  BY DEF IssuerFacts!CSR, CSR, IssuerFacts!Serials, Serials
<1>2. IssuerFacts!IssuerStep
  BY <1>1, SameIssuerSteps DEF IssuerStarts, IssuerSteps, IssuerCrashes, IssuerFacts!IssuerStep
<1>3. IssuerFacts!Next
  BY <1>2, Assumptions, IssuerFacts!IssuerStepsAreSteps
<1>4. QED
  BY <1>2, <1>3 DEF IssuerStarts, IssuerSteps, IssuerCrashes

LEMMA JobMoves ==
    ASSUME CrlJobStarts \/ CrlJobSteps \/ CrlJobCrashes
    PROVE  /\ JobFacts!JobStep
           /\ JobFacts!Next
           /\ UNCHANGED <<issuer, verifier>>
<1>1. JobFacts!JobStep
  BY SameJobSteps DEF CrlJobStarts, CrlJobSteps, CrlJobCrashes, JobFacts!JobStep
<1>2. JobFacts!Next
  BY <1>1, Assumptions, JobFacts!JobStepsAreSteps
<1>3. QED
  BY <1>1, <1>2 DEF CrlJobStarts, CrlJobSteps, CrlJobCrashes

(* While the job is at work there is an index.                             *)
LEMMA JobNeedsIndex ==
    ASSUME WritersInv, cPc # "idle"
    PROVE  IssuerFacts!Exists(IndexFile)
BY SamePaths, SameReads DEF WritersInv, JobFacts!JobRun

LEMMA IssuerBesideJob ==
    ASSUME WritersInv, IssuerStarts \/ IssuerSteps \/ IssuerCrashes
    PROVE  WritersInv'
<1>1. /\ IssuerFacts!TypeInv /\ IssuerFacts!SafeInv /\ iOp # "crl"
      /\ JobFacts!TypeInv /\ JobFacts!JobRun
      /\ IssuerFacts!IssuerStep /\ [IssuerFacts!Next]_(IssuerFacts!vars)
      /\ UNCHANGED JobFacts!process /\ cOutcome' = cOutcome /\ cOp' = cOp
  BY IssuerMoves DEF WritersInv, crlJob, JobFacts!process
<1>2. IssuerFacts!TypeInv' /\ IssuerFacts!SafeInv'
  BY <1>1, Assumptions, IssuerFacts!NextKeepsTypeInv, IssuerFacts!NextKeepsSafeInv
<1>3. iOp' \in {"none", "init", "sign", "revoke"}
  BY <1>1, Assumptions, IssuerFacts!ProcessesKeepTheirCommand DEF WritersInv
<1>4. JobFacts!FilesOK'
  BY <1>2, SameFilesOK DEF IssuerFacts!TypeInv, IssuerFacts!TypeOK
<1>5. ASSUME cPc # "idle"
      PROVE  /\ \A p \in Paths \ IssuerFacts!IssuerFiles : disk'[p] = disk[p]
             /\ IssuerFacts!Exists(IndexFile)'
             /\ \A p \in Paths \ IssuerFacts!IssuerFiles : tmp'[p] = tmp[p]
             /\ IssuerFacts!RevokedEntries(IssuerFacts!IndexEntries(disk)) \subseteq
                    IssuerFacts!RevokedEntries(IssuerFacts!IndexEntries(disk'))
  <2>1. IssuerFacts!Exists(IssuerFacts!IndexFile)
    BY <1>5, JobNeedsIndex, SamePaths
  <2>2. /\ \A p \in IssuerFacts!Paths \ IssuerFacts!IssuerFiles : disk'[p] = disk[p]
        /\ IssuerFacts!Exists(IssuerFacts!IndexFile)'
    BY <1>1, <2>1, Assumptions, IssuerFacts!IssuerTouches
  <2>3. IssuerFacts!PlanIsSequence
    BY <1>1, Assumptions, IssuerFacts!PlanDomain
  <2>4. iPc \in {"stage", "commit"} => IssuerFacts!PlanPaths \subseteq IssuerFacts!IssuerFiles
    BY <1>1, <2>1, Assumptions, IssuerFacts!IssuerPlanPaths
  <2>5. \A p \in IssuerFacts!Paths \ IssuerFacts!IssuerFiles : tmp'[p] = tmp[p]
    BY <1>1, <2>3, <2>4, Assumptions, IssuerFacts!OwnTemporaries
  <2>6. IssuerFacts!RevokedEntries(IssuerFacts!IndexEntries(disk)) \subseteq
            IssuerFacts!RevokedEntries(IssuerFacts!IndexEntries(disk'))
    BY <1>1, Assumptions, IssuerFacts!StepsExtendTheIndex, IssuerFacts!ExtendsKeepsRevoked
  <2>7. QED
    BY <2>2, <2>5, <2>6, SamePaths
<1>6. /\ JobFacts!PlanIsSequence
      /\ cPc \in {"stage", "commit"} => JobFacts!PlanPaths = {CaCrl, CrlNumberFile}
  BY <1>1, Assumptions, JobFacts!JobPlan, SamePaths
<1>7. JobFacts!TypeInv'
  <2>1. cPc = "loadCounter" => disk'[JobFacts!CrlNumberFile] = disk[JobFacts!CrlNumberFile]
    BY <1>5, SamePaths
  <2>2. cPc \in {"stage", "commit"} => \A p \in JobFacts!PlanPaths : tmp'[p] = tmp[p]
    BY <1>5, <1>6, SamePaths
  <2>3. QED
    BY <1>1, <1>4, <1>6, <2>1, <2>2, Assumptions, JobFacts!OthersKeepTypeInv
<1>8. JobFacts!JobRun'
  <2>1. cPc # "idle" =>
          /\ \A p \in {JobFacts!CaKey, JobFacts!CrlNumberFile, JobFacts!CaCrl} : disk'[p] = disk[p]
          /\ JobFacts!Exists(JobFacts!IndexFile)'
          /\ JobFacts!RevokedEntries(JobFacts!IndexEntries(disk)) \subseteq
                JobFacts!RevokedEntries(JobFacts!IndexEntries(disk'))
    BY <1>5, SamePaths, SameReads
  <2>2. QED
    BY <1>1, <2>1, Assumptions, JobFacts!OthersKeepJobRun
<1>9. QED
  BY <1>1, <1>2, <1>3, <1>7, <1>8 DEF WritersInv

LEMMA JobBesideIssuer ==
    ASSUME WritersInv, CrlJobStarts \/ CrlJobSteps \/ CrlJobCrashes
    PROVE  WritersInv' /\ JobFacts!JobEffect
<1>1. /\ IssuerFacts!TypeInv /\ IssuerFacts!SafeInv /\ iOp # "crl"
      /\ JobFacts!TypeInv /\ JobFacts!JobRun
      /\ JobFacts!JobStep /\ [JobFacts!Next]_(JobFacts!vars)
      /\ UNCHANGED IssuerFacts!process /\ iOutcome' = iOutcome /\ iOp' = iOp
  BY JobMoves DEF WritersInv, issuer, IssuerFacts!process
<1>2. JobFacts!DiskInv /\ IssuerFacts!RunInv
  BY <1>1, SameInvariants DEF IssuerFacts!SafeInv
<1>3. JobFacts!TypeInv'
  BY <1>1, Assumptions, JobFacts!NextKeepsTypeInv
<1>4. JobFacts!DiskInv' /\ JobFacts!JobRun' /\ JobFacts!JobEffect
  BY <1>1, <1>2, Assumptions, JobFacts!JobKeepsInv
<1>5. cOp' \in {"none", "crl"}
  BY <1>1, Assumptions, JobFacts!ProcessesKeepTheirCommand DEF WritersInv
<1>6. IssuerFacts!FilesOK'
  BY <1>3, SameFilesOK DEF JobFacts!TypeInv, JobFacts!TypeOK
<1>7. IssuerFacts!PlanIsSequence
  BY <1>1, Assumptions, IssuerFacts!PlanDomain
<1>8. ASSUME iPc \in {"stage", "commit"}, NEW p \in IssuerFacts!PlanPaths
      PROVE  tmp'[p] = tmp[p]
  <2>1. p \in JobFacts!Paths
    BY <1>1, <1>7, <1>8, Assumptions, IssuerFacts!PlanPathsKnown, SamePaths
  <2>2. cPc \in {"stage", "commit"} => p \notin JobFacts!PlanPaths
    <3>1. SUFFICES ASSUME cPc \in {"stage", "commit"} PROVE p \notin JobFacts!PlanPaths
      OBVIOUS
    <3>2. IssuerFacts!Exists(IssuerFacts!IndexFile)
      BY <3>1, JobNeedsIndex, SamePaths
    <3>3. p \in IssuerFacts!IssuerFiles
      BY <1>1, <1>8, <3>2, Assumptions, IssuerFacts!IssuerPlanPaths
    <3>4. JobFacts!PlanPaths = {CaCrl, CrlNumberFile}
      BY <1>1, <3>1, Assumptions, JobFacts!JobPlan, SamePaths
    <3>5. QED
      BY <3>3, <3>4, SamePaths
  <2>3. JobFacts!PlanIsSequence
    BY <1>1, Assumptions, JobFacts!JobPlan
  <2>4. QED
    BY <1>1, <2>1, <2>2, <2>3, Assumptions, JobFacts!OwnTemporaries
<1>9. IssuerFacts!TypeInv'
  <2>1. iPc # "loadCounter"
    BY <1>1, <1>2 DEF IssuerFacts!RunInv
  <2>2. QED
    BY <1>1, <1>6, <1>7, <1>8, <2>1, Assumptions, IssuerFacts!OthersKeepTypeInv
<1>10. IssuerFacts!SafeInv'
  <2>1. /\ \A p \in IssuerFacts!Paths \ IssuerFacts!CrlFilesOnly : disk'[p] = disk[p]
        /\ IssuerFacts!Exists(IssuerFacts!IndexFile) \/ disk' = disk
    BY <1>4, SamePaths, SameReads DEF JobFacts!JobEffect
  <2>2. IssuerFacts!RunInv'
    BY <1>1, <1>2, <2>1, Assumptions, IssuerFacts!JobKeepsRunInv
  <2>3. QED
    BY <1>4, <2>2, SameInvariants DEF IssuerFacts!SafeInv
<1>11. QED
  BY <1>1, <1>3, <1>4, <1>5, <1>9, <1>10 DEF WritersInv

----------------------------------------------------------------------------
(* What no step of anyone does to the files *)

LEMMA StepsKeepFiles ==
    ASSUME WritersInv, [Next]_vars
    PROVE  /\ IssuerFacts!Extends(IssuerFacts!IndexEntries(disk'), IssuerFacts!IndexEntries(disk))
           /\ \A p \in CertFiles : IssuerFacts!Exists(p) => disk'[p] = disk[p]
           /\ IssuerFacts!Exists(CaCrl) =>
                /\ IssuerFacts!Exists(CaCrl)'
                /\ disk[CaCrl].revoked \subseteq disk'[CaCrl].revoked
                /\ disk[CaCrl].number <= disk'[CaCrl].number
<1>1. /\ IssuerFacts!TypeInv /\ IssuerFacts!SafeInv /\ iOp # "crl" /\ IssuerFacts!FilesOK
  BY DEF WritersInv, IssuerFacts!TypeInv, IssuerFacts!TypeOK
<1>2. IssuerFacts!Exists(CaCrl) => disk[CaCrl].number \in Nat
  BY <1>1, Assumptions, IssuerFacts!ExistsLoads, SamePaths DEF IssuerFacts!CrlFiles
<1>3. CASE disk' = disk
  BY <1>2, <1>3 DEF IssuerFacts!Extends, IssuerFacts!Exists
<1>4. CASE IssuerStarts \/ IssuerSteps \/ IssuerCrashes
  <2>1. [IssuerFacts!Next]_(IssuerFacts!vars)
    BY <1>4, IssuerMoves
  <2>2. IssuerFacts!Extends(IssuerFacts!IndexEntries(disk'), IssuerFacts!IndexEntries(disk))
    BY <1>1, <2>1, Assumptions, IssuerFacts!StepsExtendTheIndex
  <2>3. \A p \in CertFiles : IssuerFacts!Exists(p) => disk'[p] = disk[p]
    BY <1>1, <2>1, Assumptions, IssuerFacts!StepsKeepCertificates, SamePaths
  <2>4. IssuerFacts!Exists(CaCrl) => disk'[CaCrl] = disk[CaCrl]
    <3>1. SUFFICES ASSUME IssuerFacts!Exists(CaCrl) PROVE disk'[CaCrl] = disk[CaCrl]
      OBVIOUS
    <3>2. IssuerFacts!Exists(IssuerFacts!IndexFile)
      BY <1>1, <3>1, SamePaths
      DEF IssuerFacts!SafeInv, IssuerFacts!DiskInv, IssuerFacts!InCommitOrder
    <3>3. \A p \in IssuerFacts!Paths \ IssuerFacts!IssuerFiles : disk'[p] = disk[p]
      BY <1>1, <2>1, <3>2, Assumptions, IssuerFacts!IssuerTouches
    <3>4. QED
      BY <3>3, SamePaths
  <2>5. QED
    BY <1>2, <2>2, <2>3, <2>4 DEF IssuerFacts!Exists
<1>5. CASE CrlJobStarts \/ CrlJobSteps \/ CrlJobCrashes
  <2>1. JobFacts!JobEffect
    BY <1>5, JobBesideIssuer
  <2>2. disk'[IndexFile] = disk[IndexFile] /\ \A p \in CertFiles : disk'[p] = disk[p]
    BY <2>1, SamePaths DEF JobFacts!JobEffect
  <2>3. IssuerFacts!IndexEntries(disk') = IssuerFacts!IndexEntries(disk)
    BY <2>2, SamePaths DEF IssuerFacts!IndexEntries
  <2>4. QED
    BY <2>1, <2>2, <2>3, SamePaths, SameReads DEF JobFacts!JobEffect, IssuerFacts!Extends
<1>6. QED
  BY <1>3, <1>4, <1>5
  DEF Next, VerifyStarts, VerifierSteps, VerifyStats, VerifyLoads, files, vars

LEMMA WritersInvInit == Init => WritersInv
<1> SUFFICES ASSUME Init PROVE WritersInv
  OBVIOUS
<1> USE DEF Init, Issuer!Init, CrlJob!Init
<1>1. Issuer!NoFiles = IssuerFacts!NoFiles /\ CrlJob!NoFiles = JobFacts!NoFiles
  BY DEF Issuer!CaKey, IssuerFacts!CaKey, CrlJob!CaKey, JobFacts!CaKey, Issuer!CaCrt,
         IssuerFacts!CaCrt, CrlJob!CaCrt, JobFacts!CaCrt, Issuer!SerialFile,
         IssuerFacts!SerialFile, CrlJob!SerialFile, JobFacts!SerialFile, Issuer!CrlNumberFile,
         IssuerFacts!CrlNumberFile, CrlJob!CrlNumberFile, JobFacts!CrlNumberFile,
         Issuer!IndexFile, IssuerFacts!IndexFile, CrlJob!IndexFile, JobFacts!IndexFile,
         Issuer!CaCrl, IssuerFacts!CaCrl, CrlJob!CaCrl, JobFacts!CaCrl, Issuer!Serials,
         IssuerFacts!Serials, CrlJob!Serials, JobFacts!Serials, Issuer!CertFile,
         IssuerFacts!CertFile, CrlJob!CertFile, JobFacts!CertFile, Issuer!CertFiles,
         IssuerFacts!CertFiles, CrlJob!CertFiles, JobFacts!CertFiles, Issuer!Paths,
         IssuerFacts!Paths, CrlJob!Paths, JobFacts!Paths, Issuer!Absent, IssuerFacts!Absent,
         CrlJob!Absent, JobFacts!Absent, Issuer!NoFiles, IssuerFacts!NoFiles, CrlJob!NoFiles,
         JobFacts!NoFiles
<1>2. IssuerFacts!Init /\ JobFacts!Init
  BY <1>1 DEF IssuerFacts!Init, JobFacts!Init, Issuer!Nothing, IssuerFacts!Nothing,
              CrlJob!Nothing, JobFacts!Nothing
<1>3. IssuerFacts!TypeInv /\ IssuerFacts!SafeInv /\ JobFacts!TypeInv
  BY <1>2, Assumptions, IssuerFacts!TypeInvInit, IssuerFacts!SafeInvInit, JobFacts!TypeInvInit
<1>4. JobFacts!JobRun
  BY DEF JobFacts!JobRun
<1>5. QED
  BY <1>3, <1>4 DEF WritersInv

LEMMA WritersInvRest ==
    ASSUME WritersInv, UNCHANGED <<files, issuer, crlJob>>
    PROVE  WritersInv'
<1>1. /\ [IssuerFacts!Next]_(IssuerFacts!vars) /\ [JobFacts!Next]_(JobFacts!vars)
      /\ UNCHANGED JobFacts!process /\ disk' = disk
  BY DEF files, issuer, crlJob, IssuerFacts!vars, JobFacts!vars, JobFacts!process
<1>2. IssuerFacts!TypeInv' /\ IssuerFacts!SafeInv' /\ JobFacts!TypeInv'
  BY <1>1, Assumptions, IssuerFacts!NextKeepsTypeInv, IssuerFacts!NextKeepsSafeInv,
     JobFacts!NextKeepsTypeInv DEF WritersInv
<1>3. JobFacts!JobRun'
  BY <1>1 DEF WritersInv, JobFacts!JobRun, JobFacts!process, JobFacts!Exists
<1>4. QED
  BY <1>2, <1>3 DEF WritersInv, issuer, crlJob

LEMMA WritersInvNext == WritersInv /\ [Next]_vars => WritersInv'
<1> SUFFICES ASSUME WritersInv, [Next]_vars PROVE WritersInv'
  OBVIOUS
<1>1. CASE UNCHANGED <<files, issuer, crlJob>>
  BY <1>1, WritersInvRest
<1>2. QED
  BY <1>1, IssuerBesideJob, JobBesideIssuer
  DEF Next, VerifyStarts, VerifierSteps, VerifyStats, VerifyLoads, vars, files, issuer, crlJob

(* Both writers keep their invariants: whatever the other does to the      *)
(* directory, what a running command has read and goes on to use stays     *)
(* true, although the program holds no lock and reads nothing twice.       *)
THEOREM WritersInvariance == Spec => []WritersInv
BY WritersInvInit, WritersInvNext, PTL DEF Spec

----------------------------------------------------------------------------
(* The verifier between its two looks at the list *)

VerifierInv ==
    /\ vPc \in {"idle", "stat", "load"}
    /\ vSays \in {"nothing", "not checked", "cannot load", "revoked", "ok"}
    /\ vPc # "idle" => vSays = "nothing" /\ vListed \subseteq ListedSerials
    /\ vPc = "load" => Issuer!Exists(CaCrl)
    /\ VerdictIsHonest

(* The list only gains serials.                                            *)
LEMMA ListOnlyGrows ==
    ASSUME WritersInv, [Next]_vars
    PROVE  /\ ListedSerials \subseteq ListedSerials'
           /\ Issuer!Exists(CaCrl) => Issuer!Exists(CaCrl)'
<1>1. Issuer!Exists(CaCrl) =>
        Issuer!Exists(CaCrl)' /\ disk[CaCrl].revoked \subseteq disk'[CaCrl].revoked
  BY StepsKeepFiles, SameReads
<1>2. QED
  BY <1>1 DEF ListedSerials

(* What an honest verifier has said stays true.                            *)
LEMMA VerdictStays ==
    ASSUME WritersInv, [Next]_vars, VerdictIsHonest,
           vSays' = vSays, vSerial' = vSerial, vListed' = vListed
    PROVE  VerdictIsHonest'
<1>1. IssuerFacts!Extends(Issuer!IndexEntries(disk'), Issuer!IndexEntries(disk))
  BY StepsKeepFiles, SameReads
<1>2. ASSUME NEW i \in DOMAIN Issuer!IndexEntries(disk),
             Issuer!IndexEntries(disk)[i].status = "revoked"
      PROVE  /\ i \in DOMAIN Issuer!IndexEntries(disk')
             /\ Issuer!IndexEntries(disk')[i] = Issuer!IndexEntries(disk)[i]
  BY <1>1, <1>2 DEF IssuerFacts!Extends
<1>3. QED
  BY <1>2 DEF VerdictIsHonest

(* Whatever serial is listed has been revoked in the index.                *)
LEMMA ListedIsRevoked ==
    ASSUME WritersInv, Issuer!Exists(CaCrl), NEW n \in ListedSerials
    PROVE  \E i \in DOMAIN Issuer!IndexEntries(disk) :
              /\ Issuer!IndexEntries(disk)[i].serial = n
              /\ Issuer!IndexEntries(disk)[i].status = "revoked"
<1>1. SafeTogether
  BY SameInvariants DEF WritersInv, IssuerFacts!SafeInv
<1>2. PICK e \in disk[CaCrl].revoked : e.serial = n
  BY DEF ListedSerials
<1>3. e \in Issuer!RevokedEntries(Issuer!IndexEntries(disk))
  BY <1>1, <1>2 DEF SafeTogether, Issuer!CRLMatchesIndex, CaCrl, Issuer!CaCrl
<1>4. QED
  BY <1>2, <1>3 DEF Issuer!RevokedEntries

LEMMA VerifierStep ==
    ASSUME WritersInv, VerifierInv, (\E n \in Serials : VerifyStarts(n)) \/ VerifierSteps
    PROVE  VerifierInv'
<1>1. /\ disk' = disk /\ ListedSerials' = ListedSerials
      /\ Issuer!Exists(CaCrl)' <=> Issuer!Exists(CaCrl)
  BY DEF VerifyStarts, VerifierSteps, VerifyStats, VerifyLoads, files, ListedSerials, Issuer!Exists
<1>2. ASSUME NEW n \in Serials, VerifyStarts(n) PROVE VerifierInv'
  BY <1>1, <1>2 DEF VerifyStarts, VerifierInv, VerdictIsHonest
<1>3. ASSUME VerifyStats PROVE VerifierInv'
  <2>1. vPc = "stat" /\ vSays = "nothing" /\ vListed \subseteq ListedSerials
    BY <1>3 DEF VerifyStats, VerifierInv
  <2>2. ~Issuer!Exists(CaCrl) => ListedSerials = {}
    BY DEF ListedSerials
  <2>3. QED
    BY <1>1, <1>3, <2>1, <2>2 DEF VerifyStats, VerifierInv, VerdictIsHonest
<1>4. ASSUME VerifyLoads PROVE VerifierInv'
  <2>1. /\ vPc = "load" /\ vListed \subseteq ListedSerials /\ Issuer!Exists(CaCrl)
        /\ vSerial' = vSerial /\ vListed' = vListed /\ vPc' = "idle"
    BY <1>4 DEF VerifyLoads, VerifierInv
  <2>2. Issuer!Loads(CaCrl, "crl")
    <3>1. disk[CaCrl] \in IssuerFacts!CrlFiles
      BY <2>1, Assumptions, IssuerFacts!ExistsLoads, SamePaths, SameReads
      DEF WritersInv, IssuerFacts!TypeInv, IssuerFacts!TypeOK
    <3>2. QED
      BY <3>1 DEF IssuerFacts!CrlFiles, Issuer!Loads
  <2>3. vSays' = IF vSerial \in ListedSerials THEN "revoked" ELSE "ok"
    BY <1>4, <2>2 DEF VerifyLoads
  <2>4. VerdictIsHonest'
    BY <1>1, <2>1, <2>3, ListedIsRevoked DEF VerdictIsHonest
  <2>5. QED
    BY <2>1, <2>3, <2>4 DEF VerifierInv
<1>5. QED
  BY <1>2, <1>3, <1>4 DEF VerifierSteps

LEMMA VerifierInvNext == WritersInv /\ VerifierInv /\ [Next]_vars => VerifierInv'
<1> SUFFICES ASSUME WritersInv, VerifierInv, [Next]_vars PROVE VerifierInv'
  OBVIOUS
<1>1. CASE (\E n \in Serials : VerifyStarts(n)) \/ VerifierSteps
  BY <1>1, VerifierStep
<1>2. CASE UNCHANGED verifier
  BY <1>2, ListOnlyGrows, VerdictStays DEF VerifierInv, verifier
<1>3. QED
  BY <1>1, <1>2
  DEF Next, IssuerStarts, IssuerSteps, IssuerCrashes, CrlJobStarts, CrlJobSteps, CrlJobCrashes,
      vars, verifier

LEMMA VerifierInvInit == Init => VerifierInv
BY DEF Init, VerifierInv, VerdictIsHonest

(* With them goes what the verifier holds between the two looks verify.go  *)
(* takes at ca.crl: a list it has found stays to be opened, and a verdict  *)
(* once given stays one that the index supports.                           *)
THEOREM TogetherInvariance == Spec => [](WritersInv /\ VerifierInv)
<1>1. Init => WritersInv /\ VerifierInv
  BY WritersInvInit, VerifierInvInit
<1>2. WritersInv /\ VerifierInv /\ [Next]_vars => (WritersInv /\ VerifierInv)'
  BY WritersInvNext, VerifierInvNext
<1>3. QED
  BY <1>1, <1>2, PTL DEF Spec

----------------------------------------------------------------------------
(* The theorems *)

(* Two writers and a reader leave every file in the format of its path,    *)
(* whatever of them fails or dies (writeFileAtomic, ADR-006).              *)
THEOREM TogetherTypeCorrect == Spec => []TypeOK
<1>1. WritersInv /\ VerifierInv => TypeOK
  BY SameFilesOK DEF WritersInv, VerifierInv, TypeOK, IssuerFacts!TypeInv, IssuerFacts!TypeOK
<1>2. QED
  BY <1>1, TogetherInvariance, PTL

(* The invariants of the directory do not need the commands to run one at  *)
(* a time: they hold with GenerateCRL at work beside InitCA, SignCSR and   *)
(* RevokeCert.                                                             *)
THEOREM SafeBeside == Spec => []SafeTogether
<1>1. WritersInv => SafeTogether
  BY SameInvariants DEF WritersInv, IssuerFacts!SafeInv
<1>2. QED
  BY <1>1, WritersInvariance, PTL

(* Neither cleanupTempFiles nor a later command of one process takes away  *)
(* what the other has staged and is about to rename.                       *)
THEOREM StagedFilesStay == Spec => []StagedStays
<1>1. WritersInv => StagedStays
  BY DEF WritersInv, IssuerFacts!TypeInv, IssuerFacts!StagedOK, JobFacts!TypeInv,
         JobFacts!StagedOK, StagedStays
<1>2. QED
  BY <1>1, WritersInvariance, PTL

(* GenerateCRL finds its counter however far the InitCA beside it has      *)
(* come, and numbers its list with what the counter still says.            *)
THEOREM CounterIsThere == Spec => []CounterWaits
<1>1. ASSUME WritersInv PROVE CounterWaits
  <2>1. /\ JobFacts!FilesOK /\ JobFacts!DiskInv /\ JobFacts!JobRun
        /\ CrlNumberFile = JobFacts!CrlNumberFile
    BY <1>1, SameInvariants, SamePaths
    DEF WritersInv, IssuerFacts!SafeInv, JobFacts!TypeInv, JobFacts!TypeOK
  <2>2. ASSUME cPc = "loadCounter" PROVE Issuer!Loads(CrlNumberFile, "counter")
    <3>1. JobFacts!Exists(JobFacts!CrlNumberFile)
      BY <2>1, <2>2 DEF JobFacts!JobRun, JobFacts!DiskInv, JobFacts!InCommitOrder
    <3>2. JobFacts!Loads(JobFacts!CrlNumberFile, "counter")
      BY <2>1, <3>1, Assumptions, JobFacts!LoadsExists
    <3>3. QED
      BY <2>1, <3>2 DEF JobFacts!Loads, Issuer!Loads
  <2>3. ASSUME cPc = "commit"
        PROVE  cPlan[1].content.number = disk[CrlNumberFile].value
    <3>1. PICK m \in 1 .. MaxCRLNumber :
            /\ disk[CrlNumberFile] = JobFacts!Counter(m)
            /\ cPlan = JobFacts!CRLPlan(m, cMem.revoked, cMem.key)
      BY <2>1, <2>3 DEF JobFacts!JobRun
    <3>2. cPlan[1].content.number = m
      BY <3>1 DEF JobFacts!CRLPlan, JobFacts!Write, JobFacts!Crl
    <3>3. QED
      BY <3>1, <3>2 DEF JobFacts!Counter
  <2>4. QED
    BY <2>2, <2>3 DEF CounterWaits
<1>2. QED
  BY <1>1, WritersInvariance, PTL

(* Verify can open the list it has seen, reports as revoked only what the  *)
(* index has revoked, and misses nothing listed when it began, whatever    *)
(* the two writers do between its stat of ca.crl and its read.             *)
THEOREM VerdictsAreHonest == Spec => []VerdictIsHonest
<1>1. VerifierInv => VerdictIsHonest
  BY DEF VerifierInv
<1>2. QED
  BY <1>1, TogetherInvariance, PTL

(* No step of any of the three processes undoes a revocation, replaces a   *)
(* certificate, shortens the list or lowers its number.                    *)
THEOREM HistoryTogether == Spec => NothingIsUndone
<1> DEFINE Kept ==
      /\ LET old == Issuer!IndexEntries(disk)
             new == Issuer!IndexEntries(disk')
         IN  \A i \in DOMAIN old :
               /\ i \in DOMAIN new
               /\ old[i].status = "revoked" => new[i] = old[i]
      /\ \A p \in CertFiles : Issuer!Exists(p) => disk'[p] = disk[p]
      /\ Issuer!Exists(CaCrl) =>
           /\ disk[CaCrl].revoked \subseteq disk'[CaCrl].revoked
           /\ disk[CaCrl].number <= disk'[CaCrl].number
<1>1. WritersInv /\ [Next]_vars => [Kept]_vars
  <2>1. SUFFICES ASSUME WritersInv, [Next]_vars PROVE Kept
    OBVIOUS
  <2>2. \A i \in DOMAIN Issuer!IndexEntries(disk) :
            /\ i \in DOMAIN Issuer!IndexEntries(disk')
            /\ Issuer!IndexEntries(disk)[i].status = "revoked" =>
                 Issuer!IndexEntries(disk')[i] = Issuer!IndexEntries(disk)[i]
    BY <2>1, StepsKeepFiles, SameReads DEF IssuerFacts!Extends
  <2>3. /\ \A p \in CertFiles : Issuer!Exists(p) => disk'[p] = disk[p]
        /\ Issuer!Exists(CaCrl) =>
             /\ disk[CaCrl].revoked \subseteq disk'[CaCrl].revoked
             /\ disk[CaCrl].number <= disk'[CaCrl].number
    BY <2>1, StepsKeepFiles, SameReads
  <2>4. QED
    BY <2>2, <2>3
<1>2. QED
  BY <1>1, WritersInvariance, PTL DEF Spec, NothingIsUndone

=============================================================================
