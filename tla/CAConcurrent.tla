---------------------------- MODULE CAConcurrent ----------------------------
(***************************************************************************)
(* Three processes on one data directory: an operator who runs `ca init`,  *)
(* `ca sign` and `ca revoke`, a job that runs `ca crl` on a schedule, and  *)
(* a reader that runs `ca verify`.  SPEC.md (A-2) leaves concurrent use to *)
(* the administrator and the program takes no lock; this division of the   *)
(* commands is the one under which no two processes write the same file    *)
(* once the directory is initialized.  The first two are instances of      *)
(* CAStore over the same files; each can fail or be killed on its own.     *)
(***************************************************************************)
EXTENDS CAFiles

CONSTANT Faults

VARIABLES
    disk, tmp, certsDir,                                   \* shared
    iOp, iPc, iMem, iPlan, iPos, iOutcome, iBefore,        \* the operator's command
    cOp, cPc, cMem, cPlan, cPos, cOutcome, cBefore,        \* the crl job
    vPc, vSerial, vSays,                                   \* `ca verify`
    vListed                        \* history: revoked on the list as verify began

files    == <<disk, tmp, certsDir>>
issuer   == <<iOp, iPc, iMem, iPlan, iPos, iOutcome, iBefore>>
crlJob   == <<cOp, cPc, cMem, cPlan, cPos, cOutcome, cBefore>>
verifier == <<vPc, vSerial, vSays, vListed>>
vars     == <<disk, tmp, certsDir,
              iOp, iPc, iMem, iPlan, iPos, iOutcome, iBefore,
              cOp, cPc, cMem, cPlan, cPos, cOutcome, cBefore,
              vPc, vSerial, vSays, vListed>>

Issuer == INSTANCE CAStore WITH
    op <- iOp, pc <- iPc, mem <- iMem, plan <- iPlan, pos <- iPos,
    outcome <- iOutcome, before <- iBefore

CrlJob == INSTANCE CAStore WITH
    op <- cOp, pc <- cPc, mem <- cMem, plan <- cPlan, pos <- cPos,
    outcome <- cOutcome, before <- cBefore

ASSUME FaultsAssumption == Faults \subseteq Issuer!FaultKinds

----------------------------------------------------------------------------
(* The two writers *)

IssuerStarts ==
    /\ \/ \E k \in Keys : Issuer!BeginInit(k)
       \/ \E csr \in CSR : Issuer!BeginSign(csr)
       \/ \E n \in Serials, r \in Reasons : Issuer!BeginRevoke(n, r)
       \/ Issuer!RejectInit
       \/ \E csr \in CSR : Issuer!RejectSign(csr)
       \/ \E n \in Serials : Issuer!RejectRevoke(n)
    /\ UNCHANGED <<crlJob, verifier>>

IssuerSteps   == Issuer!Progress /\ UNCHANGED <<crlJob, verifier>>
IssuerCrashes == Issuer!Crash /\ UNCHANGED <<crlJob, verifier>>

(* BeginCRL reads the root and the key, which are final once both are      *)
(* there, and then the index: one read as far as anyone can tell.          *)
CrlJobStarts ==
    /\ CrlJob!BeginCRL \/ CrlJob!RejectCRL
    /\ UNCHANGED <<issuer, verifier>>

CrlJobSteps   == CrlJob!Progress /\ UNCHANGED <<issuer, verifier>>
CrlJobCrashes == CrlJob!Crash /\ UNCHANGED <<issuer, verifier>>

----------------------------------------------------------------------------
(* ca verify: the list is looked for and then opened *)

ListedSerials == {e.serial : e \in IF Issuer!Exists(CaCrl) THEN disk[CaCrl].revoked ELSE {}}

VerifyStarts(n) ==
    /\ vPc = "idle"
    /\ Issuer!IsInitialized
    /\ Issuer!Loads(CaCrt, "certificate")
    /\ Issuer!Exists(CertFile(n))
    /\ disk[CertFile(n)].signer = disk[CaCrt].signer
    /\ vPc' = "stat"
    /\ vSerial' = n
    /\ vSays' = "nothing"
    /\ vListed' = ListedSerials
    /\ UNCHANGED <<files, issuer, crlJob>>

VerifyStats ==
    /\ vPc = "stat"
    /\ IF Issuer!Exists(CaCrl)
       THEN vPc' = "load" /\ vSays' = vSays
       ELSE vPc' = "idle" /\ vSays' = "not checked"
    /\ UNCHANGED <<files, issuer, crlJob, vSerial, vListed>>

VerifyLoads ==
    /\ vPc = "load"
    /\ vPc' = "idle"
    /\ vSays' = IF ~Issuer!Loads(CaCrl, "crl") THEN "cannot load"
                ELSE IF vSerial \in ListedSerials THEN "revoked" ELSE "ok"
    /\ UNCHANGED <<files, issuer, crlJob, vSerial, vListed>>

VerifierSteps == VerifyStats \/ VerifyLoads

----------------------------------------------------------------------------

Init ==
    /\ Issuer!Init
    /\ CrlJob!Init
    /\ vPc = "idle"
    /\ vSerial = 2
    /\ vSays = "nothing"
    /\ vListed = {}

Next ==
    \/ IssuerStarts \/ IssuerSteps \/ IssuerCrashes
    \/ CrlJobStarts \/ CrlJobSteps \/ CrlJobCrashes
    \/ \E n \in Serials : VerifyStarts(n)
    \/ VerifierSteps

Spec == Init /\ [][Next]_vars

----------------------------------------------------------------------------
(* Properties *)

TypeOK ==
    /\ Issuer!FilesOK
    /\ iOp \in {"none", "init", "sign", "revoke"}
    /\ cOp \in {"none", "crl"}
    /\ vPc \in {"idle", "stat", "load"}
    /\ vSays \in {"nothing", "not checked", "cannot load", "revoked", "ok"}

(* The safety properties of the files do not need assumption A-2: with the *)
(* list made while certificates are signed and revoked, everything indexed *)
(* is on file, serials are fresh, one key signs all, and the list revokes  *)
(* nothing the index does not, under a number the counter has reached.     *)
SafeTogether ==
    /\ Issuer!IndexedIsOnFile
    /\ Issuer!SerialsAreFresh
    /\ Issuer!ChainOfTrust
    /\ Issuer!CRLMatchesIndex

(* Nor does history: with both writers at work no revocation is undone, no *)
(* certificate replaced, and no list drops an entry of the one before or   *)
(* goes back in its number.                                                *)
NothingIsUndone ==
    [][ /\ LET old == Issuer!IndexEntries(disk)
               new == Issuer!IndexEntries(disk')
           IN  \A i \in DOMAIN old :
                 /\ i \in DOMAIN new
                 /\ old[i].status = "revoked" => new[i] = old[i]
        /\ \A p \in CertFiles : Issuer!Exists(p) => disk'[p] = disk[p]
        /\ Issuer!Exists(CaCrl) =>
             /\ disk[CaCrl].revoked \subseteq disk'[CaCrl].revoked
             /\ disk[CaCrl].number <= disk'[CaCrl].number ]_vars

(* ADR-006: while a command commits, the files it has staged and not yet   *)
(* renamed are there as it wrote them; the clean-up of the other process   *)
(* after a failure, or its next command, takes none of them away.          *)
StagedStays ==
    /\ iPc = "commit" =>
         \A i \in iPos .. Len(iPlan) : tmp[iPlan[i].path] = iPlan[i].content
    /\ cPc = "commit" =>
         \A i \in cPos .. Len(cPlan) : tmp[cPlan[i].path] = cPlan[i].content

(* GenerateCRL reads crlnumber last; a job that starts while `ca init` is  *)
(* at work gets that far only when the counter is there (InitCA renames    *)
(* index.json after crlnumber), and its counter is not changed under it.   *)
CounterWaits ==
    /\ cPc = "loadCounter" => Issuer!Loads(CrlNumberFile, "counter")
    /\ cPc = "commit" /\ cPos = 1 => cPlan[1].content.number = disk[CrlNumberFile].value

(* CON-BD-017: `ca verify` can open the list it has seen, whatever becomes *)
(* of it in between; it reports a revocation only of a certificate the     *)
(* index has revoked, and every revocation on the list when it began.      *)
VerdictIsHonest ==
    /\ vSays # "cannot load"
    /\ vSays = "revoked" =>
         \E i \in DOMAIN Issuer!IndexEntries(disk) :
            /\ Issuer!IndexEntries(disk)[i].serial = vSerial
            /\ Issuer!IndexEntries(disk)[i].status = "revoked"
    /\ vSays \in {"ok", "not checked"} => vSerial \notin vListed

=============================================================================
