------------------------------ MODULE MCStore ------------------------------
(***************************************************************************)
(* Instances of CAStore for TLC.  Keys and subjects are model values; two  *)
(* end-entity serials and at most two list numbers; each run names the     *)
(* faults it allows.  Keys and subjects are interchangeable: nothing in    *)
(* CAStore tells one from another but by equality.                         *)
(***************************************************************************)
EXTENDS CAStore, TLC

WriteFaults  == {"write"}
RenameFaults == {"rename"}
Kills        == {"crash"}
AnyFault     == FaultKinds

Interchangeable == Permutations(Keys) \cup Permutations(Subjects)

OneReason  == {"keyCompromise"}
TwoReasons == {"keyCompromise", "superseded"}

=============================================================================
