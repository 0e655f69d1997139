---------------------------- MODULE MCConcurrent ----------------------------
(***************************************************************************)
(* An instance of CAConcurrent for TLC.  How a command ended and what it   *)
(* had found decide nothing that follows and are left out of the view.     *)
(***************************************************************************)
EXTENDS CAConcurrent

SomeFaults == {"write", "rename", "crash"}
OneReason  == {"keyCompromise"}

Running ==
    <<files, iOp, iPc, iMem, iPlan, iPos, cOp, cPc, cMem, cPlan, cPos, verifier>>

=============================================================================
