----------------------------- MODULE MCCommands -----------------------------
(***************************************************************************)
(* Instances of CACommands for TLC.  Ticks of half a second, hours of one  *)
(* second, days of three hours and durations of five bits, so that two     *)
(* days still fit in a duration, three to five wrap to a negative one and  *)
(* six to a short positive one; numbers in base three, so that the second  *)
(* end-entity serial is written 10.                                        *)
(***************************************************************************)
EXTENDS CACommands

Readings == {0, 1, 12, 13}

ValidDays   == {0, 2, 3, 6}
ValidHours  == {0, 1, 8}
AnyHours    == {0, 1, 17}

(* The exit code decides nothing that follows. *)
Directory == <<now, directory>>

AnyKey == Permutations(Keys)

OneReason  == {"affiliationChanged"}
TwoReasons == {"affiliationChanged", "superseded"}

=============================================================================
