------------------------------ MODULE MCTimer -------------------------------
(***************************************************************************)
(* Instance of Timer for TLC: a register of 13 values at three steps to    *)
(* the microsecond, of which two or three at each end are looked for, that *)
(* starts again five times; the int of the total wraps after four turns.   *)
(***************************************************************************)
EXTENDS Timer
=============================================================================
