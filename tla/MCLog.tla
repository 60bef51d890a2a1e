------------------------------- MODULE MCLog --------------------------------
(***************************************************************************)
(* Instance of Log for TLC: two tasks, a queue of two entries, blocks of   *)
(* two and three entries, two transfers.                                   *)
(***************************************************************************)
EXTENDS Log
=============================================================================
