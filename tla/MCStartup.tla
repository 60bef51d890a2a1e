------------------------------ MODULE MCStartup ------------------------------
(***************************************************************************)
(* An instance of Startup for TLC: the railway of graph_testing3, where    *)
(* the switch 2 connects to two elements before it and accepts two after.  *)
(***************************************************************************)
EXTENDS Startup, Integers, TLC

MCNodesList == 1 :> <<1, 2, 3>> @@ 2 :> <<4, 2, 5>>

MCTail == -9999

ASSUME RoutesInOrder
=============================================================================
