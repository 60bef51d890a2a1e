--------------------------- MODULE MCRouteLocking ---------------------------
(***************************************************************************)
(* A larger railway for the abstract locking: four routes, two of them in  *)
(* opposite directions over the switches 2 and 3, one apart from them.     *)
(***************************************************************************)
EXTENDS RouteLocking, Integers, TLC

MCNodesList ==
  1 :> <<1, 2, 3, 4>> @@ 2 :> <<5, 3, 2, 6>> @@ 3 :> <<7, 2, 8>> @@ 4 :> <<9, 10, 11>>

MCTail == -9999
=============================================================================
