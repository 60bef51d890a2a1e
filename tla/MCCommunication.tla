-------------------------- MODULE MCCommunication ---------------------------
(***************************************************************************)
(* Instance of Communication for TLC: two neighbours that send two and one *)
(* messages, with reads of up to a message and a half.                     *)
(***************************************************************************)
EXTENDS Communication

MCMaxSent == "a" :> 2 @@ "b" :> 1
=============================================================================
