---------------------------- MODULE MCDiagnostics ----------------------------
(***************************************************************************)
(* An instance of Diagnostics for TLC: a node with three connections, as   *)
(* many as it takes for one to be lost while another one is missed.        *)
(***************************************************************************)
EXTENDS Diagnostics, TLC

CONSTANTS a, b, c

MCNeighbour == {a, b, c}
=============================================================================
