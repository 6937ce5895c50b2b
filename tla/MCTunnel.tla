------------------------------ MODULE MCTunnel ------------------------------
(***************************************************************************)
(* Tunnel for TLC.  Which node has the higher key matters to no action.     *)
(***************************************************************************)
EXTENDS Tunnel, TLC

CONSTANTS a, b

MCNodes == {a, b}
NodeSymmetry == Permutations(MCNodes)
=============================================================================
