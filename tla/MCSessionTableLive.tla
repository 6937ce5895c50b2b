------------------------- MODULE MCSessionTableLive -------------------------
(***************************************************************************)
(* SessionTable for the liveness properties: one configured peer with an    *)
(* endpoint and one address, and a bounded clock in place of a view, which  *)
(* TLC does not allow with liveness.                                        *)
(***************************************************************************)
EXTENDS SessionTable

CONSTANT p1

MCPubs == {p1}
MCCfgPub == [c \in {0} |-> p1]
=============================================================================
