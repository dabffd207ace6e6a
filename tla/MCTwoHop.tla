------------------------------ MODULE MCTwoHop ------------------------------
(* Three edges: two in the pool of inner edges, and one only the scan knows. *)
EXTENDS TwoHop

CONSTANTS p1, p2, p3

MCPeers == {p1, p2, p3}
MCPool == <<p1, p2>>
MCForcible == {p3}
=============================================================================
