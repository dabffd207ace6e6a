---------------------------- MODULE MCMasqueLoop ----------------------------
(* Two gateways: p1 is the account's and on the HTTP/2 ladder, p2 the   *)
(* organization's and cached.                                          *)
EXTENDS MasqueLoop

CONSTANTS p1, p2

MCPeers == {p1, p2}
MCCached == <<p2>>
MCGateways == {p1, p2}
MCLadder == <<p1, p2>>
MCLadderH2 == <<p1>>
MCForcible == {p2}
=============================================================================
