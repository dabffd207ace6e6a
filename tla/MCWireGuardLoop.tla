--------------------------- MODULE MCWireGuardLoop ---------------------------
EXTENDS WireGuardLoop

CONSTANTS e1, e2

MCPeers == {e1, e2}
MCImported == <<e1, e2>>
MCForcible == {e1}
MCTeams == {e2}
==============================================================================
