CONSTANTS
    p1 = p1
    p2 = p2
    None = None
    Peers <- MCPeers
    Team = p2
    Account = p1
    Cached <- MCCached
    Gateways <- MCGateways
    Ladder <- MCLadder
    LadderH2 <- MCLadderH2
    Forcible <- MCForcible
    Limit = 2
    MaxRevocations = 1
SPECIFICATION FairSpec
INVARIANTS EvidenceHolds 
PROPERTIES Recovers LoopSpec
