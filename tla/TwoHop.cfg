CONSTANTS
    p1 = p1
    p2 = p2
    p3 = p3
    None = None
    Peers <- MCPeers
    Pool <- MCPool
    Forcible <- MCForcible
    MaxFails = 2
SPECIFICATION FairSpec
INVARIANTS NoLeftovers RescanEarned
PROPERTIES ReadyMeansBothHops Recovers
