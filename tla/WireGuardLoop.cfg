CONSTANTS
    e1 = e1
    e2 = e2
    None = None
    Peers <- MCPeers
    Profiles = {f1, f2}
    Teams <- MCTeams
    Imported <- MCImported
    Forcible <- MCForcible
    MaxFails = 2
    StaleTicks = 2
SPECIFICATION FairSpec
INVARIANT CooldownKept
PROPERTIES SilenceNoticed Recovers LoopSpec
