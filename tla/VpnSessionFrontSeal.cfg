CONSTANTS
    Protocols = {"front"}
    ProxyModes = {FALSE, TRUE}
    KillSwitches = {FALSE, TRUE}
    AutoReconnects = {FALSE, TRUE}
    MaxSessions = 8
    MaxQuick = 0
SPECIFICATION FairSpec
CHECK_DEADLOCK FALSE
INVARIANT SealHolds HonestStatus
PROPERTY DisconnectEnds
