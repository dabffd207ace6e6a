CONSTANTS
    Protocols = {"native", "front"}
    ProxyModes = {FALSE, TRUE}
    KillSwitches = {FALSE, TRUE}
    AutoReconnects = {FALSE, TRUE}
    MaxSessions = 3
    MaxQuick = 1
SPECIFICATION FairSpec
CHECK_DEADLOCK FALSE
INVARIANT LatchOwned
PROPERTY SealOnlyVpn DestroyEndsWork
