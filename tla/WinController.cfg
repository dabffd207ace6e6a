CONSTANTS
    Tasks = {1, 2}
    Procs = {p1, p2}
    Prefs <- MCPrefs
    MaxAttempts = 2
    MaxCrashes = 1
SPECIFICATION FairSpec
INVARIANTS ProxyOwned SingleRun RestReleases
PROPERTY DeadTunnelNoticed
