CONSTANTS
    Callers = {w, t1, t2}
    Stoppers = {w, m, r}
    Worker = w
    Main = m
    Rung = r
    Rungs = 2
    MaxStarts = 2
    MaxStops = 1
SPECIFICATION ChainFairSpec
INVARIANTS SingleRun NoStaleReady NoLostWakeup JudgesOwnRung
PROPERTIES LadderReleasesCore DropReported
CHECK_DEADLOCK FALSE
