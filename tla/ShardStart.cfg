CONSTANTS
    Nodes = {n1}
    None = None
    Slices = 2
    Profiles = 2
    MaxProcs = 3
    MaxStops = 1
    MaxStarts = 2
    MaxRotations = 0

SPECIFICATION FairSpec
CHECK_DEADLOCK FALSE
INVARIANT PrewarmAlone
PROPERTIES CallsReturn StopLeavesNothing
