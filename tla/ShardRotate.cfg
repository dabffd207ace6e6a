CONSTANTS
    Nodes = {n1, n2}
    None = None
    Slices = 1
    Profiles = 0
    MaxProcs = 4
    MaxStops = 1
    MaxStarts = 1
    MaxRotations = 2

SPECIFICATION FairSpec
CHECK_DEADLOCK FALSE
INVARIANT ActiveNodeServes
PROPERTY CallsReturn
