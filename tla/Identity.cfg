CONSTANTS
    Devices = {d1, d2, d3}
    Keys = {k1, k2, k3, k4}
    Absent = Absent
    Damaged = Damaged
    Attempts = 2
SPECIFICATION FairIdentity
INVARIANTS NoChurn RefusalReplaced
PROPERTY Repairs
