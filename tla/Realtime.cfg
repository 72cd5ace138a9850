CONSTANTS
    Keys = {k1, k2}
    Modes = {"append", "pk", "dedup"}
    MaxOffset = 3
    MaxBatch = 2
    MaxPrepares = 2
    MaxCompactions = 1
    MaxScans = 1
    MaxFaults = 1
SPECIFICATION Spec
CONSTRAINT Focus
SYMMETRY KeySymmetry
INVARIANTS
    SnapshotIsLogPrefix
    ScanIsLogPrefix
    ScanSeesAccepted
    EveryRowHasAnOwner
CHECK_DEADLOCK FALSE
