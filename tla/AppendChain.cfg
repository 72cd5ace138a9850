SPECIFICATION CoordSpec
CONSTANTS
    OptionSets <- MCEagerOptions
    TargetSize = 2
    CompactionSize = 2
    BatchSizes <- MCBatchSizes
    MaxRows = 5
    MaxPrepares = 3
    MaxFaults = 1
    Coordinators = {c1, c2}
    MaxRuns = 2
INVARIANT
    DeltaIsClean
CHECK_DEADLOCK FALSE
