SPECIFICATION CoordSpec
CONSTANTS
    OptionSets <- MCOptionSets
    TargetSize = 2
    CompactionSize = 2
    BatchSizes <- MCBatchSizes
    MaxRows = 5
    MaxPrepares = 4
    MaxFaults = 1
    Coordinators = {c1, c2}
    MaxRuns = 2
SYMMETRY Symmetry
INVARIANTS
    RowsOnce
    AppendOrder
    FilesKept
    GroupsArePartition
CHECK_DEADLOCK FALSE
