SPECIFICATION CleanSpec
CONSTANTS
    e1 = e1
    Expirers = {e1}
    RetainMin = 1
    RetainMax = 3
    MaxDeletes = 3
    MergeCount = 2
    MaxSnapshot = 4
    MaxWrites = 2
    MaxTags = 0
    MaxCrashes = 1
    RollbackToExpiring = TRUE
    OutrunAttempts = FALSE
    ExpireWhileCleaning = FALSE
SYMMETRY Symmetry
CONSTRAINT Focus
INVARIANT RetainedReadable
CHECK_DEADLOCK FALSE
