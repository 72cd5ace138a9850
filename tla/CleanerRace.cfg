SPECIFICATION CleanSpec
CONSTANTS
    e1 = e1
    Expirers = {e1}
    RetainMin = 1
    RetainMax = 3
    MaxDeletes = 3
    MergeCount = 2
    MaxSnapshot = 3
    MaxWrites = 2
    MaxTags = 0
    MaxCrashes = 0
    RollbackToExpiring = FALSE
    OutrunAttempts = FALSE
    ExpireWhileCleaning = TRUE
SYMMETRY Symmetry
CONSTRAINT Focus
INVARIANT RetainedReadable
CHECK_DEADLOCK FALSE
