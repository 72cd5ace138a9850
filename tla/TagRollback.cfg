SPECIFICATION CleanSpec
CONSTANTS
    e1 = e1
    Expirers = {e1}
    RetainMin = 1
    RetainMax = 3
    MaxDeletes = 3
    MergeCount = 2
    MaxSnapshot = 4
    MaxWrites = 2
    MaxTags = 1
    MaxCrashes = 0
    RollbackToExpiring = FALSE
    OutrunAttempts = FALSE
    ExpireWhileCleaning = FALSE
SYMMETRY Symmetry
CONSTRAINT Focus
INVARIANT TagsReadable
CHECK_DEADLOCK FALSE
