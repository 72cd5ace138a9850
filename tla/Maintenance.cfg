SPECIFICATION CleanSpec
CONSTANTS
    e1 = e1
    e2 = e2
    Expirers = {e1, e2}
    RetainMin = 1
    RetainMax = 3
    MaxDeletes = 3
    MergeCount = 2
    MaxSnapshot = 4
    MaxWrites = 2
    MaxTags = 1
    MaxCrashes = 1
    RollbackToExpiring = FALSE
    OutrunAttempts = FALSE
    ExpireWhileCleaning = FALSE
SYMMETRY Symmetry
CONSTRAINT Focus
INVARIANTS
    RetainedReadable
    RetainedContiguous
    TagsKept
    NothingLeaks
CHECK_DEADLOCK FALSE
