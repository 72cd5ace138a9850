SPECIFICATION Spec
CONSTANTS
    Events <- MCEvents
    OptionSets <- MCStaleOptions
    MaxLevel = 2
    RunTrigger = 1
    StopTrigger = 1
    MaxWrites = 3
    MaxPrepares = 2
    MaxFullCompactions = 0
    MaxCrashes = 0
INVARIANT
    VectorChangelogIsDiff
CHECK_DEADLOCK FALSE
