SPECIFICATION Spec
CONSTANTS
    Events <- MCEvents
    OptionSets <- MCOptionSets
    MaxLevel = 2
    RunTrigger = 1
    StopTrigger = 1
    MaxWrites = 4
    MaxPrepares = 2
    MaxFullCompactions = 1
    MaxCrashes = 1
INVARIANTS
    SnapshotIsLogPrefix
    ChangelogIsDiff
    FullPhaseMeetsChangelog
    LevelsMatchTable
    FilesKept
    RunsAreBounded
CHECK_DEADLOCK FALSE
