SPECIFICATION Spec
CONSTANTS
    Users <- MCUsers
    Files <- MCFiles
    Partitions <- MCPartitions
    Partition <- MCPartition
    Plan <- OverwritePlan
    MaxRetries = 1
    MaxFaults = 1
    MaxIdentifier = 9
    AtomicRename = TRUE
    IgnoreEmptyCommit = TRUE
    DiscardDuplicate = FALSE
    DynamicOverwrite = FALSE
    AppendCommitCheckConflict = FALSE
    AbortHalfCommitted = FALSE
    None = None
INVARIANTS
    TotalIsLive
    DeltaApplies
