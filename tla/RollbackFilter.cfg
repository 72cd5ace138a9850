SPECIFICATION Spec
CONSTANTS
    Users <- MCUsers
    Files <- MCFiles
    Partitions <- MCPartitions
    Partition <- MCPartition
    Plan <- RollbackThenAppendPlan
    MaxRetries = 1
    MaxFaults = 0
    MaxIdentifier = 9
    AtomicRename = TRUE
    IgnoreEmptyCommit = TRUE
    DiscardDuplicate = FALSE
    DynamicOverwrite = FALSE
    AppendCommitCheckConflict = FALSE
    AbortHalfCommitted = FALSE
    None = None
INVARIANTS
    AckedIsPublished
