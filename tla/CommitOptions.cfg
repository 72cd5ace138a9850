SPECIFICATION Spec
CONSTANTS
    Users <- MCUsers
    Files <- MCFiles
    Partitions <- MCPartitions
    Partition <- MCPartition
    Plan <- OptionsPlan
    MaxRetries = 1
    MaxFaults = 1
    MaxIdentifier = 9
    AtomicRename = TRUE
    IgnoreEmptyCommit = FALSE
    DiscardDuplicate = TRUE
    DynamicOverwrite = TRUE
    AppendCommitCheckConflict = TRUE
    AbortHalfCommitted = FALSE
    None = None
INVARIANTS
    ExactlyOnce
    RowIdsNotReused
