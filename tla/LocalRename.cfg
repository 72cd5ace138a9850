SPECIFICATION Spec
CONSTANTS
    Users <- MCUsers
    Files <- MCFiles
    Partitions <- MCPartitions
    Partition <- MCPartition
    Plan <- LivePlan
    MaxRetries = 1
    MaxFaults = 0
    MaxIdentifier = 9
    AtomicRename = FALSE
    IgnoreEmptyCommit = TRUE
    DiscardDuplicate = FALSE
    DynamicOverwrite = FALSE
    AppendCommitCheckConflict = FALSE
    AbortHalfCommitted = FALSE
    None = None
PROPERTIES
    PublishedIsFinal
