SPECIFICATION Spec
CONSTANTS
    Users <- MCUsers
    Files <- MCFiles
    Partitions <- MCPartitions
    Partition <- MCPartition
    Plan <- RacePlan
    MaxRetries = 1
    MaxFaults = 1
    MaxIdentifier = 9
    AtomicRename = TRUE
    IgnoreEmptyCommit = TRUE
    DiscardDuplicate = FALSE
    DynamicOverwrite = FALSE
    AppendCommitCheckConflict = FALSE
    AbortHalfCommitted = FALSE
    None = None
INVARIANTS
    SnapshotChain
    ManifestsPresent
    DataFilesPresent
    AckedIsPublished
    FindLatestIsLatest
PROPERTIES
    ImplementsTableHistory
