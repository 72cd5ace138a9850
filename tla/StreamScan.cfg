SPECIFICATION FairSpec
CONSTANTS
    Scans <- MCScans
    SteadyClocks = TRUE
    MaxSnapshots = 3
    MaxFaults = 1
INVARIANTS
    DeliveredExactly
    StartsWhereAsked
PROPERTIES
    ErrorsAreTrue
    CatchesUp
