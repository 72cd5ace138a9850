SPECIFICATION Spec
CONSTANTS
    Scans <- MCScans
    SteadyClocks = FALSE
    MaxSnapshots = 3
    MaxFaults = 1
INVARIANTS
    StartsWhereAsked
