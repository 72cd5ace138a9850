SPECIFICATION Spec
CONSTANTS
    w1 = w1
    w2 = w2
    Writers = {w1, w2}
    Lease = 3
    AcquireTimeout = 2
    MaxRetries = 1
    MaxFaults = 1
    LateRequests = TRUE
INVARIANTS
    CommittedOnce
