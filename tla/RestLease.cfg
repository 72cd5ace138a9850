SPECIFICATION FairSpec
CONSTANTS
    w1 = w1
    w2 = w2
    Writers = {w1, w2}
    Lease = 2
    AcquireTimeout = 1
    MaxRetries = 1
    MaxFaults = 1
    LateRequests = FALSE
INVARIANTS
    ValidIsHeld
    BaseIsHead
    CommittedOnce
PROPERTIES
    CallsEnd
    LeasesEnd
