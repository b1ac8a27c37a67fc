SPECIFICATION FairSpec

CONSTANTS
    none = none
    Workers = {w1, w2}
    MaxRevision = 2
    MaxAttempts = 6
    MaxFaults = 2
    Lease = 2
    SendTimeout = 1
    Stalls = FALSE

INVARIANTS
    DuplicatesAreUnsure

PROPERTIES
    DeliveryContract
    LatestIsDelivered
