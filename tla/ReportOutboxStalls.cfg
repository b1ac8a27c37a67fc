SPECIFICATION Spec

CONSTANTS
    none = none
    Workers = {w1, w2}
    MaxRevision = 2
    MaxAttempts = 3
    MaxFaults = 2
    Lease = 2
    SendTimeout = 1
    Stalls = TRUE

SYMMETRY WorkerSymmetry

INVARIANTS
    OneLiveSend
    OnlyReplacedIsGivenUp

PROPERTIES
    SentIsNotDowngraded
    ConfirmedPostIsRecorded
