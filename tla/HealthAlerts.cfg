SPECIFICATION AlertsFairSpec

CONSTANTS
    Alerts = {a1}
    Threads = {t1, t2}
    QueueSize = 1
    MinUnhealthy = 1
    MinFailures = 2
    MaxFailedSends = 1

INVARIANTS
    OneThreadEach
    NoticesAreDelivered

PROPERTY
    FailureIsNotified
