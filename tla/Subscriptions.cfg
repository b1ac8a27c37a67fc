SPECIFICATION FairSpec

CONSTANTS
    StallAge = 0
    RetryAge = 1
    AbandonAge = 2
    StaleReceiptAge = 2
    SuppressAge = 3
    RestoreDelay = 0
    MaxLag = 1
    UnsubscribeExited = TRUE
    Conditions = {c1}
    StartupConditions = {c1}
    MaxEpoch = 1
    Refusable = {"UP"}

INVARIANTS
    RefusalIsContained
    WaitingIsRecoverable
    PhaseMatchesBooks
    NoStateOutlivesCondition

PROPERTIES
    CreditedSidesAreFresh
    FeedContract
    WaitEnds
    SilentSideIsReopened
    ActiveGetsSubscribed
