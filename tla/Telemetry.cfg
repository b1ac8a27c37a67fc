SPECIFICATION FairSpec
CONSTANTS
    o1 = o1
    Orders = {o1}
    MaxClock = 1
    MaxIds = 2
    QueueSize = 1
    Retries = 1
    MaxEvents = 3
    MaxLost = 1
    MaxDays = 2
    MaxSignals = 1
    MaxDeaths = 1
CHECK_DEADLOCK FALSE
INVARIANTS RowsConverge
PROPERTIES FillsAreDecided ReportIsGenerated
