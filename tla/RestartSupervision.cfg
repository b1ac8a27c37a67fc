SPECIFICATION FairSpec

CONSTANTS
    HeartbeatMaxAge = 0
    StartupGrace = 1
    CriticalDown = 2
    MaxRestarts = 1
    RestartWindow = 3
    BootGrace = 2
    KillAge = 2
    MaxKills = 1
    KillWindow = 3
    FailingWrites = {}
    Oldest = 3

INVARIANTS
    RestartsAreBounded

PROPERTIES
    FreshBootIsSpared
    StarvedIsEnded
    StuckIsEnded
