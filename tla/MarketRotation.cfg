SPECIFICATION Spec
CONSTANTS
    c1 = c1  c2 = c2  s1 = s1  s2 = s2
    i1 = i1  i2 = i2
    Legs = {i1, i2}
    Conditions = {c1, c2}
    Strategies = {s1, s2}
    Scope <- MCScope
    End <- MCEnd
    Payloads <- MCPayloads
    Startup <- MCStartup
    none = none  other = other
    MaxTime = 1
    MaxDeliveries = 3
    MaxStarts = 2
    MaxBoots = 1
SYMMETRY LegSymmetry
INVARIANTS StrategiesFollow ClosedStaysOut LeaversAreGone
PROPERTIES UniverseIsOneAndNewest
CHECK_DEADLOCK FALSE
