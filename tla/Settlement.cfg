SPECIFICATION FairSpec
CONSTANTS
    s1 = s1  s2 = s2  p1 = p1  m1 = m1
    Strategies = {s1, s2}
    Traded = {p1}
    Migrated = {m1}
    Owner <- MCOwner
    Modes = {"sandbox", "live"}
    MaxHeld = 2
    MaxEpisodes = 2
    MaxRestarts = 1
    MaxFaults = 1
INVARIANTS CountedOnce ReportedIsNotOpen FirstExitIsReported
PROPERTIES LedgerIsFinal ResolvedIsSettled
