CONSTANTS
  Ids = {r1, r2}
  none = none
  HotDays = 1
  ArchiveDays = 2
  MaxFileLines = 0
  MaxDay = 2
  MaxWrites = 3
  MaxLines = 3
  MaxJobs = 2
SPECIFICATION Spec
SYMMETRY Symmetry
CHECK_DEADLOCK FALSE
INVARIANTS
  NothingIsLost
