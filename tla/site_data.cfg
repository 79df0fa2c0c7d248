CONSTANTS
  BackfillDays = 2
  KeepDays = 2
  DeniedRetry = 1
  UserDays = 2
  PerRun = 1
  Chunks = 2
  MaxTime = 4
  MaxMoves = 2
  MaxFaults = 1
SPECIFICATION Spec
INVARIANTS OnlyThisSite Covered
CHECK_DEADLOCK FALSE
