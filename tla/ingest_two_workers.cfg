SPECIFICATION Spec
CONSTANTS
  Workers = {w1, w2}
  Revs = {r1, r2, r3, r4}
  Keys = {k1}
  Logs <- MCTwoLogs
  LogTime <- MCTwoLogTime
  HasTotal = {TRUE}
  TurnedOn = {FALSE}
  DayLen = 2
  Lag = 1
  MinAdvance = 1
  Keep = 2
  Slot = 2
  PageSize = 1
  PagesPerWindow = 1
  WindowMin = 1
  WindowStart = 2
  WindowMax = 2
  MaxBudget = 2
  MaxTime = 3
  MaxUpsets = 1
SYMMETRY Symmetry
INVARIANTS CountedOnce
PROPERTIES StagingOwned
