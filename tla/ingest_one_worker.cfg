SPECIFICATION Spec
CONSTANTS
  Workers = {w1}
  Revs = {r1, r2, r3}
  Keys = {k1, k2}
  Logs <- MCLogs
  LogTime <- MCLogTime
  HasTotal = {TRUE, FALSE}
  TurnedOn = {TRUE, FALSE}
  DayLen = 2
  Lag = 1
  MinAdvance = 2
  Keep = 3
  Slot = 2
  PageSize = 1
  PagesPerWindow = 1
  WindowMin = 1
  WindowStart = 2
  WindowMax = 2
  MaxBudget = 1
  MaxTime = 5
  MaxUpsets = 2
SYMMETRY Symmetry
INVARIANTS TypeOK NothingLost
PROPERTIES ForwardOnly ImplementsCoverage
