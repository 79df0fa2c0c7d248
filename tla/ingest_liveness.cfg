SPECIFICATION FairSpec
CONSTANTS
  Workers = {w1}
  Revs = {r1, r2}
  Keys = {k1, k2}
  Logs <- MCLogs
  LogTime <- MCCrowdedLogTime
  HasTotal = {TRUE}
  TurnedOn = {FALSE}
  DayLen = 2
  Lag = 1
  MinAdvance = 2
  Keep = 2
  Slot = 2
  PageSize = 1
  PagesPerWindow = 1
  WindowMin = 1
  WindowStart = 2
  WindowMax = 2
  MaxBudget = 1
  MaxTime = 3
  MaxUpsets = 1


PROPERTIES CatchesUp StagingEnds
