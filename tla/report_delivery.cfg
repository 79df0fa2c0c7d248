SPECIFICATION FairSpec
CONSTANTS
  Channels = {c1, c2}
  MaxAttempts = 2
  RetryUnit = 1
  DayLen = 4
  Plans = {0}
  MaxTime = 5
  MaxUpsets = 2
  MaxEdits = 1
INVARIANTS TypeOK SentOnce AttemptsCapped Served
PROPERTIES RecordedWhenAllHaveIt Waits DayEnds
CHECK_DEADLOCK FALSE
