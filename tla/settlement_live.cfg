SPECIFICATION FairSpec
CONSTANTS
  Poll = poll
  Hands = {}
  Figures <- MCFigures
  ShrinkFloor = 2
  Troubles = {"unanswered"}
  MaxRequests = 1
  MaxAttempts = 2
  MaxTries = 1
  MaxConfig = 1
  MaxAge = 3
  MayMove = FALSE
  MayCut = TRUE
  MayEdit = TRUE
PROPERTY GetsSettled
