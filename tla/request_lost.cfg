SPECIFICATION Spec
CONSTANTS
  Poll = poll
  Hands = {}
  Figures <- MCFigures
  ShrinkFloor = 2
  Troubles = {"reading"}
  MaxRequests = 1
  MaxAttempts = 1
  MaxTries = 1
  MaxConfig = 0
  MaxAge = 0
  MayMove = TRUE
  MayCut = FALSE
  MayEdit = FALSE
PROPERTY RequestKept
