SPECIFICATION Spec
CONSTANTS
  Poll = poll
  Hands = {ann}
  Figures <- MCFigures
  ShrinkFloor = 2
  Troubles = {"reading"}
  MaxRequests = 1
  MaxAttempts = 1
  MaxTries = 2
  MaxConfig = 0
  MaxAge = 0
  MayMove = TRUE
  MayCut = TRUE
  MayEdit = FALSE
INVARIANTS TypeOK Rebooked MarksOwnRequest NoOrphan
PROPERTIES ShrinkConfirmed
