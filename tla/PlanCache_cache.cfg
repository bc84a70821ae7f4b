SPECIFICATION Spec
CONSTANTS
  Types = {"barrier", "bcast"}
  Roots = {0, 2}
  Buffers = {1, 2, 3}
  RootNums = 2
  MaxOps = 2
  PlanIds = {1, 2, 3}
  OpIds = {1, 2, 3, 4, 5}
  MaxActive = 2
  Careful = TRUE
  None = None
INVARIANTS
  CountExact
  RoomCanBeMade
  HandleFits
CHECK_DEADLOCK FALSE
