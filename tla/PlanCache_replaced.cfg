SPECIFICATION Spec
CONSTANTS
  Types = {"barrier", "alltoallv"}
  Roots = {0}
  Buffers = {1, 2, 3}
  RootNums = 2
  MaxOps = 2
  PlanIds = {1, 2, 3, 4}
  OpIds = {1, 2, 3, 4, 5, 6}
  MaxActive = 2
  Careful = FALSE
  None = None
INVARIANTS
  ActiveAlive
CHECK_DEADLOCK FALSE
