SPECIFICATION Spec
CONSTANTS
  MaxMembers = 4
  Placements <- MCTreePlacements
  Requests <- MCTreeRequests
  Degrees <- MCDegrees
  MaxElements = 1
  Consistency = TRUE
  ShortMaxTx = 176
  BcopyMaxTx = 32768
  SIZE_MAX = 2147483647
  Near <- MCNear
  Far <- MCFar
  Lengths <- MCLengths
INVARIANTS
  DataExact
CHECK_DEADLOCK FALSE
