SPECIFICATION Spec
CONSTANTS
  MaxMembers = 12
  Placements <- MCPlacements
  Requests <- MCRequests
  Degrees <- MCDegrees
  MaxElements = 13
  Consistency = FALSE
  ShortMaxTx = 176
  BcopyMaxTx = 32768
  SIZE_MAX = 2147483647
  Near <- MCNear
  Far <- MCFar
  Lengths <- MCLengths
INVARIANTS
  MembersAgree
  PlansFit
  FragmentsFit
  DataExact
  OrderKept
PROPERTIES
  Completes
CHECK_DEADLOCK FALSE
