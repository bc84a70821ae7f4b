SPECIFICATION Spec
CONSTANTS
  Size = 4
  Pieces = 2
  Degree = 2
  Ranks <- MCRanks
  Plan <- PlanTree
  Offsets <- FragmentOffsets
  Sources <- MCRanks
  Contributors <- MCRanks
  Runs = 2
  Slots = 2
  IdSpace = 4
  MaxOutstanding = 1
  Zcopy = FALSE
  MayBlock = {1, 2}
  MaxMsgList = 1
INVARIANTS
  ResultExact
  NobodyStuck
PROPERTIES
  ImplementsCollective
CHECK_DEADLOCK FALSE
