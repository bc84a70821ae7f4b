SPECIFICATION Spec
CONSTANTS
  Size = 6
  Pieces = 1
  Degree = 3
  Ranks <- MCRanks
  Plan <- PlanBcast
  Offsets <- FragmentOffsets
  Sources <- MCRoot
  Contributors <- MCRoot
  Runs = 1
  Slots = 2
  IdSpace = 4
  MaxOutstanding = 1
  Zcopy = TRUE
  MayBlock = {3}
  MaxMsgList = 1
INVARIANTS
  NobodyStuck
CHECK_DEADLOCK FALSE
