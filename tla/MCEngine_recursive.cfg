SPECIFICATION FairSpec
CONSTANTS
  Size = 3
  Pieces = 1
  Degree = 2
  Ranks <- MCRanks
  Plan <- PlanRecursive
  Offsets <- FragmentOffsets
  Sources <- MCRanks
  Contributors <- MCRanks
  Runs = 3
  Slots = 1
  IdSpace = 2
  MaxOutstanding = 1
  Zcopy = TRUE
  MayBlock = {0, 1, 2}
  MaxMsgList = 1
INVARIANTS
  TypeOK
  ResultExact
  StepsRewound
PROPERTIES
  ZcopyBufferKept
  ImplementsCollective
  EverybodyLeaves
CHECK_DEADLOCK FALSE
