SPECIFICATION FairSpec
CONSTANTS
  Ops = {b1, a1, a2}
  Barriers = {b1}
  ZeroLen = {b1}
  Slots = 3
  IdSpace = 6
  NoOp = NoOp
  MaxOutstanding = 3
  Careful = TRUE
  MayFail = FALSE
PROPERTY PendingStarts
CHECK_DEADLOCK FALSE
