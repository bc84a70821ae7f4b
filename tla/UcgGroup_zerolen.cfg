SPECIFICATION Spec
CONSTANTS
  Ops = {b1, a1, z1}
  Barriers = {b1}
  ZeroLen = {b1, z1}
  Slots = 4
  IdSpace = 4
  NoOp = NoOp
  MaxOutstanding = 3
  Careful = TRUE
  MayFail = FALSE
PROPERTY NoStartDuringBarrier
CHECK_DEADLOCK FALSE
