SPECIFICATION Spec
CONSTANTS
  Ops = {b1, b2, a1}
  Barriers = {b1, b2}
  ZeroLen = {b1, b2}
  Slots = 2
  IdSpace = 4
  NoOp = NoOp
  MaxOutstanding = 2
  Careful = TRUE
  MayFail = FALSE
INVARIANT ToldCompleteIsDone
CHECK_DEADLOCK FALSE
