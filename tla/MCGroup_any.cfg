SPECIFICATION Spec
CONSTANTS
  Ops = {b1, b2, b3, z1}
  Barriers = {b1, b2, b3}
  ZeroLen = {b1, b2, b3, z1}
  Slots = 2
  IdSpace = 4
  NoOp = NoOp
  MaxOutstanding = 4
  Careful = FALSE
  MayFail = TRUE
SYMMETRY Alike
INVARIANT TypeOK
INVARIANT QueueExact
INVARIANT GateOpenWhileReleasing
CHECK_DEADLOCK FALSE
