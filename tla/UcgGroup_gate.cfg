SPECIFICATION FairSpec
CONSTANTS
  Ops = {b1, b2, a1}
  Barriers = {b1, b2}
  ZeroLen = {b1, b2}
  Slots = 3
  IdSpace = 6
  NoOp = NoOp
  MaxOutstanding = 2
  Careful = TRUE
  MayFail = FALSE
INVARIANT BarrierFlagExact
INVARIANT RunningOwnsSlot
INVARIANT QueueServed
PROPERTY NoStartDuringBarrier
PROPERTY ImplementsGate
CHECK_DEADLOCK FALSE
