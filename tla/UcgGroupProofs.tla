---------------------------- MODULE UcgGroupProofs ----------------------------
(***************************************************************************)
(* What holds of a group for every set of collectives, window of slots and *)
(* id space, and whatever the caller does: also when it overruns the slot  *)
(* window, when sends fail, and when it destroys a busy group.             *)
(***************************************************************************)
EXTENDS UcgGroup, SequenceTheorems, FiniteSetTheorems, Remainders, TLAPS

\* The slot of a collective id is one of the group's slots, and the id after
\* it is an id again.
LEMMA IdRange ==
  ASSUME NEW id \in CollIds
  PROVE  SlotOf(id) \in SlotIds /\ NextId(id) \in CollIds
  BY GroupAssumption DEF CollIds, SlotIds, SlotOf, NextId

\* What a trigger does to the state's types.
LEMMA TriggerTypes ==
  ASSUME TypeOK, NEW op \in Ops, NEW o \in Outcomes, Trigger(op, o)
  PROVE  /\ is_barrier_outstanding' \in BOOLEAN
         /\ next_id' \in CollIds
         /\ slot' \in [SlotIds -> SlotRecord]
         /\ resend' \in SUBSET SlotIds
         /\ status' \in [Ops -> Statuses]
  <1> DEFINE s == SlotOf(next_id)
  <1>1. s \in SlotIds /\ next_id' \in CollIds
    BY IdRange DEF TypeOK, Trigger
  <1>2. SlotAfter(slot[s], op, o) \in SlotRecord
    BY <1>1 DEF TypeOK, SlotAfter, SlotRecord
  <1>3. slot' \in [SlotIds -> SlotRecord]
    BY <1>1, <1>2 DEF TypeOK, Trigger
  <1>4. StatusAfter(o) \in Statuses
    BY DEF StatusAfter, Outcomes, Armed, Blocked, Statuses
  <1>5. status' \in [Ops -> Statuses]
    BY <1>4 DEF TypeOK, Trigger
  <1>6. is_barrier_outstanding' \in BOOLEAN /\ resend' \in SUBSET SlotIds
    BY <1>1 DEF TypeOK, Trigger
  <1> QED BY <1>1, <1>3, <1>5, <1>6

\* A request marked complete leaves every collective in a known status.
LEMMA EndedTypes ==
  ASSUME TypeOK, NEW op, NEW outcome \in {"done", "error"}
  PROVE  Ended(op, outcome) \in [Ops -> Statuses]
  <1>1. \A x \in Ops : Ended(op, outcome)[x] \in Statuses
    BY DEF TypeOK, Ended, Statuses
  <1>2. Ended(op, outcome) = [x \in Ops |-> Ended(op, outcome)[x]]
    BY DEF TypeOK, Ended
  <1> QED BY <1>1, <1>2

\* ucg_collective_release_barrier leaves a flag and a loop count.
LEMMA ReleaseTypes ==
  ASSUME TypeOK, NEW op, ReleaseBarrier(op)
  PROVE  is_barrier_outstanding' \in BOOLEAN /\ frames' \in Nat
  <1>1. CASE op \in ZeroLen /\ is_barrier_outstanding
    <2>1. is_barrier_outstanding' = FALSE /\ frames' = IF pending = <<>> THEN 0 ELSE 1
      BY <1>1, Zenon DEF ReleaseBarrier
    <2> QED BY <2>1
  <1>2. CASE ~ (op \in ZeroLen /\ is_barrier_outstanding)
    <2>1. UNCHANGED is_barrier_outstanding /\ UNCHANGED frames
      BY <1>2, Zenon DEF ReleaseBarrier
    <2> QED BY <2>1, Zenon DEF TypeOK
  <1> QED BY <1>1, <1>2

\* The type invariant of the group holds in every state.
THEOREM TypeCorrect == Spec => []TypeOK
  <1>1. Init => TypeOK
    <2> SUFFICES ASSUME Init PROVE TypeOK
      OBVIOUS
    <2>1. 0 \in CollIds
      BY GroupAssumption DEF CollIds
    <2>2. slot \in [SlotIds -> SlotRecord]
      BY <2>1 DEF Init, SlotRecord
    <2>3. pending \in Seq(Ops) /\ frames \in Nat
      BY DEF Init
    <2>4. is_barrier_outstanding \in BOOLEAN
      BY DEF Init
    <2> QED BY <2>1, <2>2, <2>3, <2>4 DEF Init, TypeOK, Statuses
  <1>2. TypeOK /\ [Next]_vars => TypeOK'
    <2> SUFFICES ASSUME TypeOK, [Next]_vars PROVE TypeOK'
      OBVIOUS
    <2>1. ASSUME NEW op \in Ops, NEW api \in {"nb", "nbr"}, StartPending(op, api)
          PROVE  TypeOK'
      <3>1. pending' \in Seq(Ops)
        BY <2>1 DEF StartPending, TypeOK
      <3>2. status' \in [Ops -> Statuses]
        BY <2>1 DEF StartPending, TypeOK, Statuses
      <3> QED BY <2>1, <3>1, <3>2 DEF StartPending, TypeOK
    <2>2. ASSUME NEW op \in Ops, NEW o \in Outcomes, StartNow(op, o)
          PROVE  TypeOK'
      <3>1. Trigger(op, o)
        BY <2>2 DEF StartNow
      <3>2. told' \in [Ops -> {"nothing", "complete", "request", "error"}]
        BY <2>2 DEF StartNow, TypeOK, Outcomes, Armed, Blocked
      <3>3. frames' \in Nat
        BY <2>2 DEF StartNow
      <3> QED BY <2>2, <3>1, <3>2, <3>3, TriggerTypes DEF StartNow, TypeOK
    <2>3. ASSUME NEW o \in Outcomes, ReleasePending(o)
          PROVE  TypeOK'
      <3>1. Head(pending) \in Ops /\ pending' \in Seq(Ops)
        BY <2>3, HeadTailProperties DEF ReleasePending, TypeOK, PullNonEmpty
      <3>2. Trigger(Head(pending), o)
        BY <2>3 DEF ReleasePending
      <3>3. frames' \in Nat
        BY <2>3 DEF ReleasePending, FramesAfter, TypeOK
      <3> QED BY <2>3, <3>1, <3>2, <3>3, TriggerTypes DEF ReleasePending, TypeOK
    <2>4. ASSUME NEW s \in SlotIds, Complete(s) \/ FailLater(s)
          PROVE  TypeOK'
      <3>1. slot' \in [SlotIds -> SlotRecord]
        <4>1. slot' = [slot EXCEPT ![s].cb = FALSE]
          BY <2>4 DEF Complete, FailLater
        <4> QED BY <4>1 DEF TypeOK, SlotRecord
      <3>2. status' \in [Ops -> Statuses]
        BY <2>4, EndedTypes DEF Complete, FailLater
      <3> QED BY <2>4, <3>1, <3>2, ReleaseTypes DEF Complete, FailLater, TypeOK
    <2>5. ASSUME NEW s \in SlotIds, BlockLater(s) \/ ResendArms(s)
          PROVE  TypeOK'
      <3>1. slot' \in [SlotIds -> SlotRecord]
        <4>1. PICK cb \in BOOLEAN : slot' = [slot EXCEPT ![s].cb = cb]
          BY <2>5 DEF BlockLater, ResendArms
        <4> QED BY <4>1 DEF TypeOK, SlotRecord
      <3> QED BY <2>5, <3>1 DEF BlockLater, ResendArms, Resendable, TypeOK
    <2>6. ASSUME NEW s \in SlotIds, ResendCompletes(s) \/ ResendFails(s)
          PROVE  TypeOK'
      <3>1. slot' \in [SlotIds -> SlotRecord]
        <4>1. slot' = [slot EXCEPT ![s].cb = FALSE]
          BY <2>6 DEF ResendCompletes, ResendFails
        <4> QED BY <4>1 DEF TypeOK, SlotRecord
      <3>2. status' \in [Ops -> Statuses]
        BY <2>6, EndedTypes DEF ResendCompletes, ResendFails
      <3> QED BY <2>6, <3>1, <3>2, ReleaseTypes
              DEF ResendCompletes, ResendFails, Resendable, TypeOK
    <2>7. CASE DestroyCalled \/ Destroyed
      BY <2>7 DEF DestroyCalled, Destroyed, TypeOK
    <2>8. CASE UNCHANGED vars
      BY <2>8 DEF vars, TypeOK
    <2> QED BY <2>1, <2>2, <2>3, <2>4, <2>5, <2>6, <2>7, <2>8
            DEF Next, Start, Release, Progress
  <1> QED BY <1>1, <1>2, PTL DEF Spec

-----------------------------------------------------------------------------
\* A release of the barrier opens the gate, and starts a loop only over a
\* queue that is not empty.
LEMMA ReleaseOpens ==
  ASSUME frames = 0, NEW op, ReleaseBarrier(op)
  PROVE  frames' > 0 => ~ is_barrier_outstanding' /\ pending # <<>>
  <1>1. CASE op \in ZeroLen /\ is_barrier_outstanding
    <2>1. is_barrier_outstanding' = FALSE /\ frames' = IF pending = <<>> THEN 0 ELSE 1
      BY <1>1, Zenon DEF ReleaseBarrier
    <2> QED BY <2>1
  <1>2. CASE ~ (op \in ZeroLen /\ is_barrier_outstanding)
    <2>1. frames' = frames
      BY <1>2, Zenon DEF ReleaseBarrier
    <2> QED BY <2>1
  <1> QED BY <1>1, <1>2

\* The assertion of ucg_collective_trigger holds however deep the release
\* loops are nested: no loop goes round with a barrier outstanding.
THEOREM GateOpenAlways == Spec => []GateOpenWhileReleasing
  <1>1. Init => GateOpenWhileReleasing
    BY DEF Init, GateOpenWhileReleasing
  <1>2. GateOpenWhileReleasing /\ [Next]_vars => GateOpenWhileReleasing'
    <2> SUFFICES ASSUME GateOpenWhileReleasing, [Next]_vars
                 PROVE  GateOpenWhileReleasing'
      OBVIOUS
    <2>1. ASSUME NEW op \in Ops, NEW api \in {"nb", "nbr"}, StartPending(op, api)
          PROVE  GateOpenWhileReleasing'
      BY <2>1 DEF StartPending, CallerMayStart, GateOpenWhileReleasing
    <2>2. ASSUME NEW op \in Ops, NEW o \in Outcomes, StartNow(op, o)
          PROVE  GateOpenWhileReleasing'
      <3>1. CASE o = "ok" /\ op \in Barriers /\ pending # <<>>
        BY <2>2, <3>1 DEF StartNow, Trigger, GateOpenWhileReleasing
      <3>2. CASE ~ (o = "ok" /\ op \in Barriers /\ pending # <<>>)
        BY <2>2, <3>2 DEF StartNow, GateOpenWhileReleasing
      <3> QED BY <3>1, <3>2
    <2>3. ASSUME NEW o \in Outcomes, ReleasePending(o)
          PROVE  GateOpenWhileReleasing'
      <3>1. CASE pending' = <<>> \/ is_barrier_outstanding'
        <4>1. frames' = 0
          BY <2>3, <3>1, Zenon DEF ReleasePending, FramesAfter
        <4> QED BY <4>1 DEF GateOpenWhileReleasing
      <3>2. CASE ~ (pending' = <<>> \/ is_barrier_outstanding')
        BY <3>2, Zenon DEF GateOpenWhileReleasing
      <3> QED BY <3>1, <3>2
    <2>4. ASSUME NEW s \in SlotIds, Complete(s) \/ ResendCompletes(s)
          PROVE  GateOpenWhileReleasing'
      <3>1. /\ frames = 0
            /\ ReleaseBarrier(slot[s].op)
            /\ pending' = pending
        BY <2>4 DEF Complete, ResendCompletes, Deliverable, Resendable
      <3>2. frames' > 0 => ~ is_barrier_outstanding' /\ pending # <<>>
        BY <3>1, ReleaseOpens
      <3> QED BY <3>1, <3>2, Zenon DEF GateOpenWhileReleasing
    <2>5. ASSUME NEW s \in SlotIds,
                 FailLater(s) \/ BlockLater(s) \/ ResendArms(s) \/ ResendFails(s)
          PROVE  GateOpenWhileReleasing'
      BY <2>5 DEF FailLater, BlockLater, ResendArms, ResendFails, Deliverable,
                  Resendable, GateOpenWhileReleasing
    <2>6. CASE DestroyCalled \/ Destroyed
      BY <2>6 DEF DestroyCalled, Destroyed, GateOpenWhileReleasing
    <2>7. CASE UNCHANGED vars
      BY <2>7 DEF vars, GateOpenWhileReleasing
    <2> QED BY <2>1, <2>2, <2>3, <2>4, <2>5, <2>6, <2>7
            DEF Next, Start, Release, Progress
  <1> QED BY <1>1, <1>2, PTL DEF Spec

-----------------------------------------------------------------------------
\* A step that leaves the queue alone, makes nothing pending and ends no wait
\* keeps queue and status in agreement.
LEMMA QueueUntouched ==
  ASSUME QueueExact, pending' = pending,
         \A x \in Ops : status'[x] = "pending" <=> status[x] = "pending"
  PROVE  QueueExact'
  BY DEF QueueExact

\* A trigger settles the collective it starts and no other.
LEMMA TriggerSettles ==
  ASSUME TypeOK, NEW op \in Ops, NEW o \in Outcomes, Trigger(op, o)
  PROVE  /\ status'[op] # "pending"
         /\ \A x \in Ops : x # op => status'[x] = status[x]
  <1>1. StatusAfter(o) # "pending"
    BY DEF StatusAfter, Outcomes, Armed, Blocked
  <1> QED BY <1>1 DEF TypeOK, Trigger

\* The end of a request ends no wait and begins none.
LEMMA EndedKeepsWaits ==
  ASSUME TypeOK, NEW op, NEW outcome \in {"done", "error"},
         status' = Ended(op, outcome), NEW x \in Ops
  PROVE  status'[x] = "pending" <=> status[x] = "pending"
  BY DEF TypeOK, Ended

\* The queue behind the barrier holds exactly the waiting collectives, each
\* once: no step queues one twice, loses one, or starts one and leaves it there.
THEOREM QueueAgrees == Spec => []QueueExact
  <1>1. Init => QueueExact
    BY DEF Init, QueueExact
  <1>2. TypeOK /\ QueueExact /\ [Next]_vars => QueueExact'
    <2> SUFFICES ASSUME TypeOK, QueueExact, [Next]_vars PROVE QueueExact'
      OBVIOUS
    <2>1. ASSUME NEW op \in Ops, NEW api \in {"nb", "nbr"}, StartPending(op, api)
          PROVE  QueueExact'
      <3>1. /\ pending \in Seq(Ops)
            /\ pending' = Append(pending, op)
            /\ Len(pending') = Len(pending) + 1
            /\ \A i \in 1 .. Len(pending) : pending'[i] = pending[i]
            /\ pending'[Len(pending) + 1] = op
        BY <2>1 DEF StartPending, TypeOK
      <3>2. \A i \in 1 .. Len(pending) : pending[i] # op
        BY <2>1 DEF StartPending, CallerMayStart, Unstarted, QueueExact
      <3>3. /\ status'[op] = "pending"
            /\ \A x \in Ops : x # op => status'[x] = status[x]
        BY <2>1 DEF StartPending, TypeOK
      <3>4. Len(pending) \in Nat
        BY <3>1
      <3>5. \A i, j \in 1 .. Len(pending') : pending'[i] = pending'[j] => i = j
        BY <3>1, <3>2, <3>4 DEF QueueExact
      <3>6. ASSUME NEW x \in Ops
            PROVE  status'[x] = "pending" <=> \E i \in 1 .. Len(pending') : pending'[i] = x
        BY <3>1, <3>3, <3>4 DEF QueueExact
      <3> QED BY <3>5, <3>6 DEF QueueExact
    <2>2. ASSUME NEW op \in Ops, NEW o \in Outcomes, StartNow(op, o)
          PROVE  QueueExact'
      <3>1. Trigger(op, o) /\ pending' = pending /\ status[op] # "pending"
        BY <2>2 DEF StartNow, CallerMayStart, Unstarted
      <3> QED BY <3>1, TriggerSettles, QueueUntouched
    <2>3. ASSUME NEW o \in Outcomes, ReleasePending(o)
          PROVE  QueueExact'
      <3> DEFINE op == Head(pending)
      <3>1. /\ pending \in Seq(Ops) /\ pending # <<>>
            /\ pending' = Tail(pending)
            /\ Trigger(op, o)
        BY <2>3 DEF ReleasePending, TypeOK, PullNonEmpty
      <3>2. /\ op \in Ops /\ op = pending[1]
            /\ Len(pending) \in Nat \ {0}
            /\ Len(pending') = Len(pending) - 1
            /\ \A i \in 1 .. Len(pending') : pending'[i] = pending[i + 1]
        BY <3>1, HeadTailProperties
      <3>3. /\ status'[op] # "pending"
            /\ \A x \in Ops : x # op => status'[x] = status[x]
        BY <3>1, <3>2, TriggerSettles
      <3> HIDE DEF op
      <3>4. \A i, j \in 1 .. Len(pending') : pending'[i] = pending'[j] => i = j
        BY <3>2 DEF QueueExact
      <3>5. \A i \in 1 .. Len(pending') : pending'[i] # op
        BY <3>2 DEF QueueExact
      <3>6. ASSUME NEW x \in Ops, x # op
            PROVE  status'[x] = "pending" <=> \E i \in 1 .. Len(pending') : pending'[i] = x
        <4>1. status'[x] = "pending" <=> \E i \in 1 .. Len(pending) : pending[i] = x
          BY <3>3, <3>6 DEF QueueExact
        <4>2. ASSUME NEW i \in 1 .. Len(pending), pending[i] = x
              PROVE  i - 1 \in 1 .. Len(pending') /\ pending'[i - 1] = x
          BY <3>2, <3>6, <4>2
        <4>3. ASSUME NEW i \in 1 .. Len(pending'), pending'[i] = x
              PROVE  i + 1 \in 1 .. Len(pending) /\ pending[i + 1] = x
          BY <3>2, <4>3
        <4> QED BY <4>1, <4>2, <4>3
      <3> QED BY <3>3, <3>4, <3>5, <3>6 DEF QueueExact
    <2>4. ASSUME NEW s \in SlotIds,
                 Complete(s) \/ FailLater(s) \/ ResendCompletes(s) \/ ResendFails(s)
          PROVE  QueueExact'
      <3>1. pending' = pending
        BY <2>4 DEF Complete, FailLater, ResendCompletes, ResendFails
      <3>2. PICK outcome \in {"done", "error"} : status' = Ended(slot[s].op, outcome)
        BY <2>4 DEF Complete, FailLater, ResendCompletes, ResendFails
      <3> QED BY <3>1, <3>2, EndedKeepsWaits, QueueUntouched
    <2>5. ASSUME NEW s \in SlotIds, BlockLater(s) \/ ResendArms(s)
          PROVE  QueueExact'
      BY <2>5, QueueUntouched DEF BlockLater, ResendArms
    <2>6. CASE DestroyCalled \/ Destroyed
      BY <2>6, QueueUntouched DEF DestroyCalled, Destroyed
    <2>7. CASE UNCHANGED vars
      BY <2>7, QueueUntouched DEF vars
    <2> QED BY <2>1, <2>2, <2>3, <2>4, <2>5, <2>6, <2>7
            DEF Next, Start, Release, Progress
  <1> QED BY <1>1, <1>2, TypeCorrect, PTL DEF Spec

-----------------------------------------------------------------------------
(***************************************************************************)
(* What a group promises a caller that keeps within its window of slots,   *)
(* where no operation fails for good and the only collectives without data *)
(* are the barriers.  The inductive invariant says how slots, statuses and *)
(* the barrier flag hang together; the queue's place in the window is the  *)
(* part the release loop relies on.                                        *)
(***************************************************************************)
Orderly == Careful /\ ~ MayFail /\ ZeroLen = Barriers

\* The slots the waiting collectives are about to take are free.
WindowFree ==
  /\ Len(pending) <= Slots
  /\ \A i \in 0 .. Len(pending) - 1 : ~ InUse(SlotOf(next_id + i))

\* A slot in use is that of a collective in progress, under the id its peers
\* know it by.
SlotsTell ==
  \A s \in SlotIds : InUse(s) =>
    /\ slot[s].op \in Ops
    /\ status[slot[s].op] = "running"
    /\ slot[s].coll_id = slot[s].run_id

OneSlotEach ==
  \A s, t \in SlotIds : InUse(s) /\ InUse(t) /\ slot[s].op = slot[t].op => s = t

RunningInSlot ==
  \A op \in Ops : status[op] = "running" =>
    \E s \in SlotIds : InUse(s) /\ slot[s].op = op

SlotsAgree == SlotsTell /\ OneSlotEach /\ RunningInSlot /\ BarrierFlagExact

-----------------------------------------------------------------------------
\* The id after the next is in the slot after the next, also where the ids wrap
\* around.
LEMMA SlotAfterNext ==
  ASSUME NEW id \in CollIds, NEW i \in Nat
  PROVE  SlotOf(NextId(id) + i) = SlotOf(id + (i + 1))
  <1>1. Slots \in Nat \ {0} /\ IdSpace \in Nat \ {0} /\ IdSpace % Slots = 0 /\ id \in 0 .. IdSpace - 1
    BY GroupAssumption, SlotsDivideIds DEF CollIds
  <1>2. CASE id + 1 < IdSpace
    <2>1. (id + 1) % IdSpace = id + 1
      BY <1>1, <1>2
    <2>2. NextId(id) + i = id + (i + 1)
      BY <1>1, <2>1 DEF NextId
    <2> QED BY <2>2
  <1>3. CASE id + 1 = IdSpace
    <2>1. NextId(id) = 0
      BY <1>1, <1>3 DEF NextId
    <2>2. (IdSpace + i) % Slots = i % Slots
      <3> DEFINE m == IdSpace \div Slots
                 q == i \div Slots
                 r == i % Slots
      <3>1. m \in Int /\ IdSpace = Slots * m
        BY <1>1, DivMod
      <3>2. q \in Int /\ r \in 0 .. Slots - 1 /\ i = Slots * q + r
        BY <1>1, DivMod
      <3> HIDE DEF m, q, r
      <3>3. IdSpace + i = Slots * (m + q) + r
        BY <1>1, <3>1, <3>2
      <3>4. (IdSpace + i) % Slots = r
        BY <1>1, <3>1, <3>2, <3>3, ModUnique
      <3> QED BY <3>4 DEF r
    <2> QED BY <1>1, <1>3, <2>1, <2>2 DEF SlotOf
  <1> QED BY <1>1, <1>2, <1>3

\* Different offsets within the window are different slots.
LEMMA WindowApart ==
  ASSUME NEW id \in CollIds, NEW i \in 1 .. Slots - 1
  PROVE  SlotOf(id + i) # SlotOf(id)
  <1>1. Slots \in Nat \ {0} /\ id \in Int
    BY GroupAssumption DEF CollIds
  <1>2. (id + i) % Slots # id % Slots
    BY <1>1, CloseApart
  <1> QED BY <1>2 DEF SlotOf

-----------------------------------------------------------------------------
\* A trigger into a free slot ends in one of four ways, and changes the records
\* of its slot and of its collective.
LEMMA OrderlyTrigger ==
  ASSUME TypeOK, Orderly, NEW op \in Ops, NEW o \in Outcomes, Trigger(op, o),
         NEW s \in SlotIds, s = SlotOf(next_id), ~ InUse(s)
  PROVE  /\ \A t \in SlotIds : t # s => slot'[t] = slot[t] /\ (InUse(t)' <=> InUse(t))
         /\ InUse(s)' <=> o # "ok"
         /\ slot'[s].op = op /\ slot'[s].coll_id = slot'[s].run_id
         /\ status' = [status EXCEPT ![op] = IF o = "ok" THEN "done" ELSE "running"]
         /\ is_barrier_outstanding' =
              IF op \in Barriers THEN o # "ok" ELSE is_barrier_outstanding
  <1>2. o \in {"ok"} \cup Armed \cup Blocked
    <2>1. o # "busy" /\ o # "error"
      BY DEF Trigger, InUse, Orderly
    <2> QED BY <2>1 DEF Outcomes, Armed, Blocked
  <1>3. slot' = [slot EXCEPT ![s] = [coll_id |-> next_id, cb |-> o \in Armed,
                                     op |-> op, run_id |-> next_id]]
    <2>1. SlotAfter(slot[s], op, o) = [coll_id |-> next_id, cb |-> o \in Armed,
                                       op |-> op, run_id |-> next_id]
      BY <1>2 DEF SlotAfter, Armed, Blocked
    <2> QED BY <2>1 DEF TypeOK, Trigger
  <1>4. /\ slot'[s].cb = (o \in Armed) /\ slot'[s].op = op
        /\ slot'[s].coll_id = slot'[s].run_id
        /\ \A t \in SlotIds : t # s => slot'[t] = slot[t]
    BY <1>3 DEF TypeOK
  <1>5. resend' = IF o \in Blocked THEN resend \cup {s} ELSE resend
    BY DEF Trigger
  <1>6. InUse(s)' <=> o # "ok"
    <2>1. CASE o = "ok"
      <3>1. o \notin Armed /\ o \notin Blocked
        BY <2>1 DEF Armed, Blocked
      <3>2. ~ slot'[s].cb /\ s \notin resend'
        BY <1>4, <1>5, <3>1, Zenon DEF InUse
      <3> QED BY <2>1, <3>2 DEF InUse
    <2>2. CASE o \in Armed
      <3>1. slot'[s].cb /\ o # "ok"
        BY <1>4, <2>2 DEF Armed
      <3> QED BY <3>1 DEF InUse
    <2>3. CASE o \in Blocked
      <3>1. s \in resend' /\ o # "ok"
        BY <1>5, <2>3 DEF Blocked
      <3> QED BY <3>1 DEF InUse
    <2> QED BY <1>2, <2>1, <2>2, <2>3
  <1>7. \A t \in SlotIds : t # s => (InUse(t)' <=> InUse(t))
    BY <1>4, <1>5 DEF InUse
  <1>8. status' = [status EXCEPT ![op] = IF o = "ok" THEN "done" ELSE "running"]
    BY <1>2 DEF Trigger, StatusAfter, Armed, Blocked
  <1>9. is_barrier_outstanding' =
          IF op \in Barriers THEN o # "ok" ELSE is_barrier_outstanding
    BY DEF Trigger
  <1> QED BY <1>4, <1>6, <1>7, <1>8, <1>9

\* A trigger under an open gate keeps slots, statuses and flag in agreement.
LEMMA TriggerAgrees ==
  ASSUME TypeOK, Orderly, SlotsAgree, NEW op \in Ops, NEW o \in Outcomes, Trigger(op, o),
         ~ InUse(SlotOf(next_id)), status[op] # "running", ~ is_barrier_outstanding
  PROVE  SlotsAgree'
  <1>0. PICK s \in SlotIds : s = SlotOf(next_id)
    BY IdRange DEF TypeOK
  <1>1. /\ \A t \in SlotIds : t # s => slot'[t] = slot[t] /\ (InUse(t)' <=> InUse(t))
        /\ InUse(s)' <=> o # "ok"
        /\ slot'[s].op = op /\ slot'[s].coll_id = slot'[s].run_id
        /\ status' = [status EXCEPT ![op] = IF o = "ok" THEN "done" ELSE "running"]
        /\ is_barrier_outstanding' =
             IF op \in Barriers THEN o # "ok" ELSE is_barrier_outstanding
    BY <1>0, OrderlyTrigger
  <1>2. /\ status'[op] = IF o = "ok" THEN "done" ELSE "running"
        /\ \A x \in Ops : x # op => status'[x] = status[x]
    BY <1>1 DEF TypeOK
  <1>3. ~ InUse(s)
    BY <1>0
  <1>4. \A t \in SlotIds : InUse(t) => slot[t].op # op
    BY DEF SlotsAgree, SlotsTell
  <1>5. SlotsTell'
    <2> SUFFICES ASSUME NEW t \in SlotIds, InUse(t)'
                 PROVE  /\ slot'[t].op \in Ops
                        /\ status'[slot'[t].op] = "running"
                        /\ slot'[t].coll_id = slot'[t].run_id
      BY DEF SlotsTell
    <2>1. CASE t = s
      BY <1>1, <1>2, <2>1
    <2>2. CASE t # s
      BY <1>1, <1>2, <1>4, <2>2 DEF SlotsAgree, SlotsTell
    <2> QED BY <2>1, <2>2
  <1>6. OneSlotEach'
    BY <1>1, <1>4 DEF SlotsAgree, OneSlotEach
  <1>7. RunningInSlot'
    <2> SUFFICES ASSUME NEW x \in Ops, status'[x] = "running"
                 PROVE  \E t \in SlotIds : InUse(t)' /\ slot'[t].op = x
      BY DEF RunningInSlot
    <2>1. CASE x = op
      BY <1>1, <1>2, <2>1
    <2>2. CASE x # op
      <3>1. PICK t \in SlotIds : InUse(t) /\ slot[t].op = x
        BY <1>2, <2>2 DEF SlotsAgree, RunningInSlot
      <3>2. t # s
        BY <1>3, <3>1
      <3> QED BY <1>1, <3>1, <3>2
    <2> QED BY <2>1, <2>2
  <1>8. BarrierFlagExact'
    <2>1. RunningBarriers = {}
      BY DEF SlotsAgree, BarrierFlagExact
    <2>2. \A b \in Barriers : b # op => status'[b] # "running"
      BY <1>2, <2>1, GroupAssumption DEF RunningBarriers
    <2>3. CASE op \in Barriers /\ o # "ok"
      <3>1. RunningBarriers' = {op}
        BY <1>2, <2>2, <2>3 DEF RunningBarriers
      <3> QED BY <1>1, <2>3, <3>1 DEF BarrierFlagExact
    <2>4. CASE ~ (op \in Barriers /\ o # "ok")
      <3>1. RunningBarriers' = {}
        BY <1>2, <2>2, <2>4 DEF RunningBarriers
      <3>2. ~ is_barrier_outstanding'
        BY <1>1, <2>4
      <3> QED BY <3>1, <3>2 DEF BarrierFlagExact
    <2> QED BY <2>3, <2>4
  <1> QED BY <1>5, <1>6, <1>7, <1>8 DEF SlotsAgree

\* A slot let go of ends its collective, and with it the barrier if it is one.
LEMMA EndAgrees ==
  ASSUME TypeOK, Orderly, SlotsAgree, NEW s \in SlotIds, InUse(s), frames = 0,
         slot' = [slot EXCEPT ![s].cb = FALSE], resend' = resend \ {s},
         status' = Ended(slot[s].op, "done"), ReleaseBarrier(slot[s].op)
  PROVE  SlotsAgree'
  <1> DEFINE op == slot[s].op
  <1>1. op \in Ops /\ status[op] = "running"
    BY DEF SlotsAgree, SlotsTell
  <1>2. /\ \A t \in SlotIds : t # s => slot'[t] = slot[t] /\ (InUse(t)' <=> InUse(t))
        /\ ~ InUse(s)'
    BY DEF TypeOK, InUse, SlotRecord
  <1>3. status'[op] = "done" /\ \A x \in Ops : x # op => status'[x] = status[x]
    BY <1>1 DEF TypeOK, Ended
  <1>4. \A t \in SlotIds : t # s /\ InUse(t) => slot[t].op # op
    BY DEF SlotsAgree, OneSlotEach
  <1>5. op \in Barriers => is_barrier_outstanding' = FALSE
    <2>1. ASSUME op \in Barriers PROVE op \in ZeroLen /\ is_barrier_outstanding
      BY <1>1, <2>1 DEF Orderly, SlotsAgree, BarrierFlagExact, RunningBarriers
    <2> QED BY <2>1, Zenon DEF ReleaseBarrier
  <1>6. op \notin Barriers => is_barrier_outstanding' = is_barrier_outstanding
    <2>1. op \notin Barriers => op \notin ZeroLen
      BY DEF Orderly
    <2> QED BY <2>1, Zenon DEF ReleaseBarrier
  <1> HIDE DEF op
  <1>7. SlotsTell'
    BY <1>2, <1>3, <1>4 DEF SlotsAgree, SlotsTell
  <1>8. OneSlotEach'
    BY <1>2 DEF SlotsAgree, OneSlotEach
  <1>9. RunningInSlot'
    <2> SUFFICES ASSUME NEW x \in Ops, status'[x] = "running"
                 PROVE  \E t \in SlotIds : InUse(t)' /\ slot'[t].op = x
      BY DEF RunningInSlot
    <2>1. x # op /\ status[x] = "running"
      BY <1>3
    <2>2. PICK t \in SlotIds : InUse(t) /\ slot[t].op = x
      BY <2>1 DEF SlotsAgree, RunningInSlot
    <2>3. t # s
      BY <2>1, <2>2 DEF op
    <2> QED BY <1>2, <2>2, <2>3
  <1>10. BarrierFlagExact'
    <2>1. CASE op \in Barriers
      <3>1. RunningBarriers = {op}
        BY <1>1, <2>1 DEF SlotsAgree, BarrierFlagExact, RunningBarriers
      <3>2. RunningBarriers' = {}
        BY <1>3, <2>1, <3>1, GroupAssumption DEF RunningBarriers
      <3> QED BY <1>5, <2>1, <3>2 DEF BarrierFlagExact
    <2>2. CASE op \notin Barriers
      <3>1. RunningBarriers' = RunningBarriers
        BY <1>3, <2>2, GroupAssumption DEF RunningBarriers
      <3> QED BY <1>6, <2>2, <3>1 DEF SlotsAgree, BarrierFlagExact
    <2> QED BY <2>1, <2>2
  <1> QED BY <1>7, <1>8, <1>9, <1>10 DEF SlotsAgree

\* Nothing changes as long as slots stay in use with the collectives they have.
LEMMA SameAgrees ==
  ASSUME SlotsAgree, is_barrier_outstanding' = is_barrier_outstanding,
         \A x \in Ops : status'[x] = "running" <=> status[x] = "running",
         \A t \in SlotIds : /\ InUse(t)' <=> InUse(t)
                            /\ slot'[t].op = slot[t].op
                            /\ slot'[t].coll_id = slot[t].coll_id
                            /\ slot'[t].run_id = slot[t].run_id
  PROVE  SlotsAgree'
  <1>1. SlotsTell' /\ OneSlotEach' /\ RunningInSlot'
    BY DEF SlotsAgree, SlotsTell, OneSlotEach, RunningInSlot
  <1>2. RunningBarriers' = RunningBarriers
    BY GroupAssumption DEF RunningBarriers
  <1>3. BarrierFlagExact'
    BY <1>2 DEF SlotsAgree, BarrierFlagExact
  <1> QED BY <1>1, <1>3 DEF SlotsAgree

\* The window moves on by one with each trigger; nothing else takes a slot.
LEMMA WindowMoves ==
  ASSUME TypeOK, Orderly, NEW op \in Ops, NEW o \in Outcomes, Trigger(op, o),
         NEW n \in Nat, n < Slots, \A i \in 0 .. n : ~ InUse(SlotOf(next_id + i))
  PROVE  \A i \in 0 .. n - 1 : ~ InUse(SlotOf(next_id + i))'
  <1> SUFFICES ASSUME NEW i \in 0 .. n - 1
               PROVE  ~ InUse(SlotOf(next_id + i))'
    OBVIOUS
  <1>1. next_id \in CollIds /\ next_id + 0 = next_id
    BY DEF TypeOK, CollIds
  <1>2. PICK s \in SlotIds : s = SlotOf(next_id)
    BY <1>1, IdRange
  <1>3. ~ InUse(s)
    <2>1. ~ InUse(SlotOf(next_id + 0))
      OBVIOUS
    <2> QED BY <1>1, <1>2, <2>1
  <1>4. PICK t : t = SlotOf(next_id + (i + 1))
    OBVIOUS
  <1>5. i + 1 \in 0 .. n /\ i + 1 \in 1 .. Slots - 1
    BY GroupAssumption
  <1>6. ~ InUse(t) /\ t # s
    BY <1>1, <1>2, <1>4, <1>5, WindowApart
  <1>7. t \in SlotIds
    BY <1>1, <1>4, <1>5, GroupAssumption DEF SlotOf, SlotIds, CollIds
  <1>8. ~ InUse(t)'
    BY <1>2, <1>3, <1>6, <1>7, OrderlyTrigger
  <1>9. next_id' = NextId(next_id)
    BY DEF Trigger
  <1>10. SlotOf(next_id' + i) = t
    BY <1>1, <1>4, <1>9, SlotAfterNext
  <1> QED BY <1>8, <1>10 DEF InUse

\* It stays free as long as no slot is taken.
LEMMA WindowStays ==
  ASSUME TypeOK, WindowFree, next_id' = next_id, pending' = pending,
         \A t \in SlotIds : InUse(t)' => InUse(t)
  PROVE  WindowFree'
  <1>1. Len(pending) \in Nat
    BY DEF TypeOK
  <1>2. ASSUME NEW i \in 0 .. Len(pending) - 1
        PROVE  ~ InUse(SlotOf(next_id + i))'
    <2>1. PICK t : t = SlotOf(next_id + i)
      OBVIOUS
    <2>2. t \in SlotIds
      BY <1>1, <2>1, GroupAssumption DEF TypeOK, SlotOf, SlotIds, CollIds
    <2>3. ~ InUse(t)
      BY <2>1 DEF WindowFree
    <2>4. ~ InUse(t)'
      BY <2>2, <2>3
    <2>5. SlotOf(next_id' + i) = t
      BY <2>1
    <2> QED BY <2>4, <2>5 DEF InUse
  <1> QED BY <1>2 DEF WindowFree

-----------------------------------------------------------------------------
\* A new group: no slot is in use and nothing has started.
LEMMA GateInit ==
  ASSUME Init
  PROVE  SlotsAgree /\ WindowFree
  <1>1. \A s \in SlotIds : ~ InUse(s)
    BY DEF Init, InUse
  <1>2. \A op \in Ops : status[op] = "idle"
    BY DEF Init
  <1>3. RunningBarriers = {} /\ ~ is_barrier_outstanding
    BY <1>2, GroupAssumption DEF Init, RunningBarriers
  <1>4. SlotsAgree
    BY <1>1, <1>2, <1>3 DEF SlotsAgree, SlotsTell, OneSlotEach, RunningInSlot, BarrierFlagExact
  <1>5. WindowFree
    <2>1. Len(pending) = 0
      BY DEF Init
    <2> QED BY <2>1, GroupAssumption DEF WindowFree
  <1> QED BY <1>4, <1>5

\* One step per action of the group; the parts shared by the actions are the lemmas above.
LEMMA GateStep ==
  ASSUME Orderly, TypeOK, QueueExact, GateOpenWhileReleasing, SlotsAgree, WindowFree, Next
  PROVE  SlotsAgree' /\ WindowFree'
  <1>0. Len(pending) \in Nat /\ next_id \in CollIds /\ next_id + 0 = next_id
    BY DEF TypeOK, CollIds
  <1>1. ASSUME NEW op \in Ops, NEW api \in {"nb", "nbr"}, StartPending(op, api)
        PROVE  SlotsAgree' /\ WindowFree'
    <2>1. /\ status[op] \in Unstarted /\ WithinWindow
          /\ pending' = Append(pending, op) /\ next_id' = next_id
          /\ slot' = slot /\ resend' = resend
          /\ is_barrier_outstanding' = is_barrier_outstanding
          /\ status' = [status EXCEPT ![op] = "pending"]
      BY <1>1 DEF StartPending, CallerMayStart, Orderly
    <2>2. \A t : InUse(t)' <=> InUse(t)
      BY <2>1 DEF InUse
    <2>3. \A x \in Ops : status'[x] = "running" <=> status[x] = "running"
      BY <2>1 DEF TypeOK, Unstarted
    <2>4. SlotsAgree'
      BY <2>1, <2>2, <2>3, SameAgrees
    <2>5. Len(pending') = Len(pending) + 1
      BY <2>1 DEF TypeOK
    <2>6. ASSUME NEW i \in 0 .. Len(pending)
          PROVE  ~ InUse(SlotOf(next_id + i))'
      <3>1. PICK t : t = SlotOf(next_id + i)
        OBVIOUS
      <3>2. ~ InUse(t)'
        BY <2>1, <2>2, <3>1 DEF WithinWindow
      <3>3. SlotOf(next_id' + i) = t
        BY <2>1, <3>1
      <3> QED BY <3>2, <3>3 DEF InUse
    <2>7. Len(pending') <= Slots
      BY <1>0, <2>1, <2>5, GroupAssumption DEF WithinWindow
    <2> QED BY <1>0, <2>4, <2>5, <2>6, <2>7 DEF WindowFree
  <1>2. ASSUME NEW op \in Ops, NEW o \in Outcomes, StartNow(op, o)
        PROVE  SlotsAgree' /\ WindowFree'
    <2>1. /\ status[op] # "running" /\ WithinWindow
          /\ ~ is_barrier_outstanding /\ Trigger(op, o) /\ pending' = pending
      BY <1>2 DEF StartNow, CallerMayStart, Orderly, Unstarted
    <2>2. Len(pending) < Slots /\ \A i \in 0 .. Len(pending) : ~ InUse(SlotOf(next_id + i))
      BY <2>1 DEF WithinWindow
    <2>3. ~ InUse(SlotOf(next_id))
      <3>1. ~ InUse(SlotOf(next_id + 0))
        BY <1>0, <2>2
      <3> QED BY <1>0, <3>1
    <2>4. SlotsAgree'
      BY <2>1, <2>3, TriggerAgrees
    <2>5. \A i \in 0 .. Len(pending) - 1 : ~ InUse(SlotOf(next_id + i))'
      BY <1>0, <2>1, <2>2, WindowMoves
    <2> QED BY <1>0, <2>1, <2>2, <2>4, <2>5, GroupAssumption DEF WindowFree
  <1>3. ASSUME NEW o \in Outcomes, ReleasePending(o)
        PROVE  SlotsAgree' /\ WindowFree'
    <2>1. /\ frames > 0 /\ pending # <<>>
          /\ pending' = Tail(pending) /\ Trigger(Head(pending), o)
      BY <1>3 DEF ReleasePending, PullNonEmpty
    <2>2. PICK op \in Ops : op = Head(pending) /\ op = pending[1]
      BY <2>1, HeadTailProperties DEF TypeOK
    <2>3. Len(pending) > 0 /\ Len(pending') = Len(pending) - 1
      BY <2>1 DEF TypeOK
    <2>4. status[op] = "pending"
      BY <1>0, <2>2, <2>3 DEF QueueExact
    <2>5. \A i \in 0 .. Len(pending) - 1 : ~ InUse(SlotOf(next_id + i))
      BY DEF WindowFree
    <2>6. ~ InUse(SlotOf(next_id))
      <3>1. ~ InUse(SlotOf(next_id + 0))
        BY <1>0, <2>3, <2>5
      <3> QED BY <1>0, <3>1
    <2>7. SlotsAgree'
      BY <2>1, <2>2, <2>4, <2>6, TriggerAgrees DEF GateOpenWhileReleasing
    <2>8. Len(pending) - 1 \in Nat /\ Len(pending) - 1 < Slots
      BY <1>0, <2>3, GroupAssumption DEF WindowFree
    <2>9. \A i \in 0 .. (Len(pending) - 1) - 1 : ~ InUse(SlotOf(next_id + i))'
      BY <2>1, <2>2, <2>5, <2>8, WindowMoves
    <2> QED BY <1>0, <2>3, <2>7, <2>8, <2>9, GroupAssumption DEF WindowFree
  <1>4. ASSUME NEW s \in SlotIds, Complete(s) \/ ResendCompletes(s)
        PROVE  SlotsAgree' /\ WindowFree'
    <2>1. /\ InUse(s) /\ frames = 0
          /\ slot' = [slot EXCEPT ![s].cb = FALSE] /\ resend' = resend \ {s}
          /\ status' = Ended(slot[s].op, "done") /\ ReleaseBarrier(slot[s].op)
          /\ pending' = pending /\ next_id' = next_id
      BY <1>4 DEF Complete, ResendCompletes, Deliverable, Resendable, InUse
    <2>2. SlotsAgree'
      BY <2>1, EndAgrees
    <2>3. \A t \in SlotIds : InUse(t)' => InUse(t)
      BY <2>1 DEF TypeOK, InUse
    <2> QED BY <2>1, <2>2, <2>3, WindowStays
  <1>5. ASSUME NEW s \in SlotIds, BlockLater(s) \/ ResendArms(s)
        PROVE  SlotsAgree' /\ WindowFree'
    <2>1. /\ InUse(s) /\ status' = status
          /\ is_barrier_outstanding' = is_barrier_outstanding
          /\ pending' = pending /\ next_id' = next_id
      BY <1>5 DEF BlockLater, ResendArms, Deliverable, Resendable, InUse
    <2>2. PICK cb \in BOOLEAN : slot' = [slot EXCEPT ![s].cb = cb]
      BY <1>5 DEF BlockLater, ResendArms
    <2>3. InUse(s)' /\ \A t \in SlotIds : t # s => (InUse(t)' <=> InUse(t))
      BY <1>5 DEF BlockLater, ResendArms, Resendable, InUse, TypeOK, SlotRecord
    <2>4. \A t \in SlotIds : /\ slot'[t].op = slot[t].op
                             /\ slot'[t].coll_id = slot[t].coll_id
                             /\ slot'[t].run_id = slot[t].run_id
      BY <2>2 DEF TypeOK, SlotRecord
    <2>5. \A t \in SlotIds : InUse(t)' <=> InUse(t)
      BY <2>1, <2>3
    <2> QED BY <2>1, <2>4, <2>5, SameAgrees, WindowStays
  <1>6. ASSUME NEW s \in SlotIds, FailLater(s) \/ ResendFails(s)
        PROVE  FALSE
    BY <1>6 DEF FailLater, ResendFails, Orderly
  <1>7. CASE DestroyCalled \/ Destroyed
    <2>1. /\ slot' = slot /\ resend' = resend /\ status' = status
          /\ is_barrier_outstanding' = is_barrier_outstanding
          /\ pending' = pending /\ next_id' = next_id
      BY <1>7 DEF DestroyCalled, Destroyed
    <2>2. \A t : InUse(t)' <=> InUse(t)
      BY <2>1 DEF InUse
    <2> QED BY <2>1, <2>2, SameAgrees, WindowStays
  <1> QED BY <1>1, <1>2, <1>3, <1>4, <1>5, <1>6, <1>7 DEF Next, Start, Release, Progress

-----------------------------------------------------------------------------
\* A stuttering step leaves the invariant alone.
LEMMA GateUnchanged ==
  ASSUME TypeOK, SlotsAgree, WindowFree, UNCHANGED vars
  PROVE  SlotsAgree' /\ WindowFree'
  <1>1. /\ slot' = slot /\ resend' = resend /\ status' = status
        /\ is_barrier_outstanding' = is_barrier_outstanding
        /\ pending' = pending /\ next_id' = next_id
    BY DEF vars
  <1>2. \A t : InUse(t)' <=> InUse(t)
    BY <1>1 DEF InUse
  <1> QED BY <1>1, <1>2, SameAgrees, WindowStays

\* Slots, statuses and flag agree, and the window is free, in every state.
LEMMA AlwaysAgree ==
  ASSUME Orderly
  PROVE  Spec => [](SlotsAgree /\ WindowFree)
  <1>1. Init => SlotsAgree /\ WindowFree
    BY GateInit
  <1>2. TypeOK /\ QueueExact /\ GateOpenWhileReleasing /\ (SlotsAgree /\ WindowFree)
          /\ [Next]_vars => (SlotsAgree /\ WindowFree)'
    BY GateStep, GateUnchanged
  <1> QED BY <1>1, <1>2, TypeCorrect, QueueAgrees, GateOpenAlways, PTL DEF Spec

\* The barrier flag is set exactly while a barrier is in progress, and there is
\* never a second one: for any number of collectives, slots and ids.
THEOREM FlagExact ==
  ASSUME Orderly
  PROVE  Spec => []BarrierFlagExact
  <1>1. SlotsAgree /\ WindowFree => BarrierFlagExact
    BY DEF SlotsAgree
  <1> QED BY <1>1, AlwaysAgree, PTL

\* Messages still find the collective they are for: as long as it runs it has a
\* slot, under the id its peers use.
THEOREM SlotKept ==
  ASSUME Orderly
  PROVE  Spec => []RunningOwnsSlot
  <1>1. SlotsAgree /\ WindowFree => RunningOwnsSlot
    BY DEF SlotsAgree, SlotsTell, RunningInSlot, RunningOwnsSlot
  <1> QED BY <1>1, AlwaysAgree, PTL

\* No collective enters a slot while a barrier is in progress.
THEOREM GateKept ==
  ASSUME Orderly
  PROVE  Spec => NoStartDuringBarrier
  <1>1. GateOpenWhileReleasing /\ TypeOK /\ (SlotsAgree /\ WindowFree) /\ [Next]_vars
          => [RunningBarriers # {} => \A s \in SlotIds : slot'[s].op = slot[s].op]_vars
    <2> SUFFICES ASSUME GateOpenWhileReleasing, TypeOK, SlotsAgree, Next,
                        RunningBarriers # {}, NEW s \in SlotIds
                 PROVE  slot'[s].op = slot[s].op
      OBVIOUS
    <2>1. is_barrier_outstanding
      BY DEF SlotsAgree, BarrierFlagExact
    <2>3. ~ (frames > 0)
      BY <2>1 DEF GateOpenWhileReleasing
    <2>4. ASSUME NEW op \in Ops, NEW api \in {"nb", "nbr"}, StartPending(op, api)
          PROVE  slot' = slot
      BY <2>4 DEF StartPending
    <2>5. ASSUME NEW op \in Ops, NEW o \in Outcomes, StartNow(op, o)
          PROVE  FALSE
      BY <2>1, <2>5 DEF StartNow
    <2>6. ASSUME NEW o \in Outcomes, ReleasePending(o)
          PROVE  FALSE
      BY <2>3, <2>6 DEF ReleasePending
    <2>7. ASSUME NEW t \in SlotIds, Progress(t)
          PROVE  slot'[s].op = slot[s].op
      <3>1. PICK cb \in BOOLEAN : slot' = [slot EXCEPT ![t].cb = cb]
        BY <2>7 DEF Progress, Complete, FailLater, BlockLater, ResendArms, ResendCompletes,
                    ResendFails
      <3> QED BY <3>1 DEF TypeOK, SlotRecord
    <2>8. CASE DestroyCalled \/ Destroyed
      BY <2>8 DEF DestroyCalled, Destroyed
    <2> QED BY <2>4, <2>5, <2>6, <2>7, <2>8 DEF Next, Start, Release
  <1> QED BY <1>1, AlwaysAgree, TypeCorrect, GateOpenAlways, PTL DEF Spec, NoStartDuringBarrier

-----------------------------------------------------------------------------
(***************************************************************************)
(* The group implements the gate, as far as safety goes: the steps that    *)
(* start, admit and finish are those of BarrierGate, and the others are not*)
(* seen there.  The one exception is a start that overtakes what the       *)
(* release loop left in the queue; it takes three outstanding collectives. *)
(***************************************************************************)
Active == {op \in Ops : status[op] = "running"}

\* A collective begins under an open gate before those that wait.
Overtakes(op) ==
  /\ ~ Gate!Shut
  /\ pending # <<>>
  /\ Gate!Idle(op)
  /\ Active' = Active \cup {op}
  /\ pending' = pending

GateStepOr == Gate!Next \/ \E op \in Ops : Overtakes(op)

\* The flag says what the gate calls shut.
LEMMA ShutIsFlag ==
  ASSUME SlotsAgree
  PROVE  Gate!Shut <=> is_barrier_outstanding
  <1>1. Active \cap Barriers = RunningBarriers
    BY GroupAssumption DEF Active, RunningBarriers
  <1>2. is_barrier_outstanding <=> RunningBarriers # {}
    BY DEF SlotsAgree, BarrierFlagExact
  <1> QED BY <1>1, <1>2 DEF Gate!Shut, Active

\* A collective that may be started is idle at the gate.
LEMMA UnstartedIdle ==
  ASSUME TypeOK, QueueExact, NEW op \in Ops, status[op] \in Unstarted
  PROVE  Gate!Idle(op)
  <1>1. status[op] # "running" /\ status[op] # "pending"
    BY DEF Unstarted
  <1>2. DOMAIN pending = 1 .. Len(pending)
    BY DEF TypeOK
  <1> QED BY <1>1, <1>2 DEF Gate!Idle, QueueExact

\* A trigger makes its collective active or leaves the active ones alone.
LEMMA TriggerActive ==
  ASSUME TypeOK, Orderly, NEW op \in Ops, NEW o \in Outcomes, Trigger(op, o),
         ~ InUse(SlotOf(next_id)), status[op] # "running"
  PROVE  Active' = IF o = "ok" THEN Active ELSE Active \cup {op}
  <1>1. PICK s \in SlotIds : s = SlotOf(next_id)
    BY IdRange DEF TypeOK
  <1>2. status' = [status EXCEPT ![op] = IF o = "ok" THEN "done" ELSE "running"]
    BY <1>1, OrderlyTrigger
  <1> QED BY <1>2 DEF Active, TypeOK

\* One step per action: what the gate sees of it.
LEMMA GateSees ==
  ASSUME Orderly, TypeOK, QueueExact, GateOpenWhileReleasing, SlotsAgree, WindowFree, Next
  PROVE  GateStepOr \/ (Active' = Active /\ pending' = pending)
  <1>0. Len(pending) \in Nat /\ next_id \in CollIds /\ next_id + 0 = next_id
    BY DEF TypeOK, CollIds
  <1>1. ASSUME NEW op \in Ops, NEW api \in {"nb", "nbr"}, StartPending(op, api)
        PROVE  Gate!Wait(op)
    <2>1. Gate!Shut /\ Gate!Idle(op)
      BY <1>1, ShutIsFlag, UnstartedIdle DEF StartPending, CallerMayStart
    <2>2. status[op] # "running" /\ status' = [status EXCEPT ![op] = "pending"]
      BY <1>1 DEF StartPending, CallerMayStart, Unstarted
    <2>3. Active' = Active
      BY <2>2 DEF Active, TypeOK
    <2>4. pending' = Append(pending, op)
      BY <1>1 DEF StartPending
    <2> QED BY <2>1, <2>3, <2>4 DEF Gate!Wait, Active
  <1>2. ASSUME NEW op \in Ops, NEW o \in Outcomes, StartNow(op, o)
        PROVE  Gate!Begin(op) \/ Overtakes(op) \/ (Active' = Active /\ pending' = pending)
    <2>1. /\ status[op] \in Unstarted /\ WithinWindow
          /\ ~ is_barrier_outstanding /\ Trigger(op, o) /\ pending' = pending
      BY <1>2 DEF StartNow, CallerMayStart, Orderly
    <2>2. ~ Gate!Shut /\ Gate!Idle(op)
      BY <2>1, ShutIsFlag, UnstartedIdle
    <2>3. ~ InUse(SlotOf(next_id))
      <3>1. ~ InUse(SlotOf(next_id + 0))
        BY <1>0, <2>1 DEF WithinWindow
      <3> QED BY <1>0, <3>1
    <2>4. Active' = IF o = "ok" THEN Active ELSE Active \cup {op}
      BY <2>1, <2>3, TriggerActive DEF Unstarted
    <2>5. CASE o = "ok"
      BY <2>1, <2>4, <2>5
    <2>6. CASE o # "ok" /\ pending = <<>>
      <3>1. Gate!Begin(op)
        BY <2>1, <2>2, <2>4, <2>6 DEF Gate!Begin, Active
      <3> QED BY <3>1
    <2>7. CASE o # "ok" /\ pending # <<>>
      <3>1. Overtakes(op)
        BY <2>1, <2>2, <2>4, <2>7 DEF Overtakes
      <3> QED BY <3>1
    <2> QED BY <2>5, <2>6, <2>7
  <1>3. ASSUME NEW o \in Outcomes, ReleasePending(o)
        PROVE  Gate!Admit
    <2>1. /\ frames > 0 /\ pending # <<>>
          /\ pending' = Tail(pending) /\ Trigger(Head(pending), o)
      BY <1>3 DEF ReleasePending, PullNonEmpty
    <2>2. PICK op \in Ops : op = Head(pending) /\ op = pending[1]
      BY <2>1, HeadTailProperties DEF TypeOK
    <2>3. Len(pending) > 0
      BY <2>1 DEF TypeOK
    <2>4. status[op] # "running"
      BY <1>0, <2>2, <2>3 DEF QueueExact
    <2>5. ~ InUse(SlotOf(next_id))
      <3>1. ~ InUse(SlotOf(next_id + 0))
        BY <1>0, <2>3 DEF WindowFree
      <3> QED BY <1>0, <3>1
    <2>6. Active' = IF o = "ok" THEN Active ELSE Active \cup {op}
      BY <2>1, <2>2, <2>4, <2>5, TriggerActive
    <2>7. Active' \in {Active, Active \cup {Head(pending)}}
      BY <2>2, <2>6
    <2>8. ~ Gate!Shut
      BY <2>1, ShutIsFlag DEF GateOpenWhileReleasing
    <2> QED BY <2>1, <2>7, <2>8 DEF Gate!Admit, Active
  <1>4. ASSUME NEW s \in SlotIds, Complete(s) \/ ResendCompletes(s)
        PROVE  \E op \in Ops : Gate!Finish(op)
    <2>1. /\ InUse(s) /\ pending' = pending /\ status' = Ended(slot[s].op, "done")
      BY <1>4 DEF Complete, ResendCompletes, Deliverable, Resendable, InUse
    <2>2. PICK op \in Ops : op = slot[s].op /\ status[op] = "running"
      BY <2>1 DEF SlotsAgree, SlotsTell
    <2>3. status' = [status EXCEPT ![op] = IF @ = "running" THEN "done" ELSE @]
      BY <2>1, <2>2 DEF Ended
    <2>4. op \in Active /\ Active' = Active \ {op}
      BY <2>2, <2>3 DEF Active, TypeOK
    <2> QED BY <2>1, <2>4 DEF Gate!Finish, Active
  <1>5. ASSUME NEW s \in SlotIds, BlockLater(s) \/ ResendArms(s)
        PROVE  Active' = Active /\ pending' = pending
    BY <1>5 DEF BlockLater, ResendArms, Active
  <1>6. ASSUME NEW s \in SlotIds, FailLater(s) \/ ResendFails(s)
        PROVE  FALSE
    BY <1>6 DEF FailLater, ResendFails, Orderly
  <1>7. CASE DestroyCalled \/ Destroyed
    BY <1>7 DEF DestroyCalled, Destroyed, Active
  <1>8. CASE \E op \in Ops, api \in {"nb", "nbr"} : StartPending(op, api)
    BY <1>1, <1>8 DEF GateStepOr, Gate!Next
  <1>9. CASE \E op \in Ops, o \in Outcomes : StartNow(op, o)
    BY <1>2, <1>9 DEF GateStepOr, Gate!Next
  <1>10. CASE Release
    BY <1>3, <1>10 DEF Release, GateStepOr, Gate!Next
  <1>11. CASE \E s \in SlotIds : Progress(s)
    BY <1>4, <1>5, <1>6, <1>11 DEF Progress, GateStepOr, Gate!Next
  <1> QED BY <1>7, <1>8, <1>9, <1>10, <1>11 DEF Next, Start

\* With any number of collectives outstanding, every step of the group is one
\* of the gate or a start that overtakes the queue: nothing begins under a
\* barrier, nothing is admitted out of order, lost or admitted twice.
THEOREM GateButForOvertaking ==
  ASSUME Orderly
  PROVE  Spec => Gate!Init /\ [][GateStepOr]_(Gate!vars)
  <1>1. Init => Gate!Init
    BY DEF Init, Gate!Init
  <1>2. TypeOK /\ QueueExact /\ GateOpenWhileReleasing /\ (SlotsAgree /\ WindowFree)
          /\ [Next]_vars => [GateStepOr]_(Gate!vars)
    <2>1. UNCHANGED vars => UNCHANGED Gate!vars
      BY DEF vars, Gate!vars
    <2>2. Active' = Active /\ pending' = pending => UNCHANGED Gate!vars
      BY DEF Active, Gate!vars
    <2> QED BY <2>1, <2>2, GateSees
  <1> QED BY <1>1, <1>2, TypeCorrect, QueueAgrees, GateOpenAlways, AlwaysAgree, PTL DEF Spec

-----------------------------------------------------------------------------
(***************************************************************************)
(* A caller with no more than two collectives outstanding leaves nothing in*)
(* the queue: behind a barrier there is room for one.                      *)
(***************************************************************************)
TwoAtMost == Orderly /\ MaxOutstanding <= 2

RoomForOne == IsFiniteSet(Outstanding) /\ Len(pending) <= 1 /\ QueueServed

\* Starting a collective adds no other to the outstanding ones.
LEMMA OutstandingGrows ==
  ASSUME TypeOK, IsFiniteSet(Outstanding), NEW op \in Ops,
         \A x \in Ops : x # op => (status'[x] \notin Unstarted => status[x] \notin Unstarted)
  PROVE  IsFiniteSet(Outstanding')
  <1>1. IsFiniteSet(Outstanding \cup {op})
    BY FS_AddElement
  <1>2. Outstanding' \in SUBSET (Outstanding \cup {op})
    BY DEF Outstanding
  <1> QED BY <1>1, <1>2, FS_Subset

\* A step that starts none adds none.
LEMMA OutstandingShrinks ==
  ASSUME IsFiniteSet(Outstanding),
         \A x \in Ops : status'[x] \notin Unstarted => status[x] \notin Unstarted
  PROVE  IsFiniteSet(Outstanding')
  <1>1. Outstanding' \in SUBSET Outstanding
    BY DEF Outstanding
  <1> QED BY <1>1, FS_Subset

\* The end of a collective starts none.
LEMMA EndedStartsNone ==
  ASSUME TypeOK, NEW op, status' = Ended(op, "done"), NEW x \in Ops,
         status'[x] \notin Unstarted
  PROVE  status[x] \notin Unstarted
  BY DEF TypeOK, Ended, Unstarted

\* Behind a barrier only one collective may be started, and only into an empty queue.
LEMMA WaitsAlone ==
  ASSUME TwoAtMost, TypeOK, QueueExact, SlotsAgree, RoomForOne,
         NEW op \in Ops, CallerMayStart(op), is_barrier_outstanding
  PROVE  pending = <<>>
  <1> SUFFICES ASSUME pending # <<>> PROVE FALSE
    OBVIOUS
  <1>1. PICK b \in Barriers : status[b] = "running"
    BY DEF SlotsAgree, BarrierFlagExact, RunningBarriers
  <1>2. PICK w \in Ops : status[w] = "pending"
    <2>1. pending[1] \in Ops /\ 1 \in 1 .. Len(pending)
      BY DEF TypeOK
    <2> QED BY <2>1 DEF QueueExact
  <1>3. b \in Outstanding /\ w \in Outstanding /\ b # w
    BY <1>1, <1>2, GroupAssumption DEF Outstanding, Unstarted
  <1>4. IsFiniteSet({b, w}) /\ Cardinality({b, w}) = 2
    <2>1. IsFiniteSet({b}) /\ Cardinality({b}) = 1
      BY FS_Singleton
    <2>2. {b, w} = {b} \cup {w} /\ w \notin {b}
      BY <1>3
    <2>3. IsFiniteSet({b} \cup {w}) /\ Cardinality({b} \cup {w}) = Cardinality({b}) + 1
      BY <2>1, <2>2, FS_AddElement
    <2> QED BY <2>1, <2>2, <2>3
  <1>5. Cardinality(Outstanding) >= 2 /\ Cardinality(Outstanding) \in Nat
    <2>1. {b, w} \in SUBSET Outstanding /\ IsFiniteSet(Outstanding)
      BY <1>3 DEF RoomForOne
    <2>2. Cardinality({b, w}) <= Cardinality(Outstanding)
      BY <2>1, FS_Subset
    <2>3. Cardinality(Outstanding) \in Nat
      BY <2>1, FS_CardinalityType
    <2> QED BY <1>4, <2>2, <2>3
  <1> QED BY <1>5, GroupAssumption DEF CallerMayStart, TwoAtMost

\* One step per action that touches the queue, the flag or the loop.
LEMMA RoomStep ==
  ASSUME TwoAtMost, TypeOK, QueueExact, GateOpenWhileReleasing, SlotsAgree, WindowFree,
         RoomForOne, Next
  PROVE  RoomForOne'
  <1>0. Len(pending) \in Nat /\ IsFiniteSet(Outstanding) /\ Orderly
    BY DEF TypeOK, RoomForOne, TwoAtMost
  <1>1. ASSUME NEW op \in Ops, NEW api \in {"nb", "nbr"}, StartPending(op, api)
        PROVE  RoomForOne'
    <2>1. /\ CallerMayStart(op) /\ is_barrier_outstanding /\ is_barrier_outstanding'
          /\ pending' = Append(pending, op) /\ status' = [status EXCEPT ![op] = "pending"]
      BY <1>1 DEF StartPending
    <2>2. pending = <<>>
      BY <2>1, WaitsAlone
    <2>3. Len(pending') <= 1
      BY <2>1, <2>2
    <2>4. \A x \in Ops : x # op => status'[x] = status[x]
      BY <2>1 DEF TypeOK
    <2>5. IsFiniteSet(Outstanding')
      BY <1>0, <2>4, OutstandingGrows
    <2> QED BY <2>1, <2>3, <2>5 DEF RoomForOne, QueueServed
  <1>2. ASSUME NEW op \in Ops, NEW o \in Outcomes, StartNow(op, o)
        PROVE  RoomForOne'
    <2>1. ~ is_barrier_outstanding /\ frames = 0 /\ pending' = pending /\ Trigger(op, o)
      BY <1>2 DEF StartNow, CallerMayStart
    <2>2. pending = <<>>
      BY <2>1 DEF RoomForOne, QueueServed
    <2>3. \A x \in Ops : x # op => status'[x] = status[x]
      BY <2>1, TriggerSettles
    <2>4. IsFiniteSet(Outstanding')
      BY <1>0, <2>3, OutstandingGrows
    <2> QED BY <2>1, <2>2, <2>4 DEF RoomForOne, QueueServed
  <1>3. ASSUME NEW o \in Outcomes, ReleasePending(o)
        PROVE  RoomForOne'
    <2>1. pending # <<>> /\ pending' = Tail(pending) /\ Trigger(Head(pending), o)
      BY <1>3 DEF ReleasePending, PullNonEmpty
    <2>2. Len(pending) = 1 /\ pending \in Seq(Ops)
      <3>1. Len(pending) > 0 /\ pending \in Seq(Ops)
        BY <2>1, HeadTailProperties DEF TypeOK
      <3>2. Len(pending) <= 1
        BY DEF RoomForOne
      <3>3. Len(pending) \in Nat
        BY DEF TypeOK
      <3>4. \A n \in Nat : n > 0 /\ n <= 1 => n = 1
        OBVIOUS
      <3> QED BY <3>1, <3>2, <3>3, <3>4, Zenon
    <2>3. Len(pending') = 0 /\ pending' = <<>>
      BY <2>1, <2>2
    <2>4. PICK op \in Ops : op = Head(pending)
      BY <2>1, HeadTailProperties DEF TypeOK
    <2>5. \A x \in Ops : x # op => status'[x] = status[x]
      BY <2>1, <2>4, TriggerSettles
    <2>6. IsFiniteSet(Outstanding')
      BY <1>0, <2>5, OutstandingGrows
    <2> QED BY <2>3, <2>6 DEF RoomForOne, QueueServed
  <1>4. ASSUME NEW s \in SlotIds, Complete(s) \/ ResendCompletes(s)
        PROVE  RoomForOne'
    <2>1. /\ frames = 0 /\ pending' = pending /\ status' = Ended(slot[s].op, "done")
          /\ ReleaseBarrier(slot[s].op)
      BY <1>4 DEF Complete, ResendCompletes, Deliverable, Resendable
    <2>2. IsFiniteSet(Outstanding')
      BY <1>0, <2>1, OutstandingShrinks, EndedStartsNone
    <2>3. QueueServed'
      <3>1. CASE slot[s].op \in ZeroLen /\ is_barrier_outstanding
        <4>1. frames' = IF pending = <<>> THEN 0 ELSE 1
          BY <2>1, <3>1, Zenon DEF ReleaseBarrier
        <4> QED BY <2>1, <4>1 DEF QueueServed
      <3>2. CASE ~ (slot[s].op \in ZeroLen /\ is_barrier_outstanding)
        <4>1. is_barrier_outstanding' = is_barrier_outstanding /\ frames' = frames
          BY <2>1, <3>2, Zenon DEF ReleaseBarrier
        <4> QED BY <2>1, <4>1 DEF RoomForOne, QueueServed
      <3> QED BY <3>1, <3>2
    <2> QED BY <2>1, <2>2, <2>3 DEF RoomForOne
  <1>5. ASSUME NEW s \in SlotIds, BlockLater(s) \/ ResendArms(s)
        PROVE  RoomForOne'
    <2>1. /\ status' = status /\ pending' = pending /\ frames' = frames
          /\ is_barrier_outstanding' = is_barrier_outstanding
      BY <1>5 DEF BlockLater, ResendArms
    <2> QED BY <2>1 DEF RoomForOne, QueueServed, Outstanding
  <1>6. ASSUME NEW s \in SlotIds, FailLater(s) \/ ResendFails(s)
        PROVE  FALSE
    BY <1>0, <1>6 DEF FailLater, ResendFails, Orderly
  <1>7. CASE DestroyCalled \/ Destroyed
    BY <1>7 DEF DestroyCalled, Destroyed, RoomForOne, QueueServed, Outstanding
  <1> QED BY <1>1, <1>2, <1>3, <1>4, <1>5, <1>6, <1>7 DEF Next, Start, Release, Progress

\* While the release loop runs, nothing else happens: each step shortens the queue.
LEMMA LoopOnlyPulls ==
  ASSUME TypeOK, frames > 0, Next
  PROVE  pending' # pending
  <1>1. PICK o \in Outcomes : ReleasePending(o)
    <2>1. frames # 0
      BY DEF TypeOK
    <2> QED BY <2>1 DEF Next, Start, Release, StartPending, StartNow, CallerMayStart, Progress,
                 Complete, FailLater, BlockLater, ResendArms, ResendCompletes, ResendFails,
                 Deliverable, Resendable, DestroyCalled, Destroyed
  <1>2. Len(pending') = Len(pending) - 1 /\ Len(pending) \in Nat
    BY <1>1 DEF ReleasePending, PullNonEmpty, TypeOK
  <1> QED BY <1>2

\* With two collectives outstanding at most, there is always room for one.
LEMMA AlwaysRoom ==
  ASSUME TwoAtMost
  PROVE  Spec => []RoomForOne
  <1>1. Init => RoomForOne
    <2> SUFFICES ASSUME Init PROVE RoomForOne
      OBVIOUS
    <2>1. Outstanding = {}
      BY DEF Init, Outstanding, Unstarted
    <2> QED BY <2>1, FS_EmptySet DEF Init, RoomForOne, QueueServed
  <1>2. TypeOK /\ QueueExact /\ GateOpenWhileReleasing /\ (SlotsAgree /\ WindowFree)
          /\ RoomForOne /\ [Next]_vars => RoomForOne'
    <2>1. RoomForOne /\ UNCHANGED vars => RoomForOne'
      BY DEF vars, RoomForOne, QueueServed, Outstanding
    <2> QED BY <2>1, RoomStep
  <1>3. Orderly
    BY DEF TwoAtMost
  <1> QED BY <1>1, <1>2, <1>3, TypeCorrect, QueueAgrees, GateOpenAlways, AlwaysAgree, PTL DEF Spec

\* What waits behind a barrier is looked at again by the end of the barrier or
\* by the loop that is running; nothing is stranded.
THEOREM NothingStranded ==
  ASSUME TwoAtMost
  PROVE  Spec => []QueueServed
  <1>1. RoomForOne => QueueServed
    BY DEF RoomForOne
  <1> QED BY <1>1, AlwaysRoom, PTL

\* The group implements the gate: with at most two collectives outstanding a
\* start never overtakes, and every step is one of the gate's.
THEOREM GateImplemented ==
  ASSUME TwoAtMost
  PROVE  Spec => Gate!Safety
  <1>1. Init => Gate!Init
    BY DEF Init, Gate!Init
  <1>2. TypeOK /\ QueueExact /\ GateOpenWhileReleasing /\ (SlotsAgree /\ WindowFree)
          /\ RoomForOne /\ [Next]_vars => [Gate!Next]_(Gate!vars)
    <2> SUFFICES ASSUME TypeOK, QueueExact, GateOpenWhileReleasing, SlotsAgree, WindowFree,
                        RoomForOne, [Next]_vars
                 PROVE  [Gate!Next]_(Gate!vars)
      OBVIOUS
    <2>1. CASE UNCHANGED vars
      BY <2>1 DEF vars, Gate!vars
    <2>2. CASE Next
      <3>1. GateStepOr \/ (Active' = Active /\ pending' = pending)
        BY <2>2, GateSees DEF TwoAtMost
      <3>2. CASE Active' = Active /\ pending' = pending
        BY <3>2 DEF Active, Gate!vars
      <3>3. ASSUME NEW op \in Ops, Overtakes(op)
            PROVE  [Gate!Next]_(Gate!vars)
        <4>1. pending # <<>> /\ ~ is_barrier_outstanding /\ pending' = pending
          BY <3>3, ShutIsFlag DEF Overtakes
        <4>2. frames > 0
          BY <4>1 DEF RoomForOne, QueueServed
        <4> QED BY <2>2, <4>1, <4>2, LoopOnlyPulls
      <3> QED BY <3>1, <3>2, <3>3 DEF GateStepOr
    <2> QED BY <2>1, <2>2
  <1>3. Orderly
    BY DEF TwoAtMost
  <1> QED BY <1>1, <1>2, <1>3, TypeCorrect, QueueAgrees, GateOpenAlways, AlwaysAgree,
             AlwaysRoom, PTL DEF Spec, Gate!Safety

=============================================================================
