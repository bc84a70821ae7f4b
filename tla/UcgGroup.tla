------------------------------- MODULE UcgGroup -------------------------------
(***************************************************************************)
(* One process's view of a group (src/base/ucg_group.c): the barrier gate  *)
(* in front of ucg_collective_start, the queue of collectives waiting      *)
(* behind it, the cyclic collective id, and the window of slots in which   *)
(* the builtin planner runs collectives (ucg_builtin_op_trigger).  What a  *)
(* collective exchanges with its peers is abstracted to the outcomes the   *)
(* step engine (module StepEngine) can have.                               *)
(*                                                                         *)
(* The process is single threaded (UCP_WORKER_THREAD_CS), so a call into   *)
(* the library runs to its end.  The one loop in it, the do-while of       *)
(* ucg_collective_release_barrier, is unrolled: frames counts the          *)
(* activations of that function now on the call stack, and while it is     *)
(* positive only ReleasePending is enabled.                                *)
(*                                                                         *)
(* An operator defined just above the one that models the code, and used   *)
(* nowhere, is a plausible mistake in that code: PROJECT.json pairs it with*)
(* the property that tells the two apart.                                  *)
(***************************************************************************)
EXTENDS Integers, Sequences, FiniteSets

CONSTANTS
  Ops,             \* collective operation handles (ucg_coll_h)
  Barriers,        \* those with UCG_GROUP_COLLECTIVE_MODIFIER_BARRIER
  ZeroLen,         \* those whose last step moves no data
  Slots,           \* UCG_BUILTIN_MAX_CONCURRENT_OPS (16 in the code)
  IdSpace,         \* number of values of ucg_coll_id_t (256 in the code)
  NoOp,            \* slot->req.op of a slot never used
  MaxOutstanding,  \* collectives the caller keeps unfinished at once
  Careful,         \* the caller waits for a collective before it starts the
                   \* one Slots ids later, and for all before it destroys
                   \* the group
  MayFail          \* a send, registration or init callback may fail for good

ASSUME GroupAssumption ==
  /\ Barriers \subseteq ZeroLen
  /\ ZeroLen \subseteq Ops
  /\ NoOp \notin Ops
  /\ Slots \in Nat \ {0}
  /\ IdSpace \in Nat \ {0}
  /\ MaxOutstanding \in Nat \ {0}
  /\ Careful \in BOOLEAN
  /\ MayFail \in BOOLEAN

\* The slot of an id does not change at the wrap-around of the id.
ASSUME SlotsDivideIds == IdSpace % Slots = 0

VARIABLES
  is_barrier_outstanding,  \* group->is_barrier_outstanding
  pending,                 \* group->pending
  next_id,                 \* group->next_id
  slot,                    \* the group's slots: coll_id, cb # NULL, req.op, and
                           \* the id run_id its peers know req.op by
  resend,                  \* slots whose request is on gctx->send_head
  status,                  \* where each collective stands
  told,                    \* what the last ucg_collective_start_nb(r) returned
  frames,                  \* activations of release_barrier on the stack
  life                     \* of the group

vars == <<is_barrier_outstanding, pending, next_id, slot, resend, status, told,
          frames, life>>

SlotIds   == 0 .. Slots - 1
CollIds   == 0 .. IdSpace - 1
Statuses  == {"idle", "pending", "running", "done", "error"}
Unstarted == {"idle", "done", "error"}
Outcomes  == {"ok", "armed", "blocked", "blocked_armed", "error", "busy"}
Blocked   == {"blocked", "blocked_armed"}
Armed     == {"armed", "blocked_armed"}

Outstanding == {op \in Ops : status[op] \notin Unstarted}

Init ==
  /\ is_barrier_outstanding = FALSE
  /\ pending = <<>>
  /\ next_id = 0
  /\ slot = [s \in SlotIds |-> [coll_id |-> 0, cb |-> FALSE, op |-> NoOp, run_id |-> 0]]
  /\ resend = {}
  /\ status = [op \in Ops |-> "idle"]
  /\ told = [op \in Ops |-> "nothing"]
  /\ frames = 0
  /\ life = "open"

-----------------------------------------------------------------------------
SlotOf(id) == id % Slots

NextIdUnbounded(id) == id + 1
NextId(id) == (id + 1) % IdSpace

\* A slot in use: its callback is set, or its request waits to be resent.
InUse(s) == slot[s].cb \/ s \in resend

StatusAfter(o) == CASE o = "ok" -> "done"
                    [] o \in Armed \cup Blocked -> "running"
                    [] o \in {"error", "busy"} -> "error"

\* A slot's record after the trigger of op with outcome o: the coll_id is
\* written before the callback is looked at, the request only after.
SlotAfterWithoutId(r, op, o) ==
  [coll_id |-> r.coll_id, cb |-> o \in Armed, op |-> op, run_id |-> next_id]
SlotAfter(r, op, o) ==
  IF o = "busy"
    THEN [r EXCEPT !.coll_id = next_id]
    ELSE [coll_id |-> next_id, cb |-> o \in Armed, op |-> op, run_id |-> next_id]

(***************************************************************************)
(* ucg_collective_trigger and ucg_builtin_op_trigger with outcome o:       *)
(*   "busy"    the slot's callback is set, the start fails;                *)
(*   "error"   the init or optimisation callback, or the first send, fails;*)
(*   "armed"   the operation waits for messages, callback set;             *)
(*   "blocked" a send has no resources and is queued to be resent, callback*)
(*             NULL;  "blocked_armed" the same in a step that had received *)
(*             first, callback still set;                                  *)
(*   "ok"      it is complete before the call returns.                     *)
(* A barrier complete inside the call has also run release_barrier.        *)
(***************************************************************************)
Trigger(op, o) ==
  LET s == SlotOf(next_id)
  IN  /\ (o = "busy") <=> slot[s].cb
      /\ o = "error" => MayFail
      /\ next_id' = NextId(next_id)
      /\ is_barrier_outstanding' =
           IF op \in Barriers THEN o # "ok" ELSE is_barrier_outstanding
      /\ status' = [status EXCEPT ![op] = StatusAfter(o)]
      /\ slot' = [slot EXCEPT ![s] = SlotAfter(@, op, o)]
      /\ resend' = IF o \in Blocked THEN resend \cup {s} ELSE resend

\* The slots the waiting collectives, and one more, are about to take.
WithinWindow ==
  /\ Len(pending) < Slots
  /\ \A i \in 0 .. Len(pending) : ~ InUse(SlotOf(next_id + i))

CallerMayStart(op) ==
  /\ life = "open"
  /\ frames = 0
  /\ status[op] \in Unstarted
  /\ Cardinality(Outstanding) < MaxOutstanding
  /\ Careful => WithinWindow

\* ucg_collective_start behind an outstanding barrier.  ucg_collective_start_nb
\* returns the request it never got: NULL, which is UCS_OK.
StartPending(op, api) ==
  /\ CallerMayStart(op)
  /\ is_barrier_outstanding
  /\ pending' = Append(pending, op)
  /\ status' = [status EXCEPT ![op] = "pending"]
  /\ told' = [told EXCEPT ![op] = IF api = "nb" THEN "complete" ELSE "request"]
  /\ UNCHANGED <<is_barrier_outstanding, next_id, slot, resend, frames, life>>

\* ucg_collective_start with no barrier outstanding.
StartNow(op, o) ==
  /\ CallerMayStart(op)
  /\ ~ is_barrier_outstanding
  /\ Trigger(op, o)
  /\ frames' = IF o = "ok" /\ op \in Barriers /\ pending # <<>> THEN 1 ELSE 0
  /\ told' = [told EXCEPT ![op] = CASE o = "ok" -> "complete"
                                    [] o \in Armed \cup Blocked -> "request"
                                    [] o \in {"error", "busy"} -> "error"]
  /\ UNCHANGED <<pending, life>>

(***************************************************************************)
(* One round of the loop of ucg_collective_release_barrier: pull the       *)
(* oldest pending collective and trigger it.  An activation goes on while  *)
(* there are more, no barrier is outstanding and the trigger returned      *)
(* UCS_OK; a barrier complete inside its trigger has started an activation *)
(* of its own, nested in this one.                                         *)
(***************************************************************************)
FramesAfterIgnoringBarrier(op, o) ==
  IF pending' = <<>> THEN 0
  ELSE IF o # "ok" THEN frames - 1
  ELSE IF op \in Barriers THEN frames + 1
  ELSE frames

FramesAfter(op, o) ==
  IF pending' = <<>> \/ is_barrier_outstanding' THEN 0
  ELSE IF o # "ok" THEN frames - 1
  ELSE IF op \in Barriers THEN frames + 1
  ELSE frames

PullWithoutRemoving(queue) == queue
PullNonEmpty(queue) == Tail(queue)

ReleasePending(o) ==
  /\ frames > 0
  /\ pending # <<>>
  /\ pending' = PullNonEmpty(pending)
  /\ Trigger(Head(pending), o)
  /\ frames' = FramesAfter(Head(pending), o)
  /\ UNCHANGED <<told, life>>

-----------------------------------------------------------------------------
ReleaseBarrierForgetsQueue(op) ==
  IF op \in ZeroLen /\ is_barrier_outstanding
    THEN is_barrier_outstanding' = FALSE /\ frames' = 0
    ELSE UNCHANGED <<is_barrier_outstanding, frames>>

ReleaseBarrierQueueFirst(op) ==
  IF op \in ZeroLen /\ is_barrier_outstanding /\ pending # <<>>
    THEN is_barrier_outstanding' = FALSE /\ frames' = 1
    ELSE UNCHANGED <<is_barrier_outstanding, frames>>

ReleaseBarrierAnyLength(op) ==
  IF is_barrier_outstanding
    THEN is_barrier_outstanding' = FALSE /\ frames' = IF pending = <<>> THEN 0 ELSE 1
    ELSE UNCHANGED <<is_barrier_outstanding, frames>>

\* ucg_collective_release_barrier, called where a zero-length collective ends.
ReleaseBarrier(op) ==
  IF op \in ZeroLen /\ is_barrier_outstanding
    THEN /\ is_barrier_outstanding' = FALSE
         /\ frames' = IF pending = <<>> THEN 0 ELSE 1
    ELSE UNCHANGED <<is_barrier_outstanding, frames>>

\* The request in a slot is marked complete.  A request executed once too often
\* belongs to a collective that is no longer running in it.
Ended(op, outcome) ==
  [status EXCEPT ![op] = IF @ = "running" THEN outcome ELSE @]

\* A message the slot's current id matches ends the collective
\* (ucg_builtin_am_process, ucg_builtin_comp_last_step_cb).
Deliverable(s) ==
  /\ life # "destroyed"
  /\ frames = 0
  /\ slot[s].cb
  /\ s \notin resend
  /\ slot[s].coll_id = slot[s].run_id

Complete(s) ==
  /\ Deliverable(s)
  /\ slot' = [slot EXCEPT ![s].cb = FALSE]
  /\ status' = Ended(slot[s].op, "done")
  /\ ReleaseBarrier(slot[s].op)
  /\ UNCHANGED <<pending, next_id, resend, told, life>>

\* A message starts a further send, which fails for good: the collective is
\* completed with the error and the barrier is not released.
FailLater(s) ==
  /\ MayFail
  /\ Deliverable(s)
  /\ slot' = [slot EXCEPT ![s].cb = FALSE]
  /\ status' = Ended(slot[s].op, "error")
  /\ UNCHANGED <<is_barrier_outstanding, pending, next_id, resend, told, frames, life>>

\* A message starts a further send, which has no resources.  The callback is
\* NULL if the send opened a new step, and still set if it ended a waypoint's.
BlockLater(s) ==
  /\ Deliverable(s)
  /\ \E cb \in BOOLEAN : slot' = [slot EXCEPT ![s].cb = cb]
  /\ resend' = resend \cup {s}
  /\ UNCHANGED <<is_barrier_outstanding, pending, next_id, status, told, frames, life>>

Resendable(s) ==
  /\ life # "destroyed"
  /\ frames = 0
  /\ s \in resend
  /\ resend' = resend \ {s}

\* ucg_builtin_progress re-executes the step of a request on the resend list:
\* the send goes out and the step waits for messages,
ResendArms(s) ==
  /\ Resendable(s)
  /\ slot' = [slot EXCEPT ![s].cb = TRUE]
  /\ UNCHANGED <<is_barrier_outstanding, pending, next_id, status, told, frames, life>>

\* or the send was the last thing the collective had to do,
ResendCompletes(s) ==
  /\ Resendable(s)
  /\ slot' = [slot EXCEPT ![s].cb = FALSE]
  /\ status' = Ended(slot[s].op, "done")
  /\ ReleaseBarrier(slot[s].op)
  /\ UNCHANGED <<pending, next_id, told, life>>

\* or it fails for good.
ResendFails(s) ==
  /\ MayFail
  /\ Resendable(s)
  /\ slot' = [slot EXCEPT ![s].cb = FALSE]
  /\ status' = Ended(slot[s].op, "error")
  /\ UNCHANGED <<is_barrier_outstanding, pending, next_id, told, frames, life>>

-----------------------------------------------------------------------------
\* ucg_group_destroy: it progresses the group until nothing is pending.
DestroyCalled ==
  /\ life = "open"
  /\ frames = 0
  /\ Careful => Outstanding = {}
  /\ life' = "destroying"
  /\ UNCHANGED <<is_barrier_outstanding, pending, next_id, slot, resend, status,
                 told, frames>>

Destroyed ==
  /\ life = "destroying"
  /\ frames = 0
  /\ pending = <<>>
  /\ life' = "destroyed"
  /\ UNCHANGED <<is_barrier_outstanding, pending, next_id, slot, resend, status,
                 told, frames>>

Start ==
  \/ \E op \in Ops, api \in {"nb", "nbr"} : StartPending(op, api)
  \/ \E op \in Ops, o \in Outcomes : StartNow(op, o)

Release == \E o \in Outcomes : ReleasePending(o)

Progress(s) ==
  \/ Complete(s)
  \/ FailLater(s)
  \/ BlockLater(s)
  \/ ResendArms(s)
  \/ ResendCompletes(s)
  \/ ResendFails(s)

Next ==
  \/ Start
  \/ Release
  \/ \E s \in SlotIds : Progress(s)
  \/ DestroyCalled
  \/ Destroyed

Spec == Init /\ [][Next]_vars

(***************************************************************************)
(* The call in progress goes on, and the caller keeps progressing the      *)
(* worker: a resend is tried until it goes out, and the messages of a      *)
(* collective, which has finitely many steps, arrive.  Nothing obliges the *)
(* caller to start a collective or to destroy the group.                   *)
(***************************************************************************)
Fairness ==
  /\ WF_vars(Release)
  /\ WF_vars(Destroyed)
  /\ \A s \in SlotIds : /\ SF_vars(Complete(s))
                        /\ WF_vars(ResendArms(s) \/ ResendCompletes(s))

FairSpec == Spec /\ Fairness

-----------------------------------------------------------------------------
(***************************************************************************)
(* Types: the flag, queue, id, slots and the caller's view stay in range.  *)
(***************************************************************************)
SlotRecord == [coll_id : CollIds, cb : BOOLEAN, op : Ops \cup {NoOp}, run_id : CollIds]

TypeOK ==
  /\ is_barrier_outstanding \in BOOLEAN
  /\ pending \in Seq(Ops)
  /\ next_id \in CollIds
  /\ slot \in [SlotIds -> SlotRecord]
  /\ resend \in SUBSET SlotIds
  /\ status \in [Ops -> Statuses]
  /\ told \in [Ops -> {"nothing", "complete", "request", "error"}]
  /\ frames \in Nat
  /\ life \in {"open", "destroying", "destroyed"}

\* A collective pulled from or pushed to the pending queue is on it exactly
\* while it waits, and only once: list_del and queue_push of the same links in
\* ucg_collective_start, queue_pull and list_add in the release loop.  The caller
\* may overrun slots and destroy a busy group, but starts no collective again
\* that has not ended.
QueueExact ==
  /\ \A i, j \in 1 .. Len(pending) : pending[i] = pending[j] => i = j
  /\ \A op \in Ops :
       status[op] = "pending" <=> \E i \in 1 .. Len(pending) : pending[i] = op

\* ucs_assert(group->is_barrier_outstanding == 0) in ucg_collective_trigger:
\* whenever the release loop goes round again there is something to pull and
\* no barrier is outstanding, however deep the activations are nested.
GateOpenWhileReleasing ==
  frames > 0 => ~ is_barrier_outstanding /\ pending # <<>>

RunningBarriers == {b \in Barriers : status[b] = "running"}

\* The flag says exactly that one barrier is waited upon: it is not left set
\* by a barrier that is over nor cleared under one that runs.
BarrierFlagExact ==
  /\ is_barrier_outstanding <=> RunningBarriers # {}
  /\ \A b, c \in RunningBarriers : b = c

\* Each operation in progress occupies a slot of its own, and the slot carries
\* the id its peers' messages have: messages still find the collective.
RunningOwnsSlot ==
  \A op \in Ops : status[op] = "running" =>
    \E s \in SlotIds : slot[s].op = op /\ InUse(s) /\ slot[s].coll_id = slot[s].run_id

\* When a start returned UCS_OK the collective was completed immediately.
ToldCompleteIsDone ==
  \A op \in Ops : told[op] = "complete" => status[op] = "done"

\* No collective enters a slot while a barrier is in progress ("prevent others
\* from starting").
NoStartDuringBarrier ==
  [][RunningBarriers # {} =>
       \A s \in SlotIds : slot'[s].op = slot[s].op]_vars

\* What waits, waits for a barrier, or the release loop is about to reach it:
\* nothing is left in the queue that no later event looks at.
QueueServed == pending # <<>> => is_barrier_outstanding \/ frames > 0

\* Whatever waits behind a barrier is started after it.
PendingStarts ==
  \A op \in Ops : status[op] = "pending" ~> status[op] # "pending"

\* The group implements the gate: pending is the queue of the gate and the
\* collectives in progress are the active ones.
Gate == INSTANCE BarrierGate WITH
          waiting <- pending,
          active  <- {op \in Ops : status[op] = "running"}

ImplementsGate == Gate!Spec

=============================================================================
