----------------------------- MODULE StepEngine -----------------------------
(***************************************************************************)
(* The builtin planner at work (src/builtin/ops/builtin_ops.c and          *)
(* builtin_cb.inl, and the message handler of src/builtin/builtin.c): each *)
(* member of a group runs the steps of its plan, sending to and receiving  *)
(* from its peers, for a sequence of collectives.                          *)
(*                                                                         *)
(* A member is a single-threaded process.  One entry into its library (a   *)
(* start, an incoming message, a zero-copy completion, a resend) may run   *)
(* through many steps by calls nested in each other; they are unrolled     *)
(* here, one action per function activation, with pc saying which member is*)
(* inside of what.  An entry reads and writes the member's own state and   *)
(* adds messages to the network, so whatever another member does during it *)
(* can as well be done after it: entries run one at a time here.  The      *)
(* network may reorder messages.                                           *)
(*                                                                         *)
(* A buffer maps each offset to the bag of contributions <<member, run>>   *)
(* it holds: sending copies the bag, reducing adds it, receiving replaces. *)
(*                                                                         *)
(* Collectives outstanding together use operations of their own, so each   *)
(* slot has steps of its own.  As in UcgGroup, an operator that is used    *)
(* nowhere is a plausible mistake in the code of the one below it.         *)
(***************************************************************************)
EXTENDS Integers, Sequences, FiniteSets, Bags, Steps

CONSTANTS
  Ranks,           \* members of the group
  Plan,            \* Plan[r]: the steps of member r, see Steps
  Offsets,         \* offsets of the buffer's fragments or blocks
  Sources,         \* members whose own data starts in their buffer
  Contributors,    \* members whose data a completed buffer must hold
  Runs,            \* collectives each member calls, in the same order
  Slots,           \* UCG_BUILTIN_MAX_CONCURRENT_OPS
  IdSpace,         \* number of values of ucg_coll_id_t
  MaxOutstanding,  \* collectives a member's caller keeps unfinished
  Zcopy,           \* messages are long enough to be sent without a copy
  MayBlock,        \* members whose transport may run out of resources
  MaxMsgList       \* max_msg_list_size: nesting of ucg_builtin_msg_process

ASSUME EngineAssumption ==
  /\ \A r \in Ranks : /\ Len(Plan[r]) \in Nat \ {0} /\ DOMAIN Plan[r] = 1 .. Len(Plan[r])
                      /\ \A i \in DOMAIN Plan[r] : IsStep(Plan[r][i], Ranks, Offsets)
  /\ Ranks # {} /\ Sources \subseteq Ranks /\ Contributors \subseteq Ranks /\ MayBlock \subseteq Ranks
  /\ Zcopy \in BOOLEAN
  /\ Runs \in Nat \ {0} /\ MaxMsgList \in Nat \ {0}
  /\ Slots \in Nat \ {0} /\ IdSpace \in Nat \ {0} /\ IdSpace % Slots = 0
  /\ MaxOutstanding \in 1 .. Slots

VARIABLES
  slot,   \* slot[r][s]: member r's s-th slot, its request and stored messages
  pc,     \* the entry that is running: whose, and what it is inside of
  next,   \* next[r]: collectives member r has called
  net     \* messages in flight

vars == <<slot, pc, next, net>>

SlotIds == 0 .. Slots - 1
RunIds  == 0 .. Runs - 1

Buffer(r, k) ==
  [off \in Offsets |-> IF r \in Sources THEN SetToBag({<<r, k>>}) ELSE EmptyBag]

Out == [at |-> "out", rank |-> CHOOSE r \in Ranks : TRUE, slot |-> 0, depth |-> 0,
        then |-> {}]

\* busy: the user's request is not completed.  resending: the request is on
\* gctx->send_head.  zcomps: zero-copy sends the transport has not completed.
\* iter, num_store and resend_flag belong to the steps of the operation, which
\* the next collective in the slot uses again.
Init ==
  /\ slot = [r \in Ranks |-> [s \in SlotIds |->
       [busy |-> FALSE, run |-> 0, coll_id |-> 0, cb |-> FALSE, step |-> 1,
        pending |-> 0, recv_comp |-> FALSE,
        resending |-> FALSE, zcomps |-> 0, msgs |-> <<>>, buf |-> Buffer(r, 0),
        iter |-> [i \in DOMAIN Plan[r] |-> 0],
        num_store |-> [i \in DOMAIN Plan[r] |-> 0],
        resend_flag |-> [i \in DOMAIN Plan[r] |-> FALSE]]]]
  /\ pc = Out
  /\ next = [r \in Ranks |-> 0]
  /\ net = {}

-----------------------------------------------------------------------------
IsZcopy(st) == Zcopy /\ ~ IsRecvOnly(st)     \* SEND_AM_ZCOPY

StepAt(r, sl) == Plan[r][sl.step]
IsLast(r, sl) == sl.step = Len(Plan[r])

OneMessageSuffices(st) == ~ IsZcopy(st)

\* The recv_cb of a step that gets a single message completes the step without
\* counting (ucg_builtin_comp_recv_one_cb, _reduce_one_cb, _wait_one_cb).
OneMessage(st) ==
  /\ Len(st.eps) = 1 /\ Fragments(st) = 1
  /\ ~ IsZcopy(st) /\ st.method \notin {"REDUCE_SCATTER_RING", "ALLGATHER_RING"}

CompleteStepKeepingCount(r, sl) ==
  IF IsLast(r, sl)
    THEN [sl EXCEPT !.cb = FALSE, !.busy = FALSE]
    ELSE [sl EXCEPT !.cb = FALSE, !.step = @ + 1, !.recv_comp = FALSE]

\* ucg_builtin_comp_step_cb and ucg_builtin_comp_last_step_cb.
CompleteStep(r, sl) ==
  IF IsLast(r, sl)
    THEN [sl EXCEPT !.cb = FALSE, !.busy = FALSE]
    ELSE [sl EXCEPT !.cb = FALSE, !.step = @ + 1, !.recv_comp = FALSE,
                    !.pending = RecvCount(Plan[r][sl.step + 1])]

AfterStep(r, sl) == IF IsLast(r, sl) THEN "out" ELSE "execute"

\* The data of a message reaches the receive buffer.
Land(r, sl, m) ==
  [sl EXCEPT !.buf[m.off] = IF Reduces(StepAt(r, sl)) THEN @ (+) m.data ELSE m.data]

\* recv_cb of a slot's step, called with message m: the slot after it, and what
\* it went on to: "execute" the step it belongs to (the second half of a
\* waypoint, or the next step), "out" of the collective, or nothing ("more").
Callback(r, sl, m) ==
  LET st     == StepAt(r, sl)
      got    == Land(r, sl, m)
      one    == [got EXCEPT !.recv_comp = IF IsR1S(st) THEN TRUE ELSE @]
      many   == [got EXCEPT !.pending = @ - 1,
                            !.recv_comp = IF IsR1S(st) /\ sl.pending = 1 THEN TRUE ELSE @]
  IN  CASE IsR1S(st) /\ Fragments(st) = 1 -> [slot |-> one, at |-> "execute"]
        [] ~ IsWaypoint(st) /\ OneMessage(st) ->
             [slot |-> CompleteStep(r, got), at |-> AfterStep(r, got)]
        [] OTHER ->
             IF many.pending # 0 THEN [slot |-> many, at |-> "more"]
             ELSE IF IsWaypoint(st) THEN [slot |-> many, at |-> "execute"]
             ELSE [slot |-> CompleteStep(r, many), at |-> AfterStep(r, many)]

MatchesAnyStep(r, sl, m) == m.coll_id = sl.coll_id

MatchesAnyCollective(r, sl, m) == m.step_idx = StepAt(r, sl).step_idx

\* The ids in a message's header are those of the step a slot is in.
Matches(r, sl, m) ==
  /\ m.coll_id = sl.coll_id
  /\ m.step_idx = StepAt(r, sl).step_idx

Store(sl, m) == [sl EXCEPT !.msgs = Append(@, m)]

StoreUncounted(sl, st, m) == Store(sl, m)

\* A zero-copy step counts what is stored for it while it waits for its sends,
\* so that the last completion knows whether there is something to look for.
StoreForLater(sl, st, m) ==
  Store([sl EXCEPT !.num_store[sl.step] = IF @ + 1 > RecvCount(st) THEN @ ELSE @ + 1], m)

NeverWaitsForSends(sl, st) == FALSE

\* The step's own zero-copy sends are not all complete.
WaitsForSends(sl, st) ==
  IsZcopy(st) /\ IsRecv(st) /\ sl.pending > RecvCount(st)

\* Member r is left inside activation `at' of slot s, whose record becomes sl.
Enter(r, s, sl, at, depth, then) ==
  /\ slot' = [slot EXCEPT ![r][s] = sl]
  /\ pc' = IF at = "out" THEN Out
           ELSE [at |-> at, rank |-> r, slot |-> s, depth |-> depth, then |-> then]

-----------------------------------------------------------------------------
Outstanding(r) == {s \in SlotIds : slot[r][s].busy}

(***************************************************************************)
(* ucg_collective_start, up to the call of ucg_builtin_step_execute at the *)
(* end of ucg_builtin_op_trigger.  The caller waits for the collective that*)
(* used the slot before.                                                   *)
(***************************************************************************)
Start(r) ==
  LET k == next[r]
      s == k % Slots
      first == Plan[r][1]
  IN  /\ pc.at = "out"
      /\ k < Runs
      /\ Cardinality(Outstanding(r)) < MaxOutstanding
      /\ ~ slot[r][s].busy
      /\ next' = [next EXCEPT ![r] = k + 1]
      /\ Enter(r, s, [slot[r][s] EXCEPT !.busy = TRUE, !.run = k,
                                        !.coll_id = k % IdSpace, !.step = 1,
                                        !.pending = RecvCount(first),
                                        !.recv_comp = FALSE, !.iter[1] = 0,
                                        !.buf = Buffer(r, k)],
               "execute", 0, {})
      /\ UNCHANGED net

\* The messages a step sends from position i up to position j.
Sent(r, sl, i, j) ==
  LET st == StepAt(r, sl)
  IN  {[from |-> r, to |-> st.eps[(x \div Fragments(st)) + 1],
        coll_id |-> sl.coll_id, step_idx |-> st.step_idx,
        off |-> st.pieces[(x % Fragments(st)) + 1],
        data |-> sl.buf[st.pieces[(x % Fragments(st)) + 1]]] : x \in i .. j - 1}

PendingSendsOnly(st, sl) ==
  IF IsZcopy(st) /\ ~ sl.resend_flag[sl.step] THEN Fragments(st) * Len(st.eps) ELSE sl.pending

\* What is waited for when a zero-copy step starts to send: the completions,
\* and in a step that receives afterwards the messages too.  It is counted
\* anew unless the step is known to be resent.
PendingWhenSending(st, sl) ==
  IF ~ IsZcopy(st) \/ sl.resend_flag[sl.step] THEN sl.pending
  ELSE IF IsRecv(st) THEN RecvCount(st) + Fragments(st) * Len(st.eps)
  ELSE IF IsRS1(st) THEN Fragments(st)
  ELSE IF IsR1S(st) THEN Fragments(st) * (Len(st.eps) - 1)
  ELSE sl.pending

Matching(r, sl) == {i \in DOMAIN sl.msgs : Matches(r, sl, sl.msgs[i])}

FinishSendBlindly(r, s, sl, depth) ==
  Enter(r, s, [sl EXCEPT !.cb = TRUE, !.resend_flag[sl.step] = FALSE], "out", 0, {})

\* finish_send in ucg_builtin_step_execute: wait for messages, or look through
\* the stored ones.
FinishSend(r, s, sl, depth) ==
  LET st      == StepAt(r, sl)
      waiting == [sl EXCEPT !.cb = TRUE, !.resend_flag[sl.step] = FALSE]
      stored  == Cardinality(Matching(r, sl))
      counted == IF sl.num_store[sl.step] + stored > RecvCount(st)
                   THEN RecvCount(st) ELSE sl.num_store[sl.step] + stored
  IN  IF sl.msgs = <<>> \/ (IsR1S(st) /\ sl.recv_comp)
        THEN Enter(r, s, waiting, "out", 0, {})
      ELSE IF IsZcopy(st) /\ IsRecv(st)
        THEN Enter(r, s, [waiting EXCEPT !.num_store[sl.step] = counted], "out", 0, {})
      ELSE Enter(r, s, waiting, "scan", depth, {})

Inside(at, r, s) == pc.at = at /\ pc.rank = r /\ pc.slot = s

\* A waypoint starts by receiving.
ExecuteReceiveFirst(r, s) ==
  LET sl == slot[r][s]
      st == StepAt(r, sl)
      cnt == IF IsR1S(st) THEN 1 ELSE Len(st.eps) - 1
  IN  /\ Inside("execute", r, s)
      /\ IsWaypoint(st) /\ sl.iter[sl.step] < Fragments(st)
      /\ FinishSend(r, s, [sl EXCEPT !.iter[sl.step] = cnt * Fragments(st),
                                     !.pending = cnt * st.fragments_recv], pc.depth)
      /\ UNCHANGED <<next, net>>

\* A step that only receives.
ExecuteReceive(r, s) ==
  /\ Inside("execute", r, s)
  /\ IsRecvOnly(StepAt(r, slot[r][s]))
  /\ FinishSend(r, s, slot[r][s], pc.depth)
  /\ UNCHANGED <<next, net>>

LeftAtEnd(j, end) == j

\* iter_ep after a send up to position j: rewound when all are sent.
IterAfter(j, end) == IF j = end THEN 0 ELSE j

\* The sending part of ucg_builtin_step_execute, from where it left off up to
\* position j; short of the end, the transport had no resources.
ExecuteSend(r, s, j) ==
  LET sl    == slot[r][s]
      st    == StepAt(r, sl)
      i     == sl.iter[sl.step]
      end   == Fragments(st) * Len(st.eps)
      count == PendingWhenSending(st, sl)
      sent  == [sl EXCEPT !.pending = count,
                          !.zcomps = IF IsZcopy(st) THEN @ + (j - i) ELSE @,
                          !.iter[sl.step] = IterAfter(j, end)]
  IN  /\ Inside("execute", r, s)
      /\ ~ IsRecvOnly(st)
      /\ IsWaypoint(st) => i >= Fragments(st)
      /\ j \in i .. end
      /\ net' = net \cup Sent(r, sl, i, j)
      /\ IF j < end
           THEN /\ r \in MayBlock
                /\ Enter(r, s, [sent EXCEPT !.resending = TRUE,
                              !.resend_flag[sl.step] = @ \/ Fragments(st) > 1],
                         "out", 0, {})
         ELSE IF (~ IsRecv(st) /\ ~ IsZcopy(st)) \/ count = 0
           THEN Enter(r, s, CompleteStep(r, sent), AfterStep(r, sent), pc.depth, {})
         ELSE FinishSend(r, s, sent, pc.depth)
      /\ UNCHANGED next

\* ucg_builtin_msg_process has come to a stored message of the step, the i-th.
\* Beyond the nesting limit it returns all the way out to its first activation,
\* which starts again.  The stored messages never complete a step that waits
\* for the message being delivered (then), too.
ScanMatch(r, s) ==
  LET sl == slot[r][s]
      i  == CHOOSE i \in Matching(r, sl) : \A j \in Matching(r, sl) : i <= j
      rest == [sl EXCEPT !.msgs = SubSeq(@, 1, i - 1) \o SubSeq(@, i + 1, Len(@))]
      res == Callback(r, rest, sl.msgs[i])
  IN  /\ Inside("scan", r, s)
      /\ Matching(r, sl) # {}
      /\ IF pc.depth = MaxMsgList
           THEN Enter(r, s, sl, "scan", 0, pc.then)
         ELSE IF res.at = "more"
           THEN Enter(r, s, res.slot, "scan", pc.depth, pc.then)
         ELSE Enter(r, s, res.slot, res.at, pc.depth + 1, {})
      /\ UNCHANGED <<next, net>>

\* It has found no more; the message handler that called it delivers its own.
ScanEnd(r, s) ==
  LET sl == slot[r][s]
  IN  /\ Inside("scan", r, s)
      /\ Matching(r, sl) = {}
      /\ IF pc.then = {}
           THEN Enter(r, s, sl, "out", 0, {})
           ELSE \E m \in pc.then :
                  LET res == Callback(r, sl, m)
                  IN  Enter(r, s, res.slot, IF res.at = "more" THEN "out" ELSE res.at, 0, {})
      /\ UNCHANGED <<next, net>>

-----------------------------------------------------------------------------
(***************************************************************************)
(* ucg_builtin_am_handler and ucg_builtin_am_process: a message is given to*)
(* the step it is for, or stored with the slot its id selects.  Messages   *)
(* are not given to a step that waits for its own zero-copy sends, whose   *)
(* buffer they would overwrite.                                            *)
(***************************************************************************)
Deliver(m) ==
  LET r  == m.to
      s  == m.coll_id % Slots
      sl == slot[r][s]
      st == StepAt(r, sl)
      res == Callback(r, sl, m)
  IN  /\ pc.at = "out"
      /\ m \in net
      /\ net' = net \ {m}
      /\ IF ~ (sl.cb /\ Matches(r, sl, m))
           THEN Enter(r, s, Store(sl, m), "out", 0, {})
         ELSE IF WaitsForSends(sl, st)
           THEN Enter(r, s, StoreForLater(sl, st, m), "out", 0, {})
         ELSE IF IsZcopy(st) /\ IsRecv(st) /\ sl.num_store[sl.step] > 0
           THEN Enter(r, s, [sl EXCEPT !.num_store[sl.step] = 0], "scan", 0, {m})
         ELSE IF IsR1S(st) /\ sl.recv_comp
           THEN Enter(r, s, Store(sl, m), "out", 0, {})
         ELSE Enter(r, s, res.slot, IF res.at = "more" THEN "out" ELSE res.at, 0, {})
      /\ UNCHANGED next

\* ucg_builtin_comp_zcopy_check_cb: the transport is done with one send.
ZcopyDone(r, s) ==
  LET sl   == slot[r][s]
      num  == sl.num_store[sl.step]
      less == [sl EXCEPT !.zcomps = @ - 1, !.pending = @ - 1]
  IN  /\ pc.at = "out"
      /\ sl.zcomps > 0
      /\ IF less.pending # num
           THEN Enter(r, s, less, "out", 0, {})
         ELSE IF num = 0
           THEN Enter(r, s, CompleteStep(r, less), AfterStep(r, less), 0, {})
         ELSE Enter(r, s, [less EXCEPT !.num_store[sl.step] = 0], "scan", 0, {})
      /\ UNCHANGED <<next, net>>

\* ucg_builtin_progress: a request that had no resources is executed again.
Resend(r, s) ==
  /\ pc.at = "out"
  /\ slot[r][s].resending
  /\ Enter(r, s, [slot[r][s] EXCEPT !.resending = FALSE], "execute", 0, {})
  /\ UNCHANGED <<next, net>>

Execute(r, s) ==
  \/ ExecuteReceiveFirst(r, s)
  \/ ExecuteReceive(r, s)
  \/ \E j \in 0 .. Fragments(StepAt(r, slot[r][s])) * Len(StepAt(r, slot[r][s]).eps) :
       ExecuteSend(r, s, j)

Next ==
  \/ \E m \in net : Deliver(m)
  \/ \E r \in Ranks :
       \/ Start(r)
       \/ \E s \in SlotIds : \/ Execute(r, s)
                             \/ ScanMatch(r, s)
                             \/ ScanEnd(r, s)
                             \/ ZcopyDone(r, s)
                             \/ Resend(r, s)

Spec == Init /\ [][Next]_vars

\* All sends of the step go out.
ExecuteWhole(r, s) ==
  \/ ExecuteReceiveFirst(r, s)
  \/ ExecuteReceive(r, s)
  \/ ExecuteSend(r, s, Fragments(StepAt(r, slot[r][s])) * Len(StepAt(r, slot[r][s]).eps))

(***************************************************************************)
(* Every member calls every collective and keeps progressing its worker; a *)
(* reliable transport delivers, completes, and does not refuse a send for  *)
(* ever.  Entries wait for each other, hence strong fairness.  Only resends*)
(* can happen without end, so fairness to the other entries together is    *)
(* fairness to each.                                                       *)
(***************************************************************************)
Fairness ==
  /\ WF_vars(\E r \in Ranks, s \in SlotIds :
               Execute(r, s) \/ ScanMatch(r, s) \/ ScanEnd(r, s))
  /\ SF_vars(\/ \E m \in net : Deliver(m)
             \/ \E r \in Ranks : Start(r) \/ \E s \in SlotIds : ZcopyDone(r, s))
  /\ \A r \in MayBlock : /\ SF_vars(\E s \in SlotIds : Resend(r, s))
                          /\ SF_vars(\E s \in SlotIds : ExecuteWhole(r, s))

FairSpec == Spec /\ Fairness

-----------------------------------------------------------------------------
IsMessage(m) ==
  /\ m.from \in Ranks /\ m.to \in Ranks
  /\ m.coll_id \in 0 .. IdSpace - 1 /\ m.step_idx \in 0 .. 255 /\ m.off \in Offsets
  /\ IsABag(m.data) /\ BagToSet(m.data) \subseteq Ranks \X RunIds

\* Types; in particular the unsigned counters (pending, zcomps) never go below
\* zero, which ucs_assert(req->pending > 0) checks in UCG_IF_LAST_MESSAGE.
TypeOK ==
  /\ next \in [Ranks -> 0 .. Runs]
  /\ pc.at \in {"out", "execute", "scan"}
  /\ pc.rank \in Ranks /\ pc.slot \in SlotIds /\ pc.depth \in 0 .. MaxMsgList
  /\ \A r \in Ranks :
       \A s \in SlotIds : LET sl == slot[r][s] IN
            /\ sl.pending \in Nat /\ sl.zcomps \in Nat
            /\ sl.coll_id \in 0 .. IdSpace - 1 /\ sl.run \in {0} \cup RunIds
            /\ sl.step \in DOMAIN Plan[r]
            /\ sl.iter \in [DOMAIN Plan[r] -> Nat]
            /\ sl.num_store \in [DOMAIN Plan[r] -> Nat]
            /\ sl.resend_flag \in [DOMAIN Plan[r] -> BOOLEAN]
            /\ {sl.busy, sl.cb, sl.recv_comp, sl.resending} \subseteq BOOLEAN
            /\ \A i \in DOMAIN sl.msgs : IsMessage(sl.msgs[i])
  /\ \A m \in net : IsMessage(m)

\* A completed collective left every contribution it is about in the buffer
\* exactly once, and no contribution of another collective.
ResultExact ==
  \A r \in Ranks, s \in SlotIds :
    LET sl == slot[r][s]
    IN  next[r] > s /\ ~ sl.busy =>
          \A off \in Offsets : sl.buf[off] = SetToBag(Contributors \X {sl.run})

\* A finished collective leaves its slot and its steps as the next one in the
\* slot expects them: no callback, nothing to be resent or completed, the
\* endpoint iterators rewound, no message counted as stored
\* (ucs_assert(first_step->iter_ep == 0) in ucg_builtin_op_trigger).
StepsRewound ==
  \A r \in Ranks, s \in SlotIds :
    LET sl == slot[r][s]
    IN  ~ sl.busy => /\ ~ sl.cb /\ ~ sl.resending /\ sl.zcomps = 0
                     /\ \A i \in DOMAIN Plan[r] : sl.iter[i] = 0 /\ sl.num_store[i] = 0

\* Nothing is left that could wake a member up.
Quiet ==
  /\ pc.at = "out" /\ net = {}
  /\ \A r \in Ranks, s \in SlotIds : slot[r][s].zcomps = 0 /\ ~ slot[r][s].resending

\* When the group is at rest and all have called the same collectives, nobody
\* is still waiting in one, and no message is left over in a slot.
NobodyStuck ==
  Quiet /\ (\A p, q \in Ranks : next[p] = next[q]) =>
    \A r \in Ranks, s \in SlotIds : ~ slot[r][s].busy /\ slot[r][s].msgs = <<>>

\* Until the last completion, the fragments handed to the transport without a
\* copy stay as they were, and the step that sent them is not left.
ZcopyBufferKept ==
  [][\A r \in Ranks, s \in SlotIds :
       LET old == slot[r][s]
           new == slot'[r][s]
           st  == StepAt(r, old)
       IN  old.zcomps > 0 /\ new.zcomps > 0 =>
             /\ new.busy /\ new.step = old.step
             /\ \A i \in DOMAIN st.pieces : new.buf[st.pieces[i]] = old.buf[st.pieces[i]]]_vars

\* The engine implements the collective: a member is through only when all the
\* contributors have called it.
Promise == INSTANCE Collective WITH
  Needs   <- [r \in Ranks |-> Contributors],
  entered <- [k \in RunIds |-> {r \in Ranks : next[r] > k}],
  left    <- [k \in RunIds |-> {r \in Ranks :
                next[r] > k /\ ~ \E s \in SlotIds : slot[r][s].busy /\ slot[r][s].run = k}]

ImplementsCollective == Promise!Spec

\* Everybody gets through every collective, whatever the order of messages,
\* completions and resends.
EverybodyLeaves == Promise!EverybodyLeaves

=============================================================================
