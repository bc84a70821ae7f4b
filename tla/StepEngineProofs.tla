-------------------------- MODULE StepEngineProofs --------------------------
(***************************************************************************)
(* What the step engine keeps to for every plan, any number of members,    *)
(* collectives, slots and fragments, and whatever the order of messages,   *)
(* completions and resends.                                                *)
(***************************************************************************)
EXTENDS StepEngine, DataFlow, Plans, SequenceTheorems, FiniteSetTheorems, WellFoundedInduction,
        Remainders, TLAPS

-----------------------------------------------------------------------------
(***************************************************************************)
(* The plans in question.  A member that collects before it sends on (a    *)
(* REDUCE_WAYPOINT) gives its own message away without delay: while it     *)
(* sends, its callback is still set, and nothing but the number of the     *)
(* messages it gets keeps it from being called.  A step that only sends    *)
(* without a copy counts its completions where others count messages: it   *)
(* gets none, and expects as many completions as there are sends.          *)
(***************************************************************************)
\* The peers a step sends to.
Targets(st) ==
  {st.eps[n] : n \in {x \in DOMAIN st.eps :
                        ~ IsRecvOnly(st) /\ (IsWaypoint(st) => x > 1)}}

\* Some step of member q sends to member r under this step index.
Addressed(q, r, idx) ==
  \E j \in DOMAIN Plan[q] : Plan[q][j].step_idx = idx /\ r \in Targets(Plan[q][j])

OrderlyPlan ==
  \A r \in Ranks : \A i \in DOMAIN Plan[r] : LET st == Plan[r][i] IN
    /\ IsRS1(st) => ~ Zcopy /\ r \notin MayBlock
    /\ Zcopy /\ IsSendOnly(st) => /\ st.fragments_recv = Fragments(st)
                                  /\ \A q \in Ranks : ~ Addressed(q, r, st.step_idx)

-----------------------------------------------------------------------------
(***************************************************************************)
(* The inductive invariant: what a slot's record looks like whenever its   *)
(* member is out of it, executes its step, or scans its stored messages.   *)
(***************************************************************************)
DataBags == UNION {[D -> Nat \ {0}] : D \in SUBSET (Ranks \X RunIds)}

\* Messages to member r that a step of their sender sends.
Mail(r) ==
  {m \in [from : Ranks, to : {r}, coll_id : 0 .. IdSpace - 1, step_idx : 0 .. 255,
          off : Offsets, data : DataBags] : Addressed(m.from, r, m.step_idx)}

SlotRecords(r) ==
  [busy : BOOLEAN, run : RunIds, coll_id : 0 .. IdSpace - 1, cb : BOOLEAN,
   step : DOMAIN Plan[r], pending : Nat, recv_comp : BOOLEAN,
   resending : BOOLEAN, zcomps : Nat, msgs : Seq(Mail(r)), buf : [Offsets -> DataBags],
   iter : [DOMAIN Plan[r] -> Nat], num_store : [DOMAIN Plan[r] -> Nat],
   resend_flag : [DOMAIN Plan[r] -> BOOLEAN]]

\* The messages it counts together with its completions.
Owed(st) == IF IsRecv(st) THEN RecvCount(st) ELSE 0

It(sl) == sl.iter[sl.step]
Num(sl) == sl.num_store[sl.step]
Flag(sl) == sl.resend_flag[sl.step]

\* A step as its first execution expects it.
Rewound(r, sl, i) ==
  /\ sl.iter[i] = 0 /\ sl.num_store[i] = 0
  /\ IsZcopy(Plan[r][i]) => ~ sl.resend_flag[i]

OthersRewound(r, sl) == \A i \in DOMAIN Plan[r] : i # sl.step => Rewound(r, sl, i)
AllRewound(r, sl) == \A i \in DOMAIN Plan[r] : Rewound(r, sl, i)

\* Between two collectives.
Done(r, sl) ==
  ~ sl.busy /\ ~ sl.cb /\ ~ sl.resending /\ sl.zcomps = 0 /\ AllRewound(r, sl)

\* About to execute a step for the first time.
Fresh(r, sl) ==
  /\ sl.busy /\ ~ sl.cb /\ ~ sl.resending /\ ~ sl.recv_comp /\ sl.zcomps = 0
  /\ sl.pending = RecvCount(StepAt(r, sl))
  /\ AllRewound(r, sl)

\* About to execute the second half of a waypoint.
Second(r, sl) ==
  LET st == StepAt(r, sl)
  IN  /\ sl.busy /\ sl.cb /\ ~ sl.resending /\ sl.zcomps = 0
      /\ IsWaypoint(st) /\ It(sl) = First(st) /\ Num(sl) = 0
      /\ IsR1S(st) => sl.recv_comp
      /\ IsZcopy(st) => ~ Flag(sl)
      /\ OthersRewound(r, sl)

\* Some of the sends were refused.
Refused(r, sl) ==
  LET st == StepAt(r, sl)
  IN  /\ sl.busy /\ ~ IsRecvOnly(st) /\ ~ IsRS1(st)
      /\ First(st) <= It(sl) /\ It(sl) < End(st) /\ Num(sl) = 0
      /\ IF IsR1S(st) THEN sl.cb /\ sl.recv_comp ELSE ~ sl.cb
      /\ sl.zcomps <= It(sl) - First(st)
      /\ IF IsZcopy(st) THEN sl.pending >= Owed(st) + sl.zcomps + (End(st) - It(sl))
                        ELSE sl.zcomps = 0
      /\ IsRecv(st) => sl.pending > 0
      /\ OthersRewound(r, sl)

\* It waits for messages, and before them perhaps for its own sends.
AwaitsMessages(st, sl) ==
  /\ IsRecv(st) /\ It(sl) = 0
  /\ sl.zcomps = 0 \/ (IsZcopy(st) /\ sl.pending >= RecvCount(st) + sl.zcomps)
  /\ Num(sl) # 0 => IsZcopy(st)

\* It waits for nothing but its own sends.
AwaitsSends(st, sl) ==
  /\ IsZcopy(st) /\ (IsSendOnly(st) \/ (IsR1S(st) /\ sl.recv_comp))
  /\ It(sl) = 0 /\ Num(sl) = 0 /\ sl.pending >= sl.zcomps

\* A waypoint waits for what it is to send on.
AwaitsFirstHalf(st, sl) ==
  /\ IsWaypoint(st) /\ It(sl) = First(st) /\ sl.zcomps = 0 /\ Num(sl) = 0
  /\ IsR1S(st) => ~ sl.recv_comp

Waiting(r, sl) ==
  LET st == StepAt(r, sl)
  IN  /\ sl.busy /\ sl.cb /\ ~ sl.resending /\ sl.pending > 0
      /\ Num(sl) <= RecvCount(st)
      /\ IsZcopy(st) => ~ Flag(sl)
      /\ AwaitsMessages(st, sl) \/ AwaitsSends(st, sl) \/ AwaitsFirstHalf(st, sl)
      /\ OthersRewound(r, sl)

\* A stored message of the step may be given to it.
Scanning(r, sl) ==
  LET st == StepAt(r, sl)
  IN  /\ Waiting(r, sl) /\ Num(sl) = 0
      /\ IsRecv(st) => sl.zcomps = 0
      /\ IsR1S(st) => ~ sl.recv_comp

SlotAt(r, sl, at) ==
  \/ at = "execute" /\ (Fresh(r, sl) \/ Second(r, sl) \/ (Refused(r, sl) /\ ~ sl.resending))
  \/ at = "scan" /\ Scanning(r, sl)
  \/ at = "out" /\ (Done(r, sl) \/ Waiting(r, sl) \/ (Refused(r, sl) /\ sl.resending))

\* Where member r is in slot s.
Activation(r, s) == IF pc.rank = r /\ pc.slot = s THEN pc.at ELSE "out"

PcInv ==
  /\ pc.at \in {"out", "execute", "scan"}
  /\ pc.rank \in Ranks /\ pc.slot \in SlotIds /\ pc.depth \in 0 .. MaxMsgList
  /\ pc.then \subseteq Mail(pc.rank)
  /\ pc.then # {} => pc.at = "scan" /\ IsRecv(StepAt(pc.rank, slot[pc.rank][pc.slot]))

SlotsInv ==
  /\ slot = [r \in Ranks |-> [s \in SlotIds |-> slot[r][s]]]
  /\ \A r \in Ranks, s \in SlotIds :
       slot[r][s] \in SlotRecords(r) /\ SlotAt(r, slot[r][s], Activation(r, s))

NetInv == \A m \in net : m.to \in Ranks /\ m \in Mail(m.to)

EngineInv ==
  /\ next \in [Ranks -> 0 .. Runs]
  /\ NetInv /\ PcInv /\ SlotsInv

-----------------------------------------------------------------------------
(***************************************************************************)
(* Steps and their numbers.                                                *)
(***************************************************************************)
\* A plan is a sequence of steps.
LEMMA PlanSteps ==
  ASSUME NEW r \in Ranks
  PROVE  /\ Len(Plan[r]) \in Nat \ {0} /\ DOMAIN Plan[r] = 1 .. Len(Plan[r])
         /\ 1 \in DOMAIN Plan[r]
         /\ \A i \in DOMAIN Plan[r] : IsStep(Plan[r][i], Ranks, Offsets)
  BY EngineAssumption

\* A step has fragments, peers and messages to get; a waypoint has two halves.
LEMMA StepNumbers ==
  ASSUME NEW st, IsStep(st, Ranks, Offsets)
  PROVE  /\ Fragments(st) \in Nat \ {0} /\ Len(st.eps) \in Nat \ {0}
         /\ RecvCount(st) \in Nat \ {0} /\ Owed(st) \in Nat
         /\ First(st) \in Nat /\ End(st) \in Nat /\ First(st) < End(st)
         /\ IsWaypoint(st) => Fragments(st) <= First(st)
         /\ ~ IsWaypoint(st) => First(st) = 0
         /\ IsR1S(st) => Fragments(st) * (Len(st.eps) - 1) = End(st) - First(st)
  <1> DEFINE f == Len(st.pieces)
             n == Len(st.eps)
             k == st.fragments_recv
  <1>1. f \in Nat \ {0} /\ n \in Nat \ {0} /\ k \in Nat \ {0}
    BY EmptySeq DEF IsStep
  <1>2. IsWaypoint(st) => n > 1
    BY DEF IsStep, IsWaypoint, IsR1S, IsRS1
  <1> HIDE DEF f, n, k
  <1>3. f * n \in Nat \ {0} /\ k * n \in Nat \ {0} /\ (n - 1) * f \in Nat
    BY <1>1
  <1>4. f * n = (n - 1) * f + f
    BY <1>1
  <1>5. n > 1 => f <= (n - 1) * f
    <2>1. SUFFICES ASSUME n > 1 PROVE f <= (n - 1) * f
      OBVIOUS
    <2>2. (n - 1) * f = (n - 2) * f + f
      BY <1>1
    <2>3. n - 2 \in Nat /\ (n - 2) * f \in Nat
      BY <1>1, <2>1
    <2> QED BY <1>1, <2>2, <2>3
  <1>6. Fragments(st) = f /\ Len(st.eps) = n /\ RecvCount(st) = k * n /\ End(st) = f * n
    BY DEF Fragments, RecvCount, End, f, n, k
  <1>7. First(st) = IF IsR1S(st) THEN f ELSE IF IsRS1(st) THEN (n - 1) * f ELSE 0
    BY DEF First, Fragments, f, n
  <1>8. Owed(st) = IF IsRecv(st) THEN k * n ELSE 0
    BY <1>6 DEF Owed
  <1>9. IsWaypoint(st) <=> IsR1S(st) \/ IsRS1(st)
    BY DEF IsWaypoint
  <1>10. First(st) \in Nat /\ First(st) < f * n
    BY <1>1, <1>2, <1>3, <1>4, <1>5, <1>7, <1>9
  <1>11. (IsWaypoint(st) => f <= First(st)) /\ (~ IsWaypoint(st) => First(st) = 0)
    BY <1>1, <1>2, <1>3, <1>4, <1>5, <1>7, <1>9
  <1>12. Owed(st) \in Nat
    BY <1>3, <1>8
  <1>13. IsR1S(st) => f * (n - 1) = End(st) - First(st)
    BY <1>1, <1>6, <1>7
  <1> QED BY <1>1, <1>3, <1>6, <1>10, <1>11, <1>12, <1>13

\* Kinds of steps.
LEMMA Kinds ==
  ASSUME NEW st
  PROVE  /\ IsWaypoint(st) <=> IsR1S(st) \/ IsRS1(st)
         /\ ~ (IsR1S(st) /\ IsRS1(st))
         /\ IsRecv(st) => ~ IsWaypoint(st) /\ ~ IsSendOnly(st)
         /\ IsWaypoint(st) => ~ IsRecvOnly(st) /\ ~ IsSendOnly(st)
         /\ ~ IsRecv(st) => IsSendOnly(st) \/ IsWaypoint(st)
         /\ IsSendOnly(st) => ~ IsRecvOnly(st) /\ ~ IsRecv(st)
         /\ IsRecvOnly(st) => IsRecv(st) /\ ~ IsZcopy(st)
         /\ IsZcopy(st) <=> Zcopy /\ ~ IsRecvOnly(st)
         /\ IsZcopy(st) \in BOOLEAN
  BY EngineAssumption DEF IsWaypoint, IsR1S, IsRS1, IsRecv, IsSendOnly, IsRecvOnly, IsZcopy

-----------------------------------------------------------------------------
(***************************************************************************)
(* Contributions, messages and records.                                    *)
(***************************************************************************)
\* What a buffer starts with, and what it holds after a reduction.
LEMMA Contributions ==
  /\ EmptyBag \in DataBags
  /\ \A r \in Ranks, k \in RunIds : SetToBag({<<r, k>>}) \in DataBags
  /\ \A A, B \in DataBags : A (+) B \in DataBags
  /\ \A B \in DataBags : IsABag(B) /\ BagToSet(B) \subseteq Ranks \X RunIds
  <1> DEFINE Pairs == Ranks \X RunIds
  <1>1. \A D \in SUBSET Pairs : [D -> Nat \ {0}] \subseteq DataBags
    BY DEF DataBags
  <1>2. \A B \in DataBags : DOMAIN B \in SUBSET Pairs /\ B \in [DOMAIN B -> Nat \ {0}]
    BY DEF DataBags
  <1>3. \A n \in Nat : n \in Nat \ {0} <=> n > 0
    OBVIOUS
  <1>4. \A S \in SUBSET Pairs : SetToBag(S) \in DataBags
    <2>1. TAKE S \in SUBSET Pairs
    <2>2. SetToBag(S) \in [S -> Nat \ {0}]
      BY DEF SetToBag
    <2> QED BY <1>1, <2>2
  <1>5. EmptyBag \in DataBags
    BY <1>4 DEF EmptyBag
  <1>6. \A r \in Ranks, k \in RunIds : SetToBag({<<r, k>>}) \in DataBags
    <2>1. TAKE r \in Ranks, k \in RunIds
    <2>2. {<<r, k>>} \in SUBSET Pairs
      OBVIOUS
    <2> QED BY <1>4, <2>2
  <1>7. \A A, B \in DataBags : A (+) B \in DataBags
    <2>1. TAKE A, B \in DataBags
    <2>2. DOMAIN A \cup DOMAIN B \in SUBSET Pairs
      BY <1>2
    <2> DEFINE u(e) == (IF e \in DOMAIN A THEN A[e] ELSE 0)
                         + (IF e \in DOMAIN B THEN B[e] ELSE 0)
    <2>3. ASSUME NEW e \in DOMAIN A \cup DOMAIN B PROVE u(e) \in Nat \ {0}
      <3>1. e \in DOMAIN A => A[e] \in Nat \ {0}
        BY <1>2
      <3>2. e \in DOMAIN B => B[e] \in Nat \ {0}
        BY <1>2
      <3> QED BY <2>3, <3>1, <3>2
    <2>4. A (+) B = [e \in DOMAIN A \cup DOMAIN B |-> u(e)]
      BY DEF (+)
    <2> HIDE DEF u
    <2>5. A (+) B \in [DOMAIN A \cup DOMAIN B -> Nat \ {0}]
      BY <2>3, <2>4
    <2> QED BY <1>1, <2>2, <2>5
  <1>8. \A B \in DataBags : IsABag(B) /\ BagToSet(B) \subseteq Pairs
    <2>1. {n \in Nat : n > 0} = Nat \ {0}
      OBVIOUS
    <2> QED BY <1>2, <2>1 DEF IsABag, BagToSet
  <1> QED BY <1>5, <1>6, <1>7, <1>8

\* A member's own data is that of a buffer.
LEMMA BufferType ==
  ASSUME NEW r \in Ranks, NEW k \in RunIds
  PROVE  Buffer(r, k) \in [Offsets -> DataBags]
  BY Contributions DEF Buffer

\* Ids of runs and slots.
LEMMA Ids ==
  /\ 0 \in RunIds /\ 0 \in SlotIds
  /\ \A k \in Nat : k % Slots \in SlotIds /\ k % IdSpace \in 0 .. IdSpace - 1
  /\ 0 \in 0 .. IdSpace - 1
  <1>1. Slots \in Nat \ {0} /\ IdSpace \in Nat \ {0} /\ Runs \in Nat \ {0}
    BY EngineAssumption
  <1>2. ASSUME NEW k \in Nat PROVE k % Slots \in SlotIds /\ k % IdSpace \in 0 .. IdSpace - 1
    BY <1>1, DivMod DEF SlotIds
  <1> QED BY <1>1, <1>2 DEF RunIds, SlotIds

\* What a slot's record is made of.
LEMMA RecordFields ==
  ASSUME NEW r \in Ranks, NEW sl \in SlotRecords(r)
  PROVE  /\ sl.busy \in BOOLEAN /\ sl.cb \in BOOLEAN /\ sl.recv_comp \in BOOLEAN
         /\ sl.resending \in BOOLEAN
         /\ sl.pending \in Nat /\ sl.zcomps \in Nat
         /\ sl.coll_id \in 0 .. IdSpace - 1 /\ sl.run \in RunIds
         /\ sl.step \in DOMAIN Plan[r] /\ StepAt(r, sl) = Plan[r][sl.step]
         /\ IsStep(StepAt(r, sl), Ranks, Offsets)
         /\ sl.iter \in [DOMAIN Plan[r] -> Nat] /\ It(sl) \in Nat
         /\ sl.num_store \in [DOMAIN Plan[r] -> Nat] /\ Num(sl) \in Nat
         /\ sl.resend_flag \in [DOMAIN Plan[r] -> BOOLEAN] /\ Flag(sl) \in BOOLEAN
         /\ sl.msgs \in Seq(Mail(r)) /\ sl.buf \in [Offsets -> DataBags]
  BY PlanSteps DEF SlotRecords, StepAt, It, Num, Flag

\* A message landing in the buffer changes nothing else.
LEMMA LandKeeps ==
  ASSUME NEW r \in Ranks, NEW sl \in SlotRecords(r), NEW m \in Mail(r)
  PROVE  \E b \in [Offsets -> DataBags] : Land(r, sl, m) = [sl EXCEPT !.buf = b]
  <1>1. m.off \in Offsets /\ m.data \in DataBags
    BY DEF Mail
  <1>2. sl.buf \in [Offsets -> DataBags]
    BY RecordFields
  <1> DEFINE v == IF Reduces(StepAt(r, sl)) THEN sl.buf[m.off] (+) m.data ELSE m.data
  <1>3. v \in DataBags
    BY <1>1, <1>2, Contributions
  <1>4. Land(r, sl, m) = [sl EXCEPT !.buf = [sl.buf EXCEPT ![m.off] = v]]
    BY DEF Land
  <1> HIDE DEF v
  <1>5. [sl.buf EXCEPT ![m.off] = v] \in [Offsets -> DataBags]
    BY <1>1, <1>2, <1>3
  <1> QED BY <1>4, <1>5

-----------------------------------------------------------------------------
(***************************************************************************)
(* What the activations do to a record.                                    *)
(***************************************************************************)
\* What an entry may do to a record whose sends are on their way.
Kept(old, new) ==
  old.zcomps > 0 /\ new.zcomps > 0 =>
    new.busy /\ new.step = old.step /\ new.buf = old.buf

BuffersKept == \A r \in Ranks, s \in SlotIds : Kept(slot[r][s], slot'[r][s])

\* A step that is through leaves its collective, or goes on to the next step.
LEMMA CompleteStepKeeps ==
  ASSUME NEW r \in Ranks, NEW sl \in SlotRecords(r),
         sl.busy, ~ sl.resending, sl.zcomps = 0, AllRewound(r, sl)
  PROVE  /\ CompleteStep(r, sl) \in SlotRecords(r)
         /\ CompleteStep(r, sl).zcomps = 0
         /\ AfterStep(r, sl) \in {"out", "execute"}
         /\ SlotAt(r, CompleteStep(r, sl), AfterStep(r, sl))
  <1> DEFINE done == [sl EXCEPT !.cb = FALSE, !.busy = FALSE]
             on   == [sl EXCEPT !.cb = FALSE, !.step = @ + 1, !.recv_comp = FALSE,
                                !.pending = RecvCount(Plan[r][sl.step + 1])]
  <1>1. CASE IsLast(r, sl)
    <2>1. CompleteStep(r, sl) = done /\ AfterStep(r, sl) = "out"
      BY <1>1 DEF CompleteStep, AfterStep
    <2>2. /\ done \in SlotRecords(r) /\ ~ done.busy /\ ~ done.cb /\ ~ done.resending
          /\ done.zcomps = 0 /\ done.iter = sl.iter /\ done.num_store = sl.num_store
          /\ done.resend_flag = sl.resend_flag
      BY DEF SlotRecords
    <2> HIDE DEF done
    <2>3. Done(r, done)
      BY <2>2 DEF Done, AllRewound, Rewound
    <2> QED BY <2>1, <2>2, <2>3 DEF SlotAt
  <1>2. CASE ~ IsLast(r, sl)
    <2>1. CompleteStep(r, sl) = on /\ AfterStep(r, sl) = "execute"
      BY <1>2 DEF CompleteStep, AfterStep
    <2>2. sl.step + 1 \in DOMAIN Plan[r]
      BY <1>2, RecordFields, PlanSteps DEF IsLast
    <2>3. RecvCount(Plan[r][sl.step + 1]) \in Nat
      BY <2>2, PlanSteps, StepNumbers
    <2>4. /\ on \in SlotRecords(r) /\ on.busy /\ ~ on.cb /\ ~ on.resending /\ ~ on.recv_comp
          /\ on.step = sl.step + 1 /\ on.pending = RecvCount(Plan[r][sl.step + 1])
          /\ on.zcomps = 0 /\ on.iter = sl.iter /\ on.num_store = sl.num_store
          /\ on.resend_flag = sl.resend_flag
      BY <2>2, <2>3 DEF SlotRecords
    <2> HIDE DEF on
    <2>5. Fresh(r, on)
      BY <2>4 DEF Fresh, AllRewound, Rewound, StepAt
    <2> QED BY <2>1, <2>4, <2>5 DEF SlotAt
  <1> QED BY <1>1, <1>2

\* The slot an entry is in gets a new record, and the others stay as they are.
LEMMA EnterKeeps ==
  ASSUME PcInv, SlotsInv,
         NEW r \in Ranks, NEW s \in SlotIds,
         pc.at = "out" \/ (pc.rank = r /\ pc.slot = s),
         NEW sl \in SlotRecords(r), NEW at \in {"out", "execute", "scan"},
         SlotAt(r, sl, at),
         NEW depth \in 0 .. MaxMsgList, NEW then, then \subseteq Mail(r),
         then # {} => at = "scan" /\ IsRecv(StepAt(r, sl)),
         Kept(slot[r][s], sl),
         Enter(r, s, sl, at, depth, then)
  PROVE  PcInv' /\ SlotsInv' /\ BuffersKept
  <1>1. /\ slot = [q \in Ranks |-> [t \in SlotIds |-> slot[q][t]]]
        /\ slot' = [slot EXCEPT ![r][s] = sl]
    BY DEF SlotsInv, Enter
  <1>2. /\ slot' = [q \in Ranks |-> [t \in SlotIds |-> slot'[q][t]]]
        /\ slot'[r][s] = sl
        /\ \A q \in Ranks, t \in SlotIds : q # r \/ t # s => slot'[q][t] = slot[q][t]
    BY <1>1
  <1>3. /\ pc'.at = at
        /\ pc'.rank \in Ranks /\ pc'.slot \in SlotIds /\ pc'.depth \in 0 .. MaxMsgList
        /\ pc'.then \subseteq Mail(pc'.rank)
        /\ at = "out" => pc'.then = {}
        /\ at # "out" => pc'.rank = r /\ pc'.slot = s /\ pc'.then = then
    <2>1. CASE at = "out"
      <3>1. pc' = Out
        BY <2>1 DEF Enter
      <3>2. 0 \in 0 .. MaxMsgList /\ (CHOOSE q \in Ranks : TRUE) \in Ranks
        BY EngineAssumption
      <3>3. Out.at = "out" /\ Out.rank \in Ranks /\ Out.slot = 0 /\ Out.depth = 0 /\ Out.then = {}
        BY <3>2 DEF Out
      <3> QED BY <2>1, <3>1, <3>2, <3>3, Ids
    <2>2. CASE at # "out"
      BY <2>2 DEF Enter
    <2> QED BY <2>1, <2>2
  <1>4. PcInv'
    <2>1. pc'.then # {} => pc'.at = "scan" /\ IsRecv(StepAt(pc'.rank, slot'[pc'.rank][pc'.slot]))
      BY <1>2, <1>3
    <2> QED BY <1>3, <2>1 DEF PcInv
  <1>5. SlotsInv'
    <2>1. ASSUME NEW q \in Ranks, NEW t \in SlotIds
          PROVE  slot'[q][t] \in SlotRecords(q) /\ SlotAt(q, slot'[q][t], Activation(q, t)')
      <3>1. CASE q = r /\ t = s
        <4>1. Activation(q, t)' = at
          BY <1>3, <3>1 DEF Activation
        <4> QED BY <1>2, <3>1, <4>1
      <3>2. CASE q # r \/ t # s
        <4>1. Activation(q, t)' = "out"
          BY <1>3, <3>2 DEF Activation
        <4>2. Activation(q, t) = "out"
          BY <3>2 DEF Activation
        <4>3. slot'[q][t] = slot[q][t]
          BY <1>2, <3>2
        <4>4. slot[q][t] \in SlotRecords(q) /\ SlotAt(q, slot[q][t], Activation(q, t))
          BY DEF SlotsInv
        <4> QED BY <4>1, <4>2, <4>3, <4>4
      <3> QED BY <3>1, <3>2
    <2> QED BY <1>2, <2>1 DEF SlotsInv
  <1>6. BuffersKept
    <2>1. ASSUME NEW q \in Ranks, NEW t \in SlotIds PROVE Kept(slot[q][t], slot'[q][t])
      <3>1. CASE q = r /\ t = s
        BY <1>2, <3>1
      <3>2. CASE q # r \/ t # s
        <4>1. slot'[q][t] = slot[q][t]
          BY <1>2, <3>2
        <4>2. SlotAt(q, slot[q][t], Activation(q, t))
          BY DEF SlotsInv
        <4> DEFINE old == slot[q][t]
        <4> HIDE DEF old
        <4>3. old.zcomps > 0 => old.busy
          BY <4>2 DEF SlotAt, Done, Fresh, Second, Refused, Scanning, Waiting, old
        <4> QED BY <4>1, <4>3 DEF Kept, old
      <3> QED BY <3>1, <3>2
    <2> QED BY <2>1 DEF BuffersKept
  <1> QED BY <1>4, <1>5, <1>6

\* After its sends a step waits, or looks for what has come already.
LEMMA FinishSendKeeps ==
  ASSUME PcInv, SlotsInv,
         NEW r \in Ranks, NEW s \in SlotIds, pc.rank = r /\ pc.slot = s,
         NEW sl \in SlotRecords(r),
         sl.busy, ~ sl.resending, sl.pending > 0, Num(sl) = 0,
         \/ AwaitsMessages(StepAt(r, sl), sl)
         \/ AwaitsSends(StepAt(r, sl), sl)
         \/ AwaitsFirstHalf(StepAt(r, sl), sl),
         OthersRewound(r, sl), Kept(slot[r][s], sl),
         NEW depth \in 0 .. MaxMsgList,
         FinishSend(r, s, sl, depth)
  PROVE  PcInv' /\ SlotsInv' /\ BuffersKept
  <1> DEFINE st      == StepAt(r, sl)
             waiting == [sl EXCEPT !.cb = TRUE, !.resend_flag[sl.step] = FALSE]
             stored  == Cardinality(Matching(r, sl))
             counted == IF sl.num_store[sl.step] + stored > RecvCount(st)
                          THEN RecvCount(st) ELSE sl.num_store[sl.step] + stored
             count   == [waiting EXCEPT !.num_store[sl.step] = counted]
  <1>1. /\ IsStep(st, Ranks, Offsets) /\ sl.step \in DOMAIN Plan[r] /\ RecvCount(st) \in Nat \ {0}
        /\ sl.msgs \in Seq(Mail(r))
    BY RecordFields, StepNumbers
  <1>2. counted \in Nat /\ counted <= RecvCount(st)
    <2>1. Matching(r, sl) \subseteq 1 .. Len(sl.msgs) /\ Len(sl.msgs) \in Nat
      BY <1>1 DEF Matching
    <2>2. IsFiniteSet(Matching(r, sl))
      <3>1. IsFiniteSet(1 .. Len(sl.msgs))
        BY <2>1, FS_Interval
      <3> QED BY <2>1, <3>1, FS_Subset
    <2>3. stored \in Nat
      BY <2>2, FS_CardinalityType
    <2>4. sl.num_store[sl.step] \in Nat
      BY RecordFields DEF Num
    <2> HIDE DEF stored, st
    <2> QED BY <1>1, <2>3, <2>4
  <1> HIDE DEF counted
  <1>3. /\ waiting \in SlotRecords(r)
        /\ waiting.busy /\ waiting.cb /\ ~ waiting.resending
        /\ waiting.pending = sl.pending /\ waiting.zcomps = sl.zcomps
        /\ waiting.step = sl.step /\ waiting.buf = sl.buf /\ waiting.iter = sl.iter
        /\ waiting.num_store = sl.num_store /\ waiting.recv_comp = sl.recv_comp
        /\ ~ waiting.resend_flag[sl.step]
        /\ \A i \in DOMAIN Plan[r] : i # sl.step => waiting.resend_flag[i] = sl.resend_flag[i]
    BY <1>1 DEF SlotRecords
  <1>4. /\ count \in SlotRecords(r)
        /\ count.busy /\ count.cb /\ ~ count.resending
        /\ count.pending = sl.pending /\ count.zcomps = sl.zcomps
        /\ count.step = sl.step /\ count.buf = sl.buf /\ count.iter = sl.iter
        /\ count.num_store[sl.step] = counted /\ count.recv_comp = sl.recv_comp
        /\ \A i \in DOMAIN Plan[r] : i # sl.step => count.num_store[i] = sl.num_store[i]
        /\ count.resend_flag = waiting.resend_flag
    <2> HIDE DEF waiting, st
    <2>1. count \in SlotRecords(r)
      BY <1>2, <1>3 DEF SlotRecords
    <2>2. /\ count.busy = waiting.busy /\ count.cb = waiting.cb
          /\ count.resending = waiting.resending /\ count.pending = waiting.pending
          /\ count.zcomps = waiting.zcomps /\ count.step = waiting.step
          /\ count.buf = waiting.buf /\ count.iter = waiting.iter
          /\ count.recv_comp = waiting.recv_comp /\ count.resend_flag = waiting.resend_flag
          /\ count.num_store = [waiting.num_store EXCEPT ![sl.step] = counted]
      BY <1>3 DEF SlotRecords
    <2>3. waiting.num_store \in [DOMAIN Plan[r] -> Nat] /\ sl.step \in DOMAIN Plan[r]
      BY <1>1, <1>3 DEF SlotRecords
    <2> HIDE DEF count
    <2> QED BY <1>3, <2>1, <2>2, <2>3
  <1>5. /\ sl.msgs = <<>> \/ (IsR1S(st) /\ sl.recv_comp) =>
             Enter(r, s, waiting, "out", 0, {})
        /\ ~ (sl.msgs = <<>> \/ (IsR1S(st) /\ sl.recv_comp)) /\ IsZcopy(st) /\ IsRecv(st) =>
             Enter(r, s, count, "out", 0, {})
        /\ ~ (sl.msgs = <<>> \/ (IsR1S(st) /\ sl.recv_comp)) /\ ~ (IsZcopy(st) /\ IsRecv(st)) =>
             Enter(r, s, waiting, "scan", depth, {})
    BY DEF FinishSend, counted
  <1>6. StepAt(r, waiting) = st /\ StepAt(r, count) = st
    BY <1>3, <1>4 DEF StepAt
  <1> HIDE DEF waiting, count, st
  <1>7. OthersRewound(r, waiting) /\ OthersRewound(r, count)
    BY <1>3, <1>4 DEF OthersRewound, Rewound
  <1>8. /\ AwaitsMessages(st, sl) => AwaitsMessages(st, waiting)
        /\ AwaitsSends(st, sl) => AwaitsSends(st, waiting)
        /\ AwaitsFirstHalf(st, sl) => AwaitsFirstHalf(st, waiting)
    BY <1>3 DEF AwaitsMessages, AwaitsSends, AwaitsFirstHalf, It, Num
  <1>9. Waiting(r, waiting)
    <2>1. Num(waiting) = 0 /\ ~ Flag(waiting)
      BY <1>3 DEF Num, Flag
    <2> QED BY <1>1, <1>3, <1>6, <1>7, <1>8, <2>1 DEF Waiting, st
  <1>10. IsZcopy(st) /\ IsRecv(st) => Waiting(r, count)
    <2>1. SUFFICES ASSUME IsZcopy(st), IsRecv(st) PROVE Waiting(r, count)
      OBVIOUS
    <2>2. AwaitsMessages(st, sl)
      BY <2>1, Kinds DEF AwaitsSends, AwaitsFirstHalf, st
    <2>3. Num(count) = counted /\ ~ Flag(count) /\ It(count) = It(sl)
      BY <1>3, <1>4 DEF Num, Flag, It
    <2>4. AwaitsMessages(st, count)
      BY <2>1, <2>2, <2>3, <1>4 DEF AwaitsMessages
    <2> QED BY <1>2, <1>4, <1>6, <1>7, <2>3, <2>4 DEF Waiting
  <1>11. /\ Kept(slot[r][s], waiting) /\ Kept(slot[r][s], count)
    BY <1>3, <1>4 DEF Kept
  <1>12. 0 \in 0 .. MaxMsgList /\ {} \subseteq Mail(r)
    BY EngineAssumption
  <1>13. CASE sl.msgs = <<>> \/ (IsR1S(st) /\ sl.recv_comp)
    <2>1. SlotAt(r, waiting, "out")
      BY <1>9 DEF SlotAt
    <2>2. Enter(r, s, waiting, "out", 0, {})
      BY <1>5, <1>13
    <2> QED BY <1>3, <1>11, <1>12, <2>1, <2>2, EnterKeeps
  <1>14. CASE ~ (sl.msgs = <<>> \/ (IsR1S(st) /\ sl.recv_comp)) /\ IsZcopy(st) /\ IsRecv(st)
    <2>1. SlotAt(r, count, "out")
      BY <1>10, <1>14 DEF SlotAt
    <2>2. Enter(r, s, count, "out", 0, {})
      BY <1>5, <1>14
    <2> QED BY <1>4, <1>11, <1>12, <2>1, <2>2, EnterKeeps
  <1>15. CASE ~ (sl.msgs = <<>> \/ (IsR1S(st) /\ sl.recv_comp)) /\ ~ (IsZcopy(st) /\ IsRecv(st))
    <2>1. IsRecv(st) => sl.zcomps = 0
      BY <1>15, Kinds DEF AwaitsMessages, AwaitsSends, AwaitsFirstHalf, st
    <2>2. Scanning(r, waiting)
      <3>1. Num(waiting) = 0
        BY <1>3 DEF Num
      <3> QED BY <1>3, <1>6, <1>9, <1>15, <2>1, <3>1 DEF Scanning
    <2>3. SlotAt(r, waiting, "scan")
      BY <2>2 DEF SlotAt
    <2>4. Enter(r, s, waiting, "scan", depth, {})
      BY <1>5, <1>15
    <2> QED BY <1>3, <1>11, <1>12, <2>3, <2>4, EnterKeeps
  <1> QED BY <1>13, <1>14, <1>15

\* A step that waits for nothing but its own sends gets no message.
LEMMA NoStrangers ==
  ASSUME OrderlyPlan, NEW r \in Ranks, NEW sl \in SlotRecords(r), NEW m \in Mail(r),
         Matches(r, sl, m)
  PROVE  ~ (IsZcopy(StepAt(r, sl)) /\ IsSendOnly(StepAt(r, sl)))
  <1>1. sl.step \in DOMAIN Plan[r] /\ StepAt(r, sl) = Plan[r][sl.step]
    BY RecordFields
  <1>2. m.from \in Ranks /\ Addressed(m.from, r, StepAt(r, sl).step_idx)
    BY DEF Mail, Matches
  <1>3. IsZcopy(StepAt(r, sl)) => Zcopy
    BY DEF IsZcopy
  <1> QED BY <1>1, <1>2, <1>3 DEF OrderlyPlan

\* A message given to a step of the slot is counted, and may be its last one.
LEMMA CallbackKeeps ==
  ASSUME NEW r \in Ranks, NEW sl \in SlotRecords(r), Scanning(r, sl),
         ~ (IsZcopy(StepAt(r, sl)) /\ IsSendOnly(StepAt(r, sl))),
         NEW m \in Mail(r)
  PROVE  LET res == Callback(r, sl, m)
         IN  /\ res.slot \in SlotRecords(r) /\ res.at \in {"more", "execute", "out"}
             /\ sl.zcomps = 0 /\ res.slot.zcomps = 0
             /\ res.at = "more" =>
                  Scanning(r, res.slot) /\ StepAt(r, res.slot) = StepAt(r, sl)
             /\ res.at # "more" => SlotAt(r, res.slot, res.at)
  <1>1. PICK b \in [Offsets -> DataBags] : Land(r, sl, m) = [sl EXCEPT !.buf = b]
    BY LandKeeps
  <1> DEFINE st   == StepAt(r, sl)
             got  == [sl EXCEPT !.buf = b]
             one  == [got EXCEPT !.recv_comp = IF IsR1S(st) THEN TRUE ELSE @]
             many == [got EXCEPT !.pending = @ - 1,
                                 !.recv_comp = IF IsR1S(st) /\ sl.pending = 1 THEN TRUE ELSE @]
             res  == Callback(r, sl, m)
  <1>2. /\ IsR1S(st) /\ Fragments(st) = 1 => res = [slot |-> one, at |-> "execute"]
        /\ ~ (IsR1S(st) /\ Fragments(st) = 1) /\ ~ IsWaypoint(st) /\ OneMessage(st) =>
             res = [slot |-> CompleteStep(r, got), at |-> AfterStep(r, got)]
        /\ ~ (IsR1S(st) /\ Fragments(st) = 1) /\ ~ (~ IsWaypoint(st) /\ OneMessage(st)) =>
             res = IF many.pending # 0 THEN [slot |-> many, at |-> "more"]
                   ELSE IF IsWaypoint(st) THEN [slot |-> many, at |-> "execute"]
                   ELSE [slot |-> CompleteStep(r, many), at |-> AfterStep(r, many)]
    <2>1. IsR1S(st) => IsWaypoint(st)
      BY Kinds DEF st
    <2> QED BY <1>1, <2>1 DEF Callback
  <1>3. /\ sl.busy /\ sl.cb /\ ~ sl.resending /\ sl.pending \in Nat /\ sl.pending > 0
        /\ Num(sl) = 0 /\ OthersRewound(r, sl) /\ (IsZcopy(st) => ~ Flag(sl))
        /\ IsR1S(st) => ~ sl.recv_comp
        /\ sl.step \in DOMAIN Plan[r]
        /\ sl.recv_comp \in BOOLEAN
    BY RecordFields DEF Scanning, Waiting, st
  <1>4. sl.zcomps = 0 /\ (AwaitsMessages(st, sl) \/ AwaitsFirstHalf(st, sl))
    <2>1. ~ AwaitsSends(st, sl)
      BY <1>3 DEF AwaitsSends, st
    <2>2. AwaitsMessages(st, sl) \/ AwaitsFirstHalf(st, sl)
      BY <2>1 DEF Scanning, Waiting, st
    <2>3. IsRecv(st) => sl.zcomps = 0
      BY DEF Scanning, st
    <2> QED BY <2>2, <2>3 DEF AwaitsMessages, AwaitsFirstHalf
  <1>5. /\ IsWaypoint(st) \/ IsRecv(st)
        /\ IsWaypoint(st) => ~ IsRecv(st) /\ It(sl) = First(st)
        /\ ~ IsWaypoint(st) => It(sl) = 0
    BY <1>4, Kinds DEF AwaitsMessages, AwaitsFirstHalf, st
  <1>6. /\ got \in SlotRecords(r) /\ got.busy /\ got.cb /\ ~ got.resending
        /\ got.pending = sl.pending /\ got.zcomps = 0 /\ got.step = sl.step
        /\ got.recv_comp = sl.recv_comp
        /\ got.iter = sl.iter /\ got.num_store = sl.num_store /\ got.resend_flag = sl.resend_flag
    BY <1>3, <1>4 DEF SlotRecords
  <1> HIDE DEF got
  <1>7. /\ one \in SlotRecords(r) /\ one.busy /\ one.cb /\ ~ one.resending
        /\ one.zcomps = 0 /\ one.step = sl.step /\ (IsR1S(st) => one.recv_comp)
        /\ one.iter = sl.iter /\ one.num_store = sl.num_store /\ one.resend_flag = sl.resend_flag
    <2> HIDE DEF st
    <2> QED BY <1>3, <1>6 DEF SlotRecords
  <1>8. /\ many \in SlotRecords(r) /\ many.busy /\ many.cb /\ ~ many.resending
        /\ many.pending = sl.pending - 1 /\ many.zcomps = 0 /\ many.step = sl.step
        /\ many.recv_comp = IF IsR1S(st) /\ sl.pending = 1 THEN TRUE ELSE sl.recv_comp
        /\ many.iter = sl.iter /\ many.num_store = sl.num_store
        /\ many.resend_flag = sl.resend_flag
    <2> HIDE DEF st
    <2>1. sl.pending - 1 \in Nat
      BY <1>3
    <2> QED BY <1>3, <1>6, <2>1 DEF SlotRecords
  <1> HIDE DEF one, many, res
  <1>9. StepAt(r, got) = st /\ StepAt(r, one) = st /\ StepAt(r, many) = st
    BY <1>6, <1>7, <1>8 DEF StepAt, st
  <1>10. ASSUME ~ IsWaypoint(st) PROVE AllRewound(r, got) /\ AllRewound(r, many)
    <2>1. Rewound(r, sl, sl.step)
      BY <1>3, <1>5, <1>10 DEF Rewound, It, Num, Flag, st, StepAt
    <2>2. \A i \in DOMAIN Plan[r] : Rewound(r, sl, i)
      BY <1>3, <2>1 DEF OthersRewound
    <2> QED BY <1>6, <1>8, <2>2 DEF AllRewound, Rewound
  <1>11. CASE IsR1S(st) /\ Fragments(st) = 1
    <2>1. Second(r, one)
      <3>1. OthersRewound(r, one) /\ It(one) = It(sl) /\ Num(one) = 0 /\ Flag(one) = Flag(sl)
        BY <1>3, <1>7 DEF OthersRewound, Rewound, It, Num, Flag
      <3>2. IsWaypoint(st)
        BY <1>11, Kinds DEF st
      <3> QED BY <1>3, <1>5, <1>7, <1>9, <1>11, <3>1, <3>2 DEF Second
    <2>2. res.slot = one /\ res.at = "execute"
      BY <1>2, <1>11
    <2> QED BY <1>4, <1>7, <2>1, <2>2 DEF SlotAt, res
  <1>12. CASE ~ (IsR1S(st) /\ Fragments(st) = 1) /\ ~ IsWaypoint(st) /\ OneMessage(st)
    <2>1. res.slot = CompleteStep(r, got) /\ res.at = AfterStep(r, got)
      BY <1>2, <1>12
    <2>2. /\ CompleteStep(r, got) \in SlotRecords(r) /\ CompleteStep(r, got).zcomps = 0
          /\ AfterStep(r, got) \in {"out", "execute"}
          /\ SlotAt(r, CompleteStep(r, got), AfterStep(r, got))
      BY <1>6, <1>10, <1>12, CompleteStepKeeps
    <2> QED BY <1>4, <2>1, <2>2 DEF res
  <1>13. CASE /\ ~ (IsR1S(st) /\ Fragments(st) = 1) /\ ~ (~ IsWaypoint(st) /\ OneMessage(st))
              /\ many.pending # 0
    <2>1. res.slot = many /\ res.at = "more"
      BY <1>2, <1>13
    <2>2. /\ OthersRewound(r, many) /\ It(many) = It(sl) /\ Num(many) = 0 /\ Flag(many) = Flag(sl)
      BY <1>3, <1>8 DEF OthersRewound, Rewound, It, Num, Flag
    <2>3. IsR1S(st) => ~ many.recv_comp
      BY <1>3, <1>8, <1>13
    <2>4. AwaitsMessages(st, many) \/ AwaitsFirstHalf(st, many)
      BY <1>4, <1>8, <2>2, <2>3 DEF AwaitsMessages, AwaitsFirstHalf
    <2>5. RecvCount(st) \in Nat
      BY RecordFields, StepNumbers DEF st
    <2>6. Scanning(r, many)
      BY <1>3, <1>8, <1>9, <1>13, <2>2, <2>3, <2>4, <2>5 DEF Scanning, Waiting
    <2> QED BY <1>4, <1>8, <1>9, <2>1, <2>6 DEF res, st
  <1>14. CASE /\ ~ (IsR1S(st) /\ Fragments(st) = 1) /\ ~ (~ IsWaypoint(st) /\ OneMessage(st))
              /\ many.pending = 0 /\ IsWaypoint(st)
    <2>1. res.slot = many /\ res.at = "execute"
      BY <1>2, <1>14
    <2>2. /\ OthersRewound(r, many) /\ It(many) = It(sl) /\ Num(many) = 0 /\ Flag(many) = Flag(sl)
      BY <1>3, <1>8 DEF OthersRewound, Rewound, It, Num, Flag
    <2>3. IsR1S(st) => many.recv_comp
      BY <1>3, <1>8, <1>14
    <2>4. Second(r, many)
      BY <1>3, <1>5, <1>8, <1>9, <1>14, <2>2, <2>3 DEF Second
    <2> QED BY <1>4, <1>8, <2>1, <2>4 DEF SlotAt, res
  <1>15. CASE /\ ~ (IsR1S(st) /\ Fragments(st) = 1) /\ ~ (~ IsWaypoint(st) /\ OneMessage(st))
              /\ many.pending = 0 /\ ~ IsWaypoint(st)
    <2>1. res.slot = CompleteStep(r, many) /\ res.at = AfterStep(r, many)
      BY <1>2, <1>15
    <2>2. /\ CompleteStep(r, many) \in SlotRecords(r) /\ CompleteStep(r, many).zcomps = 0
          /\ AfterStep(r, many) \in {"out", "execute"}
          /\ SlotAt(r, CompleteStep(r, many), AfterStep(r, many))
      BY <1>8, <1>10, <1>15, CompleteStepKeeps
    <2> QED BY <1>4, <2>1, <2>2 DEF res
  <1> QED BY <1>11, <1>12, <1>13, <1>14, <1>15

-----------------------------------------------------------------------------
(***************************************************************************)
(* The entries into a member's library, and the activations they lead to.  *)
(***************************************************************************)
\* What a slot looks like to an activation inside of it, and between entries.
LEMMA SlotNow ==
  ASSUME PcInv, SlotsInv, NEW r \in Ranks, NEW s \in SlotIds
  PROVE  /\ slot[r][s] \in SlotRecords(r)
         /\ pc.at = "out" => SlotAt(r, slot[r][s], "out")
         /\ \A at \in {"execute", "scan"} : Inside(at, r, s) => SlotAt(r, slot[r][s], at)
  BY DEF SlotsInv, Activation, Inside

\* A start finds its slot as a finished collective leaves it.
LEMMA StartKeeps ==
  ASSUME EngineInv, NEW r \in Ranks, Start(r)
  PROVE  EngineInv' /\ BuffersKept
  <1> DEFINE k     == next[r]
             s     == k % Slots
             old   == slot[r][s]
             first == Plan[r][1]
             new   == [old EXCEPT !.busy = TRUE, !.run = k,
                                  !.coll_id = k % IdSpace, !.step = 1,
                                  !.pending = RecvCount(first),
                                  !.recv_comp = FALSE, !.iter[1] = 0,
                                  !.buf = Buffer(r, k)]
  <1>1. /\ pc.at = "out" /\ k < Runs /\ ~ old.busy
        /\ next' = [next EXCEPT ![r] = k + 1] /\ net' = net
        /\ Enter(r, s, new, "execute", 0, {})
    BY DEF Start
  <1>2. next \in [Ranks -> 0 .. Runs] /\ PcInv /\ SlotsInv /\ NetInv
    BY DEF EngineInv
  <1>3. k \in RunIds /\ s \in SlotIds /\ k % IdSpace \in 0 .. IdSpace - 1
    <2>1. k \in Nat /\ k \in 0 .. Runs - 1
      BY <1>1, <1>2, EngineAssumption
    <2> QED BY <2>1, Ids DEF RunIds
  <1>4. next' \in [Ranks -> 0 .. Runs]
    <2>1. k + 1 \in 0 .. Runs
      BY <1>1, <1>2, EngineAssumption
    <2> QED BY <1>1, <1>2, <2>1
  <1> HIDE DEF k, s
  <1>5. old \in SlotRecords(r) /\ SlotAt(r, old, "out")
    BY <1>1, <1>2, <1>3, SlotNow
  <1> HIDE DEF old
  <1>6. Done(r, old)
    BY <1>1, <1>5 DEF SlotAt, Waiting, Refused
  <1>7. 1 \in DOMAIN Plan[r] /\ RecvCount(first) \in Nat /\ Buffer(r, k) \in [Offsets -> DataBags]
    BY <1>3, PlanSteps, StepNumbers, BufferType
  <1>8. /\ new \in SlotRecords(r)
        /\ new.busy /\ new.cb = old.cb /\ new.resending = old.resending /\ ~ new.recv_comp
        /\ new.zcomps = old.zcomps /\ new.step = 1 /\ new.pending = RecvCount(first)
        /\ new.iter = [old.iter EXCEPT ![1] = 0]
        /\ new.num_store = old.num_store /\ new.resend_flag = old.resend_flag
    <2> HIDE DEF first
    <2> QED BY <1>3, <1>5, <1>7 DEF SlotRecords
  <1> HIDE DEF new
  <1>9. Fresh(r, new)
    <2>1. old.iter \in [DOMAIN Plan[r] -> Nat]
      BY <1>5, RecordFields
    <2>2. AllRewound(r, new)
      BY <1>6, <1>8, <2>1 DEF Done, AllRewound, Rewound
    <2> QED BY <1>6, <1>8, <2>2 DEF Fresh, Done, StepAt
  <1>10. SlotAt(r, new, "execute") /\ Kept(old, new)
    BY <1>6, <1>9 DEF SlotAt, Kept, Done
  <1>11. Kept(slot[r][s], new)
    BY <1>10 DEF old
  <1>12. 0 \in 0 .. MaxMsgList /\ {} \subseteq Mail(r)
    BY EngineAssumption
  <1>13. PcInv' /\ SlotsInv' /\ BuffersKept
    BY <1>1, <1>2, <1>3, <1>8, <1>10, <1>11, <1>12, EnterKeeps
  <1>14. NetInv'
    BY <1>1, <1>2 DEF NetInv
  <1> QED BY <1>4, <1>13, <1>14 DEF EngineInv

\* What does not touch the network or the calls keeps the invariant when it
\* keeps the slots.
LEMMA SlotsSuffice ==
  ASSUME EngineInv, UNCHANGED <<next, net>>, PcInv' /\ SlotsInv' /\ BuffersKept
  PROVE  EngineInv' /\ BuffersKept
  BY DEF EngineInv, NetInv

\* The first half of a waypoint.
LEMMA ReceiveFirstKeeps ==
  ASSUME EngineInv, NEW r \in Ranks, NEW s \in SlotIds, ExecuteReceiveFirst(r, s)
  PROVE  EngineInv' /\ BuffersKept
  <1> DEFINE sl  == slot[r][s]
             st  == StepAt(r, sl)
             cnt == IF IsR1S(st) THEN 1 ELSE Len(st.eps) - 1
             new == [sl EXCEPT !.iter[sl.step] = cnt * Fragments(st),
                               !.pending = cnt * st.fragments_recv]
  <1>1. /\ Inside("execute", r, s) /\ IsWaypoint(st) /\ It(sl) < Fragments(st)
        /\ FinishSend(r, s, new, pc.depth) /\ UNCHANGED <<next, net>>
    BY DEF ExecuteReceiveFirst, It
  <1>2. PcInv /\ SlotsInv
    BY DEF EngineInv
  <1>3. sl \in SlotRecords(r) /\ SlotAt(r, sl, "execute")
    BY <1>1, <1>2, SlotNow
  <1> HIDE DEF sl
  <1>4. /\ sl.step \in DOMAIN Plan[r] /\ IsStep(st, Ranks, Offsets)
        /\ Fragments(st) \in Nat \ {0} /\ First(st) \in Nat /\ Fragments(st) <= First(st)
        /\ It(sl) \in Nat
    BY <1>1, <1>3, RecordFields, StepNumbers
  <1>5. Fresh(r, sl)
    <2>1. ~ Second(r, sl)
      BY <1>1, <1>4 DEF Second, st
    <2>2. ~ Refused(r, sl)
      BY <1>1, <1>4 DEF Refused, st
    <2> QED BY <1>3, <2>1, <2>2 DEF SlotAt
  <1>6. /\ cnt \in Nat \ {0} /\ cnt * Fragments(st) = First(st)
        /\ cnt * st.fragments_recv \in Nat \ {0}
    <2>1. Len(st.eps) \in Nat /\ Len(st.eps) > 1 /\ st.fragments_recv \in Nat \ {0}
      BY <1>1, <1>4 DEF IsStep, IsWaypoint, IsR1S, IsRS1
    <2>2. cnt \in Nat \ {0}
      <3>1. CASE IsR1S(st)
        BY <3>1
      <3>2. CASE ~ IsR1S(st)
        <4>1. \A n \in Nat : n > 1 => n - 1 \in Nat \ {0}
          OBVIOUS
        <4>2. cnt = Len(st.eps) - 1
          BY <3>2
        <4>3. Len(st.eps) - 1 \in Nat \ {0}
          BY <2>1, <4>1, Zenon
        <4> QED BY <4>2, <4>3
      <3> QED BY <3>1, <3>2
    <2>3. cnt * Fragments(st) = First(st)
      BY <1>1, <1>4, Kinds DEF First
    <2> HIDE DEF cnt
    <2> QED BY <2>1, <2>2, <2>3
  <1> HIDE DEF cnt
  <1>7. /\ new \in SlotRecords(r) /\ new.busy = sl.busy /\ new.resending = sl.resending
        /\ new.pending = cnt * st.fragments_recv /\ new.zcomps = sl.zcomps
        /\ new.recv_comp = sl.recv_comp
        /\ new.step = sl.step /\ new.buf = sl.buf
        /\ new.iter[sl.step] = First(st)
        /\ \A i \in DOMAIN Plan[r] : i # sl.step => new.iter[i] = sl.iter[i]
        /\ new.num_store = sl.num_store /\ new.resend_flag = sl.resend_flag
    <2> HIDE DEF st
    <2> QED BY <1>3, <1>4, <1>6 DEF SlotRecords
  <1> HIDE DEF new
  <1>8. StepAt(r, new) = st
    BY <1>7 DEF StepAt, st
  <1>9. OthersRewound(r, new) /\ Num(new) = 0
    BY <1>4, <1>5, <1>7 DEF OthersRewound, Rewound, Num, Fresh, AllRewound
  <1>10. AwaitsFirstHalf(st, new)
    BY <1>1, <1>5, <1>7, <1>9 DEF AwaitsFirstHalf, Fresh, It
  <1>11. Kept(slot[r][s], new) /\ new.busy /\ ~ new.resending /\ new.pending > 0
    BY <1>5, <1>6, <1>7 DEF Kept, sl, Fresh
  <1>12. pc.depth \in 0 .. MaxMsgList /\ pc.rank = r /\ pc.slot = s
    BY <1>1, <1>2 DEF PcInv, Inside
  <1>13. PcInv' /\ SlotsInv' /\ BuffersKept
    BY <1>1, <1>2, <1>7, <1>8, <1>9, <1>10, <1>11, <1>12, FinishSendKeeps
  <1> QED BY <1>1, <1>13, SlotsSuffice

\* A step that only receives.
LEMMA ReceiveKeeps ==
  ASSUME EngineInv, NEW r \in Ranks, NEW s \in SlotIds, ExecuteReceive(r, s)
  PROVE  EngineInv' /\ BuffersKept
  <1> DEFINE sl == slot[r][s]
             st == StepAt(r, sl)
  <1>1. /\ Inside("execute", r, s) /\ IsRecvOnly(st)
        /\ FinishSend(r, s, sl, pc.depth) /\ UNCHANGED <<next, net>>
    BY DEF ExecuteReceive
  <1>2. PcInv /\ SlotsInv
    BY DEF EngineInv
  <1>3. sl \in SlotRecords(r) /\ SlotAt(r, sl, "execute")
    BY <1>1, <1>2, SlotNow
  <1>4. Kept(slot[r][s], sl) <=> Kept(sl, sl)
    OBVIOUS
  <1> HIDE DEF sl
  <1>5. sl.step \in DOMAIN Plan[r] /\ RecvCount(st) \in Nat \ {0}
    BY <1>3, RecordFields, StepNumbers
  <1>6. Fresh(r, sl)
    BY <1>1, <1>3, Kinds DEF SlotAt, Second, Refused, st
  <1>7. AwaitsMessages(st, sl) /\ Num(sl) = 0
    BY <1>1, <1>5, <1>6, Kinds DEF AwaitsMessages, Fresh, AllRewound, Rewound, It, Num, st
  <1>8. OthersRewound(r, sl) /\ sl.pending > 0 /\ sl.busy /\ ~ sl.resending
    BY <1>5, <1>6 DEF Fresh, AllRewound, OthersRewound, st
  <1>9. Kept(slot[r][s], sl)
    BY <1>4, <1>8 DEF Kept
  <1>10. pc.depth \in 0 .. MaxMsgList /\ pc.rank = r /\ pc.slot = s
    BY <1>1, <1>2 DEF PcInv, Inside
  <1>11. PcInv' /\ SlotsInv' /\ BuffersKept
    BY <1>1, <1>2, <1>3, <1>7, <1>8, <1>9, <1>10, FinishSendKeeps DEF st
  <1> QED BY <1>1, <1>11, SlotsSuffice

\* A request without resources is executed again.
LEMMA ResendKeeps ==
  ASSUME EngineInv, NEW r \in Ranks, NEW s \in SlotIds, Resend(r, s)
  PROVE  EngineInv' /\ BuffersKept
  <1> DEFINE sl  == slot[r][s]
             new == [sl EXCEPT !.resending = FALSE]
  <1>1. /\ pc.at = "out" /\ sl.resending
        /\ Enter(r, s, new, "execute", 0, {}) /\ UNCHANGED <<next, net>>
    BY DEF Resend
  <1>2. PcInv /\ SlotsInv
    BY DEF EngineInv
  <1>3. sl \in SlotRecords(r) /\ SlotAt(r, sl, "out")
    BY <1>1, <1>2, SlotNow
  <1>4. Kept(slot[r][s], new) <=> Kept(sl, new)
    OBVIOUS
  <1> HIDE DEF sl
  <1>5. Refused(r, sl)
    BY <1>1, <1>3 DEF SlotAt, Done, Waiting
  <1>6. /\ new \in SlotRecords(r) /\ ~ new.resending
        /\ new.busy = sl.busy /\ new.cb = sl.cb /\ new.recv_comp = sl.recv_comp
        /\ new.pending = sl.pending /\ new.zcomps = sl.zcomps
        /\ new.step = sl.step /\ new.buf = sl.buf /\ new.iter = sl.iter
        /\ new.num_store = sl.num_store /\ new.resend_flag = sl.resend_flag
    BY <1>3 DEF SlotRecords
  <1> HIDE DEF new
  <1>7. Refused(r, new)
    BY <1>5, <1>6 DEF Refused, OthersRewound, Rewound, StepAt, It, Num
  <1>8. SlotAt(r, new, "execute") /\ Kept(slot[r][s], new)
    BY <1>4, <1>5, <1>6, <1>7 DEF SlotAt, Kept, Refused
  <1>9. 0 \in 0 .. MaxMsgList /\ {} \subseteq Mail(r)
    BY EngineAssumption
  <1>10. PcInv' /\ SlotsInv' /\ BuffersKept
    BY <1>1, <1>2, <1>6, <1>8, <1>9, EnterKeeps
  <1> QED BY <1>1, <1>10, SlotsSuffice

\* What a step sends is addressed to one of the peers it sends to.
LEMMA SentMail ==
  ASSUME NEW r \in Ranks, NEW sl \in SlotRecords(r), ~ IsRecvOnly(StepAt(r, sl)),
         NEW i \in Nat, First(StepAt(r, sl)) <= i, NEW j \in Nat, j <= End(StepAt(r, sl)),
         NEW m \in Sent(r, sl, i, j)
  PROVE  m.to \in Ranks /\ m \in Mail(m.to)
  <1> DEFINE st == StepAt(r, sl)
             f  == Fragments(st)
             n  == Len(st.eps)
  <1>1. PICK x \in i .. j - 1 :
          m = [from |-> r, to |-> st.eps[(x \div f) + 1],
               coll_id |-> sl.coll_id, step_idx |-> st.step_idx,
               off |-> st.pieces[(x % f) + 1],
               data |-> sl.buf[st.pieces[(x % f) + 1]]]
    BY DEF Sent
  <1>2. /\ IsStep(st, Ranks, Offsets) /\ sl.step \in DOMAIN Plan[r] /\ st = Plan[r][sl.step]
        /\ sl.coll_id \in 0 .. IdSpace - 1 /\ sl.buf \in [Offsets -> DataBags]
    BY RecordFields
  <1>3. /\ f \in Nat \ {0} /\ n \in Nat \ {0} /\ End(st) = f * n
        /\ IsWaypoint(st) => f <= First(st)
        /\ First(st) \in Nat
    BY <1>2, StepNumbers DEF End
  <1> DEFINE q == x \div f
             y == x % f
  <1>4. x \in Nat /\ First(st) <= x /\ x < f * n
    BY <1>3
  <1> HIDE DEF f, n, st
  <1>5. q \in Int /\ y \in 0 .. f - 1 /\ x = f * q + y
    <2>1. f \in Nat \ {0} /\ x \in Int
      BY <1>3, <1>4
    <2> QED BY <2>1, DivMod
  <1> HIDE DEF q, y
  <1>6. q >= 0
    <2>1. SUFFICES ASSUME q < 0 PROVE FALSE
      BY <1>5
    <2>2. f * q + f <= f * 0
      BY <1>3, <1>5, <2>1, MultiplesApart
    <2> QED BY <1>3, <1>4, <1>5, <2>2
  <1>7. q < n
    <2>1. SUFFICES ASSUME n <= q PROVE FALSE
      BY <1>3, <1>5
    <2>2. f * n <= f * q
      <3>1. CASE n = q
        BY <1>3, <3>1
      <3>2. CASE n < q
        <4>1. f * n + f <= f * q
          BY <1>3, <1>5, <3>2, MultiplesApart
        <4> QED BY <1>3, <1>5, <4>1
      <3> QED BY <1>3, <1>5, <2>1, <3>1, <3>2
    <2> QED BY <1>3, <1>4, <1>5, <2>2
  <1>8. IsWaypoint(st) => q > 0
    <2>1. SUFFICES ASSUME IsWaypoint(st), q = 0 PROVE FALSE
      BY <1>5, <1>6
    <2> QED BY <1>3, <1>4, <1>5, <2>1
  <1>9. /\ st.eps \in Seq(Ranks) /\ st.pieces \in Seq(Offsets)
        /\ DOMAIN st.eps = 1 .. n /\ DOMAIN st.pieces = 1 .. f
        /\ st.step_idx \in 0 .. 255
    <2>1. /\ st.eps \in Seq(Ranks) /\ st.pieces \in Seq(Offsets)
          /\ st.step_idx \in 0 .. 255
      BY <1>2 DEF IsStep
    <2>2. ASSUME NEW S, NEW t \in Seq(S) PROVE DOMAIN t = 1 .. Len(t)
      OBVIOUS
    <2>3. DOMAIN st.eps = 1 .. Len(st.eps) /\ DOMAIN st.pieces = 1 .. Len(st.pieces)
      BY <2>1, <2>2, Zenon
    <2> QED BY <2>1, <2>3 DEF n, f, Fragments
  <1>10. q + 1 \in DOMAIN st.eps /\ y + 1 \in DOMAIN st.pieces
    BY <1>3, <1>5, <1>6, <1>7, <1>9
  <1>11. st.eps[q + 1] \in Ranks /\ st.pieces[y + 1] \in Offsets
    <2>1. ASSUME NEW S, NEW t \in Seq(S), NEW d \in DOMAIN t PROVE t[d] \in S
      OBVIOUS
    <2> QED BY <1>9, <1>10, <2>1, Zenon
  <1>12. sl.buf[st.pieces[y + 1]] \in DataBags
    BY <1>2, <1>11
  <1>13. Addressed(r, st.eps[q + 1], st.step_idx)
    <2>1. IsWaypoint(st) => q + 1 > 1
      BY <1>5, <1>8
    <2>2. st.eps[q + 1] \in Targets(st)
      BY <1>10, <2>1 DEF Targets, st
    <2> QED BY <1>2, <2>2 DEF Addressed
  <1>14. /\ m.from = r /\ m.to = st.eps[q + 1] /\ m.step_idx = st.step_idx
         /\ m \in [from : Ranks, to : {m.to}, coll_id : 0 .. IdSpace - 1,
                   step_idx : 0 .. 255, off : Offsets, data : DataBags]
    BY <1>1, <1>2, <1>9, <1>11, <1>12 DEF q, y
  <1> QED BY <1>11, <1>13, <1>14 DEF Mail

\* Whatever way a step came to its sends, the count it starts them with is
\* above what it then still owes.
LEMMA ReadyToSend ==
  ASSUME OrderlyPlan, NEW r \in Ranks, NEW sl \in SlotRecords(r), SlotAt(r, sl, "execute"),
         ~ IsRecvOnly(StepAt(r, sl)),
         IsWaypoint(StepAt(r, sl)) => It(sl) >= Fragments(StepAt(r, sl))
  PROVE  LET st    == StepAt(r, sl)
             count == PendingWhenSending(st, sl)
         IN  /\ sl.busy /\ ~ sl.resending /\ Num(sl) = 0 /\ OthersRewound(r, sl)
             /\ First(st) <= It(sl) /\ It(sl) < End(st)
             /\ count \in Nat /\ (IsRecv(st) => count > 0)
             /\ sl.zcomps <= It(sl) - First(st)
             /\ IF IsZcopy(st) THEN count >= Owed(st) + sl.zcomps + (End(st) - It(sl))
                               ELSE sl.zcomps = 0
             /\ IF IsR1S(st) THEN sl.cb /\ sl.recv_comp ELSE ~ IsWaypoint(st) => ~ sl.cb
             /\ IsRS1(st) => ~ Zcopy /\ r \notin MayBlock
  <1> DEFINE st    == StepAt(r, sl)
             count == PendingWhenSending(st, sl)
  <1>1. /\ IsStep(st, Ranks, Offsets) /\ sl.step \in DOMAIN Plan[r] /\ st = Plan[r][sl.step]
        /\ It(sl) \in Nat /\ sl.pending \in Nat /\ sl.zcomps \in Nat
    BY RecordFields
  <1>2. /\ Fragments(st) \in Nat \ {0} /\ RecvCount(st) \in Nat \ {0} /\ Owed(st) \in Nat
        /\ First(st) \in Nat /\ End(st) \in Nat /\ First(st) < End(st)
        /\ IsWaypoint(st) => Fragments(st) <= First(st)
        /\ ~ IsWaypoint(st) => First(st) = 0
        /\ IsR1S(st) => Fragments(st) * (Len(st.eps) - 1) = End(st) - First(st)
    BY <1>1, StepNumbers
  <1>3. /\ IsRS1(st) => ~ Zcopy /\ r \notin MayBlock
        /\ Zcopy /\ IsSendOnly(st) => RecvCount(st) = End(st)
    BY <1>1 DEF OrderlyPlan, RecvCount, End
  <1>4. /\ IsWaypoint(st) <=> IsR1S(st) \/ IsRS1(st)
        /\ IsRecv(st) => ~ IsWaypoint(st)
        /\ ~ IsRecv(st) => IsSendOnly(st) \/ IsWaypoint(st)
        /\ IsSendOnly(st) => ~ IsRecv(st) /\ ~ IsWaypoint(st)
        /\ ~ (IsR1S(st) /\ IsRS1(st))
        /\ IsZcopy(st) => Zcopy
        /\ ~ IsRecvOnly(st)
    BY Kinds
  <1>5. /\ ~ IsZcopy(st) \/ Flag(sl) => count = sl.pending
        /\ IsZcopy(st) /\ ~ Flag(sl) =>
             count = IF IsRecv(st) THEN RecvCount(st) + End(st)
                     ELSE IF IsR1S(st) THEN End(st) - First(st)
                     ELSE sl.pending
    BY <1>2, <1>3, <1>4 DEF PendingWhenSending, Flag, End
  <1>6. Owed(st) = IF IsRecv(st) THEN RecvCount(st) ELSE 0
    BY DEF Owed
  <1>7. IsWaypoint(st) => It(sl) >= Fragments(st)
    OBVIOUS
  <1> DEFINE n == It(sl)
             z == sl.zcomps
             p == sl.pending
             F == First(st)
             E == End(st)
             R == RecvCount(st)
             O == Owed(st)
  <1>8. ASSUME Fresh(r, sl)
        PROVE  /\ sl.busy /\ ~ sl.resending /\ Num(sl) = 0 /\ OthersRewound(r, sl) /\ ~ sl.cb
               /\ n = 0 /\ z = 0 /\ p = R /\ (IsZcopy(st) => ~ Flag(sl))
               /\ ~ IsWaypoint(st)
    <2>1. /\ sl.busy /\ ~ sl.resending /\ Num(sl) = 0 /\ OthersRewound(r, sl) /\ ~ sl.cb
          /\ n = 0 /\ z = 0 /\ p = R /\ (IsZcopy(st) => ~ Flag(sl))
      BY <1>1, <1>8 DEF Fresh, AllRewound, Rewound, OthersRewound, It, Num, Flag
    <2> HIDE DEF n, st
    <2>2. ~ IsWaypoint(st)
      BY <1>2, <1>7, <2>1 DEF n
    <2> QED BY <2>1, <2>2
  <1>9. ASSUME Second(r, sl)
        PROVE  /\ sl.busy /\ ~ sl.resending /\ Num(sl) = 0 /\ OthersRewound(r, sl) /\ sl.cb
               /\ n = F /\ z = 0 /\ (IsZcopy(st) => ~ Flag(sl))
               /\ IsWaypoint(st) /\ (IsR1S(st) => sl.recv_comp)
    BY <1>9 DEF Second
  <1>10. ASSUME Refused(r, sl), ~ sl.resending
         PROVE  /\ sl.busy /\ ~ sl.resending /\ Num(sl) = 0 /\ OthersRewound(r, sl)
                /\ IF IsR1S(st) THEN sl.cb /\ sl.recv_comp ELSE ~ sl.cb
                /\ ~ IsRS1(st) /\ F <= n /\ n < E /\ z <= n - F
                /\ IF IsZcopy(st) THEN p >= O + z + (E - n) ELSE z = 0
                /\ IsRecv(st) => p > 0
    BY <1>10 DEF Refused
  <1> HIDE DEF st, count, n, z, p, F, E, R, O
  <1>11. /\ n \in Nat /\ z \in Nat /\ p \in Nat /\ F \in Nat /\ E \in Nat /\ F < E
         /\ R \in Nat \ {0} /\ O = IF IsRecv(st) THEN R ELSE 0
         /\ ~ IsWaypoint(st) => F = 0
    BY <1>1, <1>2, <1>6 DEF n, z, p, F, E, R, O
  <1>12. /\ ~ IsZcopy(st) \/ Flag(sl) => count = p
         /\ IsZcopy(st) /\ ~ Flag(sl) =>
              count = IF IsRecv(st) THEN R + E ELSE IF IsR1S(st) THEN E - F ELSE p
         /\ IsZcopy(st) /\ IsSendOnly(st) => R = E
    BY <1>3, <1>4, <1>5 DEF p, F, E, R
  <1>13. /\ F <= n /\ n < E /\ count \in Nat /\ (IsRecv(st) => count > 0) /\ z <= n - F
         /\ IF IsZcopy(st) THEN count >= O + z + (E - n) ELSE z = 0
    <2>1. CASE Fresh(r, sl)
      <3>1. n = 0 /\ z = 0 /\ p = R /\ (IsZcopy(st) => ~ Flag(sl)) /\ ~ IsWaypoint(st)
        BY <1>8, <2>1
      <3> QED BY <1>4, <1>11, <1>12, <3>1
    <2>2. CASE Second(r, sl)
      <3>1. n = F /\ z = 0 /\ (IsZcopy(st) => ~ Flag(sl)) /\ IsWaypoint(st)
        BY <1>9, <2>2
      <3> QED BY <1>3, <1>4, <1>11, <1>12, <3>1
    <2>3. CASE Refused(r, sl) /\ ~ sl.resending
      <3>1. /\ ~ IsRS1(st) /\ F <= n /\ n < E /\ z <= n - F
            /\ IF IsZcopy(st) THEN p >= O + z + (E - n) ELSE z = 0
            /\ IsRecv(st) => p > 0
        BY <1>10, <2>3
      <3> QED BY <1>4, <1>11, <1>12, <3>1
    <2> QED BY <2>1, <2>2, <2>3 DEF SlotAt
  <1>14. /\ sl.busy /\ ~ sl.resending /\ Num(sl) = 0 /\ OthersRewound(r, sl)
         /\ IF IsR1S(st) THEN sl.cb /\ sl.recv_comp ELSE ~ IsWaypoint(st) => ~ sl.cb
    BY <1>4, <1>8, <1>9, <1>10 DEF SlotAt
  <1> QED BY <1>3, <1>13, <1>14 DEF n, z, F, E, O, st, count

\* The sends of a step go out, all of them or up to where the transport has no
\* resources.
LEMMA SendKeeps ==
  ASSUME OrderlyPlan, EngineInv, NEW r \in Ranks, NEW s \in SlotIds, NEW j \in Nat,
         ExecuteSend(r, s, j)
  PROVE  EngineInv' /\ BuffersKept
  <1> DEFINE sl    == slot[r][s]
             st    == StepAt(r, sl)
             i     == sl.iter[sl.step]
             end   == Fragments(st) * Len(st.eps)
             count == PendingWhenSending(st, sl)
             sent  == [sl EXCEPT !.pending = count,
                                 !.zcomps = IF IsZcopy(st) THEN @ + (j - i) ELSE @,
                                 !.iter[sl.step] = IterAfter(j, end)]
             blocked == [sent EXCEPT !.resending = TRUE,
                                     !.resend_flag[sl.step] = @ \/ Fragments(st) > 1]
  <1>1. /\ Inside("execute", r, s) /\ ~ IsRecvOnly(st)
        /\ IsWaypoint(st) => i >= Fragments(st)
        /\ j \in i .. end
        /\ net' = net \cup Sent(r, sl, i, j) /\ next' = next
        /\ j < end => r \in MayBlock /\ Enter(r, s, blocked, "out", 0, {})
        /\ ~ (j < end) /\ ((~ IsRecv(st) /\ ~ IsZcopy(st)) \/ count = 0) =>
             Enter(r, s, CompleteStep(r, sent), AfterStep(r, sent), pc.depth, {})
        /\ ~ (j < end) /\ ~ ((~ IsRecv(st) /\ ~ IsZcopy(st)) \/ count = 0) =>
             FinishSend(r, s, sent, pc.depth)
    BY DEF ExecuteSend
  <1>2. PcInv /\ SlotsInv /\ NetInv
    BY DEF EngineInv
  <1>3. sl \in SlotRecords(r) /\ SlotAt(r, sl, "execute")
    BY <1>1, <1>2, SlotNow
  <1>4. \A new : Kept(slot[r][s], new) <=> Kept(sl, new)
    OBVIOUS
  <1> HIDE DEF sl
  <1>5. /\ IsStep(st, Ranks, Offsets) /\ sl.step \in DOMAIN Plan[r]
        /\ i = It(sl) /\ i \in Nat /\ end = End(st) /\ end \in Nat
        /\ First(st) \in Nat /\ Owed(st) \in Nat /\ RecvCount(st) \in Nat \ {0}
        /\ sl.zcomps \in Nat
        /\ sl.resend_flag \in [DOMAIN Plan[r] -> BOOLEAN]
        /\ ~ IsWaypoint(st) => First(st) = 0
    BY <1>3, RecordFields, StepNumbers DEF It, End
  <1>6. /\ sl.busy /\ ~ sl.resending /\ Num(sl) = 0 /\ OthersRewound(r, sl)
        /\ First(st) <= i /\ i < end
        /\ count \in Nat /\ (IsRecv(st) => count > 0)
        /\ sl.zcomps <= i - First(st)
        /\ IF IsZcopy(st) THEN count >= Owed(st) + sl.zcomps + (end - i)
                          ELSE sl.zcomps = 0
        /\ IF IsR1S(st) THEN sl.cb /\ sl.recv_comp ELSE ~ IsWaypoint(st) => ~ sl.cb
        /\ IsRS1(st) => ~ Zcopy /\ r \notin MayBlock
    <2>1. IsWaypoint(st) => It(sl) >= Fragments(st)
      BY <1>1, <1>5
    <2> HIDE DEF i, end, count
    <2> QED BY <1>1, <1>3, <1>5, <2>1, ReadyToSend DEF st, count
  <1>7. NetInv'
    <2>1. ASSUME NEW m \in Sent(r, sl, i, j) PROVE m.to \in Ranks /\ m \in Mail(m.to)
      BY <1>1, <1>3, <1>5, <1>6, SentMail
    <2> QED BY <1>1, <1>2, <2>1 DEF NetInv
  <1> HIDE DEF st, i, end, count
  <1> DEFINE zc == IF IsZcopy(st) THEN sl.zcomps + (j - i) ELSE sl.zcomps
             it == IterAfter(j, end)
  <1>8. /\ zc \in Nat /\ it \in Nat /\ (j < end => it = j) /\ (~ (j < end) => it = 0)
        /\ zc <= j - First(st) /\ j <= end
        /\ IF IsZcopy(st) THEN count >= Owed(st) + zc + (end - j) ELSE zc = 0
    BY <1>1, <1>5, <1>6 DEF IterAfter
  <1>9. /\ sent \in SlotRecords(r)
        /\ sent.busy = sl.busy /\ sent.cb = sl.cb /\ sent.recv_comp = sl.recv_comp
        /\ sent.resending = sl.resending /\ sent.pending = count /\ sent.zcomps = zc
        /\ sent.step = sl.step /\ sent.buf = sl.buf
        /\ sent.iter[sl.step] = it
        /\ \A k \in DOMAIN Plan[r] : k # sl.step => sent.iter[k] = sl.iter[k]
        /\ sent.num_store = sl.num_store /\ sent.resend_flag = sl.resend_flag
    <2>1. sent = [sl EXCEPT !.pending = count, !.zcomps = zc, !.iter[sl.step] = it]
      OBVIOUS
    <2> HIDE DEF sent, zc, it
    <2> QED BY <1>3, <1>5, <1>6, <1>8, <2>1 DEF SlotRecords
  <1>10. /\ blocked \in SlotRecords(r) /\ blocked.resending
         /\ blocked.busy = sl.busy /\ blocked.cb = sl.cb /\ blocked.recv_comp = sl.recv_comp
         /\ blocked.pending = count /\ blocked.zcomps = zc
         /\ blocked.step = sl.step /\ blocked.buf = sl.buf /\ blocked.iter = sent.iter
         /\ blocked.num_store = sl.num_store
         /\ \A k \in DOMAIN Plan[r] : k # sl.step => blocked.resend_flag[k] = sl.resend_flag[k]
    <2> DEFINE flag == sent.resend_flag[sl.step] \/ Fragments(st) > 1
    <2>1. blocked = [sent EXCEPT !.resending = TRUE, !.resend_flag[sl.step] = flag]
      OBVIOUS
    <2>2. flag \in BOOLEAN
      OBVIOUS
    <2> HIDE DEF sent, zc, it, blocked, flag
    <2> QED BY <1>5, <1>9, <2>1, <2>2 DEF SlotRecords
  <1> HIDE DEF sent, blocked, zc, it
  <1>11. StepAt(r, sent) = st /\ StepAt(r, blocked) = st
    BY <1>9, <1>10 DEF StepAt, st
  <1>12. OthersRewound(r, sent) /\ OthersRewound(r, blocked)
    BY <1>6, <1>9, <1>10 DEF OthersRewound, Rewound
  <1>13. /\ It(sent) = it /\ Num(sent) = 0 /\ It(blocked) = it /\ Num(blocked) = 0
         /\ Flag(sent) = Flag(sl)
    BY <1>6, <1>9, <1>10 DEF It, Num, Flag
  <1>14. Kept(slot[r][s], sent) /\ Kept(slot[r][s], blocked)
    BY <1>4, <1>6, <1>9, <1>10 DEF Kept
  <1>15. 0 \in 0 .. MaxMsgList /\ {} \subseteq Mail(r)
    BY EngineAssumption
  <1>16. pc.depth \in 0 .. MaxMsgList /\ pc.rank = r /\ pc.slot = s
    BY <1>1, <1>2 DEF PcInv, Inside
  <1>17. /\ IsWaypoint(st) <=> IsR1S(st) \/ IsRS1(st)
         /\ IsRecv(st) => ~ IsWaypoint(st)
         /\ ~ IsRecv(st) => IsSendOnly(st) \/ IsWaypoint(st)
         /\ IsZcopy(st) => Zcopy
    BY Kinds
  <1>18. CASE j < end
    <2>1. ~ IsRS1(st)
      BY <1>1, <1>6, <1>18
    <2>2. First(st) <= j
      BY <1>1, <1>5, <1>6
    <2>3. IF IsR1S(st) THEN blocked.cb /\ blocked.recv_comp ELSE ~ blocked.cb
      BY <1>6, <1>10, <1>17, <2>1
    <2>4. Refused(r, blocked)
      BY <1>1, <1>5, <1>6, <1>8, <1>10, <1>11, <1>12, <1>13, <1>18, <2>1, <2>2, <2>3
         DEF Refused
    <2>5. SlotAt(r, blocked, "out") /\ Enter(r, s, blocked, "out", 0, {})
      BY <1>1, <1>10, <1>18, <2>4 DEF SlotAt
    <2>6. PcInv' /\ SlotsInv' /\ BuffersKept
      BY <1>2, <1>10, <1>14, <1>15, <1>16, <2>5, EnterKeeps
    <2> QED BY <1>1, <1>7, <2>6 DEF EngineInv
  <1>19. CASE ~ (j < end) /\ ((~ IsRecv(st) /\ ~ IsZcopy(st)) \/ count = 0)
    <2>1. ~ IsRecv(st) /\ ~ IsZcopy(st) /\ zc = 0
      BY <1>5, <1>6, <1>8, <1>19
    <2>2. Rewound(r, sent, sl.step)
      BY <1>8, <1>9, <1>13, <1>19, <2>1 DEF Rewound, It, Num, st, StepAt
    <2>3. AllRewound(r, sent)
      BY <1>9, <1>12, <2>2 DEF AllRewound, OthersRewound
    <2>4. /\ CompleteStep(r, sent) \in SlotRecords(r)
          /\ CompleteStep(r, sent).zcomps = 0
          /\ AfterStep(r, sent) \in {"out", "execute"}
          /\ SlotAt(r, CompleteStep(r, sent), AfterStep(r, sent))
      BY <1>6, <1>9, <2>1, <2>3, CompleteStepKeeps
    <2>5. Kept(slot[r][s], CompleteStep(r, sent))
      BY <2>4 DEF Kept
    <2>6. Enter(r, s, CompleteStep(r, sent), AfterStep(r, sent), pc.depth, {})
      BY <1>1, <1>19
    <2>7. PcInv' /\ SlotsInv' /\ BuffersKept
      BY <1>2, <1>15, <1>16, <2>4, <2>5, <2>6, EnterKeeps
    <2> QED BY <1>1, <1>7, <2>7 DEF EngineInv
  <1>20. CASE ~ (j < end) /\ ~ ((~ IsRecv(st) /\ ~ IsZcopy(st)) \/ count = 0)
    <2>1. count > 0 /\ it = 0 /\ end = j
      <3>1. count # 0 /\ ~ (j < end)
        BY <1>20
      <3>2. end = j
        BY <1>5, <1>8, <3>1
      <3>3. count > 0
        BY <1>6, <3>1
      <3> QED BY <1>8, <3>1, <3>2, <3>3
    <2>2. IsZcopy(st) => count >= Owed(st) + zc
      BY <1>5, <1>8, <2>1
    <2>3. \/ AwaitsMessages(st, sent) \/ AwaitsSends(st, sent)
      <3>1. CASE IsRecv(st)
        <4>1. Owed(st) = RecvCount(st)
          BY <3>1 DEF Owed
        <4> QED BY <1>8, <1>9, <1>13, <2>1, <2>2, <3>1, <4>1 DEF AwaitsMessages
      <3>2. CASE ~ IsRecv(st)
        <4>1. IsZcopy(st) /\ Owed(st) = 0
          BY <1>20, <3>2 DEF Owed
        <4>2. IsSendOnly(st) \/ (IsR1S(st) /\ sent.recv_comp)
          BY <1>6, <1>9, <1>17, <3>2, <4>1
        <4> QED BY <1>8, <1>9, <1>13, <2>1, <2>2, <4>1, <4>2 DEF AwaitsSends
      <3> QED BY <3>1, <3>2
    <2>4. FinishSend(r, s, sent, pc.depth)
      BY <1>1, <1>20
    <2>5. sent.busy /\ ~ sent.resending /\ sent.pending > 0
      BY <1>6, <1>9, <2>1
    <2>6. PcInv' /\ SlotsInv' /\ BuffersKept
      BY <1>2, <1>9, <1>11, <1>12, <1>13, <1>14, <1>16, <2>3, <2>4, <2>5, FinishSendKeeps
    <2> QED BY <1>1, <1>7, <2>6 DEF EngineInv
  <1> QED BY <1>18, <1>19, <1>20

\* Of the stored messages of a step there is a first one.
LEMMA FirstMatching ==
  ASSUME NEW S, S \subseteq Nat, S # {}
  PROVE  (CHOOSE i \in S : \A j \in S : i <= j) \in S
  <1>1. PICK x \in S : \A y \in S : ~ (<<y, x>> \in OpToRel(<, Nat))
    BY NatLessThanWellFounded, WFMin
  <1>2. ASSUME NEW y \in S
        PROVE  x <= y
    <2>1. <<y, x>> \in Nat \X Nat /\ ~ (<<y, x>> \in OpToRel(<, Nat))
      BY <1>1
    <2>2. ~ (y < x)
      BY <2>1 DEF OpToRel
    <2> QED BY <2>2
  <1> QED BY <1>2

\* A stored message is taken out and given to its step.
LEMMA ScanMatchKeeps ==
  ASSUME OrderlyPlan, EngineInv, NEW r \in Ranks, NEW s \in SlotIds, ScanMatch(r, s)
  PROVE  EngineInv' /\ BuffersKept
  <1> DEFINE sl   == slot[r][s]
             i    == CHOOSE i \in Matching(r, sl) : \A j \in Matching(r, sl) : i <= j
             rest == [sl EXCEPT !.msgs = SubSeq(@, 1, i - 1) \o SubSeq(@, i + 1, Len(@))]
             m    == sl.msgs[i]
             res  == Callback(r, rest, m)
  <1>1. /\ Inside("scan", r, s) /\ Matching(r, sl) # {} /\ UNCHANGED <<next, net>>
        /\ pc.depth = MaxMsgList => Enter(r, s, sl, "scan", 0, pc.then)
        /\ pc.depth # MaxMsgList /\ res.at = "more" =>
             Enter(r, s, res.slot, "scan", pc.depth, pc.then)
        /\ pc.depth # MaxMsgList /\ res.at # "more" =>
             Enter(r, s, res.slot, res.at, pc.depth + 1, {})
    BY DEF ScanMatch
  <1>2. PcInv /\ SlotsInv
    BY DEF EngineInv
  <1>3. sl \in SlotRecords(r) /\ SlotAt(r, sl, "scan")
    BY <1>1, <1>2, SlotNow
  <1>4. \A new : Kept(slot[r][s], new) <=> Kept(sl, new)
    OBVIOUS
  <1>5. /\ pc.rank = r /\ pc.slot = s /\ pc.depth \in 0 .. MaxMsgList
        /\ pc.then \subseteq Mail(r)
        /\ pc.then # {} => IsRecv(StepAt(r, sl))
    BY <1>1, <1>2 DEF PcInv, Inside
  <1> HIDE DEF sl
  <1>6. Scanning(r, sl)
    BY <1>3 DEF SlotAt
  <1>7. sl.msgs \in Seq(Mail(r)) /\ DOMAIN sl.msgs = 1 .. Len(sl.msgs) /\ Len(sl.msgs) \in Nat
    BY <1>3, RecordFields
  <1>8. i \in 1 .. Len(sl.msgs) /\ Matches(r, sl, m)
    <2>1. Matching(r, sl) \subseteq Nat
      BY <1>7 DEF Matching
    <2>2. i \in Matching(r, sl)
      BY <1>1, <2>1, FirstMatching
    <2> HIDE DEF i
    <2> QED BY <1>7, <2>2 DEF Matching
  <1> HIDE DEF i
  <1>9. m \in Mail(r)
    <2>1. ASSUME NEW S, NEW t \in Seq(S), NEW d \in 1 .. Len(t) PROVE t[d] \in S
      OBVIOUS
    <2> QED BY <1>7, <1>8, <2>1
  <1>10. ~ (IsZcopy(StepAt(r, sl)) /\ IsSendOnly(StepAt(r, sl)))
    BY <1>3, <1>8, <1>9, NoStrangers
  <1> DEFINE left == SubSeq(sl.msgs, 1, i - 1) \o SubSeq(sl.msgs, i + 1, Len(sl.msgs))
  <1>11. left \in Seq(Mail(r))
    <2>1. \A d \in 1 .. Len(sl.msgs) : sl.msgs[d] \in Mail(r)
      BY <1>7
    <2>2. i - 1 \in Int /\ i + 1 \in Int /\ i \in Int
      BY <1>8
    <2>3. \A d \in 1 .. i - 1 : sl.msgs[d] \in Mail(r)
      BY <1>7, <1>8, <2>1
    <2>4. \A d \in i + 1 .. Len(sl.msgs) : sl.msgs[d] \in Mail(r)
      BY <1>7, <1>8, <2>1
    <2>5. SubSeq(sl.msgs, 1, i - 1) \in Seq(Mail(r))
      BY <2>2, <2>3, SubSeqProperties
    <2>6. SubSeq(sl.msgs, i + 1, Len(sl.msgs)) \in Seq(Mail(r))
      BY <1>7, <2>2, <2>4, SubSeqProperties
    <2> QED BY <2>5, <2>6
  <1> HIDE DEF left
  <1>12. /\ rest \in SlotRecords(r)
         /\ rest.busy = sl.busy /\ rest.cb = sl.cb /\ rest.resending = sl.resending
         /\ rest.recv_comp = sl.recv_comp /\ rest.pending = sl.pending
         /\ rest.zcomps = sl.zcomps /\ rest.step = sl.step /\ rest.buf = sl.buf
         /\ rest.iter = sl.iter /\ rest.num_store = sl.num_store
         /\ rest.resend_flag = sl.resend_flag
    <2>1. rest = [sl EXCEPT !.msgs = left]
      BY DEF left
    <2> HIDE DEF rest
    <2> QED BY <1>3, <1>11, <2>1 DEF SlotRecords
  <1> HIDE DEF rest, m
  <1>13. StepAt(r, rest) = StepAt(r, sl)
    BY <1>12 DEF StepAt
  <1>14. Scanning(r, rest)
    BY <1>6, <1>12, <1>13
       DEF Scanning, Waiting, OthersRewound, Rewound, AwaitsMessages, AwaitsSends,
           AwaitsFirstHalf, It, Num, Flag
  <1>15. /\ res.slot \in SlotRecords(r) /\ res.at \in {"more", "execute", "out"}
         /\ rest.zcomps = 0 /\ res.slot.zcomps = 0
         /\ res.at = "more" => Scanning(r, res.slot) /\ StepAt(r, res.slot) = StepAt(r, rest)
         /\ res.at # "more" => SlotAt(r, res.slot, res.at)
    BY <1>9, <1>10, <1>12, <1>13, <1>14, CallbackKeeps
  <1> HIDE DEF res
  <1>16. Kept(slot[r][s], sl) /\ Kept(slot[r][s], res.slot)
    BY <1>4, <1>6, <1>15 DEF Kept, Scanning, Waiting
  <1>17. 0 \in 0 .. MaxMsgList /\ {} \subseteq Mail(r)
    BY EngineAssumption
  <1>18. PcInv' /\ SlotsInv' /\ BuffersKept
    <2>1. CASE pc.depth = MaxMsgList
      <3>1. Enter(r, s, sl, "scan", 0, pc.then)
        BY <1>1, <2>1
      <3> QED BY <1>2, <1>3, <1>5, <1>16, <1>17, <3>1, EnterKeeps
    <2>2. CASE pc.depth # MaxMsgList /\ res.at = "more"
      <3>1. Enter(r, s, res.slot, "scan", pc.depth, pc.then)
        BY <1>1, <2>2
      <3>2. SlotAt(r, res.slot, "scan")
        BY <1>15, <2>2 DEF SlotAt
      <3>3. pc.then # {} => IsRecv(StepAt(r, res.slot))
        BY <1>5, <1>13, <1>15, <2>2
      <3> QED BY <1>2, <1>5, <1>15, <1>16, <3>1, <3>2, <3>3, EnterKeeps
    <2>3. CASE pc.depth # MaxMsgList /\ res.at # "more"
      <3>1. Enter(r, s, res.slot, res.at, pc.depth + 1, {})
        BY <1>1, <2>3
      <3>2. pc.depth + 1 \in 0 .. MaxMsgList /\ res.at \in {"out", "execute", "scan"}
        BY <1>5, <1>15, <2>3, EngineAssumption
      <3>3. SlotAt(r, res.slot, res.at)
        BY <1>15, <2>3
      <3> QED BY <1>2, <1>5, <1>15, <1>16, <1>17, <3>1, <3>2, <3>3, EnterKeeps
    <2> QED BY <2>1, <2>2, <2>3
  <1> QED BY <1>1, <1>18, SlotsSuffice

\* What a callback leaves when it was called for a message that came in.
LEMMA CalledBack ==
  ASSUME PcInv, SlotsInv, NEW r \in Ranks, NEW s \in SlotIds,
         pc.at = "out" \/ (pc.rank = r /\ pc.slot = s),
         NEW sl \in SlotRecords(r), Scanning(r, sl),
         ~ (IsZcopy(StepAt(r, sl)) /\ IsSendOnly(StepAt(r, sl))),
         NEW m \in Mail(r),
         LET res == Callback(r, sl, m)
         IN  Enter(r, s, res.slot, IF res.at = "more" THEN "out" ELSE res.at, 0, {})
  PROVE  PcInv' /\ SlotsInv' /\ BuffersKept
  <1> DEFINE res == Callback(r, sl, m)
             at  == IF res.at = "more" THEN "out" ELSE res.at
  <1>1. /\ res.slot \in SlotRecords(r) /\ res.at \in {"more", "execute", "out"}
        /\ res.slot.zcomps = 0
        /\ res.at = "more" => Scanning(r, res.slot)
        /\ res.at # "more" => SlotAt(r, res.slot, res.at)
    BY CallbackKeeps
  <1>2. Enter(r, s, res.slot, at, 0, {})
    OBVIOUS
  <1> HIDE DEF res
  <1>3. SlotAt(r, res.slot, at)
    BY <1>1 DEF SlotAt, Scanning
  <1>4. Kept(slot[r][s], res.slot)
    BY <1>1 DEF Kept
  <1>5. 0 \in 0 .. MaxMsgList /\ {} \subseteq Mail(r) /\ at \in {"out", "execute", "scan"}
    BY <1>1, EngineAssumption
  <1> HIDE DEF at
  <1> QED BY <1>1, <1>2, <1>3, <1>4, <1>5, EnterKeeps

\* No stored message is left; the one that was coming in is given to the step.
LEMMA ScanEndKeeps ==
  ASSUME EngineInv, NEW r \in Ranks, NEW s \in SlotIds, ScanEnd(r, s)
  PROVE  EngineInv' /\ BuffersKept
  <1> DEFINE sl == slot[r][s]
  <1>1. /\ Inside("scan", r, s) /\ UNCHANGED <<next, net>>
        /\ pc.then = {} => Enter(r, s, sl, "out", 0, {})
        /\ pc.then # {} =>
             \E m \in pc.then :
               LET res == Callback(r, sl, m)
               IN  Enter(r, s, res.slot, IF res.at = "more" THEN "out" ELSE res.at, 0, {})
    BY DEF ScanEnd
  <1>2. PcInv /\ SlotsInv
    BY DEF EngineInv
  <1>3. sl \in SlotRecords(r) /\ SlotAt(r, sl, "scan")
    BY <1>1, <1>2, SlotNow
  <1>4. /\ pc.rank = r /\ pc.slot = s /\ pc.then \subseteq Mail(r)
        /\ pc.then # {} => IsRecv(StepAt(r, sl))
    BY <1>1, <1>2 DEF PcInv, Inside
  <1>5. Kept(slot[r][s], sl) <=> Kept(sl, sl)
    OBVIOUS
  <1> HIDE DEF sl
  <1>6. Scanning(r, sl)
    BY <1>3 DEF SlotAt
  <1>7. PcInv' /\ SlotsInv' /\ BuffersKept
    <2>1. CASE pc.then = {}
      <3>1. Enter(r, s, sl, "out", 0, {}) /\ SlotAt(r, sl, "out") /\ Kept(slot[r][s], sl)
        BY <1>1, <1>5, <1>6, <2>1 DEF SlotAt, Scanning, Waiting, Kept
      <3>2. 0 \in 0 .. MaxMsgList /\ {} \subseteq Mail(r)
        BY EngineAssumption
      <3> QED BY <1>2, <1>3, <1>4, <3>1, <3>2, EnterKeeps
    <2>2. CASE pc.then # {}
      <3>1. PICK m \in pc.then :
              LET res == Callback(r, sl, m)
              IN  Enter(r, s, res.slot, IF res.at = "more" THEN "out" ELSE res.at, 0, {})
        BY <1>1, <2>2
      <3>2. m \in Mail(r) /\ ~ IsSendOnly(StepAt(r, sl))
        BY <1>4, <2>2, Kinds
      <3> QED BY <1>2, <1>3, <1>4, <1>6, <3>1, <3>2, CalledBack
    <2> QED BY <2>1, <2>2
  <1> QED BY <1>1, <1>7, SlotsSuffice

\* Where a record stands does not depend on the messages stored with it.
LEMMA StoreKeeps ==
  ASSUME NEW r \in Ranks, NEW sl \in SlotRecords(r), SlotAt(r, sl, "out"), NEW m \in Mail(r)
  PROVE  Store(sl, m) \in SlotRecords(r) /\ SlotAt(r, Store(sl, m), "out") /\ Kept(sl, Store(sl, m))
  <1> DEFINE new  == Store(sl, m)
             more == Append(sl.msgs, m)
  <1>1. more \in Seq(Mail(r))
    <2>1. sl.msgs \in Seq(Mail(r))
      BY RecordFields
    <2> QED BY <2>1
  <1>2. new = [sl EXCEPT !.msgs = more]
    BY DEF Store
  <1> HIDE DEF new, more
  <1>3. /\ new \in SlotRecords(r)
        /\ new.busy = sl.busy /\ new.cb = sl.cb /\ new.resending = sl.resending
        /\ new.recv_comp = sl.recv_comp /\ new.pending = sl.pending
        /\ new.zcomps = sl.zcomps /\ new.step = sl.step /\ new.buf = sl.buf
        /\ new.iter = sl.iter /\ new.num_store = sl.num_store
        /\ new.resend_flag = sl.resend_flag
    BY <1>1, <1>2 DEF SlotRecords
  <1>4. StepAt(r, new) = StepAt(r, sl)
    BY <1>3 DEF StepAt
  <1>5. /\ \A i \in DOMAIN Plan[r] : Rewound(r, new, i) <=> Rewound(r, sl, i)
        /\ It(new) = It(sl) /\ Num(new) = Num(sl) /\ Flag(new) = Flag(sl)
    BY <1>3 DEF Rewound, It, Num, Flag
  <1>6. Done(r, sl) => Done(r, new)
    BY <1>3, <1>5 DEF Done, AllRewound
  <1>7. Refused(r, sl) => Refused(r, new)
    BY <1>3, <1>4, <1>5 DEF Refused, OthersRewound
  <1>8. Waiting(r, sl) => Waiting(r, new)
    BY <1>3, <1>4, <1>5
       DEF Waiting, OthersRewound, AwaitsMessages, AwaitsSends, AwaitsFirstHalf
  <1>9. SlotAt(r, new, "out")
    BY <1>3, <1>6, <1>7, <1>8 DEF SlotAt
  <1>10. sl.zcomps > 0 => sl.busy
    BY DEF SlotAt, Done, Waiting, Refused
  <1>11. Kept(sl, new)
    BY <1>3, <1>10 DEF Kept
  <1> QED BY <1>3, <1>9, <1>11 DEF new

\* The count of what is stored for a waiting step.
LEMMA CountStored ==
  ASSUME NEW r \in Ranks, NEW sl \in SlotRecords(r), Waiting(r, sl),
         IsZcopy(StepAt(r, sl)), IsRecv(StepAt(r, sl)),
         NEW n \in 0 .. RecvCount(StepAt(r, sl))
  PROVE  LET new == [sl EXCEPT !.num_store[sl.step] = n]
         IN  /\ new \in SlotRecords(r) /\ Waiting(r, new) /\ Num(new) = n
             /\ new.zcomps = sl.zcomps /\ StepAt(r, new) = StepAt(r, sl)
             /\ new.busy /\ new.step = sl.step /\ new.buf = sl.buf /\ new.pending = sl.pending
  <1> DEFINE st  == StepAt(r, sl)
             new == [sl EXCEPT !.num_store[sl.step] = n]
  <1>1. RecvCount(st) \in Nat \ {0} /\ sl.step \in DOMAIN Plan[r]
    BY RecordFields, StepNumbers
  <1> HIDE DEF st
  <1>2. n \in Nat /\ n <= RecvCount(st)
    BY <1>1 DEF st
  <1>3. /\ new \in SlotRecords(r)
        /\ new.busy = sl.busy /\ new.cb = sl.cb /\ new.resending = sl.resending
        /\ new.recv_comp = sl.recv_comp /\ new.pending = sl.pending
        /\ new.zcomps = sl.zcomps /\ new.step = sl.step /\ new.buf = sl.buf
        /\ new.iter = sl.iter /\ new.resend_flag = sl.resend_flag
        /\ new.num_store[sl.step] = n
        /\ \A i \in DOMAIN Plan[r] : i # sl.step => new.num_store[i] = sl.num_store[i]
    BY <1>1, <1>2 DEF SlotRecords
  <1> HIDE DEF new
  <1>4. /\ StepAt(r, new) = st /\ Num(new) = n /\ It(new) = It(sl) /\ Flag(new) = Flag(sl)
        /\ OthersRewound(r, sl) => OthersRewound(r, new)
    BY <1>3 DEF StepAt, Num, It, Flag, OthersRewound, Rewound, st
  <1>5. AwaitsMessages(st, sl)
    BY Kinds DEF Waiting, AwaitsSends, AwaitsFirstHalf, st
  <1>6. AwaitsMessages(st, new)
    BY <1>3, <1>4, <1>5 DEF AwaitsMessages, st
  <1>7. Waiting(r, new)
    BY <1>2, <1>3, <1>4, <1>6 DEF Waiting, st
  <1>8. sl.busy
    BY DEF Waiting
  <1> QED BY <1>3, <1>4, <1>7, <1>8 DEF new, st

\* A message comes in.
LEMMA DeliverKeeps ==
  ASSUME OrderlyPlan, EngineInv, NEW m \in net, Deliver(m)
  PROVE  EngineInv' /\ BuffersKept
  <1> DEFINE r    == m.to
             s    == m.coll_id % Slots
             sl   == slot[r][s]
             st   == StepAt(r, sl)
             here == sl.cb /\ Matches(r, sl, m)
             res  == Callback(r, sl, m)
             none == [sl EXCEPT !.num_store[sl.step] = 0]
  <1>1. /\ pc.at = "out" /\ net' = net \ {m} /\ next' = next
        /\ ~ here => Enter(r, s, Store(sl, m), "out", 0, {})
        /\ here /\ WaitsForSends(sl, st) => Enter(r, s, StoreForLater(sl, st, m), "out", 0, {})
        /\ here /\ ~ WaitsForSends(sl, st) /\ IsZcopy(st) /\ IsRecv(st) /\ Num(sl) > 0 =>
             Enter(r, s, none, "scan", 0, {m})
        /\ /\ here /\ ~ WaitsForSends(sl, st) /\ ~ (IsZcopy(st) /\ IsRecv(st) /\ Num(sl) > 0)
           /\ IsR1S(st) /\ sl.recv_comp
           => Enter(r, s, Store(sl, m), "out", 0, {})
        /\ /\ here /\ ~ WaitsForSends(sl, st) /\ ~ (IsZcopy(st) /\ IsRecv(st) /\ Num(sl) > 0)
           /\ ~ (IsR1S(st) /\ sl.recv_comp)
           => Enter(r, s, res.slot, IF res.at = "more" THEN "out" ELSE res.at, 0, {})
    BY DEF Deliver, Num
  <1>2. PcInv /\ SlotsInv /\ NetInv
    BY DEF EngineInv
  <1>3. r \in Ranks /\ m \in Mail(r) /\ s \in SlotIds
    <2>1. r \in Ranks /\ m \in Mail(r)
      BY <1>2 DEF NetInv
    <2>2. m.coll_id \in 0 .. IdSpace - 1
      BY <2>1 DEF Mail
    <2>3. m.coll_id \in Nat
      BY <2>2, EngineAssumption
    <2> QED BY <2>1, <2>3, Ids
  <1> HIDE DEF r, s
  <1>4. sl \in SlotRecords(r) /\ SlotAt(r, sl, "out")
    BY <1>1, <1>2, <1>3, SlotNow
  <1>5. \A new : Kept(slot[r][s], new) <=> Kept(sl, new)
    OBVIOUS
  <1> HIDE DEF sl
  <1>6. /\ RecvCount(st) \in Nat \ {0} /\ sl.step \in DOMAIN Plan[r] /\ Num(sl) \in Nat
        /\ sl.pending \in Nat /\ sl.zcomps \in Nat
    BY <1>3, <1>4, RecordFields, StepNumbers
  <1>7. here /\ ~ (IsR1S(st) /\ sl.recv_comp) => Waiting(r, sl)
    BY <1>4 DEF SlotAt, Done, Refused, st
  <1>8. IsRecv(st) => ~ IsR1S(st)
    BY Kinds DEF st
  <1>9. 0 \in 0 .. MaxMsgList /\ {} \subseteq Mail(r)
    BY EngineAssumption
  <1>10. ASSUME Enter(r, s, Store(sl, m), "out", 0, {})
         PROVE  PcInv' /\ SlotsInv' /\ BuffersKept
    <2>1. Store(sl, m) \in SlotRecords(r) /\ SlotAt(r, Store(sl, m), "out")
          /\ Kept(slot[r][s], Store(sl, m))
      BY <1>3, <1>4, <1>5, StoreKeeps
    <2> QED BY <1>1, <1>2, <1>3, <1>9, <1>10, <2>1, EnterKeeps
  <1>11. ASSUME here, WaitsForSends(sl, st)
         PROVE  PcInv' /\ SlotsInv' /\ BuffersKept
    <2>1. IsZcopy(st) /\ IsRecv(st)
      BY <1>11 DEF WaitsForSends
    <2>2. Waiting(r, sl)
      BY <1>7, <1>8, <1>11, <2>1
    <2> DEFINE n       == IF Num(sl) + 1 > RecvCount(st) THEN Num(sl) ELSE Num(sl) + 1
               counted == [sl EXCEPT !.num_store[sl.step] = n]
    <2>3. n \in 0 .. RecvCount(st)
      <3>1. Num(sl) <= RecvCount(st)
        BY <2>2 DEF Waiting, st
      <3> QED BY <1>6, <3>1
    <2>4. StoreForLater(sl, st, m) = Store(counted, m)
      BY DEF StoreForLater, Num
    <2> HIDE DEF n
    <2>5. /\ counted \in SlotRecords(r) /\ Waiting(r, counted)
          /\ counted.zcomps = sl.zcomps /\ counted.busy /\ counted.step = sl.step
          /\ counted.buf = sl.buf
      BY <1>3, <1>4, <2>1, <2>2, <2>3, CountStored DEF st
    <2> HIDE DEF counted
    <2>6. SlotAt(r, counted, "out")
      BY <2>5 DEF SlotAt
    <2>7. /\ Store(counted, m) \in SlotRecords(r) /\ SlotAt(r, Store(counted, m), "out")
          /\ Kept(counted, Store(counted, m))
      BY <1>3, <2>5, <2>6, StoreKeeps
    <2>8. Kept(slot[r][s], Store(counted, m))
      BY <1>5, <2>5, <2>7 DEF Kept
    <2>9. Enter(r, s, Store(counted, m), "out", 0, {})
      BY <1>1, <1>11, <2>4
    <2> QED BY <1>1, <1>2, <1>3, <1>9, <2>7, <2>8, <2>9, EnterKeeps
  <1>12. ASSUME here, ~ WaitsForSends(sl, st), IsZcopy(st), IsRecv(st), Num(sl) > 0
         PROVE  PcInv' /\ SlotsInv' /\ BuffersKept
    <2>1. Waiting(r, sl)
      BY <1>7, <1>8, <1>12
    <2>2. sl.zcomps = 0
      <3>1. sl.pending <= RecvCount(st)
        BY <1>6, <1>12 DEF WaitsForSends
      <3>2. AwaitsMessages(st, sl)
        BY <1>12, <2>1, Kinds DEF Waiting, AwaitsSends, AwaitsFirstHalf, st
      <3> QED BY <1>6, <3>1, <3>2 DEF AwaitsMessages
    <2>3. 0 \in 0 .. RecvCount(st)
      BY <1>6
    <2>4. /\ none \in SlotRecords(r) /\ Waiting(r, none) /\ Num(none) = 0
          /\ none.zcomps = sl.zcomps /\ StepAt(r, none) = st
          /\ none.busy /\ none.step = sl.step /\ none.buf = sl.buf
      BY <1>3, <1>4, <1>12, <2>1, <2>3, CountStored DEF st
    <2>5. Enter(r, s, none, "scan", 0, {m})
      BY <1>1, <1>12
    <2> HIDE DEF none
    <2>6. Scanning(r, none)
      BY <1>8, <1>12, <2>2, <2>4 DEF Scanning
    <2>7. SlotAt(r, none, "scan") /\ Kept(slot[r][s], none)
      BY <1>5, <2>2, <2>4, <2>6 DEF SlotAt, Kept
    <2>8. {m} \subseteq Mail(r) /\ IsRecv(StepAt(r, none))
      BY <1>3, <1>12, <2>4
    <2> QED BY <1>1, <1>2, <1>3, <1>9, <2>4, <2>5, <2>7, <2>8, EnterKeeps
  <1>13. ASSUME here, ~ WaitsForSends(sl, st), ~ (IsZcopy(st) /\ IsRecv(st) /\ Num(sl) > 0),
                ~ (IsR1S(st) /\ sl.recv_comp)
         PROVE  PcInv' /\ SlotsInv' /\ BuffersKept
    <2>1. Waiting(r, sl) /\ Matches(r, sl, m)
      BY <1>7, <1>13
    <2>2. ~ (IsZcopy(st) /\ IsSendOnly(st))
      BY <1>3, <1>4, <2>1, NoStrangers DEF st
    <2>3. AwaitsMessages(st, sl) \/ AwaitsSends(st, sl) \/ AwaitsFirstHalf(st, sl)
      BY <2>1 DEF Waiting, st
    <2>4. Num(sl) = 0
      BY <1>6, <1>13, <2>3 DEF AwaitsMessages, AwaitsSends, AwaitsFirstHalf
    <2>5. IsRecv(st) => sl.zcomps = 0
      <3>1. SUFFICES ASSUME IsRecv(st) PROVE sl.zcomps = 0
        OBVIOUS
      <3>2. AwaitsMessages(st, sl)
        BY <2>3, <3>1, Kinds DEF AwaitsSends, AwaitsFirstHalf, st
      <3>3. IsZcopy(st) => sl.pending <= RecvCount(st)
        BY <1>6, <1>13, <3>1 DEF WaitsForSends
      <3> QED BY <1>6, <3>2, <3>3 DEF AwaitsMessages
    <2>6. Scanning(r, sl)
      BY <1>13, <2>1, <2>4, <2>5 DEF Scanning, st
    <2>7. Enter(r, s, res.slot, IF res.at = "more" THEN "out" ELSE res.at, 0, {})
      BY <1>1, <1>13
    <2> QED BY <1>1, <1>2, <1>3, <1>4, <2>2, <2>6, <2>7, CalledBack DEF st
  <1>14. PcInv' /\ SlotsInv' /\ BuffersKept
    BY <1>1, <1>10, <1>11, <1>12, <1>13
  <1>15. NetInv'
    BY <1>1, <1>2 DEF NetInv
  <1> QED BY <1>1, <1>14, <1>15 DEF EngineInv

\* The transport is done with a send.
LEMMA ZcopyDoneKeeps ==
  ASSUME EngineInv, NEW r \in Ranks, NEW s \in SlotIds, ZcopyDone(r, s)
  PROVE  EngineInv' /\ BuffersKept
  <1> DEFINE sl   == slot[r][s]
             st   == StepAt(r, sl)
             num  == sl.num_store[sl.step]
             less == [sl EXCEPT !.zcomps = @ - 1, !.pending = @ - 1]
             none == [less EXCEPT !.num_store[sl.step] = 0]
  <1>1. /\ pc.at = "out" /\ sl.zcomps > 0 /\ UNCHANGED <<next, net>>
        /\ less.pending # num => Enter(r, s, less, "out", 0, {})
        /\ less.pending = num /\ num = 0 =>
             Enter(r, s, CompleteStep(r, less), AfterStep(r, less), 0, {})
        /\ less.pending = num /\ num # 0 => Enter(r, s, none, "scan", 0, {})
    BY DEF ZcopyDone
  <1>2. PcInv /\ SlotsInv
    BY DEF EngineInv
  <1>3. sl \in SlotRecords(r) /\ SlotAt(r, sl, "out")
    BY <1>1, <1>2, SlotNow
  <1>4. \A new : Kept(slot[r][s], new) <=> Kept(sl, new)
    OBVIOUS
  <1> HIDE DEF sl
  <1>5. /\ IsStep(st, Ranks, Offsets) /\ sl.step \in DOMAIN Plan[r]
        /\ num = Num(sl) /\ num \in Nat /\ sl.pending \in Nat /\ sl.zcomps \in Nat
        /\ It(sl) \in Nat
        /\ RecvCount(st) \in Nat \ {0} /\ Owed(st) \in Nat /\ End(st) \in Nat
    BY <1>3, RecordFields, StepNumbers DEF Num
  <1> HIDE DEF st, num
  <1>6. sl.busy /\ sl.pending > 0 /\ OthersRewound(r, sl)
    <2>1. CASE Waiting(r, sl)
      BY <2>1 DEF Waiting
    <2>2. CASE Refused(r, sl)
      <3>1. IsZcopy(st) => sl.pending > 0
        BY <1>1, <1>5, <2>2 DEF Refused, st
      <3> QED BY <1>1, <2>2, <3>1 DEF Refused, st
    <2>3. ~ Done(r, sl)
      BY <1>1 DEF Done
    <2> QED BY <1>3, <2>1, <2>2, <2>3 DEF SlotAt
  <1>7. /\ less \in SlotRecords(r)
        /\ less.busy /\ less.cb = sl.cb /\ less.resending = sl.resending
        /\ less.recv_comp = sl.recv_comp /\ less.pending = sl.pending - 1
        /\ less.zcomps = sl.zcomps - 1 /\ less.step = sl.step /\ less.buf = sl.buf
        /\ less.iter = sl.iter /\ less.num_store = sl.num_store
        /\ less.resend_flag = sl.resend_flag
    <2>1. sl.pending - 1 \in Nat /\ sl.zcomps - 1 \in Nat
      BY <1>1, <1>5, <1>6
    <2> QED BY <1>3, <1>6, <2>1 DEF SlotRecords
  <1> HIDE DEF less
  <1>8. /\ StepAt(r, less) = st /\ Num(less) = num /\ It(less) = It(sl) /\ Flag(less) = Flag(sl)
        /\ OthersRewound(r, less)
    BY <1>5, <1>6, <1>7 DEF StepAt, Num, It, Flag, OthersRewound, Rewound, st
  <1>9. 0 \in 0 .. MaxMsgList /\ {} \subseteq Mail(r)
    BY EngineAssumption
  <1>10. Kept(slot[r][s], less)
    BY <1>4, <1>7 DEF Kept
  <1>11. CASE Refused(r, sl) /\ sl.resending
    <2>1. /\ IsZcopy(st) /\ num = 0 /\ sl.zcomps <= It(sl) - First(st) /\ It(sl) < End(st)
          /\ sl.pending >= Owed(st) + sl.zcomps + (End(st) - It(sl))
      BY <1>1, <1>5, <1>11 DEF Refused, st
    <2>2. First(st) \in Nat
      BY <1>5, StepNumbers
    <2>3. /\ less.pending > 0
          /\ less.zcomps <= It(less) - First(st)
          /\ less.pending >= Owed(st) + less.zcomps + (End(st) - It(less))
      BY <1>1, <1>5, <1>7, <1>8, <2>1, <2>2
    <2>4. Refused(r, less)
      BY <1>7, <1>8, <1>11, <2>1, <2>3 DEF Refused, st
    <2>5. SlotAt(r, less, "out") /\ Enter(r, s, less, "out", 0, {})
      BY <1>1, <1>7, <1>11, <2>1, <2>3, <2>4 DEF SlotAt
    <2>6. PcInv' /\ SlotsInv' /\ BuffersKept
      BY <1>1, <1>2, <1>7, <1>9, <1>10, <2>5, EnterKeeps
    <2> QED BY <1>1, <2>6, SlotsSuffice
  <1>12. CASE Waiting(r, sl) /\ AwaitsMessages(st, sl)
    <2>1. /\ IsZcopy(st) /\ IsRecv(st) /\ sl.pending >= RecvCount(st) + sl.zcomps
          /\ num <= RecvCount(st)
      BY <1>1, <1>5, <1>12 DEF Waiting, AwaitsMessages, st
    <2>2. less.pending >= RecvCount(st) + less.zcomps /\ less.pending > 0
      BY <1>1, <1>5, <1>7, <2>1
    <2>3. AwaitsMessages(st, less)
      BY <1>8, <1>12, <2>1, <2>2 DEF AwaitsMessages
    <2>4. Waiting(r, less)
      BY <1>7, <1>8, <1>12, <2>1, <2>2, <2>3 DEF Waiting, st
    <2>5. CASE less.pending # num
      <3>1. SlotAt(r, less, "out") /\ Enter(r, s, less, "out", 0, {})
        BY <1>1, <2>4, <2>5 DEF SlotAt
      <3>2. PcInv' /\ SlotsInv' /\ BuffersKept
        BY <1>1, <1>2, <1>7, <1>9, <1>10, <3>1, EnterKeeps
      <3> QED BY <1>1, <3>2, SlotsSuffice
    <2>6. CASE less.pending = num
      <3>1. less.zcomps = 0 /\ num # 0
        BY <1>1, <1>5, <1>7, <2>1, <2>2, <2>6
      <3>2. Enter(r, s, none, "scan", 0, {}) /\ 0 \in 0 .. RecvCount(st)
        BY <1>1, <1>5, <2>6, <3>1
      <3>3. /\ none \in SlotRecords(r) /\ Waiting(r, none) /\ Num(none) = 0
            /\ none.zcomps = 0 /\ StepAt(r, none) = st
        <4> DEFINE c == [less EXCEPT !.num_store[less.step] = 0]
        <4>1. none = c
          BY <1>7
        <4>2. /\ IsZcopy(StepAt(r, less)) /\ IsRecv(StepAt(r, less))
              /\ 0 \in 0 .. RecvCount(StepAt(r, less))
          BY <1>8, <2>1, <3>2
        <4>3. /\ c \in SlotRecords(r) /\ Waiting(r, c) /\ Num(c) = 0
              /\ c.zcomps = less.zcomps /\ StepAt(r, c) = StepAt(r, less)
          BY <1>7, <2>4, <4>2, CountStored
        <4> HIDE DEF none, c
        <4> QED BY <1>8, <3>1, <4>1, <4>3
      <3> HIDE DEF none
      <3>4. Scanning(r, none)
        BY <2>1, <3>3, Kinds DEF Scanning
      <3>5. SlotAt(r, none, "scan") /\ Kept(slot[r][s], none)
        BY <3>3, <3>4 DEF SlotAt, Kept
      <3>6. PcInv' /\ SlotsInv' /\ BuffersKept
        BY <1>1, <1>2, <1>9, <3>2, <3>3, <3>5, EnterKeeps
      <3> QED BY <1>1, <3>6, SlotsSuffice
    <2> QED BY <2>5, <2>6
  <1>13. CASE Waiting(r, sl) /\ AwaitsSends(st, sl)
    <2>1. IsZcopy(st) /\ num = 0 /\ It(sl) = 0 /\ less.pending >= less.zcomps
      BY <1>1, <1>5, <1>7, <1>13 DEF AwaitsSends
    <2>2. CASE less.pending # num
      <3>1. AwaitsSends(st, less) /\ less.pending > 0
        BY <1>5, <1>6, <1>7, <1>8, <1>13, <2>1, <2>2 DEF AwaitsSends
      <3>2. Waiting(r, less)
        BY <1>5, <1>7, <1>8, <1>13, <2>1, <3>1 DEF Waiting, st
      <3>3. SlotAt(r, less, "out") /\ Enter(r, s, less, "out", 0, {})
        BY <1>1, <2>2, <3>2 DEF SlotAt
      <3>4. PcInv' /\ SlotsInv' /\ BuffersKept
        BY <1>1, <1>2, <1>7, <1>9, <1>10, <3>3, EnterKeeps
      <3> QED BY <1>1, <3>4, SlotsSuffice
    <2>3. CASE less.pending = num
      <3>1. less.zcomps = 0 /\ ~ less.resending
        BY <1>1, <1>5, <1>7, <1>13, <2>1, <2>3 DEF Waiting
      <3>2. Rewound(r, less, sl.step)
        BY <1>5, <1>7, <1>8, <1>13, <2>1 DEF Rewound, Waiting, It, Num, Flag, StepAt, st
      <3>3. AllRewound(r, less)
        BY <1>7, <1>8, <3>2 DEF AllRewound, OthersRewound
      <3>4. /\ CompleteStep(r, less) \in SlotRecords(r)
            /\ CompleteStep(r, less).zcomps = 0
            /\ AfterStep(r, less) \in {"out", "execute"}
            /\ SlotAt(r, CompleteStep(r, less), AfterStep(r, less))
        BY <1>7, <3>1, <3>3, CompleteStepKeeps
      <3>5. Kept(slot[r][s], CompleteStep(r, less))
        BY <3>4 DEF Kept
      <3>6. Enter(r, s, CompleteStep(r, less), AfterStep(r, less), 0, {})
        BY <1>1, <2>1, <2>3
      <3>7. PcInv' /\ SlotsInv' /\ BuffersKept
        BY <1>1, <1>2, <1>9, <3>4, <3>5, <3>6, EnterKeeps
      <3> QED BY <1>1, <3>7, SlotsSuffice
    <2> QED BY <2>2, <2>3
  <1>14. ~ Done(r, sl) /\ ~ AwaitsFirstHalf(st, sl)
    BY <1>1 DEF Done, AwaitsFirstHalf
  <1> QED BY <1>3, <1>11, <1>12, <1>13, <1>14 DEF SlotAt, Waiting, st

-----------------------------------------------------------------------------
(***************************************************************************)
(* The invariant, and what follows from it.                                *)
(***************************************************************************)
\* Before the first collective all slots are as a finished one leaves them.
LEMMA InitEngine ==
  ASSUME Init
  PROVE  EngineInv
  <1>1. NetInv
    BY DEF Init, NetInv
  <1>2. next \in [Ranks -> 0 .. Runs]
    <2>1. 0 \in 0 .. Runs
      BY EngineAssumption
    <2> QED BY <2>1 DEF Init
  <1>3. PcInv
    <2>1. (CHOOSE q \in Ranks : TRUE) \in Ranks /\ 0 \in 0 .. MaxMsgList
      BY EngineAssumption
    <2> QED BY <2>1, Ids DEF PcInv, Init, Out
  <1>4. SlotsInv
    <2> DEFINE rec(r) ==
          [busy |-> FALSE, run |-> 0, coll_id |-> 0, cb |-> FALSE, step |-> 1,
           pending |-> 0, recv_comp |-> FALSE,
           resending |-> FALSE, zcomps |-> 0, msgs |-> <<>>, buf |-> Buffer(r, 0),
           iter |-> [i \in DOMAIN Plan[r] |-> 0],
           num_store |-> [i \in DOMAIN Plan[r] |-> 0],
           resend_flag |-> [i \in DOMAIN Plan[r] |-> FALSE]]
    <2>1. slot = [r \in Ranks |-> [s \in SlotIds |-> rec(r)]]
      BY DEF Init
    <2>2. ASSUME NEW r \in Ranks PROVE rec(r) \in SlotRecords(r) /\ Done(r, rec(r))
      <3>1. 1 \in DOMAIN Plan[r] /\ Buffer(r, 0) \in [Offsets -> DataBags]
        BY PlanSteps, BufferType, Ids
      <3>2. <<>> \in Seq(Mail(r))
        OBVIOUS
      <3>3. rec(r) \in SlotRecords(r)
        BY <3>1, <3>2, Ids DEF SlotRecords
      <3>4. Done(r, rec(r))
        BY DEF Done, AllRewound, Rewound
      <3> QED BY <3>3, <3>4
    <2> HIDE DEF rec
    <2>3. \A r \in Ranks, s \in SlotIds : slot[r][s] = rec(r)
      BY <2>1
    <2>4. slot = [r \in Ranks |-> [s \in SlotIds |-> slot[r][s]]]
      BY <2>1
    <2>5. \A r \in Ranks, s \in SlotIds : Activation(r, s) = "out"
      BY DEF Activation, Init, Out
    <2>6. ASSUME NEW r \in Ranks, NEW s \in SlotIds
          PROVE  slot[r][s] \in SlotRecords(r) /\ SlotAt(r, slot[r][s], Activation(r, s))
      BY <2>2, <2>3, <2>5 DEF SlotAt
    <2> QED BY <2>4, <2>6 DEF SlotsInv
  <1> QED BY <1>1, <1>2, <1>3, <1>4 DEF EngineInv

\* Every step keeps the invariant, and the buffers of sends on their way.
LEMMA NextEngine ==
  ASSUME OrderlyPlan, EngineInv, [Next]_vars
  PROVE  EngineInv' /\ BuffersKept
  <1>1. ASSUME NEW m \in net, Deliver(m) PROVE EngineInv' /\ BuffersKept
    BY <1>1, DeliverKeeps
  <1>2. ASSUME NEW r \in Ranks, Start(r) PROVE EngineInv' /\ BuffersKept
    BY <1>2, StartKeeps
  <1>3. ASSUME NEW r \in Ranks, NEW s \in SlotIds, Execute(r, s)
        PROVE  EngineInv' /\ BuffersKept
    <2>1. CASE ExecuteReceiveFirst(r, s)
      BY <2>1, ReceiveFirstKeeps
    <2>2. CASE ExecuteReceive(r, s)
      BY <2>2, ReceiveKeeps
    <2>3. ASSUME NEW j \in 0 .. Fragments(StepAt(r, slot[r][s])) * Len(StepAt(r, slot[r][s]).eps),
                 ExecuteSend(r, s, j)
          PROVE  EngineInv' /\ BuffersKept
      <3>1. j \in Nat
        OBVIOUS
      <3> QED BY <2>3, <3>1, SendKeeps
    <2> QED BY <1>3, <2>1, <2>2, <2>3 DEF Execute
  <1>4. ASSUME NEW r \in Ranks, NEW s \in SlotIds, ScanMatch(r, s) \/ ScanEnd(r, s)
        PROVE  EngineInv' /\ BuffersKept
    BY <1>4, ScanMatchKeeps, ScanEndKeeps
  <1>5. ASSUME NEW r \in Ranks, NEW s \in SlotIds, ZcopyDone(r, s) \/ Resend(r, s)
        PROVE  EngineInv' /\ BuffersKept
    BY <1>5, ZcopyDoneKeeps, ResendKeeps
  <1>6. CASE UNCHANGED vars
    <2>1. EngineInv'
      BY <1>6 DEF vars, EngineInv, NetInv, PcInv, SlotsInv, Activation
    <2>2. ASSUME NEW r \in Ranks, NEW s \in SlotIds PROVE Kept(slot[r][s], slot'[r][s])
      <3>1. SlotAt(r, slot[r][s], Activation(r, s)) /\ slot' = slot
        BY <1>6 DEF EngineInv, SlotsInv, vars
      <3> DEFINE old == slot[r][s]
      <3> HIDE DEF old
      <3>2. old.zcomps > 0 => old.busy
        BY <3>1 DEF SlotAt, Done, Fresh, Second, Refused, Scanning, Waiting, old
      <3> QED BY <3>1, <3>2 DEF Kept, old
    <2> QED BY <2>1, <2>2 DEF BuffersKept
  <1> QED BY <1>1, <1>2, <1>3, <1>4, <1>5, <1>6 DEF Next

\* The inductive invariant holds.
LEMMA EngineInvariant ==
  ASSUME OrderlyPlan
  PROVE  Spec => []EngineInv
  <1>1. Init => EngineInv
    BY InitEngine
  <1>2. EngineInv /\ [Next]_vars => EngineInv'
    BY NextEngine
  <1> QED BY <1>1, <1>2, PTL DEF Spec

\* A message to a member is a message.
LEMMA MailType ==
  ASSUME NEW r \in Ranks, NEW m \in Mail(r)
  PROVE  IsMessage(m)
  <1>1. /\ m.from \in Ranks /\ m.to = r /\ m.coll_id \in 0 .. IdSpace - 1 /\ m.step_idx \in 0 .. 255
        /\ m.off \in Offsets /\ m.data \in DataBags
    BY DEF Mail
  <1>2. IsABag(m.data) /\ BagToSet(m.data) \subseteq Ranks \X RunIds
    BY <1>1, Contributions
  <1> QED BY <1>1, <1>2 DEF IsMessage

\* The counters of the engine never go below zero, its indexes stay within the
\* plan and its messages are messages: for every orderly plan, whatever the
\* order of messages, completions and resends
\* (ucs_assert(req->pending > 0) of UCG_IF_LAST_MESSAGE).
THEOREM EngineTypes ==
  ASSUME OrderlyPlan
  PROVE  Spec => []TypeOK
  <1>1. EngineInv => TypeOK
    <2> SUFFICES ASSUME EngineInv PROVE TypeOK
      OBVIOUS
    <2>1. ASSUME NEW r \in Ranks, NEW m \in Mail(r) PROVE IsMessage(m)
      BY MailType
    <2>2. \A m \in net : IsMessage(m)
      BY <2>1 DEF EngineInv, NetInv
    <2>3. ASSUME NEW r \in Ranks, NEW s \in SlotIds
          PROVE  LET sl == slot[r][s] IN
            /\ sl.pending \in Nat /\ sl.zcomps \in Nat
            /\ sl.coll_id \in 0 .. IdSpace - 1 /\ sl.run \in {0} \cup RunIds
            /\ sl.step \in DOMAIN Plan[r]
            /\ sl.iter \in [DOMAIN Plan[r] -> Nat]
            /\ sl.num_store \in [DOMAIN Plan[r] -> Nat]
            /\ sl.resend_flag \in [DOMAIN Plan[r] -> BOOLEAN]
            /\ {sl.busy, sl.cb, sl.recv_comp, sl.resending} \subseteq BOOLEAN
            /\ \A i \in DOMAIN sl.msgs : IsMessage(sl.msgs[i])
      <3> DEFINE sl == slot[r][s]
      <3>1. sl \in SlotRecords(r)
        BY DEF EngineInv, SlotsInv
      <3> HIDE DEF sl
      <3>2. sl.msgs \in Seq(Mail(r))
        BY <3>1, RecordFields
      <3>3. \A i \in DOMAIN sl.msgs : sl.msgs[i] \in Mail(r)
        BY <3>2
      <3>4. \A i \in DOMAIN sl.msgs : IsMessage(sl.msgs[i])
        BY <2>1, <3>3
      <3>5. /\ sl.pending \in Nat /\ sl.zcomps \in Nat
            /\ sl.coll_id \in 0 .. IdSpace - 1 /\ sl.run \in {0} \cup RunIds
            /\ sl.step \in DOMAIN Plan[r]
            /\ sl.iter \in [DOMAIN Plan[r] -> Nat]
            /\ sl.num_store \in [DOMAIN Plan[r] -> Nat]
            /\ sl.resend_flag \in [DOMAIN Plan[r] -> BOOLEAN]
            /\ {sl.busy, sl.cb, sl.recv_comp, sl.resending} \subseteq BOOLEAN
        BY <3>1, RecordFields
      <3> QED BY <3>4, <3>5 DEF sl
    <2> QED BY <2>2, <2>3 DEF EngineInv, PcInv, TypeOK
  <1> QED BY <1>1, EngineInvariant, PTL

\* However a collective went, refused sends, late completions and messages that
\* came too early included, it leaves the slot and the steps of its operation
\* as the next one expects them: no callback, no send that is resent or still
\* on its way, every iterator and count at zero
\* (ucs_assert(first_step->iter_ep == 0) of ucg_builtin_op_trigger).
THEOREM StepsAreRewound ==
  ASSUME OrderlyPlan
  PROVE  Spec => []StepsRewound
  <1>1. EngineInv => StepsRewound
    <2> SUFFICES ASSUME EngineInv, NEW r \in Ranks, NEW s \in SlotIds, ~ slot[r][s].busy
                 PROVE  /\ ~ slot[r][s].cb /\ ~ slot[r][s].resending /\ slot[r][s].zcomps = 0
                        /\ \A i \in DOMAIN Plan[r] :
                             slot[r][s].iter[i] = 0 /\ slot[r][s].num_store[i] = 0
      BY DEF StepsRewound
    <2> DEFINE sl == slot[r][s]
    <2>1. SlotAt(r, sl, Activation(r, s)) /\ ~ sl.busy
      BY DEF EngineInv, SlotsInv
    <2> HIDE DEF sl
    <2>2. Done(r, sl)
      BY <2>1 DEF SlotAt, Fresh, Second, Refused, Scanning, Waiting
    <2> QED BY <2>2 DEF Done, AllRewound, Rewound, sl
  <1> QED BY <1>1, EngineInvariant, PTL

\* What the transport was given without a copy is not written, and its step not
\* left, before the last completion: neither by a message, which is stored as
\* long as the step waits for its sends, nor by a message stored before.
THEOREM BuffersUntouched ==
  ASSUME OrderlyPlan
  PROVE  Spec => ZcopyBufferKept
  <1>1. EngineInv /\ [Next]_vars =>
          [\A r \in Ranks, s \in SlotIds :
             LET old == slot[r][s]
                 new == slot'[r][s]
                 st  == StepAt(r, old)
             IN  old.zcomps > 0 /\ new.zcomps > 0 =>
                   /\ new.busy /\ new.step = old.step
                   /\ \A i \in DOMAIN st.pieces :
                        new.buf[st.pieces[i]] = old.buf[st.pieces[i]]]_vars
    BY NextEngine DEF BuffersKept, Kept
  <1> QED BY <1>1, EngineInvariant, PTL DEF Spec, ZcopyBufferKept

-----------------------------------------------------------------------------
(***************************************************************************)
(* A step that waits for messages leaves none of them stored: what is      *)
(* stored for it while it cannot take it is counted, and looked for when   *)
(* the count says that it is time.                                         *)
(***************************************************************************)
AtMost(n, limit) == IF n > limit THEN limit ELSE n

Sorted(r, sl) ==
  LET st == StepAt(r, sl)
  IN  sl.busy /\ sl.cb /\ ~ IsSendOnly(st) /\ ~ (IsR1S(st) /\ sl.recv_comp) =>
        IF IsZcopy(st) /\ IsRecv(st)
          THEN /\ Num(sl) < sl.pending
               /\ Num(sl) = AtMost(Cardinality(Matching(r, sl)), RecvCount(st))
          ELSE Matching(r, sl) = {}

SortedInv ==
  \A r \in Ranks, s \in SlotIds : Activation(r, s) = "out" => Sorted(r, slot[r][s])

\* Only a slot that is left is to be sorted.
LEMMA EnterSorts ==
  ASSUME SlotsInv, SortedInv, NEW r \in Ranks, NEW s \in SlotIds,
         pc.at = "out" \/ (pc.rank = r /\ pc.slot = s),
         NEW sl, NEW at, at = "out" => Sorted(r, sl),
         NEW depth, NEW then, Enter(r, s, sl, at, depth, then)
  PROVE  SortedInv'
  <1>1. /\ slot = [q \in Ranks |-> [t \in SlotIds |-> slot[q][t]]]
        /\ slot' = [slot EXCEPT ![r][s] = sl]
    BY DEF SlotsInv, Enter
  <1>2. /\ slot'[r][s] = sl
        /\ \A q \in Ranks, t \in SlotIds : q # r \/ t # s => slot'[q][t] = slot[q][t]
    BY <1>1
  <1>3. at # "out" => pc'.at = at /\ pc'.rank = r /\ pc'.slot = s
    BY DEF Enter
  <1>4. ASSUME NEW q \in Ranks, NEW t \in SlotIds, Activation(q, t)' = "out"
        PROVE  Sorted(q, slot'[q][t])
    <2>1. CASE q = r /\ t = s
      <3>1. at = "out"
        BY <1>3, <1>4, <2>1 DEF Activation
      <3> QED BY <1>2, <2>1, <3>1
    <2>2. CASE q # r \/ t # s
      <3>1. Activation(q, t) = "out" /\ slot'[q][t] = slot[q][t]
        BY <1>2, <2>2 DEF Activation
      <3> QED BY <3>1 DEF SortedInv
    <2> QED BY <2>1, <2>2
  <1> QED BY <1>4 DEF SortedInv

\* The stored messages of a step are found by their ids.
LEMMA MatchingSame ==
  ASSUME NEW r, NEW sl, NEW new,
         new.msgs = sl.msgs /\ new.step = sl.step /\ new.coll_id = sl.coll_id
  PROVE  Matching(r, new) = Matching(r, sl)
  BY DEF Matching, Matches, StepAt

\* One more message is stored.
LEMMA MatchingMore ==
  ASSUME NEW r \in Ranks, NEW sl \in SlotRecords(r), NEW m, NEW new,
         new.msgs = Append(sl.msgs, m) /\ new.step = sl.step /\ new.coll_id = sl.coll_id
  PROVE  /\ ~ Matches(r, sl, m) => Matching(r, new) = Matching(r, sl)
         /\ Matches(r, sl, m) =>
              Cardinality(Matching(r, new)) = Cardinality(Matching(r, sl)) + 1
         /\ IsFiniteSet(Matching(r, sl)) /\ Cardinality(Matching(r, sl)) \in Nat
  <1> DEFINE n == Len(sl.msgs)
  <1>1. sl.msgs \in Seq(Mail(r)) /\ n \in Nat /\ DOMAIN sl.msgs = 1 .. n
    BY RecordFields
  <1>2. DOMAIN new.msgs = 1 .. n + 1 /\ new.msgs[n + 1] = m
        /\ \A i \in 1 .. n : new.msgs[i] = sl.msgs[i]
    BY <1>1
  <1>3. \A x : Matches(r, new, x) <=> Matches(r, sl, x)
    BY DEF Matches, StepAt
  <1> HIDE DEF n
  <1>4. \A i : i \in 1 .. n + 1 <=> i \in 1 .. n \/ i = n + 1
    BY <1>1
  <1>5. n + 1 \notin 1 .. n
    BY <1>1
  <1>6. \A i : i \in Matching(r, new) <=> i \in Matching(r, sl) \/ (i = n + 1 /\ Matches(r, sl, m))
    BY <1>1, <1>2, <1>3, <1>4, <1>5 DEF Matching
  <1>7. Matching(r, sl) \subseteq 1 .. n
    BY <1>1 DEF Matching
  <1>8. IsFiniteSet(Matching(r, sl))
    <2>1. IsFiniteSet(1 .. n)
      BY <1>1, FS_Interval
    <2> QED BY <1>7, <2>1, FS_Subset
  <1>9. ~ Matches(r, sl, m) => Matching(r, new) = Matching(r, sl)
    BY <1>6
  <1>10. Matches(r, sl, m) => Matching(r, new) = Matching(r, sl) \cup {n + 1}
    BY <1>6
  <1>11. n + 1 \notin Matching(r, sl)
    BY <1>5, <1>7
  <1> QED BY <1>8, <1>9, <1>10, <1>11, FS_AddElement, FS_CardinalityType

\* Nothing stored is sorted: so is a step that has nothing stored for it.
LEMMA NothingSorted ==
  ASSUME NEW r \in Ranks, NEW sl \in SlotRecords(r), Matching(r, sl) = {}, Num(sl) = 0,
         sl.pending > 0
  PROVE  Sorted(r, sl)
  <1>1. RecvCount(StepAt(r, sl)) \in Nat \ {0}
    BY RecordFields, StepNumbers
  <1>2. Cardinality(Matching(r, sl)) = 0
    BY FS_EmptySet
  <1> DEFINE k == RecvCount(StepAt(r, sl))
  <1> HIDE DEF k
  <1>3. AtMost(0, k) = 0
    BY <1>1 DEF AtMost, k
  <1>4. Num(sl) < sl.pending
    BY RecordFields
  <1> QED BY <1>2, <1>3, <1>4 DEF Sorted, k

\* After its sends a step looks for what is stored, or counts it.
LEMMA FinishSendSorts ==
  ASSUME SlotsInv, SortedInv, NEW r \in Ranks, NEW s \in SlotIds, pc.rank = r /\ pc.slot = s,
         NEW sl \in SlotRecords(r), Num(sl) = 0, sl.pending > 0,
         IsZcopy(StepAt(r, sl)) /\ IsRecv(StepAt(r, sl)) => sl.pending > RecvCount(StepAt(r, sl)),
         NEW depth, FinishSend(r, s, sl, depth)
  PROVE  SortedInv'
  <1> DEFINE st      == StepAt(r, sl)
             waiting == [sl EXCEPT !.cb = TRUE, !.resend_flag[sl.step] = FALSE]
             stored  == Cardinality(Matching(r, sl))
             counted == IF sl.num_store[sl.step] + stored > RecvCount(st)
                          THEN RecvCount(st) ELSE sl.num_store[sl.step] + stored
             count   == [waiting EXCEPT !.num_store[sl.step] = counted]
  <1>1. /\ IsStep(st, Ranks, Offsets) /\ sl.step \in DOMAIN Plan[r] /\ RecvCount(st) \in Nat \ {0}
        /\ sl.msgs \in Seq(Mail(r)) /\ sl.pending \in Nat
    BY RecordFields, StepNumbers
  <1>2. stored \in Nat /\ counted = AtMost(stored, RecvCount(st))
    <2>1. Matching(r, sl) \subseteq 1 .. Len(sl.msgs) /\ Len(sl.msgs) \in Nat
      BY <1>1 DEF Matching
    <2>2. IsFiniteSet(Matching(r, sl))
      <3>1. IsFiniteSet(1 .. Len(sl.msgs))
        BY <2>1, FS_Interval
      <3> QED BY <2>1, <3>1, FS_Subset
    <2>3. stored \in Nat
      BY <2>2, FS_CardinalityType
    <2>4. sl.num_store[sl.step] = 0
      BY DEF Num
    <2> HIDE DEF stored, st
    <2> QED BY <1>1, <2>3, <2>4 DEF AtMost
  <1> HIDE DEF counted
  <1>3. /\ waiting \in SlotRecords(r) /\ waiting.pending = sl.pending
        /\ waiting.recv_comp = sl.recv_comp /\ waiting.num_store = sl.num_store
        /\ waiting.msgs = sl.msgs /\ waiting.step = sl.step /\ waiting.coll_id = sl.coll_id
    BY <1>1 DEF SlotRecords
  <1>4. /\ count.pending = sl.pending /\ count.num_store[sl.step] = counted
        /\ count.msgs = sl.msgs /\ count.step = sl.step /\ count.coll_id = sl.coll_id
    <2> HIDE DEF waiting, st
    <2> QED BY <1>1, <1>2, <1>3 DEF SlotRecords
  <1>5. /\ sl.msgs = <<>> \/ (IsR1S(st) /\ sl.recv_comp) =>
             Enter(r, s, waiting, "out", 0, {})
        /\ ~ (sl.msgs = <<>> \/ (IsR1S(st) /\ sl.recv_comp)) /\ IsZcopy(st) /\ IsRecv(st) =>
             Enter(r, s, count, "out", 0, {})
        /\ ~ (sl.msgs = <<>> \/ (IsR1S(st) /\ sl.recv_comp)) /\ ~ (IsZcopy(st) /\ IsRecv(st)) =>
             Enter(r, s, waiting, "scan", depth, {})
    BY DEF FinishSend, counted
  <1>6. StepAt(r, waiting) = st /\ StepAt(r, count) = st
    BY <1>3, <1>4 DEF StepAt
  <1>7. sl.msgs = <<>> => Matching(r, sl) = {}
    BY DEF Matching
  <1> HIDE DEF waiting, count, st, stored
  <1>8. Matching(r, waiting) = Matching(r, sl) /\ Matching(r, count) = Matching(r, sl)
    <2>1. Matching(r, waiting) = Matching(r, sl)
      BY <1>3, MatchingSame
    <2>2. Matching(r, count) = Matching(r, sl)
      BY <1>4, MatchingSame
    <2> QED BY <2>1, <2>2
  <1>9. CASE sl.msgs = <<>> \/ (IsR1S(st) /\ sl.recv_comp)
    <2>1. Sorted(r, waiting)
      <3>1. CASE sl.msgs = <<>>
        <4>1. Num(waiting) = 0
          BY <1>3 DEF Num
        <4> QED BY <1>3, <1>7, <1>8, <3>1, <4>1, NothingSorted
      <3>2. CASE IsR1S(st) /\ sl.recv_comp
        BY <1>3, <1>6, <3>2 DEF Sorted
      <3> QED BY <1>9, <3>1, <3>2
    <2> QED BY <1>5, <1>9, <2>1, EnterSorts
  <1>10. CASE ~ (sl.msgs = <<>> \/ (IsR1S(st) /\ sl.recv_comp)) /\ IsZcopy(st) /\ IsRecv(st)
    <2>1. counted <= RecvCount(st) /\ counted \in Nat /\ sl.pending > RecvCount(st)
      BY <1>1, <1>2, <1>10 DEF AtMost, st
    <2>2. Num(count) = counted /\ counted < count.pending
      BY <1>1, <1>4, <2>1 DEF Num
    <2>3. Sorted(r, count)
      BY <1>2, <1>6, <1>8, <1>10, <2>2 DEF Sorted, stored
    <2> QED BY <1>5, <1>10, <2>3, EnterSorts
  <1>11. CASE ~ (sl.msgs = <<>> \/ (IsR1S(st) /\ sl.recv_comp)) /\ ~ (IsZcopy(st) /\ IsRecv(st))
    <2>1. Enter(r, s, waiting, "scan", depth, {})
      BY <1>5, <1>11
    <2> QED BY <2>1, EnterSorts
  <1> QED BY <1>9, <1>10, <1>11

\* A message given to a step that has nothing stored for it leaves it so.
LEMMA CallbackSorts ==
  ASSUME NEW r \in Ranks, NEW sl \in SlotRecords(r), Scanning(r, sl),
         ~ (IsZcopy(StepAt(r, sl)) /\ IsSendOnly(StepAt(r, sl))),
         NEW m \in Mail(r)
  PROVE  LET res == Callback(r, sl, m)
         IN  /\ res.at = "more" =>
                  res.slot.msgs = sl.msgs /\ res.slot.step = sl.step
                  /\ res.slot.coll_id = sl.coll_id
             /\ res.at = "more" /\ Matching(r, sl) = {} => Sorted(r, res.slot)
             /\ res.at = "out" => Sorted(r, res.slot)
  <1>1. PICK b \in [Offsets -> DataBags] : Land(r, sl, m) = [sl EXCEPT !.buf = b]
    BY LandKeeps
  <1> DEFINE st   == StepAt(r, sl)
             got  == [sl EXCEPT !.buf = b]
             one  == [got EXCEPT !.recv_comp = IF IsR1S(st) THEN TRUE ELSE @]
             many == [got EXCEPT !.pending = @ - 1,
                                 !.recv_comp = IF IsR1S(st) /\ sl.pending = 1 THEN TRUE ELSE @]
             res  == Callback(r, sl, m)
  <1>2. /\ IsR1S(st) /\ Fragments(st) = 1 => res = [slot |-> one, at |-> "execute"]
        /\ ~ (IsR1S(st) /\ Fragments(st) = 1) /\ ~ IsWaypoint(st) /\ OneMessage(st) =>
             res = [slot |-> CompleteStep(r, got), at |-> AfterStep(r, got)]
        /\ ~ (IsR1S(st) /\ Fragments(st) = 1) /\ ~ (~ IsWaypoint(st) /\ OneMessage(st)) =>
             res = IF many.pending # 0 THEN [slot |-> many, at |-> "more"]
                   ELSE IF IsWaypoint(st) THEN [slot |-> many, at |-> "execute"]
                   ELSE [slot |-> CompleteStep(r, many), at |-> AfterStep(r, many)]
    <2>1. IsR1S(st) => IsWaypoint(st)
      BY Kinds DEF st
    <2> QED BY <1>1, <2>1 DEF Callback
  <1>3. many.msgs = sl.msgs /\ many.step = sl.step /\ many.coll_id = sl.coll_id
    BY DEF SlotRecords
  <1>4. /\ res.slot \in SlotRecords(r)
        /\ res.at = "more" => Scanning(r, res.slot)
    BY CallbackKeeps
  <1>5. ASSUME NEW x, AfterStep(r, x) = "out" PROVE ~ CompleteStep(r, x).busy
    <2>1. IsLast(r, x)
      BY <1>5 DEF AfterStep
    <2> QED BY <2>1 DEF CompleteStep
  <1>6. AfterStep(r, got) # "more" /\ AfterStep(r, many) # "more"
    BY DEF AfterStep
  <1> HIDE DEF got, many, one, res, st
  <1>7. res.at = "more" => res.slot = many
    BY <1>2, <1>6
  <1>8. res.at = "out" => ~ res.slot.busy
    BY <1>2, <1>5
  <1>9. ASSUME res.at = "more", Matching(r, sl) = {} PROVE Sorted(r, res.slot)
    <2>1. Matching(r, res.slot) = {}
      BY <1>3, <1>7, <1>9, MatchingSame
    <2>2. Num(res.slot) = 0 /\ res.slot.pending > 0
      BY <1>4, <1>9 DEF Scanning, Waiting
    <2> QED BY <1>4, <2>1, <2>2, NothingSorted
  <1> QED BY <1>3, <1>7, <1>8, <1>9 DEF Sorted, res

\* An entry that goes on to execute a step.
LEMMA ExecuteSorts ==
  ASSUME SlotsInv, SortedInv, NEW r \in Ranks, NEW s \in SlotIds,
         pc.at = "out" \/ (pc.rank = r /\ pc.slot = s), NEW sl,
         Enter(r, s, sl, "execute", 0, {})
  PROVE  SortedInv'
  BY EnterSorts

\* A start.
LEMMA StartSorts ==
  ASSUME EngineInv, SortedInv, NEW r \in Ranks, Start(r)
  PROVE  SortedInv'
  <1> DEFINE k == next[r]
             s == k % Slots
             new == [slot[r][s] EXCEPT !.busy = TRUE, !.run = k,
                                  !.coll_id = k % IdSpace, !.step = 1,
                                  !.pending = RecvCount(Plan[r][1]),
                                  !.recv_comp = FALSE, !.iter[1] = 0,
                                  !.buf = Buffer(r, k)]
  <1>1. pc.at = "out" /\ Enter(r, s, new, "execute", 0, {})
    BY DEF Start
  <1>2. SlotsInv /\ k \in Nat
    BY EngineAssumption DEF EngineInv
  <1>3. s \in SlotIds
    BY <1>2, Ids
  <1> HIDE DEF s, new
  <1> QED BY <1>1, <1>2, <1>3, ExecuteSorts

\* A resend.
LEMMA ResendSorts ==
  ASSUME EngineInv, SortedInv, NEW r \in Ranks, NEW s \in SlotIds, Resend(r, s)
  PROVE  SortedInv'
  BY ExecuteSorts DEF Resend, EngineInv

\* The first half of a waypoint.
LEMMA ReceiveFirstSorts ==
  ASSUME EngineInv, SortedInv, NEW r \in Ranks, NEW s \in SlotIds, ExecuteReceiveFirst(r, s)
  PROVE  SortedInv'
  <1> DEFINE sl  == slot[r][s]
             st  == StepAt(r, sl)
             cnt == IF IsR1S(st) THEN 1 ELSE Len(st.eps) - 1
             new == [sl EXCEPT !.iter[sl.step] = cnt * Fragments(st),
                               !.pending = cnt * st.fragments_recv]
  <1>1. /\ Inside("execute", r, s) /\ IsWaypoint(st)
        /\ FinishSend(r, s, new, pc.depth)
    BY DEF ExecuteReceiveFirst
  <1>2. PcInv /\ SlotsInv
    BY DEF EngineInv
  <1>3. sl \in SlotRecords(r) /\ SlotAt(r, sl, "execute")
    BY <1>1, <1>2, SlotNow
  <1> HIDE DEF sl
  <1>4. /\ sl.step \in DOMAIN Plan[r] /\ IsStep(st, Ranks, Offsets)
        /\ Fragments(st) \in Nat \ {0}
    BY <1>1, <1>3, RecordFields, StepNumbers
  <1>5. Num(sl) = 0
    BY <1>3, <1>4 DEF SlotAt, Fresh, Second, Refused, AllRewound, Rewound, Num, StepAt
  <1>6. cnt \in Nat \ {0} /\ cnt * Fragments(st) \in Nat /\ cnt * st.fragments_recv \in Nat \ {0}
    <2>1. Len(st.eps) \in Nat /\ Len(st.eps) > 1 /\ st.fragments_recv \in Nat \ {0}
      BY <1>1, <1>4 DEF IsStep, IsWaypoint, IsR1S, IsRS1
    <2>2. cnt \in Nat \ {0}
      <3>1. CASE IsR1S(st)
        BY <3>1
      <3>2. CASE ~ IsR1S(st)
        <4>1. \A n \in Nat : n > 1 => n - 1 \in Nat \ {0}
          OBVIOUS
        <4>2. cnt = Len(st.eps) - 1
          BY <3>2
        <4>3. Len(st.eps) - 1 \in Nat \ {0}
          BY <2>1, <4>1, Zenon
        <4> QED BY <4>2, <4>3
      <3> QED BY <3>1, <3>2
    <2> HIDE DEF cnt
    <2> QED BY <1>4, <2>1, <2>2
  <1> HIDE DEF cnt
  <1>7. /\ new \in SlotRecords(r) /\ new.pending = cnt * st.fragments_recv
        /\ new.step = sl.step /\ new.num_store = sl.num_store
    <2> HIDE DEF st
    <2> QED BY <1>3, <1>4, <1>6 DEF SlotRecords
  <1> HIDE DEF new
  <1>8. StepAt(r, new) = st /\ Num(new) = 0 /\ new.pending > 0 /\ ~ IsRecv(st)
    BY <1>1, <1>5, <1>6, <1>7, Kinds DEF StepAt, Num, st
  <1>9. pc.rank = r /\ pc.slot = s
    BY <1>1 DEF Inside
  <1> QED BY <1>1, <1>2, <1>7, <1>8, <1>9, FinishSendSorts

\* A step that only receives.
LEMMA ReceiveSorts ==
  ASSUME EngineInv, SortedInv, NEW r \in Ranks, NEW s \in SlotIds, ExecuteReceive(r, s)
  PROVE  SortedInv'
  <1> DEFINE sl == slot[r][s]
             st == StepAt(r, sl)
  <1>1. Inside("execute", r, s) /\ IsRecvOnly(st) /\ FinishSend(r, s, sl, pc.depth)
    BY DEF ExecuteReceive
  <1>2. PcInv /\ SlotsInv
    BY DEF EngineInv
  <1>3. sl \in SlotRecords(r) /\ SlotAt(r, sl, "execute")
    BY <1>1, <1>2, SlotNow
  <1> HIDE DEF sl
  <1>4. sl.step \in DOMAIN Plan[r] /\ RecvCount(st) \in Nat \ {0}
    BY <1>3, RecordFields, StepNumbers
  <1>5. Fresh(r, sl)
    BY <1>1, <1>3, Kinds DEF SlotAt, Second, Refused, st
  <1>6. Num(sl) = 0 /\ sl.pending > 0 /\ ~ IsZcopy(st)
    BY <1>1, <1>4, <1>5, Kinds DEF Fresh, AllRewound, Rewound, Num, st
  <1>7. pc.rank = r /\ pc.slot = s
    BY <1>1 DEF Inside
  <1> QED BY <1>1, <1>2, <1>3, <1>6, <1>7, FinishSendSorts DEF st

\* The sends of a step go out.
LEMMA SendSorts ==
  ASSUME OrderlyPlan, EngineInv, SortedInv, NEW r \in Ranks, NEW s \in SlotIds, NEW j \in Nat,
         ExecuteSend(r, s, j)
  PROVE  SortedInv'
  <1> DEFINE sl    == slot[r][s]
             st    == StepAt(r, sl)
             i     == sl.iter[sl.step]
             end   == Fragments(st) * Len(st.eps)
             count == PendingWhenSending(st, sl)
             sent  == [sl EXCEPT !.pending = count,
                                 !.zcomps = IF IsZcopy(st) THEN @ + (j - i) ELSE @,
                                 !.iter[sl.step] = IterAfter(j, end)]
             blocked == [sent EXCEPT !.resending = TRUE,
                                     !.resend_flag[sl.step] = @ \/ Fragments(st) > 1]
  <1>1. /\ Inside("execute", r, s) /\ ~ IsRecvOnly(st)
        /\ IsWaypoint(st) => i >= Fragments(st)
        /\ j \in i .. end
        /\ j < end => r \in MayBlock /\ Enter(r, s, blocked, "out", 0, {})
        /\ ~ (j < end) /\ ((~ IsRecv(st) /\ ~ IsZcopy(st)) \/ count = 0) =>
             Enter(r, s, CompleteStep(r, sent), AfterStep(r, sent), pc.depth, {})
        /\ ~ (j < end) /\ ~ ((~ IsRecv(st) /\ ~ IsZcopy(st)) \/ count = 0) =>
             FinishSend(r, s, sent, pc.depth)
    BY DEF ExecuteSend
  <1>2. PcInv /\ SlotsInv
    BY DEF EngineInv
  <1>3. sl \in SlotRecords(r) /\ SlotAt(r, sl, "execute")
    BY <1>1, <1>2, SlotNow
  <1> HIDE DEF sl
  <1>4. /\ IsStep(st, Ranks, Offsets) /\ sl.step \in DOMAIN Plan[r]
        /\ i = It(sl) /\ i \in Nat /\ end = End(st) /\ end \in Nat
        /\ First(st) \in Nat /\ Owed(st) \in Nat /\ RecvCount(st) \in Nat \ {0}
        /\ sl.zcomps \in Nat /\ sl.iter \in [DOMAIN Plan[r] -> Nat]
    BY <1>3, RecordFields, StepNumbers DEF It, End
  <1>5. /\ Num(sl) = 0 /\ First(st) <= i /\ i < end
        /\ count \in Nat /\ (IsRecv(st) => count > 0)
        /\ IsZcopy(st) => count >= Owed(st) + sl.zcomps + (end - i)
        /\ IF IsR1S(st) THEN sl.cb /\ sl.recv_comp ELSE ~ IsWaypoint(st) => ~ sl.cb
        /\ IsRS1(st) => ~ Zcopy /\ r \notin MayBlock
    <2>1. IsWaypoint(st) => It(sl) >= Fragments(st)
      BY <1>1, <1>4
    <2> HIDE DEF i, end, count
    <2> QED BY <1>1, <1>3, <1>4, <2>1, ReadyToSend DEF st, count
  <1> HIDE DEF st, i, end, count
  <1> DEFINE zc == IF IsZcopy(st) THEN sl.zcomps + (j - i) ELSE sl.zcomps
             it == IterAfter(j, end)
             flag == sent.resend_flag[sl.step] \/ Fragments(st) > 1
  <1>6. zc \in Nat /\ it \in Nat
    BY <1>1, <1>4, <1>5 DEF IterAfter
  <1>7. /\ sent \in SlotRecords(r) /\ sent.pending = count /\ sent.step = sl.step
        /\ sent.num_store = sl.num_store /\ sent.cb = sl.cb /\ sent.recv_comp = sl.recv_comp
    <2>1. sent = [sl EXCEPT !.pending = count, !.zcomps = zc, !.iter[sl.step] = it]
      OBVIOUS
    <2> HIDE DEF sent, zc, it
    <2> QED BY <1>3, <1>4, <1>5, <1>6, <2>1 DEF SlotRecords
  <1>8. blocked.cb = sl.cb /\ blocked.recv_comp = sl.recv_comp /\ blocked.step = sl.step
    <2>1. blocked = [sent EXCEPT !.resending = TRUE, !.resend_flag[sl.step] = flag]
      OBVIOUS
    <2> HIDE DEF sent, blocked, flag
    <2> QED BY <1>7, <2>1 DEF SlotRecords
  <1> HIDE DEF sent, blocked, zc, it, flag
  <1>9. StepAt(r, sent) = st /\ StepAt(r, blocked) = st /\ Num(sent) = 0
    BY <1>5, <1>7, <1>8 DEF StepAt, Num, st
  <1>10. pc.rank = r /\ pc.slot = s
    BY <1>1 DEF Inside
  <1>11. IsWaypoint(st) <=> IsR1S(st) \/ IsRS1(st)
    BY Kinds
  <1>12. CASE j < end
    <2>1. IF IsR1S(st) THEN blocked.recv_comp ELSE ~ blocked.cb
      BY <1>1, <1>5, <1>8, <1>11, <1>12
    <2>2. Sorted(r, blocked)
      BY <1>9, <2>1 DEF Sorted
    <2> QED BY <1>1, <1>2, <1>10, <1>12, <2>2, EnterSorts
  <1>13. CASE ~ (j < end) /\ ((~ IsRecv(st) /\ ~ IsZcopy(st)) \/ count = 0)
    <2>1. AfterStep(r, sent) = "out" => ~ CompleteStep(r, sent).busy
      BY DEF AfterStep, CompleteStep
    <2>2. AfterStep(r, sent) = "out" => Sorted(r, CompleteStep(r, sent))
      BY <2>1 DEF Sorted
    <2> QED BY <1>1, <1>2, <1>10, <1>13, <2>2, EnterSorts
  <1>14. CASE ~ (j < end) /\ ~ ((~ IsRecv(st) /\ ~ IsZcopy(st)) \/ count = 0)
    <2>1. sent.pending > 0
      BY <1>5, <1>7, <1>14
    <2>2. IsZcopy(st) /\ IsRecv(st) => sent.pending > RecvCount(st)
      <3>1. IsRecv(st) => Owed(st) = RecvCount(st)
        BY DEF Owed
      <3> QED BY <1>4, <1>5, <1>7, <3>1
    <2>3. FinishSend(r, s, sent, pc.depth)
      BY <1>1, <1>14
    <2> QED BY <1>2, <1>7, <1>9, <1>10, <2>1, <2>2, <2>3, FinishSendSorts
  <1> QED BY <1>12, <1>13, <1>14

\* A stored message is given to its step.
LEMMA ScanMatchSorts ==
  ASSUME EngineInv, SortedInv, NEW r \in Ranks, NEW s \in SlotIds, ScanMatch(r, s)
  PROVE  SortedInv'
  <1> DEFINE sl   == slot[r][s]
             i    == CHOOSE i \in Matching(r, sl) : \A j \in Matching(r, sl) : i <= j
             rest == [sl EXCEPT !.msgs = SubSeq(@, 1, i - 1) \o SubSeq(@, i + 1, Len(@))]
             m    == sl.msgs[i]
             res  == Callback(r, rest, m)
  <1>1. /\ Inside("scan", r, s)
        /\ pc.depth = MaxMsgList => Enter(r, s, sl, "scan", 0, pc.then)
        /\ pc.depth # MaxMsgList /\ res.at = "more" =>
             Enter(r, s, res.slot, "scan", pc.depth, pc.then)
        /\ pc.depth # MaxMsgList /\ res.at # "more" =>
             Enter(r, s, res.slot, res.at, pc.depth + 1, {})
    BY DEF ScanMatch
  <1>2. SlotsInv /\ pc.rank = r /\ pc.slot = s
    BY <1>1 DEF EngineInv, Inside
  <1>3. ASSUME NEW x, AfterStep(r, x) = "out" PROVE ~ CompleteStep(r, x).busy
    <2>1. IsLast(r, x)
      BY <1>3 DEF AfterStep
    <2> QED BY <2>1 DEF CompleteStep
  <1>4. res.at = "out" => Sorted(r, res.slot)
    <2>1. res.at = "out" => \E x : res.slot = CompleteStep(r, x) /\ res.at = AfterStep(r, x)
      <3> HIDE DEF m, rest
      <3> QED BY DEF Callback
    <2> HIDE DEF res
    <2> QED BY <1>3, <2>1 DEF Sorted
  <1> HIDE DEF sl, res
  <1> QED BY <1>1, <1>2, <1>4, EnterSorts

\* What a callback leaves when it was called for a message that came in.
LEMMA CalledBackSorts ==
  ASSUME SlotsInv, SortedInv, NEW r \in Ranks, NEW s \in SlotIds,
         pc.at = "out" \/ (pc.rank = r /\ pc.slot = s),
         NEW sl \in SlotRecords(r), Scanning(r, sl), Matching(r, sl) = {},
         ~ (IsZcopy(StepAt(r, sl)) /\ IsSendOnly(StepAt(r, sl))),
         NEW m \in Mail(r),
         LET res == Callback(r, sl, m)
         IN  Enter(r, s, res.slot, IF res.at = "more" THEN "out" ELSE res.at, 0, {})
  PROVE  SortedInv'
  <1> DEFINE res == Callback(r, sl, m)
             at  == IF res.at = "more" THEN "out" ELSE res.at
  <1>1. /\ res.at = "more" => Sorted(r, res.slot)
        /\ res.at = "out" => Sorted(r, res.slot)
    BY CallbackSorts
  <1>2. Enter(r, s, res.slot, at, 0, {})
    OBVIOUS
  <1> HIDE DEF res
  <1>3. at = "out" => Sorted(r, res.slot)
    BY <1>1
  <1> HIDE DEF at
  <1> QED BY <1>2, <1>3, EnterSorts

\* No stored message is left.
LEMMA ScanEndSorts ==
  ASSUME EngineInv, SortedInv, NEW r \in Ranks, NEW s \in SlotIds, ScanEnd(r, s)
  PROVE  SortedInv'
  <1> DEFINE sl == slot[r][s]
  <1>1. /\ Inside("scan", r, s) /\ Matching(r, sl) = {}
        /\ pc.then = {} => Enter(r, s, sl, "out", 0, {})
        /\ pc.then # {} =>
             \E m \in pc.then :
               LET res == Callback(r, sl, m)
               IN  Enter(r, s, res.slot, IF res.at = "more" THEN "out" ELSE res.at, 0, {})
    BY DEF ScanEnd
  <1>2. PcInv /\ SlotsInv
    BY DEF EngineInv
  <1>3. sl \in SlotRecords(r) /\ SlotAt(r, sl, "scan")
    BY <1>1, <1>2, SlotNow
  <1>4. /\ pc.rank = r /\ pc.slot = s /\ pc.then \subseteq Mail(r)
        /\ pc.then # {} => IsRecv(StepAt(r, sl))
    BY <1>1, <1>2 DEF PcInv, Inside
  <1> HIDE DEF sl
  <1>5. Scanning(r, sl)
    BY <1>3 DEF SlotAt
  <1>6. CASE pc.then = {}
    <2>1. Sorted(r, sl)
      BY <1>1, <1>3, <1>5, NothingSorted DEF Scanning, Waiting
    <2> QED BY <1>1, <1>2, <1>4, <1>6, <2>1, EnterSorts
  <1>7. CASE pc.then # {}
    <2>1. PICK m \in pc.then :
            LET res == Callback(r, sl, m)
            IN  Enter(r, s, res.slot, IF res.at = "more" THEN "out" ELSE res.at, 0, {})
      BY <1>1, <1>7
    <2>2. m \in Mail(r) /\ ~ IsSendOnly(StepAt(r, sl))
      BY <1>4, <1>7, Kinds
    <2> QED BY <1>1, <1>2, <1>3, <1>4, <1>5, <2>1, <2>2, CalledBackSorts
  <1> QED BY <1>6, <1>7

\* A message comes in.
LEMMA DeliverSorts ==
  ASSUME OrderlyPlan, EngineInv, SortedInv, NEW m \in net, Deliver(m)
  PROVE  SortedInv'
  <1> DEFINE r    == m.to
             s    == m.coll_id % Slots
             sl   == slot[r][s]
             st   == StepAt(r, sl)
             here == sl.cb /\ Matches(r, sl, m)
             res  == Callback(r, sl, m)
             none == [sl EXCEPT !.num_store[sl.step] = 0]
  <1>1. /\ pc.at = "out"
        /\ ~ here => Enter(r, s, Store(sl, m), "out", 0, {})
        /\ here /\ WaitsForSends(sl, st) => Enter(r, s, StoreForLater(sl, st, m), "out", 0, {})
        /\ here /\ ~ WaitsForSends(sl, st) /\ IsZcopy(st) /\ IsRecv(st) /\ Num(sl) > 0 =>
             Enter(r, s, none, "scan", 0, {m})
        /\ /\ here /\ ~ WaitsForSends(sl, st) /\ ~ (IsZcopy(st) /\ IsRecv(st) /\ Num(sl) > 0)
           /\ IsR1S(st) /\ sl.recv_comp
           => Enter(r, s, Store(sl, m), "out", 0, {})
        /\ /\ here /\ ~ WaitsForSends(sl, st) /\ ~ (IsZcopy(st) /\ IsRecv(st) /\ Num(sl) > 0)
           /\ ~ (IsR1S(st) /\ sl.recv_comp)
           => Enter(r, s, res.slot, IF res.at = "more" THEN "out" ELSE res.at, 0, {})
    BY DEF Deliver, Num
  <1>2. PcInv /\ SlotsInv /\ NetInv
    BY DEF EngineInv
  <1>3. r \in Ranks /\ m \in Mail(r) /\ s \in SlotIds
    <2>1. r \in Ranks /\ m \in Mail(r)
      BY <1>2 DEF NetInv
    <2>2. m.coll_id \in 0 .. IdSpace - 1
      BY <2>1 DEF Mail
    <2>3. m.coll_id \in Nat
      BY <2>2, EngineAssumption
    <2> QED BY <2>1, <2>3, Ids
  <1> HIDE DEF r, s
  <1>4. sl \in SlotRecords(r) /\ SlotAt(r, sl, "out")
    BY <1>1, <1>2, <1>3, SlotNow
  <1>5. Sorted(r, sl)
    <2>1. Activation(r, s) = "out"
      BY <1>1 DEF Activation
    <2> QED BY <1>3, <2>1 DEF SortedInv
  <1> HIDE DEF sl
  <1>6. /\ RecvCount(st) \in Nat \ {0} /\ sl.step \in DOMAIN Plan[r] /\ Num(sl) \in Nat
        /\ sl.pending \in Nat /\ sl.zcomps \in Nat
    BY <1>3, <1>4, RecordFields, StepNumbers
  <1>7. here /\ ~ (IsR1S(st) /\ sl.recv_comp) => Waiting(r, sl)
    BY <1>4 DEF SlotAt, Done, Refused, st
  <1>8. IsRecv(st) => ~ IsR1S(st) /\ ~ IsSendOnly(st)
    BY Kinds DEF st
  <1> DEFINE more == Store(sl, m)
  <1>9. /\ more.busy = sl.busy /\ more.cb = sl.cb /\ more.recv_comp = sl.recv_comp
        /\ more.msgs = Append(sl.msgs, m) /\ more.step = sl.step /\ more.coll_id = sl.coll_id
        /\ more.pending = sl.pending /\ more.num_store = sl.num_store
    BY <1>3, <1>4 DEF Store, SlotRecords
  <1> HIDE DEF more, st
  <1>10. StepAt(r, more) = st /\ Num(more) = Num(sl)
    BY <1>9 DEF StepAt, Num, st
  <1>11. ASSUME Sorted(r, more), Enter(r, s, more, "out", 0, {}) PROVE SortedInv'
    BY <1>1, <1>2, <1>3, <1>11, EnterSorts
  <1>12. CASE ~ here
    <2>1. ~ Matches(r, sl, m) => Matching(r, more) = Matching(r, sl)
      BY <1>3, <1>4, <1>9, MatchingMore
    <2>2. Sorted(r, more)
      <3>1. CASE ~ sl.cb
        BY <1>9, <3>1 DEF Sorted
      <3>2. CASE ~ Matches(r, sl, m)
        <4>1. Matching(r, more) = Matching(r, sl)
          BY <2>1, <3>2
        <4> QED BY <1>5, <1>9, <1>10, <4>1 DEF Sorted, st
      <3> QED BY <1>12, <3>1, <3>2
    <2> QED BY <1>1, <1>11, <1>12, <2>2 DEF more
  <1>13. CASE here /\ WaitsForSends(sl, st)
    <2>1. IsZcopy(st) /\ IsRecv(st) /\ sl.pending > RecvCount(st)
      BY <1>13 DEF WaitsForSends
    <2>2. Waiting(r, sl)
      BY <1>7, <1>8, <1>13, <2>1
    <2> DEFINE n       == IF Num(sl) + 1 > RecvCount(st) THEN Num(sl) ELSE Num(sl) + 1
               counted == [sl EXCEPT !.num_store[sl.step] = n]
               new     == Store(counted, m)
               c       == Cardinality(Matching(r, sl))
    <2>3. StoreForLater(sl, st, m) = new
      BY DEF StoreForLater, Num
    <2>4. Num(sl) = AtMost(c, RecvCount(st))
      BY <1>5, <1>8, <1>13, <2>1, <2>2 DEF Sorted, st, Waiting
    <2>5. c \in Nat
      BY <1>3, <1>4, <1>9, MatchingMore
    <2> HIDE DEF c
    <2>6. n = AtMost(c + 1, RecvCount(st)) /\ n \in Nat /\ n <= RecvCount(st)
      BY <1>6, <2>4, <2>5 DEF AtMost
    <2> HIDE DEF n
    <2>7. /\ counted.msgs = sl.msgs /\ counted.step = sl.step /\ counted.coll_id = sl.coll_id
          /\ counted.pending = sl.pending /\ counted.num_store[sl.step] = n
          /\ counted \in SlotRecords(r)
      BY <1>4, <1>6, <2>6 DEF SlotRecords
    <2> HIDE DEF counted
    <2>8. /\ new.msgs = Append(sl.msgs, m) /\ new.step = sl.step /\ new.coll_id = sl.coll_id
          /\ new.pending = sl.pending /\ new.num_store[sl.step] = n
      BY <2>7 DEF Store, SlotRecords
    <2> HIDE DEF new
    <2>9. Cardinality(Matching(r, new)) = c + 1
      BY <1>3, <1>4, <1>13, <2>8, MatchingMore DEF c
    <2>10. StepAt(r, new) = st /\ Num(new) = n
      BY <2>8 DEF StepAt, Num, st
    <2>11. Num(new) < new.pending
      BY <1>6, <2>1, <2>6, <2>8, <2>10
    <2>12. Sorted(r, new)
      BY <2>1, <2>6, <2>9, <2>10, <2>11 DEF Sorted
    <2> QED BY <1>1, <1>2, <1>3, <1>13, <2>3, <2>12, EnterSorts
  <1>14. CASE here /\ ~ WaitsForSends(sl, st) /\ IsZcopy(st) /\ IsRecv(st) /\ Num(sl) > 0
    <2>1. Enter(r, s, none, "scan", 0, {m})
      BY <1>1, <1>14
    <2> HIDE DEF none
    <2> QED BY <1>1, <1>2, <1>3, <2>1, EnterSorts
  <1>15. CASE /\ here /\ ~ WaitsForSends(sl, st) /\ ~ (IsZcopy(st) /\ IsRecv(st) /\ Num(sl) > 0)
              /\ IsR1S(st) /\ sl.recv_comp
    <2>1. Sorted(r, more)
      BY <1>9, <1>10, <1>15 DEF Sorted
    <2> QED BY <1>1, <1>11, <1>15, <2>1 DEF more
  <1>16. CASE /\ here /\ ~ WaitsForSends(sl, st) /\ ~ (IsZcopy(st) /\ IsRecv(st) /\ Num(sl) > 0)
              /\ ~ (IsR1S(st) /\ sl.recv_comp)
    <2>1. Waiting(r, sl) /\ Matches(r, sl, m)
      BY <1>7, <1>16
    <2>2. ~ (IsZcopy(st) /\ IsSendOnly(st))
      BY <1>3, <1>4, <2>1, NoStrangers DEF st
    <2>3. AwaitsMessages(st, sl) \/ AwaitsSends(st, sl) \/ AwaitsFirstHalf(st, sl)
      BY <2>1 DEF Waiting, st
    <2>4. Num(sl) = 0
      BY <1>6, <1>16, <2>3 DEF AwaitsMessages, AwaitsSends, AwaitsFirstHalf
    <2>5. IsRecv(st) => sl.zcomps = 0
      <3>1. SUFFICES ASSUME IsRecv(st) PROVE sl.zcomps = 0
        OBVIOUS
      <3>2. AwaitsMessages(st, sl)
        BY <2>3, <3>1, Kinds DEF AwaitsSends, AwaitsFirstHalf, st
      <3>3. IsZcopy(st) => sl.pending <= RecvCount(st)
        BY <1>6, <1>16, <3>1 DEF WaitsForSends
      <3> QED BY <1>6, <3>2, <3>3 DEF AwaitsMessages
    <2>6. Scanning(r, sl)
      BY <1>16, <2>1, <2>4, <2>5 DEF Scanning, st
    <2>7. ~ IsSendOnly(st)
      BY <1>16, <2>2, <2>3, <1>8, Kinds DEF AwaitsMessages, AwaitsSends, AwaitsFirstHalf
    <2>8. Matching(r, sl) = {}
      <3>1. sl.busy /\ sl.cb
        BY <2>1 DEF Waiting
      <3>2. CASE ~ (IsZcopy(st) /\ IsRecv(st))
        BY <1>5, <1>16, <2>7, <3>1, <3>2 DEF Sorted, st
      <3>3. CASE IsZcopy(st) /\ IsRecv(st)
        <4>1. AtMost(Cardinality(Matching(r, sl)), RecvCount(st)) = 0
          BY <1>5, <1>16, <2>4, <2>7, <3>1, <3>3 DEF Sorted, st
        <4>2. IsFiniteSet(Matching(r, sl)) /\ Cardinality(Matching(r, sl)) \in Nat
          BY <1>3, <1>4, <1>9, MatchingMore
        <4>3. Cardinality(Matching(r, sl)) = 0
          BY <1>6, <4>1, <4>2 DEF AtMost
        <4> QED BY <4>2, <4>3, FS_EmptySet
      <3> QED BY <3>2, <3>3
    <2>9. Enter(r, s, res.slot, IF res.at = "more" THEN "out" ELSE res.at, 0, {})
      BY <1>1, <1>16
    <2> QED BY <1>1, <1>2, <1>3, <1>4, <2>2, <2>6, <2>8, <2>9, CalledBackSorts DEF st
  <1> QED BY <1>12, <1>13, <1>14, <1>15, <1>16

\* The transport is done with a send.
LEMMA ZcopyDoneSorts ==
  ASSUME EngineInv, SortedInv, NEW r \in Ranks, NEW s \in SlotIds, ZcopyDone(r, s)
  PROVE  SortedInv'
  <1> DEFINE sl   == slot[r][s]
             st   == StepAt(r, sl)
             num  == sl.num_store[sl.step]
             less == [sl EXCEPT !.zcomps = @ - 1, !.pending = @ - 1]
             none == [less EXCEPT !.num_store[sl.step] = 0]
  <1>1. /\ pc.at = "out" /\ sl.zcomps > 0
        /\ less.pending # num => Enter(r, s, less, "out", 0, {})
        /\ less.pending = num /\ num = 0 =>
             Enter(r, s, CompleteStep(r, less), AfterStep(r, less), 0, {})
        /\ less.pending = num /\ num # 0 => Enter(r, s, none, "scan", 0, {})
    BY DEF ZcopyDone
  <1>2. SlotsInv
    BY DEF EngineInv
  <1>3. sl \in SlotRecords(r)
    BY <1>2 DEF SlotsInv
  <1>4. Sorted(r, sl)
    <2>1. Activation(r, s) = "out"
      BY <1>1 DEF Activation
    <2> QED BY <2>1 DEF SortedInv
  <1> HIDE DEF sl
  <1>5. num = Num(sl) /\ num \in Nat /\ sl.pending \in Nat
    BY <1>3, RecordFields DEF Num
  <1> HIDE DEF st, num
  <1>6. /\ less.busy = sl.busy /\ less.cb = sl.cb /\ less.recv_comp = sl.recv_comp
        /\ less.pending = sl.pending - 1 /\ less.step = sl.step /\ less.num_store = sl.num_store
        /\ less.msgs = sl.msgs /\ less.coll_id = sl.coll_id
    BY <1>3 DEF SlotRecords
  <1> HIDE DEF less
  <1>7. StepAt(r, less) = st /\ Num(less) = num /\ Matching(r, less) = Matching(r, sl)
    BY <1>5, <1>6, MatchingSame DEF StepAt, Num, st
  <1>8. CASE less.pending # num
    <2>1. Num(sl) < sl.pending => Num(less) < less.pending
      BY <1>5, <1>6, <1>7, <1>8
    <2>2. Sorted(r, less)
      BY <1>4, <1>5, <1>6, <1>7, <2>1 DEF Sorted, st
    <2> QED BY <1>1, <1>2, <1>8, <2>2, EnterSorts
  <1>9. CASE less.pending = num /\ num = 0
    <2>1. AfterStep(r, less) = "out" => ~ CompleteStep(r, less).busy
      BY DEF AfterStep, CompleteStep
    <2>2. AfterStep(r, less) = "out" => Sorted(r, CompleteStep(r, less))
      BY <2>1 DEF Sorted
    <2> QED BY <1>1, <1>2, <1>9, <2>2, EnterSorts
  <1>10. CASE less.pending = num /\ num # 0
    <2> HIDE DEF none
    <2> QED BY <1>1, <1>2, <1>10, EnterSorts
  <1> QED BY <1>8, <1>9, <1>10

\* Whenever a member is out of a slot, it is sorted.
LEMMA SortedInvariant ==
  ASSUME OrderlyPlan
  PROVE  Spec => [](EngineInv /\ SortedInv)
  <1>1. Init => SortedInv
    <2>1. Init => \A r \in Ranks, s \in SlotIds : ~ slot[r][s].busy
      BY DEF Init
    <2> QED BY <2>1 DEF SortedInv, Sorted
  <1>2. ASSUME EngineInv, SortedInv, [Next]_vars PROVE SortedInv'
    <2>1. ASSUME NEW m \in net, Deliver(m) PROVE SortedInv'
      BY <1>2, <2>1, DeliverSorts
    <2>2. ASSUME NEW r \in Ranks, Start(r) PROVE SortedInv'
      BY <1>2, <2>2, StartSorts
    <2>3. ASSUME NEW r \in Ranks, NEW s \in SlotIds, Execute(r, s) PROVE SortedInv'
      <3>1. CASE ExecuteReceiveFirst(r, s)
        BY <1>2, <3>1, ReceiveFirstSorts
      <3>2. CASE ExecuteReceive(r, s)
        BY <1>2, <3>2, ReceiveSorts
      <3>3. ASSUME NEW j \in 0 .. Fragments(StepAt(r, slot[r][s])) * Len(StepAt(r, slot[r][s]).eps),
                   ExecuteSend(r, s, j)
            PROVE  SortedInv'
        <4>1. j \in Nat
          OBVIOUS
        <4> QED BY <1>2, <3>3, <4>1, SendSorts
      <3> QED BY <2>3, <3>1, <3>2, <3>3 DEF Execute
    <2>4. ASSUME NEW r \in Ranks, NEW s \in SlotIds, ScanMatch(r, s) \/ ScanEnd(r, s)
          PROVE  SortedInv'
      BY <1>2, <2>4, ScanMatchSorts, ScanEndSorts
    <2>5. ASSUME NEW r \in Ranks, NEW s \in SlotIds, ZcopyDone(r, s) \/ Resend(r, s)
          PROVE  SortedInv'
      BY <1>2, <2>5, ZcopyDoneSorts, ResendSorts
    <2>6. CASE UNCHANGED vars
      BY <1>2, <2>6 DEF vars, SortedInv, Activation
    <2> QED BY <1>2, <2>1, <2>2, <2>3, <2>4, <2>5, <2>6 DEF Next
  <1>3. EngineInv /\ [Next]_vars => EngineInv'
    BY NextEngine
  <1>4. Init => EngineInv
    BY InitEngine
  <1>5. EngineInv /\ SortedInv /\ [Next]_vars => SortedInv'
    BY <1>2
  <1> QED BY <1>1, <1>3, <1>4, <1>5, PTL DEF Spec

-----------------------------------------------------------------------------
(***************************************************************************)
(* Plans of the builtin planner that are orderly.                          *)
(***************************************************************************)
\* The steps of a recursive plan, when the number of members is no power of two.
LEMMA RecursiveSteps2 ==
  ASSUME NEW n \in Nat, NEW me \in Nat, NEW pieces, StepCount(n) \in 1 .. 255,
         NEW j \in DOMAIN RecursiveNonPowTwo(n, me, pieces)
  PROVE  LET st == RecursiveNonPowTwo(n, me, pieces)[j]
         IN  \/ st.method = "REDUCE_RECURSIVE" /\ st.step_idx \in 1 .. StepCount(n) - 1
             \/ IsRecvOnly(st)
             \/ /\ st.method = "SEND_TERMINAL" /\ st.fragments_recv = Fragments(st)
                /\ st.step_idx = 0 /\ st.eps = <<me + 1>> /\ me % 2 # 1
             \/ /\ st.method = "SEND_TERMINAL" /\ st.fragments_recv = Fragments(st)
                /\ st.step_idx = StepCount(n) /\ st.eps = <<me - 1>> /\ me % 2 = 1
  <1> DEFINE near   == StepCount(n) - 1
             extra  == n - StepSize[near]
             paired == me < 2 * extra
             odd    == me % 2 = 1
             new    == IF paired THEN me \div 2 ELSE me - extra
             Member(x) == IF x < extra THEN 2 * x + 1 ELSE x + extra
             pre    == IF odd THEN Step("REDUCE_TERMINAL", <<me - 1>>, 0, pieces)
                              ELSE Step("SEND_TERMINAL", <<me + 1>>, 0, pieces)
             post   == IF odd THEN Step("SEND_TERMINAL", <<me - 1>>, 1 + near, pieces)
                              ELSE Step("RECV_TERMINAL", <<me + 1>>, 1 + near, pieces)
             main   == [i \in 1 .. near |->
                          Doubling(new, Member(PeerIndex(new, i - 1)), i, i, pieces)]
             S      == {pre, post} \cup {main[i] : i \in 1 .. near}
             plan   == RecursiveNonPowTwo(n, me, pieces)
  <1>1. plan = IF ~ paired THEN main
               ELSE IF odd THEN <<pre>> \o main \o <<post>> ELSE <<pre, post>>
    BY DEF RecursiveNonPowTwo
  <1>2. near \in 0 .. 254 /\ near \in Nat
    OBVIOUS
  <1>3. ASSUME NEW i \in 1 .. near
        PROVE  main[i].method = "REDUCE_RECURSIVE" /\ main[i].step_idx \in 1 .. near
    <2>1. i % 256 = i
      BY <1>2
    <2>2. main[i] = Doubling(new, Member(PeerIndex(new, i - 1)), i, i, pieces)
      OBVIOUS
    <2> DEFINE peer == Member(PeerIndex(new, i - 1))
    <2> HIDE DEF peer, new, main
    <2>3. /\ main[i].method = "REDUCE_RECURSIVE" /\ main[i].step_idx = i % 256
      BY <2>2 DEF Doubling, Step, peer
    <2> QED BY <1>3, <2>1, <2>3
  <1>4. /\ odd => IsRecvOnly(pre)
        /\ ~ odd => /\ pre.method = "SEND_TERMINAL" /\ pre.fragments_recv = Fragments(pre)
                    /\ pre.step_idx = 0 /\ pre.eps = <<me + 1>>
    BY DEF Step, IsRecvOnly, Fragments
  <1>5. /\ ~ odd => IsRecvOnly(post)
        /\ odd => /\ post.method = "SEND_TERMINAL" /\ post.fragments_recv = Fragments(post)
                  /\ post.step_idx = StepCount(n) /\ post.eps = <<me - 1>>
    <2>1. 1 + near = StepCount(n) /\ StepCount(n) % 256 = StepCount(n)
      OBVIOUS
    <2> HIDE DEF near
    <2> QED BY <2>1 DEF Step, IsRecvOnly, Fragments
  <1> HIDE DEF near, extra, paired, pre, post, Member, new
  <1>6. main \in Seq(S) /\ <<pre>> \in Seq(S) /\ <<post>> \in Seq(S) /\ <<pre, post>> \in Seq(S)
    <2>1. pre \in S /\ post \in S /\ \A i \in 1 .. near : main[i] \in S
      OBVIOUS
    <2>2. main = [i \in 1 .. near |-> main[i]]
      OBVIOUS
    <2> HIDE DEF S, main
    <2>3. main \in Seq(S)
      BY <1>2, <2>1, <2>2
    <2> QED BY <2>1, <2>3
  <1> HIDE DEF main
  <1>7. plan[j] \in S
    <2> HIDE DEF S, plan
    <2>1. plan \in Seq(S)
      BY <1>1, <1>6
    <2>2. j \in DOMAIN plan
      BY DEF plan
    <2> QED BY <2>1, <2>2
  <1> HIDE DEF odd
  <1>8. CASE plan[j] = pre
    BY <1>4, <1>8 DEF odd
  <1>9. CASE plan[j] = post
    BY <1>5, <1>9 DEF odd
  <1>10. CASE plan[j] \in {main[i] : i \in 1 .. near}
    BY <1>3, <1>10 DEF near
  <1> QED BY <1>7, <1>8, <1>9, <1>10

\* Recursive doubling and the ring are orderly, for any number of members and
\* any number of fragments or elements: a member that hands its data to its
\* neighbour gets nothing under that step index
\* (ucg_builtin_recursive_non_pow_two_pre and _post, ucg_builtin_ring_create).
\* What is said of the engine holds of these algorithms with and without copies.
THEOREM OrderlyAlgorithms ==
  ASSUME NEW n \in Nat \ {0}, Ranks = 0 .. n - 1
  PROVE  /\ \A count : Plan = [r \in Ranks |-> Ring(n, r, count)] => OrderlyPlan
         /\ \A pieces : /\ StepCount(n) \in 1 .. 255
                        /\ Plan = [r \in Ranks |-> Recursive(n, r, pieces)]
                        => OrderlyPlan
  <1>1. ASSUME \A r \in Ranks : \A i \in DOMAIN Plan[r] :
                  ~ IsRS1(Plan[r][i]) /\ ~ IsSendOnly(Plan[r][i])
        PROVE  OrderlyPlan
    BY <1>1 DEF OrderlyPlan
  <1>2. ASSUME NEW count, Plan = [r \in Ranks |-> Ring(n, r, count)]
        PROVE  OrderlyPlan
    <2>1. ASSUME NEW r \in Ranks, NEW i \in DOMAIN Plan[r]
          PROVE  Plan[r][i].method \in {"REDUCE_SCATTER_RING", "ALLGATHER_RING"}
      <3>1. Plan[r] = Ring(n, r, count)
        BY <1>2
      <3>2. i \in 1 .. 2 * (n - 1)
        BY <3>1 DEF Ring
      <3> QED BY <3>1, <3>2 DEF Ring, Step
    <2> QED BY <1>1, <2>1 DEF IsRS1, IsSendOnly
  <1>3. ASSUME NEW pieces, StepCount(n) \in 1 .. 255,
               Plan = [r \in Ranks |-> Recursive(n, r, pieces)], IsPowerOfTwo(n)
        PROVE  OrderlyPlan
    <2>1. ASSUME NEW r \in Ranks, NEW i \in DOMAIN Plan[r]
          PROVE  Plan[r][i].method = "REDUCE_RECURSIVE"
      <3>1. Plan[r] = RecursivePowTwo(n, r, 2, pieces)
        BY <1>3 DEF Recursive
      <3>2. i \in 1 .. StepCount(n)
        BY <3>1 DEF RecursivePowTwo
      <3> QED BY <3>1, <3>2 DEF RecursivePowTwo, Doubling, Step
    <2> QED BY <1>1, <2>1 DEF IsRS1, IsSendOnly
  <1>4. ASSUME NEW pieces, StepCount(n) \in 1 .. 255,
               Plan = [r \in Ranks |-> Recursive(n, r, pieces)], ~ IsPowerOfTwo(n)
        PROVE  OrderlyPlan
    <2> DEFINE k == StepCount(n)
    <2>1. ASSUME NEW q \in Ranks, NEW i \in DOMAIN Plan[q]
          PROVE  \/ Plan[q][i].method = "REDUCE_RECURSIVE" /\ Plan[q][i].step_idx \in 1 .. k - 1
                 \/ IsRecvOnly(Plan[q][i])
                 \/ /\ Plan[q][i].method = "SEND_TERMINAL"
                    /\ Plan[q][i].fragments_recv = Fragments(Plan[q][i])
                    /\ Plan[q][i].step_idx = 0 /\ Plan[q][i].eps = <<q + 1>> /\ q % 2 # 1
                 \/ /\ Plan[q][i].method = "SEND_TERMINAL"
                    /\ Plan[q][i].fragments_recv = Fragments(Plan[q][i])
                    /\ Plan[q][i].step_idx = k /\ Plan[q][i].eps = <<q - 1>> /\ q % 2 = 1
      <3>1. Plan[q] = RecursiveNonPowTwo(n, q, pieces) /\ q \in Nat
        BY <1>4 DEF Recursive
      <3> QED BY <1>4, <3>1, RecursiveSteps2
    <2> HIDE DEF k
    <2>2. k \in 1 .. 255
      BY <1>4 DEF k
    <2>3. ASSUME NEW r \in Ranks, NEW i \in DOMAIN Plan[r], IsSendOnly(Plan[r][i])
          PROVE  /\ Plan[r][i].fragments_recv = Fragments(Plan[r][i])
                 /\ \/ Plan[r][i].step_idx = 0 /\ r % 2 # 1
                    \/ Plan[r][i].step_idx = k /\ r % 2 = 1
      BY <2>1, <2>3 DEF IsSendOnly, IsRecvOnly
    <2>4. ASSUME NEW q \in Ranks, NEW j \in DOMAIN Plan[q], NEW to \in Targets(Plan[q][j])
          PROVE  \/ Plan[q][j].step_idx \in 1 .. k - 1
                 \/ Plan[q][j].step_idx = 0 /\ to % 2 = 1
                 \/ Plan[q][j].step_idx = k /\ to % 2 # 1
      <3>1. ~ IsRecvOnly(Plan[q][j])
        BY DEF Targets
      <3>2. ASSUME NEW x, Plan[q][j].eps = <<x>> PROVE to = x
        BY <3>2 DEF Targets
      <3>3. q \in Nat
        OBVIOUS
      <3>4. /\ q % 2 # 1 => (q + 1) % 2 = 1
            /\ q % 2 = 1 => (q - 1) % 2 # 1
        BY <3>3
      <3> QED BY <2>1, <3>1, <3>2, <3>4
    <2>5. ASSUME NEW r \in Ranks, NEW i \in DOMAIN Plan[r], IsSendOnly(Plan[r][i]),
                 NEW q \in Ranks
          PROVE  ~ Addressed(q, r, Plan[r][i].step_idx)
      <3>1. SUFFICES ASSUME NEW j \in DOMAIN Plan[q],
                            Plan[q][j].step_idx = Plan[r][i].step_idx,
                            r \in Targets(Plan[q][j])
                     PROVE  FALSE
        BY DEF Addressed
      <3> DEFINE idx == Plan[r][i].step_idx
                 odd == r % 2 = 1
      <3>2. (idx = 0 /\ ~ odd) \/ (idx = k /\ odd)
        BY <2>3, <2>5
      <3>3. idx \in 1 .. k - 1 \/ (idx = 0 /\ odd) \/ (idx = k /\ ~ odd)
        BY <2>4, <3>1
      <3> HIDE DEF idx, odd
      <3> QED BY <2>2, <3>2, <3>3
    <2>6. ASSUME NEW r \in Ranks, NEW i \in DOMAIN Plan[r] PROVE ~ IsRS1(Plan[r][i])
      BY <2>1 DEF IsRS1, IsRecvOnly
    <2> QED BY <2>3, <2>5, <2>6 DEF OrderlyPlan
  <1> QED BY <1>2, <1>3, <1>4
=============================================================================
