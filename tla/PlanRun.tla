------------------------------ MODULE PlanRun ------------------------------
(***************************************************************************)
(* One collective of the builtin planner, from the call to the result: the *)
(* members choose an algorithm (Selection), build their plans (Plans,      *)
(* TopoTrees, BinaryBlock) and carry them out.  It checks that they choose *)
(* alike, that what one member's plan sends is what another's waits for,   *)
(* and that the data ends up as the collective wants it.                   *)
(*                                                                         *)
(* How a member gets through a step, and messages that overtake each other,*)
(* are the subject of StepEngine.  Here all members that can go on do so   *)
(* together: a plan says how many messages of which index each step waits  *)
(* for, so no other order brings them anywhere else.                       *)
(***************************************************************************)
EXTENDS Selection, TopoTrees, BinaryBlock, Fragments, FiniteSets, Bags

CONSTANTS
  Placements,   \* where the members may run
  Requests,     \* what they may ask for
  Degrees,      \* [inter, intra]: of the k-nomial trees, and of the order of children
  MaxElements,  \* a buffer that is cut has so many elements at most
  Consistency,  \* REDUCE_CONSISTENCY is set
  Near, Far,    \* the transports inside a node and between nodes
  Lengths       \* of an element, in bytes

ASSUME PlanRunAssumption ==
  /\ \A p \in Placements : /\ CountOf(p) \in Nat \ {0, 1}
                           /\ MembersOf(p) = 0 .. CountOf(p) - 1
  /\ \A d \in Degrees : d.inter > 1 /\ d.intra > 1
  /\ MaxElements \in Nat \ {0} /\ Consistency \in BOOLEAN
  /\ IsTransport(Near) /\ IsTransport(Far) /\ Lengths \subseteq Nat

VARIABLES
  call,  \* the request and the placement, while the members choose
  alg,   \* alg[r]: the algorithm member r has come to
  job,   \* what the plans are built from
  plan,  \* plan[r]: the steps the builder gave member r
  at,    \* at[r]: the step member r is in, and the half of it
  buf,   \* buf[r]: the members whose data each element holds, in their order
  net    \* messages sent and not yet received

vars == <<call, alg, job, plan, at, buf, net>>

None == <<>>
Calls == [req : Requests, place : Placements]

Init ==
  /\ call \in Calls
  /\ alg = [r \in MembersOf(call.place) |-> FirstChoice(call.req, call.place)]
  /\ job = None /\ plan = None /\ at = None /\ buf = None
  /\ net = {}

-----------------------------------------------------------------------------
NextChoices == [r \in DOMAIN alg |-> FallBack(call.req, call.place, r, alg[r])]

\* Each member falls back as long as a check of its algorithm fails.
Choose ==
  /\ call # None
  /\ NextChoices # alg
  /\ alg' = NextChoices
  /\ UNCHANGED <<call, job, plan, at, buf, net>>

(***************************************************************************)
(* What a plan depends on.  It is the same for two calls that ask the      *)
(* builders for the same thing.                                            *)
(***************************************************************************)
SomeDegree == [inter |-> 2, intra |-> 2]

\* A tree that is not k-nomial takes nothing from the degrees but the order of
\* the children in the reduce buffer, and that it does take from them
\* (ucg_builtin_binomial_tree_build_intra).
JobOf(c, algo, root, degree) ==
  LET sw    == set_algo(c.req.coll, algo)
      type  == choose_type(c.req.coll, sw)
      slots == Consistency /\ c.req.coll = "allreduce" /\ type = "TREE_FANIN_FANOUT"
      usesDegree == slots \/ sw.on \cap {"kmtree", "kmtree_intra"} # {}
  IN  [type   |-> type, sw |-> sw, root |-> root,
       place  |-> IF "topo" \in sw.on \/ type = "RING" THEN c.place ELSE Blocks(1, 1, CountOf(c.place)),
       degree |-> IF usesDegree THEN degree ELSE SomeDegree,
       count  |-> IF type \in {"RING", "BINARY_BLOCK"} THEN Min({c.req.count, MaxElements}) ELSE 1,
       ordered |-> ~ c.req.commutes,
       slots  |-> slots]

Members == MembersOf(job.place)
Reducing(j) == j.type # "TREE_FANOUT"
Elements(j) == 0 .. j.count - 1

PlanOf(j, me) ==
  LET n == CountOf(j.place)
  IN  CASE j.type = "RECURSIVE"   -> Recursive(n, me, Whole(1))
        [] j.type = "RING"        -> Ring(n, me, j.count)
        [] j.type = "TREE_FANOUT" -> Broadcast(j, me, Whole(1))
        [] j.type = "TREE_FANIN_FANOUT" ->
             IF j.slots THEN ToSlot(FaninFanout(j, me, Whole(1)), up_offset(j, me))
                        ELSE FaninFanout(j, me, Whole(1))
        [] j.type = "BINARY_BLOCK" ->
             IF "topo" \in j.sw.on THEN TopoBinaryBlocks(j.place, j.sw.level, me, j.count)
                                   ELSE BinaryBlocks(n, me, j.count)

\* The root is 0, except that of a broadcast.
Roots(c) ==
  LET n == CountOf(c.place)
  IN  IF c.req.coll = "bcast" THEN {0, n \div 2, n - 1} ELSE {0}

\* The algorithm sets its switches, and the kind of plan follows from them.
SetAlgo ==
  /\ call # None
  /\ NextChoices = alg
  /\ \E root \in Roots(call), degree \in Degrees : job' = JobOf(call, alg[0], root, degree)
  /\ call' = None /\ alg' = None
  /\ UNCHANGED <<plan, at, buf, net>>

Build ==
  /\ job # None /\ plan = None
  /\ plan' = [r \in Members |-> PlanOf(job, r)]
  /\ at' = [r \in Members |-> [step |-> 1, half |-> 1]]
  /\ buf' = [r \in Members |-> [e \in Elements(job) |->
               IF Reducing(job) \/ r = job.root THEN <<r>> ELSE <<>>]]
  /\ UNCHANGED <<call, alg, job, net>>

-----------------------------------------------------------------------------
Finished(r) == at[r].step > Len(plan[r])
Current(r) == plan[r][at[r].step]

\* To whom a step sends, and how many messages it waits for.
SendsTo(st) ==
  CASE IsRecvOnly(st) -> <<>>
    [] IsR1S(st)      -> Tail(st.eps)
    [] IsRS1(st)      -> <<st.eps[Len(st.eps)]>>
    [] OTHER          -> st.eps
WaitsFor(st) ==
  CASE st.method = "SEND_TERMINAL" -> 0
    [] IsR1S(st)                   -> st.fragments_recv
    [] IsRS1(st)                   -> st.fragments_recv * (Len(st.eps) - 1)
    [] OTHER                       -> RecvCount(st)

\* A waypoint receives before it sends, the others send first.
Sending(r) == (at[r].half = 1) # IsWaypoint(Current(r))

Inbox(r) == {m \in net : m.to = r /\ m.step_idx = Current(r).step_idx}

Able(r) ==
  /\ ~ Finished(r)
  /\ Sending(r) \/ Cardinality(Inbox(r)) >= WaitsFor(Current(r))

\* The messages a step takes: as many as it waits for.
Taken(r) ==
  LET in == Inbox(r)
      Before(m) == {o \in in : o.from < m.from \/ (o.from = m.from /\ o.off < m.off)}
  IN  IF Sending(r) THEN {}
      ELSE {m \in in : Cardinality(Before(m)) < WaitsFor(Current(r))}

Sent(r) ==
  LET st == Current(r)
  IN  IF ~ Sending(r) THEN {}
      ELSE {[from |-> r, to |-> p, step_idx |-> st.step_idx, sent |-> at[r].step,
             slot |-> st.slot, off |-> off, data |-> buf[r][off]] :
              p \in ToSet(SendsTo(st)), off \in ToSet(st.pieces)}

(***************************************************************************)
(* What is made of it.  With REDUCE_CONSISTENCY a tree's first step keeps  *)
(* the data of its children apart, each at the place its message names, and*)
(* reduces them in the end; in any other step that place is taken for an   *)
(* offset into the buffer (ucg_builtin_mpi_reduce_partial).                *)
(***************************************************************************)
Garbage == -1

Buffered(r) ==
  job.slots /\ at[r].step = 1 /\ Current(r).method \in {"REDUCE_TERMINAL", "REDUCE_WAYPOINT"}

FromSlots(r, msgs) ==
  LET children == WaitsFor(Current(r))
      In(s) == {m \in msgs : m.slot = s}
  IN  FlattenSeq([i \in 1 .. children |->
        IF In(i - 1) = {} THEN <<Garbage>> ELSE (CHOOSE m \in In(i - 1) : TRUE).data])

Combine(st, own, data) ==
  IF ~ Reduces(st) THEN data ELSE IF st.swap THEN own \o data ELSE data \o own

Received(r) ==
  LET st     == Current(r)
      At(e)  == {m \in Taken(r) : m.off = e}
      Data(m) == IF m.slot = 0 THEN m.data ELSE <<Garbage>>
  IN  [e \in Elements(job) |->
         IF At(e) = {} THEN buf[r][e]
         ELSE IF Buffered(r) THEN FromSlots(r, At(e)) \o buf[r][e]
         ELSE FoldSet(LAMBDA m, own : Combine(st, own, Data(m)), buf[r][e], At(e))]

Advance ==
  LET able == {r \in Members : Able(r)}
  IN  /\ plan # None
      /\ able # {}
      /\ net' = (net \ UNION {Taken(r) : r \in able}) \cup UNION {Sent(r) : r \in able}
      /\ buf' = [r \in Members |-> IF r \in able THEN Received(r) ELSE buf[r]]
      /\ at' = [r \in Members |->
                  IF r \notin able THEN at[r]
                  ELSE IF at[r].half = 1 THEN [at[r] EXCEPT !.half = 2]
                  ELSE [step |-> at[r].step + 1, half |-> 1]]
      /\ UNCHANGED <<call, alg, job, plan>>

Next == Choose \/ SetAlgo \/ Build \/ Advance

\* Weak fairness of Next, with the condition it is enabled under written out.
CanGoOn == plan = None \/ \E r \in Members : Able(r)
Fairness == []<>(~ CanGoOn) \/ []<><<Next>>_vars

Spec == Init /\ [][Next]_vars /\ Fairness

-----------------------------------------------------------------------------
\* All members fall back from one algorithm to the next together: plans of
\* different algorithms would wait for each other for ever.
MembersAgree == call # None => \A r \in DOMAIN alg : alg[r] = alg[0]

NotStarted == plan # None /\ \A r \in Members : at[r] = [step |-> 1, half |-> 1]

\* Plans fit together: each member is sent, under every index, as many messages
\* as its steps of that index wait for.  The header tells messages of a
\* collective apart by nothing else, so steps share one only if they follow each
\* other and do nothing but receive.
PlansFit ==
  NotStarted => \A r \in Members :
    LET receiving == {i \in DOMAIN plan[r] : WaitsFor(plan[r][i]) > 0}
        Indexes == UNION {{plan[q][i].step_idx : i \in DOMAIN plan[q]} : q \in Members}
        Sends(q, i, idx) ==
          IF plan[q][i].step_idx # idx THEN 0
          ELSE Fragments(plan[q][i]) * Cardinality({k \in DOMAIN SendsTo(plan[q][i]) :
                                                      SendsTo(plan[q][i])[k] = r})
        Coming(idx) == MapThenSumSet(LAMBDA q :
          MapThenSumSet(LAMBDA i : Sends(q, i, idx), DOMAIN plan[q]), Members)
        Awaited(idx) == MapThenSumSet(LAMBDA i : WaitsFor(plan[r][i]),
                          {i \in receiving : plan[r][i].step_idx = idx})
    IN  /\ \A i, j \in receiving :
             i < j /\ plan[r][i].step_idx = plan[r][j].step_idx
             => \A k \in i .. j : /\ IsRecvOnly(plan[r][k])
                                  /\ plan[r][k].step_idx = plan[r][i].step_idx
        /\ \A idx \in Indexes : Coming(idx) = Awaited(idx)

(***************************************************************************)
(* The messages the code cuts a step's data into.  A phase has the         *)
(* thresholds of the endpoint connected last, to send, and of the one      *)
(* connected first, to receive; in a ring these are the right and the left *)
(* neighbour (ucg_builtin_ring_connect).  Only some methods compute what   *)
(* they wait for from the latter, and from a length of its own; the others *)
(* take their own number of fragments for it (ucg_builtin_step_create).    *)
(***************************************************************************)
Transport(a, b) == IF job.place.node[a] = job.place.node[b] THEN Near ELSE Far

LeftNeighbour(r) == (r - 1 + CountOf(job.place)) % CountOf(job.place)

ConnectedLast(r, st) == st.eps[Len(st.eps)]
ConnectedFirst(r, st) == IF job.type = "RING" THEN LeftNeighbour(r) ELSE st.eps[1]

MessagesSent(r, st, dt_len) ==
  SendFragments(Thresholds(Transport(r, ConnectedLast(r, st))), Fragments(st) * dt_len, dt_len)

MessagesAwaited(r, st, dt_len) ==
  IF st.method \in {"REDUCE_SCATTER_RING", "ALLGATHER_RING", "REDUCE_SCATTER_RECURSIVE", "EXCHANGE"}
  THEN RecvFragments(Thresholds(Transport(r, ConnectedFirst(r, st))), st.fragments_recv * dt_len, dt_len)
  ELSE MessagesSent(r, st, dt_len)

\* From whom a step receives.
Sources(r, st) ==
  CASE st.method = "SEND_TERMINAL" -> {}
    [] IsR1S(st)                   -> {st.eps[1]}
    [] IsRS1(st)                   -> ToSet(Front(st.eps))
    [] job.type = "RING"           -> {LeftNeighbour(r)}
    [] OTHER                       -> ToSet(st.eps)

\* Sender and receiver cut the data of a step into as many messages, on whatever
\* transports their neighbours are: else the receiver waits for ever, or takes a
\* message for one of the next step.
FragmentsFit ==
  NotStarted => \A r \in Members : \A i \in DOMAIN plan[r] :
    \A q \in Sources(r, plan[r][i]) : \A k \in DOMAIN plan[q] :
      plan[q][k].step_idx = plan[r][i].step_idx /\ r \in ToSet(SendsTo(plan[q][k]))
      => \A len \in Lengths :
           MessagesSent(q, plan[q][k], len) = MessagesAwaited(r, plan[r][i], len)

\* Every member's data is in every result exactly once, or the root's.
DataExact ==
  plan # None => \A r \in Members :
    Finished(r) => \A e \in Elements(job) :
      ToBag(buf[r][e]) = SetToBag(IF Reducing(job) THEN Members ELSE {job.root})

\* An operation that does not commute is applied in the order of the members.
OrderKept ==
  plan # None /\ job.ordered => \A r \in Members :
    Finished(r) => \A e \in Elements(job) : buf[r][e] = Ascending(job.place, Members)

\* The choice of an algorithm ends, no run of its plans gets stuck, and none
\* leaves a message behind.
Completes == <>[](plan # None /\ net = {} /\ \A r \in Members : Finished(r))
=============================================================================
