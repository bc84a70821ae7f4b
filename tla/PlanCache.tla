------------------------------ MODULE PlanCache ------------------------------
(***************************************************************************)
(* The plans and operations a group keeps for reuse                        *)
(* (ucg_collective_create of src/base/ucg_group.c and                      *)
(* src/builtin/plan/builtin_plan_cache.c), and who still uses them when    *)
(* they are thrown away.                                                   *)
(*                                                                         *)
(* A position of the cache holds one plan; a plan owns the operations      *)
(* prepared for it.  An operation is on its plan's op_head, or, started    *)
(* behind a barrier, on the group's pending queue.  The caller is a single *)
(* thread that starts an operation before it creates the next.  A barrier  *)
(* needs messages, so it does not complete inside its own start here;      *)
(* UcgGroup has that case.  As there, the loop that releases a barrier is  *)
(* unrolled: while releasing is set, only its next round is enabled.  An   *)
(* operator that is used nowhere is a plausible mistake in the code of the *)
(* one below it.                                                           *)
(***************************************************************************)
EXTENDS Integers, Sequences, FiniteSets, SequencesExt

CONSTANTS
  Types,       \* types of collectives called
  Roots,       \* roots of broadcasts
  Buffers,     \* buffers broadcasts and allreduces are called with
  RootNums,    \* ROOT_NUMS: broadcast roots that have a position of their own
  MaxOps,      \* UCG_GROUP_MAX_OPS_IN_PLAN
  PlanIds,     \* memory for plans
  OpIds,       \* memory for operations
  MaxActive,   \* bound: operations started and not completed
  Careful,     \* the caller lets go of what a creation finds or throws away
  None

\* A group has 16 slots, and a plan keeps more operations than that.
ASSUME PlanCacheAssumption ==
  /\ Types \subseteq {"barrier", "bcast", "allreduce", "alltoallv"}
  /\ Roots \subseteq Nat /\ RootNums \in Nat \ {0}
  /\ MaxActive \in Nat \ {0} /\ MaxOps \in Nat /\ MaxActive <= MaxOps
  /\ Careful \in BOOLEAN
  /\ None \notin PlanIds \cup OpIds
  /\ IsFiniteSet(OpIds)

VARIABLES
  pcache,   \* builtin_pcache: the plan in each position
  plan,     \* plan[i]: its root, op_head and op_cnt
  op,       \* op[o]: what it is for, its plan, how often it is running
  pending,  \* group->pending
  barrier,  \* group->is_barrier_outstanding
  releasing,\* ucg_collective_release_barrier is in its loop
  coll      \* the handle the caller has created and not yet started

vars == <<pcache, plan, op, pending, barrier, releasing, coll>>

\* ucg_collective_params_t, as far as the cache tells calls apart.
Params ==
  [type : Types \cap {"barrier", "alltoallv"}, root : {0}, buf : {0}]
  \cup [type : Types \cap {"bcast"}, root : Roots, buf : Buffers]
  \cup [type : Types \cap {"allreduce"}, root : {0}, buf : Buffers]

\* Where a plan for p is kept.  The choice of the algorithm only multiplies the
\* positions.
Position(p) == <<p.type, p.root % RootNums>>
Positions == {Position(p) : p \in Params}

NoPlan == [root |-> 0, live |-> FALSE, op_head |-> <<>>, op_cnt |-> 0]
NoOp == [params |-> None, plan |-> None, live |-> FALSE, running |-> 0]

Init ==
  /\ pcache = [pos \in Positions |-> None]
  /\ plan = [i \in PlanIds |-> NoPlan]
  /\ op = [o \in OpIds |-> NoOp]
  /\ pending = <<>>
  /\ barrier = FALSE
  /\ releasing = FALSE
  /\ coll = None

-----------------------------------------------------------------------------
Active(o) == op[o].running > 0 \/ o \in ToSet(pending)
ActiveOps == {o \in OpIds : Active(o)}
FreePlans == {i \in PlanIds : ~ plan[i].live}
FreeOps == {o \in OpIds : ~ op[o].live /\ ~ Active(o)}

FindAnyRoot(p) == IF p.type = "alltoallv" THEN None ELSE pcache[Position(p)]

\* ucg_builtin_pcache_find: a broadcast plan is for one root, and alltoallv
\* never finds its plan again.
Find(p) ==
  LET i == pcache[Position(p)]
  IN  IF p.type = "alltoallv" \/ i = None THEN None
      ELSE IF plan[i].root = p.root THEN i ELSE None

\* Where on op_head the operations for the same parameters are, in use or not.
Reusable(i, p) == {k \in DOMAIN plan[i].op_head : op[plan[i].op_head[k]].params = p}

ExcessTooLate(pl) == IF pl.op_cnt <= MaxOps THEN 0 ELSE pl.op_cnt - MaxOps

\* How many operations are discarded to make room for one more: those at the
\* head of op_head.
Excess(pl) == IF pl.op_cnt < MaxOps THEN 0 ELSE pl.op_cnt - MaxOps + 1

Evicted(pl) == ToSet(SubSeq(pl.op_head, 1, Excess(pl)))

AddHead(pl, o) ==
  [pl EXCEPT !.op_head = <<o>> \o SubSeq(@, Excess(pl) + 1, Len(@)),
             !.op_cnt = @ - Excess(pl) + 1]

Prepared(p, i) == [params |-> p, plan |-> i, live |-> TRUE, running |-> 0]

Discard(ops) ==
  [o \in OpIds |-> IF o \notin ops THEN op[o]
                   ELSE IF Active(o) THEN [op[o] EXCEPT !.live = FALSE] ELSE NoOp]

Spares(ops) == Careful => \A o \in ops : ~ Active(o)

\* ucg_collective_create finds an operation of the plan it can use again: the
\* first on the list.
CreateReuse(p) ==
  LET i == Find(p)
  IN  /\ coll = None /\ ~ releasing
      /\ i # None
      /\ \E k \in Reusable(i, p) :
           /\ \A j \in Reusable(i, p) : k <= j
           /\ Spares({plan[i].op_head[k]})
           /\ coll' = plan[i].op_head[k]
      /\ UNCHANGED <<pcache, plan, op, pending, barrier, releasing>>

\* It finds the plan, and prepares a new operation for it.
CreateOp(p) ==
  LET i == Find(p)
      o == CHOOSE o \in FreeOps : TRUE
  IN  /\ coll = None /\ ~ releasing
      /\ i # None
      /\ Reusable(i, p) = {}
      /\ FreeOps # {}
      /\ Spares(Evicted(plan[i]))
      /\ op' = [Discard(Evicted(plan[i])) EXCEPT ![o] = Prepared(p, i)]
      /\ plan' = [plan EXCEPT ![i] = AddHead(@, o)]
      /\ coll' = o
      /\ UNCHANGED <<pcache, pending, barrier, releasing>>

\* It finds none, and creates plan and operation; ucg_builtin_pcache_update
\* destroys the plan that was in the position, and with it all its operations.
CreatePlan(p) ==
  LET old == pcache[Position(p)]
      i   == CHOOSE i \in FreePlans : TRUE
      o   == CHOOSE o \in FreeOps : TRUE
      gone == {q \in OpIds : op[q].live /\ op[q].plan = old}
      new == [root |-> p.root, live |-> TRUE, op_head |-> <<o>>, op_cnt |-> 1]
  IN  /\ coll = None /\ ~ releasing
      /\ Find(p) = None
      /\ FreePlans # {} /\ FreeOps # {}
      /\ Spares(gone)
      /\ pcache' = [pcache EXCEPT ![Position(p)] = i]
      /\ plan' = [k \in PlanIds |-> IF k = i THEN new
                                    ELSE IF k = old THEN NoPlan ELSE plan[k]]
      /\ op' = [Discard(gone) EXCEPT ![o] = Prepared(p, i)]
      /\ coll' = o
      /\ UNCHANGED <<pending, barrier, releasing>>

-----------------------------------------------------------------------------
IsBarrier(o) == op[o].params.type = "barrier"

RunOne(f, o) == [f EXCEPT ![o].running = @ + 1]

\* An operation leaves its plan's list, wherever it is on it, and is put back
\* at the head.
LeaveOpHead(o) ==
  LET list == plan[op[o].plan].op_head
      k    == CHOOSE k \in DOMAIN list : list[k] = o
  IN  [plan EXCEPT ![op[o].plan].op_head = RemoveAt(list, k)]

BackOnOpHead(o) == [plan EXCEPT ![op[o].plan].op_head = <<o>> \o @]

\* ucg_collective_start: the operation runs (or is through at once), or is
\* moved from op_head to the queue.
Start ==
  LET o == coll
  IN  /\ coll # None /\ ~ releasing
      /\ Cardinality(ActiveOps) < MaxActive
      /\ coll' = None
      /\ IF barrier
           THEN /\ pending' = Append(pending, o)
                /\ plan' = LeaveOpHead(o)
                /\ UNCHANGED <<op, barrier>>
           ELSE /\ barrier' = IsBarrier(o)
                /\ op' \in {RunOne(op, o)} \cup (IF IsBarrier(o) THEN {} ELSE {op})
                /\ UNCHANGED <<pending, plan>>
      /\ UNCHANGED <<pcache, releasing>>

CompleteKeepsFlag(o) ==
  /\ ~ releasing
  /\ op[o].running > 0
  /\ op' = [op EXCEPT ![o].running = @ - 1]
  /\ UNCHANGED <<pcache, plan, pending, barrier, releasing, coll>>

\* An operation is completed, and stays on op_head for reuse.  The end of a
\* barrier releases it: ucg_collective_release_barrier.
Complete(o) ==
  /\ ~ releasing
  /\ op[o].running > 0
  /\ op' = [op EXCEPT ![o].running = @ - 1]
  /\ IF IsBarrier(o) /\ barrier
       THEN barrier' = FALSE /\ releasing' = (pending # <<>>)
       ELSE UNCHANGED <<barrier, releasing>>
  /\ UNCHANGED <<pcache, plan, pending, coll>>

\* A round of its loop: the oldest waiting operation is put back on op_head and
\* triggered; it is in progress, and the loop ends, or it is through at once.
Release ==
  LET o == Head(pending)
  IN  /\ releasing
      /\ pending' = Tail(pending)
      /\ plan' = BackOnOpHead(o)
      /\ \/ /\ op' = RunOne(op, o)
            /\ barrier' = IsBarrier(o)
            /\ releasing' = FALSE
         \/ /\ ~ IsBarrier(o)
            /\ releasing' = (pending' # <<>>)
            /\ UNCHANGED <<op, barrier>>
      /\ UNCHANGED <<pcache, coll>>

Next ==
  \/ \E p \in Params : CreateReuse(p) \/ CreateOp(p) \/ CreatePlan(p)
  \/ Start
  \/ \E o \in OpIds : Complete(o)
  \/ Release

Spec == Init /\ [][Next]_vars

-----------------------------------------------------------------------------
QueuedOf(i) == {o \in ToSet(pending) : op[o].plan = i}

\* A plan counts the operations it owns, the ones waiting behind a barrier and
\* so off its list included, keeps at most UCG_GROUP_MAX_OPS_IN_PLAN of them,
\* and owns each once: creation, eviction, start, queue and release agree.
CountExact ==
  \A i \in PlanIds : plan[i].live =>
    LET listed == ToSet(plan[i].op_head)
    IN  /\ Cardinality(listed) = Len(plan[i].op_head)
        /\ listed \cap ToSet(pending) = {}
        /\ listed \cup QueuedOf(i) = {o \in OpIds : op[o].live /\ op[o].plan = i}
        /\ plan[i].op_cnt = Cardinality(listed) + Cardinality(QueuedOf(i))
        /\ plan[i].op_cnt <= MaxOps

\* Where room has to be made for one more operation, the list has the ones to
\* discard: those that wait behind a barrier never use up what a plan keeps
\* (ucs_list_extract_head does not ask whether the list is empty).
RoomCanBeMade == \A i \in PlanIds : plan[i].live => Excess(plan[i]) <= Len(plan[i].op_head)

\* The handle a creation returns is for an operation that was not discarded,
\* listed in the cached plan of its position, which was made for its own root.
HandleFits ==
  coll # None =>
    LET i == op[coll].plan
        p == op[coll].params
    IN  /\ op[coll].live /\ plan[i].live
        /\ coll \in ToSet(plan[i].op_head)
        /\ pcache[Position(p)] = i /\ plan[i].root = p.root

\* An operation that is running or waiting behind a barrier is not discarded
\* ("Otherwise, the handle is destroyed when the collective operation is
\* completed", src/api/ucg.h).
ActiveAlive == \A o \in OpIds : Active(o) => op[o].live
=============================================================================
