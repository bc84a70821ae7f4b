# Verification of xucg (UCX group collectives)

xucg implements MPI-style collectives (barrier, broadcast, allreduce, alltoallv)
on top of UCX transports. This directory holds TLA+ models of its control logic,
TLC configurations that check them on small instances, and TLAPS proofs.

`src/` below means the repository: `src/api`, `src/base`, `src/builtin`.

## 1. The system

One process has a *worker*, and on it *groups*. A caller (MPI) creates a
collective handle, starts it, and progresses the worker until the request is
complete. Everything in a process runs in one thread (`UCP_WORKER_THREAD_CS`);
the concurrency is between processes, between the completions and messages a
transport delivers in any order, and between functions of one process that call
each other recursively.

| Component | State | Operations | Right when |
|---|---|---|---|
| Group (`base/ucg_group.c`) | `is_barrier_outstanding`, `pending`, `next_id`, `params` | `ucg_collective_create`, `_start(_nb,_nbr)`, `_trigger`, `_release_barrier`, `ucg_group_destroy` | nothing starts during a barrier; what waits starts afterwards, in order; the flag says what it means |
| Slots, message handler, resend queue (`builtin/builtin.c`) | `slots[16]` per group (callback, `coll_id`, request, stored messages), `gctx->send_head` | `ucg_builtin_am_handler`, `ucg_builtin_am_process`, `ucg_builtin_progress` | a message reaches the step it is for exactly once, now or later; a refused send is tried again |
| Step engine (`builtin/ops/builtin_ops.c`, `builtin_cb.inl`) | per operation: steps with `iter_ep`, `iter_offset`, `resend_flag`, `zcopy.num_store`; per request: `pending`, `recv_comp`, `step` | `ucg_builtin_op_trigger`, `ucg_builtin_step_execute`, `ucg_builtin_msg_process`, the receive, send and zero-copy callbacks | every member leaves with the right data; a buffer lent to the transport is not overwritten; the next use finds the steps as new |
| Plan builders (`builtin/plan/builtin_recursive.c`, `_ring.c`, `_binomial_tree.c`, `_binary_block.c`, `_trees.c`) | none after creation | recursive doubling, ring, k-nomial trees over one or several levels, binary blocks with or without topology | the plans of all members, computed separately, fit together, end and deliver |
| Plan and operation cache (`base/ucg_group.c`, `builtin/plan/builtin_plan_cache.c`) | `builtin_pcache`, `op_head` and `op_cnt` of each plan | find, update, evict, reuse | a handle fits the call; the count is exact; nothing in use is freed |
| Algorithm selection (`builtin_algo_*.c`, `builtin.c`) | configuration, the switches of the algorithm | decision tables, checks and fallbacks, `ucg_builtin_set_algo` | all members decide alike, the fallbacks end, the algorithm fits the request |
| Topology information (`builtin_topo.c`, `builtin_topo_info.c`) | tables built once | lists of members, leaders, sub-roots | what a member derives for itself agrees with what the others derive |
| Planner framework, set-up (`base/ucg_plan.c`, rest of `ucg_group.c`) | component lists, connections | load, connect, query | |

How they interact: the group calls the planner's `trigger`; the step engine sends
active messages and fills a slot; the message handler looks a slot up by the
8-bit `coll_id` of the header and calls the slot's receive callback, which may
complete the step and execute the next one, which looks through the stored
messages, which calls callbacks again. When a zero-length collective ends, the
engine calls back into the group (`ucg_collective_release_barrier`), which
triggers the waiting collectives from inside. The group also owns the lists an
operation is on: `op_head` of its plan, or `pending`.

What is hard, and where the hazards of PROJECT.json come from: recursion through
callbacks, with state read before and used after the call; members running ahead
of each other by steps and whole collectives, told apart by 8-bit counters; a
send refused in the middle of a step; zero-copy completions racing messages for
the same buffer; state of the steps reused by the next collective; operations
discarded while they run or wait. The other half of the difficulty is without
messages: every member chooses an algorithm and computes its plan alone, from
figures of its own node and socket, and nothing compares the plans before they run.

## 2. The modules

| Module | Models | Extends / instantiates |
|---|---|---|
| `BarrierGate` | abstract: what the group promises about starting (the comment at `ucg_group.h:70`) | |
| `UcgGroup` | the barrier gate, pending queue, ids, slots, destruction of one process's group | `BarrierGate` (refinement) |
| `MCGroup` | the symmetry of collectives of one kind, for TLC | `UcgGroup` |
| `UcgGroupProofs` | theorems about the group, for any caller and for a careful one | `UcgGroup`, `Remainders` |
| `Collective` | abstract: nobody leaves a collective before those whose data it needs have entered; in the end all leave | |
| `Steps` | what a step is and what its method says | |
| `StepEngine` | the builtin planner at several members, with the network | `Steps`, `Collective` (refinement) |
| `Plans` | recursive doubling, the ring, and what a phase of a tree becomes as a step, as operators on the size of the group and the member | `Steps` |
| `Topology` | where the members run, and what the planner derives from it | |
| `Selection` | choice of the algorithm, checks with fallbacks, switches | `Topology` |
| `TopoTrees` | trees inside nodes and sockets and between them | `Plans`, `Topology` |
| `BinaryBlock` | Rabenseifner's allreduce over binary blocks | `Plans`, `Topology` |
| `Fragments` | thresholds of a transport, and the numbers of messages sender and receiver compute from them | |
| `PlanRun` | one collective from the call to the result: choose, set switches, build, carry out | `Selection`, `TopoTrees`, `BinaryBlock`, `Fragments` |
| `MCPlans` | placements and requests for `PlanRun`, for TLC | `PlanRun` |
| `MCEngine` | the engine with the plans of the builders, for TLC; evaluates `DataFlow` on plans of the builders | `StepEngine`, `TopoTrees`, `DataFlow` |
| `PlanCache` | creation, reuse, eviction and destruction of plans and operations | |
| `PlanCacheProofs` | theorems about the cache | `PlanCache`, `TLAPS` |
| `StepEngineProofs` | theorems about the engine for orderly plans, and that recursive doubling and the ring have them | `StepEngine`, `Plans`, `Remainders` |
| `PlanRunProofs` | theorems about the choice of an algorithm | `PlanRun`, `TLAPS` |
| `DataFlow` | what it means that the steps of all members fit together: told from the plans alone | `Steps` |
| `PlansProofs` | theorems about the ring and recursive doubling, for groups of every size | `Plans`, `DataFlow`, `Remainders` |
| `EngineFlowProofs` | theorems about the engine with plans whose data flow fits, and with these two algorithms | `StepEngineProofs`, `PlansProofs` |
| `FragmentProofs` | theorems about fragments, and about the fragments of the ring | `PlansProofs`, `Fragments` |
| `Remainders` | facts about `%` that the proofs share | `TLAPS` |

In every module an operator that is used nowhere and stands just above the one
modelling the code (`SlotAfterWithoutId` above `SlotAfter`) is a plausible mistake
in that code. PROJECT.json pairs it with the property that must then fail.

### UcgGroup

One process. The do-while loop of `ucg_collective_release_barrier` is unrolled:
`frames` counts its activations on the call stack, since a barrier that completes
at once inside the loop starts the loop again, nested. Every other call is one
action. What happens between members is abstracted to the outcome a trigger, a
message or a resend can have (`Outcomes`): complete at once, waiting with the
callback set, refused by the transport with the callback set or `NULL`, failed,
or slot busy. `run_id` and the values "idle" to "error" of `status` are the only
state that is not in the code: they say which collective a slot's messages are
really for, and where a collective stands from the caller's point of view.

`Careful` describes the caller: with `TRUE` it does not start a collective whose
slot, or that of one waiting before it, is in use (16 in the code, `Slots` here),
and does not destroy a busy group. The library does not enforce either. No caller of the model starts
a collective again that has not ended. `MayFail`
admits errors that are final.

### StepEngine

Several members. `slot[r][s]` joins what the code keeps in a slot, its request
and the steps of the operation in it; each slot keeps its operation from one use
to the next, so iterators, counts and flags of the steps survive as they do in
a reused operation. `pc` says which member is inside which activation:
`execute` (`ucg_builtin_step_execute`), `scan` (`ucg_builtin_msg_process`); `then`
is the message whose handler called the scan, and `depth` the nesting that
`max_msg_list_size` limits.

Entries into the library run one at a time across members. This loses nothing:
an entry touches only its own member's state and *adds* messages to the network,
so any step another member takes meanwhile can be moved behind it. The network is
a set from which any message may be taken next, hence arbitrary reordering; the
transport below is reliable, so nothing is lost or duplicated.

Data is the bag of contributions `<<member, collective>>` a fragment of the buffer
holds. Sending copies it, reducing adds, receiving replaces. A lost, doubled or
foreign contribution is visible in the bag.

A member whose transport may be short of resources (`MayBlock`) may have any send
refused after any number of messages of the step. Zero-copy sends are completed
later, in any order (`zcomps`).

### Topology and Selection

A placement stands for what the caller of `ucg_group_create` hands in: the node of
each member, the distances, and the record of figures (`topo_args`). `Topology`
derives the lists the planner keeps.
`Selection` has the three tables (barrier, broadcast, allreduce), the algorithm a
configuration may name, the list of checks of each algorithm, and one round of
the fallback loop as `FallBack`: the first check that fails decides. Two checks
(`naware_raben`, `saware_raben`) look at the member's own node and socket.

### Plans, TopoTrees and BinaryBlock

Plans are computed as the builders do: distances, doubled after each step (`StepSize`), and pairs for recursive
doubling (with the extra members of other sizes), the ring, the k-nomial tree
with its parent and children computed by different functions, the tree of each
node or socket followed by one between the leaders, the halving and doubling
inside binary blocks with the hand-over from one block to the next. Sequences keep
the order of the endpoints, on which waypoints depend (children first in the
fan-in, parent first in the fan-out). A step has the pieces of the buffer it
covers; a buffer that is cut has as many elements as the request, so blocks of unequal and of
zero size occur.

`MCEngine` writes the two trees it needs from the tree over all members; the
assumption `TreesAreBuilt`, which TLC evaluates, says that `TopoTrees` builds the same.

### PlanRun

`Choose` is one round of the fallback loop at every member, `SetAlgo` the end of
the loop with `ucg_builtin_set_algo` and `ucg_builtin_choose_type`, `Build` the
builders, `Advance` the run of the plans. A job holds only what the builders
look at, so that requests which ask for the same are explored once.

Members advance in rounds: all that can go on do so together. This loses nothing
for the question asked here. A step waits for a number of messages under one index, and
what it takes is determined by the plans; taking it earlier or later does not
change what is sent. (How a member gets through a step in the presence
of overtaking, refusals and stored messages is the subject of `StepEngine`.)
The one place where the order within a step matters is a reduction that does not
commute; messages of a step are then combined in the order `Combine` gives, and
`OrderKept` is checked for the algorithms that the checks leave to such requests.

Data is a sequence of members for every element, in the order in which their
contributions were reduced. A block of size zero is an empty message in the code,
which the run leaves out at both ends. With `Consistency` (`REDUCE_CONSISTENCY`) the first step of a tree
keeps the data of its children apart in slots; `Garbage` stands for memory that nobody wrote. The
order of the slots depends on the degree for every tree, the shape only for k-nomial ones (`JobOf`).

How many messages a step's data is cut into is a question of its own
(`Fragments`): no message tells the number. `MessagesSent` and `MessagesAwaited` compute it for the
transports `Near` (inside a node) and `Far`, from the thresholds of the endpoint that a phase connects
last, to send, and first, to receive. `step_create` notes that it assumes "all the
UCT endpoints have the same interface"; that the plans bear this out, and that the ring, where it
does not hold, takes the right thresholds, is `FragmentsFit`.

### PlanCache

One process, one thread. An operation is live or discarded, on `op_head` or
`pending`. `Careful` again describes a caller that never creates a collective
while the operation the creation would reuse or throw away is in use.

The loop that releases a barrier is unrolled as in `UcgGroup`: `Complete` ends a barrier and
sets `releasing`, each `Release` is one round, and nothing else happens in between. There is no
counter of activations, since here a barrier never completes inside its own start.
`Excess` says how many operations the `while` of `ucg_collective_create` discards.

## 3. What is checked

| Run | Question | Result |
|---|---|---|
| `group_gate` | with a careful caller and no failures, is the flag exact, does each running collective keep its slot and id, does nothing start under a barrier, does all that waits have a barrier or the release loop to start it, and does the group implement `BarrierGate`, with its liveness? | holds (safety also proved) |
| `group_any` | with a caller that overruns slots and destroys a busy group, and with failures: are the queue and the assertion in the release loop right? | holds (also proved) |
| `group_stranded` | are all that wait started after the barrier? | **no** |
| `group_zerolen` | does nothing start under a barrier when zero-length collectives are around that are no barriers? | **no** |
| `group_told` | is a collective complete when the start said so? | **no** |
| `plans` | on some seventy placements, for every algorithm a configuration can name and every level of the tables: do all members choose alike, does the choice end, do the plans fit, also in the numbers of messages; do they end, deliver every contribution once, and in order where it matters? | holds |
| `plans_consistent` | the same for data, with `REDUCE_CONSISTENCY` | **no** |
| `engine_recursive` | zero-copy recursive doubling, three members, three collectives through one slot: data, reuse of steps, buffers, refinement and progress | holds (safety also proved) |
| `engine_tree` | fan-in/fan-out of four members, two fragments, buffered sends, refused sends: data, refinement, is nobody left waiting? | holds |
| `engine_hang` | broadcast with a waypoint that has two children, zero-copy, refused sends | **a member never leaves** |
| `cache` | careful caller: count, lists and handles; is there always an operation to discard? | holds (also proved) |
| `cache_replaced` | any caller: is what runs kept? | **no** |

### Bounds, and why they are enough

* `UcgGroup`: two barriers and another collective in `group_gate`, three barriers and a
  zero-length collective in `group_any`; two or three slots; ids that wrap after 4 or 6
  collectives. Two barriers are needed for one to wait behind the other; three barriers and
  one more make the release loop nest with something left in the queue; ids wrap several times since operations are
  started again and again. `group_gate` has two collectives outstanding: with
  three the gate is *not* implemented, which is the finding of `group_stranded`. Two is therefore
  a condition of the theorem as well, and `GateButForOvertaking` says what is left without it.
* `StepEngine`: three members are the least with a pre- and a post-step in
  recursive doubling; four the least with
  a waypoint in a binomial tree; six with degree 3 the least with a waypoint that has
  two children. One slot and two ids make every collective meet the stored
  messages and the steps of the one before. Two fragments make a step that
  can be refused in the middle. `MaxMsgList = 1` makes the nesting limit bite.
  Sends of every member may be refused in the recursive run, those of a waypoint and
  of a leaf in the tree run. Larger instances satisfy the same properties: recursive doubling with
  two collectives outstanding in two slots (68,281 states; safety also with three collectives), and
  the tree with every member refused (374,774 states) or with zero-copy sends (38,740 states).
* `PlanRun`: up to 12 members in blocks over nodes and sockets, and placements of
  14 (on one node), 15 (five nodes) and 24 (two nodes of two sockets). These cover powers of two, odd and even
  others, binary blocks of one, two and three bits, trees of four levels, nodes and
  sockets of different sizes, members dealt in turn (not contiguous), and unbound processes.
  No node has more than two sockets: the constant `SPN` of the code is 2, and with four
  sockets the data of a k-nomial tree is *not* exact (a hazard in PROJECT.json). Roots of a
  broadcast are 0, n/2 and n-1; degrees of the k-nomial trees between and inside the nodes
  8 and 2 (the defaults) and 2 and 3. A buffer that is cut has up to 13 elements: fewer
  than members, as many, and more. One size stands for each level of the tables. Elements of
  0 to 41,000 bytes and two transports with different limits make a step's data one short message, several, one
  copied message, several, and one or several without a copy.
* `PlanCache`: two operations for each plan, roots that share a position
  (`Roots = {0, 2}`, `RootNums = 2`), three buffers (one more than fits). An instance
  with three operations, four buffers and three active (1.5 million states) holds as well.
  `MaxActive <= MaxOps` stands for 16 slots against a larger
  `UCG_GROUP_MAX_OPS_IN_PLAN`.

`CHECK_DEADLOCK FALSE` is given everywhere: a caller need not start anything, a
destroyed group, a finished run of `Runs` collectives and a finished plan do stop.
Getting stuck is what `NobodyStuck`, `Completes` and the liveness properties are about.
Symmetry is used in `group_any` alone, which checks invariants of collectives that are alike;
elsewhere members have different plans, or the properties are about liveness.

### Fairness

* `UcgGroup`: the release loop goes on (it is a function that runs); the caller
  progresses the worker, so a resend is tried until it goes out (weak) and the
  messages of a collective arrive (strong: another resend may come between, but a
  collective has finitely many steps). Nothing obliges the caller to start a collective.
* `StepEngine`: inner activations run on (weak). All members call all
  collectives; deliveries, starts and completions are taken together and strongly,
  since they wait for an entry that runs (each can happen only finitely often, so
  one constraint suffices). A transport that refuses does not do so for ever:
  strong fairness for the resend and for an execution whose sends all go out.
* `PlanRun`: the run goes on. The condition under which `Next` is enabled is written out
  (`CanGoOn`), so that TLC need not compute the successors again for every state.

The last of these are assumptions about UCX, not about this repository.

### Reading the properties

`ImplementsGate` and `ImplementsCollective` are the summaries: any sequence of
states of the model is one of the abstract specification. `BarrierFlagExact` and
`NoStartDuringBarrier` explain the first from inside, `QueueServed` adds what its liveness rests on; `ResultExact` (data),
`ZcopyBufferKept` (buffers lent to the transport), `StepsRewound` (the next use of an
operation) and `NobodyStuck`/`EverybodyLeaves` (progress) the second.
`NobodyStuck` is the safety form of progress: when nothing can wake a member, nobody waits.

In `PlanRun`, `MembersAgree` is about the choice, `PlansFit` compares the plans before
they run (what comes to a member under an index is what it waits for, and
steps share an index only if they may be confused without harm), `FragmentsFit` compares what two
members compute for one transfer, `DataExact` and `OrderKept` look at
the results, and `Completes` says that the choice ends, the plans run to their ends and no message is left.

What a run that holds cannot show, because its instance leaves it out:

* In `group_gate` barriers are the only zero-length collectives. That another one clears the flag
  is seen by `group_zerolen` alone.
* `RunningOwnsSlot` is about a caller inside the window of slots. Without one it is violated at once: a
  start that is refused as one too many has already changed the slot's id (`builtin_ops.c:1180`),
  and a slot on the resend list may look free (line 1181).
* `cache` is about a caller that lets go of an operation before it is discarded. Operations discarded in
  progress, at the limit or with a replaced plan, are against `ActiveAlive` in `cache_replaced`.
* `StepEngine` counts the nesting of `ucg_builtin_msg_process` for one slot. In the code the counters are static
  (`builtin_ops.c:986`), so the end of one collective that starts another inside a scan uses up the limit of both. No
  property here would notice.
* `FragmentsFit` has one transport for both ends of a connection, and `DataExact` at most two
  sockets in a node; the positions of a consistent reduction are only in `plans_consistent`.

## 4. Findings

1. **Collectives stranded behind a barrier** (`ucg_group.c:525`,
   `group_stranded`). The release loop stops at the first collective that is in
   progress rather than complete; those behind it stay queued with no
   barrier outstanding. Later starts overtake them, and destruction waits for ever.
2. **The end of any zero-length collective opens the gate** (`builtin_ops.c:775`,
   `builtin_cb.inl:672`, `group_zerolen`): the release is called for any
   last step without data.
3. **A waiting collective is reported complete** (`ucg_group.c:564`, `group_told`):
   the non-blocking start returns its still empty request, which is `UCS_OK`.
4. **A refused zero-copy send of one fragment is counted anew** (`builtin_ops.c:405`,
   `engine_hang`): only the many-fragment send sets `resend_flag`. A step with
   several endpoints whose first send completed before the second is retried
   waits for one completion too many.
5. **Replacing a plan frees operations in use** (`builtin_plan_cache.c:98`,
   `cache_replaced`): two alltoallv in progress at once are enough, since
   alltoallv never finds its plan again.
6. **Consistent reduction loses data between nodes** (`builtin_ops.c:1865`,
   `plans_consistent`): with `REDUCE_CONSISTENCY` every sender of a tree names its place
   among the children of its *inner* tree. Leaders of nodes have no inner parent
   and all name place 0, so the root keeps one of them and reduces memory nobody wrote.
   The same run would go on to a second cause: a binomial tree takes the order of children from a
   k-nomial one of degree `DEGREE_INTRA_FANIN` (`builtin_binomial_tree.c:1350`). On one node of two to
   nine members the data is exact with the default 2; with 3, five members are enough to lose some.

## 5. What is proved

`UcgGroupProofs`, for every set of operations, barriers and zero-length
collectives, every number of slots and ids, a careful caller or not, with or without failures
(assumption: `GroupAssumption`, the types of the constants):

* `TypeCorrect`: `Spec => []TypeOK`. Inductive as it stands; the lemmas `TriggerTypes`,
  `EndedTypes`, `ReleaseTypes` and `IdRange` say once what the shared parts of the
  actions preserve. `SlotsDivideIds` is not needed.
* `GateOpenAlways`: the assertion of `ucg_collective_trigger` holds in the release
  loop. Also inductive as it stands: every way to enter or stay in the loop
  (`FramesAfter`, `ReleaseBarrier`) tests the queue and the flag, which is what the nested
  activations rely on when they return.
* `QueueAgrees`: `pending` holds exactly the waiting collectives, each once. Inductive
  together with `TypeOK` (the queue must be a sequence for the facts about `Append` and `Tail`):
  `TriggerSettles` says the trigger never leaves the collective waiting, `EndedKeepsWaits` that
  the completion of a slot's request, whatever operation is in it, touches none that waits.

Also in `UcgGroupProofs`, under `Orderly`: a caller that keeps within the window of slots
(`Careful`), no final failures, and barriers as the only collectives without data. Each of
the three is needed: without it one of the findings or hazards above is a
counterexample. Any number of collectives, slots and ids, as long as `SlotsDivideIds`.

* `FlagExact`: the flag is set exactly while a barrier is in progress, and there is one at most.
* `SlotKept`: a collective in progress keeps a slot under the id its peers use.
* `GateKept`: no collective enters a slot while a barrier is in progress.

  None of these is inductive. The invariant is `SlotsAgree` (a slot in use
  holds a collective in progress under its own id; no collective is in two slots; each
  in progress is in one; the flag is exact) and `WindowFree` (the slots of the next ids, as many
  as collectives wait, are free). `WindowFree` is what the
  release loop relies on: it starts collectives long after the caller looked at the
  window. It is preserved because the slots of nearby ids differ, also where the id wraps (`WindowApart`,
  from `SlotsDivideIds` and `Remainders`).

  The refinement is proved step by step (`GateStep`), for any number of collectives in progress:

* `GateButForOvertaking`: a group starts as the gate does, and every step is a step of the gate, or a stutter,
  or `Overtakes`: a start while others wait with no barrier in progress. So the
  finding of `group_stranded` is the only way in which the order of starting differs from the promise.

Under `TwoAtMost` (`Orderly`, and two collectives outstanding at most, the largest number for which it is true):

* `NothingStranded`: `Spec => []QueueServed`. Inductive together with `RoomForOne` (one collective
  waits at most), which needs the number of outstanding collectives to be counted exactly
  (`OutstandingGrows`, `OutstandingShrinks`): whoever waits is not alone, the other one is the barrier.
* `GateImplemented`: `Spec => Gate!Safety`, the safety part of the property `ImplementsGate`;
  `QueueServed` is what excludes `Overtakes`.

`PlanCacheProofs`, for every number of plans and operations, every size of a plan, all roots, buffers and
positions, under `Careful`; that a caller without care sees operations freed in use is the run `cache_replaced`:

* `CountsStayExact`: `Spec => []CountExact`.
* `AlwaysRoomInPlan`: `Spec => []RoomCanBeMade`. The limit on operations of a plan alone does not give it:
  all of them could be on the queue. `QueueShort` does. Where the flag is set there runs a
  barrier that is not on the queue, so an operation may join it only if fewer wait than may be
  active, and `MaxActive <= MaxOps` (16 slots against 200 operations).
* `HandleAlwaysFits`: `Spec => []HandleFits`.

  They share one invariant, `CacheInv`: each position has a plan of its own (`PlansCached`), a live operation belongs
  to the plan in its position (`OpsFit`), it is on one of the two lists and once (`ListsExact`), the
  count is the sum of both (`CountsBoth`), `QueueShort`, and the handle is for an idle operation
  (`HandleFree`, kept because creation and start alternate). TLC checks `CacheInv` on the instance of `cache`.
  The lemmas on lists (`AppendSet`, `ConsSet`, `RemoveSet`, `CutSet`, `DistinctCount`) say what each
  operation on them does to the set of what is listed, and that distinct elements are counted by the length.

`StepEngineProofs`, for every plan that is orderly (`OrderlyPlan`), any number of members, collectives, slots, ids and
fragments, any order of messages, completions and resends, any depth of nested scans:

* `EngineTypes`: `Spec => []TypeOK`. What it says beyond types is that no counter goes below zero.
* `StepsAreRewound`: `Spec => []StepsRewound`, the assertions at the start of an operation.
* `BuffersUntouched`: `Spec => ZcopyBufferKept`, an action property.
* `OrderlyAlgorithms`: recursive doubling (powers of two and other numbers of members) and the ring
  are orderly, for every size of the group. Hence the three theorems hold of them, with copies and without.

  None of the three is inductive. The invariant is `EngineInv`: a slot its member is not inside of is `Done`, `Waiting`
  (callback set, `pending > 0`) or `Refused` (sends left, on the resend list); at `execute` it is `Fresh`, `Second`
  (the other half of a waypoint) or `Refused`; at `scan` it is `Scanning`. Each of these says how `pending`,
  the iterator, the count of stored messages, the flag of a resend and the completions still out belong together.
  A step without copies counts messages and completions with one number, so what is needed is
  `pending >= RecvCount + zcomps` as long as its messages are stored and not processed (`AwaitsMessages`): the
  number reaches what the messages alone are owed exactly when the last completion is in.
  The lemmas follow the code: one for each function that several entries call (`CompleteStepKeeps`, `FinishSendKeeps`,
  `CallbackKeeps`, ...), each for a single slot's record, and one for each action. TLC checked `EngineInv`
  before the proof: on recursive doubling of three members, on reductions and broadcasts over trees, with one fragment
  and several, with sends refused.

  A plan is orderly if a member that collects before it sends on (`REDUCE_WAYPOINT`) sends with a
  copy and is not refused, and if a step that only sends without a copy gets no message under its index, and
  expects as many completions as it sends. Outside of this a step has its callback set while it sends, and
  a message more than it waits for would be given to it. That there is none follows from counting the messages
  of all members, which this invariant does not do (`FlowInv`, below, does, but rests on it). It concerns the waypoints of a reduction
  whose sends are refused or done without a copy, and broadcasts with a phase for each child done
  without a copy, where all steps have index 0. The properties of the first with refused sends are checked by TLC (`engine_tree`).

`PlanRunProofs`, for every set of placements (two members or more), requests and degrees:

* `AllChooseAlike`: `Spec => []MembersAgree`. What must be shown is that the checks a
  member does with figures of its own fail at all or at none: if the numbers of members of the
  nodes differ, all see that; if they do not, the member's own number is everybody's
  (`UnevenAlike`, from a lemma on finite sets, `OneValue`).
* `ChoiceEnds`: a fallback always has a lower number, and an algorithm that does
  not fall back is one that is registered here. The loop over the checks therefore ends, with an
  algorithm there is; that it does so in every run (`Completes`) is model-checked.

`PlansProofs`, for every number of members, of elements and of fragments:

* `RingStepsFit`: in each step of a ring the left neighbour sends to me, under my index, as many
  pieces as I wait for, and what comes in is what I send on in the next step.
* `RingTiles`: the blocks are a partition of the buffer.
* `RingDataFits`: the data flow of a ring fits (see below), up to the 129 members whose step
  indexes are distinct in the 8 bits of a header. Of a block, a member holds in the first round what the
  members between the block's own and itself have added (`Passed`), in the second everybody's.
* `RecursiveDataFits`: the data flow of recursive doubling fits, for every size of the group,
  power of two or not. Steps meet in pairs (`InPairs`); what a member has at step `i` is what
  the members of its block of `2^(i-1)` indexes have (`HalvesJoin`); members beyond the power of two
  hand in before and get back after. Facts about `StepSize` need induction; it is done on sets of
  numbers, by their least element (`LeastOf`), since a rule with an operator as its parameter cannot be used.
* `RingTurns` and `RecursiveTurns`: the steps of neither wait for each other in a circle.

`EngineFlowProofs` joins both: the engine, with any plan whose data flow fits, for any number of members,
collectives and slots, with and without copies, any order of messages, completions and resends, any refused sends.
The hypotheses (`FlowFits`) speak of the plan, not of the engine:

* `CountsFit`: for each step come as many messages as it waits for. `IdsFit`: the ids of a header tell
  the step and the message. `LabelsFit`: following the steps, each buffer starts with its
  member's data and ends with all of it; what a step adds is disjoint from what was there, so nothing is counted twice.
* `OrderlyPlan`, from above; everybody's data goes to everybody (`Contributors = Ranks`), so nobody
  can get a round of slots ahead of a member that has not called yet; and `IdSpace >= 2 * Slots`
  (256 against 16): an id is free when it comes back.

What is proved under them:

* `ResultsAreExact`: `Spec => []ResultExact`.
* `CollectiveImplemented`: `Spec => ImplementsCollective`, each step enters a collective, leaves
  one or neither, and nobody leaves before all have entered.
* `NobodyIsStuck`: `Spec => []NobodyStuck`, under two more hypotheses. `TurnsFit`: the steps have turns, and what comes
  for a step is held up by steps of earlier turns only. `SendsCounted`: where a zero-copy send may be refused, the
  step has several fragments (then the code sets `resend_flag`) or a single send; without it the run
  `engine_hang` is a counterexample.
* `RingExact`, `RingNeverStuck`, `RecursiveExact`, `RecursiveNeverStuck`: all of this for allreduce by a ring and
  allreduce and barrier by recursive doubling, in groups of every size. The plans are those of the builders, with no hypothesis left but the
  widths of the ids; that a ring's blocks are not empty (`count >= n`) is in `EngineAssumption`.

  The invariant is `EngineInv` with `FlowInv`. A *post* is a message a plan sends: sender, step, position. Every message is that
  of a post that is sent (`GenuineInv`) and is in one place (`OnceInv`). `Missing` is what has not come for a step: not sent,
  or sent and not given to it. `ProgressInv` ties the three counts of a step to it: a step counts at least what
  is missing (`Counts`), and, if its sends are counted well, no more than what is missing and not completed (`Balanced`);
  the buffer holds what the labels say less what is missing (`Holds`). `RunsInv` says which collective a slot holds, `KnownInv` that
  data is that of members who called, and `LeftInv` that who is through knows that all have: it keeps the
  members within one round of slots, which is why the ids suffice.

  `NobodyIsStuck` needs `SortedInv` as well (in `StepEngineProofs`, for orderly plans): a step that waits for messages leaves none
  of them stored, except those a zero-copy step counts until its sends are complete, and their count is
  less than what is pending. So whoever is stuck misses a message that was not sent (`StuckWaits`); its sender is stuck in a step
  that comes before (`WhoBlocks`); and of those who are stuck one has the least turn (`NobodyBusy`).

  That the hypotheses can be met for other plans is evaluated by TLC: `MCEngine` assumes `DataFits` for recursive
  doubling, rings and trees of small groups, on one node and on several. What they exclude: broadcast (not everybody's data goes to
  everybody, so a root may run rounds ahead), and steps that `OrderlyPlan` excludes.

`FragmentProofs`, for every transport (`IsTransport`: a message has room for something behind the
header, which the code asserts), every length and size of element:

* `FragmentsAlike`: on one transport the receiver computes the number of fragments the sender computes.
* `FragmentsCover`: they hold all of the data, and none is superfluous.
* `RingFragmentsFit`: in a ring of any size, with any transports between neighbours, each member waits
  for as many messages as its left neighbour sends. It joins `FragmentsAlike` and `RingStepsFit`.
* `ShortLimit`: two ends that see short messages of different sizes agree, if both are above
  `SHORT_MAX_TX_SIZE`: the reason for the value of that option (`builtin.c:105`).

Only model-checked: everything temporal beyond `[]` (fairness and `ENABLED` are
beyond the prover), so that everybody leaves in the end (`EverybodyLeaves`, of which `NobodyStuck` is the safety form), the liveness
of the gate and `Completes`; the trees and binary blocks, and recursive doubling inside them, hence `PlansFit`,
`FragmentsFit`, `DataExact` and `OrderKept` of `PlanRun`, which speak of all algorithms on all placements at once. The trees are
cut by powers of the degree, and TLC's `^` has no facts the provers know.

## 6. Not modelled, and why

* Pipelined waypoints: every algorithm switches them off (`builtin.c:678`), and nothing switches
  them on.
* Steps of variable length (dynamic receives), scatter/gather and Bruck steps, segmented and non-contiguous receive callbacks.
  In `StepEngine` the number of fragments is a parameter, the same for both sides.
* Arithmetic on byte offsets in the callbacks of binary blocks, and the memory a
  plan is given: blocks are sets of elements. PROJECT.json lists what can go wrong there.
* General factors of the recursive builder, and trees of `builtin_trees.c` and
  `builtin_topo_aware.c` that no algorithm of the tables reaches.
* Selection for alltoallv, and the checks for in-network computing and `MPI_IN_PLACE`:
  they guard algorithms of planners outside this repository.
* Two uses of one operation at the same time (creation returns it while it runs);
  growth of the slot array, release of stored messages and reuse of a group id on
  destruction.
* Configuration, loading of planners, creation and connection
  of groups, memory registration: set-up without protocol state.
* In-network computing, node-aware and LADD/Plummer/throttled-scatter alltoallv: their
  planners are not in this repository, or they are data movement.

## 7. Plan

Done, in this order: the gate (`UcgGroup`, `BarrierGate`), the
engine (`Collective`, `Steps`, `StepEngine`), the cache, the builders with topology, selection
and binary blocks (`PlanRun` and the modules below it), fragments, the proofs of section 5.

Next, modelling:

1. Variable-length steps in `StepEngine`.
2. `GroupTable`: the slot array, messages for a group not created yet, destruction and reuse of ids.

Then, proofs: that the data flow of the trees fits, with powers as a recursive function as in recursive doubling; the waypoints
`OrderlyPlan` leaves out, by an invariant that joins `EngineInv` and `FlowInv`; broadcast, where `LeftInv` must be replaced.

## 8. Running

    tlc -workers 2 -config UcgGroup_gate.cfg UcgGroup
    tlc -workers 2 -config MCEngine_tree.cfg MCEngine
    tlc -workers 2 -config MCPlans_plans.cfg MCPlans
    tlapm UcgGroupProofs.tla
    tlapm PlanCacheProofs.tla
    tlapm PlanRunProofs.tla
    tlapm StepEngineProofs.tla
    tlapm PlansProofs.tla
    tlapm FragmentProofs.tla
    tlapm EngineFlowProofs.tla

PROJECT.json lists every run with its module and configuration, and maps every
definition to the lines it models.
