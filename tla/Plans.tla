-------------------------------- MODULE Plans --------------------------------
(***************************************************************************)
(* The plan builders of src/builtin/plan: for a group of n members 0..n-1, *)
(* the steps of member `me'.  A whole buffer is sent as the fragments      *)
(* 0..f-1; a ring cuts it into one block per member.  An operator that is  *)
(* used nowhere is a plausible mistake in the code of the one below it.    *)
(***************************************************************************)
EXTENDS Integers, Sequences, SequencesExt, Steps

\* A step; `swap' says that what it reduces goes behind the member's own data,
\* `slot' is the place in the receiver's reduce buffer the data is sent to.
Step(method, peers, idx, pieces) ==
  [method |-> method, eps |-> peers, pieces |-> pieces, fragments_recv |-> Len(pieces),
   step_idx |-> idx % 256, swap |-> FALSE, slot |-> 0]

Span(start, num) == [i \in 1 .. num |-> start + i - 1]
Whole(f) == Span(0, f)

\* The steps of a plan for members 0..k-1, for those in `list' and from step
\* index `base' on.
Relabel(list, s) == [i \in DOMAIN s |-> list[s[i] + 1]]
On(list, base, steps) ==
  [i \in DOMAIN steps |-> [steps[i] EXCEPT !.eps = Relabel(list, @),
                                           !.step_idx = (@ + base) % 256]]

\* The index of a member in a list.
IndexIn(list, me) == (CHOOSE i \in DOMAIN list : list[i] = me) - 1

\* The distance of a step's peers, doubled after each step.
StepSize[i \in Nat] == IF i = 0 THEN 1 ELSE 2 * StepSize[i - 1]

\* The number of steps to reach n members.
StepCount(n) ==
  CHOOSE c \in 0 .. n : StepSize[c] >= n /\ \A b \in 0 .. c - 1 : StepSize[b] < n
IsPowerOfTwo(n) == n = StepSize[StepCount(n)]

-----------------------------------------------------------------------------
(***************************************************************************)
(* Recursive doubling (ucg_builtin_recursive_connect, factor 2).  Of a     *)
(* number that is no power of two, the even ones among the first 2*extra   *)
(* members hand their data to the odd ones next to them and get the result *)
(* back at the end.                                                        *)
(***************************************************************************)
PeerUnpaired(x, i) ==
  IF x >= StepSize[i] THEN x - StepSize[i] ELSE x + StepSize[i]

\* The peer of index x after i steps: the other one of a pair of halves.
PeerIndex(x, i) ==
  LET base == x - (x % (2 * StepSize[i]))
  IN  base + ((x - base + StepSize[i]) % (2 * StepSize[i]))

NeverSwap(x, i) == FALSE

\* The lower half of a pair keeps its own data in front
\* (ucg_builtin_recursive_check_swap).
IsSwap(x, i) == x % (2 * StepSize[i]) < StepSize[i]

\* The i-th step of index x of a recursive exchange.
Doubling(x, peer, i, idx, pieces) ==
  [Step("REDUCE_RECURSIVE", <<peer>>, idx, pieces) EXCEPT !.swap = IsSwap(x, i - 1)]

RecursivePowTwo(n, me, stride, pieces) ==
  [i \in 1 .. StepCount(n) |->
     Doubling(me, PeerIndex(me, i - 1), i, stride * (i - 1), pieces)]

RecursiveNonPowTwo(n, me, pieces) ==
  LET near   == StepCount(n) - 1
      extra  == n - StepSize[near]
      paired == me < 2 * extra
      odd    == me % 2 = 1
      new    == IF paired THEN me \div 2 ELSE me - extra
      Member(x) == IF x < extra THEN 2 * x + 1 ELSE x + extra
      pre    == IF odd THEN Step("REDUCE_TERMINAL", <<me - 1>>, 0, pieces)
                       ELSE Step("SEND_TERMINAL", <<me + 1>>, 0, pieces)
      post   == IF odd THEN Step("SEND_TERMINAL", <<me - 1>>, 1 + near, pieces)
                       ELSE Step("RECV_TERMINAL", <<me + 1>>, 1 + near, pieces)
      main   == [i \in 1 .. near |->
                   Doubling(new, Member(PeerIndex(new, i - 1)), i, i, pieces)]
  IN  IF ~ paired THEN main ELSE IF odd THEN <<pre>> \o main \o <<post>> ELSE <<pre, post>>

Recursive(n, me, pieces) ==
  IF IsPowerOfTwo(n) THEN RecursivePowTwo(n, me, 2, pieces)
                     ELSE RecursiveNonPowTwo(n, me, pieces)

\* The variant a binary-block plan uses numbers its steps without gaps
\* (ucg_builtin_recursive_binary_build).
BinaryRecursive(n, me, pieces) ==
  IF IsPowerOfTwo(n) THEN RecursivePowTwo(n, me, 1, pieces)
                     ELSE RecursiveNonPowTwo(n, me, pieces)

\* Step indexes a recursive exchange takes
\* (ucg_builtin_recursive_compute_steps).
RecursiveSteps(n) == IF IsPowerOfTwo(n) THEN StepCount(n) ELSE StepCount(n) + 1

\* A recursive exchange inside of another plan: nothing is swapped.
RecursiveAmong(list, base, me, pieces) ==
  LET steps == On(list, base, Recursive(Len(list), IndexIn(list, me), pieces))
  IN  [i \in DOMAIN steps |-> [steps[i] EXCEPT !.swap = FALSE]]

-----------------------------------------------------------------------------
(***************************************************************************)
(* Ring (ucg_builtin_ring_create, and ucg_builtin_step_create for the      *)
(* blocks): n-1 steps that reduce a block of the buffer's elements each and*)
(* n-1 that pass the finished blocks on.  The message goes to the right,   *)
(* the one received comes from the left.  The header keeps 8 bits of the   *)
(* step's index.                                                           *)
(***************************************************************************)
\* The elements of block b when `count' elements are cut into n blocks.
RingPieces(n, count, b) ==
  LET quotient == count \div n
      rest     == count % n
  IN  Span(b * quotient + Min({b, rest}), quotient + (IF b + 1 <= rest THEN 1 ELSE 0))

OwnBlock(n, me, k) == me

\* The block sent in step k: one further to the left each time.
RingBlock(n, me, k) == (me - (k - 1) + 2 * n) % n

Ring(n, me, count) ==
  [k \in 1 .. 2 * (n - 1) |->
     [Step(IF k - 1 < n - 1 THEN "REDUCE_SCATTER_RING" ELSE "ALLGATHER_RING",
           <<(me + 1) % n>>, k - 1, RingPieces(n, count, RingBlock(n, me, k)))
      EXCEPT !.fragments_recv =
        Len(RingPieces(n, count, (RingBlock(n, me, k) - 1 + n) % n))]]

-----------------------------------------------------------------------------
(***************************************************************************)
(* k-nomial trees (ucg_builtin_kmtree_algo_build_left and _right), and the *)
(* binomial ones (ucg_builtin_bmtree_algo_build) as those of degree 2.     *)
(***************************************************************************)
VRankOfRootZero(n, root, me) == me

\* The root has rank 0.
VRank(n, root, me) == (me - root + n) % n

\* The level at which the search for the parent stops.
TreeLevel(n, root, degree, me) ==
  CHOOSE e \in 0 .. n :
    /\ degree^e >= n \/ VRank(n, root, me) % degree^(e + 1) # 0
    /\ \A d \in 0 .. e - 1 : degree^d < n /\ VRank(n, root, me) % degree^(d + 1) = 0

\* No parent, or one.
Up(n, root, degree, me) ==
  LET e    == TreeLevel(n, root, degree, me)
      span == degree^(e + 1)
  IN  IF degree^e >= n THEN <<>>
      ELSE <<(((VRank(n, root, me) \div span) * span) + root) % n>>

\* The children, the farthest first: degree - 1 of them on each level below.
Down(n, root, degree, me) ==
  LET per    == degree - 1
      e      == TreeLevel(n, root, degree, me)
      all    == [i \in 1 .. e * per |->
                   VRank(n, root, me) + degree^(e - 1 - ((i - 1) \div per)) * (((i - 1) % per) + 1)]
      inside == SelectSeq(all, LAMBDA c : c < n)
  IN  [i \in DOMAIN inside |-> (inside[i] + root) % n]

\* My neighbours in the tree over the members of a list.
TreeOver(list, root, degree, me) ==
  LET x == IndexIn(list, me)
  IN  [up   |-> Relabel(list, Up(Len(list), root, degree, x)),
       down |-> Relabel(list, Down(Len(list), root, degree, x))]

(***************************************************************************)
(* The phase of a member in the way to the root: children before the       *)
(* parent, in the order of the right-most tree; and in the way back: the   *)
(* parent before the children (ucg_builtin_binomial_tree_connect_fanin,    *)
(* ucg_builtin_tree_connect_fanout).  There is none without neighbours.    *)
(***************************************************************************)
FaninMethod(up, down) ==
  IF down = <<>> THEN "SEND_TERMINAL"
  ELSE IF up = <<>> THEN "REDUCE_TERMINAL" ELSE "REDUCE_WAYPOINT"

FanoutMethod(up, down) ==
  IF down = <<>> THEN "RECV_TERMINAL"
  ELSE IF up = <<>> THEN "SEND_TERMINAL" ELSE "BCAST_WAYPOINT"

Fanin(up, down, idx, pieces) ==
  IF up \o down = <<>> THEN <<>>
  ELSE <<Step(FaninMethod(up, down), down \o up, idx, pieces)>>

Fanout(up, down, idx, pieces) ==
  IF up \o down = <<>> THEN <<>>
  ELSE <<Step(FanoutMethod(up, down), up \o down, idx, pieces)>>

\* Broadcast without topology: a phase to receive, then one for each child, all
\* with the same index (ucg_builtin_non_topo_tree_connect_fanout).
FanoutByChild(n, root, me, pieces) ==
  LET up   == Up(n, root, 2, me)
      down == Down(n, root, 2, me)
      recv == IF up = <<>> THEN <<>> ELSE <<Step("RECV_TERMINAL", up, 0, pieces)>>
  IN  recv \o [i \in DOMAIN down |-> Step("SEND_TERMINAL", <<down[i]>>, 0, pieces)]
=============================================================================
