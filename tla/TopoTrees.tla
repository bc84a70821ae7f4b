------------------------------ MODULE TopoTrees ------------------------------
(***************************************************************************)
(* The topology-aware trees (src/builtin/plan/builtin_binomial_tree.c): a  *)
(* tree inside each node or socket, and between the nodes a recursive      *)
(* exchange or one more tree.  As in Plans, an operator used nowhere is a  *)
(* plausible mistake in the code of the one below it.                      *)
(*                                                                         *)
(* A tree request t has the placement, the root, the switches of the       *)
(* algorithm and the degrees of the k-nomial trees between and inside the  *)
(* nodes, the same for both directions.                                    *)
(***************************************************************************)
EXTENDS Plans, Topology

SPN == 2   \* sockets per node

Has(t, switch) == switch \in t.sw.on

-----------------------------------------------------------------------------
(***************************************************************************)
(* The unit a member's inner tree spans (ucg_builtin_topo_tree_build,      *)
(* ucg_builtin_prepare_member_idx).                                        *)
(***************************************************************************)
\* A k-nomial tree that is to follow the sockets follows the nodes if a socket
\* has one member, or a node one socket.
LevelUsed(t, me) ==
  IF /\ t.sw.level = "SOCKET" /\ Has(t, "kmtree")
     /\ pps_local(t.place, me) \in {1, ppn_local(t.place, me)}
  THEN "NODE" ELSE t.sw.level

ppx(t, me) ==
  IF LevelUsed(t, me) = "SOCKET" THEN pps_local(t.place, me) ELSE ppn_local(t.place, me)

\* Trees that work with any numbers and any order of the members on the nodes.
InnerUsesTopoInfo(t, me) == LevelUsed(t, me) = "NODE" /\ ~ Has(t, "kmtree")
OuterUsesTopoInfo(t, me) == InnerUsesTopoInfo(t, me) /\ ~ Has(t, "kmtree_intra")

member_list(t, me) ==
  IF InnerUsesTopoInfo(t, me) THEN rank_same_node(t.place, t.root, me)
  ELSE Ascending(t.place, IF LevelUsed(t, me) = "SOCKET" THEN SocketMates(t.place, me)
                                                         ELSE NodeMates(t.place, me))

\* A neighbour has its own list of children for the way in.
Neighbours(tree) == [up |-> tree.up, down |-> tree.down, down_fanin |-> Reverse(tree.down)]
Nobody == [up |-> <<>>, down |-> <<>>, down_fanin |-> <<>>]

\* The first members of the other sockets become children of the first of the
\* node: last on the way in, first on the way out.
connect_leader(me, unit, ppn, tree) ==
  LET others == [i \in 1 .. (ppn \div unit) - 1 |-> me + i * unit]
  IN  IF me % unit # 0 THEN tree
      ELSE IF me % ppn # 0 THEN [tree EXCEPT !.up = <<(me \div ppn) * ppn>>]
      ELSE [tree EXCEPT !.down = others \o @, !.down_fanin = @ \o others]

UnconnectedLeaders(t, me) ==
  LET degree == IF Has(t, "kmtree_intra") THEN t.degree.intra ELSE 2
  IN  IF ppx(t, me) = 1 THEN Nobody
      ELSE Neighbours(TreeOver(member_list(t, me), t.root % ppx(t, me), degree, me))

\* The inner tree (ucg_builtin_kinomial_tree_build_intra and
\* ucg_builtin_binomial_tree_build_intra).  The root comes first in a list taken
\* from the topology information; in the others its place is computed.
InnerTree(t, me) ==
  LET unit   == ppx(t, me)
      first  == OuterUsesTopoInfo(t, me)
      degree == IF Has(t, "kmtree_intra") THEN t.degree.intra ELSE 2
      tree   == Neighbours(TreeOver(member_list(t, me), IF first THEN 0 ELSE t.root % unit,
                                    degree, me))
  IN  IF unit = 1 THEN Nobody
      ELSE IF /\ LevelUsed(t, me) = "SOCKET"
              /\ Has(t, "kmtree") /\ Has(t, "kmtree_intra")
           THEN connect_leader(me, unit, ppn_local(t.place, me), tree)
      ELSE tree

-----------------------------------------------------------------------------
(***************************************************************************)
(* Between the nodes (ucg_builtin_binomial_tree_add_inter): the members in *)
(* it, one for each unit, their steps and the number of step indexes.      *)
(***************************************************************************)
Alone == [steps |-> <<>>, step_inc |-> 0]

UnitCount(t, unit, me) ==
  IF OuterUsesTopoInfo(t, me) THEN node_cnt(t.place) ELSE CountOf(t.place) \div unit

\* The leaders a recursive exchange runs among.
Leaders(t, unit, me) ==
  IF LevelUsed(t, me) = "NODE" THEN node_leaders(t.place)
  ELSE [i \in 1 .. UnitCount(t, unit, me) |-> (i - 1) * unit]

IsSubroot(t, unit, me) ==
  IF OuterUsesTopoInfo(t, me) THEN me \in ToSet(subroot_array(t.place, t.root))
  ELSE me % unit = 0

\* A recursive exchange takes its indexes after that of the inner way in, which
\* is counted even if there is none.
InterRecursive(t, unit, me, pieces) ==
  [steps |-> IF IsSubroot(t, unit, me)
             THEN RecursiveAmong(Leaders(t, unit, me), 1, me, pieces) ELSE <<>>,
   step_inc |-> RecursiveSteps(UnitCount(t, unit, me))]

\* The members that have the root's place in their unit.
LikesOfRoot(t, unit, me) ==
  [i \in 1 .. UnitCount(t, unit, me) |-> (t.root % unit) + unit * (i - 1)]
IsLikeRoot(t, unit, me) == me % unit = t.root % unit

InterFaninFanout(t, unit, me, pieces) ==
  LET base == IF ppx(t, me) > 1 THEN 1 ELSE 0
      tree == Neighbours(TreeOver(LikesOfRoot(t, unit, me), t.root \div unit,
                                  t.degree.inter, me))
  IN  [steps |-> IF ~ IsLikeRoot(t, unit, me) THEN <<>>
                 ELSE Fanin(tree.up, tree.down_fanin, base, pieces)
                        \o Fanout(tree.up, tree.down, base + 1, pieces),
       step_inc |-> 2]

\* The nodes a k-nomial tree of sockets connects are as large as two of them.
OuterUnit(t, me) ==
  IF Has(t, "kmtree") /\ LevelUsed(t, me) = "SOCKET" THEN SPN * ppx(t, me) ELSE ppx(t, me)

InterAggregate(t, me, pieces) ==
  LET unit == OuterUnit(t, me)
  IN  IF UnitCount(t, unit, me) = 1 THEN Alone
      ELSE IF Has(t, "kmtree") THEN InterFaninFanout(t, unit, me, pieces)
      ELSE InterRecursive(t, unit, me, pieces)

\* A broadcast starts between the nodes.
InterFanout(t, me, pieces) ==
  LET unit   == ppx(t, me)
      topo   == OuterUsesTopoInfo(t, me)
      list   == IF topo THEN subroot_array(t.place, t.root) ELSE LikesOfRoot(t, unit, me)
      root   == IF topo THEN IndexIn(list, t.root) ELSE t.root \div unit
      degree == IF Has(t, "kmtree") THEN t.degree.inter ELSE 2
      tree   == TreeOver(list, root, degree, me)
  IN  IF UnitCount(t, unit, me) = 1 THEN Alone
      ELSE [steps |-> IF me \in ToSet(list) THEN Fanout(tree.up, tree.down, 0, pieces)
                      ELSE <<>>,
            step_inc |-> 1]

-----------------------------------------------------------------------------
(***************************************************************************)
(* The order of the children in the parent's reduce buffer, for results    *)
(* that do not depend on the order of arrival.                             *)
(***************************************************************************)
\* The children of a member, the nearest first
\* (ucg_builtin_kmtree_get_child_ranks).
ChildRanks(size, root, degree, rank) ==
  LET local  == VRank(size, root, rank) % size
      levels == TreeLevel(size, root, degree, rank)
      all    == [i \in 1 .. levels * (degree - 1) |->
                   local + degree^((i - 1) \div (degree - 1)) * (((i - 1) % (degree - 1)) + 1)]
      inside == SelectSeq(all, LAMBDA c : c < size)
  IN  [i \in DOMAIN inside |-> (inside[i] + root) % size]

\* My place among my parent's children, the one after them if I am none of
\* them (ucg_get_tree_buffer_pos); 0 without an inner tree.
up_offset(t, me) ==
  LET up       == InnerTree(t, me).up
      children == Relabel(member_list(t, me), ChildRanks(ppx(t, me), t.root, t.degree.intra, up[1]))
  IN  IF up = <<>> THEN 0
      ELSE IF me \in ToSet(children) THEN IndexIn(children, me) ELSE Len(children)

\* What these methods send goes to that place of the receiver's buffer
\* (ucg_builtin_step_create).
ToSlot(steps, slot) ==
  [i \in DOMAIN steps |->
     IF steps[i].method \in {"SEND_TERMINAL", "REDUCE_WAYPOINT"}
     THEN [steps[i] EXCEPT !.slot = slot] ELSE steps[i]]

-----------------------------------------------------------------------------
\* To the root and back (ucg_builtin_binomial_tree_connect_fanin_fanout).
FaninFanout(t, me, pieces) ==
  LET tree  == InnerTree(t, me)
      inter == InterAggregate(t, me, pieces)
      after == IF ppx(t, me) > 1 THEN 1 + inter.step_inc ELSE inter.step_inc
  IN  Fanin(tree.up, tree.down_fanin, 0, pieces) \o inter.steps
        \o Fanout(tree.up, tree.down, after, pieces)

\* From the root (ucg_builtin_topo_tree_connect_fanout).
TopoFanout(t, me, pieces) ==
  LET tree  == InnerTree(t, me)
      inter == InterFanout(t, me, pieces)
  IN  inter.steps \o Fanout(tree.up, tree.down, inter.step_inc, pieces)

\* From the root, with or without topology (ucg_builtin_binomial_tree_connect).
Broadcast(t, me, pieces) ==
  IF Has(t, "topo") THEN TopoFanout(t, me, pieces)
  ELSE FanoutByChild(CountOf(t.place), t.root, me, pieces)
=============================================================================
