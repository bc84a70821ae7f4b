------------------------------ MODULE Topology ------------------------------
(***************************************************************************)
(* Where the members of a group run, and what the planner derives from it  *)
(* (src/builtin/plan/builtin_topo_info.c, builtin_topo.c).  The caller of  *)
(* the group hands in the node of each member, the distance between any two*)
(* and a record of figures about them (topo_args): a placement stands for  *)
(* all three.  Nodes are numbered in the order of their first members.     *)
(***************************************************************************)
EXTENDS Integers, Sequences, SequencesExt

MembersOf(p) == DOMAIN p.node
CountOf(p) == Cardinality(MembersOf(p))

\* The members of a set, ascending.
Ascending(p, S) == SelectSeq([i \in 1 .. CountOf(p) |-> i - 1], LAMBDA m : m \in S)

-----------------------------------------------------------------------------
(***************************************************************************)
(* Placements: one block of members after another on each socket; members  *)
(* dealt to the nodes, or to the sockets of a node, in turn; and nodes or  *)
(* sockets with numbers of members of their own.                           *)
(***************************************************************************)
Blocks(nodes, sockets, pps) ==
  LET all == 0 .. nodes * sockets * pps - 1
  IN  [node |-> [m \in all |-> m \div (sockets * pps)],
       socket |-> [m \in all |-> m \div pps], bound |-> TRUE]

Unbound(p) == [node |-> p.node, socket |-> p.node, bound |-> FALSE]

DealtToNodes(nodes, ppn) ==
  LET all == 0 .. nodes * ppn - 1
  IN  [node |-> [m \in all |-> m % nodes], socket |-> [m \in all |-> m % nodes],
       bound |-> TRUE]

DealtToSockets(nodes, pps) ==
  LET all == 0 .. nodes * 2 * pps - 1
  IN  [node |-> [m \in all |-> m \div (2 * pps)],
       socket |-> [m \in all |-> 2 * (m \div (2 * pps)) + (m % 2)], bound |-> TRUE]

\* Member m is in the unit in which the sum of the sizes passes m.
UnitOf(sizes, m) ==
  CHOOSE u \in 0 .. Len(sizes) - 1 :
    /\ FoldLeft(+, 0, SubSeq(sizes, 1, u)) <= m
    /\ m < FoldLeft(+, 0, SubSeq(sizes, 1, u + 1))

UnevenNodes(sizes) ==
  LET f == [m \in 0 .. FoldLeft(+, 0, sizes) - 1 |-> UnitOf(sizes, m)]
  IN  [node |-> f, socket |-> f, bound |-> TRUE]

UnevenSockets(sizes) == [UnevenNodes(sizes) EXCEPT !.node = [m \in DOMAIN @ |-> 0]]

-----------------------------------------------------------------------------
\* Members not farther away than the host, and than the socket
\* (ucg_builtin_get_distance).
NodeMates(p, me) == {m \in MembersOf(p) : p.node[m] = p.node[me]}
SocketMates(p, me) == {m \in NodeMates(p, me) : p.socket[m] = p.socket[me]}

(***************************************************************************)
(* The figures of topo_args.                                               *)
(***************************************************************************)
ppn_local(p, me) == Cardinality(NodeMates(p, me))
pps_local(p, me) == Cardinality(SocketMates(p, me))
ppn_max(p) == Max({ppn_local(p, m) : m \in MembersOf(p)})
ppn_unbalance(p) == Cardinality({ppn_local(p, m) : m \in MembersOf(p)}) > 1
pps_unbalance(p) == Cardinality({pps_local(p, m) : m \in MembersOf(p)}) > 1
Contiguous(S) == \A m \in Min(S) .. Max(S) : m \in S
nrank_uncontinue(p) == \E m \in MembersOf(p) : ~ Contiguous(NodeMates(p, m))
srank_uncontinue(p) == \E m \in MembersOf(p) : ~ Contiguous(SocketMates(p, m))

-----------------------------------------------------------------------------
\* The number of nodes is one more than the largest index of one.
node_cnt(p) == Max({p.node[m] : m \in MembersOf(p)}) + 1

\* One member of each node: the lowest, on the root's node the root.
subroot_array(p, root) ==
  [i \in 1 .. node_cnt(p) |->
     IF p.node[root] = i - 1 THEN root ELSE Min({m \in MembersOf(p) : p.node[m] = i - 1})]

\* The members of my node; on the root's node the root changes places with the
\* first.
rank_same_node(p, root, me) ==
  LET mates == Ascending(p, NodeMates(p, me))
  IN  IF p.node[me] # p.node[root] THEN mates
      ELSE [mates EXCEPT ![CHOOSE i \in DOMAIN mates : mates[i] = root] = mates[1],
                         ![1] = root]

\* The first member of each node, met by one walk over the members.
node_leaders(p) ==
  FoldLeft(LAMBDA found, m : IF p.node[m] > Len(found) - 1 THEN Append(found, m) ELSE found,
           <<0>>, [i \in 1 .. CountOf(p) - 1 |-> i])

\* The members that have my place in each socket of my node, computed as if all
\* sockets were alike.
socket_leaders(p, me) ==
  LET pps == pps_local(p, me)
  IN  [s \in 1 .. ppn_local(p, me) \div pps |->
         (me % pps) + (s - 1) * pps + Min(NodeMates(p, me))]
=============================================================================
