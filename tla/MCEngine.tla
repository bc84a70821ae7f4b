------------------------------ MODULE MCEngine ------------------------------
(***************************************************************************)
(* The engine with the plans of Plans and TopoTrees.  A configuration      *)
(* chooses an algorithm by substituting PlanRecursive, PlanTree or         *)
(* PlanBcast for Plan.                                                     *)
(***************************************************************************)
EXTENDS StepEngine, TopoTrees

CONSTANTS
  Size,     \* members of the group, all on one node
  Pieces,   \* fragments a whole buffer is sent in
  Degree    \* of the tree a broadcast uses

MCRanks == 0 .. Size - 1
MCRoot == {0}
FragmentOffsets == 0 .. Pieces - 1

\* TLC computes a table once, and what a configuration substitutes for a
\* constant at each use: the plans of each algorithm have both.
Table(f) == f @@ <<>>

RecursiveTable == Table([r \in MCRanks |-> Recursive(Size, r, Whole(Pieces))])

(***************************************************************************)
(* On one node the topology-aware trees come down to one tree over all     *)
(* members.  The plans are written from that tree, which keeps the         *)
(* statistics of TLC small; the assumption says that they are those of     *)
(* TopoTrees.                                                              *)
(***************************************************************************)
TreeOfDegree(degree, r) == TreeOver([i \in 1 .. Size |-> i - 1], 0, degree, r)

TreeTable ==
  Table([r \in MCRanks |->
    LET t == TreeOfDegree(2, r)
    IN  Fanin(t.up, Reverse(t.down), 0, Whole(Pieces))
          \o Fanout(t.up, t.down, 1, Whole(Pieces))])

BcastTable ==
  Table([r \in MCRanks |->
    LET t == TreeOfDegree(Degree, r) IN Fanout(t.up, t.down, 0, Whole(Pieces))])

OneNode(switches) ==
  [place |-> Blocks(1, 1, Size), root |-> 0, degree |-> [inter |-> Degree, intra |-> Degree],
   sw |-> [on |-> switches, level |-> "NODE"]]

ASSUME TreesAreBuilt == \A r \in MCRanks :
  /\ TreeTable[r] = FaninFanout(OneNode({"topo"}), r, Whole(Pieces))
  /\ BcastTable[r] = TopoFanout(OneNode({"topo", "kmtree", "kmtree_intra"}), r, Whole(Pieces))

PlanRecursive == RecursiveTable
PlanTree == TreeTable
PlanBcast == BcastTable

-----------------------------------------------------------------------------
\* The proofs about the engine assume of a plan that its data flow fits (module
\* DataFlow).  The plans below meet that; for recursive doubling and the ring
\* PlansProofs shows it for groups of every size.
Flow == INSTANCE DataFlow

\* Whose data the buffer is about at a step: the labels the steps make.
RECURSIVE LabelIn(_, _, _, _)
LabelIn(P, r, i, off) ==
  IF i = 1 THEN {r}
  ELSE LET here == Flow!Landing(P, r, i - 1, off)
           kept == LabelIn(P, r, i - 1, off)
           Brought(a) ==
             LabelIn(P, a.from, IF IsWaypoint(Flow!StepOf(P, a)) THEN a.step + 1 ELSE a.step,
                     Flow!Place(P, a))
       IN  IF here = {} THEN kept
           ELSE IF Reduces(P[r][i - 1]) THEN kept \cup UNION {Brought(a) : a \in here}
           ELSE Brought(CHOOSE a \in here : TRUE)

\* The turn of a step: after all that can hold up what it waits for.
RECURSIVE TurnOf(_, _, _)
TurnOf(P, r, i) ==
  LET before == UNION {{<<a.from, j>> : j \in {x \in DOMAIN P[a.from] : Flow!SentAfter(P, a, x)}} :
                        a \in Flow!Arrivals(P, r, i)}
  IN  Max({0} \cup {1 + TurnOf(P, b[1], b[2]) : b \in before})

TurnsOf(P) == [r \in DOMAIN P |-> [i \in DOMAIN P[r] |-> TurnOf(P, r, i)]]

DataFits(P, Offs) ==
  LET W == [r \in DOMAIN P |-> [i \in 1 .. Len(P[r]) + 1 |->
              [off \in Offs |-> LabelIn(P, r, i, off)]]]
  IN  /\ Flow!CountsFit(P) /\ Flow!IdsFit(P) /\ Flow!LabelsFit(P, W, Offs, DOMAIN P, DOMAIN P)
      /\ Flow!TurnsFit(P, TurnsOf(P))

ASSUME RecursiveFits ==
  \A n \in 2 .. 5 :
    DataFits(Table([r \in 0 .. n - 1 |-> Recursive(n, r, Whole(2))]), 0 .. 1)

ASSUME RingFits ==
  \A n \in 2 .. 4 : DataFits(Table([r \in 0 .. n - 1 |-> Ring(n, r, 6)]), 0 .. 5)

TreePlacements == {Blocks(1, 1, 4), Blocks(4, 1, 1), Blocks(2, 2, 2)}

\* Binomial and k-nomial trees, on one node and on several.
ASSUME TreesFit ==
  \A p \in TreePlacements, on \in {{"topo"}, {"topo", "kmtree"}} :
    LET tree == [place |-> p, root |-> 0, degree |-> [inter |-> 2, intra |-> 2],
                 sw |-> [on |-> on, level |-> "NODE"]]
    IN  DataFits(Table([r \in 0 .. CountOf(p) - 1 |-> FaninFanout(tree, r, Whole(2))]), 0 .. 1)
=============================================================================
