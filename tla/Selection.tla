------------------------------ MODULE Selection ------------------------------
(***************************************************************************)
(* Which algorithm a member runs a collective with                         *)
(* (src/builtin/plan/builtin_algo_decision.c, builtin_algo_select.c,       *)
(* builtin_algo_check.c) and what the algorithm asks of the plan builders  *)
(* (src/builtin/builtin.c).  Every member decides for itself, from its own *)
(* figures of the placement.  As in Plans, an operator used nowhere is a   *)
(* plausible mistake in the code of the one below it.                      *)
(*                                                                         *)
(* A request is what the caller asks for: the collective, the algorithm    *)
(* its configuration names (0: none), the length and count of the elements,*)
(* whether they are contiguous and whether the operation commutes.         *)
(***************************************************************************)
EXTENDS Topology

\* Highest number of an algorithm, and lowest one a configuration can ask for:
\* a broadcast cannot name the first (boundary, ucg_builtin_get_valid_algo).
LastAlgorithm == [barrier |-> 10, bcast |-> 5, allreduce |-> 14]
custom_algo(r) ==
  LET low == IF r.coll = "bcast" THEN 1 ELSE 0
  IN  IF low < r.algo /\ r.algo <= LastAlgorithm[r.coll] THEN r.algo ELSE 0

-----------------------------------------------------------------------------
(***************************************************************************)
(* The choice by size: the tables have a row for each level of the number  *)
(* of members per node and a column for each level of the number of nodes; *)
(* the tables of broadcast and allreduce a line of rows for each level of  *)
(* the message's size.                                                     *)
(***************************************************************************)
barrier_algo_tbl ==
  <<<<10,6,2,6,4>>, <<10,10,2,6,7>>, <<10,10,10,7,7>>, <<10,10,10,10,6>>, <<10,10,10,10,6>>, <<10,10,10,10,5>>>>

bcast_algo_tbl ==
  <<
    <<<<4,4,3,3,3>>, <<4,3,3,3,3>>, <<4,4,4,3,3>>, <<3,3,4,4,3>>, <<3,4,3,3,3>>, <<4,3,4,3,3>>>>,
    <<<<4,4,3,3,3>>, <<4,3,4,3,3>>, <<4,4,4,3,3>>, <<3,3,4,4,3>>, <<3,4,3,4,3>>, <<4,4,4,3,3>>>>,
    <<<<4,4,4,3,3>>, <<4,3,3,3,3>>, <<4,4,4,3,3>>, <<3,3,4,4,3>>, <<3,4,3,4,3>>, <<4,4,4,3,3>>>>,
    <<<<4,4,3,3,3>>, <<3,3,3,3,3>>, <<4,4,4,3,3>>, <<3,3,4,4,3>>, <<3,4,3,4,3>>, <<4,4,3,3,3>>>>,
    <<<<4,4,3,3,3>>, <<4,3,3,3,3>>, <<4,4,4,3,3>>, <<3,3,4,4,3>>, <<3,4,3,4,3>>, <<4,4,3,3,3>>>>,
    <<<<4,4,3,3,3>>, <<4,4,3,3,3>>, <<4,4,4,3,3>>, <<3,3,3,4,3>>, <<4,4,3,4,3>>, <<4,4,3,4,3>>>>,
    <<<<4,3,3,3,3>>, <<4,4,3,3,3>>, <<4,4,4,4,3>>, <<3,3,3,4,3>>, <<4,4,4,4,3>>, <<4,4,4,3,3>>>>,
    <<<<4,3,4,3,3>>, <<4,4,3,3,3>>, <<4,4,4,4,4>>, <<3,3,4,4,3>>, <<3,4,3,4,3>>, <<4,4,4,4,3>>>>,
    <<<<4,3,3,3,3>>, <<4,4,3,3,3>>, <<4,4,4,3,3>>, <<3,3,3,4,3>>, <<3,3,4,4,3>>, <<4,4,4,3,3>>>>,
    <<<<4,4,3,3,3>>, <<4,4,3,4,3>>, <<4,4,4,3,4>>, <<3,3,4,4,4>>, <<3,3,3,4,3>>, <<4,4,4,4,3>>>>,
    <<<<4,4,3,3,3>>, <<4,4,4,4,3>>, <<4,4,4,3,3>>, <<3,3,4,4,3>>, <<3,3,4,4,4>>, <<4,4,4,4,4>>>>,
    <<<<4,4,3,3,3>>, <<4,4,3,4,3>>, <<4,4,4,4,4>>, <<3,3,4,4,4>>, <<3,3,4,4,4>>, <<3,3,4,4,4>>>>,
    <<<<4,4,3,3,3>>, <<4,4,3,4,3>>, <<4,4,4,4,4>>, <<3,3,4,4,4>>, <<3,3,4,4,4>>, <<3,3,4,4,4>>>>,
    <<<<4,4,3,3,3>>, <<4,4,3,4,3>>, <<4,4,4,4,4>>, <<3,3,4,4,4>>, <<3,3,4,4,4>>, <<3,3,4,4,4>>>>,
    <<<<2,2,3,3,3>>, <<4,2,3,4,3>>, <<4,4,4,4,4>>, <<3,3,4,4,4>>, <<3,3,4,4,4>>, <<3,3,4,4,4>>>>,
    <<<<2,2,3,3,3>>, <<4,2,3,4,3>>, <<4,2,4,4,4>>, <<3,2,4,4,4>>, <<3,3,4,4,4>>, <<3,3,4,4,4>>>>,
    <<<<2,2,3,3,3>>, <<4,2,3,4,3>>, <<4,2,4,4,4>>, <<3,2,4,4,4>>, <<3,2,4,4,4>>, <<3,2,4,4,4>>>>,
    <<<<2,2,3,3,3>>, <<4,2,3,4,3>>, <<4,2,4,4,4>>, <<3,2,4,4,4>>, <<3,2,4,4,4>>, <<4,4,4,4,4>>>>,
    <<<<2,2,3,3,3>>, <<4,2,3,4,3>>, <<4,2,4,4,4>>, <<3,2,4,4,4>>, <<4,4,4,4,4>>, <<4,4,4,4,4>>>>,
    <<<<2,2,3,3,3>>, <<4,2,3,4,3>>, <<4,2,4,4,4>>, <<3,2,4,4,4>>, <<4,4,4,4,4>>, <<4,4,4,4,4>>>>
  >>

allreduce_algo_tbl ==
  <<
    <<<<11,8,8,8,7>>, <<11,11,8,8,7>>, <<11,11,11,8,7>>, <<11,11,11,11,7>>, <<11,11,11,11,7>>, <<11,11,11,11,7>>>>,
    <<<<11,8,8,8,7>>, <<11,11,8,8,7>>, <<11,11,11,8,7>>, <<11,11,11,11,7>>, <<11,11,11,11,7>>, <<11,11,11,11,7>>>>,
    <<<<11,8,8,8,7>>, <<11,11,8,8,7>>, <<11,11,11,8,7>>, <<11,11,11,11,7>>, <<11,11,11,11,7>>, <<11,11,11,11,7>>>>,
    <<<<11,8,8,8,7>>, <<11,11,8,8,7>>, <<11,11,11,8,7>>, <<11,11,11,11,7>>, <<11,11,11,11,7>>, <<11,11,11,11,7>>>>,
    <<<<11,8,8,8,7>>, <<11,11,8,8,7>>, <<11,11,11,8,7>>, <<11,11,11,11,7>>, <<11,11,11,11,7>>, <<11,11,11,11,11>>>>,
    <<<<14,8,8,8,7>>, <<11,11,8,8,8>>, <<11,11,11,8,7>>, <<11,11,11,11,8>>, <<11,11,11,11,7>>, <<11,11,11,11,7>>>>,
    <<<<14,13,13,13,13>>, <<13,13,13,13,13>>, <<14,14,11,14,14>>, <<14,11,11,11,7>>, <<11,11,11,8,7>>, <<11,11,11,7,7>>>>,
    <<<<13,13,13,13,13>>, <<13,13,13,13,13>>, <<13,13,11,13,13>>, <<14,11,14,14,14>>, <<11,11,11,8,7>>, <<11,11,7,8,7>>>>,
    <<<<13,8,8,8,8>>, <<13,13,13,13,13>>, <<14,14,14,14,14>>, <<13,13,13,13,13>>, <<14,14,14,14,7>>, <<11,11,7,8,8>>>>,
    <<<<13,13,13,13,8>>, <<13,13,12,12,12>>, <<13,13,13,13,13>>, <<14,14,14,14,14>>, <<13,13,13,13,13>>, <<14,11,7,7,7>>>>,
    <<<<13,13,13,13,12>>, <<13,13,13,12,12>>, <<12,12,12,12,12>>, <<13,13,13,13,13>>, <<14,14,13,14,14>>, <<13,13,13,13,7>>>>,
    <<<<13,13,13,13,12>>, <<13,13,13,12,12>>, <<13,12,12,12,12>>, <<12,12,12,12,12>>, <<13,13,13,13,13>>, <<14,2,5,5,6>>>>,
    <<<<13,13,13,13,12>>, <<13,13,13,12,12>>, <<13,12,12,12,12>>, <<13,12,12,12,12>>, <<13,12,13,13,13>>, <<13,13,5,5,6>>>>,
    <<<<12,12,13,13,12>>, <<13,13,13,12,12>>, <<13,13,12,12,12>>, <<13,12,12,12,12>>, <<13,12,13,13,13>>, <<13,12,5,5,6>>>>,
    <<<<12,12,13,13,12>>, <<12,12,13,12,12>>, <<13,13,12,12,12>>, <<13,13,12,12,12>>, <<13,12,13,13,13>>, <<13,12,5,5,6>>>>,
    <<<<4,12,13,13,12>>, <<12,12,13,12,12>>, <<13,12,12,12,12>>, <<13,13,12,12,12>>, <<13,13,13,13,13>>, <<13,12,5,5,6>>>>,
    <<<<4,12,13,13,12>>, <<12,12,13,12,12>>, <<12,12,12,12,12>>, <<13,12,12,12,12>>, <<13,12,13,13,13>>, <<13,13,5,5,6>>>>,
    <<<<4,4,13,13,12>>, <<4,12,13,12,12>>, <<12,12,12,12,12>>, <<12,12,12,12,12>>, <<12,12,13,13,13>>, <<13,13,5,5,6>>>>,
    <<<<4,4,13,13,12>>, <<4,4,13,12,12>>, <<4,4,12,12,12>>, <<4,12,12,12,12>>, <<12,12,13,13,13>>, <<13,13,5,5,6>>>>,
    <<<<4,4,4,4,4>>, <<4,4,4,4,4>>, <<4,4,4,4,4>>, <<4,4,4,4,4>>, <<4,4,4,4,4>>, <<4,4,4,4,4>>>>
  >>

\* How often n can be halved before it falls below 4.
log2_n(n) == CHOOSE k \in 0 .. 20 : n \div 2^k < 4 /\ \A i \in 0 .. k - 1 : n \div 2^i >= 4

\* Levels count from 1 here: sizes up to 4, 8, 16, ... and one for the rest.
LevelOf(size, largest, levels) ==
  IF size <= 4 THEN 1 ELSE IF size > largest THEN levels ELSE 1 + log2_n(size - 1)

size_level(r) == LevelOf(r.dt_len * r.count, 1048576, 20)
ppn_level(p) == LevelOf(ppn_max(p), 64, 6)
node_level(p) == LevelOf(node_cnt(p), 32, 5)

auto_select(r, p) ==
  LET table == CASE r.coll = "barrier"   -> barrier_algo_tbl
                 [] r.coll = "bcast"     -> bcast_algo_tbl[size_level(r)]
                 [] r.coll = "allreduce" -> allreduce_algo_tbl[size_level(r)]
  IN  table[ppn_level(p)][node_level(p)]

-----------------------------------------------------------------------------
(***************************************************************************)
(* The checks (check_fun_array): does algorithm `algo' fall at this one?   *)
(***************************************************************************)
\* The algorithms registered in src/builtin/plan; the others are left to
\* planners outside of it (ucg_builtin_algo_find).
Registered == [barrier |-> 1 .. 7, bcast |-> 1 .. 4, allreduce |-> 1 .. 8 \cup 12 .. 14]

Odd(x) == x % 2 = 1
OwnNodeUneven(p, me) == Odd(ppn_local(p, me)) /\ ppn_local(p, me) # 1
NodesUneven(p, me) ==
  ppn_unbalance(p) \/ (Odd(ppn_local(p, me)) /\ ppn_local(p, me) # 1)
SocketsUneven(p, me) ==
  pps_unbalance(p) \/ (Odd(pps_local(p, me)) /\ pps_local(p, me) # 1)

Fails(item, r, p, me, algo) ==
  CASE item = "algo_not_exist"     -> algo \notin Registered[r.coll]
    [] item = "non_contig"         -> r.count > 0 /\ r.dt_len > 0 /\ ~ r.contig
    [] item = "non_commutative"    -> ~ r.commutes
    [] item = "raben"              -> Odd(CountOf(p))
    [] item = "naware_raben"       -> NodesUneven(p, me)
    [] item = "saware_raben"       -> SocketsUneven(p, me)
    [] item = "bind_to_none"       -> ~ p.bound
    [] item = "ppn_unbalance"      -> ppn_unbalance(p)
    [] item = "nrank_uncontinue"   -> nrank_uncontinue(p)
    [] item = "pps_unbalance"      -> pps_unbalance(p)
    [] item = "srank_uncontinue"   -> srank_uncontinue(p) \/ nrank_uncontinue(p)
    [] item = "large_datatype"     -> r.dt_len > 32
    [] item = "phase_segment"      ->
         r.dt_len > 1000 \/ (r.dt_len > 80 /\ r.dt_len * r.count <= 176)

\* The checks of an algorithm in their order, each with the algorithm to fall
\* back to.
Plain == << <<"non_contig", 1>>, <<"non_commutative", 1>> >>
NodeAware(fallback) == << <<"ppn_unbalance", fallback>>, <<"nrank_uncontinue", fallback>> >>
SocketAware(fallback, unbound, sockets) ==
  << <<"bind_to_none", unbound>>, <<"ppn_unbalance", fallback>>,
     <<"pps_unbalance", sockets>>, <<"srank_uncontinue", sockets>> >>
Missing(fallback) == << <<"algo_not_exist", fallback>> >>
Large(fallback) == << <<"large_datatype", fallback>> >>
Raben == << <<"raben", 4>> >>

chkfb_allreduce(algo) ==
  CASE algo = 2        -> Plain \o Large(1)
    [] algo = 3        -> Plain \o SocketAware(2, 2, 2) \o Large(1)
    [] algo = 4        -> Plain \o << <<"phase_segment", 1>> >>
    [] algo \in {5, 7} -> Plain \o NodeAware(2) \o Large(1)
    [] algo = 6        -> Plain \o SocketAware(2, 5, 5) \o Large(1)
    [] algo = 8        -> Plain \o SocketAware(2, 7, 7) \o Large(1)
    [] algo \in 9 .. 11 -> Missing(1)
    [] algo = 12       -> Plain \o Raben \o << <<"bind_to_none", 2>> >> \o Large(4)
    [] algo = 13       -> Plain \o Raben \o << <<"naware_raben", 12>>, <<"bind_to_none", 2>> >>
                            \o NodeAware(12) \o Large(4)
    [] algo = 14       -> Plain \o Raben \o << <<"saware_raben", 12>> >>
                            \o SocketAware(12, 2, 12) \o Large(4)
    [] OTHER           -> <<>>

chkfb_barrier(algo) ==
  CASE algo = 3         -> SocketAware(2, 2, 2)
    [] algo \in {4, 6}  -> NodeAware(2)
    [] algo = 5         -> SocketAware(2, 4, 4)
    [] algo = 7         -> SocketAware(2, 6, 6)
    [] algo \in 8 .. 10 -> Missing(2)
    [] OTHER            -> <<>>

chkfb_bcast(algo) ==
  CASE algo \in {3, 4} -> NodeAware(2)
    [] algo = 5        -> Missing(2)
    [] OTHER           -> <<>>

Checks(r, algo) ==
  CASE r.coll = "barrier"   -> chkfb_barrier(algo)
    [] r.coll = "bcast"     -> chkfb_bcast(algo)
    [] r.coll = "allreduce" -> chkfb_allreduce(algo)

\* One round of ucg_builtin_algo_check_fallback: the first check that fails
\* decides; the rounds end when none does.
FallBack(r, p, me, algo) ==
  LET checks == Checks(r, algo)
      failed == {i \in DOMAIN checks : Fails(checks[i][1], r, p, me, algo)}
  IN  IF failed = {} THEN algo ELSE checks[Min(failed)][2]

FirstChoice(r, p) == IF custom_algo(r) # 0 THEN custom_algo(r) ELSE auto_select(r, p)

-----------------------------------------------------------------------------
(***************************************************************************)
(* The switches an algorithm sets (ucg_builtin_set_algo): those that are   *)
(* on, and the level of the hierarchy the trees follow.                    *)
(***************************************************************************)
Switches(on, level) == [on |-> on, level |-> level]

aggregate_algo_switch(algo) ==
  CASE algo = 1 -> Switches({"recursive"}, "NODE")
    [] algo = 2 -> Switches({"topo"}, "NODE")
    [] algo = 3 -> Switches({"topo"}, "SOCKET")

barrier_algo_switch(algo) ==
  CASE algo \in 1 .. 3 -> aggregate_algo_switch(algo)
    [] algo = 4 -> Switches({"kmtree_intra", "topo"}, "NODE")
    [] algo = 5 -> Switches({"kmtree_intra", "topo"}, "SOCKET")
    [] algo = 6 -> Switches({"kmtree", "kmtree_intra", "topo"}, "NODE")
    [] algo = 7 -> Switches({"kmtree", "kmtree_intra", "topo"}, "SOCKET")

allreduce_algo_switch(algo) ==
  CASE algo \in 1 .. 3 -> aggregate_algo_switch(algo)
    [] algo = 4 -> Switches({"ring"}, "NODE")
    [] algo \in 5 .. 8 -> barrier_algo_switch(algo - 1)
    [] algo = 12 -> Switches({"binary_block"}, "NODE")
    [] algo = 13 -> Switches({"binary_block", "topo"}, "NODE")
    [] algo = 14 -> Switches({"binary_block", "topo"}, "SOCKET")

bcast_algo_switch(algo) ==
  CASE algo = 1 -> Switches({}, "NODE")
    [] algo = 2 -> Switches({"topo"}, "NODE")
    [] algo = 3 -> Switches({"kmtree", "topo"}, "NODE")
    [] algo = 4 -> Switches({"kmtree", "kmtree_intra", "topo"}, "NODE")

set_algo(coll, algo) ==
  CASE coll = "barrier"   -> barrier_algo_switch(algo)
    [] coll = "bcast"     -> bcast_algo_switch(algo)
    [] coll = "allreduce" -> allreduce_algo_switch(algo)

\* The kind of plan: one source, or data (arrivals, for a barrier) to aggregate.
choose_type(coll, sw) ==
  IF coll = "bcast" THEN "TREE_FANOUT"
  ELSE IF "recursive" \in sw.on THEN "RECURSIVE"
  ELSE IF "ring" \in sw.on THEN "RING"
  ELSE IF "binary_block" \in sw.on THEN "BINARY_BLOCK" ELSE "TREE_FANIN_FANOUT"
=============================================================================
