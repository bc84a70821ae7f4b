---------------------------- MODULE PlanRunProofs ----------------------------
(***************************************************************************)
(* What the members of a group come to without a message between them, for *)
(* every placement on nodes and sockets, every request and every size of   *)
(* the group.                                                              *)
(***************************************************************************)
EXTENDS PlanRun, FiniteSetTheorems, SequenceTheorems, WellFoundedInduction, TLAPS

\* A figure that is not different anywhere is the same at any two members.
LEMMA OneValue ==
  ASSUME NEW M, IsFiniteSet(M), NEW V, NEW f \in [M -> V],
         \A v \in V : \E m \in M : f[m] = v,
         ~ (Cardinality(V) > 1),
         NEW a \in M, NEW b \in M
  PROVE  f[a] = f[b]
  <1>1. f \in Surjection(M, V)
    BY DEF Surjection
  <1>2. IsFiniteSet(V)
    BY <1>1, FS_Surjection
  <1>3. SUFFICES ASSUME f[a] # f[b] PROVE FALSE
    OBVIOUS
  <1>4. {f[a], f[b]} \in SUBSET V
    OBVIOUS
  <1>5. Cardinality({f[a], f[b]}) = 2
    <2>1. IsFiniteSet({f[a]}) /\ Cardinality({f[a]}) = 1
      BY FS_Singleton
    <2>2. Cardinality({f[a]} \cup {f[b]}) = 2
      BY <2>1, <1>3, FS_AddElement
    <2>3. {f[a]} \cup {f[b]} = {f[a], f[b]}
      OBVIOUS
    <2> QED BY <2>2, <2>3
  <1>6. Cardinality({f[a], f[b]}) <= Cardinality(V) /\ Cardinality(V) \in Nat
    BY <1>2, <1>4, FS_Subset, FS_CardinalityType
  <1> QED BY <1>5, <1>6

\* The members of a placement are finitely many.
LEMMA MembersFinite ==
  ASSUME NEW p \in Placements
  PROVE  IsFiniteSet(MembersOf(p))
  BY PlanRunAssumption, FS_Interval

\* The two checks that look at the member's own figures give the same answer
\* everywhere: they fail where the figures differ, and where these do not
\* differ all members see the same.
LEMMA UnevenAlike ==
  ASSUME NEW p \in Placements, NEW a \in MembersOf(p), NEW b \in MembersOf(p)
  PROVE  /\ NodesUneven(p, a) <=> NodesUneven(p, b)
         /\ SocketsUneven(p, a) <=> SocketsUneven(p, b)
  <1>1. ASSUME ~ ppn_unbalance(p)
        PROVE  ppn_local(p, a) = ppn_local(p, b)
    <2> DEFINE V == {ppn_local(p, m) : m \in MembersOf(p)}
               f == [m \in MembersOf(p) |-> ppn_local(p, m)]
    <2>1. f \in [MembersOf(p) -> V] /\ \A v \in V : \E m \in MembersOf(p) : f[m] = v
      OBVIOUS
    <2>2. ~ (Cardinality(V) > 1)
      BY <1>1 DEF ppn_unbalance
    <2> HIDE DEF V, f
    <2>3. f[a] = f[b]
      BY <2>1, <2>2, MembersFinite, OneValue
    <2> QED BY <2>3 DEF f
  <1>2. ASSUME ~ pps_unbalance(p)
        PROVE  pps_local(p, a) = pps_local(p, b)
    <2> DEFINE V == {pps_local(p, m) : m \in MembersOf(p)}
               f == [m \in MembersOf(p) |-> pps_local(p, m)]
    <2>1. f \in [MembersOf(p) -> V] /\ \A v \in V : \E m \in MembersOf(p) : f[m] = v
      OBVIOUS
    <2>2. ~ (Cardinality(V) > 1)
      BY <1>2 DEF pps_unbalance
    <2> HIDE DEF V, f
    <2>3. f[a] = f[b]
      BY <2>1, <2>2, MembersFinite, OneValue
    <2> QED BY <2>3 DEF f
  <1>3. NodesUneven(p, a) <=> NodesUneven(p, b)
    BY <1>1 DEF NodesUneven
  <1>4. SocketsUneven(p, a) <=> SocketsUneven(p, b)
    BY <1>2 DEF SocketsUneven
  <1> QED BY <1>3, <1>4

\* No check distinguishes two members.
LEMMA FailsAlike ==
  ASSUME NEW p \in Placements, NEW a \in MembersOf(p), NEW b \in MembersOf(p),
         NEW item, NEW r, NEW algo
  PROVE  Fails(item, r, p, a, algo) = Fails(item, r, p, b, algo)
  <1>1. NodesUneven(p, a) = NodesUneven(p, b) /\ SocketsUneven(p, a) = SocketsUneven(p, b)
    <2>1. /\ NodesUneven(p, a) \in BOOLEAN /\ NodesUneven(p, b) \in BOOLEAN
          /\ SocketsUneven(p, a) \in BOOLEAN /\ SocketsUneven(p, b) \in BOOLEAN
      BY DEF NodesUneven, SocketsUneven
    <2> QED BY <2>1, UnevenAlike
  <1> QED BY <1>1 DEF Fails

\* So two members with one algorithm fall back to one algorithm.
LEMMA FallBackAlike ==
  ASSUME NEW p \in Placements, NEW a \in MembersOf(p), NEW b \in MembersOf(p),
         NEW r, NEW algo
  PROVE  FallBack(r, p, a, algo) = FallBack(r, p, b, algo)
  <1> DEFINE checks == Checks(r, algo)
             Failed(me) == {i \in DOMAIN checks : Fails(checks[i][1], r, p, me, algo)}
  <1>1. \A i \in DOMAIN checks :
          Fails(checks[i][1], r, p, a, algo) = Fails(checks[i][1], r, p, b, algo)
    BY FailsAlike
  <1>2. Failed(a) = Failed(b)
    BY <1>1
  <1> QED BY <1>2 DEF FallBack

-----------------------------------------------------------------------------
\* While the members choose, each of them has an algorithm, and all the same.
ChoosingAlike ==
  call # None =>
    /\ call \in Calls
    /\ DOMAIN alg = MembersOf(call.place)
    /\ \A r \in DOMAIN alg : alg[r] = alg[0]

\* Without a message between them all members come to the same algorithm,
\* whatever the request and wherever they run: the decision tables are read with
\* figures that are common to all, and so are the answers to the checks.
THEOREM AllChooseAlike == Spec => []MembersAgree
  <1>1. Init => ChoosingAlike
    <2> SUFFICES ASSUME Init, call # None PROVE ChoosingAlike
      BY DEF ChoosingAlike
    <2>1. call \in Calls /\ call.place \in Placements
      BY DEF Init, Calls
    <2>2. 0 \in MembersOf(call.place)
      BY <2>1, PlanRunAssumption
    <2> QED BY <2>1, <2>2 DEF Init, ChoosingAlike
  <1>2. ChoosingAlike /\ [Next]_vars => ChoosingAlike'
    <2> SUFFICES ASSUME ChoosingAlike, [Next]_vars PROVE ChoosingAlike'
      OBVIOUS
    <2>1. CASE Choose
      <3> DEFINE p == call.place
      <3>1. /\ call' = call /\ call \in Calls
            /\ DOMAIN alg = MembersOf(p)
            /\ \A r \in DOMAIN alg : alg[r] = alg[0]
            /\ alg' = NextChoices
        BY <2>1 DEF Choose, ChoosingAlike
      <3>2. p \in Placements /\ 0 \in MembersOf(p)
        BY <3>1, PlanRunAssumption DEF Calls
      <3>3. /\ DOMAIN alg' = MembersOf(p)
            /\ \A r \in MembersOf(p) : alg'[r] = FallBack(call.req, p, r, alg[0])
        BY <3>1 DEF NextChoices
      <3>4. \A r \in MembersOf(p) : alg'[r] = alg'[0]
        BY <3>2, <3>3, FallBackAlike
      <3> QED BY <3>1, <3>3, <3>4 DEF ChoosingAlike
    <2>2. CASE SetAlgo
      BY <2>2 DEF SetAlgo, ChoosingAlike
    <2>3. CASE Build \/ Advance
      BY <2>3 DEF Build, Advance, ChoosingAlike
    <2>4. CASE UNCHANGED vars
      BY <2>4 DEF vars, ChoosingAlike
    <2> QED BY <2>1, <2>2, <2>3, <2>4 DEF Next
  <1>3. ChoosingAlike => MembersAgree
    BY DEF ChoosingAlike, MembersAgree
  <1> QED BY <1>1, <1>2, <1>3, PTL DEF Spec

-----------------------------------------------------------------------------
Items == {"algo_not_exist", "non_contig", "non_commutative", "raben", "naware_raben",
          "saware_raben", "bind_to_none", "ppn_unbalance", "nrank_uncontinue",
          "pps_unbalance", "srank_uncontinue", "large_datatype", "phase_segment"}

\* A check that falls back to an algorithm with a number below n.
ChecksBelow(n) == Items \X (1 .. n - 1)

\* A check whose fallback is below n is one of the checks below n.
LEMMA CheckBelow ==
  ASSUME NEW n \in Nat, NEW item \in Items, NEW f \in 1 .. n - 1
  PROVE  <<item, f>> \in ChecksBelow(n)
  BY DEF ChecksBelow

\* Lists of one, two and four entries are sequences.
LEMMA ShortLists ==
  ASSUME NEW S, NEW a \in S, NEW b \in S, NEW c \in S, NEW d \in S
  PROVE  /\ <<a>> \in Seq(S)
         /\ <<a, b>> \in Seq(S)
         /\ <<a, b, c, d>> \in Seq(S)
  OBVIOUS

\* Joining two lists of checks gives a list of checks.
LEMMA ConcatBelow ==
  ASSUME NEW S, NEW s \in Seq(S), NEW t \in Seq(S)
  PROVE  s \o t \in Seq(S)
  OBVIOUS

\* The lists of checks are put together from these.
LEMMA PartsBelow ==
  ASSUME NEW n \in Nat, n > 1
  PROVE  LET S == Seq(ChecksBelow(n))
             N == 1 .. n - 1
         IN  /\ Plain \in S
             /\ n > 4 => Raben \in S
             /\ \A f \in N : Missing(f) \in S /\ Large(f) \in S /\ NodeAware(f) \in S
             /\ \A f, g, h \in N : SocketAware(f, g, h) \in S
             /\ \A item \in Items, f \in N : << <<item, f>> >> \in S
  <1> DEFINE S == ChecksBelow(n)
             N == 1 .. n - 1
  <1>1. \A item \in Items, k \in N : <<item, k>> \in S
    BY CheckBelow
  <1>2. 1 \in N /\ (n > 4 => 4 \in N)
    OBVIOUS
  <1> HIDE DEF S, N
  <1>3. \A item \in Items, k \in N : << <<item, k>> >> \in Seq(S)
    BY <1>1, ShortLists
  <1>4. Plain \in Seq(S)
    BY <1>1, <1>2, ShortLists DEF Plain, Items
  <1>5. \A f \in N : NodeAware(f) \in Seq(S)
    BY <1>1, ShortLists DEF NodeAware, Items
  <1>6. \A f, g, h \in N : SocketAware(f, g, h) \in Seq(S)
    BY <1>1, ShortLists DEF SocketAware, Items
  <1>7. \A f \in N : Missing(f) \in Seq(S) /\ Large(f) \in Seq(S)
    BY <1>3 DEF Missing, Large, Items
  <1>8. n > 4 => Raben \in Seq(S)
    BY <1>2, <1>3 DEF Raben, Items
  <1> QED BY <1>3, <1>4, <1>5, <1>6, <1>7, <1>8 DEF S, N

\* Every check of an allreduce algorithm falls back to a smaller number.
LEMMA AllreduceBelow ==
  ASSUME NEW algo \in 2 .. 14
  PROVE  chkfb_allreduce(algo) \in Seq(ChecksBelow(algo))
  <1> DEFINE S == ChecksBelow(algo)
  <1>0. /\ Plain \in Seq(S)
        /\ algo > 4 => Raben \in Seq(S)
        /\ \A f \in 1 .. algo - 1 : /\ Missing(f) \in Seq(S)
                                    /\ Large(f) \in Seq(S)
                                    /\ NodeAware(f) \in Seq(S)
        /\ \A f, g, h \in 1 .. algo - 1 : SocketAware(f, g, h) \in Seq(S)
        /\ \A item \in Items, f \in 1 .. algo - 1 : << <<item, f>> >> \in Seq(S)
    <2>1. algo \in Nat /\ algo > 1
      OBVIOUS
    <2> QED BY <2>1, PartsBelow
  <1> SUFFICES chkfb_allreduce(algo) \in Seq(S)
    OBVIOUS
  <1> HIDE DEF S
  <1>1. CASE algo = 2
    <2>1. chkfb_allreduce(algo) = Plain \o Large(1)
      BY <1>1 DEF chkfb_allreduce
    <2>2. /\ Plain \in Seq(S)
          /\ Large(1) \in Seq(S)
      BY <1>1, <1>0 DEF Items
    <2> QED BY <2>1, <2>2, ConcatBelow
  <1>2. CASE algo = 3
    <2>1. chkfb_allreduce(algo) = Plain \o SocketAware(2, 2, 2) \o Large(1)
      BY <1>2 DEF chkfb_allreduce
    <2>2. /\ Plain \in Seq(S)
          /\ SocketAware(2, 2, 2) \in Seq(S)
          /\ Large(1) \in Seq(S)
      BY <1>2, <1>0 DEF Items
    <2> QED BY <2>1, <2>2, ConcatBelow
  <1>3. CASE algo = 4
    <2>1. chkfb_allreduce(algo) = Plain \o << <<"phase_segment", 1>> >>
      BY <1>3 DEF chkfb_allreduce
    <2>2. /\ Plain \in Seq(S)
          /\ << <<"phase_segment", 1>> >> \in Seq(S)
      BY <1>3, <1>0 DEF Items
    <2> QED BY <2>1, <2>2, ConcatBelow
  <1>4. CASE algo = 5 \/ algo = 7
    <2>1. chkfb_allreduce(algo) = Plain \o NodeAware(2) \o Large(1)
      <3>1. CASE algo = 5
        BY <3>1 DEF chkfb_allreduce
      <3>2. CASE algo = 7
        BY <3>2 DEF chkfb_allreduce
      <3> QED BY <1>4, <3>1, <3>2
    <2>2. /\ Plain \in Seq(S)
          /\ NodeAware(2) \in Seq(S)
          /\ Large(1) \in Seq(S)
      BY <1>4, <1>0 DEF Items
    <2> QED BY <2>1, <2>2, ConcatBelow
  <1>5. CASE algo = 6
    <2>1. chkfb_allreduce(algo) = Plain \o SocketAware(2, 5, 5) \o Large(1)
      BY <1>5 DEF chkfb_allreduce
    <2>2. /\ Plain \in Seq(S)
          /\ SocketAware(2, 5, 5) \in Seq(S)
          /\ Large(1) \in Seq(S)
      BY <1>5, <1>0 DEF Items
    <2> QED BY <2>1, <2>2, ConcatBelow
  <1>6. CASE algo = 8
    <2>1. chkfb_allreduce(algo) = Plain \o SocketAware(2, 7, 7) \o Large(1)
      BY <1>6 DEF chkfb_allreduce
    <2>2. /\ Plain \in Seq(S)
          /\ SocketAware(2, 7, 7) \in Seq(S)
          /\ Large(1) \in Seq(S)
      BY <1>6, <1>0 DEF Items
    <2> QED BY <2>1, <2>2, ConcatBelow
  <1>7. CASE algo \in 9 .. 11
    <2>1. chkfb_allreduce(algo) = Missing(1)
      BY <1>7 DEF chkfb_allreduce
    <2>2. /\ Missing(1) \in Seq(S)
      BY <1>7, <1>0 DEF Items
    <2> QED BY <2>1, <2>2, ConcatBelow
  <1>8. CASE algo = 12
    <2>1. chkfb_allreduce(algo) = Plain \o Raben \o << <<"bind_to_none", 2>> >> \o Large(4)
      BY <1>8 DEF chkfb_allreduce
    <2>2. /\ Plain \in Seq(S)
          /\ Raben \in Seq(S)
          /\ << <<"bind_to_none", 2>> >> \in Seq(S)
          /\ Large(4) \in Seq(S)
      BY <1>8, <1>0 DEF Items
    <2> QED BY <2>1, <2>2, ConcatBelow
  <1>9. CASE algo = 13
    <2>1. chkfb_allreduce(algo) = Plain \o Raben \o << <<"naware_raben", 12>>, <<"bind_to_none", 2>> >>
                                   \o NodeAware(12) \o Large(4)
      BY <1>9 DEF chkfb_allreduce
    <2>2. /\ Plain \in Seq(S)
          /\ Raben \in Seq(S)
          /\ << <<"naware_raben", 12>>, <<"bind_to_none", 2>> >> \in Seq(S)
          /\ NodeAware(12) \in Seq(S)
          /\ Large(4) \in Seq(S)
      BY <1>9, <1>0 DEF Items
    <2> QED BY <2>1, <2>2, ConcatBelow
  <1>10. CASE algo = 14
    <2>1. chkfb_allreduce(algo) = Plain \o Raben \o << <<"saware_raben", 12>> >>
                                   \o SocketAware(12, 2, 12) \o Large(4)
      BY <1>10 DEF chkfb_allreduce
    <2>2. /\ Plain \in Seq(S)
          /\ Raben \in Seq(S)
          /\ << <<"saware_raben", 12>> >> \in Seq(S)
          /\ SocketAware(12, 2, 12) \in Seq(S)
          /\ Large(4) \in Seq(S)
      BY <1>10, <1>0 DEF Items
    <2> QED BY <2>1, <2>2, ConcatBelow
  <1> QED BY <1>1, <1>2, <1>3, <1>4, <1>5, <1>6, <1>7, <1>8, <1>9, <1>10

\* Every check of a barrier or broadcast algorithm falls back to a smaller number.
LEMMA BarrierAndBcastBelow ==
  ASSUME NEW algo \in Nat, algo > 1
  PROVE  /\ algo <= 10 => chkfb_barrier(algo) \in Seq(ChecksBelow(algo))
         /\ algo <= 5 => chkfb_bcast(algo) \in Seq(ChecksBelow(algo))
  <1> DEFINE S == ChecksBelow(algo)
  <1>0. /\ <<>> \in Seq(S)
        /\ \A f \in 1 .. algo - 1 : Missing(f) \in Seq(S) /\ NodeAware(f) \in Seq(S)
        /\ \A f, g, h \in 1 .. algo - 1 : SocketAware(f, g, h) \in Seq(S)
    BY PartsBelow
  <1> SUFFICES /\ algo <= 10 => chkfb_barrier(algo) \in Seq(S)
               /\ algo <= 5 => chkfb_bcast(algo) \in Seq(S)
    OBVIOUS
  <1> HIDE DEF S
  <1>1. ASSUME algo <= 10 PROVE chkfb_barrier(algo) \in Seq(S)
    <2>1. CASE algo = 2
      BY <1>0, <2>1 DEF chkfb_barrier
    <2>2. CASE algo = 3
      BY <1>0, <2>2 DEF chkfb_barrier
    <2>3. CASE algo = 4 \/ algo = 6
      BY <1>0, <2>3 DEF chkfb_barrier
    <2>4. CASE algo = 5
      BY <1>0, <2>4 DEF chkfb_barrier
    <2>5. CASE algo = 7
      BY <1>0, <2>5 DEF chkfb_barrier
    <2>6. CASE algo \in 8 .. 10
      BY <1>0, <2>6 DEF chkfb_barrier
    <2> QED BY <1>1, <2>1, <2>2, <2>3, <2>4, <2>5, <2>6
  <1>2. ASSUME algo <= 5 PROVE chkfb_bcast(algo) \in Seq(S)
    BY <1>0, <1>2 DEF chkfb_bcast
  <1> QED BY <1>1, <1>2

\* The same for every algorithm the planner registers.
LEMMA AlgorithmsBelow ==
  ASSUME NEW r, r.coll \in {"barrier", "bcast", "allreduce"},
         NEW algo \in 1 .. LastAlgorithm[r.coll]
  PROVE  Checks(r, algo) \in Seq(ChecksBelow(algo))
  <1>1. algo \in Nat \ {0}
    BY DEF LastAlgorithm
  <1>2. CASE algo = 1
    <2>1. /\ chkfb_barrier(1) = <<>> /\ chkfb_bcast(1) = <<>> /\ chkfb_allreduce(1) = <<>>
      BY DEF chkfb_barrier, chkfb_bcast, chkfb_allreduce
    <2>2. Checks(r, algo) = <<>>
      BY <1>2, <2>1 DEF Checks
    <2>3. <<>> \in Seq(ChecksBelow(algo))
      OBVIOUS
    <2> QED BY <2>2, <2>3
  <1>3. CASE algo > 1 /\ r.coll = "barrier"
    BY <1>1, <1>3, BarrierAndBcastBelow DEF Checks, LastAlgorithm
  <1>4. CASE algo > 1 /\ r.coll = "bcast"
    BY <1>1, <1>4, BarrierAndBcastBelow DEF Checks, LastAlgorithm
  <1>5. CASE algo > 1 /\ r.coll = "allreduce"
    <2>1. algo \in 2 .. 14 /\ Checks(r, algo) = chkfb_allreduce(algo)
      BY <1>1, <1>5 DEF Checks, LastAlgorithm
    <2> QED BY <2>1, AllreduceBelow
  <1> QED BY <1>1, <1>2, <1>3, <1>4, <1>5

\* Among the checks that fail there is a first one.
LEMMA FirstExists ==
  ASSUME NEW S, S \subseteq Nat, S # {}
  PROVE  Min(S) \in S
  <1>1. PICK x \in S : \A y \in S : ~ (<<y, x>> \in OpToRel(<, Nat))
    BY NatLessThanWellFounded, WFMin
  <1>2. ASSUME NEW y \in S
        PROVE  x <= y
    <2>1. <<y, x>> \in Nat \X Nat /\ ~ (<<y, x>> \in OpToRel(<, Nat))
      BY <1>1
    <2>2. ~ (y < x)
      BY <2>1 DEF OpToRel
    <2> QED BY <2>2
  <1> QED BY <1>2 DEF Min

\* The choice of an algorithm ends, and it ends with one that there is: each
\* fallback is to an algorithm with a lower number, and an algorithm that is not
\* registered always falls back (the loop of ucg_builtin_algo_check_fallback and
\* its call of ucg_builtin_algo_find).
THEOREM ChoiceEnds ==
  ASSUME NEW r, r.coll \in {"barrier", "bcast", "allreduce"}, NEW p, NEW me,
         NEW algo \in 1 .. LastAlgorithm[r.coll]
  PROVE  /\ FallBack(r, p, me, algo) \in 1 .. algo
         /\ FallBack(r, p, me, algo) = algo => algo \in Registered[r.coll]
  <1> DEFINE checks == Checks(r, algo)
             failed == {i \in DOMAIN checks : Fails(checks[i][1], r, p, me, algo)}
  <1>1. checks \in Seq(ChecksBelow(algo)) /\ algo \in Nat \ {0}
    BY AlgorithmsBelow DEF LastAlgorithm
  <1>2. ASSUME failed # {}
        PROVE  FallBack(r, p, me, algo) \in 1 .. algo - 1
    <2>1. failed \subseteq DOMAIN checks /\ DOMAIN checks \subseteq Nat
      BY <1>1
    <2>2. Min(failed) \in DOMAIN checks
      BY <1>2, <2>1, FirstExists
    <2>3. checks[Min(failed)] \in ChecksBelow(algo)
      BY <1>1, <2>2
    <2>4. checks[Min(failed)][2] \in 1 .. algo - 1
      BY <2>3 DEF ChecksBelow
    <2> QED BY <1>2, <2>4 DEF FallBack
  <1>3. ASSUME failed = {}
        PROVE  FallBack(r, p, me, algo) = algo /\ algo \in Registered[r.coll]
    <2>1. FallBack(r, p, me, algo) = algo
      BY <1>3 DEF FallBack
    <2>2. SUFFICES ASSUME algo \notin Registered[r.coll] PROVE FALSE
      BY <2>1
    <2>3. Fails("algo_not_exist", r, p, me, algo)
      BY <2>2 DEF Fails
    <2>4. checks \in {Missing(1), Missing(2)}
      <3>1. CASE r.coll = "barrier"
        <4>1. algo \in 8 .. 10
          BY <2>2, <3>1 DEF Registered, LastAlgorithm
        <4> QED BY <3>1, <4>1 DEF Checks, chkfb_barrier
      <3>2. CASE r.coll = "bcast"
        <4>1. algo = 5
          BY <2>2, <3>2 DEF Registered, LastAlgorithm
        <4> QED BY <3>2, <4>1 DEF Checks, chkfb_bcast
      <3>3. CASE r.coll = "allreduce"
        <4>1. algo \in 9 .. 11
          BY <2>2, <3>3 DEF Registered, LastAlgorithm
        <4> QED BY <3>3, <4>1 DEF Checks, chkfb_allreduce
      <3> QED BY <3>1, <3>2, <3>3
    <2>5. 1 \in failed
      BY <2>3, <2>4 DEF Missing
    <2> QED BY <1>3, <2>5
  <1> QED BY <1>1, <1>2, <1>3
=============================================================================
