--------------------------- MODULE PlanCacheProofs ---------------------------
(***************************************************************************)
(* What the cache of plans and operations promises a caller that lets go of*)
(* an operation before the cache uses it again or throws it away: for any  *)
(* number of plans, operations, positions, roots and buffers.              *)
(***************************************************************************)
EXTENDS PlanCache, FiniteSetTheorems, SequenceTheorems, TLAPS

\* Each element is in the list once.
Distinct(s) == \A j, k \in 1 .. Len(s) : s[j] = s[k] => j = k

-----------------------------------------------------------------------------
(***************************************************************************)
(* Lists of distinct elements, and the sets of what is on them.            *)
(***************************************************************************)
\* A list's set is a set of what its elements are taken from.
LEMMA SetOfList ==
  ASSUME NEW S, NEW s \in Seq(S)
  PROVE  /\ ToSet(s) = {s[k] : k \in 1 .. Len(s)}
         /\ ToSet(s) \subseteq S
         /\ \A k \in 1 .. Len(s) : s[k] \in ToSet(s)
         /\ \A x \in ToSet(s) : \E k \in 1 .. Len(s) : s[k] = x
  <1>1. DOMAIN s = 1 .. Len(s) /\ \A k \in 1 .. Len(s) : s[k] \in S
    OBVIOUS
  <1>2. ToSet(s) = {s[k] : k \in 1 .. Len(s)}
    BY <1>1 DEF ToSet
  <1> QED BY <1>1, <1>2

\* An empty list has nothing in it, and no other list is empty.
LEMMA EmptySet ==
  ASSUME NEW S, NEW s \in Seq(S)
  PROVE  /\ Len(s) \in Nat
         /\ s = <<>> <=> Len(s) = 0
         /\ ToSet(s) = {} <=> Len(s) = 0
  <1>1. Len(s) \in Nat /\ (s = <<>> <=> Len(s) = 0)
    BY EmptySeq
  <1>2. ASSUME Len(s) # 0 PROVE s[1] \in ToSet(s)
    BY <1>1, <1>2, SetOfList
  <1>3. ASSUME Len(s) = 0, NEW x \in ToSet(s) PROVE FALSE
    <2>1. PICK k \in 1 .. Len(s) : s[k] = x
      BY <1>3, SetOfList
    <2>2. 1 .. 0 = {}
      OBVIOUS
    <2> QED BY <1>3, <2>1, <2>2
  <1> QED BY <1>1, <1>2, <1>3

\* A list put behind one element.
LEMMA ConsSet ==
  ASSUME NEW S, NEW s \in Seq(S), NEW x \in S
  PROVE  /\ <<x>> \o s \in Seq(S)
         /\ Len(<<x>> \o s) = Len(s) + 1
         /\ ToSet(<<x>> \o s) = {x} \cup ToSet(s)
         /\ Distinct(s) /\ x \notin ToSet(s) => Distinct(<<x>> \o s)
  <1> DEFINE t == <<x>> \o s
  <1>1. <<x>> \in Seq(S) /\ Len(<<x>>) = 1 /\ <<x>>[1] = x /\ Len(s) \in Nat
    OBVIOUS
  <1>2. /\ t \in Seq(S) /\ Len(t) = Len(s) + 1
        /\ t[1] = x /\ \A k \in 1 .. Len(s) : t[k + 1] = s[k]
    BY <1>1, ConcatProperties
  <1> HIDE DEF t
  <1>3. \A k \in 1 .. Len(t) : k # 1 => k - 1 \in 1 .. Len(s) /\ t[k] = s[k - 1]
    BY <1>1, <1>2
  <1>4. ToSet(t) \subseteq {x} \cup ToSet(s)
    <2>1. \A y \in ToSet(t) : \E k \in 1 .. Len(t) : t[k] = y
      BY <1>2, SetOfList
    <2>2. \A k \in 1 .. Len(s) : s[k] \in ToSet(s)
      BY SetOfList
    <2>3. \A k \in 1 .. Len(t) : t[k] \in {x} \cup ToSet(s)
      BY <1>2, <1>3, <2>2
    <2> QED BY <2>1, <2>3
  <1>5. {x} \cup ToSet(s) \subseteq ToSet(t)
    <2>1. \A k \in 1 .. Len(t) : t[k] \in ToSet(t)
      BY <1>2, SetOfList
    <2>2. \A y \in ToSet(s) : \E k \in 1 .. Len(s) : s[k] = y
      BY SetOfList
    <2>3. 1 \in 1 .. Len(t) /\ \A k \in 1 .. Len(s) : k + 1 \in 1 .. Len(t)
      BY <1>1, <1>2
    <2> QED BY <1>2, <2>1, <2>2, <2>3
  <1>6. ASSUME Distinct(s), x \notin ToSet(s)
        PROVE  Distinct(t)
    <2>1. \A k \in 1 .. Len(s) : s[k] # x
      BY <1>6, SetOfList
    <2>2. ASSUME NEW j \in 1 .. Len(t), NEW k \in 1 .. Len(t), t[j] = t[k], j # 1, k # 1
          PROVE  j = k
      <3>1. s[j - 1] = s[k - 1] /\ j - 1 \in 1 .. Len(s) /\ k - 1 \in 1 .. Len(s)
        BY <1>3, <2>2
      <3> QED BY <1>6, <3>1 DEF Distinct
    <2> QED BY <1>2, <1>3, <2>1, <2>2 DEF Distinct
  <1> QED BY <1>2, <1>4, <1>5, <1>6 DEF t

\* An element put behind a list.
LEMMA AppendSet ==
  ASSUME NEW S, NEW s \in Seq(S), NEW x \in S
  PROVE  /\ Append(s, x) \in Seq(S)
         /\ Len(Append(s, x)) = Len(s) + 1
         /\ ToSet(Append(s, x)) = ToSet(s) \cup {x}
         /\ Distinct(s) /\ x \notin ToSet(s) => Distinct(Append(s, x))
  <1> DEFINE t == Append(s, x)
  <1>1. /\ t \in Seq(S) /\ Len(t) = Len(s) + 1 /\ Len(s) \in Nat
        /\ t[Len(s) + 1] = x /\ \A k \in 1 .. Len(s) : t[k] = s[k]
    BY AppendProperties
  <1> HIDE DEF t
  <1>2. \A k \in 1 .. Len(t) : k \in 1 .. Len(s) \/ k = Len(s) + 1
    BY <1>1
  <1>3. ToSet(t) \subseteq ToSet(s) \cup {x}
    <2>1. \A y \in ToSet(t) : \E k \in 1 .. Len(t) : t[k] = y
      BY <1>1, SetOfList
    <2> QED BY <1>1, <1>2, <2>1, SetOfList
  <1>4. ToSet(s) \cup {x} \subseteq ToSet(t)
    <2>1. \A k \in 1 .. Len(t) : t[k] \in ToSet(t)
      BY <1>1, SetOfList
    <2>2. \A y \in ToSet(s) : \E k \in 1 .. Len(s) : s[k] = y
      BY SetOfList
    <2>3. Len(s) + 1 \in 1 .. Len(t) /\ \A k \in 1 .. Len(s) : k \in 1 .. Len(t)
      BY <1>1
    <2> QED BY <1>1, <2>1, <2>2, <2>3
  <1>5. ASSUME Distinct(s), x \notin ToSet(s)
        PROVE  Distinct(t)
    <2>1. \A k \in 1 .. Len(s) : s[k] # x
      BY <1>5, SetOfList
    <2> QED BY <1>1, <1>2, <1>5, <2>1 DEF Distinct
  <1> QED BY <1>1, <1>3, <1>4, <1>5 DEF t

\* A list without one of its elements, wherever it is.
LEMMA RemoveSet ==
  ASSUME NEW S, NEW s \in Seq(S), Distinct(s), NEW i \in 1 .. Len(s)
  PROVE  /\ RemoveAt(s, i) \in Seq(S)
         /\ Len(RemoveAt(s, i)) = Len(s) - 1
         /\ ToSet(RemoveAt(s, i)) = ToSet(s) \ {s[i]}
         /\ Distinct(RemoveAt(s, i))
  <1> DEFINE f == SubSeq(s, 1, i - 1)
             b == SubSeq(s, i + 1, Len(s))
             t == RemoveAt(s, i)
  <1>1. Len(s) \in Nat /\ i \in Int /\ 1 <= i /\ i <= Len(s) /\ \A k \in 1 .. Len(s) : s[k] \in S
    OBVIOUS
  <1>2. f \in Seq(S) /\ Len(f) = i - 1 /\ \A k \in 1 .. i - 1 : f[k] = s[k]
    <2>1. \A k \in 1 .. i - 1 : s[k] \in S
      BY <1>1
    <2>2. /\ f \in Seq(S) /\ Len(f) = IF 1 <= i - 1 THEN i - 1 - 1 + 1 ELSE 0
          /\ \A k \in 1 .. i - 1 - 1 + 1 : f[k] = s[1 + k - 1]
      BY <1>1, <2>1, SubSeqProperties
    <2> HIDE DEF f
    <2> QED BY <1>1, <2>2
  <1>3. b \in Seq(S) /\ Len(b) = Len(s) - i /\ \A k \in 1 .. Len(s) - i : b[k] = s[i + k]
    <2>1. \A k \in i + 1 .. Len(s) : s[k] \in S
      BY <1>1
    <2>2. /\ b \in Seq(S) /\ Len(b) = IF i + 1 <= Len(s) THEN Len(s) - (i + 1) + 1 ELSE 0
          /\ \A k \in 1 .. Len(s) - (i + 1) + 1 : b[k] = s[(i + 1) + k - 1]
      BY <1>1, <2>1, SubSeqProperties
    <2> HIDE DEF b
    <2> QED BY <1>1, <2>2
  <1>4. t = f \o b
    BY DEF RemoveAt
  <1> HIDE DEF f, b, t
  <1>5. /\ t \in Seq(S) /\ Len(t) = Len(s) - 1
        /\ \A k \in 1 .. Len(s) - 1 : t[k] = IF k < i THEN s[k] ELSE s[k + 1]
    <2>1. /\ t \in Seq(S) /\ Len(t) = Len(f) + Len(b)
          /\ \A k \in 1 .. Len(f) + Len(b) : t[k] = IF k <= Len(f) THEN f[k] ELSE b[k - Len(f)]
      BY <1>2, <1>3, <1>4, ConcatProperties
    <2>2. Len(f) + Len(b) = Len(s) - 1
      BY <1>1, <1>2, <1>3
    <2>3. ASSUME NEW k \in 1 .. Len(s) - 1, k < i
          PROVE  t[k] = s[k]
      BY <1>1, <1>2, <2>1, <2>2, <2>3
    <2>4. ASSUME NEW k \in 1 .. Len(s) - 1, ~ (k < i)
          PROVE  t[k] = s[k + 1]
      <3>1. t[k] = b[k - (i - 1)] /\ k - (i - 1) \in 1 .. Len(s) - i
        BY <1>1, <1>2, <2>1, <2>2, <2>4
      <3>2. i + (k - (i - 1)) = k + 1
        BY <1>1
      <3> QED BY <1>3, <3>1, <3>2
    <2> QED BY <2>1, <2>2, <2>3, <2>4
  <1>6. ToSet(t) \subseteq ToSet(s) \ {s[i]}
    <2>1. \A y \in ToSet(t) : \E k \in 1 .. Len(t) : t[k] = y
      BY <1>5, SetOfList
    <2>2. ASSUME NEW k \in 1 .. Len(t)
          PROVE  \E j \in 1 .. Len(s) : j # i /\ t[k] = s[j]
      <3>1. CASE k < i
        BY <1>1, <1>5, <3>1
      <3>2. CASE ~ (k < i)
        <4>1. k + 1 \in 1 .. Len(s) /\ k + 1 # i /\ t[k] = s[k + 1]
          BY <1>1, <1>5, <3>2
        <4> QED BY <4>1
      <3> QED BY <3>1, <3>2
    <2>3. \A j \in 1 .. Len(s) : j # i => s[j] \in ToSet(s) /\ s[j] # s[i]
      BY SetOfList DEF Distinct
    <2> QED BY <2>1, <2>2, <2>3
  <1>7. ToSet(s) \ {s[i]} \subseteq ToSet(t)
    <2>1. \A k \in 1 .. Len(t) : t[k] \in ToSet(t)
      BY <1>5, SetOfList
    <2>2. \A y \in ToSet(s) : \E k \in 1 .. Len(s) : s[k] = y
      BY SetOfList
    <2>3. \A j \in 1 .. Len(s) : j < i => j \in 1 .. Len(t) /\ t[j] = s[j]
      BY <1>1, <1>5
    <2>4. \A j \in 1 .. Len(s) : j > i => j - 1 \in 1 .. Len(t) /\ t[j - 1] = s[j]
      BY <1>1, <1>5
    <2>5. \A j \in 1 .. Len(s) : j # i => j < i \/ j > i
      BY <1>1
    <2> QED BY <2>1, <2>2, <2>3, <2>4, <2>5
  <1>8. Distinct(t)
    <2> SUFFICES ASSUME NEW j \in 1 .. Len(t), NEW k \in 1 .. Len(t), t[j] = t[k]
                 PROVE  j = k
      BY DEF Distinct
    <2>1. PICK m \in 1 .. Len(s) : m = IF j < i THEN j ELSE j + 1
      BY <1>1, <1>5
    <2>2. PICK n \in 1 .. Len(s) : n = IF k < i THEN k ELSE k + 1
      BY <1>1, <1>5
    <2>3. t[j] = s[m] /\ t[k] = s[n]
      BY <1>5, <2>1, <2>2
    <2>4. m = n
      BY <2>3 DEF Distinct
    <2> QED BY <1>1, <1>5, <2>1, <2>2, <2>4
  <1> QED BY <1>5, <1>6, <1>7, <1>8 DEF t

\* The oldest element leaves a queue.
LEMMA TailSet ==
  ASSUME NEW S, NEW s \in Seq(S), s # <<>>, Distinct(s)
  PROVE  /\ Head(s) \in S /\ Head(s) \in ToSet(s)
         /\ Tail(s) \in Seq(S)
         /\ Len(Tail(s)) = Len(s) - 1
         /\ ToSet(Tail(s)) = ToSet(s) \ {Head(s)}
         /\ Distinct(Tail(s))
  <1>1. Len(s) \in Nat /\ Len(s) > 0
    BY EmptySeq
  <1>2. 1 \in 1 .. Len(s) /\ Head(s) = s[1]
    BY <1>1
  <1>3. Tail(s) = RemoveAt(s, 1)
    <2>1. Tail(s) = SubSeq(s, 2, Len(s))
      BY TailIsSubSeq
    <2>2. SubSeq(s, 1, 0) = <<>>
      BY SubSeqEmpty
    <2>3. SubSeq(s, 2, Len(s)) \in Seq(S)
      BY <2>1, HeadTailProperties
    <2>4. <<>> \o SubSeq(s, 2, Len(s)) = SubSeq(s, 2, Len(s))
      BY <2>3, ConcatEmptySeq
    <2> QED BY <2>1, <2>2, <2>4 DEF RemoveAt
  <1>4. Head(s) \in ToSet(s) /\ Head(s) \in S
    BY <1>2, SetOfList
  <1>5. /\ RemoveAt(s, 1) \in Seq(S)
        /\ Len(RemoveAt(s, 1)) = Len(s) - 1
        /\ ToSet(RemoveAt(s, 1)) = ToSet(s) \ {s[1]}
        /\ Distinct(RemoveAt(s, 1))
    BY <1>2, RemoveSet
  <1> QED BY <1>2, <1>3, <1>4, <1>5, Zenon

\* A list is cut in two.
LEMMA CutSet ==
  ASSUME NEW S, NEW s \in Seq(S), Distinct(s), NEW e \in Nat, e <= Len(s)
  PROVE  /\ SubSeq(s, e + 1, Len(s)) \in Seq(S)
         /\ Len(SubSeq(s, e + 1, Len(s))) = Len(s) - e
         /\ ToSet(SubSeq(s, 1, e)) \subseteq ToSet(s)
         /\ ToSet(SubSeq(s, e + 1, Len(s))) = ToSet(s) \ ToSet(SubSeq(s, 1, e))
         /\ Distinct(SubSeq(s, e + 1, Len(s)))
  <1> DEFINE f == SubSeq(s, 1, e)
             b == SubSeq(s, e + 1, Len(s))
  <1>1. Len(s) \in Nat /\ \A k \in 1 .. Len(s) : s[k] \in S
    OBVIOUS
  <1>2. f \in Seq(S) /\ Len(f) = e /\ \A k \in 1 .. e : f[k] = s[k]
    <2>1. \A k \in 1 .. e : s[k] \in S
      BY <1>1
    <2>2. /\ f \in Seq(S) /\ Len(f) = IF 1 <= e THEN e - 1 + 1 ELSE 0
          /\ \A k \in 1 .. e - 1 + 1 : f[k] = s[1 + k - 1]
      BY <1>1, <2>1, SubSeqProperties
    <2> HIDE DEF f
    <2> QED BY <1>1, <2>2
  <1>3. b \in Seq(S) /\ Len(b) = Len(s) - e /\ \A k \in 1 .. Len(s) - e : b[k] = s[e + k]
    <2>1. \A k \in e + 1 .. Len(s) : s[k] \in S
      BY <1>1
    <2>2. /\ b \in Seq(S) /\ Len(b) = IF e + 1 <= Len(s) THEN Len(s) - (e + 1) + 1 ELSE 0
          /\ \A k \in 1 .. Len(s) - (e + 1) + 1 : b[k] = s[(e + 1) + k - 1]
      BY <1>1, <2>1, SubSeqProperties
    <2> HIDE DEF b
    <2> QED BY <1>1, <2>2
  <1> HIDE DEF f, b
  <1>4. ToSet(f) = {s[k] : k \in 1 .. e}
    <2>1. ToSet(f) = {f[k] : k \in 1 .. e}
      BY <1>2, SetOfList
    <2> QED BY <1>2, <2>1
  <1>5. ToSet(b) = {s[k] : k \in e + 1 .. Len(s)}
    <2>1. ToSet(b) = {b[k] : k \in 1 .. Len(s) - e}
      BY <1>3, SetOfList
    <2>2. \A k \in 1 .. Len(s) - e : e + k \in e + 1 .. Len(s) /\ b[k] = s[e + k]
      BY <1>1, <1>3
    <2>3. \A k \in e + 1 .. Len(s) : k - e \in 1 .. Len(s) - e /\ b[k - e] = s[k]
      BY <1>1, <1>3
    <2> QED BY <2>1, <2>2, <2>3
  <1>6. ToSet(s) = {s[k] : k \in 1 .. Len(s)}
    BY SetOfList
  <1>7. /\ \A k \in 1 .. e : k \in 1 .. Len(s) /\ k \notin e + 1 .. Len(s)
        /\ \A k \in 1 .. Len(s) : k \in 1 .. e \/ k \in e + 1 .. Len(s)
        /\ \A k \in e + 1 .. Len(s) : k \in 1 .. Len(s)
    BY <1>1
  <1>8. \A j, k \in 1 .. Len(s) : s[j] = s[k] => j = k
    BY DEF Distinct
  <1>9. ToSet(f) \subseteq ToSet(s) /\ ToSet(b) = ToSet(s) \ ToSet(f)
    BY <1>4, <1>5, <1>6, <1>7, <1>8
  <1>10. Distinct(b)
    <2> SUFFICES ASSUME NEW j \in 1 .. Len(b), NEW k \in 1 .. Len(b), b[j] = b[k]
                 PROVE  j = k
      BY DEF Distinct
    <2>1. e + j \in 1 .. Len(s) /\ e + k \in 1 .. Len(s) /\ s[e + j] = s[e + k]
      BY <1>1, <1>3
    <2>2. e + j = e + k
      BY <1>8, <2>1
    <2> QED BY <1>1, <1>3, <2>2
  <1> QED BY <1>3, <1>9, <1>10 DEF f, b

\* A list of distinct elements is as long as its set is large.
LEMMA DistinctCount ==
  ASSUME NEW S, NEW s \in Seq(S), Distinct(s)
  PROVE  IsFiniteSet(ToSet(s)) /\ Cardinality(ToSet(s)) = Len(s)
  <1>1. Len(s) \in Nat
    OBVIOUS
  <1>2. IsFiniteSet(1 .. Len(s)) /\ Cardinality(1 .. Len(s)) = Len(s)
    <2>1. Len(s) - 1 + 1 = Len(s) /\ (1 <= Len(s) \/ Len(s) = 0)
      BY <1>1
    <2>2. /\ IsFiniteSet(1 .. Len(s))
          /\ Cardinality(1 .. Len(s)) = IF 1 > Len(s) THEN 0 ELSE Len(s) - 1 + 1
      BY <1>1, FS_Interval
    <2> QED BY <1>1, <2>1, <2>2
  <1>3. s \in [1 .. Len(s) -> ToSet(s)]
    BY SetOfList
  <1>4. s \in Injection(1 .. Len(s), ToSet(s))
    BY <1>3 DEF Distinct, Injection, IsInjective
  <1>5. s \in Surjection(1 .. Len(s), ToSet(s))
    BY <1>3, SetOfList DEF Surjection
  <1>6. ExistsBijection(1 .. Len(s), ToSet(s))
    BY <1>4, <1>5 DEF ExistsBijection, Bijection
  <1> QED BY <1>2, <1>6, FS_Bijection
-----------------------------------------------------------------------------
(***************************************************************************)
(* The inductive invariant.                                                *)
(***************************************************************************)
PlanRecords == [root : Nat, live : BOOLEAN, op_head : Seq(OpIds), op_cnt : Int]

OpRecords ==
  [params : Params \cup {None}, plan : PlanIds \cup {None}, live : BOOLEAN, running : Nat]

CacheTypes ==
  /\ pcache \in [Positions -> PlanIds \cup {None}]
  /\ plan \in [PlanIds -> PlanRecords]
  /\ op \in [OpIds -> OpRecords]
  /\ pending \in Seq(OpIds)
  /\ barrier \in BOOLEAN /\ releasing \in BOOLEAN
  /\ coll \in OpIds \cup {None}

Listed(i) == ToSet(plan[i].op_head)
Waiting == ToSet(pending)

\* Each position has a plan of its own.
PlansCached ==
  \A x \in Positions : pcache[x] # None =>
    /\ plan[pcache[x]].live
    /\ \A y \in Positions : pcache[y] = pcache[x] => y = x

\* An operation that is kept belongs to the plan in the position of its
\* parameters.
OpsFit ==
  \A o \in OpIds : op[o].live =>
    /\ op[o].params \in Params /\ op[o].plan \in PlanIds
    /\ plan[op[o].plan].live
    /\ plan[op[o].plan].root = op[o].params.root
    /\ pcache[Position(op[o].params)] = op[o].plan

\* It is on its plan's list or on the queue, on one of them and once.
ListsExact ==
  /\ \A i \in PlanIds :
       /\ Distinct(plan[i].op_head)
       /\ \A o \in Listed(i) : op[o].live /\ op[o].plan = i /\ o \notin Waiting
  /\ Distinct(pending)
  /\ \A o \in Waiting : op[o].live
  /\ \A o \in OpIds : op[o].live => o \in Waiting \/ o \in Listed(op[o].plan)

\* A plan's count is that of both lists.
CountsBoth ==
  \A i \in PlanIds : plan[i].live =>
    /\ plan[i].op_cnt = Len(plan[i].op_head) + Cardinality(QueuedOf(i))
    /\ plan[i].op_cnt <= MaxOps

\* As long as an operation may join the queue there runs a barrier that is not
\* on it: so fewer wait than may be active.
QueueShort ==
  /\ Len(pending) < MaxActive
  /\ releasing => pending # <<>>
  /\ barrier => \E b \in OpIds : op[b].running > 0 /\ IsBarrier(b) /\ b \notin Waiting

\* The handle created last is for an operation nobody uses yet.
HandleFree == coll # None => op[coll].live /\ ~ Active(coll)

CacheInv ==
  /\ CacheTypes
  /\ PlansCached
  /\ OpsFit
  /\ ListsExact
  /\ ActiveAlive
  /\ CountsBoth
  /\ QueueShort
  /\ HandleFree


-----------------------------------------------------------------------------
\* What the types say of the lists.
LEMMA ListTypes ==
  ASSUME CacheTypes
  PROVE  /\ Waiting \subseteq OpIds
         /\ \A i \in PlanIds : plan[i].op_head \in Seq(OpIds) /\ Listed(i) \subseteq OpIds
         /\ \A i : QueuedOf(i) \subseteq Waiting /\ IsFiniteSet(QueuedOf(i))
         /\ \A i : Cardinality(QueuedOf(i)) \in Nat
  <1>1. Waiting \subseteq OpIds
    BY SetOfList DEF CacheTypes, Waiting
  <1>2. ASSUME NEW i \in PlanIds
        PROVE  plan[i].op_head \in Seq(OpIds) /\ Listed(i) \subseteq OpIds
    <2>1. plan[i].op_head \in Seq(OpIds)
      BY DEF CacheTypes, PlanRecords
    <2> QED BY <2>1, SetOfList DEF Listed
  <1>3. ASSUME NEW i
        PROVE  /\ QueuedOf(i) \subseteq Waiting
               /\ IsFiniteSet(QueuedOf(i)) /\ Cardinality(QueuedOf(i)) \in Nat
    <2>1. QueuedOf(i) \subseteq Waiting
      BY DEF QueuedOf, Waiting
    <2>2. QueuedOf(i) \in SUBSET OpIds /\ IsFiniteSet(OpIds)
      BY <1>1, <2>1, PlanCacheAssumption
    <2>3. IsFiniteSet(QueuedOf(i))
      BY <2>2, FS_Subset
    <2> QED BY <2>1, <2>3, FS_CardinalityType
  <1> QED BY <1>1, <1>2, <1>3

\* An operation is active when it runs or waits.
LEMMA ActiveIs ==
  ASSUME NEW o
  PROVE  Active(o) <=> op[o].running > 0 \/ o \in Waiting
  BY DEF Active, Waiting

\* As long as only runs begin and end, plans and lists agree as before.
LEMMA OnlyRuns ==
  ASSUME CacheTypes, PlansCached, OpsFit, ListsExact, CountsBoth,
         UNCHANGED <<pcache, plan, pending>>,
         \A o \in OpIds : /\ op'[o].live = op[o].live /\ op'[o].plan = op[o].plan
                          /\ op'[o].params = op[o].params
  PROVE  PlansCached' /\ OpsFit' /\ ListsExact' /\ CountsBoth'
  <1>1. Waiting' = Waiting /\ \A i : Listed(i)' = Listed(i)
    BY DEF Waiting, Listed
  <1>2. Waiting \subseteq OpIds /\ \A i \in PlanIds : Listed(i) \subseteq OpIds
    BY ListTypes
  <1>3. PlansCached' /\ OpsFit'
    BY DEF PlansCached, OpsFit
  <1>4. ListsExact'
    BY <1>1, <1>2 DEF ListsExact
  <1>5. \A i : QueuedOf(i)' = QueuedOf(i)
    BY <1>2 DEF QueuedOf, Waiting
  <1>6. CountsBoth'
    BY <1>5 DEF CountsBoth
  <1> QED BY <1>3, <1>4, <1>6

\* The first operation found on the list is handed out as it is.
LEMMA ReuseStep ==
  ASSUME Careful, CacheInv, NEW p \in Params, CreateReuse(p)
  PROVE  CacheInv'
  <1>1. UNCHANGED <<pcache, plan, op, pending, barrier, releasing>>
    BY DEF CreateReuse
  <1>2. PICK i, k : /\ i = Find(p) /\ i # None /\ k \in Reusable(i, p)
                    /\ Spares({plan[i].op_head[k]}) /\ coll' = plan[i].op_head[k]
    BY DEF CreateReuse
  <1>3. i \in PlanIds
    <2>1. i = pcache[Position(p)] /\ Position(p) \in Positions
      BY <1>2 DEF Find, Positions
    <2> QED BY <1>2, <2>1 DEF CacheInv, CacheTypes
  <1>4. k \in 1 .. Len(plan[i].op_head) /\ plan[i].op_head \in Seq(OpIds)
    BY <1>2, <1>3, ListTypes DEF CacheInv, Reusable
  <1>5. coll' \in Listed(i) /\ coll' \in OpIds
    BY <1>2, <1>4, SetOfList DEF Listed
  <1>6. op[coll'].live /\ ~ Active(coll')
    BY <1>2, <1>3, <1>5 DEF CacheInv, ListsExact, Spares
  <1>7. HandleFree'
    BY <1>1, <1>6 DEF HandleFree, Active
  <1>8. CacheTypes'
    BY <1>1, <1>5 DEF CacheInv, CacheTypes
  <1>9. PlansCached' /\ OpsFit' /\ ListsExact' /\ CountsBoth'
    BY <1>1, OnlyRuns DEF CacheInv
  <1>10. ActiveAlive' /\ QueueShort'
    BY <1>1 DEF CacheInv, ActiveAlive, QueueShort, Active, Waiting, IsBarrier
  <1> QED BY <1>7, <1>8, <1>9, <1>10 DEF CacheInv

\* A collective that is over leaves its operation where it is.
LEMMA CompleteStep ==
  ASSUME CacheInv, NEW o \in OpIds, Complete(o)
  PROVE  CacheInv'
  <1>1. /\ UNCHANGED <<pcache, plan, pending, coll>>
        /\ op[o].running > 0 /\ op' = [op EXCEPT ![o].running = @ - 1] /\ ~ releasing
    BY DEF Complete
  <1>2. op \in [OpIds -> OpRecords] /\ op[o].running \in Nat
    BY DEF CacheInv, CacheTypes, OpRecords
  <1>3. /\ \A q \in OpIds : q # o => op'[q] = op[q]
        /\ op'[o] = [op[o] EXCEPT !.running = @ - 1]
    BY <1>1, <1>2
  <1>4. /\ \A q \in OpIds : /\ op'[q].live = op[q].live /\ op'[q].plan = op[q].plan
                            /\ op'[q].params = op[q].params
        /\ op'[o].running = op[o].running - 1
    BY <1>2, <1>3 DEF OpRecords
  <1>5. op' \in [OpIds -> OpRecords]
    BY <1>1, <1>2 DEF OpRecords
  <1>6. PlansCached' /\ OpsFit' /\ ListsExact' /\ CountsBoth'
    BY <1>1, <1>4, OnlyRuns DEF CacheInv
  <1>7. Waiting' = Waiting
    BY <1>1 DEF Waiting
  <1>8. \A q \in OpIds : op'[q].running > 0 => op[q].running > 0
    BY <1>1, <1>3
  <1>9. \A q \in OpIds : Active(q)' => Active(q)
    BY <1>7, <1>8, ActiveIs DEF Active, Waiting
  <1>10. ActiveAlive'
    BY <1>4, <1>9 DEF CacheInv, ActiveAlive
  <1>11. HandleFree'
    BY <1>1, <1>4, <1>9 DEF CacheInv, CacheTypes, HandleFree
  <1>12. CASE IsBarrier(o) /\ barrier
    <2>1. barrier' = FALSE /\ releasing' = (pending # <<>>)
      BY <1>12, Zenon DEF Complete
    <2>2. CacheTypes'
      BY <1>1, <1>5, <2>1 DEF CacheInv, CacheTypes
    <2>3. QueueShort'
      BY <1>1, <2>1 DEF CacheInv, QueueShort
    <2> QED BY <1>6, <1>10, <1>11, <2>2, <2>3 DEF CacheInv
  <1>13. CASE ~ (IsBarrier(o) /\ barrier)
    <2>1. barrier' = barrier /\ releasing' = releasing
      BY <1>13, Zenon DEF Complete
    <2>2. CacheTypes'
      BY <1>1, <1>5, <2>1 DEF CacheInv, CacheTypes
    <2>3. ASSUME barrier
          PROVE  \E b \in OpIds : IsBarrier(b)' /\ op'[b].running > 0 /\ b \notin Waiting
      <3>1. PICK b \in OpIds : IsBarrier(b) /\ op[b].running > 0 /\ b \notin Waiting
        BY <2>3 DEF CacheInv, QueueShort
      <3> QED BY <1>3, <1>13, <2>3, <3>1 DEF IsBarrier
    <2>4. QueueShort'
      BY <1>1, <1>7, <2>1, <2>3 DEF CacheInv, QueueShort
    <2> QED BY <1>6, <1>10, <1>11, <2>2, <2>4 DEF CacheInv
  <1> QED BY <1>12, <1>13

\* Nothing is kept at first.
LEMMA InitInv ==
  ASSUME Init
  PROVE  CacheInv
  <1>1. /\ \A i \in PlanIds : plan[i] = NoPlan
        /\ \A o \in OpIds : op[o] = NoOp
    BY DEF Init
  <1>2. CacheTypes
    <2>1. NoPlan \in PlanRecords
      BY DEF NoPlan, PlanRecords
    <2>2. NoOp \in OpRecords
      BY DEF NoOp, OpRecords
    <2>3. pcache \in [Positions -> PlanIds \cup {None}]
      BY DEF Init
    <2>4. plan \in [PlanIds -> PlanRecords] /\ op \in [OpIds -> OpRecords]
      BY <2>1, <2>2 DEF Init
    <2>5. pending \in Seq(OpIds)
      <3>1. <<>> \in Seq(OpIds)
        OBVIOUS
      <3> QED BY <3>1 DEF Init
    <2>6. barrier \in BOOLEAN /\ releasing \in BOOLEAN /\ coll \in OpIds \cup {None}
      BY DEF Init
    <2> QED BY <2>3, <2>4, <2>5, <2>6 DEF CacheTypes
  <1>3. PlansCached /\ OpsFit
    BY <1>1 DEF Init, PlansCached, OpsFit, NoOp
  <1>4. Waiting = {} /\ \A i \in PlanIds : Listed(i) = {} /\ plan[i].op_head = <<>>
    <2>1. <<>> \in Seq(OpIds) /\ Len(<<>>) = 0
      OBVIOUS
    <2>2. ToSet(<<>>) = {}
      BY <2>1, EmptySet
    <2> QED BY <1>1, <2>2 DEF Init, Waiting, Listed, NoPlan
  <1>5. ListsExact
    <2>1. Distinct(<<>>)
      BY DEF Distinct
    <2> QED BY <1>1, <1>4, <2>1 DEF Init, ListsExact, NoOp
  <1>6. \A o \in OpIds : ~ Active(o)
    BY <1>1, <1>4, ActiveIs DEF NoOp
  <1>7. ActiveAlive /\ HandleFree
    BY <1>6 DEF Init, ActiveAlive, HandleFree
  <1>8. CountsBoth
    BY <1>1 DEF CountsBoth, NoPlan
  <1>9. QueueShort
    BY PlanCacheAssumption DEF Init, QueueShort
  <1> QED BY <1>2, <1>3, <1>5, <1>7, <1>8, <1>9 DEF CacheInv

\* A new operation is running, and the others are as they were.
LEMMA RunOneIs ==
  ASSUME CacheTypes, NEW o \in OpIds
  PROVE  /\ RunOne(op, o) \in [OpIds -> OpRecords]
         /\ \A q \in OpIds : q # o => RunOne(op, o)[q] = op[q]
         /\ \A q \in OpIds : /\ RunOne(op, o)[q].live = op[q].live
                             /\ RunOne(op, o)[q].plan = op[q].plan
                             /\ RunOne(op, o)[q].params = op[q].params
         /\ RunOne(op, o)[o].running > 0
  <1>1. op \in [OpIds -> OpRecords] /\ op[o].running \in Nat
    BY DEF CacheTypes, OpRecords
  <1>2. /\ \A q \in OpIds : q # o => RunOne(op, o)[q] = op[q]
        /\ RunOne(op, o)[o] = [op[o] EXCEPT !.running = @ + 1]
    BY <1>1 DEF RunOne
  <1>3. RunOne(op, o)[o] \in OpRecords /\ RunOne(op, o)[o].running > 0
    BY <1>1, <1>2 DEF OpRecords
  <1>4. /\ RunOne(op, o)[o].live = op[o].live /\ RunOne(op, o)[o].plan = op[o].plan
        /\ RunOne(op, o)[o].params = op[o].params
    BY <1>1, <1>2 DEF OpRecords
  <1>5. RunOne(op, o) \in [OpIds -> OpRecords]
    BY <1>1, <1>3 DEF RunOne, OpRecords
  <1> QED BY <1>2, <1>3, <1>4, <1>5

\* A collective started with no barrier ahead of it runs, or is through at once.
LEMMA StartRuns ==
  ASSUME CacheInv, Start, ~ barrier
  PROVE  CacheInv'
  <1> DEFINE o == coll
  <1>1. /\ o \in OpIds /\ coll' = None /\ barrier' = IsBarrier(o)
        /\ op' \in {RunOne(op, o)} \cup (IF IsBarrier(o) THEN {} ELSE {op})
        /\ UNCHANGED <<pcache, plan, pending, releasing>> /\ ~ releasing
    BY DEF Start, CacheInv, CacheTypes
  <1>2. op[o].live /\ ~ Active(o)
    BY <1>1 DEF Start, CacheInv, HandleFree
  <1> HIDE DEF o
  <1>3. CacheTypes
    BY DEF CacheInv
  <1>4. op' = RunOne(op, o) \/ (op' = op /\ ~ IsBarrier(o))
    BY <1>1, Zenon
  <1>5. /\ op' \in [OpIds -> OpRecords]
        /\ \A q \in OpIds : /\ op'[q].live = op[q].live /\ op'[q].plan = op[q].plan
                            /\ op'[q].params = op[q].params
        /\ \A q \in OpIds : q # o => op'[q] = op[q]
        /\ IsBarrier(o) => op'[o].running > 0
    BY <1>1, <1>3, <1>4, RunOneIs DEF CacheTypes
  <1>6. CacheTypes'
    <2>1. barrier' \in BOOLEAN
      BY <1>1, Zenon DEF IsBarrier
    <2> QED BY <1>1, <1>3, <1>5, <2>1 DEF CacheTypes
  <1>7. PlansCached' /\ OpsFit' /\ ListsExact' /\ CountsBoth'
    BY <1>1, <1>5, OnlyRuns DEF CacheInv
  <1>8. Waiting' = Waiting /\ o \notin Waiting
    BY <1>1, <1>2, ActiveIs DEF Waiting
  <1>9. ActiveAlive'
    <2> SUFFICES ASSUME NEW q \in OpIds, Active(q)' PROVE op'[q].live
      BY DEF ActiveAlive
    <2>1. CASE q = o
      BY <1>1, <1>2, <1>5, <2>1
    <2>2. CASE q # o
      <3>1. Active(q)
        BY <1>5, <1>8, <2>2 DEF Active, Waiting
      <3> QED BY <1>5, <3>1 DEF CacheInv, ActiveAlive
    <2> QED BY <2>1, <2>2
  <1>10. HandleFree'
    BY <1>1 DEF HandleFree
  <1>11. QueueShort'
    <2>1. ASSUME barrier'
          PROVE  \E b \in OpIds : IsBarrier(b)' /\ op'[b].running > 0 /\ b \notin Waiting'
      <3>1. IsBarrier(o)
        BY <1>1, <2>1
      <3> QED BY <1>1, <1>5, <1>8, <3>1 DEF IsBarrier
    <2> QED BY <1>1, <2>1 DEF CacheInv, QueueShort
  <1> QED BY <1>6, <1>7, <1>9, <1>10, <1>11 DEF CacheInv

\* One plan's list is changed, and nothing else of the plans.
LEMMA ListChanged ==
  ASSUME CacheTypes, PlansCached, OpsFit, NEW i \in PlanIds, NEW list \in Seq(OpIds),
         plan' = [plan EXCEPT ![i].op_head = list], UNCHANGED pcache,
         \A q \in OpIds : /\ op'[q].live = op[q].live /\ op'[q].plan = op[q].plan
                          /\ op'[q].params = op[q].params
  PROVE  /\ plan' \in [PlanIds -> PlanRecords]
         /\ plan'[i].op_head = list
         /\ \A j \in PlanIds : j # i => plan'[j].op_head = plan[j].op_head
         /\ \A j \in PlanIds : plan'[j].live = plan[j].live /\ plan'[j].op_cnt = plan[j].op_cnt
         /\ PlansCached' /\ OpsFit'
  <1>1. plan \in [PlanIds -> PlanRecords]
    BY DEF CacheTypes
  <1>2. /\ plan'[i] = [plan[i] EXCEPT !.op_head = list]
        /\ \A j \in PlanIds : j # i => plan'[j] = plan[j]
    BY <1>1
  <1>3. /\ plan'[i] \in PlanRecords /\ plan'[i].op_head = list
        /\ plan'[i].live = plan[i].live /\ plan'[i].op_cnt = plan[i].op_cnt
        /\ plan'[i].root = plan[i].root
    <2>1. plan[i] \in PlanRecords
      BY <1>1
    <2>2. [plan[i] EXCEPT !.op_head = list] \in PlanRecords
      BY ONLY <2>1, list \in Seq(OpIds) DEF PlanRecords
    <2>3. /\ [plan[i] EXCEPT !.op_head = list].op_head = list
          /\ [plan[i] EXCEPT !.op_head = list].live = plan[i].live
          /\ [plan[i] EXCEPT !.op_head = list].op_cnt = plan[i].op_cnt
          /\ [plan[i] EXCEPT !.op_head = list].root = plan[i].root
      BY ONLY <2>1 DEF PlanRecords
    <2> QED BY ONLY <1>2, <2>2, <2>3
  <1>4. plan' \in [PlanIds -> PlanRecords]
    BY <1>1, <1>3 DEF PlanRecords
  <1>5. \A j \in PlanIds : /\ plan'[j].live = plan[j].live /\ plan'[j].root = plan[j].root
                           /\ plan'[j].op_cnt = plan[j].op_cnt
    BY <1>2, <1>3
  <1>6. PlansCached'
    BY <1>5 DEF PlansCached, CacheTypes
  <1>7. OpsFit'
    BY <1>5 DEF OpsFit
  <1> QED BY <1>2, <1>3, <1>4, <1>5, <1>6, <1>7

\* Behind a barrier it goes from its plan's list to the queue.
LEMMA StartWaits ==
  ASSUME CacheInv, Start, barrier
  PROVE  CacheInv'
  <1> USE DEF CacheInv
  <1> DEFINE i == op[coll].plan
             k == CHOOSE k \in DOMAIN plan[i].op_head : plan[i].op_head[k] = coll
             rest == RemoveAt(plan[i].op_head, k)
  <1>1. /\ coll \in OpIds /\ coll' = None /\ Cardinality(ActiveOps) < MaxActive
        /\ pending' = Append(pending, coll) /\ plan' = [plan EXCEPT ![i].op_head = rest]
        /\ UNCHANGED <<pcache, op, barrier, releasing>> /\ ~ releasing
    BY DEF Start, CacheTypes, LeaveOpHead
  <1>2. op[coll].live /\ ~ Active(coll) /\ coll \notin Waiting
    BY <1>1, ActiveIs DEF Start, HandleFree
  <1>3. i \in PlanIds /\ plan[i].live /\ coll \in Listed(i) /\ Distinct(plan[i].op_head)
    BY <1>1, <1>2 DEF OpsFit, ListsExact
  <1>4. plan[i].op_head \in Seq(OpIds)
    BY <1>3, ListTypes
  <1>5. k \in 1 .. Len(plan[i].op_head) /\ plan[i].op_head[k] = coll
    <2>1. DOMAIN plan[i].op_head = 1 .. Len(plan[i].op_head)
      BY <1>4
    <2>2. \E x \in 1 .. Len(plan[i].op_head) : plan[i].op_head[x] = coll
      BY <1>3, <1>4, SetOfList DEF Listed
    <2> QED BY <2>1, <2>2
  <1> HIDE DEF k
  <1>6. /\ rest \in Seq(OpIds) /\ Len(rest) = Len(plan[i].op_head) - 1
        /\ ToSet(rest) = Listed(i) \ {coll} /\ Distinct(rest)
    <2>1. PICK list, x : list = plan[i].op_head /\ x = k
      OBVIOUS
    <2>2. list \in Seq(OpIds) /\ x \in 1 .. Len(list) /\ Distinct(list)
      BY <1>3, <1>4, <1>5, <2>1
    <2>3. /\ RemoveAt(list, x) \in Seq(OpIds) /\ Len(RemoveAt(list, x)) = Len(list) - 1
          /\ ToSet(RemoveAt(list, x)) = ToSet(list) \ {list[x]} /\ Distinct(RemoveAt(list, x))
      BY <2>2, RemoveSet
    <2> QED BY <1>5, <2>1, <2>3 DEF Listed
  <1> HIDE DEF rest
  <1>7. PICK m, l : m = i /\ l = rest
    OBVIOUS
  <1> HIDE DEF i
  <1>8. /\ plan' \in [PlanIds -> PlanRecords] /\ plan'[m].op_head = l
        /\ \A j \in PlanIds : j # m => plan'[j].op_head = plan[j].op_head
        /\ \A j \in PlanIds : plan'[j].live = plan[j].live /\ plan'[j].op_cnt = plan[j].op_cnt
        /\ PlansCached' /\ OpsFit'
    BY <1>1, <1>3, <1>6, <1>7, ListChanged
  <1>9. /\ pending' \in Seq(OpIds) /\ Len(pending') = Len(pending) + 1
        /\ Waiting' = Waiting \cup {coll} /\ Distinct(pending')
    BY <1>1, <1>2, AppendSet DEF CacheTypes, ListsExact, Waiting
  <1>10. /\ Listed(m)' = Listed(m) \ {coll}
         /\ \A j \in PlanIds : j # m => Listed(j)' = Listed(j)
    <2>1. Listed(m)' = ToSet(l)
      BY <1>7, <1>8 DEF Listed
    <2> QED BY <1>6, <1>7, <1>8, <2>1 DEF Listed
  <1>11. CacheTypes'
    BY <1>1, <1>8, <1>9 DEF CacheTypes
  <1>12. ListsExact'
    <2>1. \A j \in PlanIds : Distinct(plan'[j].op_head)
      BY <1>6, <1>7, <1>8 DEF ListsExact
    <2>2. \A j \in PlanIds : \A o \in Listed(j)' : op'[o].live /\ op'[o].plan = j /\ o \notin Waiting'
      BY <1>1, <1>7, <1>9, <1>10 DEF ListsExact, i
    <2>3. \A o \in Waiting' : op'[o].live
      BY <1>1, <1>2, <1>9 DEF ListsExact
    <2>4. \A o \in OpIds, j \in PlanIds :
            op'[o].live /\ op'[o].plan = j => o \in Waiting' \/ o \in Listed(j)'
      BY <1>1, <1>7, <1>9, <1>10 DEF ListsExact
    <2>5. \A o \in OpIds : op'[o].live => op'[o].plan \in PlanIds
      BY <1>1 DEF OpsFit
    <2> QED BY <1>9, <2>1, <2>2, <2>3, <2>4, <2>5 DEF ListsExact, Listed
  <1>13. ActiveAlive' /\ HandleFree'
    BY <1>1, <1>2, <1>9 DEF ActiveAlive, Active, Waiting, HandleFree
  <1>14. CountsBoth'
    <2>1. QueuedOf(m)' = QueuedOf(m) \cup {coll} /\ coll \notin QueuedOf(m)
      BY <1>1, <1>2, <1>7, <1>9 DEF QueuedOf, Waiting, i
    <2>2. \A j \in PlanIds : j # m => QueuedOf(j)' = QueuedOf(j)
      BY <1>1, <1>7, <1>9 DEF QueuedOf, Waiting, i
    <2>3. Cardinality(QueuedOf(m)') = Cardinality(QueuedOf(m)) + 1
      BY <2>1, ListTypes, FS_AddElement
    <2>4. Len(plan'[m].op_head) + Cardinality(QueuedOf(m)') = Len(plan[m].op_head) + Cardinality(QueuedOf(m))
      <3>1. Len(plan[m].op_head) \in Nat /\ Cardinality(QueuedOf(m)) \in Nat
        BY <1>4, <1>7, ListTypes
      <3>2. Len(plan'[m].op_head) = Len(plan[m].op_head) - 1
        BY <1>6, <1>7, <1>8
      <3>3. \A x, y \in Nat : (x - 1) + (y + 1) = x + y
        OBVIOUS
      <3> QED BY <2>3, <3>1, <3>2, <3>3, Zenon
    <2>5. plan[m].op_cnt <= MaxOps /\ plan[m].op_cnt = Len(plan[m].op_head) + Cardinality(QueuedOf(m))
      BY <1>3, <1>7 DEF CountsBoth
    <2> QED BY <1>8, <2>2, <2>4, <2>5 DEF CountsBoth
  <1>15. QueueShort'
    <2>1. PICK b \in OpIds : IsBarrier(b) /\ op[b].running > 0 /\ b \notin Waiting
      BY DEF Start, QueueShort
    <2>2. b # coll /\ Waiting \cup {b, coll} \subseteq OpIds
      BY <1>1, <1>2, <2>1, ListTypes DEF Active
    <2>3. Waiting \cup {b} \subseteq ActiveOps
      BY <2>2, ActiveIs, <2>1 DEF ActiveOps
    <2>4. IsFiniteSet(ActiveOps)
      <3>1. ActiveOps \in SUBSET OpIds
        BY DEF ActiveOps
      <3> QED BY <3>1, FS_Subset, PlanCacheAssumption
    <2>5. Cardinality(Waiting) = Len(pending) /\ IsFiniteSet(Waiting)
      BY DistinctCount DEF CacheTypes, ListsExact, Waiting
    <2>6. Cardinality(Waiting \cup {b}) = Len(pending) + 1
      BY <2>1, <2>5, FS_AddElement
    <2>7. Len(pending) + 1 <= Cardinality(ActiveOps)
      BY <2>3, <2>4, <2>6, FS_Subset
    <2>8. Cardinality(ActiveOps) \in Nat /\ Len(pending) \in Nat
      BY <2>4, FS_CardinalityType DEF CacheTypes
    <2>9. Len(pending') < MaxActive
      BY <1>1, <1>9, <2>7, <2>8, PlanCacheAssumption
    <2>10. b \notin Waiting' /\ IsBarrier(b)' /\ op'[b].running > 0
      BY <1>1, <1>9, <2>1, <2>2 DEF IsBarrier
    <2> QED BY <1>1, <2>9, <2>10 DEF QueueShort
  <1> QED BY <1>8, <1>11, <1>12, <1>13, <1>14, <1>15

\* The end of a barrier puts the oldest waiting operation back on its plan's
\* list, whether it then runs or is through at once.
LEMMA ReleaseStep ==
  ASSUME CacheInv, Release
  PROVE  CacheInv'
  <1> USE DEF CacheInv
  <1>1. PICK o, m, l : o = Head(pending) /\ m = op[o].plan /\ l = <<o>> \o plan[m].op_head
    OBVIOUS
  <1>2. /\ pending # <<>> /\ pending' = Tail(pending) /\ plan' = [plan EXCEPT ![m].op_head = l]
        /\ UNCHANGED <<pcache, coll>>
        /\ \/ op' = RunOne(op, o) /\ barrier' = IsBarrier(o) /\ releasing' = FALSE
           \/ /\ ~ IsBarrier(o) /\ op' = op /\ barrier' = barrier
              /\ releasing' = (pending' # <<>>)
    <2>1. plan' = BackOnOpHead(o)
      BY <1>1 DEF Release
    <2>2. BackOnOpHead(o) = [plan EXCEPT ![m].op_head = l]
      BY <1>1 DEF BackOnOpHead
    <2>3. pending # <<>> /\ pending' = Tail(pending) /\ UNCHANGED <<pcache, coll>>
      BY DEF Release, QueueShort
    <2>4. \/ op' = RunOne(op, o) /\ barrier' = IsBarrier(o) /\ releasing' = FALSE
          \/ /\ ~ IsBarrier(o) /\ op' = op /\ barrier' = barrier
             /\ releasing' = (pending' # <<>>)
      BY <1>1, Zenon DEF Release
    <2> QED BY <2>1, <2>2, <2>3, <2>4
  <1>3. /\ o \in OpIds /\ o \in Waiting /\ pending' \in Seq(OpIds)
        /\ Len(pending') = Len(pending) - 1 /\ Waiting' = Waiting \ {o} /\ Distinct(pending')
    BY <1>1, <1>2, TailSet DEF CacheTypes, ListsExact, Waiting
  <1>4. op[o].live /\ m \in PlanIds /\ plan[m].live /\ o \notin Listed(m)
    BY <1>1, <1>3 DEF ListsExact, OpsFit
  <1>5. plan[m].op_head \in Seq(OpIds) /\ Distinct(plan[m].op_head)
    BY <1>4, ListTypes DEF ListsExact
  <1>6. /\ l \in Seq(OpIds) /\ Len(l) = Len(plan[m].op_head) + 1
        /\ ToSet(l) = {o} \cup Listed(m) /\ Distinct(l)
    <2>1. PICK list : list = plan[m].op_head
      OBVIOUS
    <2>2. list \in Seq(OpIds) /\ Distinct(list) /\ o \notin ToSet(list) /\ l = <<o>> \o list
      BY <1>1, <1>4, <1>5, <2>1 DEF Listed
    <2>3. /\ l \in Seq(OpIds) /\ Len(l) = Len(list) + 1
          /\ ToSet(l) = {o} \cup ToSet(list) /\ Distinct(l)
      BY <1>3, <2>2, ConsSet
    <2> QED BY <2>1, <2>3 DEF Listed
  <1>7. /\ op' \in [OpIds -> OpRecords]
        /\ \A q \in OpIds : /\ op'[q].live = op[q].live /\ op'[q].plan = op[q].plan
                            /\ op'[q].params = op[q].params
        /\ \A q \in OpIds : q # o => op'[q] = op[q]
    BY <1>2, <1>3, RunOneIs DEF CacheTypes
  <1>8. /\ plan' \in [PlanIds -> PlanRecords] /\ plan'[m].op_head = l
        /\ \A j \in PlanIds : j # m => plan'[j].op_head = plan[j].op_head
        /\ \A j \in PlanIds : plan'[j].live = plan[j].live /\ plan'[j].op_cnt = plan[j].op_cnt
        /\ PlansCached' /\ OpsFit'
    BY <1>2, <1>4, <1>6, <1>7, ListChanged
  <1>9. /\ Listed(m)' = {o} \cup Listed(m)
        /\ \A j \in PlanIds : j # m => Listed(j)' = Listed(j)
    <2>1. Listed(m)' = ToSet(l)
      BY <1>8 DEF Listed
    <2> QED BY <1>6, <1>8, <2>1 DEF Listed
  <1>10. CacheTypes'
    <2>1. barrier' \in BOOLEAN /\ releasing' \in BOOLEAN
      BY <1>2, Zenon DEF CacheTypes, IsBarrier
    <2> QED BY <1>2, <1>3, <1>7, <1>8, <2>1 DEF CacheTypes
  <1>11. ListsExact'
    <2>1. \A j \in PlanIds : Distinct(plan'[j].op_head)
      BY <1>6, <1>8 DEF ListsExact
    <2>2. \A j \in PlanIds : \A q \in Listed(j)' :
            op'[q].live /\ op'[q].plan = j /\ q \notin Waiting'
      <3>1. \A j \in PlanIds : Listed(j) \subseteq OpIds
        BY ListTypes
      <3>2. \A j \in PlanIds : \A q \in Listed(j) :
              op'[q].live /\ op'[q].plan = j /\ q \notin Waiting'
        BY <1>3, <1>7, <3>1 DEF ListsExact
      <3>3. op'[o].live /\ op'[o].plan = m /\ o \notin Waiting'
        BY <1>1, <1>3, <1>4, <1>7
      <3> QED BY <1>9, <3>2, <3>3
    <2>3. \A q \in Waiting' : op'[q].live
      BY <1>3, <1>7, ListTypes DEF ListsExact
    <2>4. \A q \in OpIds, j \in PlanIds :
            op'[q].live /\ op'[q].plan = j => q \in Waiting' \/ q \in Listed(j)'
      <3>1. \A q \in OpIds, j \in PlanIds :
              op'[q].live /\ op'[q].plan = j => q \in Waiting \/ q \in Listed(j)
        BY <1>7 DEF ListsExact
      <3>2. op'[o].plan = m
        BY <1>1, <1>3, <1>7
      <3> QED BY <1>3, <1>9, <3>1, <3>2
    <2>5. \A q \in OpIds : op'[q].live => op'[q].plan \in PlanIds
      BY <1>7 DEF OpsFit
    <2> QED BY <1>3, <2>1, <2>2, <2>3, <2>4, <2>5 DEF ListsExact, Listed
  <1>12. ActiveAlive'
    <2> SUFFICES ASSUME NEW q \in OpIds, Active(q)' PROVE op'[q].live
      BY DEF ActiveAlive
    <2>1. CASE q = o
      BY <1>4, <1>7, <2>1
    <2>2. CASE q # o
      <3>1. Active(q)
        BY <1>3, <1>7, <2>2 DEF Active, Waiting
      <3> QED BY <1>7, <3>1 DEF ActiveAlive
    <2> QED BY <2>1, <2>2
  <1>13. HandleFree'
    <2> SUFFICES ASSUME coll # None PROVE op'[coll].live /\ ~ Active(coll)'
      BY <1>2 DEF HandleFree
    <2>1. coll \in OpIds /\ op[coll].live /\ ~ Active(coll)
      BY DEF HandleFree, CacheTypes
    <2>2. coll # o
      BY <1>3, <2>1, ActiveIs
    <2> QED BY <1>2, <1>3, <1>7, <2>1, <2>2 DEF Active, Waiting
  <1>14. CountsBoth'
    <2>1. QueuedOf(m) = QueuedOf(m)' \cup {o} /\ o \notin QueuedOf(m)'
      <3>1. \A q \in Waiting : op'[q].plan = op[q].plan
        BY <1>7, ListTypes
      <3> QED BY <1>1, <1>3, <1>7, <3>1 DEF QueuedOf, Waiting
    <2>2. \A j \in PlanIds : j # m => QueuedOf(j)' = QueuedOf(j)
      <3>1. \A q \in Waiting : op'[q].plan = op[q].plan
        BY <1>7, ListTypes
      <3> QED BY <1>1, <1>3, <1>7, <3>1 DEF QueuedOf, Waiting
    <2>3. IsFiniteSet(QueuedOf(m)') /\ Cardinality(QueuedOf(m)') \in Nat
      <3>1. QueuedOf(m)' \in SUBSET QueuedOf(m) /\ IsFiniteSet(QueuedOf(m))
        BY <2>1, ListTypes
      <3>2. IsFiniteSet(QueuedOf(m)')
        BY <3>1, FS_Subset
      <3> QED BY <3>2, FS_CardinalityType
    <2>4. Cardinality(QueuedOf(m)) = Cardinality(QueuedOf(m)') + 1
      BY <2>1, <2>3, FS_AddElement
    <2>5. Len(plan[m].op_head) \in Nat
      BY <1>5
    <2>6. Len(plan'[m].op_head) + Cardinality(QueuedOf(m)') = Len(plan[m].op_head) + Cardinality(QueuedOf(m))
      <3>1. Len(plan'[m].op_head) = Len(plan[m].op_head) + 1
        BY <1>6, <1>8
      <3> QED BY <2>3, <2>4, <2>5, <3>1
    <2>7. plan[m].op_cnt <= MaxOps /\ plan[m].op_cnt = Len(plan[m].op_head) + Cardinality(QueuedOf(m))
      BY <1>4 DEF CountsBoth
    <2> QED BY <1>8, <2>2, <2>6, <2>7 DEF CountsBoth
  <1>15. QueueShort'
    <2>1. Len(pending') < MaxActive
      <3>1. Len(pending) \in Nat /\ Len(pending) < MaxActive
        BY DEF QueueShort, CacheTypes
      <3> QED BY <1>3, <3>1, PlanCacheAssumption
    <2>2. releasing' => pending' # <<>>
      BY <1>2, Zenon
    <2>3. ASSUME barrier'
          PROVE  \E b \in OpIds : IsBarrier(b)' /\ op'[b].running > 0 /\ b \notin Waiting'
      <3>1. CASE op' = RunOne(op, o) /\ barrier' = IsBarrier(o)
        <4>1. IsBarrier(o)' /\ op'[o].running > 0
          BY <1>3, <1>7, <2>3, <3>1, RunOneIs DEF IsBarrier
        <4> QED BY <1>3, <4>1
      <3>2. CASE op' = op /\ barrier' = barrier
        <4>1. PICK b \in OpIds : IsBarrier(b) /\ op[b].running > 0 /\ b \notin Waiting
          BY <2>3, <3>2 DEF QueueShort
        <4> QED BY <1>3, <3>2, <4>1 DEF IsBarrier
      <3> QED BY <1>2, <3>1, <3>2
    <2> QED BY <2>1, <2>2, <2>3 DEF QueueShort
  <1> QED BY <1>8, <1>10, <1>11, <1>12, <1>13, <1>14, <1>15

\* Where room has to be made there is an operation to discard: one is enough,
\* and fewer are on the queue than a plan keeps.
LEMMA Room ==
  ASSUME CacheInv, NEW i \in PlanIds, plan[i].live
  PROVE  /\ Excess(plan[i]) \in Nat /\ Excess(plan[i]) <= Len(plan[i].op_head)
         /\ plan[i].op_cnt - Excess(plan[i]) + 1 <= MaxOps
  <1>1. /\ plan[i].op_cnt \in Int /\ plan[i].op_cnt <= MaxOps
        /\ plan[i].op_cnt = Len(plan[i].op_head) + Cardinality(QueuedOf(i))
        /\ MaxOps \in Nat /\ MaxActive \in Nat /\ MaxActive <= MaxOps
    BY PlanCacheAssumption DEF CacheInv, CacheTypes, CountsBoth, PlanRecords
  <1>2. plan[i].op_head \in Seq(OpIds)
    BY ListTypes DEF CacheInv
  <1>3. Len(plan[i].op_head) \in Nat
    BY <1>2
  <1>4. Cardinality(QueuedOf(i)) < MaxActive /\ Cardinality(QueuedOf(i)) \in Nat
    <2>1. IsFiniteSet(Waiting) /\ Cardinality(Waiting) = Len(pending)
      BY DistinctCount DEF CacheInv, CacheTypes, ListsExact, Waiting
    <2>2. QueuedOf(i) \in SUBSET Waiting /\ Cardinality(QueuedOf(i)) \in Nat
      BY ListTypes DEF CacheInv
    <2>3. Cardinality(QueuedOf(i)) <= Cardinality(Waiting)
      BY <2>1, <2>2, FS_Subset
    <2>4. Len(pending) \in Nat /\ Len(pending) < MaxActive
      BY DEF CacheInv, CacheTypes, QueueShort
    <2> QED BY <1>1, <2>1, <2>2, <2>3, <2>4
  <1>5. Excess(plan[i]) = IF plan[i].op_cnt < MaxOps THEN 0 ELSE plan[i].op_cnt - MaxOps + 1
    BY DEF Excess
  <1>6. \A n, q, c \in Nat, e \in Int :
          /\ c = n + q /\ c <= MaxOps /\ q < MaxActive
          /\ e = IF c < MaxOps THEN 0 ELSE c - MaxOps + 1
          => e \in Nat /\ e <= n /\ c - e + 1 <= MaxOps
    BY <1>1
  <1>7. PICK n, q, c, e : /\ n = Len(plan[i].op_head) /\ q = Cardinality(QueuedOf(i))
                          /\ c = plan[i].op_cnt /\ e = Excess(plan[i])
    OBVIOUS
  <1>8. /\ n \in Nat /\ q \in Nat /\ c \in Int /\ c = n + q /\ c <= MaxOps /\ q < MaxActive
        /\ e = IF c < MaxOps THEN 0 ELSE c - MaxOps + 1
    BY <1>1, <1>3, <1>4, <1>5, <1>7, Zenon
  <1>9. c \in Nat /\ e \in Int
    BY <1>1, <1>8
  <1>10. e \in Nat /\ e <= n /\ c - e + 1 <= MaxOps
    BY <1>6, <1>8, <1>9
  <1> QED BY <1>7, <1>10, Zenon

\* A creation that discards only what nobody uses is nothing to the operations
\* in progress.
LEMMA FreshOperation ==
  ASSUME Careful, CacheInv, NEW p \in Params, NEW i \in PlanIds,
         NEW gone \in SUBSET OpIds, Spares(gone),
         NEW o \in FreeOps, op' = [Discard(gone) EXCEPT ![o] = Prepared(p, i)],
         coll' = o, UNCHANGED <<pending, barrier, releasing>>
  PROVE  /\ op' \in [OpIds -> OpRecords] /\ o \in OpIds /\ ~ op[o].live
         /\ op'[o].live /\ op'[o].params = p /\ op'[o].plan = i
         /\ \A q \in gone : q # o => ~ op'[q].live
         /\ \A q \in OpIds : q # o /\ q \notin gone => op'[q] = op[q]
         /\ Waiting' = Waiting /\ \A q \in Waiting : q # o /\ q \notin gone
         /\ ActiveAlive' /\ QueueShort' /\ HandleFree'
  <1> USE DEF CacheInv
  <1>1. o \in OpIds /\ ~ op[o].live /\ ~ Active(o)
    BY DEF FreeOps
  <1>2. \A q \in gone : q \in OpIds /\ ~ Active(q)
    BY DEF Spares
  <1>3. Discard(gone) = [q \in OpIds |-> IF q \notin gone THEN op[q] ELSE NoOp]
    BY <1>2 DEF Discard
  <1>4. /\ op'[o] = Prepared(p, i)
        /\ \A q \in gone : q # o => op'[q] = NoOp
        /\ \A q \in OpIds : q # o /\ q \notin gone => op'[q] = op[q]
    BY <1>1, <1>3
  <1>5. /\ op'[o].live /\ op'[o].params = p /\ op'[o].plan = i /\ op'[o].running = 0
        /\ \A q \in gone : q # o => ~ op'[q].live /\ op'[q].running = 0
    BY <1>4 DEF Prepared, NoOp
  <1>6. op' \in [OpIds -> OpRecords]
    <2>1. Prepared(p, i) \in OpRecords /\ NoOp \in OpRecords
      BY DEF Prepared, NoOp, OpRecords
    <2>2. \A q \in OpIds : op[q] \in OpRecords
      BY DEF CacheTypes
    <2> QED BY <1>1, <1>3, <2>1, <2>2
  <1>7. Waiting' = Waiting /\ \A q \in Waiting : q # o /\ q \notin gone
    BY <1>1, <1>2, ActiveIs DEF Waiting
  <1>8. ActiveAlive'
    <2> SUFFICES ASSUME NEW q \in OpIds, Active(q)' PROVE op'[q].live
      BY DEF ActiveAlive
    <2>1. op'[q].running > 0 \/ q \in Waiting
      BY <1>7 DEF Active, Waiting
    <2>2. q = o \/ (q # o /\ q \notin gone)
      BY <1>5, <1>7, <2>1
    <2>3. ASSUME q # o, q \notin gone
          PROVE  op'[q].live
      BY <1>4, <2>1, <2>3, ActiveIs DEF ActiveAlive
    <2> QED BY <1>5, <2>2, <2>3
  <1>9. QueueShort'
    <2>1. ASSUME barrier
          PROVE  \E b \in OpIds : IsBarrier(b)' /\ op'[b].running > 0 /\ b \notin Waiting'
      <3>1. PICK b \in OpIds : IsBarrier(b) /\ op[b].running > 0 /\ b \notin Waiting
        BY <2>1 DEF QueueShort
      <3>2. b # o /\ b \notin gone
        BY <1>1, <1>2, <3>1, ActiveIs
      <3>3. op'[b] = op[b]
        BY <1>4, <3>2
      <3> QED BY <1>7, <3>1, <3>3 DEF IsBarrier
    <2> QED BY <2>1 DEF QueueShort
  <1>10. HandleFree'
    <2>1. ~ (op'[o].running > 0) /\ o \notin Waiting'
      BY <1>1, <1>5, <1>7, ActiveIs
    <2> QED BY <1>5, <2>1 DEF HandleFree, Active, Waiting
  <1> QED BY <1>1, <1>4, <1>5, <1>6, <1>7, <1>8, <1>9, <1>10

\* The plan a search finds is kept, and for the root asked for.
LEMMA FoundFits ==
  ASSUME CacheInv, NEW p \in Params, Find(p) # None
  PROVE  /\ Find(p) \in PlanIds /\ Position(p) \in Positions
         /\ pcache[Position(p)] = Find(p)
         /\ plan[Find(p)].live /\ plan[Find(p)].root = p.root
  <1>1. Position(p) \in Positions
    BY DEF Positions
  <1>2. Find(p) = pcache[Position(p)] /\ plan[pcache[Position(p)]].root = p.root
    BY DEF Find
  <1>3. pcache[Position(p)] \in PlanIds \cup {None}
    BY <1>1 DEF CacheInv, CacheTypes
  <1> QED BY <1>1, <1>2, <1>3 DEF CacheInv, PlansCached

\* A new operation for a plan that is found: the ones discarded for it leave
\* the head of the list, and the count is as it was or one more.
LEMMA CreateOpStep ==
  ASSUME Careful, CacheInv, NEW p \in Params, CreateOp(p)
  PROVE  CacheInv'
  <1>1. PICK i, o, e, h, gone :
          /\ i = Find(p) /\ i # None /\ o = CHOOSE q \in FreeOps : TRUE
          /\ e = Excess(plan[i]) /\ h = plan[i].op_head /\ gone = Evicted(plan[i])
    BY DEF CreateOp
  <1>2. /\ o \in FreeOps /\ Spares(gone) /\ coll' = o
        /\ op' = [Discard(gone) EXCEPT ![o] = Prepared(p, i)]
        /\ plan' = [plan EXCEPT ![i] = AddHead(@, o)]
        /\ UNCHANGED <<pcache, pending, barrier, releasing>>
    BY <1>1 DEF CreateOp
  <1>3. /\ i \in PlanIds /\ Position(p) \in Positions /\ pcache[Position(p)] = i
        /\ plan[i].live /\ plan[i].root = p.root
    BY <1>1, FoundFits
  <1>4. /\ h \in Seq(OpIds) /\ Len(h) \in Nat /\ Distinct(h)
        /\ e \in Nat /\ e <= Len(h) /\ plan[i].op_cnt - e + 1 <= MaxOps
    <2>1. h \in Seq(OpIds) /\ Distinct(h)
      BY <1>1, <1>3, ListTypes DEF CacheInv, ListsExact
    <2> QED BY <1>1, <1>3, <2>1, Room
  <1>5. PICK rest : rest = SubSeq(h, e + 1, Len(h))
    OBVIOUS
  <1>6. /\ rest \in Seq(OpIds) /\ Len(rest) = Len(h) - e /\ Distinct(rest)
        /\ gone \subseteq Listed(i) /\ ToSet(rest) = Listed(i) \ gone
    <2>1. /\ rest \in Seq(OpIds) /\ Len(rest) = Len(h) - e /\ Distinct(rest)
          /\ ToSet(SubSeq(h, 1, e)) \subseteq ToSet(h)
          /\ ToSet(rest) = ToSet(h) \ ToSet(SubSeq(h, 1, e))
      BY <1>4, <1>5, CutSet
    <2>2. gone = ToSet(SubSeq(h, 1, e))
      BY <1>1 DEF Evicted
    <2> QED BY <1>1, <2>1, <2>2 DEF Listed
  <1>7. gone \in SUBSET OpIds
    BY <1>3, <1>6, ListTypes DEF CacheInv
  <1>8. /\ op' \in [OpIds -> OpRecords] /\ o \in OpIds /\ ~ op[o].live
        /\ op'[o].live /\ op'[o].params = p /\ op'[o].plan = i
        /\ \A q \in gone : q # o => ~ op'[q].live
        /\ \A q \in OpIds : q # o /\ q \notin gone => op'[q] = op[q]
        /\ Waiting' = Waiting /\ \A q \in Waiting : q # o /\ q \notin gone
        /\ ActiveAlive' /\ QueueShort' /\ HandleFree'
    <2>1. /\ Careful /\ CacheInv /\ p \in Params /\ i \in PlanIds
          /\ gone \in SUBSET OpIds /\ Spares(gone) /\ o \in FreeOps /\ coll' = o
          /\ op' = [Discard(gone) EXCEPT ![o] = Prepared(p, i)]
          /\ UNCHANGED <<pending, barrier, releasing>>
      BY <1>2, <1>3, <1>7
    <2> QED BY <2>1, FreshOperation, Zenon
  <1>9. \A j \in PlanIds : \A q \in Listed(j) :
          q \in OpIds /\ op[q].live /\ op[q].plan = j /\ q \notin Waiting /\ q # o
    BY <1>8, ListTypes DEF CacheInv, ListsExact
  <1>10. PICK l : l = <<o>> \o rest
    OBVIOUS
  <1>11. /\ l \in Seq(OpIds) /\ Len(l) = Len(h) - e + 1
         /\ ToSet(l) = {o} \cup (Listed(i) \ gone) /\ Distinct(l)
    <2>1. o \notin ToSet(rest)
      BY <1>3, <1>6, <1>9
    <2> QED BY <1>6, <1>8, <1>10, <2>1, ConsSet
  <1>12. /\ plan' \in [PlanIds -> PlanRecords] /\ plan'[i].op_head = l
         /\ plan'[i].op_cnt = plan[i].op_cnt - e + 1
         /\ \A j \in PlanIds : j # i => plan'[j] = plan[j]
         /\ \A j \in PlanIds : plan'[j].live = plan[j].live /\ plan'[j].root = plan[j].root
    <2>1. plan \in [PlanIds -> PlanRecords] /\ plan[i] \in PlanRecords
      BY <1>3 DEF CacheInv, CacheTypes
    <2>2. /\ plan'[i] = AddHead(plan[i], o)
          /\ \A j \in PlanIds : j # i => plan'[j] = plan[j]
      BY <1>2, <1>3, <2>1
    <2>3. AddHead(plan[i], o) = [plan[i] EXCEPT !.op_head = l, !.op_cnt = plan[i].op_cnt - e + 1]
      BY <1>1, <1>5, <1>10 DEF AddHead
    <2>4. /\ plan'[i] \in PlanRecords /\ plan'[i].op_head = l
          /\ plan'[i].op_cnt = plan[i].op_cnt - e + 1
          /\ plan'[i].live = plan[i].live /\ plan'[i].root = plan[i].root
      <3>1. PICK c : c = plan[i].op_cnt - e + 1
        OBVIOUS
      <3>2. c \in Int
        BY <1>4, <2>1, <3>1 DEF PlanRecords
      <3>3. plan'[i] = [plan[i] EXCEPT !.op_head = l, !.op_cnt = c]
        BY <2>2, <2>3, <3>1
      <3> QED BY <1>11, <2>1, <3>1, <3>2, <3>3 DEF PlanRecords
    <2>5. plan' \in [PlanIds -> PlanRecords]
      <3>1. plan' \in [PlanIds -> {plan'[j] : j \in PlanIds}]
        BY <1>2, <2>1
      <3> QED BY <2>1, <2>2, <2>4, <3>1
    <2> QED BY <2>2, <2>4, <2>5
  <1>13. /\ Listed(i)' = {o} \cup (Listed(i) \ gone)
         /\ \A j \in PlanIds : j # i => Listed(j)' = Listed(j)
    <2>1. Listed(i)' = ToSet(l)
      BY <1>12 DEF Listed
    <2> QED BY <1>11, <1>12, <2>1 DEF Listed
  <1>14. CacheTypes'
    BY <1>2, <1>8, <1>12 DEF CacheInv, CacheTypes
  <1>15. PlansCached'
    BY <1>2, <1>12 DEF CacheInv, CacheTypes, PlansCached
  <1>16. OpsFit'
    <2> SUFFICES ASSUME NEW q \in OpIds, op'[q].live
                 PROVE  /\ op'[q].params \in Params /\ op'[q].plan \in PlanIds
                        /\ plan'[op'[q].plan].live
                        /\ plan'[op'[q].plan].root = op'[q].params.root
                        /\ pcache'[Position(op'[q].params)] = op'[q].plan
      BY DEF OpsFit, Position
    <2>1. CASE q = o
      BY <1>2, <1>3, <1>8, <1>12, <2>1
    <2>2. CASE q # o
      <3>1. op'[q] = op[q] /\ op[q].live
        BY <1>8, <2>2
      <3> QED BY <1>2, <1>12, <3>1 DEF CacheInv, OpsFit
    <2> QED BY <2>1, <2>2
  <1>17. ListsExact'
    <2>1. \A j \in PlanIds : Distinct(plan'[j].op_head)
      BY <1>11, <1>12 DEF CacheInv, ListsExact
    <2>2. \A j \in PlanIds : \A q \in Listed(j)' :
            op'[q].live /\ op'[q].plan = j /\ q \notin Waiting'
      <3>1. \A j \in PlanIds : \A q \in Listed(j) :
              q \notin gone => op'[q].live /\ op'[q].plan = j /\ q \notin Waiting'
        BY <1>8, <1>9
      <3>2. \A j \in PlanIds : j # i => \A q \in Listed(j) : q \notin gone
        BY <1>3, <1>6, <1>9
      <3>3. o \notin Waiting'
        BY <1>8
      <3> QED BY <1>8, <1>13, <3>1, <3>2, <3>3
    <2>3. Distinct(pending)' /\ \A q \in Waiting' : op'[q].live
      BY <1>2, <1>8, ListTypes DEF CacheInv, ListsExact
    <2>4. \A q \in OpIds, j \in PlanIds :
            op'[q].live /\ op'[q].plan = j => q \in Waiting' \/ q \in Listed(j)'
      <3> SUFFICES ASSUME NEW q \in OpIds, NEW j \in PlanIds, op'[q].live, op'[q].plan = j
                   PROVE  q \in Waiting' \/ q \in Listed(j)'
        OBVIOUS
      <3>1. CASE q = o
        BY <1>8, <1>13, <3>1
      <3>2. CASE q # o
        <4>1. q \notin gone /\ op[q].live /\ op[q].plan = j
          BY <1>8, <3>2
        <4>2. q \in Waiting \/ q \in Listed(j)
          BY <4>1 DEF CacheInv, ListsExact
        <4> QED BY <1>8, <1>13, <4>1, <4>2
      <3> QED BY <3>1, <3>2
    <2>5. \A q \in OpIds : op'[q].live => op'[q].plan \in PlanIds
      BY <1>16 DEF OpsFit
    <2> QED BY <2>1, <2>2, <2>3, <2>4, <2>5 DEF ListsExact, Listed
  <1>18. CountsBoth'
    <2>1. \A j \in PlanIds : QueuedOf(j)' = QueuedOf(j)
      <3>1. \A q \in Waiting : op'[q] = op[q]
        BY <1>8, ListTypes DEF CacheInv
      <3> QED BY <1>8, <3>1 DEF QueuedOf, Waiting
    <2>2. /\ plan[i].op_cnt = Len(h) + Cardinality(QueuedOf(i))
          /\ Cardinality(QueuedOf(i)) \in Nat
      BY <1>1, <1>3, ListTypes DEF CacheInv, CountsBoth
    <2>3. plan'[i].op_cnt = Len(plan'[i].op_head) + Cardinality(QueuedOf(i))
      BY <1>4, <1>11, <1>12, <2>2
    <2>4. plan'[i].op_cnt <= MaxOps
      BY <1>4, <1>12
    <2>5. \A j \in PlanIds : plan'[j].live =>
            /\ plan'[j].op_cnt = Len(plan'[j].op_head) + Cardinality(QueuedOf(j))
            /\ plan'[j].op_cnt <= MaxOps
      BY <1>12, <2>3, <2>4 DEF CacheInv, CountsBoth
    <2> QED BY <2>1, <2>5 DEF CountsBoth
  <1> QED BY <1>8, <1>14, <1>15, <1>16, <1>17, <1>18 DEF CacheInv

\* A root is a number, whatever the type of the call.
LEMMA RootIsNat ==
  ASSUME NEW p \in Params
  PROVE  p.root \in Nat
  <1>1. \/ p \in [type : Types \cap {"barrier", "alltoallv"}, root : {0}, buf : {0}]
        \/ p \in [type : Types \cap {"bcast"}, root : Roots, buf : Buffers]
        \/ p \in [type : Types \cap {"allreduce"}, root : {0}, buf : Buffers]
    BY Zenon DEF Params
  <1>2. PICK r : r = p.root
    OBVIOUS
  <1>3. r \in {0} \/ r \in Roots
    BY <1>1, <1>2
  <1>4. {0} \subseteq Nat /\ Roots \subseteq Nat
    BY PlanCacheAssumption
  <1>5. r \in Nat
    BY <1>3, <1>4
  <1> QED BY <1>2, <1>5, Zenon

\* A new plan takes the position, and with the old one go all its operations.
LEMMA CreatePlanStep ==
  ASSUME Careful, CacheInv, NEW p \in Params, CreatePlan(p)
  PROVE  CacheInv'
  <1>1. PICK pos, old, i, o, gone, new :
          /\ pos = Position(p) /\ old = pcache[pos]
          /\ i = (CHOOSE k \in FreePlans : TRUE) /\ o = (CHOOSE q \in FreeOps : TRUE)
          /\ gone = {q \in OpIds : op[q].live /\ op[q].plan = old}
          /\ new = [root |-> p.root, live |-> TRUE, op_head |-> <<o>>, op_cnt |-> 1]
    OBVIOUS
  <1>2. /\ i \in FreePlans /\ o \in FreeOps /\ Spares(gone) /\ coll' = o
        /\ pcache' = [pcache EXCEPT ![pos] = i]
        /\ plan' = [k \in PlanIds |-> IF k = i THEN new ELSE IF k = old THEN NoPlan ELSE plan[k]]
        /\ op' = [Discard(gone) EXCEPT ![o] = Prepared(p, i)]
        /\ UNCHANGED <<pending, barrier, releasing>>
    BY <1>1 DEF CreatePlan
  <1>3. /\ pos \in Positions /\ old \in PlanIds \cup {None} /\ None \notin PlanIds
        /\ pcache \in [Positions -> PlanIds \cup {None}]
        /\ i \in PlanIds /\ ~ plan[i].live /\ (old # None => plan[old].live)
    BY <1>1, <1>2, PlanCacheAssumption DEF Positions, FreePlans, CacheInv, CacheTypes, PlansCached
  <1>4. i # old /\ gone \in SUBSET OpIds
    BY <1>1, <1>3
  <1>5. /\ op' \in [OpIds -> OpRecords] /\ o \in OpIds /\ ~ op[o].live
        /\ op'[o].live /\ op'[o].params = p /\ op'[o].plan = i
        /\ \A q \in gone : q # o => ~ op'[q].live
        /\ \A q \in OpIds : q # o /\ q \notin gone => op'[q] = op[q]
        /\ Waiting' = Waiting /\ \A q \in Waiting : q # o /\ q \notin gone
        /\ ActiveAlive' /\ QueueShort' /\ HandleFree'
    <2>1. /\ Careful /\ CacheInv /\ p \in Params /\ i \in PlanIds
          /\ gone \in SUBSET OpIds /\ Spares(gone) /\ o \in FreeOps /\ coll' = o
          /\ op' = [Discard(gone) EXCEPT ![o] = Prepared(p, i)]
          /\ UNCHANGED <<pending, barrier, releasing>>
      BY <1>2, <1>3, <1>4
    <2> QED BY <2>1, FreshOperation, Zenon
  <1>6. p.root \in Nat
    BY RootIsNat
  <1>7. /\ plan'[i] = new
        /\ \A k \in PlanIds : k = old => plan'[k] = NoPlan
        /\ \A k \in PlanIds : k # i /\ k # old => plan'[k] = plan[k]
    BY <1>2, <1>3, <1>4
  <1>8. /\ plan'[i].live /\ plan'[i].root = p.root /\ plan'[i].op_cnt = 1
        /\ plan'[i].op_head = <<o>>
        /\ \A k \in PlanIds : k = old => ~ plan'[k].live /\ plan'[k].op_head = <<>>
    BY <1>1, <1>7 DEF NoPlan
  <1>9. /\ <<o>> \in Seq(OpIds) /\ Len(<<o>>) = 1 /\ ToSet(<<o>>) = {o} /\ Distinct(<<o>>)
        /\ <<>> \in Seq(OpIds) /\ ToSet(<<>>) = {} /\ Distinct(<<>>)
    <2>1. <<>> \in Seq(OpIds) /\ Len(<<>>) = 0 /\ <<o>> \in Seq(OpIds) /\ Len(<<o>>) = 1
      BY <1>5
    <2>2. ToSet(<<>>) = {} /\ Distinct(<<>>)
      <3>1. Distinct(<<>>)
        BY DEF Distinct
      <3> QED BY <2>1, <3>1, EmptySet
    <2>3. ToSet(<<o>>) = {o}
      <3>1. ToSet(<<o>>) = {<<o>>[k] : k \in 1 .. 1}
        BY <2>1, SetOfList
      <3> QED BY <3>1
    <2>4. Distinct(<<o>>)
      BY <2>1 DEF Distinct
    <2> QED BY <2>1, <2>2, <2>3, <2>4
  <1>10. /\ Listed(i)' = {o}
         /\ \A k \in PlanIds : k = old => Listed(k)' = {}
         /\ \A k \in PlanIds : k # i /\ k # old => Listed(k)' = Listed(k)
    BY <1>7, <1>8, <1>9 DEF Listed
  <1>11. \A q \in OpIds : op'[q].live /\ q # o =>
           /\ op'[q] = op[q] /\ op[q].live /\ op[q].plan \in PlanIds
           /\ op[q].plan # old /\ op[q].plan # i
    <2> SUFFICES ASSUME NEW q \in OpIds, op'[q].live, q # o
                 PROVE  /\ op'[q] = op[q] /\ op[q].live /\ op[q].plan \in PlanIds
                        /\ op[q].plan # old /\ op[q].plan # i
      OBVIOUS
    <2>1. op'[q] = op[q] /\ q \notin gone
      BY <1>5
    <2>2. op[q].live /\ op[q].plan # old
      BY <1>1, <2>1
    <2>3. op[q].plan \in PlanIds /\ plan[op[q].plan].live
      BY <2>2 DEF CacheInv, OpsFit
    <2> QED BY <1>3, <2>1, <2>2, <2>3
  <1>12. CacheTypes'
    <2>1. plan' \in [PlanIds -> PlanRecords]
      <3>1. new \in PlanRecords /\ NoPlan \in PlanRecords
        BY <1>1, <1>6, <1>9 DEF PlanRecords, NoPlan
      <3>2. \A k \in PlanIds : plan[k] \in PlanRecords
        BY DEF CacheInv, CacheTypes
      <3> QED BY <1>2, <3>1, <3>2
    <2>2. pcache' \in [Positions -> PlanIds \cup {None}]
      BY <1>2, <1>3
    <2> QED BY <1>2, <1>5, <2>1, <2>2 DEF CacheInv, CacheTypes
  <1>13. PlansCached'
    <2>1. pcache'[pos] = i /\ \A x \in Positions : x # pos => pcache'[x] = pcache[x]
      BY <1>2, <1>3
    <2>2. ASSUME NEW x \in Positions, x # pos, pcache[x] # None
          PROVE  /\ pcache[x] \in PlanIds /\ plan[pcache[x]].live
                 /\ pcache[x] # old /\ pcache[x] # i
                 /\ \A y \in Positions : pcache[y] = pcache[x] => y = x
      BY <1>1, <1>3, <2>2 DEF CacheInv, PlansCached
    <2> SUFFICES ASSUME NEW x \in Positions, pcache'[x] # None
                 PROVE  /\ plan'[pcache'[x]].live
                        /\ \A y \in Positions : pcache'[y] = pcache'[x] => y = x
      BY DEF PlansCached
    <2>3. CASE x = pos
      <3>1. \A y \in Positions : y # pos => pcache[y] # i
        BY <1>3, <2>2
      <3> QED BY <1>8, <2>1, <2>3, <3>1
    <2>4. CASE x # pos
      BY <1>7, <2>1, <2>2, <2>4
    <2> QED BY <2>3, <2>4
  <1>14. OpsFit'
    <2> SUFFICES ASSUME NEW q \in OpIds, op'[q].live
                 PROVE  /\ op'[q].params \in Params /\ op'[q].plan \in PlanIds
                        /\ plan'[op'[q].plan].live
                        /\ plan'[op'[q].plan].root = op'[q].params.root
                        /\ pcache'[Position(op'[q].params)] = op'[q].plan
      BY DEF OpsFit, Position
    <2>1. CASE q = o
      <3>1. op'[q].params = p /\ op'[q].plan = i
        BY <1>5, <2>1
      <3>2. pcache'[Position(p)] = i
        BY <1>1, <1>2, <1>3
      <3> QED BY <1>3, <1>8, <3>1, <3>2
    <2>2. CASE q # o
      <3>1. /\ op'[q] = op[q] /\ op[q].live /\ op[q].plan \in PlanIds
            /\ op[q].plan # old /\ op[q].plan # i
        BY <1>11, <2>2
      <3>2. /\ op[q].params \in Params /\ plan[op[q].plan].live
            /\ plan[op[q].plan].root = op[q].params.root
            /\ pcache[Position(op[q].params)] = op[q].plan
        BY <3>1 DEF CacheInv, OpsFit
      <3>3. Position(op[q].params) \in Positions /\ Position(op[q].params) # pos
        BY <1>1, <3>1, <3>2 DEF Positions
      <3> QED BY <1>2, <1>3, <1>7, <3>1, <3>2, <3>3
    <2> QED BY <2>1, <2>2
  <1>15. ListsExact'
    <2>1. \A j \in PlanIds : Distinct(plan'[j].op_head)
      <3>1. \A j \in PlanIds : j # i /\ j # old => Distinct(plan'[j].op_head)
        BY <1>7 DEF CacheInv, ListsExact
      <3> QED BY <1>8, <1>9, <3>1
    <2>2. \A j \in PlanIds : \A q \in Listed(j)' :
            op'[q].live /\ op'[q].plan = j /\ q \notin Waiting'
      <3>1. ASSUME NEW j \in PlanIds, j # i, j # old, NEW q \in Listed(j)
            PROVE  op'[q].live /\ op'[q].plan = j /\ q \notin Waiting'
        <4>1. q \in OpIds /\ op[q].live /\ op[q].plan = j /\ q \notin Waiting
          BY <3>1, ListTypes DEF CacheInv, ListsExact
        <4>2. op'[q] = op[q]
          BY <1>1, <1>5, <3>1, <4>1
        <4> QED BY <1>5, <4>1, <4>2
      <3>2. o \notin Waiting'
        BY <1>5
      <3> QED BY <1>5, <1>10, <3>1, <3>2
    <2>3. Distinct(pending)' /\ \A q \in Waiting' : op'[q].live
      BY <1>2, <1>5, ListTypes DEF CacheInv, ListsExact
    <2>4. \A q \in OpIds, j \in PlanIds :
            op'[q].live /\ op'[q].plan = j => q \in Waiting' \/ q \in Listed(j)'
      <3> SUFFICES ASSUME NEW q \in OpIds, NEW j \in PlanIds, op'[q].live, op'[q].plan = j
                   PROVE  q \in Waiting' \/ q \in Listed(j)'
        OBVIOUS
      <3>1. CASE q = o
        BY <1>5, <1>10, <3>1
      <3>2. CASE q # o
        <4>1. op[q].live /\ op[q].plan = j /\ j # i /\ j # old
          BY <1>11, <3>2
        <4>2. q \in Waiting \/ q \in Listed(j)
          BY <4>1 DEF CacheInv, ListsExact
        <4> QED BY <1>5, <1>10, <4>1, <4>2
      <3> QED BY <3>1, <3>2
    <2>5. \A q \in OpIds : op'[q].live => op'[q].plan \in PlanIds
      BY <1>14 DEF OpsFit
    <2> QED BY <2>1, <2>2, <2>3, <2>4, <2>5 DEF ListsExact, Listed
  <1>16. CountsBoth'
    <2>1. /\ \A q \in Waiting : op'[q] = op[q]
          /\ \A q \in Waiting : op[q].plan \in PlanIds /\ op[q].plan # i
      BY <1>5, <1>11, ListTypes DEF CacheInv, ListsExact
    <2>2. \A j \in PlanIds : QueuedOf(j)' = QueuedOf(j)
      BY <1>5, <2>1 DEF QueuedOf, Waiting
    <2>3. QueuedOf(i) = {}
      BY <2>1 DEF QueuedOf, Waiting
    <2>4. plan'[i].op_cnt = Len(plan'[i].op_head) + Cardinality(QueuedOf(i)) /\ plan'[i].op_cnt <= MaxOps
      <3>1. Cardinality(QueuedOf(i)) = 0
        BY <2>3, FS_EmptySet
      <3>2. MaxOps \in Nat /\ 1 <= MaxOps
        BY PlanCacheAssumption
      <3> QED BY <1>8, <1>9, <3>1, <3>2
    <2>5. \A j \in PlanIds : plan'[j].live =>
            /\ plan'[j].op_cnt = Len(plan'[j].op_head) + Cardinality(QueuedOf(j))
            /\ plan'[j].op_cnt <= MaxOps
      BY <1>7, <1>8, <2>4 DEF CacheInv, CountsBoth
    <2> QED BY <2>2, <2>5 DEF CountsBoth
  <1> QED BY <1>5, <1>12, <1>13, <1>14, <1>15, <1>16 DEF CacheInv

-----------------------------------------------------------------------------
(***************************************************************************)
(* What the invariant gives.                                               *)
(***************************************************************************)
\* With a careful caller it holds in every state.
LEMMA CacheInvariant ==
  ASSUME Careful
  PROVE  Spec => []CacheInv
  <1>1. Init => CacheInv
    BY InitInv
  <1>2. ASSUME CacheInv, [Next]_vars
        PROVE  CacheInv'
    <2>1. ASSUME NEW p \in Params, CreateReuse(p) \/ CreateOp(p) \/ CreatePlan(p)
          PROVE  CacheInv'
      BY <1>2, <2>1, ReuseStep, CreateOpStep, CreatePlanStep
    <2>2. CASE Start
      BY <1>2, <2>2, StartRuns, StartWaits
    <2>3. ASSUME NEW o \in OpIds, Complete(o)
          PROVE  CacheInv'
      BY <1>2, <2>3, CompleteStep
    <2>4. CASE Release
      BY <1>2, <2>4, ReleaseStep
    <2>5. CASE UNCHANGED vars
      <3>1. UNCHANGED <<pcache, plan, op, pending, barrier, releasing, coll>>
        BY <2>5 DEF vars
      <3>2. PlansCached' /\ OpsFit' /\ ListsExact' /\ CountsBoth'
        BY <1>2, <3>1, OnlyRuns DEF CacheInv
      <3>3. CacheTypes'
        BY <1>2, <3>1 DEF CacheInv, CacheTypes
      <3>4. ActiveAlive' /\ HandleFree'
        BY <1>2, <3>1 DEF CacheInv, ActiveAlive, HandleFree, Active
      <3>5. QueueShort'
        BY <1>2, <3>1 DEF CacheInv, QueueShort, Waiting, IsBarrier
      <3> QED BY <3>2, <3>3, <3>4, <3>5 DEF CacheInv
    <2> QED BY <1>2, <2>1, <2>2, <2>3, <2>4, <2>5 DEF Next
  <1> QED BY <1>1, <1>2, PTL DEF Spec

\* The count of a plan is that of the operations it owns, on its list and on
\* the queue, each once, and never above what a plan keeps.
LEMMA InvCounts ==
  ASSUME CacheInv
  PROVE  CountExact
  <1> SUFFICES ASSUME NEW i \in PlanIds, plan[i].live
               PROVE  /\ Cardinality(Listed(i)) = Len(plan[i].op_head)
                      /\ Listed(i) \cap Waiting = {}
                      /\ Listed(i) \cup QueuedOf(i) = {o \in OpIds : op[o].live /\ op[o].plan = i}
                      /\ plan[i].op_cnt = Cardinality(Listed(i)) + Cardinality(QueuedOf(i))
                      /\ plan[i].op_cnt <= MaxOps
    BY DEF CountExact, Listed, Waiting
  <1>1. Cardinality(Listed(i)) = Len(plan[i].op_head)
    BY ListTypes, DistinctCount DEF CacheInv, ListsExact, Listed
  <1>2. Listed(i) \cap Waiting = {}
    BY DEF CacheInv, ListsExact
  <1>3. Listed(i) \cup QueuedOf(i) = {o \in OpIds : op[o].live /\ op[o].plan = i}
    <2>1. QueuedOf(i) = {o \in Waiting : op[o].plan = i}
      BY DEF QueuedOf, Waiting
    <2> QED BY <2>1, ListTypes DEF CacheInv, ListsExact
  <1>4. plan[i].op_cnt = Len(plan[i].op_head) + Cardinality(QueuedOf(i)) /\ plan[i].op_cnt <= MaxOps
    BY DEF CacheInv, CountsBoth
  <1> QED BY <1>1, <1>2, <1>3, <1>4

\* The list and the count of every plan stay exact: no legal sequence of calls
\* loses an operation, lists it twice, or keeps more than the limit.
THEOREM CountsStayExact ==
  ASSUME Careful
  PROVE  Spec => []CountExact
  <1>1. CacheInv => CountExact
    BY InvCounts
  <1> QED BY <1>1, CacheInvariant, PTL

\* A plan with no room left has an operation on its list to discard, however
\* many of its operations wait behind a barrier: the head of an empty list is
\* never taken.
THEOREM AlwaysRoomInPlan ==
  ASSUME Careful
  PROVE  Spec => []RoomCanBeMade
  <1>1. CacheInv => RoomCanBeMade
    BY Room DEF RoomCanBeMade
  <1> QED BY <1>1, CacheInvariant, PTL

\* The handle a creation returns is for an operation of the plan that is in the
\* position of its parameters, made for the root it was asked for.
THEOREM HandleAlwaysFits ==
  ASSUME Careful
  PROVE  Spec => []HandleFits
  <1>1. CacheInv => HandleFits
    <2> SUFFICES ASSUME CacheInv, coll # None
                 PROVE  /\ op[coll].live /\ plan[op[coll].plan].live
                        /\ coll \in Listed(op[coll].plan)
                        /\ pcache[Position(op[coll].params)] = op[coll].plan
                        /\ plan[op[coll].plan].root = op[coll].params.root
      BY DEF HandleFits, Listed
    <2>1. coll \in OpIds /\ op[coll].live /\ coll \notin Waiting
      BY ActiveIs DEF CacheInv, CacheTypes, HandleFree
    <2> QED BY <2>1 DEF CacheInv, OpsFit, ListsExact
  <1> QED BY <1>1, CacheInvariant, PTL
=============================================================================
