------------------------------ MODULE PlansProofs ------------------------------
(***************************************************************************)
(* The ring and recursive doubling of Plans, for every size of the group   *)
(* and of the buffer: the blocks a ring cuts the buffer into are a         *)
(* partition of it, in every step of a ring the block a member's left      *)
(* neighbour sends is the one it waits for, and the steps of either        *)
(* algorithm bring everybody's data to everybody, each once.               *)
(***************************************************************************)
EXTENDS Plans, DataFlow, Remainders, FiniteSetTheorems, WellFoundedInduction

\* The neighbour a member receives from (its message goes to the right).
LeftOf(n, me) == (me - 1 + n) % n

\* The left neighbour is the one whose right neighbour I am.
LEMMA LeftSendsToMe ==
  ASSUME NEW n \in Nat, n > 1, NEW me \in 0 .. n - 1
  PROVE  LeftOf(n, me) \in 0 .. n - 1 /\ (LeftOf(n, me) + 1) % n = me
  <1>1. CASE me = 0
    <2>1. LeftOf(n, me) = n - 1
      BY <1>1, ModUnique DEF LeftOf
    <2> QED BY <1>1, <2>1, ModUnique
  <1>2. CASE me > 0
    <2>1. LeftOf(n, me) = me - 1
      <3>1. me - 1 + n = n * 1 + (me - 1) /\ me - 1 \in 0 .. n - 1
        BY <1>2
      <3> QED BY <3>1, ModUnique DEF LeftOf
    <2>2. (me - 1) + 1 = n * 0 + me
      OBVIOUS
    <2> QED BY <1>2, <2>1, <2>2, ModUnique
  <1> QED BY <1>1, <1>2

\* Going down by one and wrapping around commutes with taking the rest.
LEMMA OneLess ==
  ASSUME NEW n \in Nat, n > 1, NEW a \in Int
  PROVE  (a - 1) % n = ((a % n) - 1 + n) % n
  <1> DEFINE q == a \div n
             r == a % n
  <1>1. q \in Int /\ r \in 0 .. n - 1 /\ a = n * q + r
    BY DivMod
  <1> HIDE DEF q, r
  <1>2. CASE r = 0
    <2>1. a - 1 = n * (q - 1) + (n - 1)
      BY <1>1, <1>2
    <2>2. (a - 1) % n = n - 1
      BY <1>1, <2>1, ModUnique
    <2>3. (r - 1 + n) % n = n - 1
      <3>1. r - 1 + n = n * 0 + (n - 1)
        BY <1>2
      <3> QED BY <1>1, <3>1, ModUnique
    <2> QED BY <2>2, <2>3 DEF r
  <1>3. CASE r > 0
    <2>1. a - 1 = n * q + (r - 1) /\ r - 1 \in 0 .. n - 1
      BY <1>1, <1>3
    <2>2. (a - 1) % n = r - 1
      BY <1>1, <2>1, ModUnique
    <2>3. (r - 1 + n) % n = r - 1
      <3>1. r - 1 + n = n * 1 + (r - 1)
        BY <1>1
      <3> QED BY <1>1, <2>1, <3>1, ModUnique
    <2> QED BY <2>2, <2>3 DEF r
  <1> QED BY <1>1, <1>2, <1>3

\* The block the left neighbour sends in step k is the one before mine, which I
\* wait for; and I send it on in step k + 1.
LEMMA BlockOfLeft ==
  ASSUME NEW n \in Nat, n > 1, NEW me \in 0 .. n - 1, NEW k \in Nat
  PROVE  /\ RingBlock(n, LeftOf(n, me), k) = (RingBlock(n, me, k) - 1 + n) % n
         /\ RingBlock(n, me, k + 1) = (RingBlock(n, me, k) - 1 + n) % n
  <1> DEFINE a == me - (k - 1) + 2 * n
  <1>0. a \in Int
    OBVIOUS
  <1>1. (a - 1) % n = ((a % n) - 1 + n) % n
    <2> HIDE DEF a
    <2> QED BY <1>0, OneLess
  <1>2. RingBlock(n, me, k) = a % n
    BY DEF RingBlock
  <1>3. RingBlock(n, me, k + 1) = (a - 1) % n
    <2>1. me - ((k + 1) - 1) + 2 * n = a - 1
      OBVIOUS
    <2> QED BY <2>1 DEF RingBlock
  <1>4. RingBlock(n, LeftOf(n, me), k) = (a - 1) % n
    <2>1. CASE me = 0
      <3>1. LeftOf(n, me) = n - 1
        BY <2>1, ModUnique DEF LeftOf
      <3>2. (n - 1) - (k - 1) + 2 * n = (a - 1) + n
        BY <2>1
      <3>3. RingBlock(n, LeftOf(n, me), k) = ((a - 1) + n) % n
        BY <3>1, <3>2 DEF RingBlock
      <3>4. a - 1 \in Int
        BY <1>0
      <3> HIDE DEF a
      <3> QED BY <3>3, <3>4, AddRound
    <2>2. CASE me > 0
      <3>1. LeftOf(n, me) = me - 1
        <4>1. me - 1 + n = n * 1 + (me - 1) /\ me - 1 \in 0 .. n - 1
          BY <2>2
        <4> QED BY <4>1, ModUnique DEF LeftOf
      <3>2. (me - 1) - (k - 1) + 2 * n = a - 1
        OBVIOUS
      <3> QED BY <3>1, <3>2 DEF RingBlock
    <2> QED BY <2>1, <2>2
  <1> QED BY <1>1, <1>2, <1>3, <1>4

\* What a member's left neighbour sends in step k comes to the member, under the
\* index and with the number of messages the member waits for in its step k, and
\* it is what the member sends in its next step: neighbours need not talk about
\* the blocks (ucg_builtin_ring_create, ucg_builtin_step_create).
THEOREM RingStepsFit ==
  ASSUME NEW n \in Nat, n > 1, NEW me \in 0 .. n - 1, NEW count \in Nat,
         NEW k \in 1 .. 2 * (n - 1)
  PROVE  LET mine == Ring(n, me, count)
             left == Ring(n, LeftOf(n, me), count)
         IN  /\ left[k].eps = <<me>>
             /\ left[k].step_idx = mine[k].step_idx
             /\ Len(left[k].pieces) = mine[k].fragments_recv
             /\ k < 2 * (n - 1) => mine[k + 1].pieces = left[k].pieces
  <1> DEFINE mine == Ring(n, me, count)
             left == Ring(n, LeftOf(n, me), count)
  <1>1. /\ left[k].eps = <<(LeftOf(n, me) + 1) % n>>
        /\ left[k].step_idx = mine[k].step_idx
        /\ left[k].pieces = RingPieces(n, count, RingBlock(n, LeftOf(n, me), k))
        /\ mine[k].fragments_recv = Len(RingPieces(n, count, (RingBlock(n, me, k) - 1 + n) % n))
    BY DEF Ring, Step
  <1>2. ASSUME k < 2 * (n - 1)
        PROVE  mine[k + 1].pieces = RingPieces(n, count, RingBlock(n, me, k + 1))
    <2>1. k + 1 \in 1 .. 2 * (n - 1)
      BY <1>2
    <2> QED BY <2>1 DEF Ring, Step
  <1>3. (LeftOf(n, me) + 1) % n = me
    BY LeftSendsToMe
  <1>4. /\ RingBlock(n, LeftOf(n, me), k) = (RingBlock(n, me, k) - 1 + n) % n
        /\ RingBlock(n, me, k + 1) = (RingBlock(n, me, k) - 1 + n) % n
    BY BlockOfLeft
  <1> HIDE DEF mine, left
  <1>5. /\ left[k].eps = <<me>>
        /\ left[k].step_idx = mine[k].step_idx
        /\ Len(left[k].pieces) = mine[k].fragments_recv
        /\ k < 2 * (n - 1) => mine[k + 1].pieces = left[k].pieces
    BY <1>1, <1>2, <1>3, <1>4
  <1> QED BY <1>5 DEF mine, left

-----------------------------------------------------------------------------
\* Where a block begins and how long it is.
BlockStart(n, count, b) ==
  b * (count \div n) + (IF b <= count % n THEN b ELSE count % n)
BlockSize(n, count, b) ==
  (count \div n) + (IF b + 1 <= count % n THEN 1 ELSE 0)

Elements(n, count, b) ==
  {RingPieces(n, count, b)[i] : i \in DOMAIN RingPieces(n, count, b)}

\* The community module's minimum, on a set of two.
LEMMA MinOfTwo ==
  ASSUME NEW x \in Int, NEW y \in Int
  PROVE  Min({x, y}) = IF x <= y THEN x ELSE y
  BY DEF Min

\* The elements of a block are consecutive; the first ones have one element more.
LEMMA BlockIsInterval ==
  ASSUME NEW n \in Nat \ {0}, NEW count \in Nat, NEW b \in 0 .. n - 1
  PROVE  /\ BlockStart(n, count, b) \in Nat /\ BlockSize(n, count, b) \in Nat
         /\ Elements(n, count, b) =
              BlockStart(n, count, b) .. BlockStart(n, count, b) + BlockSize(n, count, b) - 1
  <1> DEFINE q == count \div n
             r == count % n
             f == BlockStart(n, count, b)
             l == BlockSize(n, count, b)
  <1>1. q \in Nat /\ r \in Nat
    OBVIOUS
  <1>2. f \in Nat /\ l \in Nat
    BY <1>1 DEF BlockStart, BlockSize
  <1>3. RingPieces(n, count, b) = Span(f, l)
    BY <1>1, MinOfTwo DEF RingPieces, BlockStart, BlockSize
  <1> HIDE DEF f, l
  <1>4. Elements(n, count, b) = {Span(f, l)[i] : i \in DOMAIN Span(f, l)}
    BY <1>3 DEF Elements
  <1>5. {Span(f, l)[i] : i \in DOMAIN Span(f, l)} = f .. f + l - 1
    <2>1. \A i \in 1 .. l : Span(f, l)[i] = f + i - 1
      BY DEF Span
    <2>2. DOMAIN Span(f, l) = 1 .. l
      BY DEF Span
    <2>3. \A e \in f .. f + l - 1 : e - f + 1 \in 1 .. l /\ Span(f, l)[e - f + 1] = e
      BY <1>2, <2>1
    <2> QED BY <1>2, <2>1, <2>2, <2>3
  <1> QED BY <1>2, <1>4, <1>5 DEF f, l

\* A block begins behind all blocks before it, and the last one ends with the
\* buffer.
LEMMA BlocksInOrder ==
  ASSUME NEW n \in Nat \ {0}, NEW count \in Nat,
         NEW b \in 0 .. n - 1, NEW c \in 0 .. n - 1, b < c
  PROVE  BlockStart(n, count, b) + BlockSize(n, count, b) <= BlockStart(n, count, c)
  <1> DEFINE q == count \div n
             r == count % n
  <1>1. q \in Nat /\ r \in Nat
    OBVIOUS
  <1> HIDE DEF q, r
  <1>2. b * q + q <= c * q
    <2>1. CASE q = 0
      BY <2>1
    <2>2. CASE q > 0
      BY <1>1, <2>2, MultiplesApart
    <2> QED BY <1>1, <2>1, <2>2
  <1>3. BlockStart(n, count, b) = b * q + (IF b <= r THEN b ELSE r)
    BY DEF BlockStart, q, r
  <1>4. BlockStart(n, count, c) = c * q + (IF c <= r THEN c ELSE r)
    BY DEF BlockStart, q, r
  <1>5. BlockSize(n, count, b) = q + (IF b + 1 <= r THEN 1 ELSE 0)
    BY DEF BlockSize, q, r
  <1>6. b * q \in Nat /\ c * q \in Nat
    BY <1>1
  <1> QED BY <1>1, <1>2, <1>3, <1>4, <1>5, <1>6

\* The blocks of a ring cut the buffer: each element is in exactly one of them,
\* also when there are fewer elements than members.
THEOREM RingTiles ==
  ASSUME NEW n \in Nat \ {0}, NEW count \in Nat
  PROVE  /\ \A b \in 0 .. n - 1 : Elements(n, count, b) \subseteq 0 .. count - 1
         /\ \A b, c \in 0 .. n - 1 :
              b # c => Elements(n, count, b) \cap Elements(n, count, c) = {}
         /\ \A e \in 0 .. count - 1 : \E b \in 0 .. n - 1 : e \in Elements(n, count, b)
  <1> DEFINE q == count \div n
             r == count % n
  <1>1. q \in Nat /\ r \in 0 .. n - 1 /\ count = n * q + r
    <2>1. q \in Nat
      OBVIOUS
    <2> QED BY <2>1, DivMod
  <1>2. ASSUME NEW b \in 0 .. n - 1, NEW c \in 0 .. n - 1, b < c
        PROVE  Elements(n, count, b) \cap Elements(n, count, c) = {}
    <2>1. BlockStart(n, count, b) + BlockSize(n, count, b) <= BlockStart(n, count, c)
      BY <1>2, BlocksInOrder
    <2>2. /\ BlockStart(n, count, b) \in Nat /\ BlockSize(n, count, b) \in Nat
          /\ BlockStart(n, count, c) \in Nat /\ BlockSize(n, count, c) \in Nat
          /\ Elements(n, count, b) =
               BlockStart(n, count, b) .. BlockStart(n, count, b) + BlockSize(n, count, b) - 1
          /\ Elements(n, count, c) =
               BlockStart(n, count, c) .. BlockStart(n, count, c) + BlockSize(n, count, c) - 1
      BY BlockIsInterval
    <2> QED BY <2>1, <2>2
  <1>3. ASSUME NEW b \in 0 .. n - 1, NEW c \in 0 .. n - 1, b # c
        PROVE  Elements(n, count, b) \cap Elements(n, count, c) = {}
    <2>1. b < c \/ c < b
      BY <1>3
    <2> QED BY <1>2, <2>1
  <1>4. ASSUME NEW b \in 0 .. n - 1
        PROVE  Elements(n, count, b) \subseteq 0 .. count - 1
    <2>1. BlockStart(n, count, n - 1) + BlockSize(n, count, n - 1) = count
      <3> HIDE DEF q, r
      <3>1. BlockStart(n, count, n - 1) = (n - 1) * q + r
        <4>1. BlockStart(n, count, n - 1) = (n - 1) * q + (IF n - 1 <= r THEN n - 1 ELSE r)
          BY DEF BlockStart, q, r
        <4> QED BY <1>1, <4>1
      <3>2. BlockSize(n, count, n - 1) = q
        <4>1. BlockSize(n, count, n - 1) = q + (IF (n - 1) + 1 <= r THEN 1 ELSE 0)
          BY DEF BlockSize, q, r
        <4> QED BY <1>1, <4>1
      <3>3. (n - 1) * q = n * q - q
        BY <1>1
      <3> QED BY <1>1, <3>1, <3>2, <3>3
    <2>0. /\ BlockStart(n, count, b) \in Nat /\ BlockSize(n, count, b) \in Nat
          /\ BlockStart(n, count, n - 1) \in Nat /\ BlockSize(n, count, n - 1) \in Nat
          /\ Elements(n, count, b) =
               BlockStart(n, count, b) .. BlockStart(n, count, b) + BlockSize(n, count, b) - 1
      <3>1. n - 1 \in 0 .. n - 1
        OBVIOUS
      <3> QED BY <3>1, BlockIsInterval
    <2>2. CASE b = n - 1
      BY <2>0, <2>1, <2>2
    <2>3. CASE b < n - 1
      <3>1. BlockStart(n, count, b) + BlockSize(n, count, b) <= BlockStart(n, count, n - 1)
        BY <2>3, BlocksInOrder
      <3>2. BlockStart(n, count, n - 1) <= count
        BY <2>0, <2>1
      <3> QED BY <2>0, <3>1, <3>2
    <2> QED BY <2>2, <2>3
  <1>5. ASSUME NEW e \in 0 .. count - 1
        PROVE  \E b \in 0 .. n - 1 : e \in Elements(n, count, b)
    <2> HIDE DEF q, r
    <2> DEFINE front == r * (q + 1)
    <2>1. front \in Nat
      BY <1>1
    <2>2. CASE e < front
      <3>0. PICK p \in Nat \ {0} : p = q + 1
        BY <1>1
      <3> DEFINE b == e \div p
                 s == e % p
      <3>1. b \in Nat /\ s \in 0 .. q /\ e = (q + 1) * b + s
        <4>1. e \in Nat
          OBVIOUS
        <4>2. b \in Nat
          BY <4>1
        <4>3. s \in 0 .. p - 1 /\ e = p * b + s
          BY <4>1, DivMod
        <4> HIDE DEF b, s
        <4> QED BY <1>1, <3>0, <4>2, <4>3
      <3> HIDE DEF b, s
      <3>2. b < r
        <4>1. SUFFICES ASSUME r <= b PROVE FALSE
          BY <1>1, <3>1
        <4>2. (q + 1) * r <= (q + 1) * b
          BY <1>1, <3>1, <4>1
        <4> QED BY <1>1, <2>2, <3>1, <4>2
      <3>3. BlockStart(n, count, b) = b * q + b /\ BlockSize(n, count, b) = q + 1
        BY <1>1, <3>1, <3>2 DEF BlockStart, BlockSize, q, r
      <3>4. b \in 0 .. n - 1
        BY <1>1, <3>1, <3>2
      <3>5. (q + 1) * b = b * q + b
        BY <1>1, <3>1
      <3>6. e \in BlockStart(n, count, b) .. BlockStart(n, count, b) + BlockSize(n, count, b) - 1
        BY <1>1, <3>1, <3>3, <3>4, <3>5
      <3> QED BY <3>4, <3>6, BlockIsInterval
    <2>3. CASE front <= e
      <3> DEFINE f == e - front
      <3>1. f \in Nat
        BY <2>1, <2>3
      <3>2. q > 0
        <4>1. SUFFICES ASSUME q = 0 PROVE FALSE
          BY <1>1
        <4> QED BY <1>1, <2>3, <4>1
      <3> DEFINE k == f \div q
      <3>3. k \in Nat /\ f % q \in 0 .. q - 1 /\ f = q * k + (f % q)
        BY <1>1, <3>1, <3>2, DivMod
      <3> HIDE DEF f, k
      <3>4. r + k \in 0 .. n - 1
        <4>1. SUFFICES ASSUME n <= r + k PROVE FALSE
          BY <1>1, <3>3
        <4>2. q * n <= q * (r + k)
          BY <1>1, <3>3, <4>1
        <4>3. q * (r + k) = r * q + q * k
          BY <1>1, <3>3
        <4>4. e = r * q + r + f
          BY <1>1, <3>1 DEF f
        <4> QED BY <1>1, <3>3, <4>2, <4>3, <4>4
      <3>5. BlockStart(n, count, r + k) = (r + k) * q + r /\ BlockSize(n, count, r + k) = q
        <4>1. /\ BlockStart(n, count, r + k) = (r + k) * q + (IF r + k <= r THEN r + k ELSE r)
              /\ BlockSize(n, count, r + k) = q + (IF (r + k) + 1 <= r THEN 1 ELSE 0)
          BY DEF BlockStart, BlockSize, q, r
        <4>2. (r + k) + 1 > r /\ (r + k <= r => r + k = r)
          BY <1>1, <3>3
        <4> QED BY <1>1, <3>3, <4>1, <4>2
      <3>6. (r + k) * q = r * q + q * k
        BY <1>1, <3>3
      <3>7. e = r * q + r + f
        BY <1>1, <3>1 DEF f
      <3>8. e \in BlockStart(n, count, r + k) ..
                    BlockStart(n, count, r + k) + BlockSize(n, count, r + k) - 1
        BY <1>1, <3>3, <3>4, <3>5, <3>6, <3>7
      <3> QED BY <3>4, <3>8, BlockIsInterval
    <2> QED BY <2>1, <2>2, <2>3
  <1> QED BY <1>3, <1>4, <1>5

-----------------------------------------------------------------------------
(***************************************************************************)
(* Plans whose members number their steps in order.                        *)
(***************************************************************************)
InOrder(P, r) ==
  /\ \A i \in DOMAIN P[r] : i \in Nat /\ P[r][i].step_idx \in Nat
  /\ \A i, j \in DOMAIN P[r] : i < j => P[r][i].step_idx < P[r][j].step_idx

\* A step has one peer, and sends before it receives.
OnePeer(P) ==
  \A r \in DOMAIN P : \A i \in DOMAIN P[r] : Len(P[r][i].eps) = 1 /\ ~ IsWaypoint(P[r][i])

\* An index tells the step.
LEMMA OneIndex ==
  ASSUME NEW P, NEW r, InOrder(P, r)
  PROVE  \A i, j \in DOMAIN P[r] : P[r][i].step_idx = P[r][j].step_idx => i = j
  <1> SUFFICES ASSUME NEW i \in DOMAIN P[r], NEW j \in DOMAIN P[r],
                      P[r][i].step_idx = P[r][j].step_idx
               PROVE  i = j
    OBVIOUS
  <1> DEFINE x == P[r][i].step_idx
             y == P[r][j].step_idx
  <1>1. i \in Nat /\ j \in Nat /\ x \in Nat /\ y \in Nat /\ x = y
    BY DEF InOrder
  <1>2. (i < j => x < y) /\ (j < i => y < x)
    BY DEF InOrder
  <1> HIDE DEF x, y
  <1> QED BY ONLY <1>1, <1>2

\* The indexes of such steps are their turns.
LEMMA OrderTurns ==
  ASSUME NEW P, OnePeer(P), \A r \in DOMAIN P : InOrder(P, r)
  PROVE  \E T : TurnsFit(P, T)
  <1> DEFINE T == [r \in DOMAIN P |-> [i \in DOMAIN P[r] |-> P[r][i].step_idx]]
  <1>1. \A r \in DOMAIN P : \A i \in DOMAIN P[r] :
          T[r][i] = P[r][i].step_idx /\ T[r][i] \in Nat
    BY DEF InOrder
  <1> HIDE DEF T
  <1>2. ASSUME NEW r \in DOMAIN P, NEW i \in DOMAIN P[r], NEW a \in Arrivals(P, r, i),
               NEW j \in DOMAIN P[a.from], SentAfter(P, a, j)
        PROVE  T[a.from][j] < T[r][i]
    <2>1. a \in Posts(P) /\ P[a.from][a.step].step_idx = P[r][i].step_idx
      BY DEF Arrivals, Index, StepOf
    <2>2. a.from \in DOMAIN P /\ a.step \in DOMAIN P[a.from]
      BY <2>1 DEF Posts, PostsOf
    <2>3. j < a.step
      BY <1>2, <2>2 DEF OnePeer, SentAfter, StepOf
    <2>4. P[a.from][j].step_idx < P[a.from][a.step].step_idx
      BY <2>2, <2>3 DEF InOrder
    <2> QED BY <1>1, <2>1, <2>2, <2>4
  <1>3. TurnsFit(P, T)
    BY <1>1, <1>2 DEF TurnsFit
  <1> QED BY <1>3

-----------------------------------------------------------------------------
(***************************************************************************)
(* What the members' steps hand to each other.  Of a block, a member holds *)
(* its own data; in the first round, what the members between the block's  *)
(* own member and itself have added to it; in the second, everybody's.     *)
(***************************************************************************)
RingPlan(n, count) == [r \in 0 .. n - 1 |-> Ring(n, r, count)]

\* How far to the right of member b member r is.
Behind(n, b, r) == IF b <= r THEN r - b ELSE r - b + n

\* Those whose data a member has when a block was handed on d times to get to
\* it; and a member's data, when it comes to step k, of the block that began d
\* members to the left.
Passed(n, r, d) == {m \in 0 .. n - 1 : Behind(n, m, r) <= d}

Gathered(n, r, k, d) ==
  IF k > n + d THEN 0 .. n - 1 ELSE IF 1 <= d /\ d < k THEN Passed(n, r, d) ELSE {r}

BlockOf(n, count, off) == CHOOSE b \in 0 .. n - 1 : off \in Elements(n, count, b)

RingLabels(n, count) ==
  [r \in 0 .. n - 1 |-> [k \in 1 .. 2 * n - 1 |-> [off \in 0 .. count - 1 |->
     Gathered(n, r, k, Behind(n, BlockOf(n, count, off), r))]]]

\* The left neighbour, and the distances from it, without remainders.
LEMMA LeftIs ==
  ASSUME NEW n \in Nat, n > 1, NEW r \in 0 .. n - 1
  PROVE  /\ LeftOf(n, r) = IF r = 0 THEN n - 1 ELSE r - 1
         /\ LeftOf(n, r) \in 0 .. n - 1 /\ LeftOf(n, r) # r
         /\ \A m \in 0 .. n - 1 :
              /\ Behind(n, m, r) \in 0 .. n - 1
              /\ Behind(n, m, r) = 0 <=> m = r
              /\ Behind(n, m, LeftOf(n, r)) = IF m = r THEN n - 1 ELSE Behind(n, m, r) - 1
  <1>1. CASE r = 0
    <2>1. LeftOf(n, r) = n - 1
      BY <1>1, ModUnique DEF LeftOf
    <2> QED BY <1>1, <2>1 DEF Behind
  <1>2. CASE r > 0
    <2>1. r - 1 + n = n * 1 + (r - 1) /\ r - 1 \in 0 .. n - 1
      BY <1>2
    <2>2. LeftOf(n, r) = r - 1
      BY <2>1, ModUnique DEF LeftOf
    <2> QED BY <1>2, <2>2 DEF Behind
  <1> QED BY <1>1, <1>2

\* Only the left neighbour sends to a member.
LEMMA OneLeft ==
  ASSUME NEW n \in Nat, n > 1, NEW q \in 0 .. n - 1
  PROVE  (q + 1) % n \in 0 .. n - 1 /\ \A r \in 0 .. n - 1 : (q + 1) % n = r <=> q = LeftOf(n, r)
  <1>1. CASE q = n - 1
    <2>1. q + 1 = n * 1 + 0 /\ 0 \in 0 .. n - 1
      BY <1>1
    <2>2. (q + 1) % n = 0
      BY <2>1, ModUnique
    <2>3. 0 \in 0 .. n - 1 /\ \A r \in 0 .. n - 1 : 0 = r <=> q = LeftOf(n, r)
      BY <1>1, LeftIs
    <2> QED BY <2>2, <2>3
  <1>2. CASE q < n - 1
    <2>1. q + 1 = n * 0 + (q + 1) /\ q + 1 \in 0 .. n - 1
      BY <1>2
    <2>2. (q + 1) % n = q + 1
      BY <2>1, ModUnique
    <2>3. ASSUME NEW r \in 0 .. n - 1 PROVE q + 1 = r <=> q = LeftOf(n, r)
      <3>1. LeftOf(n, r) = IF r = 0 THEN n - 1 ELSE r - 1
        BY LeftIs
      <3> QED BY <1>2, <3>1
    <2> QED BY <2>1, <2>2, <2>3
  <1> QED BY <1>1, <1>2

\* The block a member sends in a step, told by the distance from its own member.
LEMMA BlockSent ==
  ASSUME NEW n \in Nat, n > 1, NEW q \in 0 .. n - 1, NEW k \in 1 .. 2 * (n - 1)
  PROVE  /\ RingBlock(n, q, k) \in 0 .. n - 1
         /\ Behind(n, RingBlock(n, q, k), q) = IF k <= n THEN k - 1 ELSE k - 1 - n
  <1> DEFINE x == q - (k - 1)
             a == x + 2 * n
  <1>0. x \in Int /\ a \in Int /\ RingBlock(n, q, k) = a % n
    BY DEF RingBlock
  <1>1. CASE x >= 0
    <2>1. a = n * 2 + x /\ x \in 0 .. n - 1
      BY <1>1
    <2>2. RingBlock(n, q, k) = x
      <3>1. n \in Nat \ {0} /\ 2 \in Int /\ x \in 0 .. n - 1 /\ a \in Int /\ a = n * 2 + x
        BY <1>0, <2>1
      <3> HIDE DEF x, a
      <3>2. a % n = x
        BY ONLY <3>1, ModUnique
      <3> QED BY ONLY <1>0, <3>2
    <2> QED BY <1>1, <2>2 DEF Behind
  <1>2. CASE x < 0 /\ x >= 0 - n
    <2>1. a = n * 1 + (x + n) /\ x + n \in 0 .. n - 1
      BY <1>2
    <2>2. RingBlock(n, q, k) = x + n
      <3> DEFINE y == x + n
      <3>1. n \in Nat \ {0} /\ 1 \in Int /\ y \in 0 .. n - 1 /\ a \in Int /\ a = n * 1 + y
        BY <1>0, <2>1
      <3> HIDE DEF x, a, y
      <3>2. a % n = y
        BY ONLY <3>1, ModUnique
      <3>3. RingBlock(n, q, k) = y
        BY ONLY <1>0, <3>2
      <3> QED BY <3>3 DEF y
    <2>3. (x + n <= q) <=> (n <= k - 1)
      OBVIOUS
    <2> QED BY <1>2, <2>2, <2>3 DEF Behind
  <1>3. CASE x < 0 - n
    <2>1. a = n * 0 + (x + 2 * n) /\ x + 2 * n \in 0 .. n - 1
      BY <1>3
    <2>2. RingBlock(n, q, k) = x + 2 * n
      <3> DEFINE y == x + 2 * n
      <3>1. n \in Nat \ {0} /\ 0 \in Int /\ y \in 0 .. n - 1 /\ a \in Int /\ a = n * 0 + y
        BY <1>0, <2>1
      <3> HIDE DEF x, a, y
      <3>2. a % n = y
        BY ONLY <3>1, ModUnique
      <3>3. RingBlock(n, q, k) = y
        BY ONLY <1>0, <3>2
      <3> QED BY <3>3 DEF y
    <2>3. x + 2 * n > q
      OBVIOUS
    <2>4. k - 1 >= n
      BY <1>3
    <2> QED BY <1>3, <2>2, <2>3, <2>4 DEF Behind
  <1> QED BY <1>1, <1>2, <1>3

\* A number is its own rest.
LEMMA SmallRest ==
  ASSUME NEW f \in Nat \ {0}, NEW x \in 0 .. f - 1
  PROVE  x \div f = 0 /\ x % f = x
  <1>1. PICK z \in Int : z = 0
    OBVIOUS
  <1>2. x \in Int /\ x = f * z + x
    BY <1>1
  <1>3. x % f = x /\ x \div f = z
    BY <1>2, ModUnique
  <1> QED BY <1>1, <1>3

\* A block's elements in the order in which they are sent.
LEMMA PiecesAre ==
  ASSUME NEW n \in Nat, n > 1, NEW count \in Nat, NEW b \in 0 .. n - 1
  PROVE  /\ RingPieces(n, count, b) = Span(BlockStart(n, count, b), BlockSize(n, count, b))
         /\ BlockStart(n, count, b) \in Nat /\ BlockSize(n, count, b) \in Nat
         /\ Len(RingPieces(n, count, b)) = BlockSize(n, count, b)
         /\ \A x \in 0 .. BlockSize(n, count, b) - 1 :
              RingPieces(n, count, b)[x + 1] = BlockStart(n, count, b) + x
  <1> DEFINE q == count \div n
             r == count % n
             f == BlockStart(n, count, b)
             l == BlockSize(n, count, b)
  <1>1. q \in Nat /\ r \in Nat
    OBVIOUS
  <1>2. f \in Nat /\ l \in Nat
    BY <1>1 DEF BlockStart, BlockSize
  <1>3. RingPieces(n, count, b) = Span(f, l)
    BY <1>1, MinOfTwo DEF RingPieces, BlockStart, BlockSize
  <1> HIDE DEF f, l
  <1>4. Len(Span(f, l)) = l /\ \A x \in 0 .. l - 1 : Span(f, l)[x + 1] = f + x
    BY <1>2 DEF Span
  <1> QED BY <1>2, <1>3, <1>4 DEF f, l

\* The steps of a ring.
LEMMA RingStep ==
  ASSUME NEW n \in Nat, n > 1, 2 * (n - 1) <= 256, NEW count \in Nat,
         NEW q \in 0 .. n - 1, NEW k \in 1 .. 2 * (n - 1)
  PROVE  LET st == RingPlan(n, count)[q][k]
         IN  /\ st.eps = <<(q + 1) % n>> /\ st.step_idx = k - 1
             /\ st.pieces = RingPieces(n, count, RingBlock(n, q, k))
             /\ st.fragments_recv = BlockSize(n, count, RingBlock(n, LeftOf(n, q), k))
             /\ IsRing(st) /\ ~ IsR1S(st) /\ ~ IsRS1(st) /\ ~ IsSendOnly(st) /\ ~ IsRecvOnly(st)
             /\ Reduces(st) <=> k < n
  <1> DEFINE st == RingPlan(n, count)[q][k]
  <1>1. st = Ring(n, q, count)[k]
    BY DEF RingPlan
  <1>2. /\ st.eps = <<(q + 1) % n>> /\ st.step_idx = (k - 1) % 256
        /\ st.pieces = RingPieces(n, count, RingBlock(n, q, k))
        /\ st.fragments_recv = Len(RingPieces(n, count, (RingBlock(n, q, k) - 1 + n) % n))
        /\ st.method = IF k - 1 < n - 1 THEN "REDUCE_SCATTER_RING" ELSE "ALLGATHER_RING"
    <2> DEFINE m == IF k - 1 < n - 1 THEN "REDUCE_SCATTER_RING" ELSE "ALLGATHER_RING"
               x == RingPieces(n, count, RingBlock(n, q, k))
               e == <<(q + 1) % n>>
               f == Len(RingPieces(n, count, (RingBlock(n, q, k) - 1 + n) % n))
    <2>1. st = [Step(m, e, k - 1, x) EXCEPT !.fragments_recv = f]
      BY <1>1, Zenon DEF Ring
    <2> HIDE DEF m, e, x, f, st
    <2>2. /\ st.eps = e /\ st.step_idx = (k - 1) % 256 /\ st.pieces = x
          /\ st.fragments_recv = f /\ st.method = m
      BY ONLY <2>1 DEF Step
    <2> QED BY ONLY <2>2 DEF m, e, x, f, st
  <1> HIDE DEF st
  <1>3. k - 1 = 256 * 0 + (k - 1) /\ k - 1 \in 0 .. 256 - 1
    OBVIOUS
  <1>4. (k - 1) % 256 = k - 1
    BY <1>3, ModUnique
  <1>5. (RingBlock(n, q, k) - 1 + n) % n = RingBlock(n, LeftOf(n, q), k)
    BY BlockOfLeft
  <1>6. RingBlock(n, LeftOf(n, q), k) \in 0 .. n - 1
    <2>1. LeftOf(n, q) \in 0 .. n - 1
      BY LeftIs
    <2> QED BY <2>1, BlockSent
  <1>7. Len(RingPieces(n, count, RingBlock(n, LeftOf(n, q), k))) =
          BlockSize(n, count, RingBlock(n, LeftOf(n, q), k))
    <2> DEFINE b == RingBlock(n, LeftOf(n, q), k)
    <2>1. b \in 0 .. n - 1
      BY <1>6
    <2> HIDE DEF b
    <2>2. Len(RingPieces(n, count, b)) = BlockSize(n, count, b)
      BY <2>1, PiecesAre
    <2> QED BY <2>2 DEF b
  <1>8. k - 1 < n - 1 <=> k < n
    OBVIOUS
  <1>9. /\ IsRing(st) /\ ~ IsR1S(st) /\ ~ IsRS1(st) /\ ~ IsSendOnly(st) /\ ~ IsRecvOnly(st)
        /\ Reduces(st) <=> k < n
    BY <1>2, <1>8 DEF IsRing, IsR1S, IsRS1, IsSendOnly, IsRecvOnly, Reduces
  <1> QED BY <1>2, <1>4, <1>5, <1>7, <1>9 DEF st

\* How long the plans are.
LEMMA RingLength ==
  ASSUME NEW n \in Nat, n > 1, NEW count \in Nat
  PROVE  /\ DOMAIN RingPlan(n, count) = 0 .. n - 1
         /\ \A r \in 0 .. n - 1 : /\ DOMAIN RingPlan(n, count)[r] = 1 .. 2 * (n - 1)
                                  /\ Len(RingPlan(n, count)[r]) = 2 * (n - 1)
  <1>1. 2 * (n - 1) \in Nat
    OBVIOUS
  <1>2. ASSUME NEW r \in 0 .. n - 1
        PROVE  /\ DOMAIN RingPlan(n, count)[r] = 1 .. 2 * (n - 1)
               /\ Len(RingPlan(n, count)[r]) = 2 * (n - 1)
    BY <1>1 DEF RingPlan, Ring
  <1> QED BY <1>2 DEF RingPlan

\* Whom a member's sends go to, and what is in them.
RingPosts(n, count, q, k) ==
  {[from |-> q, step |-> k, pos |-> x] : x \in 0 .. BlockSize(n, count, RingBlock(n, q, k)) - 1}

LEMMA RingPostIs ==
  ASSUME NEW n \in Nat, n > 1, 2 * (n - 1) <= 256, NEW count \in Nat
  PROVE  /\ \A a \in Posts(RingPlan(n, count)) :
              a.from \in 0 .. n - 1 /\ a.step \in 1 .. 2 * (n - 1)
              /\ a \in RingPosts(n, count, a.from, a.step)
         /\ \A q \in 0 .. n - 1, k \in 1 .. 2 * (n - 1) :
              \A a \in RingPosts(n, count, q, k) :
                /\ a \in Posts(RingPlan(n, count)) /\ a.from = q /\ a.step = k
                /\ Dest(RingPlan(n, count), a) = (q + 1) % n
                /\ Index(RingPlan(n, count), a) = k - 1
                /\ Place(RingPlan(n, count), a) =
                     BlockStart(n, count, RingBlock(n, q, k)) + a.pos
                /\ a.pos \in 0 .. BlockSize(n, count, RingBlock(n, q, k)) - 1
  <1> DEFINE P == RingPlan(n, count)
  <1>1. DOMAIN P = 0 .. n - 1 /\ \A r \in 0 .. n - 1 : DOMAIN P[r] = 1 .. 2 * (n - 1)
    BY RingLength
  <1>2. ASSUME NEW q \in 0 .. n - 1, NEW k \in 1 .. 2 * (n - 1)
        PROVE  /\ PostsOf(P, q, k) = RingPosts(n, count, q, k)
               /\ Fragments(P[q][k]) = BlockSize(n, count, RingBlock(n, q, k))
               /\ Fragments(P[q][k]) \in Nat
    <2> DEFINE st == P[q][k]
               b  == RingBlock(n, q, k)
    <2>1. /\ st.eps = <<(q + 1) % n>> /\ st.pieces = RingPieces(n, count, b)
          /\ ~ IsR1S(st) /\ ~ IsRS1(st) /\ ~ IsRecvOnly(st)
      BY RingStep
    <2>2. b \in 0 .. n - 1
      BY BlockSent
    <2> HIDE DEF P, st, b
    <2>3. Fragments(st) = BlockSize(n, count, b) /\ Fragments(st) \in Nat
      <3>1. /\ Len(RingPieces(n, count, b)) = BlockSize(n, count, b)
            /\ BlockSize(n, count, b) \in Nat
        BY <2>2, PiecesAre
      <3> QED BY <2>1, <3>1 DEF Fragments
    <2>4. Positions(st) = 0 .. Fragments(st) - 1
      BY <2>1, <2>3 DEF Positions, First, End
    <2> QED BY <2>3, <2>4 DEF PostsOf, RingPosts, st, b
  <1>3. ASSUME NEW q \in 0 .. n - 1, NEW k \in 1 .. 2 * (n - 1), NEW a \in RingPosts(n, count, q, k)
        PROVE  /\ a \in Posts(P) /\ a.from = q /\ a.step = k
               /\ Dest(P, a) = (q + 1) % n /\ Index(P, a) = k - 1
               /\ Place(P, a) = BlockStart(n, count, RingBlock(n, q, k)) + a.pos
               /\ a.pos \in 0 .. BlockSize(n, count, RingBlock(n, q, k)) - 1
    <2> DEFINE st == P[q][k]
               b  == RingBlock(n, q, k)
    <2>1. /\ st.eps = <<(q + 1) % n>> /\ st.pieces = RingPieces(n, count, b)
          /\ st.step_idx = k - 1
      BY RingStep
    <2>2. b \in 0 .. n - 1
      BY BlockSent
    <2>3. PICK x \in 0 .. BlockSize(n, count, b) - 1 : a = [from |-> q, step |-> k, pos |-> x]
      BY DEF RingPosts
    <2>4. a \in Posts(P)
      <3> HIDE DEF P
      <3> QED BY <1>1, <1>2 DEF Posts
    <2> HIDE DEF P, st, b
    <2>5. StepOf(P, a) = st /\ Fragments(st) = BlockSize(n, count, b) /\ Fragments(st) \in Nat
      BY <1>2, <2>3 DEF StepOf, st, b
    <2>6. x \in Nat /\ x \div Fragments(st) = 0 /\ x % Fragments(st) = x
      <3> DEFINE f == Fragments(st)
      <3>1. f \in Nat \ {0} /\ x \in 0 .. f - 1 /\ x \in Int
        BY <2>3, <2>5
      <3> HIDE DEF f
      <3>2. x \div f = 0 /\ x % f = x
        BY <3>1, SmallRest
      <3> QED BY <3>1, <3>2 DEF f
    <2>7. Dest(P, a) = (q + 1) % n /\ Index(P, a) = k - 1
      BY <2>1, <2>3, <2>5, <2>6 DEF Dest, Index
    <2>8. Place(P, a) = BlockStart(n, count, b) + x
      <3>1. RingPieces(n, count, b)[x + 1] = BlockStart(n, count, b) + x
        BY <2>2, <2>3, PiecesAre
      <3>2. Place(P, a) = st.pieces[x + 1]
        BY <2>3, <2>5, <2>6 DEF Place
      <3> QED BY <2>1, <3>1, <3>2
    <2> QED BY <2>3, <2>4, <2>7, <2>8 DEF b
  <1>4. ASSUME NEW a \in Posts(P)
        PROVE  /\ a.from \in 0 .. n - 1 /\ a.step \in 1 .. 2 * (n - 1)
               /\ a \in RingPosts(n, count, a.from, a.step)
    <2> HIDE DEF P
    <2>1. PICK q \in 0 .. n - 1 : \E k \in DOMAIN P[q] : a \in PostsOf(P, q, k)
      BY <1>1 DEF Posts
    <2>2. PICK k \in 1 .. 2 * (n - 1) : a \in PostsOf(P, q, k)
      BY <1>1, <2>1
    <2>3. a \in RingPosts(n, count, q, k)
      BY <1>2, <2>2
    <2> QED BY <2>3 DEF RingPosts
  <1> QED BY <1>3, <1>4

\* Each element is in one block, and where a post goes is in the block sent.
LEMMA BlockIs ==
  ASSUME NEW n \in Nat, n > 1, NEW count \in Nat
  PROVE  /\ \A off \in 0 .. count - 1 : BlockOf(n, count, off) \in 0 .. n - 1
         /\ \A b \in 0 .. n - 1 : \A x \in 0 .. BlockSize(n, count, b) - 1 :
              /\ BlockStart(n, count, b) + x \in 0 .. count - 1
              /\ BlockOf(n, count, BlockStart(n, count, b) + x) = b
         /\ \A off \in 0 .. count - 1 :
              \E x \in 0 .. BlockSize(n, count, BlockOf(n, count, off)) - 1 :
                BlockStart(n, count, BlockOf(n, count, off)) + x = off
  <1>0. n \in Nat \ {0}
    OBVIOUS
  <1>1. /\ \A b \in 0 .. n - 1 : Elements(n, count, b) \subseteq 0 .. count - 1
        /\ \A b, c \in 0 .. n - 1 :
             b # c => Elements(n, count, b) \cap Elements(n, count, c) = {}
        /\ \A e \in 0 .. count - 1 : \E b \in 0 .. n - 1 : e \in Elements(n, count, b)
    BY <1>0, RingTiles
  <1>2. ASSUME NEW b \in 0 .. n - 1
        PROVE  /\ BlockStart(n, count, b) \in Nat /\ BlockSize(n, count, b) \in Nat
               /\ Elements(n, count, b) =
                    BlockStart(n, count, b) .. BlockStart(n, count, b) + BlockSize(n, count, b) - 1
    BY <1>0, BlockIsInterval
  <1>3. ASSUME NEW off \in 0 .. count - 1
        PROVE  /\ BlockOf(n, count, off) \in 0 .. n - 1
               /\ off \in Elements(n, count, BlockOf(n, count, off))
    BY <1>1 DEF BlockOf
  <1>4. ASSUME NEW b \in 0 .. n - 1, NEW x \in 0 .. BlockSize(n, count, b) - 1
        PROVE  /\ BlockStart(n, count, b) + x \in 0 .. count - 1
               /\ BlockOf(n, count, BlockStart(n, count, b) + x) = b
    <2> DEFINE e == BlockStart(n, count, b) + x
    <2>1. e \in Elements(n, count, b)
      <3> DEFINE s == BlockStart(n, count, b)
                 z == BlockSize(n, count, b)
      <3>1. s \in Nat /\ z \in Nat /\ Elements(n, count, b) = s .. s + z - 1 /\ x \in 0 .. z - 1
        BY <1>2
      <3> HIDE DEF s, z
      <3>2. s + x \in s .. s + z - 1
        BY ONLY <3>1
      <3> QED BY ONLY <3>1, <3>2 DEF s
    <2> HIDE DEF e
    <2>2. e \in 0 .. count - 1
      BY <1>1, <2>1
    <2>3. BlockOf(n, count, e) = b
      BY <1>1, <1>3, <2>1, <2>2
    <2> QED BY <2>2, <2>3 DEF e
  <1>5. ASSUME NEW off \in 0 .. count - 1
        PROVE  \E x \in 0 .. BlockSize(n, count, BlockOf(n, count, off)) - 1 :
                 BlockStart(n, count, BlockOf(n, count, off)) + x = off
    <2> DEFINE b == BlockOf(n, count, off)
    <2>1. b \in 0 .. n - 1 /\ off \in Elements(n, count, b)
      BY <1>3
    <2> HIDE DEF b
    <2>2. /\ BlockStart(n, count, b) \in Nat /\ BlockSize(n, count, b) \in Nat
          /\ off \in BlockStart(n, count, b) .. BlockStart(n, count, b) + BlockSize(n, count, b) - 1
      BY <1>2, <2>1
    <2>3. /\ off - BlockStart(n, count, b) \in 0 .. BlockSize(n, count, b) - 1
          /\ BlockStart(n, count, b) + (off - BlockStart(n, count, b)) = off
      BY <2>2
    <2>4. \E x \in 0 .. BlockSize(n, count, b) - 1 : BlockStart(n, count, b) + x = off
      BY <2>3
    <2> QED BY <2>4 DEF b
  <1> QED BY <1>3, <1>4, <1>5

\* The place of an element in a block, one at a time.
LEMMA PlaceInBlock ==
  ASSUME NEW n \in Nat, n > 1, NEW count \in Nat,
         NEW b \in 0 .. n - 1, NEW x \in 0 .. BlockSize(n, count, b) - 1
  PROVE  /\ BlockStart(n, count, b) + x \in 0 .. count - 1
         /\ BlockOf(n, count, BlockStart(n, count, b) + x) = b
  BY BlockIs

\* Every element has a place in its block.
LEMMA PlaceOf ==
  ASSUME NEW n \in Nat, n > 1, NEW count \in Nat, NEW off \in 0 .. count - 1
  PROVE  \E x \in 0 .. BlockSize(n, count, BlockOf(n, count, off)) - 1 :
           BlockStart(n, count, BlockOf(n, count, off)) + x = off
  BY BlockIs

\* What comes to a member in a step is what its left neighbour sends in it.
LEMMA RingArrivals ==
  ASSUME NEW n \in Nat, n > 1, 2 * (n - 1) <= 256, NEW count \in Nat,
         NEW r \in 0 .. n - 1, NEW k \in 1 .. 2 * (n - 1)
  PROVE  /\ Arrivals(RingPlan(n, count), r, k) = RingPosts(n, count, LeftOf(n, r), k)
         /\ IsFiniteSet(Arrivals(RingPlan(n, count), r, k))
         /\ Cardinality(Arrivals(RingPlan(n, count), r, k)) =
              BlockSize(n, count, RingBlock(n, LeftOf(n, r), k))
  <1> DEFINE P == RingPlan(n, count)
             q == LeftOf(n, r)
             size == BlockSize(n, count, RingBlock(n, q, k))
  <1>1. q \in 0 .. n - 1
    BY LeftIs
  <1>2. size \in Nat
    <2>1. RingBlock(n, q, k) \in 0 .. n - 1
      BY <1>1, BlockSent
    <2> HIDE DEF q
    <2> QED BY <2>1, PiecesAre
  <1>3. ASSUME NEW a PROVE a \in Arrivals(P, r, k) <=> a \in RingPosts(n, count, q, k)
    <2>1. P[r][k].step_idx = k - 1
      BY RingStep
    <2>2. a \in Arrivals(P, r, k) <=> a \in Posts(P) /\ Dest(P, a) = r /\ Index(P, a) = k - 1
      BY <2>1 DEF Arrivals
    <2>3. ASSUME a \in Posts(P), Dest(P, a) = r, Index(P, a) = k - 1
          PROVE  a \in RingPosts(n, count, q, k)
      <3>1. /\ a.from \in 0 .. n - 1 /\ a.step \in 1 .. 2 * (n - 1)
            /\ a \in RingPosts(n, count, a.from, a.step)
        BY <2>3, RingPostIs
      <3>2. Dest(P, a) = (a.from + 1) % n /\ Index(P, a) = a.step - 1
        BY <3>1, RingPostIs
      <3>3. a.step = k
        BY <2>3, <3>1, <3>2
      <3>4. a.from = q
        BY <2>3, <3>1, <3>2, OneLeft
      <3> QED BY <3>1, <3>3, <3>4
    <2>4. ASSUME a \in RingPosts(n, count, q, k)
          PROVE  a \in Posts(P) /\ Dest(P, a) = r /\ Index(P, a) = k - 1
      <3>1. (q + 1) % n = r
        BY <1>1, OneLeft
      <3> QED BY <1>1, <2>4, <3>1, RingPostIs
    <2> HIDE DEF P, q
    <2> QED BY <2>2, <2>3, <2>4
  <1>4. IsFiniteSet(RingPosts(n, count, q, k)) /\ Cardinality(RingPosts(n, count, q, k)) = size
    <2> DEFINE S == 0 .. size - 1
               post(x) == [from |-> q, step |-> k, pos |-> x]
               f == [x \in S |-> post(x)]
               T == RingPosts(n, count, q, k)
    <2>1. IsFiniteSet(S) /\ Cardinality(S) = size
      <3> HIDE DEF size
      <3>1. 0 \in Int /\ size - 1 \in Int
        BY <1>2
      <3>2. /\ IsFiniteSet(0 .. size - 1)
            /\ Cardinality(0 .. size - 1) = IF 0 > size - 1 THEN 0 ELSE (size - 1) - 0 + 1
        BY <3>1, FS_Interval
      <3> QED BY <1>2, <3>2
    <2>2. T = {post(x) : x \in S}
      BY DEF RingPosts
    <2> HIDE DEF S, T, size, q
    <2>3. f \in Bijection(S, T)
      <3>1. f \in [S -> T]
        BY <2>2
      <3>2. \A x, y \in S : f[x] = f[y] => x = y
        <4>1. \A x \in S : f[x].pos = x
          OBVIOUS
        <4> HIDE DEF f
        <4> QED BY <4>1
      <3>3. \A t \in T : \E x \in S : f[x] = t
        BY <2>2
      <3> HIDE DEF f
      <3> QED BY <3>1, <3>2, <3>3 DEF Bijection, Injection, Surjection, IsInjective
    <2>4. ExistsBijection(S, T)
      BY <2>3 DEF ExistsBijection
    <2> QED BY <2>1, <2>4, FS_Bijection DEF T
  <1>5. Arrivals(P, r, k) = RingPosts(n, count, q, k)
    <2> HIDE DEF P, q
    <2> QED BY <1>3
  <1> QED BY <1>4, <1>5

\* The messages of a step fit, and ids tell them apart.
LEMMA RingCounts ==
  ASSUME NEW n \in Nat, n > 1, 2 * (n - 1) <= 256, NEW count \in Nat
  PROVE  CountsFit(RingPlan(n, count)) /\ IdsFit(RingPlan(n, count))
  <1> DEFINE P == RingPlan(n, count)
  <1>1. DOMAIN P = 0 .. n - 1 /\ \A r \in 0 .. n - 1 : DOMAIN P[r] = 1 .. 2 * (n - 1)
    BY RingLength
  <1>2. CountsFit(P)
    <2>1. ASSUME NEW r \in 0 .. n - 1, NEW k \in 1 .. 2 * (n - 1)
          PROVE  /\ IsFiniteSet(Arrivals(P, r, k))
                 /\ Cardinality(Arrivals(P, r, k)) = WaitsFor(P[r][k])
                 /\ IsRing(P[r][k])
      <3> DEFINE st == P[r][k]
      <3>1. /\ st.eps = <<(r + 1) % n>> /\ IsRing(st)
            /\ st.fragments_recv = BlockSize(n, count, RingBlock(n, LeftOf(n, r), k))
            /\ ~ IsR1S(st) /\ ~ IsRS1(st) /\ ~ IsSendOnly(st)
        BY RingStep
      <3>2. BlockSize(n, count, RingBlock(n, LeftOf(n, r), k)) \in Nat
        <4> DEFINE b == RingBlock(n, LeftOf(n, r), k)
        <4>1. LeftOf(n, r) \in 0 .. n - 1
          BY LeftIs
        <4>2. b \in 0 .. n - 1
          BY <4>1, BlockSent
        <4> HIDE DEF b
        <4>3. BlockSize(n, count, b) \in Nat
          BY <4>2, PiecesAre
        <4> QED BY <4>3 DEF b
      <3> HIDE DEF st
      <3>3. WaitsFor(st) = BlockSize(n, count, RingBlock(n, LeftOf(n, r), k))
        BY <3>1, <3>2 DEF WaitsFor, RecvCount
      <3> QED BY <3>1, <3>3, RingArrivals DEF st
    <2> HIDE DEF P
    <2> QED BY <1>1, <2>1 DEF CountsFit
  <1>3. IdsFit(P)
    <2>1. ASSUME NEW r \in 0 .. n - 1, NEW i \in 1 .. 2 * (n - 1), NEW j \in 1 .. 2 * (n - 1),
                 P[r][i].step_idx = P[r][j].step_idx
          PROVE  i = j
      <3>1. P[r][i].step_idx = i - 1 /\ P[r][j].step_idx = j - 1
        BY RingStep
      <3>2. \A x, y \in Int : x - 1 = y - 1 => x = y
        OBVIOUS
      <3>3. i \in Int /\ j \in Int
        OBVIOUS
      <3> HIDE DEF P
      <3> QED BY ONLY <2>1, <3>1, <3>2, <3>3
    <2>2. ASSUME NEW a \in Posts(P)
          PROVE  /\ a.from \in 0 .. n - 1 /\ a.step \in 1 .. 2 * (n - 1) /\ a.pos \in Int
                 /\ a = [from |-> a.from, step |-> a.step, pos |-> a.pos]
                 /\ Dest(P, a) \in 0 .. n - 1 /\ Index(P, a) = a.step - 1
                 /\ a \in Arrivals(P, Dest(P, a), a.step)
                 /\ Place(P, a) = BlockStart(n, count, RingBlock(n, a.from, a.step)) + a.pos
                 /\ BlockStart(n, count, RingBlock(n, a.from, a.step)) \in Int
      <3>1. /\ a.from \in 0 .. n - 1 /\ a.step \in 1 .. 2 * (n - 1)
            /\ a \in RingPosts(n, count, a.from, a.step)
        BY RingPostIs
      <3>2. /\ Dest(P, a) = (a.from + 1) % n /\ Index(P, a) = a.step - 1
            /\ Place(P, a) = BlockStart(n, count, RingBlock(n, a.from, a.step)) + a.pos
            /\ a.pos \in 0 .. BlockSize(n, count, RingBlock(n, a.from, a.step)) - 1
        BY <3>1, RingPostIs
      <3>3. a = [from |-> a.from, step |-> a.step, pos |-> a.pos]
        BY <3>1 DEF RingPosts
      <3>4. Dest(P, a) \in 0 .. n - 1
        BY <3>1, <3>2, OneLeft
      <3>5. P[Dest(P, a)][a.step].step_idx = a.step - 1
        BY <3>1, <3>4, RingStep
      <3>6. a \in Arrivals(P, Dest(P, a), a.step)
        BY <3>2, <3>5 DEF Arrivals
      <3>7. BlockStart(n, count, RingBlock(n, a.from, a.step)) \in Int
        <4> DEFINE b == RingBlock(n, a.from, a.step)
        <4>1. b \in 0 .. n - 1
          BY <3>1, BlockSent
        <4> HIDE DEF b
        <4>2. BlockStart(n, count, b) \in Int
          BY <4>1, PiecesAre
        <4> QED BY <4>2 DEF b
      <3> HIDE DEF P
      <3> QED BY <3>1, <3>2, <3>3, <3>4, <3>6, <3>7
    <2>3. ASSUME NEW a \in Posts(P), NEW b \in Posts(P), a.from = b.from,
                 Index(P, a) = Index(P, b), Place(P, a) = Place(P, b)
          PROVE  a = b
      <3> HIDE DEF P
      <3>1. a.step = b.step
        <4>1. \A x, y \in Int : x - 1 = y - 1 => x = y
          OBVIOUS
        <4>2. a.step \in Int /\ b.step \in Int /\ a.step - 1 = b.step - 1
          BY <2>2, <2>3
        <4> QED BY ONLY <4>1, <4>2
      <3>2. a.pos = b.pos
        <4> DEFINE s == BlockStart(n, count, RingBlock(n, a.from, a.step))
        <4>1. s \in Int /\ a.pos \in Int /\ b.pos \in Int /\ s + a.pos = s + b.pos
          BY <2>2, <2>3, <3>1
        <4> HIDE DEF s
        <4>2. \A z, x, y \in Int : z + x = z + y => x = y
          OBVIOUS
        <4> QED BY ONLY <4>1, <4>2
      <3> QED BY <2>2, <2>3, <3>1, <3>2
    <2> HIDE DEF P
    <2>4. \A r \in DOMAIN P : \A i, j \in DOMAIN P[r] : P[r][i].step_idx = P[r][j].step_idx => i = j
      BY <1>1, <2>1
    <2>5. \A a \in Posts(P) : /\ Dest(P, a) \in DOMAIN P
                              /\ \E i \in DOMAIN P[Dest(P, a)] : a \in Arrivals(P, Dest(P, a), i)
      BY <1>1, <2>2
    <2> QED BY ONLY <2>3, <2>4, <2>5 DEF IdsFit
  <1> QED BY <1>2, <1>3

\* A contribution is added to those of the members before.
LEMMA PassedOn ==
  ASSUME NEW n \in Nat, n > 1, NEW r \in 0 .. n - 1
  PROVE  /\ Passed(n, r, 0) = {r} /\ Passed(n, r, n - 1) = 0 .. n - 1
         /\ \A d \in 0 .. n - 1 : r \in Passed(n, r, d)
         /\ \A d \in 1 .. n - 1 : /\ Passed(n, r, d) = {r} \cup Passed(n, LeftOf(n, r), d - 1)
                                  /\ r \notin Passed(n, LeftOf(n, r), d - 1)
  <1>1. \A m \in 0 .. n - 1 :
          /\ Behind(n, m, r) \in 0 .. n - 1
          /\ Behind(n, m, r) = 0 <=> m = r
          /\ Behind(n, m, LeftOf(n, r)) = IF m = r THEN n - 1 ELSE Behind(n, m, r) - 1
    BY LeftIs
  <1>2. Passed(n, r, 0) = {r} /\ Passed(n, r, n - 1) = 0 .. n - 1
    BY <1>1 DEF Passed
  <1>3. ASSUME NEW d \in 0 .. n - 1 PROVE r \in Passed(n, r, d)
    BY <1>1 DEF Passed
  <1>4. ASSUME NEW d \in 1 .. n - 1
        PROVE  /\ Passed(n, r, d) = {r} \cup Passed(n, LeftOf(n, r), d - 1)
               /\ r \notin Passed(n, LeftOf(n, r), d - 1)
    BY <1>1 DEF Passed
  <1> QED BY <1>2, <1>3, <1>4

\* How far the block that comes in a step is from its own member.
Due(n, k) == IF k < n THEN k ELSE k - n

\* An element comes to a member in the two steps its block is due, once.
LEMMA RingLanding ==
  ASSUME NEW n \in Nat, n > 1, 2 * (n - 1) <= 256, NEW count \in Nat,
         NEW r \in 0 .. n - 1, NEW k \in 1 .. 2 * (n - 1), NEW off \in 0 .. count - 1
  PROVE  LET here == Landing(RingPlan(n, count), r, k, off)
         IN  IF Behind(n, BlockOf(n, count, off), r) = Due(n, k)
               THEN \E a \in RingPosts(n, count, LeftOf(n, r), k) : here = {a}
               ELSE here = {}
  <1> DEFINE P == RingPlan(n, count)
             q == LeftOf(n, r)
             b == BlockOf(n, count, off)
             c == RingBlock(n, q, k)
             here == Landing(P, r, k, off)
  <1>1. q \in 0 .. n - 1 /\ b \in 0 .. n - 1
    BY LeftIs, BlockIs
  <1>2. c \in 0 .. n - 1 /\ Behind(n, c, q) = IF k <= n THEN k - 1 ELSE k - 1 - n
    <2> HIDE DEF q
    <2> QED BY <1>1, BlockSent
  <1>3. Behind(n, c, r) = Due(n, k)
    <2>1. /\ Behind(n, c, r) \in 0 .. n - 1
          /\ Behind(n, c, r) = 0 <=> c = r
          /\ Behind(n, c, q) = IF c = r THEN n - 1 ELSE Behind(n, c, r) - 1
      <3>1. \A m \in 0 .. n - 1 :
              /\ Behind(n, m, r) \in 0 .. n - 1
              /\ Behind(n, m, r) = 0 <=> m = r
              /\ Behind(n, m, q) = IF m = r THEN n - 1 ELSE Behind(n, m, r) - 1
        BY LeftIs
      <3>2. c \in 0 .. n - 1
        BY <1>2
      <3> HIDE DEF c, q
      <3> QED BY <3>1, <3>2
    <2> HIDE DEF c, q
    <2> QED BY <1>2, <2>1 DEF Due
  <1>4. Behind(n, b, r) = Due(n, k) <=> b = c
    <2> HIDE DEF b, c
    <2>1. Behind(n, b, r) = Behind(n, c, r) => b = c
      BY <1>1, <1>2 DEF Behind
    <2> QED BY <1>3, <2>1
  <1>5. Arrivals(P, r, k) = RingPosts(n, count, q, k)
    BY RingArrivals
  <1>6. \A a \in RingPosts(n, count, q, k) :
          /\ Place(P, a) = BlockStart(n, count, c) + a.pos
          /\ a.pos \in 0 .. BlockSize(n, count, c) - 1
          /\ a = [from |-> q, step |-> k, pos |-> a.pos]
    <2>1. \A a \in RingPosts(n, count, q, k) :
            /\ Place(P, a) = BlockStart(n, count, c) + a.pos
            /\ a.pos \in 0 .. BlockSize(n, count, c) - 1
      <3> HIDE DEF q
      <3> QED BY <1>1, RingPostIs
    <2> QED BY <2>1 DEF RingPosts
  <1>7. BlockStart(n, count, c) \in Nat /\ BlockSize(n, count, c) \in Nat
    <2> HIDE DEF c
    <2> QED BY <1>2, PiecesAre
  <1>8. \A a \in here : a \in RingPosts(n, count, q, k) /\ Place(P, a) = off
    BY <1>5 DEF Landing
  <1>9. ASSUME b # c PROVE here = {}
    <2>1. ASSUME NEW a \in here PROVE FALSE
      <3>1. /\ off = BlockStart(n, count, c) + a.pos
            /\ a.pos \in 0 .. BlockSize(n, count, c) - 1
        BY <1>6, <1>8
      <3> HIDE DEF c, here
      <3>2. BlockOf(n, count, BlockStart(n, count, c) + a.pos) = c
        BY <1>2, <3>1, PlaceInBlock
      <3>3. b = c
        BY <3>1, <3>2
      <3> QED BY <1>9, <3>3
    <2> QED BY <2>1
  <1>10. ASSUME b = c PROVE \E a \in RingPosts(n, count, q, k) : here = {a}
    <2>1. PICK x \in 0 .. BlockSize(n, count, b) - 1 : BlockStart(n, count, b) + x = off
      BY PlaceOf
    <2> DEFINE a == [from |-> q, step |-> k, pos |-> x]
    <2>2. a \in RingPosts(n, count, q, k)
      BY <1>10, <2>1 DEF RingPosts
    <2>3. Place(P, a) = off
      <3>1. Place(P, a) = BlockStart(n, count, c) + a.pos
        BY <1>6, <2>2
      <3>2. a.pos = x
        OBVIOUS
      <3> HIDE DEF a, P, b, c
      <3> QED BY <1>10, <2>1, <3>1, <3>2
    <2>4. a \in here
      BY <1>5, <2>2, <2>3 DEF Landing
    <2>5. ASSUME NEW e \in here PROVE e = a
      <3>1. /\ e = [from |-> q, step |-> k, pos |-> e.pos]
            /\ off = BlockStart(n, count, c) + e.pos
            /\ e.pos \in 0 .. BlockSize(n, count, c) - 1
        BY <1>6, <1>8
      <3>2. x \in Int /\ e.pos \in Int /\ BlockStart(n, count, c) \in Int
            /\ BlockStart(n, count, c) + x = BlockStart(n, count, c) + e.pos
        <4> HIDE DEF b, c, here
        <4> QED BY <1>7, <1>10, <2>1, <3>1
      <3>3. \A z, y, w \in Int : z + y = z + w => y = w
        OBVIOUS
      <3>4. x = e.pos
        BY ONLY <3>2, <3>3
      <3> QED BY <3>1, <3>4
    <2> HIDE DEF here, a
    <2>6. here = {a}
      BY <2>4, <2>5
    <2> QED BY <2>2, <2>6
  <1> HIDE DEF P, q, b, c, here
  <1>11. IF Behind(n, b, r) = Due(n, k)
           THEN \E a \in RingPosts(n, count, q, k) : here = {a}
           ELSE here = {}
    BY <1>4, <1>9, <1>10
  <1> QED BY <1>11 DEF P, q, b, c, here

\* Whose data a message has.
LEMMA RingCarried ==
  ASSUME NEW n \in Nat, n > 1, 2 * (n - 1) <= 256, NEW count \in Nat,
         NEW q \in 0 .. n - 1, NEW k \in 1 .. 2 * (n - 1), NEW a \in RingPosts(n, count, q, k)
  PROVE  Carried(RingPlan(n, count), RingLabels(n, count), a) =
           IF k < n THEN Passed(n, q, k - 1) ELSE 0 .. n - 1
  <1> DEFINE P == RingPlan(n, count)
             W == RingLabels(n, count)
             c == RingBlock(n, q, k)
             e == Place(P, a)
             d == Behind(n, c, q)
  <1>1. /\ a.from = q /\ a.step = k /\ e = BlockStart(n, count, c) + a.pos
        /\ a.pos \in 0 .. BlockSize(n, count, c) - 1
    BY RingPostIs
  <1>2. c \in 0 .. n - 1 /\ d = IF k <= n THEN k - 1 ELSE k - 1 - n
    BY BlockSent
  <1>3. e \in 0 .. count - 1 /\ BlockOf(n, count, e) = c
    <2> HIDE DEF c, d, e, W, P
    <2>1. /\ BlockStart(n, count, c) + a.pos \in 0 .. count - 1
          /\ BlockOf(n, count, BlockStart(n, count, c) + a.pos) = c
      <3>1. c \in 0 .. n - 1 /\ a.pos \in 0 .. BlockSize(n, count, c) - 1
        BY <1>1, <1>2
      <3> QED BY <3>1, PlaceInBlock
    <2> QED BY ONLY <1>1, <2>1
  <1>4. ~ IsWaypoint(StepOf(P, a))
    <2>1. StepOf(P, a) = P[q][k]
      BY <1>1 DEF StepOf
    <2>2. ~ IsR1S(P[q][k]) /\ ~ IsRS1(P[q][k])
      BY RingStep
    <2> QED BY <2>1, <2>2 DEF IsWaypoint
  <1> HIDE DEF P, e
  <1>5. Carried(P, W, a) = W[q][k][e]
    <2> HIDE DEF W
    <2> QED BY <1>1, <1>4 DEF Carried, e
  <1>6. W[q][k][e] = Gathered(n, q, k, Behind(n, BlockOf(n, count, e), q))
    <2>1. k \in 1 .. 2 * n - 1
      OBVIOUS
    <2> QED BY <1>3, <2>1 DEF RingLabels
  <1>7. Gathered(n, q, k, d) = IF k < n THEN Passed(n, q, k - 1) ELSE 0 .. n - 1
    <2> HIDE DEF d
    <2>1. Passed(n, q, 0) = {q} /\ Passed(n, q, n - 1) = 0 .. n - 1
      BY PassedOn
    <2>2. CASE k = 1
      <3>1. d = 0 /\ k < n /\ k - 1 = 0
        BY <1>2, <2>2
      <3>2. Gathered(n, q, k, d) = {q}
        BY <3>1 DEF Gathered
      <3> QED BY <2>1, <3>1, <3>2
    <2>3. CASE k > 1 /\ k < n
      <3>1. d = k - 1 /\ 1 <= d /\ d < k /\ ~ (k > n + d)
        BY <1>2, <2>3
      <3>2. Gathered(n, q, k, d) = Passed(n, q, d)
        BY <3>1 DEF Gathered
      <3> QED BY <2>3, <3>1, <3>2
    <2>4. CASE k = n
      <3>1. d = n - 1 /\ 1 <= d /\ d < k /\ ~ (k > n + d) /\ ~ (k < n)
        BY <1>2, <2>4
      <3>2. Gathered(n, q, k, d) = Passed(n, q, d)
        BY <3>1 DEF Gathered
      <3> QED BY <2>1, <3>1, <3>2
    <2>5. CASE k > n
      <3>1. k > n + d /\ ~ (k < n)
        BY <1>2, <2>5
      <3> QED BY <3>1 DEF Gathered
    <2> QED BY <2>2, <2>3, <2>4, <2>5
  <1>8. Carried(P, W, a) = IF k < n THEN Passed(n, q, k - 1) ELSE 0 .. n - 1
    BY <1>3, <1>5, <1>6, <1>7
  <1> QED BY <1>8 DEF P

\* A step of the ring makes of a member's buffer what the labels say.
LEMMA RingStepLabels ==
  ASSUME NEW n \in Nat, n > 1, 2 * (n - 1) <= 256, NEW count \in Nat,
         NEW r \in 0 .. n - 1, NEW k \in 1 .. 2 * (n - 1), NEW off \in 0 .. count - 1
  PROVE  StepLabels(RingPlan(n, count), RingLabels(n, count), r, k, off)
  <1> DEFINE P == RingPlan(n, count)
             W == RingLabels(n, count)
             q == LeftOf(n, r)
             d == Behind(n, BlockOf(n, count, off), r)
             here == Landing(P, r, k, off)
             sent == IF k < n THEN Passed(n, q, k - 1) ELSE 0 .. n - 1
  <1>1. W[r][k][off] = Gathered(n, r, k, d) /\ W[r][k + 1][off] = Gathered(n, r, k + 1, d)
    <2>1. k \in 1 .. 2 * n - 1 /\ k + 1 \in 1 .. 2 * n - 1
      OBVIOUS
    <2> QED BY <2>1 DEF RingLabels
  <1>2. d \in 0 .. n - 1
    <2> DEFINE b == BlockOf(n, count, off)
    <2>1. b \in 0 .. n - 1
      BY BlockIs
    <2> HIDE DEF b
    <2>2. Behind(n, b, r) \in 0 .. n - 1
      BY <2>1, LeftIs
    <2> QED BY <2>2 DEF b
  <1>3. IF d = Due(n, k) THEN \E a \in RingPosts(n, count, q, k) : here = {a} ELSE here = {}
    BY RingLanding
  <1>4. \A a \in RingPosts(n, count, q, k) : Carried(P, W, a) = sent
    <2>1. q \in 0 .. n - 1
      BY LeftIs
    <2> HIDE DEF q
    <2> QED BY <2>1, RingCarried
  <1>5. Reduces(P[r][k]) <=> k < n
    BY RingStep
  <1> SUFFICES StepLabels(P, W, r, k, off)
    OBVIOUS
  <1> HIDE DEF P, W, q, d, here
  <1>6. CASE d # Due(n, k)
    <2>1. Gathered(n, r, k + 1, d) = Gathered(n, r, k, d)
      <3>1. (k + 1 > n + d <=> k > n + d) /\ (d < k + 1 <=> d < k \/ k > n + d)
        BY <1>2, <1>6 DEF Due
      <3> QED BY <1>2, <3>1 DEF Gathered
    <2>2. here = {}
      BY <1>3, <1>6
    <2> QED BY <1>1, <2>1, <2>2 DEF StepLabels, here
  <1>7. CASE d = Due(n, k) /\ k < n
    <2>1. d = k /\ k \in 1 .. n - 1 /\ ~ (k > n + d) /\ ~ (k + 1 > n + d) /\ ~ (d < k)
          /\ 1 <= d /\ d < k + 1
      BY <1>2, <1>7 DEF Due
    <2>2. Gathered(n, r, k, d) = {r} /\ Gathered(n, r, k + 1, d) = Passed(n, r, k)
      BY <2>1 DEF Gathered
    <2>3. Passed(n, r, k) = {r} \cup sent /\ r \notin sent
      BY <1>7, <2>1, PassedOn DEF q
    <2>4. PICK a \in RingPosts(n, count, q, k) : here = {a}
      BY <1>3, <1>7
    <2>5. Carried(P, W, a) = sent
      BY <1>4
    <2> HIDE DEF sent
    <2>6. /\ W[r][k + 1][off] = W[r][k][off] \cup UNION {Carried(P, W, e) : e \in here}
          /\ \A e \in here : Carried(P, W, e) \cap W[r][k][off] = {}
          /\ \A e, f \in here : e # f => Carried(P, W, e) \cap Carried(P, W, f) = {}
      <3>1. UNION {Carried(P, W, e) : e \in here} = sent
        BY <2>4, <2>5
      <3>2. \A e \in here : e = a
        BY <2>4
      <3> QED BY <1>1, <2>2, <2>3, <2>5, <3>1, <3>2
    <2> QED BY <1>5, <1>7, <2>6 DEF StepLabels, here
  <1>8. CASE d = Due(n, k) /\ ~ (k < n)
    <2>1. d = k - n /\ k + 1 > n + d
      BY <1>8 DEF Due
    <2>2. Gathered(n, r, k + 1, d) = 0 .. n - 1
      BY <2>1 DEF Gathered
    <2>3. PICK a \in RingPosts(n, count, q, k) : here = {a}
      BY <1>3, <1>8
    <2>4. Carried(P, W, a) = 0 .. n - 1
      BY <1>4, <1>8
    <2>5. here # {} /\ \A e \in here : W[r][k + 1][off] = Carried(P, W, e)
      BY <1>1, <2>2, <2>3, <2>4
    <2> QED BY <1>5, <1>8, <2>5 DEF StepLabels, here
  <1> QED BY <1>6, <1>7, <1>8

\* The data flow of a ring fits, for every number of members whose step indexes
\* fit into a header, and on any buffer: each step gets the messages it waits
\* for, a header's ids tell them apart, and when the steps are through
\* everybody has everybody's data once (ucg_builtin_ring_create,
\* ucg_builtin_step_create).
THEOREM RingDataFits ==
  ASSUME NEW n \in Nat, n > 1, 2 * (n - 1) <= 256, NEW count \in Nat
  PROVE  /\ CountsFit(RingPlan(n, count)) /\ IdsFit(RingPlan(n, count))
         /\ LabelsFit(RingPlan(n, count), RingLabels(n, count), 0 .. count - 1,
                      0 .. n - 1, 0 .. n - 1)
  <1> DEFINE P == RingPlan(n, count)
             W == RingLabels(n, count)
             R == 0 .. n - 1
  <1>1. /\ DOMAIN P = R
        /\ \A r \in R : DOMAIN P[r] = 1 .. 2 * (n - 1) /\ Len(P[r]) = 2 * (n - 1)
    BY RingLength
  <1>2. ASSUME NEW r \in R, NEW off \in 0 .. count - 1
        PROVE  /\ W[r][1][off] = {r} /\ W[r][2 * (n - 1) + 1][off] = R
               /\ \A k \in 1 .. 2 * (n - 1) : StepLabels(P, W, r, k, off)
    <2> DEFINE b == BlockOf(n, count, off)
               d == Behind(n, b, r)
    <2>1. d \in 0 .. n - 1
      <3>1. b \in 0 .. n - 1
        BY BlockIs
      <3> HIDE DEF b
      <3> QED BY <3>1, LeftIs
    <2>2. W[r][1][off] = Gathered(n, r, 1, d)
      <3>1. 1 \in 1 .. 2 * n - 1
        OBVIOUS
      <3> QED BY <3>1 DEF RingLabels
    <2>3. W[r][2 * (n - 1) + 1][off] = Gathered(n, r, 2 * (n - 1) + 1, d)
      <3>1. 2 * (n - 1) + 1 \in 1 .. 2 * n - 1
        OBVIOUS
      <3> QED BY <3>1 DEF RingLabels
    <2> HIDE DEF d
    <2>4. Gathered(n, r, 1, d) = {r}
      <3>1. ~ (1 > n + d) /\ ~ (1 <= d /\ d < 1)
        BY <2>1
      <3> QED BY <3>1 DEF Gathered
    <2>5. Gathered(n, r, 2 * (n - 1) + 1, d) = R
      <3>1. CASE d = n - 1
        <4>1. /\ ~ (2 * (n - 1) + 1 > n + d) /\ 1 <= d /\ d < 2 * (n - 1) + 1
          BY <3>1
        <4>2. Gathered(n, r, 2 * (n - 1) + 1, d) = Passed(n, r, d)
          BY <4>1 DEF Gathered
        <4> QED BY <3>1, <4>2, PassedOn
      <3>2. CASE d < n - 1
        <4>1. 2 * (n - 1) + 1 > n + d
          BY <2>1, <3>2
        <4> QED BY <4>1 DEF Gathered
      <3> QED BY <2>1, <3>1, <3>2
    <2> HIDE DEF P, W
    <2>6. \A k \in 1 .. 2 * (n - 1) : StepLabels(P, W, r, k, off)
      BY RingStepLabels DEF P, W
    <2> QED BY <2>2, <2>3, <2>4, <2>5, <2>6
  <1>3. ASSUME NEW a \in Posts(P) PROVE Carried(P, W, a) # {}
    <2> DEFINE q == a.from
               k == a.step
    <2>1. q \in 0 .. n - 1 /\ k \in 1 .. 2 * (n - 1) /\ a \in RingPosts(n, count, q, k)
      BY RingPostIs
    <2>2. Carried(P, W, a) = IF k < n THEN Passed(n, q, k - 1) ELSE 0 .. n - 1
      <3> HIDE DEF q, k
      <3> QED BY <2>1, RingCarried
    <2>3. k < n => q \in Passed(n, q, k - 1)
      <3>1. k < n => k - 1 \in 0 .. n - 1
        BY <2>1
      <3> QED BY <2>1, <3>1, PassedOn
    <2>4. 0 \in 0 .. n - 1
      OBVIOUS
    <2> HIDE DEF P, W, q, k
    <2> QED BY <2>2, <2>3, <2>4
  <1> HIDE DEF P, W, R
  <1>4. LabelsFit(P, W, 0 .. count - 1, R, R)
    BY <1>1, <1>2, <1>3 DEF LabelsFit
  <1>5. CountsFit(P) /\ IdsFit(P)
    BY RingCounts DEF P
  <1> QED BY <1>4, <1>5 DEF P, W, R

\* The steps of a ring have turns: all members are about equally far.
LEMMA RingTurns ==
  ASSUME NEW n \in Nat, n > 1, 2 * (n - 1) <= 256, NEW count \in Nat
  PROVE  OnePeer(RingPlan(n, count)) /\ \E T : TurnsFit(RingPlan(n, count), T)
  <1> DEFINE P == RingPlan(n, count)
  <1>1. DOMAIN P = 0 .. n - 1 /\ \A r \in 0 .. n - 1 : DOMAIN P[r] = 1 .. 2 * (n - 1)
    BY RingLength
  <1>2. \A r \in 0 .. n - 1, k \in 1 .. 2 * (n - 1) :
          Len(P[r][k].eps) = 1 /\ ~ IsWaypoint(P[r][k]) /\ P[r][k].step_idx = k - 1
    <2> SUFFICES ASSUME NEW r \in 0 .. n - 1, NEW k \in 1 .. 2 * (n - 1)
                 PROVE  /\ Len(P[r][k].eps) = 1 /\ ~ IsWaypoint(P[r][k])
                        /\ P[r][k].step_idx = k - 1
      OBVIOUS
    <2>1. LET st == P[r][k]
          IN  /\ st.eps = <<(r + 1) % n>> /\ st.step_idx = k - 1
              /\ ~ IsR1S(st) /\ ~ IsRS1(st)
      BY RingStep
    <2> HIDE DEF P
    <2> QED BY <2>1 DEF IsWaypoint
  <1> HIDE DEF P
  <1>3. OnePeer(P)
    BY <1>1, <1>2 DEF OnePeer
  <1>4. \A r \in DOMAIN P : InOrder(P, r)
    BY <1>1, <1>2 DEF InOrder
  <1> QED BY <1>3, <1>4, OrderTurns DEF P

-----------------------------------------------------------------------------
(***************************************************************************)
(* The distances of recursive doubling.  Induction over the numbers is     *)
(* stated with a set in place of a predicate: a set without a least number *)
(* is empty.                                                               *)
(***************************************************************************)
Less == {ss \in Nat \X Nat : ss[1] < ss[2]}

\* The numbers are well-founded.
LEMMA LessIsWellFounded == IsWellFoundedOn(Less, Nat)
  BY NatLessThanWellFounded DEF Less, OpToRel

\* A set of numbers has a least one.
LEMMA LeastOf ==
  ASSUME NEW T \in SUBSET Nat, T # {}
  PROVE  \E x \in T : \A y \in T : x <= y
  <1>1. PICK x \in T : \A y \in T : ~ (<<y, x>> \in Less)
    BY LessIsWellFounded, WFMin
  <1>2. ASSUME NEW y \in T PROVE x <= y
    <2>1. x \in Nat /\ y \in Nat
      OBVIOUS
    <2>2. y < x => <<y, x>> \in Less
      BY <2>1 DEF Less
    <2> QED BY <1>1, <2>1, <2>2
  <1> QED BY <1>2

\* Who holds 0, and with a number the next one, holds all of them.
LEMMA AllNumbers ==
  ASSUME NEW S, 0 \in S, \A n \in Nat : n \in S => n + 1 \in S
  PROVE  Nat \subseteq S
  <1>1. SUFFICES ASSUME Nat \ S # {} PROVE FALSE
    OBVIOUS
  <1> DEFINE T == Nat \ S
  <1>2. T \in SUBSET Nat /\ T # {}
    BY <1>1
  <1> HIDE DEF T
  <1>3. PICK x \in T : \A y \in T : x <= y
    BY <1>2, LeastOf
  <1>4. x \in Nat /\ x # 0 /\ x - 1 \in Nat /\ ~ (x - 1 \in S)
    BY <1>2, <1>3 DEF T
  <1>5. x - 1 \in T
    BY <1>4 DEF T
  <1> QED BY <1>3, <1>4, <1>5

\* Sequences that double up to place n.
DoubleUpTo(n) == {g \in [Nat -> Nat] : g[0] = 1 /\ \A i \in 1 .. n : g[i] = 2 * g[i - 1]}

\* There is one for each n.
LEMMA SomeDouble == \A n \in Nat : DoubleUpTo(n) # {}
  <1> DEFINE S == {n \in Nat : DoubleUpTo(n) # {}}
  <1>1. 0 \in S
    <2>1. [i \in Nat |-> 1] \in DoubleUpTo(0)
      BY DEF DoubleUpTo
    <2> QED BY <2>1
  <1>2. ASSUME NEW n \in Nat, n \in S PROVE n + 1 \in S
    <2>1. PICK g : g \in DoubleUpTo(n)
      BY <1>2
    <2> DEFINE h == [i \in Nat |-> IF i = n + 1 THEN 2 * g[n] ELSE g[i]]
    <2>2. h \in DoubleUpTo(n + 1)
      BY <2>1 DEF DoubleUpTo
    <2> QED BY <2>2
  <1> HIDE DEF S
  <1>3. Nat \subseteq S
    BY <1>1, <1>2, AllNumbers
  <1> QED BY <1>3 DEF S

\* They agree as far as they double.
LEMMA SameDouble ==
  \A n \in Nat : \A m \in Nat : \A g \in DoubleUpTo(n) : \A h \in DoubleUpTo(m) :
    n <= m => g[n] = h[n]
  <1> DEFINE S == {n \in Nat : \A m \in Nat : \A g \in DoubleUpTo(n) :
                                 \A h \in DoubleUpTo(m) : n <= m => g[n] = h[n]}
  <1>1. 0 \in S
    BY DEF DoubleUpTo
  <1>2. ASSUME NEW n \in Nat, n \in S PROVE n + 1 \in S
    <2>1. ASSUME NEW m \in Nat, NEW g \in DoubleUpTo(n + 1), NEW h \in DoubleUpTo(m),
                 n + 1 <= m
          PROVE  g[n + 1] = h[n + 1]
      <3>1. g \in DoubleUpTo(n) /\ n <= m
        BY <2>1 DEF DoubleUpTo
      <3>2. g[n] = h[n]
        BY <1>2, <3>1
      <3>3. g[n + 1] = 2 * g[n] /\ h[n + 1] = 2 * h[n]
        BY <2>1 DEF DoubleUpTo
      <3> QED BY <3>2, <3>3
    <2> QED BY <2>1
  <1> HIDE DEF S
  <1>3. Nat \subseteq S
    BY <1>1, <1>2, AllNumbers
  <1> QED BY <1>3 DEF S

\* A recursive function is what its definition says (step_size in
\* ucg_builtin_recursive_connect).
LEMMA StepSizeIs ==
  /\ StepSize[0] = 1
  /\ \A i \in Nat : StepSize[i] \in Nat \ {0} /\ StepSize[i + 1] = 2 * StepSize[i]
  <1> DEFINE G == [n \in Nat |-> (CHOOSE g : g \in DoubleUpTo(n))[n]]
  <1>1. \A n \in Nat : \E g \in DoubleUpTo(n) : G[n] = g[n]
    BY SomeDouble
  <1> HIDE DEF G
  <1>2. G[0] = 1
    BY <1>1 DEF DoubleUpTo
  <1>3. ASSUME NEW n \in Nat PROVE G[n + 1] = 2 * G[n]
    <2>1. PICK g \in DoubleUpTo(n + 1) : G[n + 1] = g[n + 1]
      BY <1>1
    <2>2. PICK h \in DoubleUpTo(n) : G[n] = h[n]
      BY <1>1
    <2>3. h[n] = g[n]
      BY SameDouble
    <2>4. g[n + 1] = 2 * g[n]
      BY DEF DoubleUpTo
    <2> QED BY <2>1, <2>2, <2>3, <2>4
  <1>4. G = [i \in Nat |-> IF i = 0 THEN 1 ELSE 2 * G[i - 1]]
    <2>1. \A i \in Nat : i # 0 => i - 1 \in Nat /\ (i - 1) + 1 = i
      OBVIOUS
    <2>2. \A i \in Nat : G[i] = IF i = 0 THEN 1 ELSE 2 * G[i - 1]
      BY <1>2, <1>3, <2>1
    <2>3. G = [i \in Nat |-> G[i]]
      BY DEF G
    <2> QED BY <2>2, <2>3, Zenon
  <1>5. StepSize = [i \in Nat |-> IF i = 0 THEN 1 ELSE 2 * StepSize[i - 1]]
    BY <1>4 DEF StepSize
  <1>6. \A i \in Nat : StepSize[i] = IF i = 0 THEN 1 ELSE 2 * StepSize[i - 1]
    BY <1>5, Zenon
  <1>7. StepSize[0] = 1 /\ \A i \in Nat : StepSize[i + 1] = 2 * StepSize[i]
    BY <1>6
  <1> DEFINE S == {n \in Nat : StepSize[n] \in Nat \ {0}}
  <1>8. 0 \in S /\ \A n \in Nat : n \in S => n + 1 \in S
    BY <1>7
  <1> HIDE DEF S
  <1>9. Nat \subseteq S
    BY <1>8, AllNumbers
  <1> QED BY <1>7, <1>9 DEF S

\* It outgrows its place.
LEMMA StepSizeGrows == \A i \in Nat : StepSize[i] > i
  <1> DEFINE S == {i \in Nat : StepSize[i] > i}
  <1>1. 0 \in S /\ \A n \in Nat : n \in S => n + 1 \in S
    BY StepSizeIs
  <1> HIDE DEF S
  <1>2. Nat \subseteq S
    BY <1>1, AllNumbers
  <1> QED BY <1>2 DEF S

\* A later one is a multiple of an earlier one.
LEMMA StepSizeDivides ==
  ASSUME NEW i \in Nat
  PROVE  \A j \in Nat : j >= i => \E t \in Nat : StepSize[j] = StepSize[i] * t
  <1> DEFINE S == {j \in Nat : j >= i => \E t \in Nat : StepSize[j] = StepSize[i] * t}
  <1>0. StepSize[i] \in Nat /\ \A j \in Nat : StepSize[j] \in Nat /\ StepSize[j + 1] = 2 * StepSize[j]
    BY StepSizeIs
  <1>1. i \in S
    BY <1>0
  <1>2. 0 \in S
    <2>1. i = 0 \/ ~ (0 >= i)
      OBVIOUS
    <2> QED BY <1>1, <2>1
  <1>3. ASSUME NEW j \in Nat, j \in S PROVE j + 1 \in S
    <2>1. CASE j + 1 = i
      BY <1>1, <2>1
    <2>2. CASE j + 1 < i
      BY <2>2
    <2>3. CASE j >= i
      <3>1. PICK t \in Nat : StepSize[j] = StepSize[i] * t
        BY <1>3, <2>3
      <3>2. StepSize[j + 1] = StepSize[i] * (2 * t) /\ 2 * t \in Nat
        BY <1>0, <3>1
      <3> QED BY <3>2
    <2> QED BY <2>1, <2>2, <2>3
  <1> HIDE DEF S
  <1>4. Nat \subseteq S
    BY <1>2, <1>3, AllNumbers
  <1> QED BY <1>4 DEF S

\* The number of steps is the least that reaches everybody.
LEMMA StepCountIs ==
  ASSUME NEW n \in Nat, n > 1
  PROVE  /\ StepCount(n) \in 1 .. n /\ StepSize[StepCount(n)] >= n
         /\ StepSize[StepCount(n) - 1] < n
  <1> DEFINE T == {c \in Nat : StepSize[c] >= n}
  <1>1. n \in T /\ T \in SUBSET Nat
    BY StepSizeGrows, StepSizeIs
  <1>2. PICK c \in T : \A y \in T : c <= y
    BY <1>1, LeastOf
  <1>3. c \in 0 .. n /\ StepSize[c] >= n
    BY <1>1, <1>2
  <1>4. \A b \in 0 .. c - 1 : StepSize[b] < n
    <2>1. ASSUME NEW b \in 0 .. c - 1 PROVE StepSize[b] < n
      <3>1. b \in Nat /\ ~ (b \in T) /\ StepSize[b] \in Nat
        BY <1>2, <1>3, StepSizeIs
      <3> QED BY <3>1
    <2> QED BY <2>1
  <1> DEFINE d == StepCount(n)
  <1>5. d \in 0 .. n /\ StepSize[d] >= n /\ \A b \in 0 .. d - 1 : StepSize[b] < n
    BY <1>3, <1>4 DEF StepCount
  <1> HIDE DEF d
  <1>6. d # 0
    BY <1>5, StepSizeIs
  <1> QED BY <1>5, <1>6 DEF d

-----------------------------------------------------------------------------
(***************************************************************************)
(* Plans whose steps have one peer each, as those of recursive doubling:   *)
(* step i of member r meets the step Mate[r][i][2] of the member           *)
(* Mate[r][i][1], and Had[r][i] is whose data a member has when it comes to*)
(* its step i.                                                             *)
(***************************************************************************)
PairMethods == {"REDUCE_RECURSIVE", "REDUCE_TERMINAL", "SEND_TERMINAL", "RECV_TERMINAL"}

Meets(P, f, Mate, Had, r, i) ==
  LET st == P[r][i]
      q  == Mate[r][i][1]
      j  == Mate[r][i][2]
  IN  /\ q \in DOMAIN P /\ j \in DOMAIN P[q] /\ Mate[q][j] = <<r, i>>
      /\ st.eps = <<q>> /\ st.pieces = Whole(f) /\ st.fragments_recv = f
      /\ st.method \in PairMethods
      /\ P[q][j].step_idx = st.step_idx
      /\ IsSendOnly(st) <=> IsRecvOnly(P[q][j])
      /\ Had[r][i] # {}
      /\ IsSendOnly(st) => Had[r][i + 1] = Had[r][i]
      /\ Reduces(st) => /\ Had[r][i + 1] = Had[r][i] \cup Had[q][j]
                        /\ Had[q][j] \cap Had[r][i] = {}
      /\ ~ IsSendOnly(st) /\ ~ Reduces(st) => Had[r][i + 1] = Had[q][j]

InPairs(P, f, Mate, Had) ==
  \A r \in DOMAIN P :
    /\ DOMAIN P[r] = 1 .. Len(P[r]) /\ Len(P[r]) \in Nat
    /\ Had[r][1] = {r} /\ Had[r][Len(P[r]) + 1] = DOMAIN P
    /\ InOrder(P, r)
    /\ \A i \in DOMAIN P[r] : Meets(P, f, Mate, Had, r, i)

PairLabels(P, f, Had) ==
  [r \in DOMAIN P |-> [i \in 1 .. Len(P[r]) + 1 |-> [off \in 0 .. f - 1 |-> Had[r][i]]]]

\* Each step of a plan in pairs meets its mate.
LEMMA TheyMeet ==
  ASSUME NEW P, NEW f, NEW Mate, NEW Had, InPairs(P, f, Mate, Had),
         NEW r \in DOMAIN P, NEW i \in DOMAIN P[r]
  PROVE  Meets(P, f, Mate, Had, r, i)
  BY Zenon DEF InPairs

\* The whole buffer is its fragments in order.
LEMMA WholeIs ==
  ASSUME NEW f \in Nat
  PROVE  /\ Len(Whole(f)) = f /\ DOMAIN Whole(f) = 1 .. f
         /\ \A x \in 0 .. f - 1 : Whole(f)[x + 1] = x
  <1>1. Whole(f) = [i \in 1 .. f |-> i - 1]
    BY DEF Whole, Span
  <1>2. Whole(f) \in Seq(Int)
    BY <1>1
  <1>3. DOMAIN Whole(f) = 1 .. f
    BY <1>1
  <1> QED BY <1>1, <1>2, <1>3

\* A step of such a plan sends each fragment to its peer, or nothing.
LEMMA PairSends ==
  ASSUME NEW P, NEW f \in Nat, f > 0, NEW Mate, NEW Had, InPairs(P, f, Mate, Had),
         NEW r \in DOMAIN P, NEW i \in DOMAIN P[r]
  PROVE  /\ Fragments(P[r][i]) = f /\ ~ IsWaypoint(P[r][i]) /\ ~ IsRing(P[r][i])
         /\ Positions(P[r][i]) = IF IsRecvOnly(P[r][i]) THEN {} ELSE 0 .. f - 1
         /\ WaitsFor(P[r][i]) = IF IsSendOnly(P[r][i]) THEN 0 ELSE f
  <1> DEFINE st == P[r][i]
  <1>1. /\ st.eps = <<Mate[r][i][1]>> /\ st.pieces = Whole(f) /\ st.fragments_recv = f
        /\ st.method \in PairMethods
    <2>1. Meets(P, f, Mate, Had, r, i)
      BY TheyMeet
    <2> QED BY <2>1, Zenon DEF Meets
  <1>2. Fragments(st) = f
    BY <1>1, WholeIs DEF Fragments
  <1>3. Len(st.eps) = 1
    BY <1>1
  <1> HIDE DEF st
  <1>4. ~ IsR1S(st) /\ ~ IsRS1(st) /\ ~ IsRing(st)
    BY <1>1 DEF PairMethods, IsR1S, IsRS1, IsRing
  <1>5. First(st) = 0 /\ End(st) = f
    BY <1>2, <1>3, <1>4 DEF First, End
  <1>6. Positions(st) = IF IsRecvOnly(st) THEN {} ELSE 0 .. f - 1
    BY <1>5 DEF Positions
  <1>7. WaitsFor(st) = IF IsSendOnly(st) THEN 0 ELSE f
    BY <1>1, <1>3, <1>4 DEF WaitsFor, RecvCount
  <1> QED BY <1>2, <1>4, <1>6, <1>7 DEF st, IsWaypoint

\* The messages of such a plan.
LEMMA PairPostIs ==
  ASSUME NEW P, NEW f \in Nat, f > 0, NEW Mate, NEW Had, InPairs(P, f, Mate, Had)
  PROVE  /\ \A a \in Posts(P) :
              /\ a.from \in DOMAIN P /\ a.step \in DOMAIN P[a.from] /\ a.pos \in 0 .. f - 1
              /\ a = [from |-> a.from, step |-> a.step, pos |-> a.pos]
              /\ ~ IsRecvOnly(P[a.from][a.step])
              /\ Dest(P, a) = Mate[a.from][a.step][1] /\ Place(P, a) = a.pos
              /\ Index(P, a) = P[a.from][a.step].step_idx
         /\ \A r \in DOMAIN P : \A i \in DOMAIN P[r] : \A x \in 0 .. f - 1 :
              ~ IsRecvOnly(P[r][i]) => [from |-> r, step |-> i, pos |-> x] \in Posts(P)
  <1>1. ASSUME NEW a \in Posts(P)
        PROVE  /\ a.from \in DOMAIN P /\ a.step \in DOMAIN P[a.from] /\ a.pos \in 0 .. f - 1
               /\ a = [from |-> a.from, step |-> a.step, pos |-> a.pos]
               /\ ~ IsRecvOnly(P[a.from][a.step])
    <2>1. PICK q \in DOMAIN P : \E i \in DOMAIN P[q] : a \in PostsOf(P, q, i)
      BY DEF Posts
    <2>2. PICK i \in DOMAIN P[q] : a \in PostsOf(P, q, i)
      BY <2>1
    <2>3. PICK x \in Positions(P[q][i]) : a = [from |-> q, step |-> i, pos |-> x]
      BY <2>2 DEF PostsOf
    <2>4. Positions(P[q][i]) = IF IsRecvOnly(P[q][i]) THEN {} ELSE 0 .. f - 1
      BY PairSends
    <2> QED BY <2>3, <2>4
  <1>2. ASSUME NEW a \in Posts(P)
        PROVE  /\ Dest(P, a) = Mate[a.from][a.step][1] /\ Place(P, a) = a.pos
               /\ Index(P, a) = P[a.from][a.step].step_idx
    <2> DEFINE st == P[a.from][a.step]
    <2>1. a.from \in DOMAIN P /\ a.step \in DOMAIN P[a.from] /\ a.pos \in 0 .. f - 1
      BY <1>1
    <2>2. st.eps = <<Mate[a.from][a.step][1]>> /\ st.pieces = Whole(f)
      <3>1. Meets(P, f, Mate, Had, a.from, a.step)
        BY <2>1, TheyMeet
      <3> QED BY <3>1, Zenon DEF Meets
    <2>3. Fragments(st) = f
      BY <2>1, PairSends
    <2>4. a.pos \div f = 0 /\ a.pos % f = a.pos
      <3> DEFINE x == a.pos
      <3>1. x \in 0 .. f - 1
        BY <2>1
      <3> HIDE DEF x
      <3>2. x \div f = 0 /\ x % f = x
        BY <3>1, SmallRest
      <3> QED BY <3>2 DEF x
    <2>5. Whole(f)[a.pos + 1] = a.pos
      BY <2>1, WholeIs
    <2>6. Dest(P, a) = st.eps[(a.pos \div f) + 1] /\ Place(P, a) = st.pieces[(a.pos % f) + 1]
      BY <2>3 DEF Dest, Place, StepOf
    <2>7. Index(P, a) = st.step_idx
      BY DEF Index, StepOf
    <2>8. st.eps[0 + 1] = Mate[a.from][a.step][1]
      BY <2>2
    <2> HIDE DEF st
    <2>9. Dest(P, a) = Mate[a.from][a.step][1] /\ Place(P, a) = a.pos
      BY <2>2, <2>4, <2>5, <2>6, <2>8
    <2> QED BY <2>7, <2>9 DEF st
  <1>3. ASSUME NEW r \in DOMAIN P, NEW i \in DOMAIN P[r], NEW x \in 0 .. f - 1,
               ~ IsRecvOnly(P[r][i])
        PROVE  [from |-> r, step |-> i, pos |-> x] \in Posts(P)
    <2>1. x \in Positions(P[r][i])
      BY <1>3, PairSends
    <2>2. [from |-> r, step |-> i, pos |-> x] \in PostsOf(P, r, i)
      BY <2>1 DEF PostsOf
    <2> QED BY <2>2 DEF Posts
  <1> QED BY <1>1, <1>2, <1>3

\* What comes in for a step is what its mate sends.
LEMMA PairArrivals ==
  ASSUME NEW P, NEW f \in Nat, f > 0, NEW Mate, NEW Had, InPairs(P, f, Mate, Had),
         NEW r \in DOMAIN P, NEW i \in DOMAIN P[r]
  PROVE  Arrivals(P, r, i) =
           IF IsSendOnly(P[r][i]) THEN {}
           ELSE {[from |-> Mate[r][i][1], step |-> Mate[r][i][2], pos |-> x] : x \in 0 .. f - 1}
  <1> DEFINE q == Mate[r][i][1]
             j == Mate[r][i][2]
             A == {[from |-> q, step |-> j, pos |-> x] : x \in 0 .. f - 1}
  <1>1. /\ q \in DOMAIN P /\ j \in DOMAIN P[q] /\ Mate[q][j] = <<r, i>>
        /\ P[q][j].step_idx = P[r][i].step_idx
        /\ IsSendOnly(P[r][i]) <=> IsRecvOnly(P[q][j])
    <2>1. Meets(P, f, Mate, Had, r, i)
      BY TheyMeet
    <2> QED BY <2>1 DEF Meets
  <1>2. ASSUME NEW a \in Arrivals(P, r, i)
        PROVE  ~ IsSendOnly(P[r][i]) /\ a \in A
    <2>1. a \in Posts(P) /\ Dest(P, a) = r /\ Index(P, a) = P[r][i].step_idx
      BY DEF Arrivals
    <2>2. /\ a.from \in DOMAIN P /\ a.step \in DOMAIN P[a.from] /\ a.pos \in 0 .. f - 1
          /\ a = [from |-> a.from, step |-> a.step, pos |-> a.pos]
          /\ ~ IsRecvOnly(P[a.from][a.step])
          /\ Mate[a.from][a.step][1] = r
          /\ P[a.from][a.step].step_idx = P[r][i].step_idx
      BY <2>1, PairPostIs
    <2> DEFINE k == Mate[a.from][a.step][2]
    <2>3. /\ k \in DOMAIN P[r] /\ Mate[r][k] = <<a.from, a.step>>
          /\ P[r][k].step_idx = P[a.from][a.step].step_idx
      <3>1. Meets(P, f, Mate, Had, a.from, a.step)
        BY <2>2, TheyMeet
      <3>2. LET b == Mate[a.from][a.step][1]
            IN  /\ k \in DOMAIN P[b] /\ Mate[b][k] = <<a.from, a.step>>
                /\ P[b][k].step_idx = P[a.from][a.step].step_idx
        BY <3>1, Zenon DEF Meets
      <3> HIDE DEF k
      <3> QED BY <2>2, <3>2
    <2>4. k = i
      <3> HIDE DEF k
      <3>1. InOrder(P, r)
        BY DEF InPairs
      <3> QED BY <2>2, <2>3, <3>1, OneIndex
    <2>5. q = a.from /\ j = a.step
      BY <2>3, <2>4
    <2> QED BY <1>1, <2>2, <2>5
  <1>3. ASSUME NEW a \in A, ~ IsSendOnly(P[r][i])
        PROVE  a \in Arrivals(P, r, i)
    <2>1. PICK x \in 0 .. f - 1 : a = [from |-> q, step |-> j, pos |-> x]
      BY ONLY <1>3
    <2>2. a \in Posts(P)
      <3> HIDE DEF q, j, A
      <3> QED BY <1>1, <1>3, <2>1, PairPostIs
    <2>3. a.from = q /\ a.step = j
      BY <2>1
    <2>4. Dest(P, a) = Mate[a.from][a.step][1] /\ Index(P, a) = P[a.from][a.step].step_idx
      <3> HIDE DEF q, j, A
      <3> QED BY <2>2, PairPostIs
    <2>5. Mate[q][j][1] = r
      BY <1>1
    <2> HIDE DEF q, j
    <2> QED BY <1>1, <2>2, <2>3, <2>4, <2>5 DEF Arrivals
  <1> HIDE DEF A
  <1>4. ASSUME IsSendOnly(P[r][i]) PROVE Arrivals(P, r, i) = {}
    BY <1>2, <1>4
  <1>5. ASSUME ~ IsSendOnly(P[r][i]) PROVE Arrivals(P, r, i) = A
    BY <1>2, <1>3, <1>5
  <1>6. Arrivals(P, r, i) = IF IsSendOnly(P[r][i]) THEN {} ELSE A
    BY ONLY <1>4, <1>5
  <1> HIDE DEF q, j
  <1> QED BY ONLY <1>6 DEF A, q, j

\* So many come in as the step waits for.
LEMMA PairCounts ==
  ASSUME NEW P, NEW f \in Nat, f > 0, NEW Mate, NEW Had, InPairs(P, f, Mate, Had)
  PROVE  CountsFit(P)
  <1>1. ASSUME NEW r \in DOMAIN P, NEW i \in DOMAIN P[r]
        PROVE  /\ IsFiniteSet(Arrivals(P, r, i))
               /\ Cardinality(Arrivals(P, r, i)) = WaitsFor(P[r][i])
               /\ P[r][i].fragments_recv = Fragments(P[r][i])
    <2> DEFINE q == Mate[r][i][1]
               j == Mate[r][i][2]
               A == {[from |-> q, step |-> j, pos |-> x] : x \in 0 .. f - 1}
    <2>1. IsFiniteSet(A) /\ Cardinality(A) = f
      <3> DEFINE S == 0 .. f - 1
                 F == [x \in S |-> [from |-> q, step |-> j, pos |-> x]]
      <3>1. IsFiniteSet(S) /\ Cardinality(S) = f
        <4>1. 0 \in Int /\ f - 1 \in Int
          OBVIOUS
        <4>2. /\ IsFiniteSet(0 .. f - 1)
              /\ Cardinality(0 .. f - 1) = IF 0 > f - 1 THEN 0 ELSE (f - 1) - 0 + 1
          BY <4>1, FS_Interval
        <4> QED BY <4>2
      <3> HIDE DEF S, q, j
      <3>2. F \in [S -> A] /\ \A a \in A : \E x \in S : F[x] = a
        BY DEF S
      <3>3. \A x, y \in S : F[x] = F[y] => x = y
        <4>1. \A x \in S : F[x].pos = x
          OBVIOUS
        <4> HIDE DEF F
        <4> QED BY <4>1
      <3> HIDE DEF F, A
      <3>4. F \in Bijection(S, A)
        BY <3>2, <3>3 DEF Bijection, Injection, Surjection, IsInjective
      <3>5. ExistsBijection(S, A)
        BY <3>4 DEF ExistsBijection
      <3> QED BY <3>1, <3>5, FS_Bijection
    <2>2. Arrivals(P, r, i) = IF IsSendOnly(P[r][i]) THEN {} ELSE A
      BY PairArrivals
    <2>3. /\ Fragments(P[r][i]) = f
          /\ WaitsFor(P[r][i]) = IF IsSendOnly(P[r][i]) THEN 0 ELSE f
      BY PairSends
    <2>4. P[r][i].fragments_recv = f
      <3>1. Meets(P, f, Mate, Had, r, i)
        BY TheyMeet
      <3> QED BY <3>1, Zenon DEF Meets
    <2>5. IsFiniteSet({}) /\ Cardinality({}) = 0
      BY FS_EmptySet
    <2> HIDE DEF A
    <2> QED BY <2>1, <2>2, <2>3, <2>4, <2>5
  <1> QED BY <1>1 DEF CountsFit

\* The ids of a message tell it from the others.
LEMMA PairIds ==
  ASSUME NEW P, NEW f \in Nat, f > 0, NEW Mate, NEW Had, InPairs(P, f, Mate, Had)
  PROVE  IdsFit(P)
  <1>1. \A r \in DOMAIN P : \A i, j \in DOMAIN P[r] : P[r][i].step_idx = P[r][j].step_idx => i = j
    BY OneIndex DEF InPairs
  <1>2. ASSUME NEW a \in Posts(P), NEW b \in Posts(P), a.from = b.from,
               Index(P, a) = Index(P, b), Place(P, a) = Place(P, b)
        PROVE  a = b
    <2>1. /\ a.from \in DOMAIN P /\ a.step \in DOMAIN P[a.from] /\ b.step \in DOMAIN P[b.from]
          /\ a = [from |-> a.from, step |-> a.step, pos |-> a.pos]
          /\ b = [from |-> b.from, step |-> b.step, pos |-> b.pos]
          /\ Place(P, a) = a.pos /\ Place(P, b) = b.pos
          /\ Index(P, a) = P[a.from][a.step].step_idx
          /\ Index(P, b) = P[b.from][b.step].step_idx
      BY PairPostIs
    <2>2. a.pos = b.pos
      BY <1>2, <2>1
    <2>3. a.step = b.step
      BY <1>1, <1>2, <2>1
    <2> QED BY <1>2, <2>1, <2>2, <2>3
  <1>3. ASSUME NEW a \in Posts(P)
        PROVE  /\ Dest(P, a) \in DOMAIN P
               /\ \E i \in DOMAIN P[Dest(P, a)] : a \in Arrivals(P, Dest(P, a), i)
    <2> DEFINE q == Mate[a.from][a.step][1]
               j == Mate[a.from][a.step][2]
    <2>1. /\ a.from \in DOMAIN P /\ a.step \in DOMAIN P[a.from]
          /\ Dest(P, a) = q /\ Index(P, a) = P[a.from][a.step].step_idx
      BY PairPostIs
    <2>2. Meets(P, f, Mate, Had, a.from, a.step)
      BY <2>1, TheyMeet
    <2>3. /\ q \in DOMAIN P /\ j \in DOMAIN P[q]
          /\ P[q][j].step_idx = P[a.from][a.step].step_idx
      BY <2>2, Zenon DEF Meets
    <2> HIDE DEF q, j
    <2>4. a \in Arrivals(P, q, j)
      BY <2>1, <2>3 DEF Arrivals
    <2> QED BY <2>1, <2>3, <2>4
  <1> QED BY ONLY <1>1, <1>2, <1>3 DEF IdsFit

\* What comes in brings the sender's data.
LEMMA PairCarried ==
  ASSUME NEW P, NEW f \in Nat, f > 0, NEW Mate, NEW Had, InPairs(P, f, Mate, Had),
         NEW a \in Posts(P)
  PROVE  Carried(P, PairLabels(P, f, Had), a) = Had[a.from][a.step]
  <1>1. /\ a.from \in DOMAIN P /\ a.step \in DOMAIN P[a.from] /\ a.pos \in 0 .. f - 1
        /\ Place(P, a) = a.pos
    BY PairPostIs
  <1>2. ~ IsWaypoint(StepOf(P, a))
    BY <1>1, PairSends DEF StepOf
  <1>3. a.step \in 1 .. Len(P[a.from]) + 1
    BY <1>1 DEF InPairs
  <1>4. PairLabels(P, f, Had)[a.from][a.step][a.pos] = Had[a.from][a.step]
    BY <1>1, <1>3 DEF PairLabels
  <1> QED BY <1>1, <1>2, <1>4 DEF Carried

\* Plans in pairs have a data flow that fits.
LEMMA PairsFit ==
  ASSUME NEW P, NEW f \in Nat, f > 0, NEW Mate, NEW Had, InPairs(P, f, Mate, Had)
  PROVE  /\ CountsFit(P) /\ IdsFit(P)
         /\ LabelsFit(P, PairLabels(P, f, Had), 0 .. f - 1, DOMAIN P, DOMAIN P)
  <1> DEFINE W == PairLabels(P, f, Had)
             R == DOMAIN P
  <1>1. ASSUME NEW r \in R, NEW off \in 0 .. f - 1
        PROVE  /\ W[r][1][off] = {r} /\ W[r][Len(P[r]) + 1][off] = R
               /\ \A i \in DOMAIN P[r] : StepLabels(P, W, r, i, off)
    <2>1. \A i \in 1 .. Len(P[r]) + 1 : W[r][i][off] = Had[r][i]
      BY DEF PairLabels
    <2>2. /\ DOMAIN P[r] = 1 .. Len(P[r]) /\ Len(P[r]) \in Nat
          /\ Had[r][1] = {r} /\ Had[r][Len(P[r]) + 1] = R
      BY DEF InPairs
    <2>3. 1 \in 1 .. Len(P[r]) + 1 /\ Len(P[r]) + 1 \in 1 .. Len(P[r]) + 1
      BY <2>2
    <2>4. ASSUME NEW i \in DOMAIN P[r]
          PROVE  StepLabels(P, W, r, i, off)
      <3> DEFINE q == Mate[r][i][1]
                 j == Mate[r][i][2]
                 m == [from |-> q, step |-> j, pos |-> off]
      <3>1. W[r][i][off] = Had[r][i] /\ W[r][i + 1][off] = Had[r][i + 1]
        <4>1. i \in 1 .. Len(P[r]) + 1 /\ i + 1 \in 1 .. Len(P[r]) + 1
          BY <2>2
        <4> QED BY <2>1, <4>1
      <3>2. Meets(P, f, Mate, Had, r, i)
        BY TheyMeet
      <3>3. /\ q \in R /\ j \in DOMAIN P[q]
            /\ IsSendOnly(P[r][i]) <=> IsRecvOnly(P[q][j])
            /\ IsSendOnly(P[r][i]) => Had[r][i + 1] = Had[r][i]
            /\ Reduces(P[r][i]) => /\ Had[r][i + 1] = Had[r][i] \cup Had[q][j]
                                   /\ Had[q][j] \cap Had[r][i] = {}
            /\ ~ IsSendOnly(P[r][i]) /\ ~ Reduces(P[r][i]) => Had[r][i + 1] = Had[q][j]
        BY <3>2, Zenon DEF Meets
      <3>4. IsSendOnly(P[r][i]) => ~ Reduces(P[r][i])
        BY DEF IsSendOnly, Reduces
      <3>5. CASE IsSendOnly(P[r][i])
        <4>1. Landing(P, r, i, off) = {}
          BY <3>5, PairArrivals DEF Landing
        <4> HIDE DEF W, q, j
        <4> QED BY <3>1, <3>3, <3>4, <3>5, <4>1 DEF StepLabels
      <3>6. CASE ~ IsSendOnly(P[r][i])
        <4>1. m \in Posts(P)
          BY <3>3, <3>6, PairPostIs
        <4>2. Place(P, m) = off /\ m.from = q /\ m.step = j
          BY <4>1, PairPostIs
        <4>3. Carried(P, W, m) = Had[q][j]
          BY <4>1, <4>2, PairCarried
        <4>4. Landing(P, r, i, off) = {m}
          <5>1. Arrivals(P, r, i) = {[from |-> q, step |-> j, pos |-> x] : x \in 0 .. f - 1}
            BY <3>6, PairArrivals
          <5>2. \A a \in Arrivals(P, r, i) : Place(P, a) = off => a = m
            <6>1. ASSUME NEW a \in Arrivals(P, r, i), Place(P, a) = off PROVE a = m
              <7>1. PICK x \in 0 .. f - 1 : a = [from |-> q, step |-> j, pos |-> x]
                BY <5>1
              <7>2. Place(P, a) = a.pos /\ a.pos = x
                <8>1. a \in Posts(P)
                  BY DEF Arrivals
                <8>2. Place(P, a) = a.pos
                  BY <8>1, PairPostIs
                <8> QED BY <7>1, <8>2
              <7> QED BY <6>1, <7>1, <7>2
            <6> QED BY <6>1
          <5>3. m \in Arrivals(P, r, i)
            BY <5>1
          <5> HIDE DEF m
          <5> QED BY <4>2, <5>2, <5>3 DEF Landing
        <4> HIDE DEF W, q, j, m
        <4> QED BY <3>1, <3>3, <3>6, <4>3, <4>4 DEF StepLabels
      <3> QED BY <3>5, <3>6
    <2> QED BY <2>1, <2>2, <2>3, <2>4
  <1>2. ASSUME NEW a \in Posts(P) PROVE Carried(P, W, a) # {}
    <2>1. Carried(P, W, a) = Had[a.from][a.step]
      BY PairCarried
    <2>2. Meets(P, f, Mate, Had, a.from, a.step)
      <3> HIDE DEF W
      <3>1. a.from \in DOMAIN P /\ a.step \in DOMAIN P[a.from]
        BY PairPostIs
      <3> QED BY <3>1, TheyMeet
    <2>3. Had[a.from][a.step] # {}
      BY <2>2, Zenon DEF Meets
    <2> QED BY <2>1, <2>3
  <1> HIDE DEF W
  <1>3. LabelsFit(P, W, 0 .. f - 1, R, R)
    BY <1>1, <1>2 DEF LabelsFit
  <1> QED BY <1>3, PairCounts, PairIds DEF W

-----------------------------------------------------------------------------
(***************************************************************************)
(* The peers of recursive doubling.                                        *)
(***************************************************************************)
\* A block of 2*S numbers is two of S numbers.
LEMMA TwoHalves ==
  ASSUME NEW S \in Nat \ {0}, NEW x \in Nat
  PROVE  /\ 2 * S \in Nat \ {0} /\ x \div (2 * S) \in Nat /\ x % (2 * S) \in 0 .. 2 * S - 1
         /\ x = (2 * S) * (x \div (2 * S)) + (x % (2 * S))
         /\ x % (2 * S) < S => x \div S = 2 * (x \div (2 * S))
         /\ ~ (x % (2 * S) < S) => x \div S = 2 * (x \div (2 * S)) + 1
  <1> DEFINE D == 2 * S
             q == x \div D
             r == x % D
  <1>1. D \in Nat \ {0}
    OBVIOUS
  <1>2. q \in Int /\ r \in 0 .. D - 1 /\ x = D * q + r
    <2> HIDE DEF D
    <2> QED BY <1>1, DivMod
  <1>3. q \in Nat
    <2> HIDE DEF q, r, D
    <2>1. CASE q < 0
      <3>1. D * q + D <= D * 0
        BY <1>1, <1>2, <2>1, MultiplesApart
      <3> QED BY <1>1, <1>2, <3>1
    <2> QED BY <1>2, <2>1
  <1>4. r < S => x \div S = 2 * q
    <2> HIDE DEF q, r
    <2>1. SUFFICES ASSUME r < S PROVE x \div S = 2 * q
      OBVIOUS
    <2> DEFINE p == 2 * q
    <2>2. x = S * p + r /\ p \in Int /\ r \in 0 .. S - 1
      BY <1>2, <2>1
    <2> HIDE DEF p
    <2>3. x \div S = p
      BY <2>2, ModUnique
    <2> QED BY <2>3 DEF p
  <1>5. ~ (r < S) => x \div S = 2 * q + 1
    <2> HIDE DEF q, r
    <2>1. SUFFICES ASSUME ~ (r < S) PROVE x \div S = 2 * q + 1
      OBVIOUS
    <2> DEFINE t == r - S
               p == 2 * q + 1
    <2>2. x = S * p + t /\ p \in Int /\ t \in 0 .. S - 1
      BY <1>2, <2>1
    <2> HIDE DEF t, p
    <2>3. x \div S = p
      BY <2>2, ModUnique
    <2> QED BY <2>3 DEF p
  <1> QED BY <1>1, <1>2, <1>3, <1>4, <1>5

\* The peer is S up in the lower half of a block, and S down in the upper one.
LEMMA PeerIs ==
  ASSUME NEW x \in Nat, NEW i \in Nat
  PROVE  LET S == StepSize[i]
         IN  PeerIndex(x, i) = IF x % (2 * S) < S THEN x + S ELSE x - S
  <1> DEFINE S == StepSize[i]
             D == 2 * S
             r == x % D
  <1>1. S \in Nat \ {0}
    BY StepSizeIs
  <1>2. D \in Nat \ {0} /\ r \in 0 .. D - 1
    <2> HIDE DEF S
    <2> QED BY <1>1, TwoHalves
  <1>3. PeerIndex(x, i) = (x - r) + ((x - (x - r) + S) % D)
    BY DEF PeerIndex
  <1> DEFINE y == x - (x - r) + S
  <1>4. y = r + S
    <2> HIDE DEF r, S
    <2> QED BY <1>1, <1>2
  <1>5. CASE r < S
    <2>1. y % D = r + S
      <3> HIDE DEF r, S, y
      <3> DEFINE t == r + S
      <3>1. D \in Nat \ {0} /\ 0 \in Int /\ t \in 0 .. D - 1 /\ y \in Int /\ y = D * 0 + t
        BY <1>1, <1>2, <1>4, <1>5
      <3> HIDE DEF t, D
      <3>2. y % D = t
        BY ONLY <3>1, ModUnique
      <3> QED BY <3>2 DEF t
    <2> HIDE DEF r, S, y, D
    <2> QED BY <1>1, <1>2, <1>3, <1>5, <2>1 DEF y, S, r, D
  <1>6. CASE ~ (r < S)
    <2>1. y % D = r - S
      <3> HIDE DEF r, S, y
      <3> DEFINE t == r - S
      <3>1. D \in Nat \ {0} /\ 1 \in Int /\ t \in 0 .. D - 1 /\ y \in Int /\ y = D * 1 + t
        BY <1>1, <1>2, <1>4, <1>6
      <3> HIDE DEF t, D
      <3>2. y % D = t
        BY ONLY <3>1, ModUnique
      <3> QED BY <3>2 DEF t
    <2> QED BY <1>1, <1>2, <1>3, <1>6, <2>1
  <1> QED BY <1>5, <1>6

\* A member and its peer are the two halves of a block, and each other's peers.
LEMMA PeersMeet ==
  ASSUME NEW x \in Nat, NEW i \in Nat
  PROVE  LET S == StepSize[i]
             p == PeerIndex(x, i)
         IN  /\ p \in Nat /\ PeerIndex(p, i) = x
             /\ p \div S # x \div S
             /\ \A m \in Nat : m \div (2 * S) = x \div (2 * S)
                                 <=> m \div S = x \div S \/ m \div S = p \div S
             /\ \A t \in Nat : x < (2 * S) * t => p < (2 * S) * t
  <1> DEFINE S == StepSize[i]
             D == 2 * S
             p == PeerIndex(x, i)
             q == x \div D
             r == x % D
  <1>1. S \in Nat \ {0}
    BY StepSizeIs
  <1>2. /\ D \in Nat \ {0} /\ q \in Nat /\ r \in 0 .. D - 1 /\ x = D * q + r
        /\ r < S => x \div S = 2 * q
        /\ ~ (r < S) => x \div S = 2 * q + 1
    <2> HIDE DEF S
    <2> QED BY <1>1, TwoHalves
  <1>3. p = IF r < S THEN x + S ELSE x - S
    BY PeerIs
  <1> DEFINE u == IF r < S THEN r + S ELSE r - S
  <1>4. u \in 0 .. D - 1 /\ p = D * q + u /\ p \in Nat /\ (u < S <=> ~ (r < S))
    <2>1. D * q \in Nat
      <3> HIDE DEF D, q
      <3> QED BY <1>2
    <2> DEFINE z == D * q
    <2>2. z \in Nat /\ x = z + r
      BY <1>2, <2>1
    <2>3. D = 2 * S
      OBVIOUS
    <2> HIDE DEF z, D, S, p, q, r
    <2>4. u \in 0 .. D - 1 /\ p = z + u /\ p \in Nat /\ (u < S <=> ~ (r < S))
      BY <1>1, <1>2, <1>3, <2>2, <2>3
    <2> QED BY <2>4 DEF z
  <1>5. p \div D = q /\ p % D = u
    <2> HIDE DEF D, p, q, u, r
    <2>1. q \in Int /\ p \in Int
      BY <1>2, <1>4
    <2>2. D \in Nat \ {0} /\ q \in Int /\ u \in 0 .. D - 1 /\ p \in Int /\ p = D * q + u
      BY ONLY <1>2, <1>4, <2>1
    <2> QED BY ONLY <2>2, ModUnique
  <1>6. /\ u < S => p \div S = 2 * q
        /\ ~ (u < S) => p \div S = 2 * q + 1
    <2>1. /\ p % D < S => p \div S = 2 * (p \div D)
          /\ ~ (p % D < S) => p \div S = 2 * (p \div D) + 1
      <3> HIDE DEF S, p
      <3> QED BY <1>1, <1>4, TwoHalves
    <2> HIDE DEF D, p, q, u, r, S
    <2> QED BY <1>5, <2>1
  <1>7. PeerIndex(p, i) = x
    <2>1. PeerIndex(p, i) = IF p % D < S THEN p + S ELSE p - S
      <3> HIDE DEF p
      <3> QED BY <1>4, PeerIs
    <2> HIDE DEF D, p, q, u, r, S
    <2> QED BY <1>1, <1>2, <1>3, <1>4, <1>5, <2>1
  <1>8. p \div S # x \div S
    <2> HIDE DEF D, p, q, u, r, S
    <2> QED BY <1>2, <1>4, <1>6
  <1>9. ASSUME NEW m \in Nat
        PROVE  m \div D = q <=> m \div S = x \div S \/ m \div S = p \div S
    <2> DEFINE e == m \div D
               g == m \div S
    <2>1. e \in Nat /\ (g = 2 * e \/ g = 2 * e + 1)
      <3>1. /\ m \div D \in Nat
            /\ m % D < S => m \div S = 2 * (m \div D)
            /\ ~ (m % D < S) => m \div S = 2 * (m \div D) + 1
        <4> HIDE DEF S
        <4> QED BY <1>1, TwoHalves
      <3> QED BY <3>1
    <2>2. \/ x \div S = 2 * q /\ p \div S = 2 * q + 1
          \/ x \div S = 2 * q + 1 /\ p \div S = 2 * q
      <3> HIDE DEF D, p, q, u, r, S
      <3> QED BY <1>2, <1>4, <1>6
    <2> HIDE DEF D, p, q, u, r, S, e, g
    <2>3. e = q <=> g = x \div S \/ g = p \div S
      BY <1>2, <2>1, <2>2
    <2> QED BY <2>3 DEF e, g
  <1>10. ASSUME NEW t \in Nat, x < D * t
         PROVE  p < D * t
    <2> HIDE DEF D, p, q, u, r, S
    <2>1. q \in Int /\ t \in Int
      BY <1>2
    <2>2. q < t
      <3>1. SUFFICES ASSUME ~ (q < t) PROVE FALSE
        OBVIOUS
      <3>2. CASE t = q
        BY <1>2, <1>10, <3>2
      <3>3. CASE t < q
        <4>1. D * t + D <= D * q
          BY <1>2, <2>1, <3>3, MultiplesApart
        <4> QED BY <1>2, <1>10, <4>1
      <3> QED BY <2>1, <3>1, <3>2, <3>3
    <2>3. D * q + D <= D * t
      BY <1>2, <2>1, <2>2, MultiplesApart
    <2> QED BY <1>2, <1>4, <2>3
  <1> QED BY <1>4, <1>7, <1>8, <1>9, <1>10

\* The peers stay inside of the group.
LEMMA PeerInside ==
  ASSUME NEW c \in Nat, NEW i \in 1 .. c, NEW x \in 0 .. StepSize[c] - 1
  PROVE  PeerIndex(x, i - 1) \in 0 .. StepSize[c] - 1
  <1>1. i - 1 \in Nat /\ i \in Nat /\ i = (i - 1) + 1 /\ c >= i /\ x \in Nat
    BY StepSizeIs
  <1>2. StepSize[i] = 2 * StepSize[i - 1] /\ StepSize[c] \in Nat /\ StepSize[i - 1] \in Nat
    BY <1>1, StepSizeIs
  <1>3. PICK t \in Nat : StepSize[c] = StepSize[i] * t
    BY <1>1, StepSizeDivides
  <1>4. x < (2 * StepSize[i - 1]) * t
    BY <1>2, <1>3
  <1>5. PeerIndex(x, i - 1) \in Nat /\ PeerIndex(x, i - 1) < (2 * StepSize[i - 1]) * t
    BY <1>1, <1>4, PeersMeet
  <1> HIDE DEF PeerIndex
  <1> QED BY <1>2, <1>3, <1>5

\* The members whose index is in the same block of S numbers as x: after some
\* steps a member has the data of those in its block.
WithIndex(ix, S, x) == {m \in DOMAIN ix : ix[m] \div S = x \div S}

\* A step joins the data of two halves.
LEMMA HalvesJoin ==
  ASSUME NEW ix, \A m \in DOMAIN ix : ix[m] \in Nat, NEW x \in Nat, NEW i \in Nat
  PROVE  LET S == StepSize[i]
             p == PeerIndex(x, i)
         IN  /\ WithIndex(ix, StepSize[i + 1], x) = WithIndex(ix, S, x) \cup WithIndex(ix, S, p)
             /\ WithIndex(ix, S, p) \cap WithIndex(ix, S, x) = {}
  <1> DEFINE S == StepSize[i]
             p == PeerIndex(x, i)
  <1>1. /\ p \div S # x \div S
        /\ \A m \in Nat : m \div (2 * S) = x \div (2 * S)
                            <=> m \div S = x \div S \/ m \div S = p \div S
    BY PeersMeet
  <1>2. StepSize[i + 1] = 2 * S
    BY StepSizeIs
  <1> HIDE DEF S, p
  <1>3. \A m \in DOMAIN ix : ix[m] \div (2 * S) = x \div (2 * S)
                               <=> ix[m] \div S = x \div S \/ ix[m] \div S = p \div S
    BY <1>1
  <1>4. WithIndex(ix, 2 * S, x) = WithIndex(ix, S, x) \cup WithIndex(ix, S, p)
    <2>1. \A m : m \in WithIndex(ix, 2 * S, x) <=> m \in WithIndex(ix, S, x) \/ m \in WithIndex(ix, S, p)
      BY <1>3 DEF WithIndex
    <2> QED BY <2>1
  <1>5. WithIndex(ix, S, p) \cap WithIndex(ix, S, x) = {}
    BY <1>1 DEF WithIndex
  <1> QED BY <1>2, <1>4, <1>5 DEF S, p

\* At first a block is one number, at last all of them.
LEMMA FirstAndLastBlock ==
  ASSUME NEW ix, NEW M \in Nat \ {0}, \A m \in DOMAIN ix : ix[m] \in 0 .. M - 1,
         NEW x \in 0 .. M - 1
  PROVE  /\ WithIndex(ix, StepSize[0], x) = {m \in DOMAIN ix : ix[m] = x}
         /\ WithIndex(ix, M, x) = DOMAIN ix
  <1>1. \A y \in Nat : y \div 1 = y
    OBVIOUS
  <1>2. \A y \in 0 .. M - 1 : y \div M = 0
    <2>1. ASSUME NEW y \in 0 .. M - 1 PROVE y \div M = 0
      BY ModUnique
    <2> QED BY <2>1
  <1>3. StepSize[0] = 1
    BY StepSizeIs
  <1>4. \A m \in DOMAIN ix : ix[m] \in Nat
    OBVIOUS
  <1>5. \A m \in DOMAIN ix : (ix[m] \div 1 = x \div 1 <=> ix[m] = x) /\ ix[m] \div M = x \div M
    BY <1>1, <1>2, <1>4
  <1> QED BY <1>3, <1>5 DEF WithIndex

-----------------------------------------------------------------------------
(***************************************************************************)
(* Recursive doubling of a power of two.                                   *)
(***************************************************************************)
RecursivePlan(n, f) == [r \in 0 .. n - 1 |-> Recursive(n, r, Whole(f))]

PowMate(n) ==
  [r \in 0 .. n - 1 |-> [i \in 1 .. StepCount(n) |-> <<PeerIndex(r, i - 1), i>>]]

Itself(n) == [m \in 0 .. n - 1 |-> m]

PowHad(n) ==
  [r \in 0 .. n - 1 |->
     [i \in 1 .. StepCount(n) + 1 |-> WithIndex(Itself(n), StepSize[i - 1], r)]]

\* A step of an exchange.
LEMMA DoublingIs ==
  ASSUME NEW x, NEW peer, NEW i, NEW f \in Nat, NEW idx \in 0 .. 255
  PROVE  LET st == Doubling(x, peer, i, idx, Whole(f))
         IN  /\ st.method = "REDUCE_RECURSIVE" /\ st.eps = <<peer>> /\ st.pieces = Whole(f)
             /\ st.fragments_recv = f /\ st.step_idx = idx
             /\ Reduces(st) /\ ~ IsSendOnly(st) /\ ~ IsRecvOnly(st)
  <1> DEFINE st == Doubling(x, peer, i, idx, Whole(f))
  <1>1. Len(Whole(f)) = f
    BY WholeIs
  <1>2. idx % 256 = idx
    OBVIOUS
  <1>3. /\ st.method = "REDUCE_RECURSIVE" /\ st.eps = <<peer>> /\ st.pieces = Whole(f)
        /\ st.fragments_recv = Len(Whole(f)) /\ st.step_idx = idx % 256
    BY DEF Doubling, Step
  <1> HIDE DEF st
  <1>4. /\ st.method = "REDUCE_RECURSIVE" /\ st.eps = <<peer>> /\ st.pieces = Whole(f)
        /\ st.fragments_recv = f /\ st.step_idx = idx
        /\ Reduces(st) /\ ~ IsSendOnly(st) /\ ~ IsRecvOnly(st)
    BY <1>1, <1>2, <1>3 DEF Reduces, IsSendOnly, IsRecvOnly
  <1> QED BY <1>4 DEF st

\* A power of two is exchanged in pairs.
LEMMA PowInPairs ==
  ASSUME NEW n \in Nat, n > 1, StepCount(n) <= 128, IsPowerOfTwo(n), NEW f \in Nat, f > 0
  PROVE  InPairs(RecursivePlan(n, f), f, PowMate(n), PowHad(n))
  <1> DEFINE P == RecursivePlan(n, f)
             Mate == PowMate(n)
             Had == PowHad(n)
             c == StepCount(n)
             ix == Itself(n)
             R == 0 .. n - 1
  <1>1. c \in 1 .. n /\ c <= 128 /\ n = StepSize[c]
    BY StepCountIs DEF IsPowerOfTwo
  <1>2. /\ DOMAIN P = R /\ DOMAIN Mate = R /\ DOMAIN Had = R
        /\ \A r \in R : /\ DOMAIN P[r] = 1 .. c /\ Len(P[r]) = c
                        /\ \A i \in 1 .. c :
                             P[r][i] = Doubling(r, PeerIndex(r, i - 1), i, 2 * (i - 1), Whole(f))
    <2>1. \A r \in R :
            P[r] = [i \in 1 .. c |-> Doubling(r, PeerIndex(r, i - 1), i, 2 * (i - 1), Whole(f))]
      BY DEF RecursivePlan, Recursive, RecursivePowTwo
    <2>2. DOMAIN P = R /\ DOMAIN Mate = R /\ DOMAIN Had = R
      BY DEF RecursivePlan, PowMate, PowHad
    <2> HIDE DEF P, Mate, Had, c
    <2>3. ASSUME NEW r \in R
          PROVE  /\ DOMAIN P[r] = 1 .. c /\ Len(P[r]) = c
                 /\ \A i \in 1 .. c :
                      P[r][i] = Doubling(r, PeerIndex(r, i - 1), i, 2 * (i - 1), Whole(f))
      <3>1. c \in Nat
        BY <1>1
      <3>2. P[r] = [i \in 1 .. c |-> Doubling(r, PeerIndex(r, i - 1), i, 2 * (i - 1), Whole(f))]
        BY <2>1
      <3> QED BY <3>1, <3>2
    <2> QED BY <2>2, <2>3
  <1>3. \A r \in R : \A i \in 1 .. c : Mate[r][i] = <<PeerIndex(r, i - 1), i>>
    BY DEF PowMate
  <1>4. \A r \in R : \A i \in 1 .. c + 1 : Had[r][i] = WithIndex(ix, StepSize[i - 1], r)
    BY DEF PowHad
  <1>5. DOMAIN ix = R /\ \A m \in R : ix[m] = m
    BY DEF Itself
  <1> HIDE DEF P, Mate, Had, c, ix
  <1>6. ASSUME NEW r \in R, NEW i \in 1 .. c
        PROVE  /\ P[r][i].step_idx = 2 * (i - 1)
               /\ Meets(P, f, Mate, Had, r, i)
    <2> DEFINE p == PeerIndex(r, i - 1)
    <2>1. 2 * (i - 1) \in 0 .. 255 /\ i - 1 \in Nat /\ r \in Nat /\ c \in Nat
          /\ i \in 1 .. c + 1 /\ i + 1 \in 1 .. c + 1
      BY <1>1
    <2>2. p \in R
      BY <1>1, <2>1, PeerInside
    <2>3. PeerIndex(p, i - 1) = r
      BY <2>1, PeersMeet
    <2>4. \A q \in R : LET st == P[q][i] IN
            /\ st.method = "REDUCE_RECURSIVE" /\ st.eps = <<PeerIndex(q, i - 1)>>
            /\ st.pieces = Whole(f) /\ st.fragments_recv = f /\ st.step_idx = 2 * (i - 1)
            /\ Reduces(st) /\ ~ IsSendOnly(st) /\ ~ IsRecvOnly(st)
      <3>1. ASSUME NEW q \in R
            PROVE  LET st == P[q][i] IN
                     /\ st.method = "REDUCE_RECURSIVE" /\ st.eps = <<PeerIndex(q, i - 1)>>
                     /\ st.pieces = Whole(f) /\ st.fragments_recv = f /\ st.step_idx = 2 * (i - 1)
                     /\ Reduces(st) /\ ~ IsSendOnly(st) /\ ~ IsRecvOnly(st)
        <4> DEFINE idx == 2 * (i - 1)
                   peer == PeerIndex(q, i - 1)
        <4>1. idx \in 0 .. 255 /\ P[q][i] = Doubling(q, peer, i, idx, Whole(f))
          BY <1>2, <2>1
        <4> HIDE DEF idx, peer
        <4>2. LET st == Doubling(q, peer, i, idx, Whole(f)) IN
                /\ st.method = "REDUCE_RECURSIVE" /\ st.eps = <<peer>> /\ st.pieces = Whole(f)
                /\ st.fragments_recv = f /\ st.step_idx = idx
                /\ Reduces(st) /\ ~ IsSendOnly(st) /\ ~ IsRecvOnly(st)
          BY <4>1, DoublingIs
        <4> QED BY <4>1, <4>2 DEF idx, peer
      <3> QED BY <3>1
    <2>5. /\ Had[r][i] = WithIndex(ix, StepSize[i - 1], r)
          /\ Had[r][i + 1] = WithIndex(ix, StepSize[i], r)
          /\ Had[p][i] = WithIndex(ix, StepSize[i - 1], p)
      <3>1. (i + 1) - 1 = i
        BY <2>1
      <3> HIDE DEF p
      <3> QED BY <1>4, <2>1, <2>2, <3>1
    <2>6. /\ WithIndex(ix, StepSize[i], r)
               = WithIndex(ix, StepSize[i - 1], r) \cup WithIndex(ix, StepSize[i - 1], p)
          /\ WithIndex(ix, StepSize[i - 1], p) \cap WithIndex(ix, StepSize[i - 1], r) = {}
      <3>1. \A m \in DOMAIN ix : ix[m] \in Nat
        BY <1>5
      <3> DEFINE k == i - 1
      <3>2. k \in Nat /\ k + 1 = i
        BY <2>1
      <3> HIDE DEF k, p
      <3>3. LET S == StepSize[k]
                y == PeerIndex(r, k)
            IN  /\ WithIndex(ix, StepSize[k + 1], r) = WithIndex(ix, S, r) \cup WithIndex(ix, S, y)
                /\ WithIndex(ix, S, y) \cap WithIndex(ix, S, r) = {}
        BY <2>1, <3>1, <3>2, HalvesJoin
      <3> QED BY <3>2, <3>3 DEF k, p
    <2>7. Had[r][i] # {}
      <3>1. r \in WithIndex(ix, StepSize[i - 1], r)
        BY <1>5 DEF WithIndex
      <3> QED BY <2>5, <3>1
    <2>8. Mate[r][i] = <<p, i>> /\ Mate[p][i] = <<r, i>>
      <3>1. Mate[p][i] = <<PeerIndex(p, i - 1), i>>
        <4> HIDE DEF p
        <4> QED BY <1>3, <2>2
      <3> QED BY <1>3, <2>3, <3>1
    <2>9. Mate[r][i][1] = p /\ Mate[r][i][2] = i
      BY <2>8
    <2>10. P[r][i].eps = <<p>> /\ P[r][i].step_idx = 2 * (i - 1)
      BY <2>4
    <2>11. P[r][i].method \in PairMethods
      BY <2>4 DEF PairMethods
    <2> HIDE DEF p
    <2>12. p \in DOMAIN P /\ i \in DOMAIN P[p]
      BY <1>2, <2>2
    <2> QED BY <2>2, <2>4, <2>5, <2>6, <2>7, <2>8, <2>9, <2>10, <2>11, <2>12 DEF Meets
  <1>7. ASSUME NEW r \in R
        PROVE  /\ Had[r][1] = {r} /\ Had[r][c + 1] = R
               /\ \A i \in 1 .. c : i \in Nat /\ P[r][i].step_idx \in Nat
               /\ \A i, j \in 1 .. c : i < j => P[r][i].step_idx < P[r][j].step_idx
    <2>1. n \in Nat \ {0} /\ \A m \in DOMAIN ix : ix[m] \in 0 .. n - 1
      BY <1>5
    <2>2. /\ WithIndex(ix, StepSize[0], r) = {m \in R : ix[m] = r}
          /\ WithIndex(ix, n, r) = R
      BY <1>5, <2>1, FirstAndLastBlock
    <2>3. 1 \in 1 .. c + 1 /\ 1 - 1 = 0 /\ c + 1 \in 1 .. c + 1 /\ (c + 1) - 1 = c
      BY <1>1
    <2>4. Had[r][1] = WithIndex(ix, StepSize[0], r) /\ Had[r][c + 1] = WithIndex(ix, StepSize[c], r)
      BY <1>4, <2>3
    <2>5. {m \in R : ix[m] = r} = {r}
      BY <1>5
    <2>6. /\ \A i \in 1 .. c : i \in Nat /\ 2 * (i - 1) \in Nat
          /\ \A i, j \in 1 .. c : i < j => 2 * (i - 1) < 2 * (j - 1)
      BY <1>1
    <2>7. \A i \in 1 .. c : P[r][i].step_idx = 2 * (i - 1)
      BY <1>6
    <2>8. /\ \A i \in 1 .. c : i \in Nat /\ P[r][i].step_idx \in Nat
          /\ \A i, j \in 1 .. c : i < j => P[r][i].step_idx < P[r][j].step_idx
      BY ONLY <2>6, <2>7
    <2>9. Had[r][1] = {r} /\ Had[r][c + 1] = R
      BY <1>1, <2>2, <2>4, <2>5
    <2> QED BY ONLY <2>8, <2>9
  <1>8. c \in Nat
    BY <1>1
  <1> HIDE DEF R
  <1> QED BY <1>2, <1>6, <1>7, <1>8 DEF InPairs, InOrder, P, Mate, Had

-----------------------------------------------------------------------------
(***************************************************************************)
(* Recursive doubling of other numbers: of the first 2*extra members the   *)
(* even ones are served by the odd ones.                                   *)
(***************************************************************************)
Near(n) == StepCount(n) - 1
Extra(n) == n - StepSize[Near(n)]
IsPaired(n, m) == m < 2 * Extra(n)
IsServed(n, m) == IsPaired(n, m) /\ m % 2 # 1

\* A member's index in the exchange, and the member that exchanges for an index.
NewIndex(n, m) == IF IsPaired(n, m) THEN m \div 2 ELSE m - Extra(n)
Acts(n, x) == IF x < Extra(n) THEN 2 * x + 1 ELSE x + Extra(n)
NewIndices(n) == [m \in 0 .. n - 1 |-> NewIndex(n, m)]

\* Where the i-th exchange is among a member's steps.
MainStep(n, x, i) == IF x < Extra(n) THEN i + 1 ELSE i

\* The number is between two powers.
LEMMA NearIs ==
  ASSUME NEW n \in Nat, n > 1, ~ IsPowerOfTwo(n)
  PROVE  /\ Near(n) \in Nat /\ Near(n) + 1 = StepCount(n)
         /\ StepSize[Near(n)] \in Nat \ {0}
         /\ Extra(n) \in 1 .. StepSize[Near(n)] - 1
         /\ n = StepSize[Near(n)] + Extra(n)
  <1> DEFINE c == StepCount(n)
             k == c - 1
             M == StepSize[k]
  <1>1. c \in 1 .. n /\ StepSize[c] >= n /\ M < n /\ n # StepSize[c]
    BY StepCountIs DEF IsPowerOfTwo
  <1>2. k \in Nat /\ k + 1 = c
    BY <1>1
  <1>3. M \in Nat \ {0} /\ StepSize[c] = 2 * M
    <2> HIDE DEF k, c
    <2> QED BY <1>2, StepSizeIs
  <1> HIDE DEF c, M
  <1>4. n - M \in 1 .. M - 1 /\ n = M + (n - M)
    BY <1>1, <1>3
  <1> QED BY <1>2, <1>3, <1>4 DEF Near, Extra, c, M

\* Members, indexes and who acts for whom.
LEMMA IndexesMatch ==
  ASSUME NEW n \in Nat, n > 1, ~ IsPowerOfTwo(n)
  PROVE  LET M == StepSize[Near(n)]
             E == Extra(n)
         IN  /\ \A m \in 0 .. n - 1 :
                  /\ NewIndex(n, m) \in 0 .. M - 1
                  /\ IsPaired(n, m) <=> NewIndex(n, m) < E
                  /\ ~ IsServed(n, m) => Acts(n, NewIndex(n, m)) = m
                  /\ IsServed(n, m) => /\ m + 1 \in 0 .. n - 1 /\ IsPaired(n, m + 1)
                                       /\ ~ IsServed(n, m + 1)
                                       /\ Acts(n, NewIndex(n, m)) = m + 1
                  /\ IsPaired(n, m) /\ ~ IsServed(n, m) =>
                       m - 1 \in 0 .. n - 1 /\ IsServed(n, m - 1) /\ NewIndex(n, m - 1) = NewIndex(n, m)
             /\ \A x \in 0 .. M - 1 :
                  /\ Acts(n, x) \in 0 .. n - 1 /\ NewIndex(n, Acts(n, x)) = x
                  /\ ~ IsServed(n, Acts(n, x))
  <1> DEFINE M == StepSize[Near(n)]
             E == Extra(n)
  <1>1. M \in Nat \ {0} /\ E \in 1 .. M - 1 /\ n = M + E
    BY NearIs
  <1> HIDE DEF M
  <1>2. ASSUME NEW m \in 0 .. n - 1
        PROVE  /\ NewIndex(n, m) \in 0 .. M - 1
               /\ IsPaired(n, m) <=> NewIndex(n, m) < E
               /\ ~ IsServed(n, m) => Acts(n, NewIndex(n, m)) = m
               /\ IsServed(n, m) => /\ m + 1 \in 0 .. n - 1 /\ IsPaired(n, m + 1)
                                    /\ ~ IsServed(n, m + 1)
                                    /\ Acts(n, NewIndex(n, m)) = m + 1
               /\ IsPaired(n, m) /\ ~ IsServed(n, m) =>
                    m - 1 \in 0 .. n - 1 /\ IsServed(n, m - 1) /\ NewIndex(n, m - 1) = NewIndex(n, m)
    BY <1>1 DEF NewIndex, IsPaired, IsServed, Acts, E
  <1>3. ASSUME NEW x \in 0 .. M - 1
        PROVE  /\ Acts(n, x) \in 0 .. n - 1 /\ NewIndex(n, Acts(n, x)) = x
               /\ ~ IsServed(n, Acts(n, x))
    BY <1>1 DEF NewIndex, IsPaired, IsServed, Acts, E
  <1> QED BY <1>2, <1>3 DEF M

\* A step before, and one behind.
LEMMA Framed ==
  ASSUME NEW k \in Nat, NEW s, NEW S, s \in [1 .. k -> S], NEW a \in S, NEW b \in S
  PROVE  LET t == <<a>> \o s \o <<b>>
         IN  /\ DOMAIN t = 1 .. k + 2 /\ Len(t) = k + 2
             /\ t[1] = a /\ t[k + 2] = b /\ \A i \in 1 .. k : t[i + 1] = s[i]
  <1>1. s \in Seq(S) /\ Len(s) = k
    OBVIOUS
  <1> QED BY <1>1

\* The number of a member's steps.
StepsOf(n, r) ==
  IF ~ IsPaired(n, r) THEN Near(n) ELSE IF IsServed(n, r) THEN 2 ELSE Near(n) + 2

PairMate(n) ==
  [r \in 0 .. n - 1 |->
     [p \in 1 .. StepsOf(n, r) |->
        IF IsServed(n, r) THEN <<r + 1, IF p = 1 THEN 1 ELSE Near(n) + 2>>
        ELSE IF IsPaired(n, r) /\ p = 1 THEN <<r - 1, 1>>
        ELSE IF p = Near(n) + 2 THEN <<r - 1, 2>>
        ELSE LET i == IF IsPaired(n, r) THEN p - 1 ELSE p
                 y == PeerIndex(NewIndex(n, r), i - 1)
             IN  <<Acts(n, y), MainStep(n, y, i)>>]]

PairHad(n) ==
  [r \in 0 .. n - 1 |->
     [p \in 1 .. StepsOf(n, r) + 1 |->
        IF p = StepsOf(n, r) + 1 THEN 0 .. n - 1
        ELSE IF IsServed(n, r) \/ p = 1 THEN {r}
        ELSE LET i == IF IsPaired(n, r) THEN p - 1 ELSE p
             IN  WithIndex(NewIndices(n), StepSize[i - 1], NewIndex(n, r))]]

\* The first and the last step of a member in a pair.
Give(n, r, f) ==
  IF IsServed(n, r) THEN Step("SEND_TERMINAL", <<r + 1>>, 0, Whole(f))
                    ELSE Step("REDUCE_TERMINAL", <<r - 1>>, 0, Whole(f))
Return(n, r, f) ==
  IF IsServed(n, r) THEN Step("RECV_TERMINAL", <<r + 1>>, 1 + Near(n), Whole(f))
                    ELSE Step("SEND_TERMINAL", <<r - 1>>, 1 + Near(n), Whole(f))
Exchange(n, r, i, f) ==
  Doubling(NewIndex(n, r), Acts(n, PeerIndex(NewIndex(n, r), i - 1)), i, i, Whole(f))

\* The steps of the members (ucg_builtin_recursive_connect).
LEMMA PairPlanIs ==
  ASSUME NEW n \in Nat, n > 1, ~ IsPowerOfTwo(n), NEW f \in Nat, f > 0,
         NEW r \in 0 .. n - 1
  PROVE  LET s == RecursivePlan(n, f)[r]
         IN  /\ DOMAIN s = 1 .. StepsOf(n, r) /\ Len(s) = StepsOf(n, r)
             /\ ~ IsPaired(n, r) => \A i \in 1 .. Near(n) : s[i] = Exchange(n, r, i, f)
             /\ IsServed(n, r) => s[1] = Give(n, r, f) /\ s[2] = Return(n, r, f)
             /\ IsPaired(n, r) /\ ~ IsServed(n, r) =>
                  /\ s[1] = Give(n, r, f) /\ s[Near(n) + 2] = Return(n, r, f)
                  /\ \A i \in 1 .. Near(n) : s[i + 1] = Exchange(n, r, i, f)
  <1> DEFINE k    == Near(n)
             main == [i \in 1 .. k |-> Exchange(n, r, i, f)]
             s    == RecursivePlan(n, f)[r]
             a    == Give(n, r, f)
             b    == Return(n, r, f)
  <1>1. k \in Nat
    BY NearIs
  <1>2. s = IF ~ IsPaired(n, r) THEN main
            ELSE IF ~ IsServed(n, r) THEN <<a>> \o main \o <<b>> ELSE <<a, b>>
    <2>1. s = RecursiveNonPowTwo(n, r, Whole(f))
      BY DEF RecursivePlan, Recursive
    <2> QED BY <2>1 DEF RecursiveNonPowTwo, Near, Extra, IsPaired, IsServed, NewIndex, Acts,
                        Give, Return, Exchange
  <1>3. main \in [1 .. k -> {a, b} \cup {Exchange(n, r, i, f) : i \in 1 .. k}]
    <2> HIDE DEF k, a, b
    <2> QED OBVIOUS
  <1>4. \A i \in 1 .. k : main[i] = Exchange(n, r, i, f)
    OBVIOUS
  <1>5. StepsOf(n, r) = IF ~ IsPaired(n, r) THEN k ELSE IF IsServed(n, r) THEN 2 ELSE k + 2
    BY DEF StepsOf
  <1>6. DOMAIN main = 1 .. k /\ Len(main) = k
    <2> HIDE DEF k
    <2> QED BY <1>1
  <1> HIDE DEF k, main, s, a, b
  <1>7. CASE ~ IsPaired(n, r)
    BY <1>2, <1>4, <1>5, <1>6, <1>7 DEF k, s, IsServed
  <1>8. CASE IsServed(n, r)
    <2>1. s = <<a, b>> /\ StepsOf(n, r) = 2 /\ IsPaired(n, r)
      BY <1>2, <1>5, <1>8 DEF IsServed
    <2>2. DOMAIN s = 1 .. 2 /\ Len(s) = 2 /\ s[1] = a /\ s[2] = b
      BY <2>1
    <2> QED BY <1>8, <2>1, <2>2 DEF s, a, b
  <1>9. CASE IsPaired(n, r) /\ ~ IsServed(n, r)
    <2> DEFINE S == {a, b} \cup {Exchange(n, r, i, f) : i \in 1 .. k}
    <2>1. main \in [1 .. k -> S] /\ a \in S /\ b \in S
      BY <1>3
    <2> HIDE DEF S
    <2>2. s = <<a>> \o main \o <<b>> /\ StepsOf(n, r) = k + 2
      BY <1>2, <1>5, <1>9
    <2>3. /\ DOMAIN s = 1 .. k + 2 /\ Len(s) = k + 2
          /\ s[1] = a /\ s[k + 2] = b /\ \A i \in 1 .. k : s[i + 1] = main[i]
      BY <1>1, <2>1, <2>2, Framed
    <2> QED BY <1>4, <1>9, <2>2, <2>3 DEF k, s, a, b
  <1> QED BY <1>7, <1>8, <1>9 DEF IsServed

\* What the steps of a pair are.
LEMMA GiveReturnAre ==
  ASSUME NEW n \in Nat, NEW r \in 0 .. n - 1, NEW f \in Nat, f > 0,
         Near(n) \in 0 .. 254
  PROVE  LET g == Give(n, r, f)
             b == Return(n, r, f)
             q == IF IsServed(n, r) THEN r + 1 ELSE r - 1
         IN  /\ g.eps = <<q>> /\ g.pieces = Whole(f) /\ g.fragments_recv = f
             /\ g.step_idx = 0 /\ g.method \in PairMethods
             /\ b.eps = <<q>> /\ b.pieces = Whole(f) /\ b.fragments_recv = f
             /\ b.step_idx = Near(n) + 1 /\ b.method \in PairMethods
             /\ (IsSendOnly(g) <=> IsServed(n, r)) /\ (IsRecvOnly(g) <=> ~ IsServed(n, r))
             /\ (Reduces(g) <=> ~ IsServed(n, r)) /\ ~ Reduces(b)
             /\ (IsSendOnly(b) <=> ~ IsServed(n, r)) /\ (IsRecvOnly(b) <=> IsServed(n, r))
  <1> DEFINE g == Give(n, r, f)
             b == Return(n, r, f)
             k == Near(n)
             q == IF IsServed(n, r) THEN r + 1 ELSE r - 1
  <1>1. Len(Whole(f)) = f
    BY WholeIs
  <1>2. 0 % 256 = 0 /\ (1 + k) % 256 = k + 1
    <2>1. k \in 0 .. 254
      OBVIOUS
    <2> HIDE DEF k
    <2> QED BY <2>1
  <1>3. /\ g.eps = <<q>> /\ g.pieces = Whole(f) /\ g.fragments_recv = Len(Whole(f))
        /\ g.step_idx = 0 % 256
        /\ g.method = IF IsServed(n, r) THEN "SEND_TERMINAL" ELSE "REDUCE_TERMINAL"
    BY DEF Give, Step
  <1>4. /\ b.eps = <<q>> /\ b.pieces = Whole(f) /\ b.fragments_recv = Len(Whole(f))
        /\ b.step_idx = (1 + k) % 256
        /\ b.method = IF IsServed(n, r) THEN "RECV_TERMINAL" ELSE "SEND_TERMINAL"
    BY DEF Return, Step
  <1> HIDE DEF g, b, k, q
  <1>5. /\ g.method \in PairMethods /\ b.method \in PairMethods
        /\ (IsSendOnly(g) <=> IsServed(n, r)) /\ (IsRecvOnly(g) <=> ~ IsServed(n, r))
        /\ (Reduces(g) <=> ~ IsServed(n, r)) /\ ~ Reduces(b)
        /\ (IsSendOnly(b) <=> ~ IsServed(n, r)) /\ (IsRecvOnly(b) <=> IsServed(n, r))
    BY <1>3, <1>4 DEF PairMethods, IsSendOnly, IsRecvOnly, Reduces
  <1>6. /\ g.eps = <<q>> /\ g.pieces = Whole(f) /\ g.fragments_recv = f /\ g.step_idx = 0
        /\ b.eps = <<q>> /\ b.pieces = Whole(f) /\ b.fragments_recv = f /\ b.step_idx = k + 1
    BY <1>1, <1>2, <1>3, <1>4
  <1> QED BY <1>5, <1>6 DEF g, b, k, q

\* Whose data a member has.
LEMMA PairHadIs ==
  ASSUME NEW n \in Nat, n > 1, ~ IsPowerOfTwo(n), NEW r \in 0 .. n - 1
  PROVE  LET had == PairHad(n)[r]
             x   == NewIndex(n, r)
             ix  == NewIndices(n)
             k   == Near(n)
         IN  /\ StepsOf(n, r) \in Nat
             /\ had[1] = {r} /\ had[StepsOf(n, r) + 1] = 0 .. n - 1
             /\ IsServed(n, r) => had[2] = {r}
             /\ ~ IsServed(n, r) =>
                  \A i \in 1 .. k + 1 : had[MainStep(n, x, i)] = WithIndex(ix, StepSize[i - 1], x)
             /\ IsPaired(n, r) /\ ~ IsServed(n, r) =>
                  /\ WithIndex(ix, StepSize[0], x) = {r, r - 1}
                  /\ had[k + 2] = 0 .. n - 1
  <1> DEFINE had == PairHad(n)[r]
             x   == NewIndex(n, r)
             ix  == NewIndices(n)
             k   == Near(n)
             M   == StepSize[k]
             l   == StepsOf(n, r)
             R   == 0 .. n - 1
  <1>1. k \in Nat /\ M \in Nat \ {0} /\ Extra(n) \in 1 .. M - 1
    BY NearIs
  <1>2. l = IF ~ IsPaired(n, r) THEN k ELSE IF IsServed(n, r) THEN 2 ELSE k + 2
    BY DEF StepsOf
  <1>3. l \in Nat /\ l >= 0
    <2> HIDE DEF l, k
    <2> QED BY <1>1, <1>2
  <1>4. k # 0
    <2>1. Extra(n) \in 1 .. StepSize[k] - 1
      BY <1>1
    <2> HIDE DEF k
    <2> QED BY <2>1, StepSizeIs
  <1>5. \A p \in 1 .. l + 1 :
          had[p] = IF p = l + 1 THEN R
                   ELSE IF IsServed(n, r) \/ p = 1 THEN {r}
                   ELSE WithIndex(ix, StepSize[(IF IsPaired(n, r) THEN p - 1 ELSE p) - 1], x)
    BY DEF PairHad
  <1>6. /\ DOMAIN ix = R /\ \A m \in R : ix[m] = NewIndex(n, m)
        /\ \A m \in DOMAIN ix : ix[m] \in 0 .. M - 1
        /\ x \in 0 .. M - 1
    <2>1. \A m \in R : NewIndex(n, m) \in 0 .. M - 1
      BY IndexesMatch
    <2> QED BY <2>1 DEF NewIndices
  <1>7. WithIndex(ix, StepSize[0], x) = {m \in R : NewIndex(n, m) = x} /\ WithIndex(ix, M, x) = R
    <2> HIDE DEF ix, x, M
    <2>1. /\ WithIndex(ix, StepSize[0], x) = {m \in DOMAIN ix : ix[m] = x}
          /\ WithIndex(ix, M, x) = DOMAIN ix
      BY <1>1, <1>6, FirstAndLastBlock
    <2> QED BY <1>6, <2>1
  <1>8. ~ IsPaired(n, r) => {m \in R : NewIndex(n, m) = x} = {r}
    <2>1. SUFFICES ASSUME ~ IsPaired(n, r) PROVE \A m \in R : NewIndex(n, m) = x <=> m = r
      OBVIOUS
    <2>2. ASSUME NEW m \in R, NewIndex(n, m) = x PROVE m = r
      <3>1. ~ IsPaired(n, m)
        BY <2>1, <2>2, IndexesMatch
      <3>2. Acts(n, NewIndex(n, m)) = m /\ Acts(n, NewIndex(n, r)) = r
        BY <2>1, <3>1, IndexesMatch DEF IsServed
      <3> QED BY <2>2, <3>2
    <2> QED BY <2>2
  <1>9. IsPaired(n, r) /\ ~ IsServed(n, r) => {m \in R : NewIndex(n, m) = x} = {r, r - 1}
    <2>1. SUFFICES ASSUME IsPaired(n, r), ~ IsServed(n, r)
                   PROVE  \A m \in R : NewIndex(n, m) = x <=> m = r \/ m = r - 1
      <3>1. IsPaired(n, r) /\ ~ IsServed(n, r) => r - 1 \in R
        BY IndexesMatch
      <3> QED BY <3>1
    <2>2. r - 1 \in R /\ NewIndex(n, r - 1) = x /\ Acts(n, x) = r
      BY <2>1, IndexesMatch
    <2>3. ASSUME NEW m \in R, NewIndex(n, m) = x PROVE m = r \/ m = r - 1
      <3>1. CASE IsServed(n, m)
        <4>1. Acts(n, NewIndex(n, m)) = m + 1
          BY <3>1, IndexesMatch
        <4>2. m + 1 = r
          BY <2>2, <2>3, <4>1
        <4> QED BY <4>2
      <3>2. CASE ~ IsServed(n, m)
        <4>1. Acts(n, NewIndex(n, m)) = m
          BY <3>2, IndexesMatch
        <4> QED BY <2>2, <2>3, <4>1
      <3> QED BY <3>1, <3>2
    <2> QED BY <2>2, <2>3
  <1>10. had[1] = {r} /\ had[l + 1] = R
    <2>1. 1 \in 1 .. l + 1 /\ l + 1 \in 1 .. l + 1 /\ 1 # l + 1
      <3> HIDE DEF l, k
      <3> QED BY <1>1, <1>2, <1>3, <1>4
    <2> HIDE DEF l, had
    <2> QED BY <1>5, <2>1
  <1>11. IsServed(n, r) => had[2] = {r}
    <2> HIDE DEF l, had
    <2> QED BY <1>2, <1>5 DEF IsServed
  <1>12. IsPaired(n, r) <=> x < Extra(n)
    BY IndexesMatch
  <1>13. ASSUME ~ IsServed(n, r), NEW i \in 1 .. k + 1
         PROVE  had[MainStep(n, x, i)] = WithIndex(ix, StepSize[i - 1], x)
    <2> DEFINE p == MainStep(n, x, i)
    <2> SUFFICES had[p] = WithIndex(ix, StepSize[i - 1], x)
      OBVIOUS
    <2>1. p = IF IsPaired(n, r) THEN i + 1 ELSE i
      BY <1>12 DEF MainStep
    <2>2. l = IF IsPaired(n, r) THEN k + 2 ELSE k
      BY <1>2, <1>13
    <2> HIDE DEF p, l, k, had, M, x, ix
    <2>3. p \in 1 .. l + 1 /\ i \in Int /\ k \in Int
      BY <1>1, <2>1, <2>2
    <2>4. CASE IsPaired(n, r)
      <3>1. p # l + 1 /\ p # 1 /\ p - 1 = i
        BY <2>1, <2>2, <2>3, <2>4
      <3> QED BY <1>5, <1>13, <2>3, <2>4, <3>1
    <2>5. CASE ~ IsPaired(n, r) /\ i = 1
      <3>1. p = 1 /\ i - 1 = 0
        BY <2>1, <2>5
      <3> QED BY <1>7, <1>8, <1>10, <2>5, <3>1
    <2>6. CASE ~ IsPaired(n, r) /\ i = k + 1
      <3>1. p = l + 1 /\ i - 1 = k
        BY <2>1, <2>2, <2>3, <2>6
      <3> QED BY <1>7, <1>10, <3>1 DEF M
    <2>7. CASE ~ IsPaired(n, r) /\ i # 1 /\ i # k + 1
      <3>1. p # l + 1 /\ p # 1 /\ p = i
        BY <2>1, <2>2, <2>7
      <3> QED BY <1>5, <1>13, <2>3, <2>7, <3>1
    <2> QED BY <2>4, <2>5, <2>6, <2>7
  <1>14. IsPaired(n, r) /\ ~ IsServed(n, r) => had[k + 2] = R
    <2>1. SUFFICES ASSUME IsPaired(n, r), ~ IsServed(n, r) PROVE had[k + 2] = R
      OBVIOUS
    <2>2. k + 1 \in 1 .. k + 1 /\ (k + 1) - 1 = k
      <3> HIDE DEF k
      <3> QED BY <1>1
    <2>3. MainStep(n, x, k + 1) = k + 2
      <3>1. MainStep(n, x, k + 1) = (k + 1) + 1
        BY <1>12, <2>1 DEF MainStep
      <3> HIDE DEF k
      <3> QED BY <1>1, <3>1
    <2>4. had[MainStep(n, x, k + 1)] = WithIndex(ix, StepSize[k], x)
      <3> HIDE DEF k, had, x, ix
      <3> QED BY <1>13, <2>1, <2>2
    <2> QED BY <1>7, <2>3, <2>4
  <1> HIDE DEF had, x, ix, k, M, l, R
  <1> QED BY <1>3, <1>7, <1>9, <1>10, <1>11, <1>13, <1>14 DEF had, x, ix, k, l, R

\* Whom a member's steps meet.
LEMMA PairMateIs ==
  ASSUME NEW n \in Nat, n > 1, ~ IsPowerOfTwo(n), NEW r \in 0 .. n - 1
  PROVE  LET mate == PairMate(n)[r]
             x    == NewIndex(n, r)
             k    == Near(n)
         IN  /\ IsServed(n, r) => mate[1] = <<r + 1, 1>> /\ mate[2] = <<r + 1, k + 2>>
             /\ IsPaired(n, r) /\ ~ IsServed(n, r) =>
                  mate[1] = <<r - 1, 1>> /\ mate[k + 2] = <<r - 1, 2>>
             /\ ~ IsServed(n, r) =>
                  \A i \in 1 .. k :
                    LET y == PeerIndex(x, i - 1)
                    IN  mate[MainStep(n, x, i)] = <<Acts(n, y), MainStep(n, y, i)>>
  <1> DEFINE mate == PairMate(n)[r]
             x    == NewIndex(n, r)
             k    == Near(n)
             l    == StepsOf(n, r)
             here(i) == LET y == PeerIndex(x, i - 1) IN <<Acts(n, y), MainStep(n, y, i)>>
  <1>1. k \in Nat
    BY NearIs
  <1>2. l = IF ~ IsPaired(n, r) THEN k ELSE IF IsServed(n, r) THEN 2 ELSE k + 2
    BY DEF StepsOf
  <1>3. \A p \in 1 .. l :
          mate[p] = IF IsServed(n, r) THEN <<r + 1, IF p = 1 THEN 1 ELSE k + 2>>
                    ELSE IF IsPaired(n, r) /\ p = 1 THEN <<r - 1, 1>>
                    ELSE IF p = k + 2 THEN <<r - 1, 2>>
                    ELSE here(IF IsPaired(n, r) THEN p - 1 ELSE p)
    BY DEF PairMate
  <1>4. IsPaired(n, r) <=> x < Extra(n)
    BY IndexesMatch
  <1> HIDE DEF mate, l, k, here
  <1>5. IsServed(n, r) => mate[1] = <<r + 1, 1>> /\ mate[2] = <<r + 1, k + 2>>
    BY <1>2, <1>3 DEF IsServed
  <1>6. IsPaired(n, r) /\ ~ IsServed(n, r) =>
          mate[1] = <<r - 1, 1>> /\ mate[k + 2] = <<r - 1, 2>>
    <2>1. SUFFICES ASSUME IsPaired(n, r), ~ IsServed(n, r)
                   PROVE  mate[1] = <<r - 1, 1>> /\ mate[k + 2] = <<r - 1, 2>>
      OBVIOUS
    <2>2. l = k + 2 /\ 1 \in 1 .. l /\ k + 2 \in 1 .. l /\ k + 2 # 1
      BY <1>1, <1>2, <2>1
    <2> QED BY <1>3, <2>1, <2>2
  <1>7. ASSUME ~ IsServed(n, r), NEW i \in 1 .. k
        PROVE  mate[MainStep(n, x, i)] = here(i)
    <2> DEFINE p == MainStep(n, x, i)
    <2> SUFFICES mate[p] = here(i)
      OBVIOUS
    <2>1. p = IF IsPaired(n, r) THEN i + 1 ELSE i
      BY <1>4 DEF MainStep
    <2> HIDE DEF p, x
    <2>2. CASE IsPaired(n, r)
      <3>1. p \in 1 .. l /\ p # 1 /\ p # k + 2 /\ p - 1 = i
        BY <1>1, <1>2, <1>7, <2>1, <2>2
      <3> QED BY <1>3, <1>7, <2>2, <3>1
    <2>3. CASE ~ IsPaired(n, r)
      <3>1. p \in 1 .. l /\ p # k + 2 /\ p = i
        BY <1>1, <1>2, <1>7, <2>1, <2>3
      <3> QED BY <1>3, <1>7, <2>3, <3>1
    <2> QED BY <2>2, <2>3
  <1> QED BY <1>5, <1>6, <1>7 DEF mate, k, here

\* An exchange meets the one of its peer.
LEMMA ExchangeMeets ==
  ASSUME NEW n \in Nat, n > 1, ~ IsPowerOfTwo(n), StepCount(n) <= 128, NEW f \in Nat, f > 0,
         NEW r \in 0 .. n - 1, ~ IsServed(n, r), NEW i \in 1 .. Near(n)
  PROVE  LET p == MainStep(n, NewIndex(n, r), i)
         IN  /\ p \in DOMAIN RecursivePlan(n, f)[r]
             /\ RecursivePlan(n, f)[r][p].step_idx = i
             /\ Meets(RecursivePlan(n, f), f, PairMate(n), PairHad(n), r, p)
  <1> DEFINE P    == RecursivePlan(n, f)
             Mate == PairMate(n)
             Had  == PairHad(n)
             k    == Near(n)
             M    == StepSize[k]
             ix   == NewIndices(n)
             R    == 0 .. n - 1
             S    == StepSize[i - 1]
  <1>1. /\ k \in Nat /\ k + 1 <= 128 /\ Extra(n) \in 1 .. M - 1 /\ M \in Nat
        /\ i \in 1 .. k
    BY NearIs
  <1>2. DOMAIN P = R
    BY DEF RecursivePlan
  <1>3. ASSUME NEW q \in R, ~ IsServed(n, q)
        PROVE  LET y == NewIndex(n, q)
                   z == PeerIndex(y, i - 1)
                   j == MainStep(n, y, i)
               IN  /\ y \in 0 .. M - 1 /\ Acts(n, y) = q
                   /\ j \in DOMAIN P[q] /\ j + 1 = MainStep(n, y, i + 1)
                   /\ P[q][j] = Doubling(y, Acts(n, z), i, i, Whole(f))
                   /\ Mate[q][j] = <<Acts(n, z), MainStep(n, z, i)>>
                   /\ Had[q][j] = WithIndex(ix, S, y)
                   /\ Had[q][j + 1] = WithIndex(ix, StepSize[i], y)
    <2> DEFINE y == NewIndex(n, q)
               z == PeerIndex(y, i - 1)
               j == MainStep(n, y, i)
    <2>1. y \in 0 .. M - 1 /\ Acts(n, y) = q /\ (IsPaired(n, q) <=> y < Extra(n))
      BY <1>3, IndexesMatch
    <2>2. /\ j = IF IsPaired(n, q) THEN i + 1 ELSE i
          /\ MainStep(n, y, i + 1) = IF IsPaired(n, q) THEN i + 2 ELSE i + 1
      BY <2>1 DEF MainStep
    <2>3. /\ DOMAIN P[q] = 1 .. StepsOf(n, q)
          /\ ~ IsPaired(n, q) => P[q][i] = Exchange(n, q, i, f)
          /\ IsPaired(n, q) => P[q][i + 1] = Exchange(n, q, i, f)
      BY <1>3, PairPlanIs
    <2>4. StepsOf(n, q) = IF IsPaired(n, q) THEN k + 2 ELSE k
      BY <1>3 DEF StepsOf, IsServed
    <2>5. j \in DOMAIN P[q] /\ j + 1 = MainStep(n, y, i + 1)
      <3> HIDE DEF P, k, y, j
      <3>1. CASE IsPaired(n, q)
        <4>1. j = i + 1 /\ MainStep(n, y, i + 1) = i + 2 /\ DOMAIN P[q] = 1 .. k + 2
          BY ONLY <2>2, <2>3, <2>4, <3>1
        <4> QED BY <1>1, <4>1
      <3>2. CASE ~ IsPaired(n, q)
        <4>1. j = i /\ MainStep(n, y, i + 1) = i + 1 /\ DOMAIN P[q] = 1 .. k
          BY ONLY <2>2, <2>3, <2>4, <3>2
        <4> QED BY <1>1, <4>1
      <3> QED BY <3>1, <3>2
    <2>6. P[q][j] = Doubling(y, Acts(n, z), i, i, Whole(f))
      <3>1. P[q][j] = Exchange(n, q, i, f)
        <4> HIDE DEF P, y, j
        <4> QED BY <2>2, <2>3
      <3> QED BY <3>1 DEF Exchange
    <2>7. Mate[q][j] = <<Acts(n, z), MainStep(n, z, i)>>
      BY <1>3, PairMateIs
    <2>8. Had[q][j] = WithIndex(ix, S, y)
      <3>1. i \in 1 .. k + 1
        BY <1>1
      <3> QED BY <1>3, <3>1, PairHadIs
    <2>9. Had[q][j + 1] = WithIndex(ix, StepSize[i], y)
      <3>1. i + 1 \in 1 .. k + 1 /\ (i + 1) - 1 = i
        BY <1>1
      <3> DEFINE e == i + 1
      <3>2. e \in 1 .. Near(n) + 1 /\ e - 1 = i
        BY <3>1
      <3> HIDE DEF e
      <3>3. Had[q][MainStep(n, y, e)] = WithIndex(ix, StepSize[e - 1], y)
        BY <1>3, <3>2, PairHadIs
      <3> HIDE DEF j, y, Had, ix
      <3>4. Had[q][MainStep(n, y, i + 1)] = WithIndex(ix, StepSize[i], y)
        BY <3>2, <3>3 DEF e
      <3> QED BY <2>5, <3>4
    <2> QED BY <2>1, <2>5, <2>6, <2>7, <2>8, <2>9
  <1> DEFINE x == NewIndex(n, r)
             y == PeerIndex(x, i - 1)
             p == MainStep(n, x, i)
             q == Acts(n, y)
             j == MainStep(n, y, i)
  <1>4. x \in 0 .. M - 1 /\ x \in Nat /\ i - 1 \in Nat /\ (i - 1) + 1 = i
    <2>1. x \in 0 .. M - 1
      BY IndexesMatch
    <2> HIDE DEF x, M
    <2> QED BY <1>1, <2>1
  <1>5. y \in 0 .. M - 1 /\ PeerIndex(y, i - 1) = x
    <2> HIDE DEF x
    <2> QED BY <1>1, <1>4, PeerInside, PeersMeet
  <1>6. q \in R /\ NewIndex(n, q) = y /\ ~ IsServed(n, q)
    <2> HIDE DEF y
    <2> QED BY <1>5, IndexesMatch
  <1>7. /\ p \in DOMAIN P[r] /\ P[r][p] = Doubling(x, q, i, i, Whole(f)) /\ Mate[r][p] = <<q, j>>
        /\ Had[r][p] = WithIndex(ix, S, x) /\ Had[r][p + 1] = WithIndex(ix, StepSize[i], x)
        /\ Acts(n, x) = r
    BY <1>3
  <1>8. /\ j \in DOMAIN P[q] /\ P[q][j] = Doubling(y, r, i, i, Whole(f)) /\ Mate[q][j] = <<r, p>>
        /\ Had[q][j] = WithIndex(ix, S, y)
    <2> HIDE DEF q, y, P, Mate, Had, ix, S
    <2>1. /\ j \in DOMAIN P[q] /\ P[q][j] = Doubling(y, Acts(n, PeerIndex(y, i - 1)), i, i, Whole(f))
          /\ Mate[q][j] = <<Acts(n, PeerIndex(y, i - 1)), MainStep(n, PeerIndex(y, i - 1), i)>>
          /\ Had[q][j] = WithIndex(ix, S, y)
      BY <1>3, <1>6
    <2> HIDE DEF x
    <2> QED BY <1>5, <1>7, <2>1
  <1>9. /\ WithIndex(ix, StepSize[i], x) = WithIndex(ix, S, x) \cup WithIndex(ix, S, y)
        /\ WithIndex(ix, S, y) \cap WithIndex(ix, S, x) = {}
    <2>1. \A m \in DOMAIN ix : ix[m] \in Nat
      <3>1. \A m \in R : NewIndex(n, m) \in 0 .. M - 1
        BY IndexesMatch
      <3> HIDE DEF M
      <3> QED BY <1>1, <3>1 DEF NewIndices
    <2> DEFINE e == i - 1
    <2>2. e \in Nat /\ e + 1 = i
      BY <1>4
    <2> HIDE DEF e, x, ix
    <2>3. LET T == StepSize[e]
              z == PeerIndex(x, e)
          IN  /\ WithIndex(ix, StepSize[e + 1], x) = WithIndex(ix, T, x) \cup WithIndex(ix, T, z)
              /\ WithIndex(ix, T, z) \cap WithIndex(ix, T, x) = {}
      BY <1>4, <2>1, <2>2, HalvesJoin
    <2> QED BY <2>2, <2>3 DEF e
  <1>10. WithIndex(ix, S, x) # {}
    <2>1. r \in WithIndex(ix, S, x)
      BY DEF WithIndex, NewIndices
    <2> QED BY <2>1
  <1>11. \A z, t : LET st == Doubling(z, t, i, i, Whole(f)) IN
           /\ st.method \in PairMethods /\ st.eps = <<t>> /\ st.pieces = Whole(f)
           /\ st.fragments_recv = f /\ st.step_idx = i
           /\ Reduces(st) /\ ~ IsSendOnly(st) /\ ~ IsRecvOnly(st)
    <2>1. i \in 0 .. 255
      <3> HIDE DEF k, M
      <3>1. k \in Nat /\ k + 1 <= 128 /\ i \in 1 .. k
        BY ONLY <1>1
      <3> QED BY ONLY <3>1
    <2>2. ASSUME NEW z, NEW t
          PROVE  LET st == Doubling(z, t, i, i, Whole(f)) IN
                   /\ st.method = "REDUCE_RECURSIVE" /\ st.eps = <<t>> /\ st.pieces = Whole(f)
                   /\ st.fragments_recv = f /\ st.step_idx = i
                   /\ Reduces(st) /\ ~ IsSendOnly(st) /\ ~ IsRecvOnly(st)
      BY <2>1, DoublingIs
    <2> QED BY <2>2 DEF PairMethods
  <1> HIDE DEF P, Mate, Had, k, M, ix, S, x, y, p, q, j
  <1>12. Mate[r][p][1] = q /\ Mate[r][p][2] = j
    BY <1>7
  <1>13. P[r][p].step_idx = i /\ P[q][j].step_idx = i
    BY <1>7, <1>8, <1>11
  <1>14. Meets(P, f, Mate, Had, r, p)
    BY <1>2, <1>6, <1>7, <1>8, <1>9, <1>10, <1>11, <1>12, <1>13 DEF Meets
  <1> QED BY <1>7, <1>13, <1>14 DEF P, Mate, Had, p, x

\* A member hands its data to the one next to it and gets the result back.
LEMMA PairMeets ==
  ASSUME NEW n \in Nat, n > 1, ~ IsPowerOfTwo(n), StepCount(n) <= 128, NEW f \in Nat, f > 0,
         NEW r \in 0 .. n - 1, IsPaired(n, r),
         NEW p, p = 1 \/ p = StepsOf(n, r)
  PROVE  /\ p \in DOMAIN RecursivePlan(n, f)[r]
         /\ RecursivePlan(n, f)[r][p].step_idx = IF p = 1 THEN 0 ELSE Near(n) + 1
         /\ Meets(RecursivePlan(n, f), f, PairMate(n), PairHad(n), r, p)
  <1> DEFINE P    == RecursivePlan(n, f)
             Mate == PairMate(n)
             Had  == PairHad(n)
             k    == Near(n)
             R    == 0 .. n - 1
             q    == IF IsServed(n, r) THEN r + 1 ELSE r - 1
  <1>1. k \in Nat /\ k + 1 <= 128
    BY NearIs
  <1>2. /\ DOMAIN P = R /\ q \in R /\ IsPaired(n, q) /\ (IsServed(n, q) <=> ~ IsServed(n, r))
        /\ r = IF IsServed(n, q) THEN q + 1 ELSE q - 1
    <2>1. q \in R /\ IsPaired(n, q) /\ (IsServed(n, q) <=> ~ IsServed(n, r))
      BY IndexesMatch DEF IsServed
    <2>2. r = IF IsServed(n, q) THEN q + 1 ELSE q - 1
      <3>1. r + 1 - 1 = r /\ r - 1 + 1 = r
        OBVIOUS
      <3> QED BY <2>1, <3>1
    <2>3. DOMAIN P = R
      BY DEF RecursivePlan
    <2> QED BY <2>1, <2>2, <2>3
  \* The same for the member and the one next to it.
  <1>3. ASSUME NEW m \in R, IsPaired(n, m)
        PROVE  LET l == StepsOf(n, m)
                   o == IF IsServed(n, m) THEN m + 1 ELSE m - 1
               IN  /\ l = IF IsServed(n, m) THEN 2 ELSE k + 2
                   /\ DOMAIN P[m] = 1 .. l /\ 1 \in 1 .. l /\ l \in 1 .. l /\ l # 1
                   /\ P[m][1] = Give(n, m, f) /\ P[m][l] = Return(n, m, f)
                   /\ Mate[m][1] = <<o, 1>>
                   /\ Mate[m][l] = <<o, IF IsServed(n, m) THEN k + 2 ELSE 2>>
                   /\ Had[m][1] = {m} /\ Had[m][l + 1] = R
                   /\ Had[m][l] = IF IsServed(n, m) THEN {m} ELSE R
                   /\ Had[m][2] = IF IsServed(n, m) THEN {m} ELSE {m, m - 1}
    <2> DEFINE l == StepsOf(n, m)
               o == IF IsServed(n, m) THEN m + 1 ELSE m - 1
    <2>1. l = IF IsServed(n, m) THEN 2 ELSE k + 2
      BY <1>3 DEF StepsOf
    <2>2. 1 \in 1 .. l /\ l \in 1 .. l /\ l # 1
      <3> HIDE DEF l, k
      <3> QED BY <1>1, <2>1
    <2>3. /\ DOMAIN P[m] = 1 .. l
          /\ P[m][1] = Give(n, m, f)
          /\ P[m][IF IsServed(n, m) THEN 2 ELSE k + 2] = Return(n, m, f)
      BY <1>3, PairPlanIs
    <2>4. /\ Mate[m][1] = <<o, 1>>
          /\ Mate[m][IF IsServed(n, m) THEN 2 ELSE k + 2]
               = <<o, IF IsServed(n, m) THEN k + 2 ELSE 2>>
      BY <1>3, PairMateIs
    <2>5. /\ Had[m][1] = {m} /\ Had[m][l + 1] = R
          /\ Had[m][IF IsServed(n, m) THEN 2 ELSE k + 2] = IF IsServed(n, m) THEN {m} ELSE R
      BY <1>3, PairHadIs
    <2>6. Had[m][2] = IF IsServed(n, m) THEN {m} ELSE {m, m - 1}
      <3>1. IsServed(n, m) => Had[m][2] = {m}
        BY PairHadIs
      <3>2. ASSUME ~ IsServed(n, m) PROVE Had[m][2] = {m, m - 1}
        <4> DEFINE x == NewIndex(n, m)
        <4>1. x < Extra(n)
          BY <1>3, IndexesMatch
        <4>2. 1 \in 1 .. Near(n) + 1 /\ 1 - 1 = 0 /\ 1 + 1 = 2
          BY <1>1
        <4>3. Had[m][MainStep(n, x, 1)] = WithIndex(NewIndices(n), StepSize[0], x)
          BY <3>2, <4>2, PairHadIs
        <4>4. MainStep(n, x, 1) = 2
          BY <4>1 DEF MainStep
        <4>5. WithIndex(NewIndices(n), StepSize[0], x) = {m, m - 1}
          BY <1>3, <3>2, PairHadIs
        <4> HIDE DEF Had, x
        <4> QED BY <4>3, <4>4, <4>5
      <3> HIDE DEF Had
      <3> QED BY <3>1, <3>2
    <2> HIDE DEF P, Mate, Had, k, l
    <2>7. /\ P[m][l] = Return(n, m, f)
          /\ Mate[m][l] = <<o, IF IsServed(n, m) THEN k + 2 ELSE 2>>
          /\ Had[m][l] = IF IsServed(n, m) THEN {m} ELSE R
      BY <2>1, <2>3, <2>4, <2>5
    <2> QED BY <2>1, <2>2, <2>3, <2>4, <2>5, <2>6, <2>7 DEF l
  <1>4. ASSUME NEW m \in R
        PROVE  LET g == Give(n, m, f)
                   b == Return(n, m, f)
                   o == IF IsServed(n, m) THEN m + 1 ELSE m - 1
               IN  /\ g.eps = <<o>> /\ g.pieces = Whole(f) /\ g.fragments_recv = f
                   /\ g.step_idx = 0 /\ g.method \in PairMethods
                   /\ b.eps = <<o>> /\ b.pieces = Whole(f) /\ b.fragments_recv = f
                   /\ b.step_idx = k + 1 /\ b.method \in PairMethods
                   /\ (IsSendOnly(g) <=> IsServed(n, m)) /\ (IsRecvOnly(g) <=> ~ IsServed(n, m))
                   /\ (Reduces(g) <=> ~ IsServed(n, m)) /\ ~ Reduces(b)
                   /\ (IsSendOnly(b) <=> ~ IsServed(n, m)) /\ (IsRecvOnly(b) <=> IsServed(n, m))
    <2>1. Near(n) \in 0 .. 254
      BY <1>1
    <2> QED BY <2>1, GiveReturnAre
  <1> DEFINE l == StepsOf(n, r)
             t == StepsOf(n, q)
  <1>5. /\ l = IF IsServed(n, r) THEN 2 ELSE k + 2
        /\ t = IF IsServed(n, r) THEN k + 2 ELSE 2
        /\ 1 \in DOMAIN P[r] /\ l \in DOMAIN P[r] /\ l # 1
        /\ 1 \in DOMAIN P[q] /\ t \in DOMAIN P[q]
        /\ P[r][1] = Give(n, r, f) /\ P[r][l] = Return(n, r, f)
        /\ P[q][1] = Give(n, q, f) /\ P[q][t] = Return(n, q, f)
        /\ Mate[r][1] = <<q, 1>> /\ Mate[r][l] = <<q, t>>
        /\ Mate[q][1] = <<r, 1>> /\ Mate[q][t] = <<r, l>>
        /\ Had[r][1] = {r} /\ Had[q][1] = {q}
        /\ Had[r][2] = IF IsServed(n, r) THEN {r} ELSE {r, r - 1}
        /\ Had[r][l] = (IF IsServed(n, r) THEN {r} ELSE R) /\ Had[r][l + 1] = R
        /\ Had[q][t] = IF IsServed(n, r) THEN R ELSE {q}
    <2> HIDE DEF P, Mate, Had, k, R
    <2>1. q \in R /\ IsPaired(n, q)
      BY <1>2
    <2>2. r \in R
      BY DEF R
    <2>3. /\ l = IF IsServed(n, r) THEN 2 ELSE k + 2
          /\ 1 \in DOMAIN P[r] /\ l \in DOMAIN P[r] /\ l # 1
          /\ P[r][1] = Give(n, r, f) /\ P[r][l] = Return(n, r, f)
          /\ Mate[r][1] = <<q, 1>>
          /\ Mate[r][l] = <<q, IF IsServed(n, r) THEN k + 2 ELSE 2>>
          /\ Had[r][1] = {r}
          /\ Had[r][2] = IF IsServed(n, r) THEN {r} ELSE {r, r - 1}
          /\ Had[r][l] = (IF IsServed(n, r) THEN {r} ELSE R) /\ Had[r][l + 1] = R
      BY <1>3, <2>2
    <2> HIDE DEF q
    <2>4. /\ t = IF IsServed(n, q) THEN 2 ELSE k + 2
          /\ 1 \in DOMAIN P[q] /\ t \in DOMAIN P[q]
          /\ P[q][1] = Give(n, q, f) /\ P[q][t] = Return(n, q, f)
          /\ Mate[q][1] = <<IF IsServed(n, q) THEN q + 1 ELSE q - 1, 1>>
          /\ Mate[q][t] = <<IF IsServed(n, q) THEN q + 1 ELSE q - 1,
                            IF IsServed(n, q) THEN k + 2 ELSE 2>>
          /\ Had[q][1] = {q}
          /\ Had[q][t] = (IF IsServed(n, q) THEN {q} ELSE R)
      BY <1>3, <2>1
    <2>5. (IsServed(n, q) <=> ~ IsServed(n, r)) /\ r = IF IsServed(n, q) THEN q + 1 ELSE q - 1
      BY <1>2
    <2> HIDE DEF l, t
    <2>6. Mate[q][1] = <<r, 1>> /\ Mate[q][t] = <<r, IF IsServed(n, q) THEN k + 2 ELSE 2>>
      BY ONLY <2>4, <2>5
    <2> QED BY ONLY <2>3, <2>4, <2>5, <2>6
  <1>6. R # {}
    BY <1>2
  <1> HIDE DEF P, Mate, Had, k, l, t, R
  <1>7. r \in R /\ q \in R
    BY <1>2 DEF R
  <1>8. q # r /\ (~ IsServed(n, r) => q = r - 1)
    OBVIOUS
  <1> HIDE DEF q
  <1>9. CASE p = 1
    <2>1. Mate[r][1][1] = q /\ Mate[r][1][2] = 1
      BY <1>5
    <2>2. /\ P[r][1].eps = <<q>> /\ P[r][1].pieces = Whole(f) /\ P[r][1].fragments_recv = f
          /\ P[r][1].step_idx = 0 /\ P[q][1].step_idx = 0 /\ P[r][1].method \in PairMethods
          /\ (IsSendOnly(P[r][1]) <=> IsServed(n, r)) /\ (Reduces(P[r][1]) <=> ~ IsServed(n, r))
          /\ (IsRecvOnly(P[q][1]) <=> IsServed(n, r))
      <3>1. P[r][1].eps = <<IF IsServed(n, r) THEN r + 1 ELSE r - 1>>
        BY <1>4, <1>5, <1>7
      <3> QED BY <1>2, <1>4, <1>5, <1>7, <3>1 DEF q
    <2>3. /\ IsServed(n, r) => Had[r][2] = Had[r][1]
          /\ ~ IsServed(n, r) => Had[r][2] = Had[r][1] \cup Had[q][1] /\ Had[q][1] \cap Had[r][1] = {}
      BY <1>5, <1>8
    <2>4. Had[r][1] # {} /\ 1 + 1 = 2
      BY <1>5
    <2>5. Meets(P, f, Mate, Had, r, 1)
      BY <1>2, <1>5, <1>7, <2>1, <2>2, <2>3, <2>4 DEF Meets
    <2> QED BY <1>5, <1>9, <2>2, <2>5 DEF P, Mate, Had
  <1>10. CASE p = l
    <2>1. Mate[r][l][1] = q /\ Mate[r][l][2] = t
      BY <1>5
    <2>2. /\ P[r][l].eps = <<q>> /\ P[r][l].pieces = Whole(f) /\ P[r][l].fragments_recv = f
          /\ P[r][l].step_idx = k + 1 /\ P[q][t].step_idx = k + 1 /\ P[r][l].method \in PairMethods
          /\ (IsSendOnly(P[r][l]) <=> ~ IsServed(n, r)) /\ ~ Reduces(P[r][l])
          /\ (IsRecvOnly(P[q][t]) <=> ~ IsServed(n, r))
      <3>1. P[r][l].eps = <<IF IsServed(n, r) THEN r + 1 ELSE r - 1>>
        BY <1>4, <1>5, <1>7
      <3> QED BY <1>2, <1>4, <1>5, <1>7, <3>1 DEF q
    <2>3. /\ ~ IsServed(n, r) => Had[r][l + 1] = Had[r][l]
          /\ IsServed(n, r) => Had[r][l + 1] = Had[q][t]
      BY <1>5
    <2>4. Had[r][l] # {}
      BY <1>5, <1>6
    <2>5. Meets(P, f, Mate, Had, r, l)
      BY <1>2, <1>5, <1>7, <2>1, <2>2, <2>3, <2>4 DEF Meets
    <2> QED BY <1>5, <1>10, <2>2, <2>5 DEF P, Mate, Had, k
  <1> QED BY <1>9, <1>10 DEF l

\* Other numbers are exchanged in pairs, too.
LEMMA OthersInPairs ==
  ASSUME NEW n \in Nat, n > 1, ~ IsPowerOfTwo(n), StepCount(n) <= 128, NEW f \in Nat, f > 0
  PROVE  InPairs(RecursivePlan(n, f), f, PairMate(n), PairHad(n))
  <1> DEFINE P    == RecursivePlan(n, f)
             Mate == PairMate(n)
             Had  == PairHad(n)
             k    == Near(n)
             R    == 0 .. n - 1
  <1>1. k \in Nat /\ k + 1 <= 128
    BY NearIs
  <1>2. DOMAIN P = R
    BY DEF RecursivePlan
  <1>3. ASSUME NEW r \in R
        PROVE  /\ DOMAIN P[r] = 1 .. Len(P[r]) /\ Len(P[r]) \in Nat
               /\ Had[r][1] = {r} /\ Had[r][Len(P[r]) + 1] = R
               /\ InOrder(P, r)
               /\ \A i \in DOMAIN P[r] : Meets(P, f, Mate, Had, r, i)
    <2> DEFINE l == StepsOf(n, r)
               x == NewIndex(n, r)
    <2>1. DOMAIN P[r] = 1 .. l /\ Len(P[r]) = l
      BY PairPlanIs
    <2>2. l \in Nat /\ Had[r][1] = {r} /\ Had[r][l + 1] = R
      BY PairHadIs
    <2>3. l = IF ~ IsPaired(n, r) THEN k ELSE IF IsServed(n, r) THEN 2 ELSE k + 2
      BY DEF StepsOf
    <2>4. ASSUME NEW i \in 1 .. k, ~ IsServed(n, r)
          PROVE  LET p == MainStep(n, x, i)
                 IN  /\ p = IF IsPaired(n, r) THEN i + 1 ELSE i
                     /\ P[r][p].step_idx = i /\ Meets(P, f, Mate, Had, r, p)
      <3>1. IsPaired(n, r) <=> x < Extra(n)
        BY IndexesMatch
      <3>2. MainStep(n, x, i) = IF IsPaired(n, r) THEN i + 1 ELSE i
        BY <3>1 DEF MainStep
      <3> QED BY <2>4, <3>2, ExchangeMeets
    <2>5. ASSUME IsPaired(n, r), NEW p, p = 1 \/ p = l
          PROVE  /\ P[r][p].step_idx = IF p = 1 THEN 0 ELSE k + 1
                 /\ Meets(P, f, Mate, Had, r, p)
      BY <2>5, PairMeets
    <2> HIDE DEF P, Mate, Had, k, l, x, R
    <2>6. ASSUME NEW p \in 1 .. l
          PROVE  /\ Meets(P, f, Mate, Had, r, p)
                 /\ P[r][p].step_idx = IF ~ IsPaired(n, r) THEN p
                                       ELSE IF p = 1 THEN 0 ELSE IF p = l THEN k + 1 ELSE p - 1
      <3>1. CASE ~ IsPaired(n, r)
        <4>1. p \in 1 .. k /\ ~ IsServed(n, r)
          BY <2>3, <3>1 DEF IsServed
        <4>2. MainStep(n, x, p) = p /\ P[r][p].step_idx = p /\ Meets(P, f, Mate, Had, r, p)
          BY <2>4, <3>1, <4>1
        <4> QED BY <3>1, <4>2
      <3>2. CASE IsPaired(n, r) /\ (p = 1 \/ p = l)
        <4>1. l # 1
          BY <1>1, <2>3, <3>2
        <4> QED BY <2>5, <3>2, <4>1
      <3>3. CASE IsPaired(n, r) /\ p # 1 /\ p # l
        <4>1. ~ IsServed(n, r)
          BY <2>3, <3>3
        <4> DEFINE i == p - 1
        <4>2. i \in 1 .. k /\ i + 1 = p
          BY <1>1, <2>3, <3>3, <4>1
        <4> HIDE DEF i
        <4>3. P[r][p].step_idx = i /\ Meets(P, f, Mate, Had, r, p)
          BY <2>4, <3>3, <4>1, <4>2
        <4> QED BY <3>3, <4>3 DEF i
      <3> QED BY <3>1, <3>2, <3>3
    <2>7. InOrder(P, r)
      <3> DEFINE idx(z) == IF ~ IsPaired(n, r) THEN z
                           ELSE IF z = 1 THEN 0 ELSE IF z = l THEN k + 1 ELSE z - 1
      <3>1. \A p \in 1 .. l : P[r][p].step_idx = idx(p)
        BY <2>6
      <3>2. l \in Nat /\ (IsPaired(n, r) => l = 2 \/ l = k + 2)
        BY <2>2, <2>3
      <3>3. \A p \in 1 .. l : p \in Nat /\ idx(p) \in Nat
        BY <1>1, <3>2
      <3>4. \A p, e \in 1 .. l : p < e => idx(p) < idx(e)
        BY <1>1, <3>2
      <3> HIDE DEF idx
      <3> QED BY <2>1, <3>1, <3>3, <3>4 DEF InOrder
    <2> QED BY <2>1, <2>2, <2>6, <2>7
  <1> HIDE DEF P, Mate, Had, R
  <1>4. InPairs(P, f, Mate, Had)
    BY <1>2, <1>3 DEF InPairs
  <1> QED BY <1>4 DEF P, Mate, Had

\* Whose data the members have, step by step.
RecursiveLabels(n, f) ==
  PairLabels(RecursivePlan(n, f), f, IF IsPowerOfTwo(n) THEN PowHad(n) ELSE PairHad(n))

\* The data flow of recursive doubling fits, for every size of the group and
\* number of fragments: each step gets what it waits for, under an index of its
\* own, the halves that are joined have nothing in common, and in the end
\* everybody has everybody's data; also when the size is no power of two and the
\* even ones of the first members are served by their neighbours
\* (ucg_builtin_recursive_connect).
THEOREM RecursiveDataFits ==
  ASSUME NEW n \in Nat, n > 1, StepCount(n) <= 128, NEW f \in Nat, f > 0
  PROVE  /\ CountsFit(RecursivePlan(n, f)) /\ IdsFit(RecursivePlan(n, f))
         /\ LabelsFit(RecursivePlan(n, f), RecursiveLabels(n, f), 0 .. f - 1,
                      0 .. n - 1, 0 .. n - 1)
  <1> DEFINE P == RecursivePlan(n, f)
  <1>1. DOMAIN P = 0 .. n - 1
    BY DEF RecursivePlan
  <1>2. CASE IsPowerOfTwo(n)
    <2>1. InPairs(P, f, PowMate(n), PowHad(n))
      BY <1>2, PowInPairs
    <2> HIDE DEF P
    <2>2. /\ CountsFit(P) /\ IdsFit(P)
          /\ LabelsFit(P, PairLabels(P, f, PowHad(n)), 0 .. f - 1, DOMAIN P, DOMAIN P)
      BY <2>1, PairsFit
    <2> QED BY <1>1, <1>2, <2>2 DEF P, RecursiveLabels
  <1>3. CASE ~ IsPowerOfTwo(n)
    <2>1. InPairs(P, f, PairMate(n), PairHad(n))
      BY <1>3, OthersInPairs
    <2> HIDE DEF P
    <2>2. /\ CountsFit(P) /\ IdsFit(P)
          /\ LabelsFit(P, PairLabels(P, f, PairHad(n)), 0 .. f - 1, DOMAIN P, DOMAIN P)
      BY <2>1, PairsFit
    <2> QED BY <1>1, <1>3, <2>2 DEF P, RecursiveLabels
  <1> QED BY <1>2, <1>3

\* The steps of recursive doubling have turns.
LEMMA RecursiveTurns ==
  ASSUME NEW n \in Nat, n > 1, StepCount(n) <= 128, NEW f \in Nat, f > 0
  PROVE  OnePeer(RecursivePlan(n, f)) /\ \E T : TurnsFit(RecursivePlan(n, f), T)
  <1> DEFINE P == RecursivePlan(n, f)
  <1>1. \E Mate, Had : InPairs(P, f, Mate, Had)
    BY PowInPairs, OthersInPairs
  <1>2. PICK Mate, Had : InPairs(P, f, Mate, Had)
    BY <1>1
  <1> HIDE DEF P
  <1>3. ASSUME NEW r \in DOMAIN P, NEW i \in DOMAIN P[r]
        PROVE  Len(P[r][i].eps) = 1 /\ ~ IsWaypoint(P[r][i])
    <2>1. Meets(P, f, Mate, Had, r, i)
      BY <1>2, TheyMeet
    <2>2. P[r][i].eps = <<Mate[r][i][1]>>
      BY <2>1, Zenon DEF Meets
    <2>3. ~ IsWaypoint(P[r][i])
      BY <1>2, PairSends
    <2> QED BY <2>2, <2>3
  <1>4. OnePeer(P)
    BY <1>3 DEF OnePeer
  <1>5. \A r \in DOMAIN P : InOrder(P, r)
    BY <1>2 DEF InPairs
  <1> QED BY <1>4, <1>5, OrderTurns DEF P
=============================================================================
