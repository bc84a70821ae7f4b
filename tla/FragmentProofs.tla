---------------------------- MODULE FragmentProofs ----------------------------
(***************************************************************************)
(* Sender and receiver of a step count the same messages, without talking  *)
(* about it, for every transport, every length and every size of element;  *)
(* the messages hold all the data; and in a ring it does not matter that a *)
(* member's two neighbours are on different transports.                    *)
(***************************************************************************)
EXTENDS PlansProofs, Fragments

\* What alignment leaves of a message with room for one unit is not empty.
LEMMA AlignedRoom ==
  ASSUME NEW x, Room(x)
  PROVE  Aligned(x) \in Nat \ {0}
  <1>1. x \in Nat /\ 16 \in Nat \ {0} /\ x >= 16
    BY DEF Room, Alignment
  <1>2. x % 16 \in 0 .. 15
    BY <1>1
  <1> QED BY <1>1, <1>2 DEF Aligned, Alignment

\* There are short messages of one fragment and of several, or there are none;
\* all other fragments have room.
LEMMA ThresholdsSound ==
  ASSUME NEW t, IsTransport(t)
  PROVE  LET th == Thresholds(t)
         IN  /\ th.short_one \in Nat /\ th.short_max \in Nat
             /\ th.short_one = 0 <=> th.short_max = 0
             /\ th.bcopy_one \in Nat \ {0} /\ th.zcopy_one \in Nat \ {0}
             /\ th.bcopy_max \in Nat /\ th.max_reg \in Nat
  <1> DEFINE short     == IF t.am_short < HeaderSize THEN 0 ELSE t.am_short - HeaderSize
             short_max == IF short = 0 THEN 0 ELSE ShortMaxTx
             bcopy     == t.am_bcopy - HeaderSize
             zcopy     == t.need_memh /\ t.max_reg # 0
             least     == IF short > short_max THEN short_max ELSE short
             copied    == IF zcopy /\ bcopy > BcopyMaxTx THEN BcopyMaxTx ELSE bcopy
             direct    == IF zcopy THEN t.am_zcopy - HeaderSize ELSE SIZE_MAX
  <1>1. short = 0 \/ Room(short)
    BY DEF IsTransport, HeaderSize, Room
  <1>2. short_max \in Nat /\ (short = 0 => least = 0 /\ short_max = 0)
    BY FragmentsAssumption DEF Room
  <1>3. short # 0 => Room(least) /\ Room(short_max)
    BY <1>1, FragmentsAssumption
  <1>4. Aligned(0) = 0
    BY DEF Aligned, Alignment
  <1>5. Aligned(least) \in Nat /\ (Aligned(least) = 0 <=> short_max = 0)
    <2>1. CASE short = 0
      BY <2>1, <1>2, <1>4
    <2>2. CASE short # 0
      <3>1. short_max # 0
        BY <1>3, <2>2 DEF Room, Alignment
      <3> QED BY <3>1, <2>2, <1>3, AlignedRoom
    <2> QED BY <2>1, <2>2
  <1>6. Room(copied) /\ Room(direct)
    BY FragmentsAssumption DEF IsTransport
  <1>7. Aligned(copied) \in Nat \ {0} /\ Aligned(direct) \in Nat \ {0}
    BY <1>6, AlignedRoom
  <1>8. /\ (IF zcopy THEN BcopyMaxTx ELSE SIZE_MAX) \in Nat
        /\ (IF t.need_memh THEN t.max_reg ELSE 0) \in Nat
    BY FragmentsAssumption DEF IsTransport, Room
  <1>9. Thresholds(t) =
          [short_one |-> Aligned(least), short_max |-> short_max,
           bcopy_one |-> Aligned(copied), bcopy_max |-> IF zcopy THEN BcopyMaxTx ELSE SIZE_MAX,
           zcopy_one |-> Aligned(direct), max_reg |-> IF t.need_memh THEN t.max_reg ELSE 0]
    BY DEF Thresholds
  <1> HIDE DEF short, short_max, bcopy, zcopy, least, copied, direct
  <1> QED BY <1>2, <1>5, <1>7, <1>8, <1>9

\* The receiver of a message comes to the number of fragments its sender comes
\* to, when both are on one transport, although only the sender asks whether it
\* has short messages (ucg_builtin_step_send_flags, _recv_flags).
THEOREM FragmentsAlike ==
  ASSUME NEW t, IsTransport(t), NEW length \in Nat, NEW dt_len \in Nat
  PROVE  SendFragments(Thresholds(t), length, dt_len) =
           RecvFragments(Thresholds(t), length, dt_len)
  <1> DEFINE th == Thresholds(t)
  <1>1. /\ th.short_one \in Nat /\ th.short_max \in Nat
        /\ th.short_one = 0 <=> th.short_max = 0
        /\ th.bcopy_one \in Nat /\ th.bcopy_max \in Nat
    BY ThresholdsSound
  <1> HIDE DEF th
  <1>2. SendFragments(th, length, dt_len) = RecvFragments(th, length, dt_len)
    <2>1. CASE th.short_one # 0
      BY <2>1, <1>1 DEF SendFragments, RecvFragments
    <2>2. CASE th.short_one = 0 /\ length # 0
      BY <2>2, <1>1 DEF SendFragments, RecvFragments
    <2>3. CASE th.short_one = 0 /\ length = 0
      BY <2>3, <1>1 DEF SendFragments, RecvFragments
    <2> QED BY <2>1, <2>2, <2>3
  <1> QED BY <1>2 DEF th

\* Why SHORT_MAX_TX_SIZE is what it is: two ends of a connection that see short
\* messages of different sizes still agree, if both sizes exceed that limit (the
\* comment at the option in ucg_builtin_config_table).
THEOREM ShortLimit ==
  ASSUME NEW t, IsTransport(t), NEW u, IsTransport(u),
         t.am_short >= ShortMaxTx + HeaderSize, u.am_short >= ShortMaxTx + HeaderSize,
         t.am_bcopy = u.am_bcopy, t.am_zcopy = u.am_zcopy,
         t.need_memh = u.need_memh, t.max_reg = u.max_reg
  PROVE  Thresholds(t) = Thresholds(u)
  BY FragmentsAssumption DEF IsTransport, Thresholds, Room, HeaderSize, Alignment

\* A fragment is not empty.
LEMMA FragmentNotEmpty ==
  ASSUME NEW one \in Nat \ {0}, NEW dt_len \in Nat
  PROVE  FragmentLength(one, dt_len) \in Nat \ {0}
  <1>1. CASE dt_len # 0 /\ dt_len <= one
    <2>1. one % dt_len \in 0 .. dt_len - 1
      BY <1>1
    <2> QED BY <1>1, <2>1 DEF FragmentLength
  <1>2. CASE ~ (dt_len # 0 /\ dt_len <= one)
    BY <1>2 DEF FragmentLength
  <1> QED BY <1>1, <1>2

\* The fragments hold all of the data, and none of them is superfluous.
THEOREM FragmentsCover ==
  ASSUME NEW one \in Nat \ {0}, NEW dt_len \in Nat, NEW length \in Nat \ {0}
  PROVE  LET size == FragmentLength(one, dt_len)
             num  == Cut(length, one, dt_len)
         IN  num \in Nat \ {0} /\ (num - 1) * size < length /\ length <= num * size
  <1> DEFINE size == FragmentLength(one, dt_len)
             q == length \div size
             r == length % size
  <1>1. size \in Nat \ {0}
    BY FragmentNotEmpty
  <1>2. Cut(length, one, dt_len) = q + (IF r > 0 THEN 1 ELSE 0)
    BY DEF Cut
  <1> HIDE DEF size
  <1>3. q \in Nat /\ r \in 0 .. size - 1 /\ length = size * q + r
    <2>1. q \in Int /\ r \in 0 .. size - 1 /\ length = size * q + r
      BY <1>1, DivMod
    <2> HIDE DEF q, r
    <2>2. q < 0 => size * q + size <= size * 0
      BY <1>1, <2>1, MultiplesApart
    <2> QED BY <1>1, <2>1, <2>2
  <1> HIDE DEF q, r
  <1>4. size * q \in Nat /\ (q - 1) * size = size * q - size /\ (q + 1) * size = size * q + size
        /\ q * size = size * q /\ (q + 1 - 1) * size = size * q
    BY <1>1, <1>3
  <1>5. r = 0 => q # 0
    BY <1>1, <1>3
  <1>6. CASE r = 0
    BY <1>1, <1>2, <1>3, <1>4, <1>5, <1>6 DEF size
  <1>7. CASE r > 0
    BY <1>1, <1>2, <1>3, <1>4, <1>7 DEF size
  <1> QED BY <1>3, <1>6, <1>7

\* In every step of a ring a member waits for as many messages as its left
\* neighbour sends it, if only the two ends of a connection are on the same
\* transport: the thresholds to receive are those of the left neighbour
\* (ucg_builtin_ring_connect), and both cut the same block.
THEOREM RingFragmentsFit ==
  ASSUME NEW n \in Nat, n > 1, NEW me \in 0 .. n - 1, NEW count \in Nat,
         NEW k \in 1 .. 2 * (n - 1), NEW dt_len \in Nat,
         NEW link, \A a, b \in 0 .. n - 1 : link[a][b] = link[b][a] /\ IsTransport(link[a][b])
  PROVE  LET left == LeftOf(n, me)
             sent == Len(Ring(n, left, count)[k].pieces) * dt_len
             received == Ring(n, me, count)[k].fragments_recv * dt_len
         IN  SendFragments(Thresholds(link[left][me]), sent, dt_len) =
               RecvFragments(Thresholds(link[me][left]), received, dt_len)
  <1> DEFINE left == LeftOf(n, me)
             elements == Ring(n, me, count)[k].fragments_recv
  <1>1. left \in 0 .. n - 1
    BY LeftSendsToMe
  <1>2. Len(Ring(n, left, count)[k].pieces) = elements
    BY RingStepsFit
  <1>3. elements \in Nat
    <2> DEFINE b == (RingBlock(n, me, k) - 1 + n) % n
    <2>1. b \in 0 .. n - 1
      BY DEF RingBlock
    <2>2. elements = Len(RingPieces(n, count, b))
      BY DEF Ring, Step
    <2> HIDE DEF b, elements
    <2>0. n \in Nat \ {0} /\ count \div n \in Nat
      BY DivMod, n > 1
    <2>3. BlockSize(n, count, b) \in Nat
      BY <2>0, <2>1 DEF BlockSize
    <2>4. RingPieces(n, count, b) = Span(b * (count \div n) + Min({b, count % n}), BlockSize(n, count, b))
      BY DEF RingPieces, BlockSize
    <2>5. Len(RingPieces(n, count, b)) = BlockSize(n, count, b)
      BY <2>3, <2>4 DEF Span
    <2> QED BY <2>2, <2>3, <2>5
  <1> HIDE DEF left, elements
  <1>4. link[left][me] = link[me][left] /\ IsTransport(link[me][left])
    BY <1>1
  <1>5. elements * dt_len \in Nat
    BY <1>3
  <1>6. SendFragments(Thresholds(link[me][left]), elements * dt_len, dt_len) =
          RecvFragments(Thresholds(link[me][left]), elements * dt_len, dt_len)
    BY <1>4, <1>5, FragmentsAlike
  <1> QED BY <1>2, <1>4, <1>6 DEF left, elements
=============================================================================
