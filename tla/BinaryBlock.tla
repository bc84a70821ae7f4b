----------------------------- MODULE BinaryBlock -----------------------------
(***************************************************************************)
(* Rabenseifner's allreduce over binary blocks                             *)
(* (src/builtin/plan/builtin_binary_block.c).  The n members are cut into  *)
(* groups whose sizes are the powers of two n is made of, the smallest     *)
(* first.  Each group scatters its reduction over its members; every group *)
(* passes its result to the next; the largest, with topology together with *)
(* its likes on the other sockets and nodes, has the whole of it; and the  *)
(* result takes the same way back.  As in Plans, an operator used nowhere  *)
(* is a plausible mistake in the code of the one below it.                 *)
(***************************************************************************)
EXTENDS Plans, Topology

\* The lowest and the highest bit of a number, and how many it has.
Low(x) == IF x = 0 THEN 0 ELSE Max({b \in {2^i : i \in 0 .. StepCount(x)} : x % b = 0})
High(x) == IF x = 0 THEN 0 ELSE Max({b \in {2^i : i \in 0 .. StepCount(x)} : b <= x})
Bits(x) == {b \in {2^i : i \in 0 .. StepCount(x)} : (x \div b) % 2 = 1}
BitCount(x) == Cardinality(Bits(x))

\* The bits of cnt up to the highest one of num.
LowAll(num, cnt) == cnt % (2 * High(num))

(***************************************************************************)
(* The groups around member x of n: its own, the one after it and the one  *)
(* before it.  There is none of size 0.                                    *)
(***************************************************************************)
CurrentGroup(x, n) ==
  LET ret == LowAll(x + 1, n)
  IN  IF x + 1 > ret THEN [begin |-> ret, size |-> Low(n - ret)]
                     ELSE [begin |-> ret - High(ret), size |-> High(ret)]

NextGroup(x, n) ==
  LET ret  == LowAll(x + 1, n)
      this == Low(n - ret)
      next == Low(n - ret - this)
  IN  IF x + 1 <= ret THEN [begin |-> ret, size |-> this]
      ELSE [begin |-> IF next = 0 THEN n ELSE n % next, size |-> next]

PreviousGroup(x, n) ==
  LET ret   == LowAll(x + 1, n)
      above == IF x + 1 > ret THEN ret ELSE ret - High(ret)
  IN  [begin |-> above - High(above), size |-> High(above)]

\* Groups before and after it, and the member of the group before that hands
\* over to x: x itself if there is none.
AheadCount(x, n) == BitCount(CurrentGroup(x, n).begin)
BehindCount(x, n) ==
  IF NextGroup(x, n).begin >= n THEN 0 ELSE BitCount(n - NextGroup(x, n).begin)

PeerAhead(x, n) ==
  LET prev == PreviousGroup(x, n)
  IN  IF prev.size = 0 THEN x ELSE prev.begin + ((x - prev.begin) % prev.size)

\* The block left to member g of a group in the end: its bits in reverse order.
RecvBlock(size, g) ==
  FoldLeft(LAMBDA sum, i : sum + ((g \div 2^(i - 1)) % 2) * (size \div 2^i), 0,
           [i \in 1 .. StepCount(size) |-> i])

-----------------------------------------------------------------------------
(***************************************************************************)
(* The blocks of the buffer's elements: one for each member of a group, the*)
(* blocks of a group cut further for the next one.                         *)
(***************************************************************************)
FloorSizes(count, k) == [i \in 1 .. k |-> count \div k]

BlockSizes(count, k) ==
  [i \in 1 .. k |-> count \div k + (IF i <= count % k THEN 1 ELSE 0)]

\* The sizes of the groups, ascending.
GroupSizes(n) == SelectSeq([i \in 1 .. StepCount(n) + 1 |-> 2^(i - 1)], LAMBDA b : b \in Bits(n))

BlocksOf(n, count, ahead) ==
  FoldLeft(LAMBDA blocks, size :
             FlattenSeq([i \in DOMAIN blocks |-> BlockSizes(blocks[i], size \div Len(blocks))]),
           <<count>>, SubSeq(GroupSizes(n), 1, ahead + 1))

\* The elements of `num' blocks from block `start' on.
Disp(blocks, k) == FoldLeft(+, 0, SubSeq(blocks, 1, k))
BlockPieces(blocks, start, num) ==
  Span(Disp(blocks, start), Disp(blocks, start + num) - Disp(blocks, start))

-----------------------------------------------------------------------------
\* Exchanges two pieces of the buffer, of sizes of their own.
Trade(method, peer, idx, sent, received) ==
  [Step(method, <<peer>>, idx, sent) EXCEPT !.fragments_recv = Len(received)]

PeerInBlock(g, size) == PeerIndex(g, StepCount(size))

\* Member g of its group keeps one half after the other of what is left, the
\* upper one if it is the higher of the pair (ucg_builtin_intra_reduce_scatter).
ReduceScatter(x, n, base, count) ==
  LET cur    == CurrentGroup(x, n)
      g      == x - cur.begin
      blocks == BlocksOf(n, count, AheadCount(x, n))
      Half(i) == (cur.size \div 2) \div 2^i
      Start(i) == RecvBlock(cur.size, g % 2^i)
      Piece(i, upper) ==
        BlockPieces(blocks, Start(i) + (IF upper THEN Half(i) ELSE 0), Half(i))
  IN  [k \in 1 .. StepCount(cur.size) |->
         LET peer == PeerInBlock(g, 2^(k - 1))
         IN  Trade("REDUCE_SCATTER_RECURSIVE", cur.begin + peer, base + k - 1,
                   Piece(k - 1, g < peer), Piece(k - 1, g > peer))]

\* Its own block, and the parts of it that go to and come from the members of
\* the next group it hands over to.
OwnPieces(x, n, count) ==
  BlockPieces(BlocksOf(n, count, AheadCount(x, n)),
              RecvBlock(CurrentGroup(x, n).size, x - CurrentGroup(x, n).begin), 1)

PartFor(x, n, count, k) ==
  LET cur  == CurrentGroup(x, n)
      eps  == NextGroup(x, n).size \div cur.size
      from == RecvBlock(cur.size, x - cur.begin) * eps
  IN  BlockPieces(BlocksOf(n, count, AheadCount(x, n) + 1), from + k - 1, 1)

HandedTo(x, n) ==
  LET cur == CurrentGroup(x, n)
      eps == NextGroup(x, n).size \div cur.size
  IN  [k \in 1 .. eps |->
         NextGroup(x, n).begin + x - cur.begin + RecvBlock(eps, k - 1) * cur.size]

\* From the group before, then to the next one (ucg_builtin_intra_extra_reduction).
ExtraReduction(x, n, base, count) ==
  LET ahead   == AheadCount(x, n)
      receive == IF PeerAhead(x, n) = x THEN <<>>
                 ELSE <<Step("REDUCE_TERMINAL", <<PeerAhead(x, n)>>, base + ahead - 1,
                             OwnPieces(x, n, count))>>
  IN  receive \o [k \in DOMAIN HandedTo(x, n) |->
                    Step("SEND_TERMINAL", <<HandedTo(x, n)[k]>>, base + ahead,
                         PartFor(x, n, count, k))]

\* And back: from the next group, then to the one before
\* (ucg_builtin_intra_bcast).
ExtraBcast(x, n, base, count) ==
  LET behind == BehindCount(x, n)
      send   == IF PeerAhead(x, n) = x THEN <<>>
                ELSE <<Step("SEND_TERMINAL", <<PeerAhead(x, n)>>, base + behind,
                            OwnPieces(x, n, count))>>
  IN  [k \in DOMAIN HandedTo(x, n) |->
         Step("RECV_TERMINAL", <<HandedTo(x, n)[k]>>, base + behind - 1,
              PartFor(x, n, count, k))] \o send

\* The members of the group collect all blocks (ucg_builtin_intra_allgather).
Allgather(x, n, base, count) ==
  LET cur    == CurrentGroup(x, n)
      g      == x - cur.begin
      blocks == BlocksOf(n, count, AheadCount(x, n))
      own    == RecvBlock(cur.size, g)
  IN  [k \in 1 .. StepCount(cur.size) |->
         LET num   == 2^(k - 1)
             peer  == PeerInBlock(g, (cur.size \div 2) \div num)
             start == own - (own % num)
         IN  Trade("EXCHANGE", cur.begin + peer, base + k - 1,
                   BlockPieces(blocks, start, num),
                   BlockPieces(blocks, IF g < peer THEN start + num ELSE start - num, num))]

-----------------------------------------------------------------------------
Scattering(n) == StepCount(High(n))
Handing(n) == BitCount(n) - 1

\* Parts 1 and 2, and 5 and 6, of the plan of member x.
WayIn(x, n, count) ==
  ReduceScatter(x, n, 0, count) \o ExtraReduction(x, n, Scattering(n), count)
WayBack(x, n, base, count) ==
  ExtraBcast(x, n, base, count) \o Allgather(x, n, base + Handing(n), count)

\* Without topology (ucg_builtin_binary_block_build).
BinaryBlocks(n, me, count) ==
  WayIn(me, n, count) \o WayBack(me, n, Scattering(n) + Handing(n), count)

\* With it, each node or socket is cut into groups of its own.  Members of the
\* largest ones then reduce their block with their likes on the other sockets
\* of the node, then on the other nodes
\* (ucg_builtin_topo_aware_binary_block_build).
AmongLikes(list, base, me, pieces) ==
  IF Len(list) = 1 THEN <<>>
  ELSE On(list, base, BinaryRecursive(Len(list), IndexIn(list, me), pieces))

TopoBinaryBlocks(p, level, me, count) ==
  LET mates   == IF level = "NODE" THEN NodeMates(p, me) ELSE SocketMates(p, me)
      n       == Cardinality(mates)
      x       == me - Min(mates)
      shift   == me - Min(NodeMates(p, me))
      local   == [i \in 1 .. n |-> me - x + i - 1]
      own     == OwnPieces(x, n, count)
      sockets == IF level = "SOCKET" THEN socket_leaders(p, me) ELSE <<me>>
      nodes   == [i \in DOMAIN node_leaders(p) |-> node_leaders(p)[i] + shift]
      in      == Scattering(n) + Handing(n)
      inside  == IF level = "SOCKET" THEN in + Len(sockets) ELSE in
      likes   == IF NextGroup(x, n).begin # n THEN <<>>
                 ELSE AmongLikes(sockets, in, me, own) \o AmongLikes(nodes, inside, me, own)
  IN  On(local, 0, WayIn(x, n, count)) \o likes
        \o On(local, 0, WayBack(x, n, inside + node_cnt(p), count))
=============================================================================
