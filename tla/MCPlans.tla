------------------------------- MODULE MCPlans -------------------------------
(***************************************************************************)
(* Placements and requests for PlanRun.                                    *)
(***************************************************************************)
EXTENDS PlanRun

CONSTANT MaxMembers

\* Blocks of every size; members dealt to nodes and sockets in turn; nodes and
\* sockets of different sizes; and processes that are not bound to a socket.
MCPlacements ==
  {Blocks(c[1], c[2], c[3]) : c \in
     {d \in (1 .. MaxMembers) \X {1, 2} \X (1 .. MaxMembers) :
        d[1] * d[2] * d[3] \in 2 .. MaxMembers}}
  \cup {Blocks(1, 1, 14), Blocks(2, 2, 6), Blocks(5, 1, 3)}
  \cup {DealtToNodes(2, 2), DealtToNodes(2, 3), DealtToNodes(3, 2), DealtToNodes(3, 4)}
  \cup {DealtToSockets(1, 2), DealtToSockets(2, 2), DealtToSockets(1, 3), DealtToSockets(3, 2)}
  \cup {UnevenNodes(s) : s \in {<<1, 2>>, <<3, 1>>, <<4, 2>>, <<2, 5>>, <<3, 4, 2>>, <<2, 2, 1, 1>>}}
  \cup {UnevenSockets(<<3, 1>>), UnevenSockets(<<2, 4>>)}
  \cup {Unbound(Blocks(2, 1, 2)), Unbound(Blocks(3, 1, 3)), Unbound(UnevenNodes(<<3, 1>>)),
        Unbound(DealtToNodes(2, 2)), Unbound(Blocks(1, 1, 5))}

Request(coll, algo, dt_len, count) ==
  [coll |-> coll, algo |-> algo, dt_len |-> dt_len, count |-> count,
   contig |-> TRUE, commutes |-> TRUE]

\* One size for each level of the tables.
Levels == {2^i : i \in 0 .. 19}

\* Every algorithm a configuration can name, and one it cannot; every size
\* without one; elements too long for some algorithms, not contiguous, or with
\* an operation that does not commute.
MCRequests ==
  {Request("barrier", a, 0, 0) : a \in 0 .. 11}
  \cup {Request("bcast", a, 4, 1) : a \in 1 .. 6}
  \cup {Request("bcast", 0, 4, c) : c \in Levels}
  \cup {Request("allreduce", 0, 4, c) : c \in Levels}
  \cup UNION {{Request("allreduce", a, 8, 1), Request("allreduce", a, 8, 5),
               Request("allreduce", a, 8, 13), Request("allreduce", a, 40, 1),
               Request("allreduce", a, 100, 1), Request("allreduce", a, 2000, 1),
               [Request("allreduce", a, 8, 2) EXCEPT !.contig = FALSE],
               [Request("allreduce", a, 8, 2) EXCEPT !.commutes = FALSE]} : a \in 1 .. 15}

MCDegrees == {[inter |-> 8, intra |-> 2], [inter |-> 2, intra |-> 3]}

\* Shared memory copies; the network sends longer short messages, shorter copied
\* ones, and messages above BCOPY_MAX_TX_SIZE from the caller's memory.
MCNear == [am_short |-> 100, am_bcopy |-> 8256, am_zcopy |-> 8256,
           need_memh |-> FALSE, max_reg |-> SIZE_MAX]
MCFar == [am_short |-> 186, am_bcopy |-> 2056, am_zcopy |-> 40000,
          need_memh |-> TRUE, max_reg |-> SIZE_MAX]

\* Elements that share a message with others, fill one, or need several.
MCLengths == {0, 1, 8, 24, 100, 700, 3000, 9000, 41000}

\* Allreduce by the algorithms that use trees.  Five members on a node are the
\* least whose binomial tree has two children the degree 3 does not know.
MCTreeRequests == {Request("allreduce", a, 8, 1) : a \in {2, 3, 5, 6, 7, 8}}
MCTreePlacements == {Blocks(1, 1, 5), Blocks(4, 1, 1), Blocks(2, 2, 2)}
=============================================================================
