-------------------------------- MODULE Steps --------------------------------
(***************************************************************************)
(* The steps a plan is made of, and what the method of a step says about   *)
(* its sends and receives (src/builtin/ops/builtin_ops.c,                  *)
(* ucg_builtin_step_create).                                               *)
(***************************************************************************)
EXTENDS Integers, Sequences

Methods == {"SEND_TERMINAL", "RECV_TERMINAL", "REDUCE_TERMINAL", "REDUCE_WAYPOINT",
            "BCAST_WAYPOINT", "REDUCE_RECURSIVE", "REDUCE_SCATTER_RING",
            "ALLGATHER_RING", "REDUCE_SCATTER_RECURSIVE", "EXCHANGE"}

\* A step: its peers in the order of phase->multi_eps, the offsets of the
\* fragments it sends to each, how many it gets from each, and its index.
IsStep(st, Ranks, Offsets) ==
  /\ st.method \in Methods
  /\ st.eps \in Seq(Ranks) /\ st.eps # <<>>
  /\ st.method \in {"REDUCE_WAYPOINT", "BCAST_WAYPOINT"} => Len(st.eps) > 1
  /\ st.pieces \in Seq(Offsets) /\ st.pieces # <<>>
  /\ st.fragments_recv \in Nat \ {0}
  /\ st.step_idx \in 0 .. 255

IsR1S(st) == st.method = "BCAST_WAYPOINT"      \* RECV1_BEFORE_SEND
IsRS1(st) == st.method = "REDUCE_WAYPOINT"     \* RECV_BEFORE_SEND1
IsRecvOnly(st) == st.method \in {"RECV_TERMINAL", "REDUCE_TERMINAL"}
IsWaypoint(st) == IsR1S(st) \/ IsRS1(st)
IsRecv(st) == st.method # "SEND_TERMINAL" /\ ~ IsWaypoint(st)   \* RECV_AFTER_SEND
Reduces(st) == st.method \in {"REDUCE_TERMINAL", "REDUCE_WAYPOINT",
                              "REDUCE_RECURSIVE", "REDUCE_SCATTER_RING",
                              "REDUCE_SCATTER_RECURSIVE"}
Fragments(st) == Len(st.pieces)
RecvCount(st) == st.fragments_recv * Len(st.eps)
=============================================================================
