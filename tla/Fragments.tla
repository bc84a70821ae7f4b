------------------------------ MODULE Fragments ------------------------------
(***************************************************************************)
(* In how many messages a step's data goes out, and how many a step waits  *)
(* for (src/builtin/builtin.c for the thresholds of a transport,           *)
(* src/builtin/ops/builtin_ops.c for the numbers).  No message tells the   *)
(* number: sender and receiver compute it, each from thresholds of its own.*)
(*                                                                         *)
(* A transport has the largest active message of each kind (am_short,      *)
(* am_bcopy, am_zcopy), whether memory is registered with it (need_memh)   *)
(* and how much of it (max_reg).                                           *)
(***************************************************************************)
EXTENDS Integers

CONSTANTS
  ShortMaxTx,  \* SHORT_MAX_TX_SIZE
  BcopyMaxTx,  \* BCOPY_MAX_TX_SIZE
  SIZE_MAX     \* the largest size_t

HeaderSize == 8   \* sizeof(ucg_builtin_header_t)
Alignment == 16   \* DATATYPE_ALIGN
Aligned(x) == x - (x % Alignment)

\* The code asserts that a fragment is not empty: each kind of message has room
\* for something behind the header, but for short ones there need not be any.
Room(size) == size \in Nat /\ size >= Alignment

ASSUME FragmentsAssumption == Room(ShortMaxTx) /\ Room(BcopyMaxTx) /\ Room(SIZE_MAX)

IsTransport(t) ==
  /\ t.am_short \in Nat
  /\ t.am_short <= HeaderSize \/ Room(t.am_short - HeaderSize)
  /\ Room(t.am_bcopy - HeaderSize) /\ Room(t.am_zcopy - HeaderSize)
  /\ t.need_memh \in BOOLEAN /\ t.max_reg \in Nat

\* Thresholds of the connection to a member (ucg_builtin_set_phase_thresholds).
\* Lengths above bcopy_max go without a copy, if there is that.
Thresholds(t) ==
  LET short     == IF t.am_short < HeaderSize THEN 0 ELSE t.am_short - HeaderSize
      short_max == IF short = 0 THEN 0 ELSE ShortMaxTx
      bcopy     == t.am_bcopy - HeaderSize
      zcopy     == t.need_memh /\ t.max_reg # 0
  IN  [short_one |-> Aligned(IF short > short_max THEN short_max ELSE short),
       short_max |-> short_max,
       bcopy_one |-> Aligned(IF zcopy /\ bcopy > BcopyMaxTx THEN BcopyMaxTx ELSE bcopy),
       bcopy_max |-> IF zcopy THEN BcopyMaxTx ELSE SIZE_MAX,
       zcopy_one |-> Aligned(IF zcopy THEN t.am_zcopy - HeaderSize ELSE SIZE_MAX),
       max_reg   |-> IF t.need_memh THEN t.max_reg ELSE 0]

\* A fragment holds whole elements, unless one element is longer.
FragmentLength(one, dt_len) ==
  IF dt_len # 0 /\ dt_len <= one THEN one - (one % dt_len) ELSE one

\* Fragments of `length' bytes, the last one shorter.
Cut(length, one, dt_len) ==
  LET size == FragmentLength(one, dt_len)
  IN  length \div size + (IF length % size > 0 THEN 1 ELSE 0)

\* step->fragments (ucg_builtin_step_send_flags).
SendFragments(th, length, dt_len) ==
  IF length <= th.short_one /\ th.short_one # 0 THEN 1
  ELSE IF length <= th.short_max /\ th.short_max # 0 THEN Cut(length, th.short_one, dt_len)
  ELSE IF length > th.bcopy_max /\ length <= th.max_reg
    THEN IF length < th.zcopy_one THEN 1 ELSE Cut(length, th.zcopy_one, dt_len)
  ELSE IF length <= th.bcopy_one THEN 1 ELSE Cut(length, th.bcopy_one, dt_len)

\* step->fragments_recv (ucg_builtin_step_recv_flags).
RecvFragments(th, length, dt_len) ==
  IF length <= th.short_one THEN 1
  ELSE IF length <= th.short_max THEN Cut(length, th.short_one, dt_len)
  ELSE IF length > th.bcopy_max /\ length <= th.max_reg
    THEN IF length < th.zcopy_one THEN 1 ELSE Cut(length, th.zcopy_one, dt_len)
  ELSE IF length <= th.bcopy_one THEN 1 ELSE Cut(length, th.bcopy_one, dt_len)
=============================================================================
