------------------------------- MODULE DataFlow -------------------------------
(***************************************************************************)
(* What the steps of a group's members hand to each other, told from the   *)
(* plans alone: which message arrives at which step, and with whose data.  *)
(* A plan whose data flow fits is one the engine carries out exactly: the  *)
(* proofs about the engine assume no more of a plan than this, and it can  *)
(* be evaluated for the plans of any algorithm.                            *)
(*                                                                         *)
(* P is what StepEngine calls Plan.  W tells whose data a member's buffer  *)
(* is about: W[r][i][off] when member r comes to its i-th step, and, for i *)
(* past the last step, when it is through.                                 *)
(***************************************************************************)
EXTENDS Integers, Sequences, FiniteSets, Steps

IsSendOnly(st) == st.method = "SEND_TERMINAL"
IsRing(st) == st.method \in {"REDUCE_SCATTER_RING", "ALLGATHER_RING"}

\* Positions a step sends from and up to: iter_ep and iter_offset of
\* ucg_builtin_step_execute, a waypoint's first half left out.
First(st) ==
  IF IsR1S(st) THEN Fragments(st)
  ELSE IF IsRS1(st) THEN (Len(st.eps) - 1) * Fragments(st) ELSE 0
End(st) == Fragments(st) * Len(st.eps)
Positions(st) == IF IsRecvOnly(st) THEN {} ELSE First(st) .. End(st) - 1

\* Messages a step is to get.
WaitsFor(st) ==
  IF IsSendOnly(st) THEN 0
  ELSE IF IsR1S(st) THEN st.fragments_recv
  ELSE IF IsRS1(st) THEN st.fragments_recv * (Len(st.eps) - 1)
  ELSE RecvCount(st)

-----------------------------------------------------------------------------
\* A post is a message of one collective: who sends it, in which step, and at
\* which position of the step.
PostsOf(P, q, i) == {[from |-> q, step |-> i, pos |-> x] : x \in Positions(P[q][i])}

Posts(P) == UNION {UNION {PostsOf(P, q, i) : i \in DOMAIN P[q]} : q \in DOMAIN P}

StepOf(P, a) == P[a.from][a.step]
Dest(P, a) == StepOf(P, a).eps[(a.pos \div Fragments(StepOf(P, a))) + 1]
Place(P, a) == StepOf(P, a).pieces[(a.pos % Fragments(StepOf(P, a))) + 1]
Index(P, a) == StepOf(P, a).step_idx

\* What comes to member r for its i-th step.
Arrivals(P, r, i) ==
  {a \in Posts(P) : Dest(P, a) = r /\ Index(P, a) = P[r][i].step_idx}

\* A waypoint sends on what it has got.
Carried(P, W, a) ==
  W[a.from][IF IsWaypoint(StepOf(P, a)) THEN a.step + 1 ELSE a.step][Place(P, a)]

-----------------------------------------------------------------------------
\* Every step gets as many messages as it waits for.
CountsFit(P) ==
  \A r \in DOMAIN P : \A i \in DOMAIN P[r] : LET st == P[r][i] IN
    /\ IsFiniteSet(Arrivals(P, r, i))
    /\ Cardinality(Arrivals(P, r, i)) = WaitsFor(st)
    /\ ~ IsRing(st) => st.fragments_recv = Fragments(st)

\* A header's ids tell the step a message is for, and the message.
IdsFit(P) ==
  /\ \A r \in DOMAIN P : \A i, j \in DOMAIN P[r] :
       P[r][i].step_idx = P[r][j].step_idx /\ Arrivals(P, r, i) # {} => i = j
  /\ \A a, b \in Posts(P) :
       /\ a.from = b.from /\ Dest(P, a) = Dest(P, b)
       /\ Index(P, a) = Index(P, b) /\ Place(P, a) = Place(P, b)
       => a = b
  /\ \A a \in Posts(P) : /\ Dest(P, a) \in DOMAIN P
                         /\ \E i \in DOMAIN P[Dest(P, a)] : a \in Arrivals(P, Dest(P, a), i)

\* W is what the steps make of the buffers: it starts with a member's own data,
\* a step that reduces adds what it gets, others take it instead, and no
\* contribution is added twice.
Landing(P, r, i, off) == {a \in Arrivals(P, r, i) : Place(P, a) = off}

StepLabels(P, W, r, i, off) ==
  LET here == Landing(P, r, i, off)
  IN  IF Reduces(P[r][i])
        THEN /\ W[r][i + 1][off] = W[r][i][off] \cup UNION {Carried(P, W, a) : a \in here}
             /\ \A a \in here : Carried(P, W, a) \cap W[r][i][off] = {}
             /\ \A a, b \in here : a # b => Carried(P, W, a) \cap Carried(P, W, b) = {}
        ELSE /\ here = {} => W[r][i + 1][off] = W[r][i][off]
             /\ \A a \in here : W[r][i + 1][off] = Carried(P, W, a)

LabelsFit(P, W, Offs, sources, all) ==
  /\ \A r \in DOMAIN P, off \in Offs :
       /\ W[r][1][off] = IF r \in sources THEN {r} ELSE {}
       /\ W[r][Len(P[r]) + 1][off] = all
       /\ \A i \in DOMAIN P[r] : StepLabels(P, W, r, i, off)
  /\ \A a \in Posts(P) : Carried(P, W, a) # {}

-----------------------------------------------------------------------------
\* A post goes out after the sender's steps before its own; a waypoint's, after
\* what the step itself gets.
SentAfter(P, a, j) == j < a.step \/ (j = a.step /\ IsWaypoint(StepOf(P, a)))

\* No steps wait for each other in a circle: they have turns, and whatever comes
\* for a step is held up by steps of an earlier turn only.
TurnsFit(P, T) ==
  \A r \in DOMAIN P : \A i \in DOMAIN P[r] :
    /\ T[r][i] \in Nat
    /\ \A a \in Arrivals(P, r, i) : \A j \in DOMAIN P[a.from] :
         SentAfter(P, a, j) => T[a.from][j] < T[r][i]
=============================================================================
