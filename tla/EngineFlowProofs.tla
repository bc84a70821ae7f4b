--------------------------- MODULE EngineFlowProofs ---------------------------
(***************************************************************************)
(* The engine carries out exactly every plan whose data flow fits: whatever*)
(* the order of messages, completions and resends, a member that is through*)
(* with a collective holds the data of every member once, and nothing of   *)
(* another collective.                                                     *)
(***************************************************************************)
EXTENDS StepEngineProofs, PlansProofs

-----------------------------------------------------------------------------
(***************************************************************************)
(* The plans in question.  Everybody's data goes to everybody, so nobody   *)
(* gets a whole round of slots ahead of another member, and a collective's *)
(* id is free again before it comes back.                                  *)
(***************************************************************************)
LabelsOf(W) == LabelsFit(Plan, W, Offsets, Sources, Contributors)

FlowFits ==
  /\ DOMAIN Plan = Ranks /\ Contributors = Ranks /\ IdSpace >= 2 * Slots
  /\ OrderlyPlan /\ CountsFit(Plan) /\ IdsFit(Plan)
  /\ \E W : LabelsOf(W)

\* A send that is refused leaves its step with what tells which of its sends are
\* complete: a flag, if there are several fragments; else there must be nothing
\* to tell.
SendsCounted ==
  \A r \in MayBlock : \A i \in DOMAIN Plan[r] : LET st == Plan[r][i] IN
    Zcopy /\ ~ IsSendOnly(st) => Fragments(st) > 1 \/ End(st) - First(st) <= 1

\* Whose data a buffer holds.
Labels == CHOOSE W : LabelsOf(W)

-----------------------------------------------------------------------------
(***************************************************************************)
(* Messages told from posts.                                               *)
(***************************************************************************)
\* The message a post is sent as, in the k-th collective.
Msg(a, k) ==
  [from |-> a.from, to |-> Dest(Plan, a), coll_id |-> k % IdSpace,
   step_idx |-> Index(Plan, a), off |-> Place(Plan, a),
   data |-> SetToBag(Carried(Plan, Labels, a) \X {k})]

\* How far a step's sends have got: iter is rewound when all are out.
SentUpTo(r, sl) == IF sl.cb /\ It(sl) = 0 THEN End(StepAt(r, sl)) ELSE It(sl)

\* Post a of the collective in the slot is sent.
Through(sl, a) ==
  \/ ~ sl.busy
  \/ a.step < sl.step
  \/ a.step = sl.step /\ a.pos < SentUpTo(a.from, sl)

Posted(a, k) ==
  /\ next[a.from] > k
  /\ slot[a.from][k % Slots].run = k => Through(slot[a.from][k % Slots], a)

\* Messages sent and not yet given to a step.
MsgsOf(sl) == {sl.msgs[i] : i \in DOMAIN sl.msgs}
Stored == UNION {UNION {MsgsOf(slot[r][s]) : s \in SlotIds} : r \in Ranks}
Pool == net \cup pc.then \cup Stored

Messages(X, k) == {Msg(a, k) : a \in X}

Open(a, k) == ~ Posted(a, k) \/ Msg(a, k) \in Pool

\* What is still to come for each step of member r in the k-th collective.
Missing(r, k) == [i \in DOMAIN Plan[r] |-> {a \in Arrivals(Plan, r, i) : Open(a, k)}]
All(r) == [i \in DOMAIN Plan[r] |-> Arrivals(Plan, r, i)]
None(r) == [i \in DOMAIN Plan[r] |-> {}]

-----------------------------------------------------------------------------
(***************************************************************************)
(* The flow of data through a slot: MM tells what is missing for each of   *)
(* its collective's steps.                                                 *)
(***************************************************************************)
\* Whose data an offset of the buffer holds in step i while M is missing.
Held(r, i, off, M) ==
  LET got == Landing(Plan, r, i, off) \ M
  IN  IF Reduces(Plan[r][i])
        THEN Labels[r][i][off] \cup UNION {Carried(Plan, Labels, a) : a \in got}
        ELSE IF got = {} THEN Labels[r][i][off] ELSE Labels[r][i + 1][off]

Holds(r, sl, M) ==
  \A off \in Offsets : sl.buf[off] = SetToBag(Held(r, sl.step, off, M) \X {sl.run})

\* A step counts at least what is missing.
Counts(r, sl, at, M) ==
  LET st == StepAt(r, sl)
  IN  /\ ~ sl.cb => M = Arrivals(Plan, r, sl.step)
      /\ IsRecv(st) => Cardinality(M) <= sl.pending
      /\ IsR1S(st) => IF sl.recv_comp THEN M = {} ELSE sl.cb => Cardinality(M) <= sl.pending
      /\ IsRS1(st) /\ sl.cb => IF at = "execute" THEN M = {} ELSE Cardinality(M) <= sl.pending

\* What is waited for in sending.
SendsBalanced(st, sl) ==
  /\ IsZcopy(st) /\ ~ IsSendOnly(st) /\ ~ Flag(sl) => It(sl) = 0 \/ It(sl) = First(st)
  /\ IsZcopy(st) /\ (Flag(sl) \/ (IsSendOnly(st) /\ ~ sl.cb)) =>
       sl.pending = Owed(st) + sl.zcomps + (End(st) - It(sl))
  /\ ~ IsZcopy(st) /\ IsRecv(st) /\ ~ sl.cb => sl.pending = RecvCount(st)
  /\ IsZcopy(st) /\ (IsSendOnly(st) \/ (IsR1S(st) /\ sl.recv_comp)) /\ sl.cb /\ It(sl) = 0 =>
       sl.pending = sl.zcomps

\* A waiting step counts what is missing and what is not completed, no more.
Balanced(r, sl, at, M) ==
  LET st == StepAt(r, sl)
  IN  SendsCounted =>
        /\ SendsBalanced(st, sl)
        /\ sl.cb /\ at # "execute" /\ ~ IsSendOnly(st) /\ ~ (IsR1S(st) /\ sl.recv_comp) =>
             sl.pending = Cardinality(M) + sl.zcomps

SlotFlow(r, sl, at, MM) ==
  IF sl.busy
    THEN /\ \A i \in DOMAIN Plan[r] : i < sl.step => MM[i] = {}
         /\ \A i \in DOMAIN Plan[r] : i > sl.step => MM[i] = Arrivals(Plan, r, i)
         /\ MM[sl.step] \subseteq Arrivals(Plan, r, sl.step)
         /\ Counts(r, sl, at, MM[sl.step])
         /\ Balanced(r, sl, at, MM[sl.step])
         /\ Holds(r, sl, MM[sl.step])
    ELSE /\ \A i \in DOMAIN Plan[r] : MM[i] = {}
         /\ \A off \in Offsets : sl.buf[off] = SetToBag(Contributors \X {sl.run})

-----------------------------------------------------------------------------
(***************************************************************************)
(* The inductive invariant.                                                *)
(***************************************************************************)
\* A slot holds the last collective that was given to it.
RunsInv ==
  \A r \in Ranks, s \in SlotIds : LET sl == slot[r][s] IN
    IF next[r] <= s THEN ~ sl.busy
    ELSE /\ sl.run % Slots = s /\ sl.run < next[r] /\ next[r] <= sl.run + Slots
         /\ sl.coll_id = sl.run % IdSpace

\* Every message is that of a post.
GenuineInv ==
  \A m \in Pool : \E a \in Posts(Plan), k \in RunIds : Posted(a, k) /\ m = Msg(a, k)

\* No message is in two places, and the one to be delivered after a scan is for
\* the step.
StoredOnce(r, s) ==
  LET sl == slot[r][s]
  IN  /\ \A m \in MsgsOf(sl) : m.coll_id % Slots = s
      /\ \A i, j \in DOMAIN sl.msgs : sl.msgs[i] = sl.msgs[j] => i = j
      /\ net \cap MsgsOf(sl) = {} /\ pc.then \cap MsgsOf(sl) = {}

OnceInv ==
  /\ \A r \in Ranks, s \in SlotIds : StoredOnce(r, s)
  /\ net \cap pc.then = {}
  /\ \A m, n \in pc.then : m = n
  /\ \A m \in pc.then : Matches(pc.rank, slot[pc.rank][pc.slot], m)

\* A collective's steps get what they are to get, in the slot and once it is
\* through; nothing is taken before it has started.
ProgressInv ==
  \A r \in Ranks, k \in RunIds : LET s == k % Slots IN
    IF next[r] <= k THEN Missing(r, k) = All(r)
    ELSE IF slot[r][s].run # k THEN Missing(r, k) = None(r)
    ELSE SlotFlow(r, slot[r][s], Activation(r, s), Missing(r, k))

\* Data in a message or a buffer is that of members who have called the
\* collective.
Known == {x \in Ranks \X RunIds : next[x[1]] > x[2]}

KnownInv ==
  /\ \A m \in Pool : DOMAIN m.data \subseteq Known
  /\ \A r \in Ranks, s \in SlotIds :
       next[r] > s => \A off \in Offsets : DOMAIN slot[r][s].buf[off] \subseteq Known

\* Who is through with a collective knows that all have called it.
LeftInv ==
  \A r \in Ranks, k \in RunIds :
    next[r] > k /\ ~ (slot[r][k % Slots].busy /\ slot[r][k % Slots].run = k) =>
      \A q \in Ranks : next[q] > k

FlowInv == RunsInv /\ GenuineInv /\ OnceInv /\ ProgressInv /\ KnownInv /\ LeftInv

-----------------------------------------------------------------------------
(***************************************************************************)
(* Bags, sets and posts.                                                   *)
(***************************************************************************)
\* A bag of single things is told by what is in it.
LEMMA Bags ==
  /\ \A S : DOMAIN SetToBag(S) = S
  /\ \A S, T : SetToBag(S) = SetToBag(T) => S = T
  /\ SetToBag({}) = EmptyBag
  <1>1. \A S : DOMAIN SetToBag(S) = S
    BY DEF SetToBag
  <1> QED BY <1>1 DEF EmptyBag

\* Adding what is not there yet.
LEMMA DisjointSum ==
  ASSUME NEW S, NEW T, S \cap T = {}
  PROVE  SetToBag(S) (+) SetToBag(T) = SetToBag(S \cup T)
  <1> DEFINE B == SetToBag(S)
             C == SetToBag(T)
             u(e) == (IF e \in S THEN B[e] ELSE 0) + (IF e \in T THEN C[e] ELSE 0)
  <1>1. DOMAIN B = S /\ DOMAIN C = T
    BY DEF SetToBag
  <1>2. B (+) C = [e \in S \cup T |-> u(e)]
    BY <1>1 DEF (+)
  <1>3. ASSUME NEW e \in S \cup T PROVE u(e) = 1
    <2>1. e \in S => B[e] = 1
      BY DEF SetToBag
    <2>2. e \in T => C[e] = 1
      BY DEF SetToBag
    <2>3. e \in S => e \notin T
      OBVIOUS
    <2> HIDE DEF B, C
    <2> QED BY <1>3, <2>1, <2>2, <2>3
  <1> HIDE DEF u, B, C
  <1>4. SetToBag(S \cup T) = [e \in S \cup T |-> 1]
    BY DEF SetToBag
  <1> QED BY <1>2, <1>3, <1>4 DEF B, C

\* Pairs with the same collective keep sets apart, and tell them.
LEMMA Pairs ==
  ASSUME NEW k
  PROVE  /\ \A S, T : (S \cup T) \X {k} = (S \X {k}) \cup (T \X {k})
         /\ \A S, T : S \cap T = {} => (S \X {k}) \cap (T \X {k}) = {}
         /\ \A S, T : S \X {k} = T \X {k} => S = T
         /\ \A S : S # {} => S \X {k} # {}
         /\ {} \X {k} = {}
         /\ \A r : {r} \X {k} = {<<r, k>>}
  <1>1. \A S, T : S \X {k} = T \X {k} => S = T
    <2>1. SUFFICES ASSUME NEW S, NEW T, S \X {k} = T \X {k} PROVE S = T
      OBVIOUS
    <2>2. \A x : x \in S <=> <<x, k>> \in S \X {k}
      OBVIOUS
    <2>3. \A x : x \in T <=> <<x, k>> \in T \X {k}
      OBVIOUS
    <2> QED BY <2>1, <2>2, <2>3
  <1>2. \A S : S # {} => S \X {k} # {}
    <2>1. SUFFICES ASSUME NEW S, NEW x \in S PROVE S \X {k} # {}
      OBVIOUS
    <2>2. <<x, k>> \in S \X {k}
      OBVIOUS
    <2> QED BY <2>2
  <1> QED BY <1>1, <1>2

\* What a plan that fits is known to do.
LEMMA Fits ==
  ASSUME FlowFits
  PROVE  /\ DOMAIN Plan = Ranks /\ Contributors = Ranks /\ OrderlyPlan
         /\ Slots \in Nat \ {0} /\ IdSpace \in Nat \ {0} /\ IdSpace >= 2 * Slots
         /\ CountsFit(Plan) /\ IdsFit(Plan)
         /\ LabelsFit(Plan, Labels, Offsets, Sources, Ranks)
  <1>1. LabelsOf(Labels)
    BY DEF FlowFits, Labels
  <1> QED BY <1>1, EngineAssumption DEF FlowFits, LabelsOf

\* What a post is.
LEMMA PostIs ==
  ASSUME DOMAIN Plan = Ranks, NEW a
  PROVE  a \in Posts(Plan) <=>
           \E q \in Ranks : \E i \in DOMAIN Plan[q] : \E x \in Positions(Plan[q][i]) :
             a = [from |-> q, step |-> i, pos |-> x]
  BY DEF Posts, PostsOf

\* Steps are numbers.
LEMMA StepIsNat ==
  ASSUME NEW r \in Ranks, NEW i \in DOMAIN Plan[r]
  PROVE  i \in Nat
  BY PlanSteps

\* A post's step is one of its sender's, and its position is within the step.
LEMMA PostFacts ==
  ASSUME FlowFits, NEW a \in Posts(Plan)
  PROVE  /\ a.from \in Ranks /\ a.step \in DOMAIN Plan[a.from] /\ a.step \in Nat
         /\ StepOf(Plan, a) = Plan[a.from][a.step]
         /\ IsStep(StepOf(Plan, a), Ranks, Offsets)
         /\ a.pos \in Positions(StepOf(Plan, a)) /\ a.pos \in Nat
         /\ ~ IsRecvOnly(StepOf(Plan, a))
         /\ First(StepOf(Plan, a)) <= a.pos /\ a.pos < End(StepOf(Plan, a))
         /\ Dest(Plan, a) \in Ranks /\ Place(Plan, a) \in Offsets
         /\ Index(Plan, a) \in 0 .. 255
  <1>01. PICK q \in Ranks : \E i \in DOMAIN Plan[q] : \E x \in Positions(Plan[q][i]) :
          a = [from |-> q, step |-> i, pos |-> x]
    BY Fits, PostIs
  <1>02. PICK i \in DOMAIN Plan[q] : \E x \in Positions(Plan[q][i]) :
          a = [from |-> q, step |-> i, pos |-> x]
    BY <1>01
  <1>1. PICK x \in Positions(Plan[q][i]) : a = [from |-> q, step |-> i, pos |-> x]
    BY <1>02
  <1>2. a.from = q /\ a.step = i /\ a.pos = x /\ StepOf(Plan, a) = Plan[q][i]
    BY <1>1 DEF StepOf
  <1>3. i \in Nat /\ IsStep(Plan[q][i], Ranks, Offsets)
    BY PlanSteps
  <1> DEFINE st == Plan[q][i]
             f == Fragments(st)
  <1>4. First(st) \in Nat /\ End(st) \in Nat /\ f \in Nat \ {0} /\ Len(st.eps) \in Nat \ {0}
        /\ End(st) = f * Len(st.eps)
    BY <1>3, StepNumbers DEF End
  <1>5. ~ IsRecvOnly(st) /\ x \in First(st) .. End(st) - 1
    BY DEF Positions
  <1>6. x \in Nat /\ First(st) <= x /\ x < End(st)
    BY <1>4, <1>5
  <1>7. Place(Plan, a) \in Offsets
    <2>1. (x % f) + 1 \in 1 .. f
      <3> HIDE DEF st, f
      <3>1. x % f \in 0 .. f - 1
        <4>1. f \in Nat \ {0} /\ x \in Int
          BY <1>4, <1>6
        <4> QED BY <4>1, DivMod
      <3> QED BY <1>4, <3>1
    <2>2. st.pieces \in Seq(Offsets) /\ Len(st.pieces) = f
      BY <1>3 DEF IsStep, Fragments
    <2> HIDE DEF st, f
    <2>3. st.pieces[(x % f) + 1] \in Offsets
      BY <2>1, <2>2
    <2> QED BY <1>2, <2>3 DEF Place, st, f
  <1>9. Dest(Plan, a) \in Ranks
    BY Fits DEF IdsFit
  <1>10. Index(Plan, a) \in 0 .. 255
    BY <1>2, <1>3 DEF Index, IsStep
  <1> QED BY <1>2, <1>3, <1>5, <1>6, <1>7, <1>9, <1>10

\* A message tells the post and the collective.
LEMMA MsgInjective ==
  ASSUME FlowFits, NEW a \in Posts(Plan), NEW b \in Posts(Plan), NEW k, NEW l,
         Msg(a, k) = Msg(b, l)
  PROVE  a = b /\ k = l
  <1> DEFINE S == Carried(Plan, Labels, a)
             T == Carried(Plan, Labels, b)
  <1>1. /\ a.from = b.from /\ Dest(Plan, a) = Dest(Plan, b)
        /\ Index(Plan, a) = Index(Plan, b) /\ Place(Plan, a) = Place(Plan, b)
        /\ SetToBag(S \X {k}) = SetToBag(T \X {l})
    BY DEF Msg
  <1>2. a = b
    BY <1>1, Fits DEF IdsFit
  <1>3. S \X {k} = T \X {l}
    BY <1>1, Bags
  <1>4. PICK x \in S : TRUE
    BY Fits DEF LabelsFit
  <1> HIDE DEF S, T
  <1>5. <<x, k>> \in T \X {l}
    BY <1>3, <1>4
  <1> QED BY <1>2, <1>5

\* A step gets as many messages as it waits for.
LEMMA ArrivalFacts ==
  ASSUME FlowFits, NEW r \in Ranks, NEW i \in DOMAIN Plan[r]
  PROVE  /\ Arrivals(Plan, r, i) \subseteq Posts(Plan)
         /\ \A a \in Arrivals(Plan, r, i) :
              Dest(Plan, a) = r /\ Index(Plan, a) = Plan[r][i].step_idx
         /\ \A M \in SUBSET Arrivals(Plan, r, i) :
              /\ IsFiniteSet(M) /\ Cardinality(M) \in Nat
              /\ Cardinality(M) <= WaitsFor(Plan[r][i])
  <1> DEFINE A == Arrivals(Plan, r, i)
  <1>1. IsFiniteSet(A) /\ Cardinality(A) = WaitsFor(Plan[r][i])
    BY Fits DEF CountsFit
  <1>2. ASSUME NEW M \in SUBSET A
        PROVE  IsFiniteSet(M) /\ Cardinality(M) \in Nat /\ Cardinality(M) <= WaitsFor(Plan[r][i])
    <2>1. IsFiniteSet(M) /\ Cardinality(M) <= Cardinality(A)
      BY <1>1, FS_Subset
    <2> QED BY <1>1, <2>1, FS_CardinalityType
  <1> QED BY <1>2 DEF Arrivals

\* Nothing has come for a step: all it waits for is missing.
LEMMA AllMissing ==
  ASSUME FlowFits, NEW r \in Ranks, NEW i \in DOMAIN Plan[r]
  PROVE  Cardinality(Arrivals(Plan, r, i)) = WaitsFor(Plan[r][i])
  BY Fits DEF CountsFit

\* One of a set is taken.
LEMMA OneTaken ==
  ASSUME NEW M, IsFiniteSet(M), NEW b \in M
  PROVE  /\ IsFiniteSet(M \ {b}) /\ Cardinality(M) \in Nat /\ Cardinality(M) > 0
         /\ Cardinality(M \ {b}) = Cardinality(M) - 1
         /\ Cardinality(M) <= 1 => M \ {b} = {}
  <1>1. IsFiniteSet(M \ {b}) /\ Cardinality(M \ {b}) = Cardinality(M) - 1
    BY FS_RemoveElement
  <1>2. Cardinality(M) \in Nat /\ Cardinality(M \ {b}) \in Nat
    BY <1>1, FS_CardinalityType
  <1>3. Cardinality(M \ {b}) = 0 <=> M \ {b} = {}
    BY <1>1, FS_EmptySet
  <1> QED BY <1>1, <1>2, <1>3

\* What a buffer holds before anything has come, and when nothing is missing.
LEMMA HeldEnds ==
  ASSUME FlowFits, NEW r \in Ranks, NEW i \in DOMAIN Plan[r], NEW off \in Offsets
  PROVE  /\ Held(r, i, off, Arrivals(Plan, r, i)) = Labels[r][i][off]
         /\ Held(r, i, off, {}) = Labels[r][i + 1][off]
  <1> DEFINE here == Landing(Plan, r, i, off)
  <1>1. StepLabels(Plan, Labels, r, i, off)
    BY Fits DEF LabelsFit
  <1>2. here \ Arrivals(Plan, r, i) = {} /\ here \ {} = here
    BY DEF Landing
  <1>3. Held(r, i, off, Arrivals(Plan, r, i)) = Labels[r][i][off]
    BY <1>2 DEF Held
  <1>4. CASE Reduces(Plan[r][i])
    BY <1>1, <1>2, <1>3, <1>4 DEF Held, StepLabels
  <1>5. CASE ~ Reduces(Plan[r][i])
    <2>1. here = {} => Labels[r][i + 1][off] = Labels[r][i][off]
      BY <1>1, <1>5 DEF StepLabels
    <2>2. Held(r, i, off, {}) = IF here = {} THEN Labels[r][i][off] ELSE Labels[r][i + 1][off]
      BY <1>2, <1>5 DEF Held
    <2> QED BY <1>3, <2>1, <2>2
  <1> QED BY <1>4, <1>5

\* What a buffer holds when one more message has come.
LEMMA HeldMore ==
  ASSUME FlowFits, NEW r \in Ranks, NEW i \in DOMAIN Plan[r], NEW off \in Offsets,
         NEW M \in SUBSET Arrivals(Plan, r, i), NEW b \in M
  PROVE  /\ Place(Plan, b) # off => Held(r, i, off, M \ {b}) = Held(r, i, off, M)
         /\ Place(Plan, b) = off =>
              IF Reduces(Plan[r][i])
                THEN /\ Held(r, i, off, M \ {b}) = Held(r, i, off, M) \cup Carried(Plan, Labels, b)
                     /\ Held(r, i, off, M) \cap Carried(Plan, Labels, b) = {}
                ELSE Held(r, i, off, M \ {b}) = Carried(Plan, Labels, b)
  <1> DEFINE here == Landing(Plan, r, i, off)
             C(a) == Carried(Plan, Labels, a)
  <1>1. StepLabels(Plan, Labels, r, i, off)
    BY Fits DEF LabelsFit
  <1>2. Place(Plan, b) # off => here \ (M \ {b}) = here \ M
    BY DEF Landing
  <1>3. Place(Plan, b) = off =>
          b \in here /\ here \ (M \ {b}) = (here \ M) \cup {b} /\ b \notin here \ M
    BY DEF Landing
  <1>4. Place(Plan, b) # off => Held(r, i, off, M \ {b}) = Held(r, i, off, M)
    BY <1>2 DEF Held
  <1>5. ASSUME Place(Plan, b) = off, Reduces(Plan[r][i])
        PROVE  /\ Held(r, i, off, M \ {b}) = Held(r, i, off, M) \cup C(b)
               /\ Held(r, i, off, M) \cap C(b) = {}
    <2>1. Held(r, i, off, M) = Labels[r][i][off] \cup UNION {C(a) : a \in here \ M}
      BY <1>5 DEF Held
    <2>2. Held(r, i, off, M \ {b}) = Labels[r][i][off] \cup UNION {C(a) : a \in here \ (M \ {b})}
      BY <1>5 DEF Held
    <2>3. \A S, x : x \in UNION {C(a) : a \in S} <=> \E a \in S : x \in C(a)
      OBVIOUS
    <2>4. /\ \A a \in here : C(a) \cap Labels[r][i][off] = {}
          /\ \A a, c \in here : a # c => C(a) \cap C(c) = {}
      BY <1>1, <1>5 DEF StepLabels
    <2> HIDE DEF here, C
    <2>5. \A a \in here \ M : C(a) \cap C(b) = {}
      BY <1>3, <1>5, <2>4
    <2>6. C(b) \cap Labels[r][i][off] = {}
      BY <1>3, <1>5, <2>4
    <2> DEFINE old == UNION {C(a) : a \in here \ M}
               new == UNION {C(a) : a \in here \ (M \ {b})}
    <2>7. \A x : x \in new <=> x \in old \/ x \in C(b)
      BY <1>3, <1>5, <2>3
    <2>8. \A x \in old : x \notin C(b)
      BY <2>3, <2>5
    <2> HIDE DEF old, new
    <2>9. new = old \cup C(b) /\ old \cap C(b) = {}
      BY <2>7, <2>8
    <2>10. /\ Held(r, i, off, M) = Labels[r][i][off] \cup old
           /\ Held(r, i, off, M \ {b}) = Labels[r][i][off] \cup new
      BY <2>1, <2>2 DEF old, new
    <2> QED BY <2>6, <2>9, <2>10 DEF C
  <1>6. ASSUME Place(Plan, b) = off, ~ Reduces(Plan[r][i])
        PROVE  Held(r, i, off, M \ {b}) = C(b)
    <2>1. Labels[r][i + 1][off] = C(b)
      BY <1>1, <1>3, <1>6 DEF StepLabels
    <2>2. here \ (M \ {b}) # {}
      BY <1>3, <1>6
    <2> QED BY <1>6, <2>1, <2>2 DEF Held
  <1> QED BY <1>4, <1>5, <1>6

-----------------------------------------------------------------------------
(***************************************************************************)
(* What the activations do to the flow through a slot.                     *)
(***************************************************************************)
\* A message that lands brings its data into the buffer, once.
LEMMA LandHolds ==
  ASSUME FlowFits, NEW r \in Ranks, NEW sl \in SlotRecords(r),
         NEW M \in SUBSET Arrivals(Plan, r, sl.step), NEW b \in M, Holds(r, sl, M),
         NEW m \in Mail(r), m = Msg(b, sl.run)
  PROVE  LET got == Land(r, sl, m)
         IN  /\ \E buf \in [Offsets -> DataBags] : got = [sl EXCEPT !.buf = buf]
             /\ Holds(r, got, M \ {b})
             /\ \A off \in Offsets :
                  DOMAIN got.buf[off] \subseteq DOMAIN sl.buf[off] \cup DOMAIN m.data
  <1> DEFINE got == Land(r, sl, m)
             st  == StepAt(r, sl)
             k   == sl.run
             C   == Carried(Plan, Labels, b)
             H(off) == Held(r, sl.step, off, M)
             N(off) == Held(r, sl.step, off, M \ {b})
  <1>1. PICK buf \in [Offsets -> DataBags] : got = [sl EXCEPT !.buf = buf]
    BY LandKeeps
  <1>2. got.buf = buf /\ got.run = k /\ got.step = sl.step
    BY <1>1 DEF SlotRecords
  <1>3. sl.buf \in [Offsets -> DataBags] /\ st = Plan[r][sl.step] /\ sl.step \in DOMAIN Plan[r]
    BY RecordFields
  <1>4. m.off = Place(Plan, b) /\ m.data = SetToBag(C \X {k}) /\ m.off \in Offsets
    <2>1. b \in Posts(Plan)
      BY <1>3, ArrivalFacts
    <2> QED BY <2>1, PostFacts DEF Msg
  <1>5. buf = [sl.buf EXCEPT ![m.off] = IF Reduces(st) THEN sl.buf[m.off] (+) m.data ELSE m.data]
    <2>1. sl.buf = [o \in Offsets |-> sl.buf[o]]
      BY <1>3
    <2> QED BY <1>2, <1>3 DEF Land, SlotRecords
  <1>6. \A off \in Offsets : sl.buf[off] = SetToBag(H(off) \X {k})
    BY DEF Holds
  <1>7. ASSUME NEW off \in Offsets
        PROVE  /\ buf[off] = SetToBag(N(off) \X {k})
               /\ DOMAIN buf[off] \subseteq DOMAIN sl.buf[off] \cup DOMAIN m.data
    <2>1. CASE off # m.off
      <3>1. N(off) = H(off)
        BY <1>3, <1>4, <2>1, HeldMore
      <3>2. buf[off] = sl.buf[off]
        BY <1>3, <1>5, <2>1
      <3> QED BY <1>6, <3>1, <3>2
    <2>2. CASE off = m.off /\ Reduces(st)
      <3>1. N(off) = H(off) \cup C /\ H(off) \cap C = {}
        BY <1>3, <1>4, <2>2, HeldMore
      <3>2. buf[off] = SetToBag(H(off) \X {k}) (+) SetToBag(C \X {k})
        BY <1>3, <1>4, <1>5, <1>6, <2>2
      <3> HIDE DEF H, C, N, k
      <3>3. /\ (H(off) \X {k}) \cap (C \X {k}) = {}
            /\ (H(off) \cup C) \X {k} = (H(off) \X {k}) \cup (C \X {k})
        BY <3>1, Pairs
      <3>4. buf[off] = SetToBag((H(off) \X {k}) \cup (C \X {k}))
        BY <3>2, <3>3, DisjointSum
      <3>5. /\ buf[off] = SetToBag(N(off) \X {k})
        BY <3>1, <3>3, <3>4
      <3>6. DOMAIN buf[off] = DOMAIN sl.buf[off] \cup DOMAIN m.data
        <4>1. DOMAIN buf[off] = (H(off) \X {k}) \cup (C \X {k})
          BY <3>4, Bags
        <4>2. DOMAIN sl.buf[off] = H(off) \X {k} /\ DOMAIN m.data = C \X {k}
          BY <1>4, <1>6, Bags
        <4> QED BY <4>1, <4>2
      <3> QED BY <3>5, <3>6
    <2>3. CASE off = m.off /\ ~ Reduces(st)
      <3>1. N(off) = C
        <4>1. ~ Reduces(Plan[r][sl.step]) /\ Place(Plan, b) = off
          BY <1>3, <1>4, <2>3
        <4> QED BY <1>3, <4>1, HeldMore
      <3>2. buf[off] = m.data
        BY <1>3, <1>5, <2>3
      <3> QED BY <1>4, <3>1, <3>2
    <2> QED BY <2>1, <2>2, <2>3
  <1>8. Holds(r, got, M \ {b})
    BY <1>2, <1>7 DEF Holds
  <1> QED BY <1>1, <1>2, <1>7, <1>8

\* Sends do not get any further while a step stays as it is.
LEMMA ThroughSame ==
  ASSUME NEW r \in Ranks, NEW sl, NEW new, new.busy = sl.busy, new.step = sl.step,
         new.cb = sl.cb, new.iter = sl.iter, NEW a, a.from = r
  PROVE  Through(new, a) <=> Through(sl, a)
  BY DEF Through, SentUpTo, StepAt, It

\* A step that is about to be executed for the first time.
LEMMA FreshBalanced ==
  ASSUME OrderlyPlan, NEW r \in Ranks, NEW sl, sl.step \in DOMAIN Plan[r], ~ sl.cb,
         sl.zcomps = 0, sl.pending = RecvCount(StepAt(r, sl)), Rewound(r, sl, sl.step),
         NEW at, NEW M
  PROVE  Balanced(r, sl, at, M)
  <1> DEFINE st == StepAt(r, sl)
  <1>1. st = Plan[r][sl.step] /\ IsStep(st, Ranks, Offsets)
    BY PlanSteps DEF StepAt
  <1>2. /\ Fragments(st) \in Nat /\ Len(st.eps) \in Nat /\ st.fragments_recv \in Nat
        /\ RecvCount(st) = st.fragments_recv * Len(st.eps)
        /\ End(st) = Fragments(st) * Len(st.eps) /\ End(st) \in Nat
    <2>1. st.fragments_recv \in Nat
      BY <1>1 DEF IsStep
    <2> HIDE DEF st
    <2> QED BY <1>1, <2>1, StepNumbers DEF RecvCount, End
  <1>3. It(sl) = 0 /\ (IsZcopy(st) => ~ Flag(sl))
    BY <1>1 DEF Rewound, It, Flag
  <1>4. IsZcopy(st) /\ IsSendOnly(st) => sl.pending = Owed(st) + sl.zcomps + (End(st) - It(sl))
    <2>1. IsSendOnly(st) => Owed(st) = 0
      BY Kinds DEF Owed
    <2>2. IsZcopy(st) /\ IsSendOnly(st) => st.fragments_recv = Fragments(st)
      BY <1>1 DEF OrderlyPlan, IsZcopy
    <2>3. sl.pending = RecvCount(st)
      OBVIOUS
    <2> HIDE DEF st
    <2> QED BY <1>2, <1>3, <2>1, <2>2, <2>3
  <1>5. SendsBalanced(st, sl)
    BY <1>3, <1>4 DEF SendsBalanced
  <1> QED BY <1>5 DEF Balanced

\* A step that has got a message and sends nothing.
LEMMA CalledBalanced ==
  ASSUME NEW st, NEW sl, sl.cb, IsZcopy(st) => ~ Flag(sl), ~ IsSendOnly(st),
         It(sl) = 0 \/ It(sl) = First(st), IsR1S(st) /\ sl.recv_comp => It(sl) # 0
  PROVE  SendsBalanced(st, sl)
  BY DEF SendsBalanced

\* A step whose messages have all come hands its buffer to the next one, or to
\* the caller.
LEMMA CompleteFlow ==
  ASSUME FlowFits, NEW r \in Ranks, NEW sl \in SlotRecords(r), sl.busy, AllRewound(r, sl),
         sl.zcomps = 0, NEW MM, MM[sl.step] = {}, Holds(r, sl, {}),
         \A i \in DOMAIN Plan[r] : i < sl.step => MM[i] = {},
         \A i \in DOMAIN Plan[r] : i > sl.step => MM[i] = Arrivals(Plan, r, i)
  PROVE  LET new == CompleteStep(r, sl)
         IN  /\ SlotFlow(r, new, AfterStep(r, sl), MM)
             /\ new.run = sl.run /\ new.coll_id = sl.coll_id
             /\ new.msgs = sl.msgs /\ new.buf = sl.buf
             /\ \A a \in Posts(Plan) : a.from = r => (Through(new, a) <=> a.step <= sl.step)
  <1> DEFINE new == CompleteStep(r, sl)
             i   == sl.step
             k   == sl.run
             done == [sl EXCEPT !.cb = FALSE, !.busy = FALSE]
             on   == [sl EXCEPT !.cb = FALSE, !.step = @ + 1, !.recv_comp = FALSE,
                                !.pending = RecvCount(Plan[r][sl.step + 1])]
  <1>1. /\ i \in DOMAIN Plan[r] /\ i \in Nat /\ Len(Plan[r]) \in Nat
        /\ DOMAIN Plan[r] = 1 .. Len(Plan[r])
    BY RecordFields, PlanSteps
  <1>2. \A off \in Offsets : sl.buf[off] = SetToBag(Labels[r][i + 1][off] \X {k})
    <2>1. ASSUME NEW off \in Offsets PROVE sl.buf[off] = SetToBag(Labels[r][i + 1][off] \X {k})
      <3>1. sl.buf[off] = SetToBag(Held(r, i, off, {}) \X {k})
        BY DEF Holds
      <3>2. Held(r, i, off, {}) = Labels[r][i + 1][off]
        BY <1>1, HeldEnds
      <3> QED BY <3>1, <3>2
    <2> QED BY <2>1
  <1>3. CASE IsLast(r, sl)
    <2>1. new = done /\ AfterStep(r, sl) = "out" /\ i = Len(Plan[r])
      BY <1>3 DEF CompleteStep, AfterStep, IsLast
    <2>2. /\ done.run = k /\ done.coll_id = sl.coll_id /\ done.msgs = sl.msgs
          /\ done.buf = sl.buf /\ ~ done.busy
      BY DEF SlotRecords
    <2> HIDE DEF done, new
    <2>3. \A j \in DOMAIN Plan[r] : j = i \/ j < i
      BY <1>1, <2>1
    <2>4. \A j \in DOMAIN Plan[r] : MM[j] = {}
      BY <2>3
    <2>5. \A off \in Offsets : Labels[r][i + 1][off] = Ranks
      <3>1. \A off \in Offsets : Labels[r][Len(Plan[r]) + 1][off] = Ranks
        BY Fits DEF LabelsFit
      <3> HIDE DEF i
      <3> QED BY <2>1, <3>1
    <2>6. SlotFlow(r, new, "out", MM)
      BY <1>2, <2>1, <2>2, <2>4, <2>5, Fits DEF SlotFlow
    <2>7. ASSUME NEW a \in Posts(Plan), a.from = r PROVE Through(new, a) <=> a.step <= i
      <3>1. a.step \in 1 .. Len(Plan[r])
        BY <1>1, <2>7, PostFacts
      <3>2. Through(new, a)
        BY <2>1, <2>2 DEF Through
      <3> QED BY <1>1, <2>1, <3>1, <3>2
    <2> QED BY <2>1, <2>2, <2>6, <2>7 DEF new
  <1>4. CASE ~ IsLast(r, sl)
    <2>1. new = on /\ AfterStep(r, sl) = "execute"
      BY <1>4 DEF CompleteStep, AfterStep
    <2>2. i + 1 \in DOMAIN Plan[r]
      BY <1>1, <1>4 DEF IsLast
    <2>3. /\ on.run = k /\ on.coll_id = sl.coll_id /\ on.msgs = sl.msgs
          /\ on.buf = sl.buf /\ on.busy /\ ~ on.cb /\ on.step = i + 1 /\ ~ on.recv_comp
          /\ on.pending = RecvCount(Plan[r][i + 1]) /\ on.iter = sl.iter /\ on.zcomps = 0
          /\ on.num_store = sl.num_store /\ on.resend_flag = sl.resend_flag
      BY DEF SlotRecords
    <2> HIDE DEF on, new
    <2> DEFINE A == Arrivals(Plan, r, i + 1)
               st == Plan[r][i + 1]
    <2>4. MM[i + 1] = A /\ \A j \in DOMAIN Plan[r] : j < i + 1 => MM[j] = {}
      <3>1. i + 1 > i
        BY <1>1
      <3>2. \A j \in DOMAIN Plan[r] : j < i + 1 => j < i \/ j = i
        BY <1>1
      <3> QED BY <2>2, <3>1, <3>2
    <2>5. \A j \in DOMAIN Plan[r] : j > i + 1 => MM[j] = Arrivals(Plan, r, j)
      <3>1. \A j \in DOMAIN Plan[r] : j > i + 1 => j > i
        BY <1>1
      <3> QED BY <3>1
    <2>6. Counts(r, new, "execute", A)
      <3>1. IsRecv(st) => Cardinality(A) <= RecvCount(st)
        <4>1. Cardinality(A) <= WaitsFor(st)
          BY <2>2, ArrivalFacts
        <4>2. IsRecv(st) => WaitsFor(st) = RecvCount(st)
          BY Kinds DEF WaitsFor
        <4> QED BY <4>1, <4>2
      <3> QED BY <2>1, <2>3, <3>1 DEF Counts, StepAt
    <2>7. Holds(r, new, A)
      <3>1. \A off \in Offsets : Held(r, i + 1, off, A) = Labels[r][i + 1][off]
        BY <2>2, HeldEnds
      <3> QED BY <1>2, <2>1, <2>3, <3>1 DEF Holds
    <2>8. SlotFlow(r, new, "execute", MM)
      <3>1. Rewound(r, new, i + 1)
        BY <2>1, <2>2, <2>3 DEF AllRewound, Rewound
      <3>2. Balanced(r, new, "execute", A)
        BY <2>1, <2>2, <2>3, <3>1, Fits, FreshBalanced DEF StepAt
      <3> QED BY <2>1, <2>3, <2>4, <2>5, <2>6, <2>7, <3>2 DEF SlotFlow
    <2>9. ASSUME NEW a \in Posts(Plan), a.from = r PROVE Through(new, a) <=> a.step <= i
      <3>1. a.step \in Nat /\ a.pos \in Nat
        BY PostFacts
      <3>2. It(new) = 0
        BY <2>1, <2>2, <2>3 DEF AllRewound, Rewound, It
      <3>3. Through(new, a) <=> a.step < i + 1 \/ (a.step = i + 1 /\ a.pos < 0)
        BY <2>1, <2>3, <2>9, <3>2 DEF Through, SentUpTo
      <3> QED BY <1>1, <3>1, <3>3
    <2> QED BY <2>1, <2>3, <2>8, <2>9 DEF new
  <1> QED BY <1>3, <1>4

\* A step that has sent, or is about to, in the middle of its collective.
LEMMA StayFlow ==
  ASSUME NEW r \in Ranks, NEW sl, NEW new, NEW at, NEW MM,
         new.busy, new.step = sl.step, sl.step \in DOMAIN Plan[r],
         \A i \in DOMAIN Plan[r] : i < sl.step => MM[i] = {},
         \A i \in DOMAIN Plan[r] : i > sl.step => MM[i] = Arrivals(Plan, r, i),
         MM[sl.step] \subseteq Arrivals(Plan, r, sl.step),
         Counts(r, new, at, MM[sl.step]), Balanced(r, new, at, MM[sl.step]),
         Holds(r, new, MM[sl.step])
  PROVE  SlotFlow(r, new, at, MM)
  BY DEF SlotFlow

\* The flow looks at what is missing for the steps of the plan.
LEMMA SameFlow ==
  ASSUME NEW r, NEW sl, sl.step \in DOMAIN Plan[r], NEW at, NEW MM, NEW NN,
         \A i \in DOMAIN Plan[r] : NN[i] = MM[i], SlotFlow(r, sl, at, MM)
  PROVE  SlotFlow(r, sl, at, NN)
  BY DEF SlotFlow

\* It does not look at the messages stored.
LEMMA LikeFlow ==
  ASSUME NEW r, NEW sl, NEW new, NEW at, NEW MM, SlotFlow(r, sl, at, MM),
         new.run = sl.run, new.busy = sl.busy, new.cb = sl.cb, new.step = sl.step,
         new.pending = sl.pending, new.recv_comp = sl.recv_comp, new.buf = sl.buf,
         new.zcomps = sl.zcomps, new.iter = sl.iter, new.resend_flag = sl.resend_flag
  PROVE  SlotFlow(r, new, at, MM)
  <1>1. ASSUME NEW M, Balanced(r, sl, at, M) PROVE Balanced(r, new, at, M)
    BY <1>1 DEF Balanced, SendsBalanced, StepAt, It, Flag
  <1>2. ASSUME NEW M, Counts(r, sl, at, M) PROVE Counts(r, new, at, M)
    BY <1>2 DEF Counts, StepAt
  <1>3. ASSUME NEW M, Holds(r, sl, M) PROVE Holds(r, new, M)
    BY <1>3 DEF Holds
  <1> QED BY <1>1, <1>2, <1>3 DEF SlotFlow

\* Post b comes to step i.
Takes(r, i, b, MM, less) ==
  \A j \in DOMAIN Plan[r] : less[j] = IF j = i THEN MM[j] \ {b} ELSE MM[j]

\* Message m moves the step on to res, or leaves it waiting for what is less.
Goes(r, sl, m, res, less) ==
  /\ res.slot.run = sl.run /\ res.slot.coll_id = sl.coll_id /\ res.slot.msgs = sl.msgs
  /\ \A off \in Offsets :
       DOMAIN res.slot.buf[off] \subseteq DOMAIN sl.buf[off] \cup DOMAIN m.data
  /\ \A a \in Posts(Plan) : a.from = r => (Through(res.slot, a) <=> Through(sl, a))
  /\ res.at = "more" => /\ res.slot.step = sl.step
                        /\ \A to : to # "execute" => SlotFlow(r, res.slot, to, less)
  /\ res.at # "more" => less[sl.step] = {} /\ SlotFlow(r, res.slot, res.at, less)

\* A message that comes is one of those missing; when the step goes on, it was
\* the last of them.
LEMMA CallbackFlow ==
  ASSUME FlowFits, NEW r \in Ranks, NEW sl \in SlotRecords(r), Scanning(r, sl),
         NEW at, at # "execute", NEW MM, SlotFlow(r, sl, at, MM),
         NEW b, b \in MM[sl.step], NEW m \in Mail(r), m = Msg(b, sl.run),
         NEW less, Takes(r, sl.step, b, MM, less)
  PROVE  Goes(r, sl, m, Callback(r, sl, m), less)
  <1> DEFINE st   == StepAt(r, sl)
             M    == MM[sl.step]
             N    == M \ {b}
             A    == Arrivals(Plan, r, sl.step)
             got  == Land(r, sl, m)
             one  == [got EXCEPT !.recv_comp = IF IsR1S(st) THEN TRUE ELSE @]
             many == [got EXCEPT !.pending = @ - 1,
                                 !.recv_comp = IF IsR1S(st) /\ sl.pending = 1 THEN TRUE ELSE @]
             res  == Callback(r, sl, m)
  <1>1. /\ IsR1S(st) /\ Fragments(st) = 1 => res = [slot |-> one, at |-> "execute"]
        /\ ~ (IsR1S(st) /\ Fragments(st) = 1) /\ ~ IsWaypoint(st) /\ OneMessage(st) =>
             res = [slot |-> CompleteStep(r, got), at |-> AfterStep(r, got)]
        /\ ~ (IsR1S(st) /\ Fragments(st) = 1) /\ ~ (~ IsWaypoint(st) /\ OneMessage(st)) =>
             res = IF many.pending # 0 THEN [slot |-> many, at |-> "more"]
                   ELSE IF IsWaypoint(st) THEN [slot |-> many, at |-> "execute"]
                   ELSE [slot |-> CompleteStep(r, many), at |-> AfterStep(r, many)]
    <2>1. IsR1S(st) => IsWaypoint(st)
      BY Kinds DEF st
    <2> QED BY <2>1 DEF Callback
  <1>2. /\ sl.busy /\ sl.cb /\ sl.pending \in Nat /\ sl.pending > 0
        /\ Num(sl) = 0 /\ OthersRewound(r, sl) /\ (IsZcopy(st) => ~ Flag(sl))
        /\ IsR1S(st) => ~ sl.recv_comp
        /\ IsRecv(st) => sl.zcomps = 0
        /\ sl.step \in DOMAIN Plan[r] /\ st = Plan[r][sl.step] /\ IsStep(st, Ranks, Offsets)
    BY RecordFields DEF Scanning, Waiting, st
  <1>3. /\ \A i \in DOMAIN Plan[r] : i < sl.step => MM[i] = {}
        /\ \A i \in DOMAIN Plan[r] : i > sl.step => MM[i] = Arrivals(Plan, r, i)
        /\ M \in SUBSET A /\ Counts(r, sl, at, M) /\ Balanced(r, sl, at, M) /\ Holds(r, sl, M)
    BY <1>2 DEF SlotFlow
  <1>4. /\ \A i \in DOMAIN Plan[r] : i < sl.step => less[i] = {}
        /\ \A i \in DOMAIN Plan[r] : i > sl.step => less[i] = Arrivals(Plan, r, i)
        /\ less[sl.step] = N /\ N \in SUBSET A
    <2>1. \A i \in DOMAIN Plan[r] : (i < sl.step \/ i > sl.step) => i # sl.step
      BY <1>2, PlanSteps
    <2> QED BY <1>2, <1>3, <2>1 DEF Takes
  <1>5. /\ IsFiniteSet(M) /\ Cardinality(M) \in Nat /\ Cardinality(M) <= WaitsFor(st)
        /\ Cardinality(M) > 0 /\ Cardinality(N) = Cardinality(M) - 1
        /\ Cardinality(M) <= 1 => N = {}
    <2>1. IsFiniteSet(M) /\ Cardinality(M) \in Nat /\ Cardinality(M) <= WaitsFor(st)
      BY <1>2, <1>3, ArrivalFacts
    <2> QED BY <2>1, OneTaken
  <1>6. ~ IsSendOnly(st)
    <2>1. IsSendOnly(st) => WaitsFor(st) = 0
      BY DEF WaitsFor
    <2> QED BY <1>5, <2>1
  <1>7. /\ IsWaypoint(st) \/ IsRecv(st)
        /\ IsWaypoint(st) => ~ IsRecv(st) /\ It(sl) = First(st)
        /\ ~ IsWaypoint(st) => It(sl) = 0
    <2>1. IsWaypoint(st) \/ IsRecv(st)
      BY <1>6, Kinds
    <2>2. IsWaypoint(st) => ~ IsRecv(st)
      BY Kinds
    <2>3. \/ AwaitsMessages(st, sl) \/ AwaitsSends(st, sl) \/ AwaitsFirstHalf(st, sl)
      BY DEF Scanning, Waiting, st
    <2> HIDE DEF st
    <2> QED BY <1>2, <1>6, <2>1, <2>2, <2>3 DEF AwaitsMessages, AwaitsSends, AwaitsFirstHalf
  <1>8. Cardinality(M) <= sl.pending
    BY <1>2, <1>3, <1>7, Kinds DEF Counts, st
  <1>9. PICK buf \in [Offsets -> DataBags] : got = [sl EXCEPT !.buf = buf]
    BY LandKeeps
  <1>10. /\ Holds(r, got, N)
         /\ \A off \in Offsets : DOMAIN got.buf[off] \subseteq DOMAIN sl.buf[off] \cup DOMAIN m.data
    BY <1>3, LandHolds
  <1>11. /\ got \in SlotRecords(r) /\ got.busy /\ got.cb
         /\ got.pending = sl.pending /\ got.step = sl.step /\ got.run = sl.run
         /\ got.coll_id = sl.coll_id /\ got.msgs = sl.msgs /\ got.recv_comp = sl.recv_comp
         /\ got.iter = sl.iter /\ got.num_store = sl.num_store /\ got.resend_flag = sl.resend_flag
         /\ got.zcomps = sl.zcomps
    <2> HIDE DEF st, got
    <2> QED BY <1>2, <1>9 DEF SlotRecords
  <1> HIDE DEF got
  <1>12. /\ one.busy /\ one.cb /\ one.step = sl.step /\ one.run = sl.run
         /\ one.coll_id = sl.coll_id /\ one.msgs = sl.msgs /\ one.buf = got.buf
         /\ one.iter = sl.iter /\ (IsR1S(st) => one.recv_comp)
         /\ one.resend_flag = sl.resend_flag
    <2> HIDE DEF st
    <2> QED BY <1>11 DEF SlotRecords
  <1>13. /\ many \in SlotRecords(r) /\ many.busy /\ many.cb
         /\ many.pending = sl.pending - 1 /\ many.step = sl.step /\ many.run = sl.run
         /\ many.coll_id = sl.coll_id /\ many.msgs = sl.msgs /\ many.buf = got.buf
         /\ many.recv_comp = (IF IsR1S(st) /\ sl.pending = 1 THEN TRUE ELSE sl.recv_comp)
         /\ many.iter = sl.iter /\ many.num_store = sl.num_store
         /\ many.resend_flag = sl.resend_flag /\ many.zcomps = sl.zcomps
    <2> HIDE DEF st
    <2>1. sl.pending - 1 \in Nat
      BY <1>2
    <2>2. many \in SlotRecords(r)
      BY <1>2, <1>11, <2>1 DEF SlotRecords
    <2>3. got \in SlotRecords(r) /\ got.pending = sl.pending
      BY <1>11
    <2>4. /\ many.busy = got.busy /\ many.cb = got.cb /\ many.pending = got.pending - 1
          /\ many.step = got.step /\ many.run = got.run /\ many.coll_id = got.coll_id
          /\ many.msgs = got.msgs /\ many.buf = got.buf
          /\ many.recv_comp = (IF IsR1S(st) /\ got.pending = 1 THEN TRUE ELSE got.recv_comp)
          /\ many.iter = got.iter /\ many.num_store = got.num_store
          /\ many.resend_flag = got.resend_flag /\ many.zcomps = got.zcomps
      BY <2>3 DEF SlotRecords
    <2> HIDE DEF many
    <2> QED BY ONLY <1>11, <2>2, <2>4
  <1> HIDE DEF one, many
  <1>14. Holds(r, one, N) /\ Holds(r, many, N)
    <2> HIDE DEF N, st
    <2> QED BY <1>10, <1>11, <1>12, <1>13 DEF Holds
  <1>15. StepAt(r, got) = st /\ StepAt(r, one) = st /\ StepAt(r, many) = st
    BY <1>11, <1>12, <1>13 DEF StepAt, st
  <1>16. /\ \A a \in Posts(Plan) : a.from = r =>
              /\ Through(one, a) <=> Through(sl, a)
              /\ Through(many, a) <=> Through(sl, a)
    BY <1>2, <1>12, <1>13, ThroughSame
  <1>17. ASSUME ~ IsWaypoint(st)
         PROVE  /\ AllRewound(r, got) /\ AllRewound(r, many)
                /\ \A a \in Posts(Plan) : a.from = r => (Through(sl, a) <=> a.step <= sl.step)
    <2>1. Rewound(r, sl, sl.step)
      BY <1>2, <1>7, <1>17 DEF Rewound, It, Num, Flag
    <2>2. \A i \in DOMAIN Plan[r] : Rewound(r, sl, i)
      BY <1>2, <2>1 DEF OthersRewound
    <2>3. AllRewound(r, got) /\ AllRewound(r, many)
      BY <1>11, <1>13, <2>2 DEF AllRewound, Rewound
    <2>4. ASSUME NEW a \in Posts(Plan), a.from = r PROVE Through(sl, a) <=> a.step <= sl.step
      <3>1. SentUpTo(r, sl) = End(st)
        BY <1>2, <1>7, <1>17 DEF SentUpTo, st
      <3>2. a.step \in Nat /\ sl.step \in Nat
        BY <1>2, PostFacts, PlanSteps
      <3>3. a.step = sl.step => a.pos < End(st)
        BY <1>2, <2>4, PostFacts
      <3> HIDE DEF st
      <3> QED BY <1>2, <2>4, <3>1, <3>2, <3>3 DEF Through
    <2> QED BY <2>3, <2>4
  <1>24. ASSUME NEW new, new.cb, new.step = sl.step, new.iter = sl.iter,
                new.resend_flag = sl.resend_flag, NEW X,
                ~ (IsR1S(st) /\ new.recv_comp) \/ IsWaypoint(st)
         PROVE  Balanced(r, new, "execute", X) /\ SendsBalanced(st, new)
    <2>1. It(new) = It(sl) /\ Flag(new) = Flag(sl) /\ StepAt(r, new) = st
      BY <1>24 DEF It, Flag, StepAt, st
    <2>2. IsR1S(st) => First(st) # 0
      <3>1. Fragments(st) # 0
        BY <1>2, StepNumbers
      <3> QED BY <3>1 DEF First
    <2>3. SendsBalanced(st, new)
      <3>1. IsR1S(st) => IsWaypoint(st)
        BY Kinds DEF st
      <3> HIDE DEF st
      <3> QED BY <1>2, <1>6, <1>7, <1>24, <2>1, <2>2, <3>1, CalledBalanced
    <2> QED BY <2>1, <2>3 DEF Balanced
  <1>18. ASSUME NEW new \in SlotRecords(r), new.busy, AllRewound(r, new), Holds(r, new, N),
                new.zcomps = 0,
                new.step = sl.step, new.run = sl.run, new.coll_id = sl.coll_id,
                new.msgs = sl.msgs, new.buf = got.buf, ~ IsWaypoint(st), N = {},
                res = [slot |-> CompleteStep(r, new), at |-> AfterStep(r, new)]
         PROVE  /\ res.slot.run = sl.run /\ res.slot.coll_id = sl.coll_id
                /\ res.slot.msgs = sl.msgs /\ res.slot.buf = got.buf
                /\ \A a \in Posts(Plan) : a.from = r => (Through(res.slot, a) <=> Through(sl, a))
                /\ SlotFlow(r, res.slot, res.at, less) /\ res.at # "more"
    <2> HIDE DEF res, N
    <2>1. less[new.step] = {} /\ Holds(r, new, {})
      BY <1>4, <1>18
    <2>2. /\ SlotFlow(r, CompleteStep(r, new), AfterStep(r, new), less)
          /\ CompleteStep(r, new).run = new.run /\ CompleteStep(r, new).coll_id = new.coll_id
          /\ CompleteStep(r, new).msgs = new.msgs /\ CompleteStep(r, new).buf = new.buf
          /\ \A a \in Posts(Plan) : a.from = r =>
               (Through(CompleteStep(r, new), a) <=> a.step <= new.step)
      BY <1>4, <1>18, <2>1, CompleteFlow
    <2>3. AfterStep(r, new) # "more"
      BY DEF AfterStep
    <2> QED BY <1>17, <1>18, <2>2, <2>3
  <1> DEFINE Goal ==
        /\ res.slot.run = sl.run /\ res.slot.coll_id = sl.coll_id
        /\ res.slot.msgs = sl.msgs /\ res.slot.buf = got.buf
        /\ \A a \in Posts(Plan) : a.from = r => (Through(res.slot, a) <=> Through(sl, a))
        /\ res.at = "more" => /\ res.slot.step = sl.step
                              /\ \A to : to # "execute" => SlotFlow(r, res.slot, to, less)
        /\ res.at # "more" => less[sl.step] = {} /\ SlotFlow(r, res.slot, res.at, less)
  <1>19. ASSUME IsR1S(st), Fragments(st) = 1 PROVE Goal
    <2>1. N = {}
      <3>1. WaitsFor(st) = 1
        <4>1. ~ IsRing(st) /\ ~ IsSendOnly(st)
          BY <1>19 DEF IsRing, IsR1S, IsSendOnly
        <4>2. ~ IsRing(st) => st.fragments_recv = Fragments(st)
          BY <1>2, Fits DEF CountsFit
        <4> QED BY <1>19, <4>1, <4>2 DEF WaitsFor
      <3> QED BY <1>5, <3>1
    <2>2. res.slot = one /\ res.at = "execute"
      BY <1>1, <1>19
    <2>3. Counts(r, one, "execute", N)
      BY <1>12, <1>15, <1>19, <2>1, Kinds DEF Counts
    <2>4. SlotFlow(r, one, "execute", less)
      <3> HIDE DEF N
      <3>1. IsWaypoint(st)
        BY <1>19 DEF IsWaypoint
      <3>2. Balanced(r, one, "execute", N)
        BY <1>12, <1>24, <3>1
      <3> QED BY <1>2, <1>4, <1>12, <1>14, <2>3, <3>2, StayFlow
    <2> QED BY <1>4, <1>12, <1>16, <2>1, <2>2, <2>4
  <1>20. ASSUME ~ (IsR1S(st) /\ Fragments(st) = 1), ~ IsWaypoint(st), OneMessage(st) PROVE Goal
    <2>1. N = {}
      <3>1. WaitsFor(st) = 1
        <4>1. ~ IsRing(st) /\ Len(st.eps) = 1 /\ Fragments(st) = 1
          BY <1>20 DEF OneMessage, IsRing
        <4>2. ~ IsRing(st) => st.fragments_recv = Fragments(st)
          BY <1>2, Fits DEF CountsFit
        <4>3. WaitsFor(st) = RecvCount(st)
          BY <1>6, <1>20, Kinds DEF WaitsFor
        <4> QED BY <4>1, <4>2, <4>3 DEF RecvCount
      <3> QED BY <1>5, <3>1
    <2>2. res = [slot |-> CompleteStep(r, got), at |-> AfterStep(r, got)]
      BY <1>1, <1>20
    <2> QED BY <1>2, <1>4, <1>7, <1>10, <1>11, <1>17, <1>18, <1>20, <2>1, <2>2
  <1>21. ASSUME ~ (IsR1S(st) /\ Fragments(st) = 1), ~ (~ IsWaypoint(st) /\ OneMessage(st)),
                many.pending # 0
         PROVE  Goal
    <2>1. res.slot = many /\ res.at = "more"
      BY <1>1, <1>21
    <2>2. Cardinality(N) <= many.pending
      BY <1>2, <1>5, <1>8, <1>13
    <2>3. IsR1S(st) => ~ many.recv_comp
      BY <1>2, <1>13, <1>21
    <2>4. ASSUME NEW to, to # "execute" PROVE SlotFlow(r, many, to, less)
      <3>1. Counts(r, many, to, N)
        BY <1>13, <1>15, <2>2, <2>3, <2>4 DEF Counts
      <3>2. Balanced(r, many, to, N)
        <4>1. SendsBalanced(st, many)
          BY <1>13, <1>24, <2>3
        <4>2. SendsCounted => sl.pending = Cardinality(M) + sl.zcomps
          BY <1>2, <1>3, <1>6 DEF Balanced, st
        <4>3. sl.zcomps \in Nat
          BY RecordFields
        <4>4. SendsCounted => many.pending = Cardinality(N) + many.zcomps
          <5> HIDE DEF M, N
          <5> QED BY <1>2, <1>5, <1>13, <4>2, <4>3
        <4> QED BY <1>15, <4>1, <4>4 DEF Balanced
      <3> HIDE DEF N
      <3> QED BY <1>2, <1>4, <1>13, <1>14, <3>1, <3>2, StayFlow
    <2> QED BY <1>13, <1>16, <2>1, <2>4
  <1>22. ASSUME ~ (IsR1S(st) /\ Fragments(st) = 1), ~ (~ IsWaypoint(st) /\ OneMessage(st)),
                many.pending = 0
         PROVE  Goal
    <2>1. sl.pending = 1 /\ N = {}
      BY <1>2, <1>5, <1>8, <1>13, <1>22
    <2>2. CASE IsWaypoint(st)
      <3>1. res.slot = many /\ res.at = "execute"
        BY <1>1, <1>22, <2>2
      <3>2. Counts(r, many, "execute", N)
        BY <1>7, <1>13, <1>15, <2>1, <2>2 DEF Counts
      <3>3. SlotFlow(r, many, "execute", less)
        <4> HIDE DEF N
        <4>1. Balanced(r, many, "execute", N)
          BY <1>13, <1>24, <2>2
        <4> QED BY <1>2, <1>4, <1>13, <1>14, <3>2, <4>1, StayFlow
      <3> QED BY <1>4, <1>13, <1>16, <2>1, <3>1, <3>3
    <2>3. CASE ~ IsWaypoint(st)
      <3>1. res = [slot |-> CompleteStep(r, many), at |-> AfterStep(r, many)]
        BY <1>1, <1>22, <2>3
      <3> QED BY <1>2, <1>4, <1>7, <1>13, <1>14, <1>17, <1>18, <2>1, <2>3, <3>1
    <2> QED BY <2>2, <2>3
  <1>23. Goal
    BY <1>19, <1>20, <1>21, <1>22
  <1> QED BY <1>10, <1>23 DEF Goes

-----------------------------------------------------------------------------
(***************************************************************************)
(* Where messages are, and how they move.                                  *)
(***************************************************************************)
\* A stored message is in the slot its header selects.
LEMMA StoredWhere ==
  ASSUME EngineInv, OnceInv
  PROVE  /\ \A r \in Ranks, s \in SlotIds : \A m \in MsgsOf(slot[r][s]) :
              m \in Mail(r) /\ m.to = r /\ m.coll_id % Slots = s
         /\ \A m : m \in Stored <=> \E r \in Ranks, s \in SlotIds : m \in MsgsOf(slot[r][s])
  <1>1. ASSUME NEW r \in Ranks, NEW s \in SlotIds, NEW m \in MsgsOf(slot[r][s])
        PROVE  m \in Mail(r) /\ m.to = r /\ m.coll_id % Slots = s
    <2>1. slot[r][s].msgs \in Seq(Mail(r))
      BY RecordFields DEF EngineInv, SlotsInv
    <2>2. m \in Mail(r)
      <3>1. ASSUME NEW S, NEW t \in Seq(S), NEW d \in DOMAIN t PROVE t[d] \in S
        OBVIOUS
      <3>2. PICK d \in DOMAIN slot[r][s].msgs : m = slot[r][s].msgs[d]
        BY <1>1 DEF MsgsOf
      <3> QED BY <2>1, <3>1, <3>2, Zenon
    <2>3. m.to = r
      BY <2>2 DEF Mail
    <2> QED BY <1>1, <2>2, <2>3 DEF OnceInv, StoredOnce
  <1>2. \A m : m \in Stored <=> \E r \in Ranks, s \in SlotIds : m \in MsgsOf(slot[r][s])
    BY DEF Stored
  <1> QED BY <1>1, <1>2

\* What an entry into slot s of member r leaves behind.
LEMMA Entered ==
  ASSUME EngineInv, NEW r \in Ranks, NEW s \in SlotIds,
         pc.at = "out" \/ (pc.rank = r /\ pc.slot = s),
         NEW new, NEW at, NEW depth, NEW then, Enter(r, s, new, at, depth, then)
  PROVE  /\ slot'[r][s] = new
         /\ \A q \in Ranks, t \in SlotIds : q # r \/ t # s => slot'[q][t] = slot[q][t]
         /\ Activation(r, s)' = at
         /\ \A q \in Ranks, t \in SlotIds :
              q # r \/ t # s => Activation(q, t)' = "out" /\ Activation(q, t) = "out"
         /\ pc'.at = at
         /\ at = "out" => pc'.then = {}
         /\ at # "out" => pc'.then = then /\ pc'.rank = r /\ pc'.slot = s
  <1>1. /\ slot = [q \in Ranks |-> [t \in SlotIds |-> slot[q][t]]]
        /\ slot' = [slot EXCEPT ![r][s] = new]
    BY DEF EngineInv, SlotsInv, Enter
  <1>2. /\ slot'[r][s] = new
        /\ \A q \in Ranks, t \in SlotIds : q # r \/ t # s => slot'[q][t] = slot[q][t]
    BY <1>1
  <1>3. /\ pc'.at = at
        /\ at = "out" => pc'.then = {}
        /\ at # "out" => pc'.then = then /\ pc'.rank = r /\ pc'.slot = s
    BY DEF Enter, Out
  <1>4. Activation(r, s)' = at
    BY <1>3 DEF Activation
  <1>5. ASSUME NEW q \in Ranks, NEW t \in SlotIds, q # r \/ t # s
        PROVE  Activation(q, t)' = "out" /\ Activation(q, t) = "out"
    BY <1>3, <1>5 DEF Activation
  <1> QED BY <1>2, <1>3, <1>4, <1>5

\* After its sends a step waits, or looks for what has come already.
LEMMA FinishSendShape ==
  ASSUME NEW r \in Ranks, NEW s \in SlotIds, NEW sl \in SlotRecords(r), NEW depth,
         FinishSend(r, s, sl, depth)
  PROVE  \E new, at, d :
           /\ Enter(r, s, new, at, d, {}) /\ at \in {"out", "scan"}
           /\ new.cb /\ new.busy = sl.busy /\ new.run = sl.run /\ new.coll_id = sl.coll_id
           /\ new.step = sl.step /\ new.pending = sl.pending /\ new.recv_comp = sl.recv_comp
           /\ new.buf = sl.buf /\ new.iter = sl.iter /\ new.msgs = sl.msgs
           /\ new.zcomps = sl.zcomps /\ ~ Flag(new)
  <1> DEFINE st      == StepAt(r, sl)
             waiting == [sl EXCEPT !.cb = TRUE, !.resend_flag[sl.step] = FALSE]
             stored  == Cardinality(Matching(r, sl))
             counted == IF sl.num_store[sl.step] + stored > RecvCount(st)
                          THEN RecvCount(st) ELSE sl.num_store[sl.step] + stored
             count   == [waiting EXCEPT !.num_store[sl.step] = counted]
             Like(new) ==
               /\ new.cb /\ new.busy = sl.busy /\ new.run = sl.run /\ new.coll_id = sl.coll_id
               /\ new.step = sl.step /\ new.pending = sl.pending /\ new.recv_comp = sl.recv_comp
               /\ new.buf = sl.buf /\ new.iter = sl.iter /\ new.msgs = sl.msgs
               /\ new.zcomps = sl.zcomps /\ ~ Flag(new)
  <1>1. \/ Enter(r, s, waiting, "out", 0, {})
        \/ Enter(r, s, count, "out", 0, {})
        \/ Enter(r, s, waiting, "scan", depth, {})
    BY DEF FinishSend
  <1> HIDE DEF counted
  <1>2. Like(waiting)
    BY DEF SlotRecords, Flag
  <1>3. Like(count)
    BY DEF SlotRecords, Flag
  <1> HIDE DEF Like, waiting, count
  <1>4. \E new, at, d : Enter(r, s, new, at, d, {}) /\ at \in {"out", "scan"} /\ Like(new)
    BY <1>1, <1>2, <1>3, Zenon
  <1> QED BY <1>4 DEF Like

\* Messages that move within a slot, are sent or are given to a step stay in
\* one place.
LEMMA MovesKeep ==
  ASSUME EngineInv, EngineInv', OnceInv, NEW r \in Ranks, NEW s \in SlotIds, NEW new,
         slot'[r][s] = new,
         \A q \in Ranks, t \in SlotIds : q # r \/ t # s => slot'[q][t] = slot[q][t],
         NEW F, NEW C, F \cap Pool = {},
         net' \cup pc'.then \cup MsgsOf(new) =
           (net \cup pc.then \cup MsgsOf(slot[r][s]) \cup F) \ C,
         net' \subseteq net \cup F, net' \cap pc'.then = {}, net' \cap MsgsOf(new) = {},
         pc'.then \cap MsgsOf(new) = {},
         \A i, j \in DOMAIN new.msgs : new.msgs[i] = new.msgs[j] => i = j,
         \A m \in C \cup MsgsOf(new) \cup pc'.then : m.to = r /\ m.coll_id % Slots = s,
         \A m, n \in pc'.then : m = n,
         \A m \in pc'.then : pc'.rank = r /\ pc'.slot = s /\ Matches(r, new, m)
  PROVE  OnceInv' /\ Pool' = (Pool \cup F) \ C
  <1> DEFINE old == MsgsOf(slot[r][s])
             rest == {m \in Stored : \E q \in Ranks, t \in SlotIds :
                        (q # r \/ t # s) /\ m \in MsgsOf(slot[q][t])}
  <1>1. \A m \in rest : ~ (m.to = r /\ m.coll_id % Slots = s)
    BY StoredWhere
  <1>2. Stored = old \cup rest
    BY StoredWhere
  <1>3. Stored' = MsgsOf(new) \cup rest
    <2>1. \A m : m \in Stored' <=> \E q \in Ranks, t \in SlotIds : m \in MsgsOf(slot'[q][t])
      BY DEF Stored
    <2>2. \A m : m \in rest <=> \E q \in Ranks, t \in SlotIds :
                                  (q # r \/ t # s) /\ m \in MsgsOf(slot[q][t])
      BY StoredWhere
    <2>3. \A m : (\E q \in Ranks, t \in SlotIds : m \in MsgsOf(slot'[q][t])) <=>
                   \/ m \in MsgsOf(new)
                   \/ \E q \in Ranks, t \in SlotIds :
                        (q # r \/ t # s) /\ m \in MsgsOf(slot[q][t])
      OBVIOUS
    <2> HIDE DEF rest
    <2> QED BY <2>1, <2>2, <2>3
  <1>4. C \cap rest = {}
    BY <1>1
  <1> HIDE DEF rest, old
  <1>5. Pool' = (Pool \cup F) \ C
    <2>1. Pool = net \cup pc.then \cup old \cup rest
      BY <1>2 DEF Pool
    <2>2. Pool' = net' \cup pc'.then \cup MsgsOf(new) \cup rest
      BY <1>3 DEF Pool
    <2>3. net' \cup pc'.then \cup MsgsOf(new) = (net \cup pc.then \cup old \cup F) \ C
      BY DEF old
    <2> QED BY <1>4, <2>1, <2>2, <2>3
  <1>6. ASSUME NEW q \in Ranks, NEW t \in SlotIds PROVE StoredOnce(q, t)'
    <2>1. CASE q = r /\ t = s
      BY <2>1 DEF StoredOnce
    <2>2. CASE q # r \/ t # s
      <3>1. slot'[q][t] = slot[q][t]
        BY <2>2
      <3>2. StoredOnce(q, t)
        BY DEF OnceInv
      <3>3. MsgsOf(slot[q][t]) \subseteq rest
        BY <2>2, StoredWhere DEF rest
      <3>4. net' \cap MsgsOf(slot[q][t]) = {}
        <4>1. F \cap rest = {}
          BY <1>2 DEF Pool
        <4> QED BY <3>2, <3>3, <4>1 DEF StoredOnce
      <3>5. pc'.then \cap MsgsOf(slot[q][t]) = {}
        BY <1>1, <3>3
      <3> QED BY <3>1, <3>2, <3>4, <3>5 DEF StoredOnce
    <2> QED BY <2>1, <2>2
  <1>7. \A m \in pc'.then : Matches(pc'.rank, slot'[pc'.rank][pc'.slot], m)
    OBVIOUS
  <1> QED BY <1>5, <1>6, <1>7 DEF OnceInv, Matches, StepAt

-----------------------------------------------------------------------------
(***************************************************************************)
(* Which collective a message is of.                                       *)
(***************************************************************************)
\* Numbers with the same rest are n apart.
LEMMA SameRest ==
  ASSUME NEW n \in Nat \ {0}, NEW x \in Nat, NEW y \in Nat, x < y, x % n = y % n
  PROVE  x + n <= y
  <1>1. SUFFICES ASSUME y < x + n PROVE FALSE
    OBVIOUS
  <1> DEFINE d == y - x
  <1>2. d \in 1 .. n - 1 /\ y = x + d
    BY <1>1
  <1> HIDE DEF d
  <1>3. (x + d) % n # x % n
    <2>1. n \in Nat \ {0} /\ x \in Int /\ d \in 1 .. n - 1
      BY <1>2
    <2> QED BY <2>1, CloseApart
  <1> QED BY <1>2, <1>3

\* A rest is no more than the number.
LEMMA RestAtMost ==
  ASSUME NEW n \in Nat \ {0}, NEW x \in Nat
  PROVE  x % n <= x
  <1>1. x % n \in 0 .. n - 1
    <2>1. n \in Nat \ {0} /\ x \in Int
      OBVIOUS
    <2> QED BY <2>1, DivMod
  <1>2. CASE x < n
    <2>1. n \in Nat \ {0} /\ x \in 0 .. n - 1
      BY <1>2
    <2>2. x % n = x
      BY ONLY <2>1, SmallRest
    <2> QED BY <2>2
  <1>3. CASE x >= n
    BY <1>1, <1>3
  <1> QED BY <1>2, <1>3

\* What comes to a member comes to one of its steps.
LEMMA ArrivesOnce ==
  ASSUME FlowFits, NEW a \in Posts(Plan)
  PROVE  /\ \E i \in DOMAIN Plan[Dest(Plan, a)] : a \in Arrivals(Plan, Dest(Plan, a), i)
         /\ \A r \in Ranks : \A i, j \in DOMAIN Plan[r] :
              a \in Arrivals(Plan, r, i) /\ Plan[r][j].step_idx = Index(Plan, a) => i = j
         /\ \A r \in Ranks : \A i \in DOMAIN Plan[r] :
              a \in Arrivals(Plan, r, i) <=>
                Dest(Plan, a) = r /\ Plan[r][i].step_idx = Index(Plan, a)
  <1>1. IdsFit(Plan) /\ DOMAIN Plan = Ranks
    BY Fits
  <1>2. \E i \in DOMAIN Plan[Dest(Plan, a)] : a \in Arrivals(Plan, Dest(Plan, a), i)
    BY <1>1 DEF IdsFit
  <1>3. ASSUME NEW r \in Ranks, NEW i \in DOMAIN Plan[r], NEW j \in DOMAIN Plan[r],
               a \in Arrivals(Plan, r, i), Plan[r][j].step_idx = Index(Plan, a)
        PROVE  i = j
    <2>1. Index(Plan, a) = Plan[r][i].step_idx
      BY <1>3 DEF Arrivals
    <2> QED BY <1>1, <1>3, <2>1 DEF IdsFit
  <1>4. \A r \in Ranks : \A i \in DOMAIN Plan[r] :
          a \in Arrivals(Plan, r, i) <=>
            Dest(Plan, a) = r /\ Plan[r][i].step_idx = Index(Plan, a)
    BY DEF Arrivals
  <1> QED BY <1>2, <1>3, <1>4

\* A message that is on its way when the slot it is for is busy, under the same
\* id, is of the collective in the slot.
LEMMA Window ==
  ASSUME FlowFits, EngineInv, FlowInv, NEW r \in Ranks, NEW s \in SlotIds, slot[r][s].busy,
         NEW a \in Posts(Plan), NEW k \in RunIds, Posted(a, k), Msg(a, k) \in Pool,
         Dest(Plan, a) = r, k % IdSpace = slot[r][s].coll_id
  PROVE  k = slot[r][s].run
  <1> DEFINE l == slot[r][s].run
             q == a.from
  <1>1. /\ l \in RunIds /\ l % Slots = s /\ l < next[r] /\ next[r] <= l + Slots
        /\ k % IdSpace = l % IdSpace
    <2>1. l \in RunIds
      BY RecordFields DEF EngineInv, SlotsInv
    <2> QED BY <2>1 DEF FlowInv, RunsInv
  <1>2. /\ k \in Nat /\ l \in Nat /\ next[r] \in Nat /\ next[q] \in Nat /\ q \in Ranks
        /\ Slots \in Nat \ {0} /\ IdSpace \in Nat \ {0} /\ IdSpace >= 2 * Slots
    BY <1>1, PostFacts, Fits DEF RunIds, EngineInv
  <1>3. \A p \in Ranks, t \in SlotIds : next[p] > t => next[p] <= slot[p][t].run + Slots
    <2>1. \A p \in Ranks, t \in SlotIds : next[p] \in Int /\ t \in Int
      BY DEF EngineInv, SlotIds
    <2>2. \A x, y \in Int : x > y => ~ (x <= y)
      OBVIOUS
    <2> QED BY <2>1, <2>2 DEF FlowInv, RunsInv
  <1>4. \A p \in Ranks : next[p] <= Runs
    BY DEF EngineInv
  <1>5. \A j \in Nat : j % Slots \in SlotIds /\ j % Slots <= j
    BY <1>2, Ids, RestAtMost
  <1>6. CASE k < l
    <2>1. k + IdSpace <= l
      BY <1>1, <1>2, <1>6, SameRest
    <2>2. next[r] > k /\ slot[r][k % Slots].run # k
      <3>1. next[r] > k /\ next[r] > k + Slots
        BY <1>1, <1>2, <2>1
      <3>2. k % Slots \in SlotIds /\ next[r] > k % Slots
        <4>1. k % Slots \in SlotIds /\ k % Slots <= k
          BY <1>2, <1>5
        <4>2. k % Slots \in Nat
          BY <4>1 DEF SlotIds
        <4> QED BY <1>2, <3>1, <4>1, <4>2
      <3>3. next[r] <= slot[r][k % Slots].run + Slots
        BY <1>3, <3>2
      <3>4. slot[r][k % Slots].run = k => next[r] <= k + Slots
        BY <3>3
      <3> HIDE DEF l
      <3> QED BY <1>2, <3>1, <3>4
    <2>3. Missing(r, k) = None(r)
      <3>1. ~ (next[r] <= k)
        BY <1>2, <2>2
      <3> QED BY <2>2, <3>1 DEF FlowInv, ProgressInv
    <2>4. PICK i \in DOMAIN Plan[r] : a \in Arrivals(Plan, r, i)
      BY ArrivesOnce
    <2>5. a \in Missing(r, k)[i]
      BY <2>4 DEF Missing, Open
    <2> QED BY <2>3, <2>5 DEF None
  <1>7. CASE l < k
    <2> DEFINE j == k - Slots
    <2>1. l + IdSpace <= k
      BY <1>1, <1>2, <1>7, SameRest
    <2>2. next[q] > k
      BY DEF Posted
    <2>3. j \in RunIds /\ j \in Nat /\ next[q] > j
      <3>1. k <= Runs - 1 /\ Runs \in Nat
        BY EngineAssumption DEF RunIds
      <3> HIDE DEF q, l
      <3>2. j \in Int /\ 0 <= j /\ j <= k
        BY <1>2, <2>1
      <3> QED BY <1>2, <2>2, <3>1, <3>2 DEF RunIds
    <2>4. slot[q][j % Slots].run # j
      <3>1. j % Slots \in SlotIds /\ next[q] > j % Slots
        <4>1. j % Slots \in SlotIds /\ j % Slots <= j
          BY <1>5, <2>3
        <4>2. j % Slots \in Nat
          BY <4>1 DEF SlotIds
        <4> HIDE DEF j
        <4> QED BY <1>2, <2>3, <4>1, <4>2
      <3>2. next[q] <= slot[q][j % Slots].run + Slots
        BY <1>2, <1>3, <3>1
      <3>3. slot[q][j % Slots].run = j => next[q] <= j + Slots
        BY <3>2
      <3> HIDE DEF q
      <3> QED BY <1>2, <2>2, <2>3, <3>3
    <2> HIDE DEF q
    <2>5. next[r] > j
      <3> HIDE DEF j
      <3> QED BY <1>2, <2>3, <2>4 DEF FlowInv, LeftInv
    <2> QED BY <1>1, <1>2, <2>1, <2>5
  <1> QED BY <1>2, <1>6, <1>7

\* So a message for the step a slot is in is one of those it is missing.
LEMMA MatchIsMissing ==
  ASSUME FlowFits, EngineInv, FlowInv, NEW r \in Ranks, NEW s \in SlotIds, slot[r][s].busy,
         NEW m \in Pool, m.to = r, Matches(r, slot[r][s], m)
  PROVE  /\ next[r] > s
         /\ \E b \in Missing(r, slot[r][s].run)[slot[r][s].step] :
              /\ b \in Posts(Plan) /\ m = Msg(b, slot[r][s].run)
  <1> DEFINE sl == slot[r][s]
             i  == sl.step
  <1>1. sl \in SlotRecords(r) /\ i \in DOMAIN Plan[r] /\ StepAt(r, sl) = Plan[r][i]
    BY RecordFields DEF EngineInv, SlotsInv
  <1>2. PICK b \in Posts(Plan), k \in RunIds : Posted(b, k) /\ m = Msg(b, k)
    BY DEF FlowInv, GenuineInv
  <1>3. /\ Dest(Plan, b) = r /\ k % IdSpace = sl.coll_id
        /\ Index(Plan, b) = Plan[r][i].step_idx
    BY <1>1, <1>2 DEF Msg, Matches
  <1>4. k = sl.run
    BY <1>2, <1>3, Window
  <1>5. b \in Arrivals(Plan, r, i)
    BY <1>3 DEF Arrivals
  <1>6. b \in Missing(r, k)[i]
    BY <1>1, <1>2, <1>5 DEF Missing, Open
  <1>7. next[r] > s
    <2>1. s \in Int /\ next[r] \in Int
      BY DEF SlotIds, EngineInv
    <2> QED BY <2>1 DEF FlowInv, RunsInv
  <1> QED BY <1>2, <1>4, <1>6, <1>7

-----------------------------------------------------------------------------
(***************************************************************************)
(* The entries.                                                            *)
(***************************************************************************)
\* What activations between two starts have in common: slot s of member r is
\* left as new, its step has sent the posts in X and was given those in T.
Advances(r, s, new, k, X, T, MM) ==
  /\ slot'[r][s] = new
  /\ \A q \in Ranks, t \in SlotIds : q # r \/ t # s =>
       slot'[q][t] = slot[q][t] /\ Activation(q, t)' = Activation(q, t)
  /\ k = slot[r][s].run /\ new.run = k /\ new.coll_id = slot[r][s].coll_id
  /\ new.busy => slot[r][s].busy
  /\ X # {} \/ T # {} => next[r] > s
  /\ \A a \in X : /\ a \in Posts(Plan) /\ a.from = r /\ ~ Through(slot[r][s], a)
                  /\ \E off \in Offsets : Msg(a, k).data = slot[r][s].buf[off]
  /\ \A a \in T : a \in Missing(r, k)[slot[r][s].step] /\ Msg(a, k) \in Pool
  /\ \A a \in Posts(Plan) : a.from = r =>
       (Through(new, a) <=> Through(slot[r][s], a) \/ a \in X)
  /\ \A m : m \in Pool' <=> /\ m \in Pool \/ \E a \in X : m = Msg(a, k)
                            /\ ~ \E a \in T : m = Msg(a, k)
  /\ \A off \in Offsets : \A x \in DOMAIN new.buf[off] :
       x \in DOMAIN slot[r][s].buf[off] \/ \E a \in T : x \in DOMAIN Msg(a, k).data
  /\ \A i \in DOMAIN Plan[r] :
       MM[i] = IF i = slot[r][s].step THEN Missing(r, k)[i] \ T ELSE Missing(r, k)[i]
  /\ next[r] > s => SlotFlow(r, new, Activation(r, s)', MM)

\* What advances keeps the invariant.
LEMMA StepFlow ==
  ASSUME FlowFits, EngineInv, EngineInv', FlowInv, OnceInv', next' = next,
         NEW r \in Ranks, NEW s \in SlotIds, NEW new, NEW k, NEW X, NEW T, NEW MM,
         Advances(r, s, new, k, X, T, MM)
  PROVE  FlowInv'
  <1> SUFFICES ASSUME
            /\ slot'[r][s] = new
            /\ \A q \in Ranks, t \in SlotIds : q # r \/ t # s =>
                 slot'[q][t] = slot[q][t] /\ Activation(q, t)' = Activation(q, t)
            /\ k = slot[r][s].run /\ new.run = k /\ new.coll_id = slot[r][s].coll_id
            /\ new.busy => slot[r][s].busy
            /\ X # {} \/ T # {} => next[r] > s
            /\ \A a \in X : /\ a \in Posts(Plan) /\ a.from = r /\ ~ Through(slot[r][s], a)
                            /\ \E off \in Offsets : Msg(a, k).data = slot[r][s].buf[off]
            /\ \A a \in T : a \in Missing(r, k)[slot[r][s].step] /\ Msg(a, k) \in Pool
            /\ \A a \in Posts(Plan) : a.from = r =>
                 (Through(new, a) <=> Through(slot[r][s], a) \/ a \in X)
            /\ \A m : m \in Pool' <=> /\ m \in Pool \/ \E a \in X : m = Msg(a, k)
                                      /\ ~ \E a \in T : m = Msg(a, k)
            /\ \A off \in Offsets : \A x \in DOMAIN new.buf[off] :
                 x \in DOMAIN slot[r][s].buf[off] \/ \E a \in T : x \in DOMAIN Msg(a, k).data
            /\ \A i \in DOMAIN Plan[r] :
                 MM[i] = IF i = slot[r][s].step THEN Missing(r, k)[i] \ T ELSE Missing(r, k)[i]
            /\ next[r] > s => SlotFlow(r, new, Activation(r, s)', MM)
               PROVE  FlowInv'
    BY DEF Advances
  <1> DEFINE sl == slot[r][s]
  <1>1. /\ sl \in SlotRecords(r) /\ k \in RunIds /\ sl.step \in DOMAIN Plan[r]
        /\ new \in SlotRecords(r) /\ new.step \in DOMAIN Plan[r]
    <2>1. sl \in SlotRecords(r) /\ new \in SlotRecords(r)
      BY DEF EngineInv, SlotsInv
    <2> HIDE DEF sl
    <2> QED BY <2>1, RecordFields
  <1>2. \A q \in Ranks, t \in SlotIds : next[q] \in Int /\ t \in Int
    BY DEF EngineInv, SlotIds
  <1>3. next[r] > s => k % Slots = s /\ next[r] > k
    <2>1. \A x, y \in Int : x > y => ~ (x <= y)
      OBVIOUS
    <2>2. k \in Int
      BY <1>1 DEF RunIds
    <2>3. next[r] > s => k % Slots = s /\ k < next[r]
      BY <1>2, <2>1 DEF FlowInv, RunsInv
    <2> QED BY <1>2, <2>2, <2>3
  <1>4. \A j \in RunIds : j \in Nat /\ j % Slots \in SlotIds
    BY Ids DEF RunIds
  <1>5. \A a \in T : a \in Posts(Plan) /\ Dest(Plan, a) = r /\ a \in Arrivals(Plan, r, sl.step)
    BY <1>1, ArrivalFacts DEF Missing
  <1>6. ASSUME NEW a \in Posts(Plan), NEW j \in RunIds
        PROVE  Posted(a, j)' <=> Posted(a, j) \/ (a \in X /\ j = k)
    <2> DEFINE q == a.from
               t == j % Slots
    <2>1. q \in Ranks /\ t \in SlotIds
      BY <1>4, PostFacts
    <2>2. Posted(a, j) <=> next[q] > j /\ (slot[q][t].run = j => Through(slot[q][t], a))
      BY DEF Posted
    <2>3. Posted(a, j)' <=> next[q] > j /\ (slot'[q][t].run = j => Through(slot'[q][t], a))
      BY DEF Posted
    <2>4. CASE q # r \/ t # s
      <3>1. slot'[q][t] = slot[q][t]
        BY <2>1, <2>4
      <3>2. ~ (a \in X /\ j = k)
        BY <1>3, <2>4
      <3> QED BY <2>2, <2>3, <3>1, <3>2
    <2>5. CASE q = r /\ t = s
      <3>1. slot'[q][t] = new /\ slot[q][t] = sl /\ new.run = k
        BY <2>5
      <3>2. a \in X => next[r] > k
        BY <1>3
      <3> HIDE DEF sl, q, t
      <3>3. Through(new, a) <=> Through(sl, a) \/ a \in X
        BY <2>5 DEF sl, q
      <3> QED BY <2>2, <2>3, <2>5, <3>1, <3>2, <3>3
    <2> QED BY <2>4, <2>5
  <1>7. \A a \in Posts(Plan), j \in RunIds : a \in X /\ j = k => ~ Posted(a, j)
    <2>1. SUFFICES ASSUME NEW a \in X PROVE ~ Posted(a, k)
      OBVIOUS
    <2>2. a.from = r /\ ~ Through(slot[r][s], a) /\ k % Slots = s
      BY <1>3, <2>1
    <2> QED BY <2>2 DEF Posted
  <1>8. \A a \in T : Posted(a, k)
    <2>1. SUFFICES ASSUME NEW a \in T PROVE Posted(a, k)
      OBVIOUS
    <2>2. PICK b \in Posts(Plan), j \in RunIds : Posted(b, j) /\ Msg(a, k) = Msg(b, j)
      BY DEF FlowInv, GenuineInv
    <2>3. a = b /\ k = j
      BY <1>5, <2>2, MsgInjective
    <2> QED BY <2>2, <2>3
  <1>9. ASSUME NEW a \in Posts(Plan), NEW j \in RunIds
        PROVE  Open(a, j)' <=> Open(a, j) /\ ~ (a \in T /\ j = k)
    <2>1. Msg(a, j) \in Pool' <=> /\ Msg(a, j) \in Pool \/ (a \in X /\ j = k)
                                  /\ ~ (a \in T /\ j = k)
      <3>1. \A b \in X : Msg(a, j) = Msg(b, k) => a = b /\ j = k
        BY MsgInjective
      <3>2. \A b \in T : Msg(a, j) = Msg(b, k) => a = b /\ j = k
        BY <1>5, MsgInjective
      <3>3. Msg(a, j) \in Pool' <=> /\ \/ Msg(a, j) \in Pool
                                       \/ \E b \in X : Msg(a, j) = Msg(b, k)
                                    /\ ~ \E b \in T : Msg(a, j) = Msg(b, k)
        OBVIOUS
      <3> QED BY <3>1, <3>2, <3>3
    <2>2. Open(a, j)' <=> ~ Posted(a, j)' \/ Msg(a, j) \in Pool'
      BY DEF Open, Msg
    <2>3. Open(a, j) <=> ~ Posted(a, j) \/ Msg(a, j) \in Pool
      BY DEF Open
    <2>4. Posted(a, j)' <=> Posted(a, j) \/ (a \in X /\ j = k)
      BY <1>6
    <2>5. a \in X /\ j = k => ~ Posted(a, j)
      BY <1>7
    <2>6. a \in T /\ j = k => Posted(a, j)
      BY <1>8
    <2> QED BY <2>1, <2>2, <2>3, <2>4, <2>5, <2>6
  <1>10. ASSUME NEW q \in Ranks, NEW j \in RunIds, NEW i \in DOMAIN Plan[q]
         PROVE  Missing(q, j)'[i] = IF j = k THEN Missing(q, j)[i] \ T ELSE Missing(q, j)[i]
    <2>1. Arrivals(Plan, q, i) \subseteq Posts(Plan)
      BY ArrivalFacts
    <2>2. Missing(q, j)'[i] = {a \in Arrivals(Plan, q, i) : Open(a, j)'}
      BY DEF Missing
    <2>3. Missing(q, j)[i] = {a \in Arrivals(Plan, q, i) : Open(a, j)}
      BY DEF Missing
    <2>4. \A a \in Arrivals(Plan, q, i) : Open(a, j)' <=> Open(a, j) /\ ~ (a \in T /\ j = k)
      BY <1>9, <2>1
    <2> QED BY <2>2, <2>3, <2>4
  <1>11. ASSUME NEW q \in Ranks, NEW j \in RunIds, q # r \/ j # k
         PROVE  Missing(q, j)' = Missing(q, j)
    <2>1. ASSUME NEW i \in DOMAIN Plan[q] PROVE Missing(q, j)'[i] = Missing(q, j)[i]
      <3>1. q # r => \A a \in Missing(q, j)[i] : a \notin T
        BY <1>5, ArrivalFacts DEF Missing
      <3>2. q # r => Missing(q, j)[i] \ T = Missing(q, j)[i]
        BY <3>1
      <3>3. Missing(q, j)'[i] = IF j = k THEN Missing(q, j)[i] \ T ELSE Missing(q, j)[i]
        <4>1. q \in Ranks /\ j \in RunIds /\ i \in DOMAIN Plan[q]
          OBVIOUS
        <4> QED BY ONLY <4>1, <1>10
      <3> QED BY ONLY <1>11, <3>2, <3>3
    <2>2. /\ Missing(q, j)' = [i \in DOMAIN Plan[q] |-> Missing(q, j)'[i]]
          /\ Missing(q, j) = [i \in DOMAIN Plan[q] |-> Missing(q, j)[i]]
      BY DEF Missing
    <2> QED BY ONLY <2>1, <2>2, Zenon
  <1>12. \A i \in DOMAIN Plan[r] : Missing(r, k)'[i] = MM[i]
    <2>1. ASSUME NEW i \in DOMAIN Plan[r] PROVE Missing(r, k)'[i] = MM[i]
      <3>1. Missing(r, k)'[i] = Missing(r, k)[i] \ T
        <4>1. r \in Ranks /\ k \in RunIds /\ i \in DOMAIN Plan[r]
          BY <1>1
        <4> QED BY ONLY <4>1, <1>10
      <3>2. i # sl.step => \A a \in Missing(r, k)[i] : a \notin T
        <4>1. SUFFICES ASSUME i # sl.step, NEW a \in Missing(r, k)[i], a \in T PROVE FALSE
          OBVIOUS
        <4>2. a \in Arrivals(Plan, r, i) /\ a \in Arrivals(Plan, r, sl.step) /\ a \in Posts(Plan)
          BY <1>5, <4>1 DEF Missing
        <4>3. Plan[r][sl.step].step_idx = Index(Plan, a)
          BY <4>2 DEF Arrivals
        <4> QED BY <1>1, <4>1, <4>2, <4>3, ArrivesOnce
      <3>3. i # sl.step => Missing(r, k)[i] \ T = Missing(r, k)[i]
        BY <3>2
      <3> QED BY <3>1, <3>3
    <2> QED BY <2>1
  <1>13. RunsInv'
    <2>1. ASSUME NEW q \in Ranks, NEW t \in SlotIds
          PROVE  IF next[q] <= t THEN ~ slot'[q][t].busy
                 ELSE /\ slot'[q][t].run % Slots = t /\ slot'[q][t].run < next[q]
                      /\ next[q] <= slot'[q][t].run + Slots
                      /\ slot'[q][t].coll_id = slot'[q][t].run % IdSpace
      <3>1. IF next[q] <= t THEN ~ slot[q][t].busy
            ELSE /\ slot[q][t].run % Slots = t /\ slot[q][t].run < next[q]
                 /\ next[q] <= slot[q][t].run + Slots
                 /\ slot[q][t].coll_id = slot[q][t].run % IdSpace
        BY DEF FlowInv, RunsInv
      <3>2. CASE q # r \/ t # s
        <4>1. slot'[q][t] = slot[q][t]
          BY <3>2
        <4> QED BY <3>1, <4>1
      <3>3. CASE q = r /\ t = s
        <4>1. slot'[q][t].run = slot[q][t].run /\ slot'[q][t].coll_id = slot[q][t].coll_id
              /\ (slot'[q][t].busy => slot[q][t].busy)
          BY <3>3
        <4> QED BY <3>1, <4>1
      <3> QED BY <3>2, <3>3
    <2> QED BY <2>1 DEF RunsInv
  <1>14. \A q \in Ranks, t \in SlotIds : slot'[q][t].run = slot[q][t].run
    OBVIOUS
  <1>15. GenuineInv'
    <2>1. ASSUME NEW m \in Pool'
          PROVE  \E a \in Posts(Plan), j \in RunIds : Posted(a, j)' /\ m = Msg(a, j)
      <3>1. CASE m \in Pool
        <4>1. PICK a \in Posts(Plan), j \in RunIds : Posted(a, j) /\ m = Msg(a, j)
          BY <3>1 DEF FlowInv, GenuineInv
        <4>2. Posted(a, j)'
          BY <1>6, <4>1
        <4> QED BY <4>1, <4>2
      <3>2. CASE \E a \in X : m = Msg(a, k)
        <4>1. PICK a \in X : m = Msg(a, k)
          BY <3>2
        <4>2. a \in Posts(Plan) /\ Posted(a, k)'
          BY <1>1, <1>6
        <4> QED BY <1>1, <4>1, <4>2
      <3> QED BY <3>1, <3>2
    <2>2. \A a, j : Msg(a, j)' = Msg(a, j)
      BY DEF Msg
    <2> QED BY <2>1, <2>2 DEF GenuineInv
  <1>16. ProgressInv'
    <2>1. ASSUME NEW q \in Ranks, NEW j \in RunIds
          PROVE  IF next[q] <= j THEN Missing(q, j)' = All(q)
                 ELSE IF slot'[q][j % Slots].run # j THEN Missing(q, j)' = None(q)
                 ELSE SlotFlow(q, slot'[q][j % Slots], Activation(q, j % Slots)', Missing(q, j)')
      <3> DEFINE t == j % Slots
      <3>1. IF next[q] <= j THEN Missing(q, j) = All(q)
            ELSE IF slot[q][t].run # j THEN Missing(q, j) = None(q)
            ELSE SlotFlow(q, slot[q][t], Activation(q, t), Missing(q, j))
        BY DEF FlowInv, ProgressInv
      <3>2. t \in SlotIds /\ slot'[q][t].run = slot[q][t].run
        BY <1>4, <1>14
      <3>3. CASE q = r /\ j = k /\ next[r] > s
        <4>1. t = s /\ ~ (next[q] <= j)
          BY <1>2, <1>3, <1>4, <3>3
        <4>2. SlotFlow(r, new, Activation(r, s)', MM)
          BY <3>3
        <4>3. SlotFlow(r, new, Activation(r, s)', Missing(r, k)')
          BY ONLY <1>1, <1>12, <4>2, SameFlow
        <4> HIDE DEF t
        <4>4. slot'[q][t] = new /\ new.run = j /\ Activation(q, t)' = Activation(r, s)'
          BY <3>3, <4>1
        <4>5. SlotFlow(q, slot'[q][t], Activation(q, t)', Missing(q, j)')
          BY <3>3, <4>3, <4>4
        <4> QED BY <4>1, <4>4, <4>5 DEF t
      <3>4. CASE ~ (q = r /\ j = k /\ next[r] > s)
        <4>1. Missing(q, j)' = Missing(q, j)
          <5>1. CASE q # r \/ j # k
            BY <1>11, <5>1
          <5>2. CASE T = {}
            <6>1. \A i \in DOMAIN Plan[q] : Missing(q, j)'[i] = Missing(q, j)[i]
              BY <1>10, <5>2
            <6>2. /\ Missing(q, j)' = [i \in DOMAIN Plan[q] |-> Missing(q, j)'[i]]
                  /\ Missing(q, j) = [i \in DOMAIN Plan[q] |-> Missing(q, j)[i]]
              BY DEF Missing
            <6> QED BY ONLY <6>1, <6>2, Zenon
          <5>3. q # r \/ j # k \/ T = {}
            BY <3>4
          <5> QED BY ONLY <5>1, <5>2, <5>3
        <4>2. CASE q # r \/ t # s
          <5>1. slot'[q][t] = slot[q][t] /\ Activation(q, t)' = Activation(q, t)
            BY <3>2, <4>2
          <5> QED BY <3>1, <4>1, <5>1
        <4>3. CASE q = r /\ t = s /\ j # k
          <5>1. slot[q][t].run # j /\ slot'[q][t].run # j
            BY <3>2, <4>3
          <5> QED BY <3>1, <4>1, <5>1
        <4>4. CASE q = r /\ t = s /\ j = k /\ ~ (next[r] > s)
          <5>1. t <= j
            BY <1>4, Fits, RestAtMost
          <5>2. next[q] <= j
            BY <1>2, <1>4, <4>4, <5>1
          <5> QED BY <3>1, <4>1, <5>2
        <4> QED BY <3>4, <4>2, <4>3, <4>4
      <3> QED BY <3>3, <3>4
    <2> QED BY <2>1 DEF ProgressInv, All, None
  <1>17. KnownInv'
    <2>1. Known' = Known
      BY DEF Known
    <2>2. ASSUME NEW m \in Pool' PROVE DOMAIN m.data \subseteq Known
      <3>1. CASE m \in Pool
        BY <3>1 DEF FlowInv, KnownInv
      <3>2. CASE \E a \in X : m = Msg(a, k)
        <4>1. PICK a \in X : m = Msg(a, k)
          BY <3>2
        <4>2. PICK off \in Offsets : m.data = sl.buf[off]
          BY <4>1
        <4> QED BY <4>1, <4>2 DEF FlowInv, KnownInv
      <3> QED BY <3>1, <3>2
    <2>3. ASSUME NEW q \in Ranks, NEW t \in SlotIds, next[q] > t, NEW off \in Offsets
          PROVE  DOMAIN slot'[q][t].buf[off] \subseteq Known
      <3>1. DOMAIN slot[q][t].buf[off] \subseteq Known
        BY <2>3 DEF FlowInv, KnownInv
      <3>2. CASE q # r \/ t # s
        BY <3>1, <3>2
      <3>3. CASE q = r /\ t = s
        <4>1. ASSUME NEW x \in DOMAIN new.buf[off] PROVE x \in Known
          <5>1. \A a \in T : DOMAIN Msg(a, k).data \subseteq Known
            BY DEF FlowInv, KnownInv
          <5> QED BY <3>1, <3>3, <4>1, <5>1
        <4> QED BY <3>3, <4>1
      <3> QED BY <3>2, <3>3
    <2> QED BY <2>1, <2>2, <2>3 DEF KnownInv
  <1>18. LeftInv'
    <2>1. ASSUME NEW q \in Ranks, NEW j \in RunIds, next[q] > j,
                 ~ (slot'[q][j % Slots].busy /\ slot'[q][j % Slots].run = j), NEW p \in Ranks
          PROVE  next[p] > j
      <3>1. CASE ~ (slot[q][j % Slots].busy /\ slot[q][j % Slots].run = j)
        BY <2>1, <3>1 DEF FlowInv, LeftInv
      <3>2. CASE slot[q][j % Slots].busy /\ slot[q][j % Slots].run = j
        <4>1. q = r /\ j % Slots = s /\ j = k /\ ~ new.busy
          BY <1>4, <1>14, <2>1, <3>2
        <4>2. next[r] > s
          <5>1. ~ (next[r] <= s)
            BY <3>2, <4>1 DEF FlowInv, RunsInv
          <5> QED BY <1>2, <5>1
        <4>3. PICK off \in Offsets : TRUE
          <5>1. IsStep(Plan[r][1], Ranks, Offsets)
            BY PlanSteps
          <5> QED BY <5>1 DEF IsStep
        <4>4. new.buf[off] = SetToBag(Ranks \X {k})
          <5>1. SlotFlow(r, new, Activation(r, s)', MM) /\ Contributors = Ranks
            BY <4>2, Fits
          <5>2. new.run = k /\ ~ new.busy /\ off \in Offsets
            BY <4>1, <4>3
          <5> QED BY ONLY <5>1, <5>2 DEF SlotFlow
        <4>5. DOMAIN new.buf[off] = Ranks \X {k}
          BY <4>4, Bags
        <4>6. <<p, k>> \in Known
          BY <1>17, <4>2, <4>5 DEF KnownInv, Known
        <4> QED BY <4>1, <4>6 DEF Known
      <3> QED BY <3>1, <3>2
    <2> QED BY <2>1 DEF LeftInv
  <1> QED BY <1>13, <1>15, <1>16, <1>17, <1>18 DEF FlowInv

\* What the invariant says of a slot that has been used.
LEMMA FlowNow ==
  ASSUME EngineInv, FlowInv, NEW r \in Ranks, NEW s \in SlotIds, next[r] > s,
         NEW k, k = slot[r][s].run
  PROVE  /\ SlotFlow(r, slot[r][s], Activation(r, s), Missing(r, k))
         /\ k \in RunIds /\ k % Slots = s /\ k < next[r]
         /\ slot[r][s].coll_id = k % IdSpace
  <1>1. k \in RunIds /\ k \in Int /\ s \in Int /\ next[r] \in Int
    BY RecordFields DEF EngineInv, SlotsInv, RunIds, SlotIds
  <1>2. \A x, y \in Int : x > y => ~ (x <= y)
    OBVIOUS
  <1>3. k % Slots = s /\ k < next[r] /\ slot[r][s].coll_id = k % IdSpace
    BY <1>1, <1>2 DEF FlowInv, RunsInv
  <1>4. ~ (next[r] <= k)
    BY <1>1, <1>3
  <1>5. SlotFlow(r, slot[r][s], Activation(r, s), Missing(r, k))
    BY <1>1, <1>3, <1>4 DEF FlowInv, ProgressInv
  <1> QED BY <1>1, <1>3, <1>5

\* Slot s, left as new, has sent the posts in X.
Sends(r, s, new, k, X) ==
  /\ \A a \in X : /\ a \in Posts(Plan) /\ a.from = r /\ ~ Through(slot[r][s], a)
                  /\ \E off \in Offsets : Msg(a, k).data = slot[r][s].buf[off]
  /\ \A a \in Posts(Plan) : a.from = r =>
       (Through(new, a) <=> Through(slot[r][s], a) \/ a \in X)

\* An entry that gives no message to the step.
LEMMA KeepFlow ==
  ASSUME FlowFits, EngineInv, EngineInv', FlowInv, OnceInv', next' = next,
         NEW r \in Ranks, NEW s \in SlotIds, pc.at = "out" \/ (pc.rank = r /\ pc.slot = s),
         NEW new, NEW at, NEW depth, NEW then, Enter(r, s, new, at, depth, then),
         NEW k, k = slot[r][s].run, new.run = k, new.coll_id = slot[r][s].coll_id,
         new.busy => slot[r][s].busy, new.buf = slot[r][s].buf,
         NEW X, X # {} => next[r] > s,
         Sends(r, s, new, k, X),
         Pool' = Pool \cup Messages(X, k),
         next[r] > s => SlotFlow(r, new, at, Missing(r, k))
  PROVE  FlowInv'
  <1>1. /\ slot'[r][s] = new /\ Activation(r, s)' = at
        /\ \A q \in Ranks, t \in SlotIds : q # r \/ t # s =>
             slot'[q][t] = slot[q][t] /\ Activation(q, t)' = Activation(q, t)
    BY Entered
  <1> DEFINE MM == Missing(r, k)
             T  == {}
  <1>2. \A a \in T : /\ a \in Missing(r, k)[slot[r][s].step]
                     /\ Msg(a, k) \in Pool
    OBVIOUS
  <1>3. \A m : m \in Pool' <=> /\ m \in Pool \/ \E a \in X : m = Msg(a, k)
                               /\ ~ \E a \in T : m = Msg(a, k)
    BY DEF Messages
  <1>4. \A off \in Offsets : \A x \in DOMAIN new.buf[off] :
          \/ x \in DOMAIN slot[r][s].buf[off]
          \/ \E a \in T : x \in DOMAIN Msg(a, k).data
    OBVIOUS
  <1>5. \A i \in DOMAIN Plan[r] :
          MM[i] = IF i = slot[r][s].step THEN Missing(r, k)[i] \ T ELSE Missing(r, k)[i]
    OBVIOUS
  <1>6. X # {} \/ T # {} => next[r] > s
    OBVIOUS
  <1>7. next[r] > s => SlotFlow(r, new, Activation(r, s)', MM)
    BY <1>1
  <1> HIDE DEF T, MM
  <1>8. /\ \A a \in X : /\ a \in Posts(Plan) /\ a.from = r /\ ~ Through(slot[r][s], a)
                        /\ \E off \in Offsets : Msg(a, k).data = slot[r][s].buf[off]
        /\ \A a \in Posts(Plan) : a.from = r =>
             (Through(new, a) <=> Through(slot[r][s], a) \/ a \in X)
    BY DEF Sends
  <1>9. Advances(r, s, new, k, X, T, MM)
    BY <1>1, <1>2, <1>3, <1>4, <1>5, <1>6, <1>7, <1>8 DEF Advances
  <1> QED BY ONLY <1>9, FlowFits, EngineInv, EngineInv', FlowInv, OnceInv', next' = next,
                  r \in Ranks, s \in SlotIds, StepFlow

\* Records that differ in what is stored at most.
Alike(new, sl) ==
  /\ new.run = sl.run /\ new.coll_id = sl.coll_id /\ new.busy = sl.busy /\ new.cb = sl.cb
  /\ new.step = sl.step /\ new.pending = sl.pending /\ new.recv_comp = sl.recv_comp
  /\ new.iter = sl.iter /\ new.buf = sl.buf /\ new.zcomps = sl.zcomps
  /\ new.resend_flag = sl.resend_flag

\* What is missing without post b, which comes to step i.
Without(r, i, b, MM) == [j \in DOMAIN Plan[r] |-> IF j = i THEN MM[j] \ {b} ELSE MM[j]]

\* A message of the pool that is given to its step is one it is missing.
LEMMA Taking ==
  ASSUME FlowFits, EngineInv, FlowInv, NEW r \in Ranks, NEW s \in SlotIds,
         NEW rest \in SlotRecords(r), Scanning(r, rest), Alike(rest, slot[r][s]),
         NEW m \in Mail(r), m \in Pool, Matches(r, slot[r][s], m),
         Activation(r, s) # "execute"
  PROVE  /\ next[r] > s
         /\ \E k \in RunIds : k = slot[r][s].run /\ \E b \in Missing(r, k)[slot[r][s].step] :
              /\ b \in Posts(Plan) /\ m = Msg(b, k)
              /\ Goes(r, rest, m, Callback(r, rest, m),
                      Without(r, rest.step, b, Missing(r, k)))
  <1> DEFINE sl == slot[r][s]
  <1>1. PICK k \in RunIds : k = sl.run
    <2>1. sl \in SlotRecords(r)
      BY DEF EngineInv, SlotsInv
    <2> QED BY <2>1, RecordFields
  <1>2. sl.busy /\ m.to = r
    BY DEF Scanning, Waiting, Mail, Alike
  <1>3. /\ next[r] > s
        /\ \E b \in Missing(r, k)[sl.step] : b \in Posts(Plan) /\ m = Msg(b, k)
    BY <1>1, <1>2, MatchIsMissing
  <1>4. PICK b \in Missing(r, k)[sl.step] : b \in Posts(Plan) /\ m = Msg(b, k)
    BY <1>3
  <1>5. SlotFlow(r, sl, Activation(r, s), Missing(r, k))
    BY <1>1, <1>3, FlowNow
  <1> DEFINE MM   == Missing(r, k)
             less == Without(r, rest.step, b, MM)
             to   == Activation(r, s)
  <1>6. SlotFlow(r, rest, to, MM)
    <2>1. /\ SlotFlow(r, sl, to, MM)
          /\ rest.run = sl.run /\ rest.busy = sl.busy /\ rest.cb = sl.cb /\ rest.step = sl.step
          /\ rest.pending = sl.pending /\ rest.recv_comp = sl.recv_comp /\ rest.buf = sl.buf
          /\ rest.zcomps = sl.zcomps /\ rest.iter = sl.iter
          /\ rest.resend_flag = sl.resend_flag
      BY <1>5 DEF Alike
    <2> HIDE DEF to, MM, sl
    <2> QED BY ONLY <2>1, LikeFlow
  <1>7. /\ b \in MM[rest.step] /\ m = Msg(b, rest.run) /\ to # "execute"
        /\ Takes(r, rest.step, b, MM, less)
    BY <1>1, <1>4 DEF Takes, Without, Alike
  <1> HIDE DEF MM, to, less
  <1>8. Goes(r, rest, m, Callback(r, rest, m), less)
    BY ONLY FlowFits, r \in Ranks, rest \in SlotRecords(r), Scanning(r, rest), m \in Mail(r),
            <1>6, <1>7, CallbackFlow
  <1> QED BY <1>1, <1>3, <1>4, <1>8 DEF less, MM

\* When it moves the step on, it was the last one.
LEMMA LastTaken ==
  ASSUME FlowFits, EngineInv, FlowInv, NEW r \in Ranks, NEW s \in SlotIds,
         NEW rest \in SlotRecords(r), Scanning(r, rest), Alike(rest, slot[r][s]),
         NEW m \in Mail(r), m \in Pool, Matches(r, slot[r][s], m),
         Activation(r, s) # "execute", Callback(r, rest, m).at # "more",
         NEW n \in Mail(r), n \in Pool, Matches(r, slot[r][s], n)
  PROVE  n = m
  <1> DEFINE sl == slot[r][s]
             i  == sl.step
  <1>1. /\ next[r] > s
        /\ \E k \in RunIds : k = sl.run /\ \E b \in Missing(r, k)[i] :
             /\ b \in Posts(Plan) /\ m = Msg(b, k)
             /\ Goes(r, rest, m, Callback(r, rest, m),
                     Without(r, rest.step, b, Missing(r, k)))
    BY Taking
  <1>2. PICK k \in RunIds : k = sl.run /\ \E b \in Missing(r, k)[i] :
             /\ b \in Posts(Plan) /\ m = Msg(b, k)
             /\ Goes(r, rest, m, Callback(r, rest, m),
                     Without(r, rest.step, b, Missing(r, k)))
    BY <1>1
  <1>3. PICK b \in Missing(r, k)[i] :
             /\ b \in Posts(Plan) /\ m = Msg(b, k)
             /\ Goes(r, rest, m, Callback(r, rest, m),
                     Without(r, rest.step, b, Missing(r, k)))
    BY <1>2
  <1>4. Without(r, rest.step, b, Missing(r, k))[rest.step] = {}
    BY <1>3 DEF Goes
  <1>5. i = rest.step /\ i \in DOMAIN Plan[r]
    <2>1. rest.step \in DOMAIN Plan[r]
      BY RecordFields
    <2> QED BY <2>1 DEF Alike
  <1>6. Missing(r, k)[i] \subseteq {b}
    BY <1>4, <1>5 DEF Without
  <1>7. sl.busy /\ n.to = r
    BY DEF Scanning, Waiting, Mail, Alike
  <1>8. \E c \in Missing(r, sl.run)[i] : c \in Posts(Plan) /\ n = Msg(c, sl.run)
    BY <1>7, MatchIsMissing
  <1> QED BY <1>2, <1>3, <1>6, <1>8

\* An entry that gives the step a message that was in the pool.
LEMMA TakeFlow ==
  ASSUME FlowFits, EngineInv, EngineInv', FlowInv, OnceInv', next' = next,
         NEW r \in Ranks, NEW s \in SlotIds, pc.at = "out" \/ (pc.rank = r /\ pc.slot = s),
         NEW rest \in SlotRecords(r), Scanning(r, rest), Alike(rest, slot[r][s]),
         NEW m \in Mail(r), m \in Pool, Matches(r, slot[r][s], m),
         NEW res, res = Callback(r, rest, m),
         NEW at, at = res.at \/ (res.at = "more" /\ at # "execute"),
         Activation(r, s) # "execute",
         NEW depth, NEW then, Enter(r, s, res.slot, at, depth, then),
         \A n : n \in Pool' <=> n \in Pool /\ n # m
  PROVE  FlowInv'
  <1>1. /\ next[r] > s
        /\ \E k \in RunIds : k = slot[r][s].run /\ \E b \in Missing(r, k)[slot[r][s].step] :
             /\ b \in Posts(Plan) /\ m = Msg(b, k)
             /\ Goes(r, rest, m, res, Without(r, rest.step, b, Missing(r, k)))
    BY Taking
  <1>2. PICK k \in RunIds :
             k = slot[r][s].run /\ \E b \in Missing(r, k)[slot[r][s].step] :
             /\ b \in Posts(Plan) /\ m = Msg(b, k)
             /\ Goes(r, rest, m, res, Without(r, rest.step, b, Missing(r, k)))
    BY <1>1
  <1>3. PICK b \in Missing(r, k)[slot[r][s].step] :
             /\ b \in Posts(Plan) /\ m = Msg(b, k)
             /\ Goes(r, rest, m, res, Without(r, rest.step, b, Missing(r, k)))
    BY <1>2
  <1> DEFINE X    == {}
             T    == {b}
             less == Without(r, rest.step, b, Missing(r, k))
  <1>4. /\ res.slot.run = k /\ res.slot.coll_id = slot[r][s].coll_id
        /\ \A off \in Offsets :
             DOMAIN res.slot.buf[off] \subseteq DOMAIN slot[r][s].buf[off] \cup DOMAIN m.data
        /\ \A a \in Posts(Plan) : a.from = r => (Through(res.slot, a) <=> Through(rest, a))
        /\ SlotFlow(r, res.slot, at, less)
    BY <1>2, <1>3 DEF Goes, Alike
  <1>5. /\ slot'[r][s] = res.slot /\ Activation(r, s)' = at
        /\ \A q \in Ranks, t \in SlotIds : q # r \/ t # s =>
             slot'[q][t] = slot[q][t] /\ Activation(q, t)' = Activation(q, t)
    BY Entered
  <1>6. \A a \in X : /\ a \in Posts(Plan) /\ a.from = r /\ ~ Through(slot[r][s], a)
                     /\ \E off \in Offsets : Msg(a, k).data = slot[r][s].buf[off]
    OBVIOUS
  <1>7. \A a \in T : a \in Missing(r, k)[slot[r][s].step] /\ Msg(a, k) \in Pool
    BY <1>3
  <1>8. \A a \in Posts(Plan) : a.from = r =>
          (Through(res.slot, a) <=> Through(slot[r][s], a) \/ a \in X)
    BY <1>4, ThroughSame DEF Alike
  <1>9. \A n : n \in Pool' <=> /\ n \in Pool \/ \E a \in X : n = Msg(a, k)
                               /\ ~ \E a \in T : n = Msg(a, k)
    BY <1>3
  <1>10. \A off \in Offsets : \A x \in DOMAIN res.slot.buf[off] :
           \/ x \in DOMAIN slot[r][s].buf[off]
           \/ \E a \in T : x \in DOMAIN Msg(a, k).data
    BY <1>3, <1>4
  <1>11. \A i \in DOMAIN Plan[r] :
           less[i] = IF i = slot[r][s].step THEN Missing(r, k)[i] \ T ELSE Missing(r, k)[i]
    BY DEF Without, Alike
  <1>12. next[r] > s => SlotFlow(r, res.slot, Activation(r, s)', less)
    BY <1>4, <1>5
  <1>13. /\ X # {} \/ T # {} => next[r] > s
         /\ k = slot[r][s].run
         /\ res.slot.busy => slot[r][s].busy
    BY <1>1, <1>2 DEF Scanning, Waiting, Alike
  <1> HIDE DEF T, X, less
  <1>14. Advances(r, s, res.slot, k, X, T, less)
    BY <1>4, <1>5, <1>6, <1>7, <1>8, <1>9, <1>10, <1>11, <1>12, <1>13 DEF Advances
  <1> QED BY ONLY <1>14, FlowFits, EngineInv, EngineInv', FlowInv, OnceInv', next' = next,
                  r \in Ranks, s \in SlotIds, StepFlow

-----------------------------------------------------------------------------
(***************************************************************************)
(* What the activations do with messages.                                  *)
(***************************************************************************)
\* The id of a collective selects its slot.
LEMMA IdSelects ==
  ASSUME NEW k \in Nat
  PROVE  (k % IdSpace) % Slots = k % Slots
  <1> DEFINE f == k % Slots
             c == k \div Slots
             d == IdSpace \div Slots
             e == k \div IdSpace
             g == k % IdSpace
             h == c - d * e
  <1>1. Slots \in Nat \ {0} /\ IdSpace \in Nat \ {0} /\ IdSpace % Slots = 0
    BY EngineAssumption
  <1>2. /\ c \in Int /\ f \in 0 .. Slots - 1 /\ k = Slots * c + f
        /\ e \in Int /\ g \in 0 .. IdSpace - 1 /\ k = IdSpace * e + g
    BY <1>1, DivMod
  <1>3. d \in Int /\ IdSpace = Slots * d
    <2>1. d \in Int /\ IdSpace = Slots * d + (IdSpace % Slots)
      BY <1>1, DivMod
    <2> QED BY <1>1, <2>1
  <1> HIDE DEF c, d, e, f, g
  <1>4. h \in Int /\ g = Slots * h + f
    <2>1. (Slots * d) * e = Slots * (d * e)
      BY <1>1, <1>2, <1>3
    <2>2. d * e \in Int
      BY <1>2, <1>3
    <2>3. Slots * (c - d * e) = Slots * c - Slots * (d * e)
      BY <1>1, <1>2, <2>2
    <2>4. Slots * c \in Int /\ Slots * (d * e) \in Int
      BY <1>1, <1>2, <2>2
    <2> QED BY <1>2, <1>3, <2>1, <2>2, <2>3, <2>4
  <1> HIDE DEF h
  <1>5. Slots \in Nat \ {0} /\ h \in Int /\ f \in 0 .. Slots - 1 /\ g \in Int /\ g = Slots * h + f
    BY <1>1, <1>2, <1>4
  <1>6. g % Slots = f
    BY ONLY <1>5, ModUnique
  <1> QED BY <1>6 DEF f, g

\* The message that waits for the stored ones to be looked through.
LEMMA ThenWhere ==
  ASSUME EngineInv, FlowInv, NEW m \in pc.then
  PROVE  /\ pc.at = "scan" /\ pc.then = {m} /\ m \in Pool
         /\ m \in Mail(pc.rank) /\ m.to = pc.rank /\ m.coll_id % Slots = pc.slot
         /\ Matches(pc.rank, slot[pc.rank][pc.slot], m)
         /\ IsRecv(StepAt(pc.rank, slot[pc.rank][pc.slot]))
  <1> DEFINE r  == pc.rank
             s  == pc.slot
             sl == slot[r][s]
  <1>1. /\ pc.at = "scan" /\ r \in Ranks /\ s \in SlotIds /\ m \in Mail(r)
        /\ pc.then = {m} /\ Matches(r, sl, m) /\ IsRecv(StepAt(r, sl))
    BY DEF EngineInv, PcInv, FlowInv, OnceInv
  <1>2. m.to = r /\ m \in Pool
    BY <1>1 DEF Mail, Pool
  <1>3. sl \in SlotRecords(r) /\ sl.busy
    <2>1. sl \in SlotRecords(r) /\ SlotAt(r, sl, "scan")
      BY <1>1 DEF EngineInv, SlotsInv, Activation
    <2> QED BY <2>1 DEF SlotAt, Scanning, Waiting
  <1>4. ~ (next[r] <= s)
    BY <1>1, <1>3 DEF FlowInv, RunsInv
  <1>5. sl.run % Slots = s /\ sl.coll_id = sl.run % IdSpace
    BY <1>1, <1>4 DEF FlowInv, RunsInv
  <1>6. sl.run \in Nat
    <2> HIDE DEF r, sl
    <2> QED BY <1>1, <1>3, RecordFields DEF RunIds
  <1>7. m.coll_id = sl.coll_id
    BY <1>1 DEF Matches
  <1>8. m.coll_id % Slots = s
    BY <1>5, <1>6, <1>7, IdSelects
  <1> QED BY <1>1, <1>2, <1>8

\* What is sent is new.
LEMMA Fresher ==
  ASSUME FlowFits, FlowInv, NEW r \in Ranks, NEW s \in SlotIds, NEW k, k = slot[r][s].run,
         k % Slots = s, NEW a \in Posts(Plan), a.from = r, ~ Through(slot[r][s], a)
  PROVE  Msg(a, k) \notin Pool
  <1>1. SUFFICES ASSUME Msg(a, k) \in Pool PROVE FALSE
    OBVIOUS
  <1>2. PICK b \in Posts(Plan), l \in RunIds : Posted(b, l) /\ Msg(a, k) = Msg(b, l)
    BY <1>1 DEF FlowInv, GenuineInv
  <1>3. a = b /\ k = l
    BY <1>2, MsgInjective
  <1> QED BY <1>2, <1>3 DEF Posted

\* An activation that only sends.
LEMMA SendMoves ==
  ASSUME FlowFits, EngineInv, EngineInv', FlowInv, NEW r \in Ranks, NEW s \in SlotIds,
         pc.at = "out" \/ (pc.rank = r /\ pc.slot = s), pc.then = {},
         NEW new, NEW at, NEW depth, Enter(r, s, new, at, depth, {}),
         new.msgs = slot[r][s].msgs, NEW k, k = slot[r][s].run,
         NEW X, X # {} => next[r] > s,
         \A a \in X : a \in Posts(Plan) /\ a.from = r /\ ~ Through(slot[r][s], a),
         net' = net \cup Messages(X, k)
  PROVE  OnceInv' /\ Pool' = Pool \cup Messages(X, k)
  <1> DEFINE F == Messages(X, k)
             C == {}
             old == slot[r][s]
  <1>1. /\ slot'[r][s] = new /\ pc'.then = {}
        /\ \A q \in Ranks, t \in SlotIds : q # r \/ t # s => slot'[q][t] = slot[q][t]
    BY Entered
  <1>2. F \cap Pool = {}
    <2>1. ASSUME NEW a \in X PROVE Msg(a, k) \notin Pool
      <3>1. k % Slots = s
        BY <2>1, FlowNow
      <3> QED BY <2>1, <3>1, Fresher
    <2> QED BY <2>1 DEF Messages
  <1>3. MsgsOf(new) = MsgsOf(old) /\ OnceInv /\ StoredOnce(r, s)
    BY DEF MsgsOf, FlowInv, OnceInv
  <1>4. MsgsOf(old) \subseteq Pool /\ \A m \in MsgsOf(old) : m.to = r /\ m.coll_id % Slots = s
    BY <1>3, StoredWhere DEF Pool
  <1>5. net' \cap MsgsOf(new) = {}
    BY <1>2, <1>3, <1>4 DEF StoredOnce
  <1>6. \A i, j \in DOMAIN new.msgs : new.msgs[i] = new.msgs[j] => i = j
    BY <1>3 DEF StoredOnce
  <1>7. net' \cup pc'.then \cup MsgsOf(new) = (net \cup pc.then \cup MsgsOf(old) \cup F) \ C
    BY <1>1, <1>3
  <1>8. /\ \A m \in C \cup MsgsOf(new) \cup pc'.then : m.to = r /\ m.coll_id % Slots = s
        /\ net' \subseteq net \cup F /\ net' \cap pc'.then = {}
        /\ pc'.then \cap MsgsOf(new) = {}
        /\ \A m, n \in pc'.then : m = n
        /\ \A m \in pc'.then : pc'.rank = r /\ pc'.slot = s /\ Matches(r, new, m)
    BY <1>1, <1>3, <1>4
  <1> HIDE DEF F, C, old
  <1>9. OnceInv' /\ Pool' = (Pool \cup F) \ C
    <2> QED BY ONLY EngineInv, EngineInv', r \in Ranks, s \in SlotIds,
                    <1>1, <1>2, <1>3, <1>5, <1>6, <1>7, <1>8, MovesKeep DEF old
  <1> QED BY <1>9 DEF F, C

\* A message that comes in is stored, or waits for the stored ones.
LEMMA ArriveMoves ==
  ASSUME EngineInv, EngineInv', FlowInv, NEW r \in Ranks, NEW s \in SlotIds, pc.at = "out",
         NEW m \in net, m.to = r, m.coll_id % Slots = s, net' = net \ {m},
         NEW new, NEW at, NEW depth, NEW then, Enter(r, s, new, at, depth, then),
         \/ new.msgs = Append(slot[r][s].msgs, m) /\ then = {}
         \/ /\ new.msgs = slot[r][s].msgs /\ then = {m} /\ at # "out"
            /\ Matches(r, new, m)
  PROVE  OnceInv' /\ Pool' = Pool
  <1> DEFINE F == {}
             C == {}
             old == slot[r][s]
  <1>1. /\ slot'[r][s] = new
        /\ \A q \in Ranks, t \in SlotIds : q # r \/ t # s => slot'[q][t] = slot[q][t]
        /\ at = "out" => pc'.then = {}
        /\ at # "out" => pc'.then = then /\ pc'.rank = r /\ pc'.slot = s
    BY Entered
  <1>2. OnceInv /\ StoredOnce(r, s) /\ pc.then = {}
    BY DEF FlowInv, OnceInv, EngineInv, PcInv
  <1>3. \A n \in MsgsOf(old) : n.to = r /\ n.coll_id % Slots = s
    BY <1>2, StoredWhere
  <1>4. old.msgs \in Seq(Mail(r)) /\ m \in Mail(r)
    BY RecordFields DEF EngineInv, SlotsInv, NetInv
  <1>5. m \notin MsgsOf(old) /\ \A i, j \in DOMAIN old.msgs : old.msgs[i] = old.msgs[j] => i = j
    BY <1>2 DEF StoredOnce
  <1>6. /\ net' \cup pc'.then \cup MsgsOf(new) = (net \cup pc.then \cup MsgsOf(old) \cup F) \ C
        /\ net' \cap MsgsOf(new) = {} /\ pc'.then \cap MsgsOf(new) = {}
        /\ \A i, j \in DOMAIN new.msgs : new.msgs[i] = new.msgs[j] => i = j
        /\ \A n \in MsgsOf(new) \cup pc'.then : n.to = r /\ n.coll_id % Slots = s
        /\ net' \cap pc'.then = {}
        /\ \A n, o \in pc'.then : n = o
        /\ \A n \in pc'.then : pc'.rank = r /\ pc'.slot = s /\ Matches(r, new, n)
    <2>1. CASE new.msgs = Append(old.msgs, m) /\ then = {}
      <3>1. MsgsOf(new) = MsgsOf(old) \cup {m} /\ pc'.then = {}
        <4> HIDE DEF old
        <4>1. MsgsOf(new) = MsgsOf(old) \cup {m}
          <5>1. {Append(old.msgs, m)[i] : i \in DOMAIN Append(old.msgs, m)} =
                  {old.msgs[i] : i \in DOMAIN old.msgs} \cup {m}
            <6>1. PICK t \in Seq(Mail(r)) : t = old.msgs
              BY <1>4
            <6>2. {Append(t, m)[i] : i \in DOMAIN Append(t, m)} = {t[i] : i \in DOMAIN t} \cup {m}
              BY <1>4
            <6> QED BY <6>1, <6>2
          <5>2. MsgsOf(new) = {Append(old.msgs, m)[i] : i \in DOMAIN Append(old.msgs, m)}
            BY <2>1 DEF MsgsOf
          <5> QED BY <5>1, <5>2 DEF MsgsOf
        <4> QED BY <1>1, <1>2, <2>1, <4>1
      <3>2. \A i, j \in DOMAIN new.msgs : new.msgs[i] = new.msgs[j] => i = j
        <4> DEFINE t == old.msgs
        <4>1. /\ DOMAIN new.msgs = 1 .. Len(t) + 1 /\ DOMAIN t = 1 .. Len(t) /\ Len(t) \in Nat
              /\ new.msgs[Len(t) + 1] = m
              /\ \A i \in 1 .. Len(t) : new.msgs[i] = t[i] /\ t[i] # m
          <5>1. t \in Seq(Mail(r)) /\ m \in Mail(r) /\ new.msgs = Append(t, m)
            BY <1>4, <2>1
          <5>2. m \notin {t[i] : i \in DOMAIN t}
            BY <1>5 DEF MsgsOf
          <5> HIDE DEF t, old
          <5>3. /\ DOMAIN Append(t, m) = 1 .. Len(t) + 1 /\ DOMAIN t = 1 .. Len(t) /\ Len(t) \in Nat
                /\ Append(t, m)[Len(t) + 1] = m
                /\ \A i \in 1 .. Len(t) : Append(t, m)[i] = t[i]
            BY ONLY <5>1
          <5> QED BY ONLY <5>1, <5>2, <5>3
        <4>2. \A i \in DOMAIN new.msgs : i = Len(t) + 1 \/ i \in 1 .. Len(t)
          BY <4>1
        <4> HIDE DEF t, old
        <4> QED BY <1>5, <4>1, <4>2 DEF t
      <3>3. net \cap MsgsOf(old) = {}
        BY <1>2 DEF StoredOnce
      <3> QED BY <1>2, <1>3, <3>1, <3>2, <3>3
    <2>2. CASE /\ new.msgs = old.msgs /\ then = {m} /\ at # "out"
               /\ Matches(r, new, m)
      <3>1. MsgsOf(new) = MsgsOf(old) /\ pc'.then = {m}
        BY <1>1, <2>2 DEF MsgsOf
      <3>2. net \cap MsgsOf(old) = {}
        BY <1>2 DEF StoredOnce
      <3> QED BY <1>1, <1>2, <1>3, <1>5, <2>2, <3>1, <3>2
    <2> QED BY <2>1, <2>2
  <1>7. /\ F \cap Pool = {} /\ net' \subseteq net \cup F
        /\ \A n \in C \cup MsgsOf(new) \cup pc'.then : n.to = r /\ n.coll_id % Slots = s
    BY <1>6
  <1> HIDE DEF F, C, old
  <1>8. OnceInv' /\ Pool' = (Pool \cup F) \ C
    BY <1>1, <1>2, <1>6, <1>7, MovesKeep DEF old
  <1> QED BY <1>8 DEF F, C

\* A message is given to the step.
LEMMA TakeMoves ==
  ASSUME EngineInv, EngineInv', FlowInv, NEW r \in Ranks, NEW s \in SlotIds,
         pc.at = "out" \/ (pc.rank = r /\ pc.slot = s),
         NEW m, m.to = r, m.coll_id % Slots = s,
         NEW new, NEW at, NEW depth, NEW then, Enter(r, s, new, at, depth, then),
         at = "out" \/ then = {} => pc.then \subseteq {m},
         at # "out" /\ then # {} => /\ then = pc.then /\ pc.rank = r /\ pc.slot = s
                                    /\ \A n \in then : Matches(r, new, n),
         net' = net \ {m}, m \in net \cup pc.then \cup MsgsOf(slot[r][s]),
         \A i, j \in DOMAIN new.msgs : new.msgs[i] = new.msgs[j] => i = j,
         MsgsOf(new) = MsgsOf(slot[r][s]) \ {m}, m \in then => at = "out"
  PROVE  OnceInv' /\ \A n : n \in Pool' <=> n \in Pool /\ n # m
  <1> DEFINE F == {}
             C == {m}
             old == slot[r][s]
  <1>1. /\ slot'[r][s] = new
        /\ \A q \in Ranks, t \in SlotIds : q # r \/ t # s => slot'[q][t] = slot[q][t]
        /\ at = "out" => pc'.then = {}
        /\ at # "out" => pc'.then = then /\ pc'.rank = r /\ pc'.slot = s
    BY Entered
  <1>2. OnceInv /\ StoredOnce(r, s)
    BY DEF FlowInv, OnceInv
  <1>3. \A n \in MsgsOf(old) : n.to = r /\ n.coll_id % Slots = s
    BY <1>2, StoredWhere
  <1>4. /\ net \cap MsgsOf(old) = {} /\ pc.then \cap MsgsOf(old) = {} /\ net \cap pc.then = {}
        /\ \A n, o \in pc.then : n = o
    BY <1>2 DEF StoredOnce, OnceInv
  <1>5. /\ pc'.then \subseteq pc.then /\ m \notin pc'.then
        /\ pc.then \subseteq pc'.then \cup {m}
        /\ \A n \in pc'.then : pc'.rank = r /\ pc'.slot = s /\ Matches(r, new, n)
    BY <1>1
  <1>6. \A n \in pc'.then : n.to = r /\ n.coll_id % Slots = s
    BY <1>1, <1>5, ThenWhere
  <1>7. /\ net' \cup pc'.then \cup MsgsOf(new) = (net \cup pc.then \cup MsgsOf(old) \cup F) \ C
        /\ net' \cap MsgsOf(new) = {} /\ pc'.then \cap MsgsOf(new) = {}
        /\ net' \cap pc'.then = {}
        /\ \A n, o \in pc'.then : n = o
        /\ F \cap Pool = {} /\ net' \subseteq net \cup F
        /\ \A n \in C \cup MsgsOf(new) \cup pc'.then : n.to = r /\ n.coll_id % Slots = s
    BY <1>3, <1>4, <1>5, <1>6
  <1> HIDE DEF F, C, old
  <1>8. OnceInv' /\ Pool' = (Pool \cup F) \ C
    BY <1>1, <1>2, <1>5, <1>7, MovesKeep DEF old
  <1> QED BY <1>8 DEF F, C

-----------------------------------------------------------------------------
(***************************************************************************)
(* Each entry and each activation keeps the invariant.                     *)
(***************************************************************************)
\* What is known of a slot whose collective, the k-th, is not completed.
Now(r, s, k) ==
  LET sl == slot[r][s]
      M  == Missing(r, k)[sl.step]
  IN  /\ sl \in SlotRecords(r) /\ sl.busy /\ sl.step \in DOMAIN Plan[r]
      /\ k \in RunIds /\ k = sl.run /\ k % Slots = s /\ next[r] > s
      /\ sl.coll_id = k % IdSpace
      /\ \A i \in DOMAIN Plan[r] : i < sl.step => Missing(r, k)[i] = {}
      /\ \A i \in DOMAIN Plan[r] : i > sl.step => Missing(r, k)[i] = Arrivals(Plan, r, i)
      /\ M \subseteq Arrivals(Plan, r, sl.step)
      /\ Cardinality(M) \in Nat /\ Cardinality(M) <= WaitsFor(StepAt(r, sl))
      /\ Counts(r, sl, Activation(r, s), M) /\ Balanced(r, sl, Activation(r, s), M)
      /\ Holds(r, sl, M)
      /\ IsSendOnly(StepAt(r, sl)) => M = {}

\* A slot in use has a collective of its own.
LEMMA BusyNow ==
  ASSUME FlowFits, EngineInv, FlowInv, NEW r \in Ranks, NEW s \in SlotIds, slot[r][s].busy
  PROVE  \E k \in RunIds : Now(r, s, k)
  <1> DEFINE sl == slot[r][s]
  <1>1. sl \in SlotRecords(r)
    BY DEF EngineInv, SlotsInv
  <1>2. sl.step \in DOMAIN Plan[r] /\ StepAt(r, sl) = Plan[r][sl.step] /\ sl.run \in RunIds
    <2> HIDE DEF sl
    <2> QED BY <1>1, RecordFields
  <1>3. PICK k \in RunIds : k = sl.run
    BY <1>2
  <1>4. next[r] > s
    <2>1. s \in Int /\ next[r] \in Int
      BY DEF SlotIds, EngineInv
    <2> QED BY <2>1 DEF FlowInv, RunsInv
  <1>5. /\ SlotFlow(r, sl, Activation(r, s), Missing(r, k))
        /\ k % Slots = s /\ sl.coll_id = k % IdSpace
    BY <1>3, <1>4, FlowNow
  <1> DEFINE M == Missing(r, k)[sl.step]
  <1>6. /\ \A i \in DOMAIN Plan[r] : i < sl.step => Missing(r, k)[i] = {}
        /\ \A i \in DOMAIN Plan[r] : i > sl.step => Missing(r, k)[i] = Arrivals(Plan, r, i)
        /\ M \subseteq Arrivals(Plan, r, sl.step)
        /\ Counts(r, sl, Activation(r, s), M) /\ Balanced(r, sl, Activation(r, s), M)
        /\ Holds(r, sl, M)
    BY <1>5 DEF SlotFlow
  <1>7. IsFiniteSet(M) /\ Cardinality(M) \in Nat /\ Cardinality(M) <= WaitsFor(StepAt(r, sl))
    <2>1. PICK i \in DOMAIN Plan[r] : i = sl.step
      BY <1>2
    <2>2. M \in SUBSET Arrivals(Plan, r, i)
      BY <1>6, <2>1
    <2> HIDE DEF M, sl
    <2>3. IsFiniteSet(M) /\ Cardinality(M) \in Nat /\ Cardinality(M) <= WaitsFor(Plan[r][i])
      BY <2>2, ArrivalFacts
    <2> QED BY <1>2, <2>1, <2>3
  <1>8. IsSendOnly(StepAt(r, sl)) => M = {}
    <2>1. IsSendOnly(StepAt(r, sl)) => Cardinality(M) = 0
      BY <1>7 DEF WaitsFor
    <2> HIDE DEF M, sl
    <2> QED BY <1>7, <2>1, FS_EmptySet
  <1> QED BY <1>1, <1>2, <1>3, <1>4, <1>5, <1>6, <1>7, <1>8 DEF Now

\* The slot stays in its step, whose counts still fit.
LEMMA MidFlow ==
  ASSUME NEW r \in Ranks, NEW s \in SlotIds, NEW k, Now(r, s, k), NEW new, NEW at,
         new.busy, new.step = slot[r][s].step, new.run = slot[r][s].run,
         new.buf = slot[r][s].buf, Counts(r, new, at, Missing(r, k)[slot[r][s].step]),
         Balanced(r, new, at, Missing(r, k)[slot[r][s].step])
  PROVE  SlotFlow(r, new, at, Missing(r, k))
  <1>1. Holds(r, new, Missing(r, k)[slot[r][s].step])
    <2>1. Holds(r, slot[r][s], Missing(r, k)[slot[r][s].step])
      BY ONLY Now(r, s, k) DEF Now
    <2>2. new.step = slot[r][s].step /\ new.run = slot[r][s].run /\ new.buf = slot[r][s].buf
      OBVIOUS
    <2> QED BY ONLY <2>1, <2>2 DEF Holds
  <1>2. /\ slot[r][s].step \in DOMAIN Plan[r]
        /\ Missing(r, k)[slot[r][s].step] \subseteq Arrivals(Plan, r, slot[r][s].step)
        /\ \A i \in DOMAIN Plan[r] : i < slot[r][s].step => Missing(r, k)[i] = {}
        /\ \A i \in DOMAIN Plan[r] :
             i > slot[r][s].step => Missing(r, k)[i] = Arrivals(Plan, r, i)
    BY DEF Now
  <1> QED BY <1>1, <1>2 DEF SlotFlow

\* The step it completes has got everything.
LEMMA EndFlow ==
  ASSUME FlowFits, NEW r \in Ranks, NEW s \in SlotIds, NEW k, Now(r, s, k),
         Missing(r, k)[slot[r][s].step] = {},
         NEW sl \in SlotRecords(r), sl.busy, AllRewound(r, sl), sl.zcomps = 0,
         sl.step = slot[r][s].step, sl.run = slot[r][s].run, sl.buf = slot[r][s].buf
  PROVE  /\ SlotFlow(r, CompleteStep(r, sl), AfterStep(r, sl), Missing(r, k))
         /\ CompleteStep(r, sl).run = sl.run /\ CompleteStep(r, sl).coll_id = sl.coll_id
         /\ CompleteStep(r, sl).msgs = sl.msgs /\ CompleteStep(r, sl).buf = sl.buf
         /\ \A a \in Posts(Plan) :
              a.from = r => (Through(CompleteStep(r, sl), a) <=> a.step <= sl.step)
  <1> DEFINE MM == Missing(r, k)
  <1>1. /\ MM[sl.step] = {} /\ Holds(r, sl, {})
        /\ \A i \in DOMAIN Plan[r] : i < sl.step => MM[i] = {}
        /\ \A i \in DOMAIN Plan[r] : i > sl.step => MM[i] = Arrivals(Plan, r, i)
    BY DEF Now, Holds
  <1> HIDE DEF MM
  <1> QED BY <1>1, CompleteFlow DEF MM

\* A step gives away no message of its own, but may send.
LEMMA SendFlow ==
  ASSUME FlowFits, EngineInv, EngineInv', FlowInv, next' = next,
         NEW r \in Ranks, NEW s \in SlotIds, pc.at = "out" \/ (pc.rank = r /\ pc.slot = s),
         pc.then = {}, NEW new, NEW at, NEW depth, Enter(r, s, new, at, depth, {}),
         NEW k, Now(r, s, k), new.run = slot[r][s].run, new.coll_id = slot[r][s].coll_id,
         new.buf = slot[r][s].buf, new.msgs = slot[r][s].msgs,
         NEW X,
         Sends(r, s, new, k, X),
         net' = net \cup Messages(X, k),
         SlotFlow(r, new, at, Missing(r, k))
  PROVE  FlowInv'
  <1>1. /\ k = slot[r][s].run /\ slot[r][s].busy /\ next[r] > s
    BY DEF Now
  <1>2. OnceInv' /\ Pool' = Pool \cup Messages(X, k)
    <2>1. \A a \in X : a \in Posts(Plan) /\ a.from = r /\ ~ Through(slot[r][s], a)
      BY DEF Sends
    <2>2. /\ pc.at = "out" \/ (pc.rank = r /\ pc.slot = s)
          /\ pc.then = {} /\ Enter(r, s, new, at, depth, {})
          /\ new.msgs = slot[r][s].msgs /\ k = slot[r][s].run /\ (X # {} => next[r] > s)
          /\ net' = net \cup Messages(X, k)
      BY <1>1
    <2> QED BY ONLY FlowFits, EngineInv, EngineInv', FlowInv, r \in Ranks, s \in SlotIds,
                    <2>1, <2>2, SendMoves
  <1>3. /\ pc.at = "out" \/ (pc.rank = r /\ pc.slot = s)
        /\ Enter(r, s, new, at, depth, {})
        /\ k = slot[r][s].run /\ new.run = k /\ new.coll_id = slot[r][s].coll_id
        /\ (new.busy => slot[r][s].busy) /\ new.buf = slot[r][s].buf
        /\ (X # {} => next[r] > s)
        /\ (next[r] > s => SlotFlow(r, new, at, Missing(r, k)))
    BY <1>1
  <1> QED BY ONLY FlowFits, EngineInv, EngineInv', FlowInv, next' = next, r \in Ranks,
                  s \in SlotIds, Sends(r, s, new, k, X), <1>2, <1>3, KeepFlow

\* New leaves the data, the messages and the sends of slot s alone.
Stays(r, s, new) ==
  /\ new.run = slot[r][s].run /\ new.coll_id = slot[r][s].coll_id
  /\ new.buf = slot[r][s].buf /\ new.msgs = slot[r][s].msgs
  /\ \A a \in Posts(Plan) : a.from = r => (Through(new, a) <=> Through(slot[r][s], a))

\* A step neither sends nor gets a message.
LEMMA QuietFlow ==
  ASSUME FlowFits, EngineInv, EngineInv', FlowInv, next' = next, net' = net,
         NEW r \in Ranks, NEW s \in SlotIds, pc.at = "out" \/ (pc.rank = r /\ pc.slot = s),
         pc.then = {}, NEW new, NEW at, NEW depth, Enter(r, s, new, at, depth, {}),
         NEW k, Now(r, s, k), Stays(r, s, new), SlotFlow(r, new, at, Missing(r, k))
  PROVE  FlowInv'
  <1> DEFINE X == {}
  <1>1. Sends(r, s, new, k, X) /\ net' = net \cup Messages(X, k)
    BY DEF Sends, Stays, Messages
  <1> HIDE DEF X
  <1>2. /\ pc.at = "out" \/ (pc.rank = r /\ pc.slot = s)
        /\ pc.then = {} /\ Enter(r, s, new, at, depth, {})
        /\ Now(r, s, k) /\ new.run = slot[r][s].run /\ new.coll_id = slot[r][s].coll_id
        /\ new.buf = slot[r][s].buf /\ new.msgs = slot[r][s].msgs
        /\ SlotFlow(r, new, at, Missing(r, k))
    BY DEF Stays
  <1> QED BY ONLY FlowFits, EngineInv, EngineInv', FlowInv, next' = next, r \in Ranks,
                  s \in SlotIds, <1>1, <1>2, SendFlow

\* Nothing waits for the stored messages outside a scan.
LEMMA NothingWaits ==
  ASSUME EngineInv, pc.at # "scan"
  PROVE  pc.then = {}
  BY DEF EngineInv, PcInv

\* The first half of a waypoint.
LEMMA ReceiveFirstFlow ==
  ASSUME FlowFits, EngineInv, EngineInv', FlowInv, NEW r \in Ranks, NEW s \in SlotIds,
         ExecuteReceiveFirst(r, s)
  PROVE  FlowInv'
  <1> DEFINE sl  == slot[r][s]
             st  == StepAt(r, sl)
             cnt == IF IsR1S(st) THEN 1 ELSE Len(st.eps) - 1
             mid == [sl EXCEPT !.iter[sl.step] = cnt * Fragments(st),
                               !.pending = cnt * st.fragments_recv]
  <1>1. /\ Inside("execute", r, s) /\ IsWaypoint(st) /\ It(sl) < Fragments(st)
        /\ FinishSend(r, s, mid, pc.depth) /\ UNCHANGED <<next, net>>
    BY DEF ExecuteReceiveFirst, It
  <1>2. sl \in SlotRecords(r) /\ SlotAt(r, sl, "execute") /\ pc.then = {}
    BY <1>1, SlotNow, NothingWaits DEF EngineInv, Inside
  <1>3. \A a : Through(slot[r][s], a) <=> Through(sl, a)
    OBVIOUS
  <1> HIDE DEF sl
  <1>4. /\ sl.step \in DOMAIN Plan[r] /\ IsStep(st, Ranks, Offsets)
        /\ Fragments(st) \in Nat \ {0} /\ First(st) \in Nat /\ Fragments(st) <= First(st)
        /\ It(sl) \in Nat /\ Len(st.eps) \in Nat \ {0} /\ st.fragments_recv \in Nat \ {0}
    BY <1>1, <1>2, RecordFields, StepNumbers DEF IsStep
  <1>5. Fresh(r, sl)
    <2>1. ~ Second(r, sl) /\ ~ Refused(r, sl)
      BY <1>1, <1>4 DEF Second, Refused, st
    <2> QED BY <1>2, <2>1 DEF SlotAt
  <1>6. sl.busy /\ ~ sl.cb /\ ~ sl.recv_comp /\ It(sl) = 0 /\ sl.zcomps = 0
    BY <1>4, <1>5 DEF Fresh, AllRewound, Rewound, It
  <1>7. PICK k \in RunIds : Now(r, s, k)
    BY <1>6, BusyNow DEF sl
  <1>8. /\ cnt \in Nat /\ cnt * Fragments(st) = First(st)
        /\ cnt * st.fragments_recv \in Nat /\ cnt * st.fragments_recv = WaitsFor(st)
    <2>1. IsR1S(st) => ~ IsSendOnly(st) /\ ~ IsRS1(st)
      BY Kinds
    <2>2. ~ IsR1S(st) => IsRS1(st) /\ ~ IsSendOnly(st)
      BY <1>1, Kinds
    <2>3. Len(st.eps) - 1 \in Nat
      BY <1>4
    <2>4. CASE IsR1S(st)
      BY <1>4, <2>1, <2>4 DEF First, WaitsFor
    <2>5. CASE ~ IsR1S(st)
      <3>1. cnt = Len(st.eps) - 1 /\ WaitsFor(st) = st.fragments_recv * (Len(st.eps) - 1)
        BY <2>2, <2>5 DEF WaitsFor
      <3>2. First(st) = (Len(st.eps) - 1) * Fragments(st)
        BY <2>2, <2>5 DEF First
      <3>3. \A x, y \in Nat : x * y \in Nat /\ x * y = y * x
        OBVIOUS
      <3>4. Len(st.eps) - 1 \in Nat /\ st.fragments_recv \in Nat
        BY <1>4
      <3> HIDE DEF cnt
      <3> QED BY <2>3, <3>1, <3>2, <3>3, <3>4
    <2> QED BY <2>4, <2>5
  <1> HIDE DEF cnt
  <1>9. /\ mid \in SlotRecords(r) /\ mid.busy /\ mid.run = sl.run /\ mid.coll_id = sl.coll_id
        /\ mid.pending = WaitsFor(st) /\ mid.recv_comp = sl.recv_comp
        /\ mid.step = sl.step /\ mid.buf = sl.buf /\ mid.msgs = sl.msgs
        /\ mid.iter[sl.step] = First(st) /\ mid.zcomps = 0
    <2> HIDE DEF st
    <2> QED BY <1>2, <1>4, <1>6, <1>8 DEF SlotRecords
  <1> HIDE DEF mid
  <1>10. \E new, at, d :
           /\ Enter(r, s, new, at, d, {}) /\ at \in {"out", "scan"}
           /\ new.cb /\ new.busy = mid.busy /\ new.run = mid.run /\ new.coll_id = mid.coll_id
           /\ new.step = mid.step /\ new.pending = mid.pending /\ new.recv_comp = mid.recv_comp
           /\ new.buf = mid.buf /\ new.iter = mid.iter /\ new.msgs = mid.msgs
           /\ new.zcomps = mid.zcomps /\ ~ Flag(new)
    <2>1. FinishSend(r, s, mid, pc.depth) /\ mid \in SlotRecords(r)
      BY <1>1, <1>9
    <2> QED BY ONLY r \in Ranks, s \in SlotIds, <2>1, FinishSendShape
  <1>11. PICK new, at, d :
           /\ Enter(r, s, new, at, d, {}) /\ at \in {"out", "scan"}
           /\ new.cb /\ new.busy = mid.busy /\ new.run = mid.run /\ new.coll_id = mid.coll_id
           /\ new.step = mid.step /\ new.pending = mid.pending /\ new.recv_comp = mid.recv_comp
           /\ new.buf = mid.buf /\ new.iter = mid.iter /\ new.msgs = mid.msgs
           /\ new.zcomps = mid.zcomps /\ ~ Flag(new)
    BY <1>10
  <1>12. StepAt(r, new) = st
    BY <1>9, <1>11 DEF StepAt, st
  <1>13. Counts(r, new, at, Missing(r, k)[sl.step])
    <2>1. Cardinality(Missing(r, k)[sl.step]) <= WaitsFor(st)
      BY <1>7 DEF Now, st, sl
    <2> QED BY <1>1, <1>6, <1>9, <1>11, <1>12, <2>1, Kinds DEF Counts
  <1>17. Balanced(r, new, at, Missing(r, k)[sl.step])
    <2> DEFINE M == Missing(r, k)[sl.step]
    <2>1. Cardinality(M) = WaitsFor(st)
      <3>1. M = Arrivals(Plan, r, sl.step)
        BY <1>6, <1>7 DEF Now, Counts, sl
      <3> QED BY <1>4, <3>1, AllMissing DEF st, StepAt
    <2>2. It(new) = First(st) /\ First(st) # 0 /\ ~ IsSendOnly(st)
      BY <1>1, <1>4, <1>9, <1>11, Kinds DEF It
    <2>3. SendsBalanced(st, new)
      BY <1>11, <2>2, CalledBalanced
    <2> HIDE DEF M
    <2>4. new.pending = Cardinality(M) + new.zcomps
      <3>1. WaitsFor(st) \in Nat
        BY <1>8
      <3> QED BY <1>9, <1>11, <2>1, <3>1
    <2>5. Balanced(r, new, at, M)
      BY <1>12, <2>3, <2>4 DEF Balanced
    <2> QED BY <2>5 DEF M
  <1>14. ASSUME NEW a \in Posts(Plan), a.from = r PROVE Through(new, a) <=> Through(sl, a)
    <2>1. a.pos \in Nat /\ (a.step = sl.step => First(st) <= a.pos)
      BY <1>14, PostFacts DEF st, StepAt
    <2>2. SentUpTo(a.from, new) = First(st) /\ SentUpTo(a.from, sl) = 0
      BY <1>4, <1>6, <1>9, <1>11 DEF SentUpTo, It
    <2> QED BY <1>4, <1>6, <1>9, <1>11, <2>1, <2>2 DEF Through
  <1>15. Stays(r, s, new)
    BY <1>9, <1>11, <1>14 DEF Stays, sl
  <1>16. SlotFlow(r, new, at, Missing(r, k))
    BY <1>7, <1>9, <1>11, <1>13, <1>17, MidFlow DEF sl
  <1> QED BY <1>1, <1>2, <1>7, <1>11, <1>15, <1>16, QuietFlow DEF Inside

\* A step that only receives.
LEMMA ReceiveFlow ==
  ASSUME FlowFits, EngineInv, EngineInv', FlowInv, NEW r \in Ranks, NEW s \in SlotIds,
         ExecuteReceive(r, s)
  PROVE  FlowInv'
  <1> DEFINE sl == slot[r][s]
             st == StepAt(r, sl)
  <1>1. /\ Inside("execute", r, s) /\ IsRecvOnly(st)
        /\ FinishSend(r, s, sl, pc.depth) /\ UNCHANGED <<next, net>>
    BY DEF ExecuteReceive
  <1>2. sl \in SlotRecords(r) /\ SlotAt(r, sl, "execute") /\ pc.then = {}
    BY <1>1, SlotNow, NothingWaits DEF EngineInv, Inside
  <1> HIDE DEF sl
  <1>3. sl.step \in DOMAIN Plan[r] /\ sl.busy
    BY <1>2, RecordFields DEF SlotAt, Fresh, Second, Refused
  <1>4. PICK k \in RunIds : Now(r, s, k)
    BY <1>3, BusyNow DEF sl
  <1>5. \E new, at, d :
           /\ Enter(r, s, new, at, d, {}) /\ at \in {"out", "scan"}
           /\ new.cb /\ new.busy = sl.busy /\ new.run = sl.run /\ new.coll_id = sl.coll_id
           /\ new.step = sl.step /\ new.pending = sl.pending /\ new.recv_comp = sl.recv_comp
           /\ new.buf = sl.buf /\ new.iter = sl.iter /\ new.msgs = sl.msgs
           /\ new.zcomps = sl.zcomps /\ ~ Flag(new)
    BY <1>1, <1>2, FinishSendShape
  <1>6. PICK new, at, d :
           /\ Enter(r, s, new, at, d, {}) /\ at \in {"out", "scan"}
           /\ new.cb /\ new.busy = sl.busy /\ new.run = sl.run /\ new.coll_id = sl.coll_id
           /\ new.step = sl.step /\ new.pending = sl.pending /\ new.recv_comp = sl.recv_comp
           /\ new.buf = sl.buf /\ new.iter = sl.iter /\ new.msgs = sl.msgs
           /\ new.zcomps = sl.zcomps /\ ~ Flag(new)
    BY <1>5
  <1>7. StepAt(r, new) = st
    BY <1>6 DEF StepAt, st
  <1>8. Counts(r, new, at, Missing(r, k)[sl.step])
    <2>1. Counts(r, sl, Activation(r, s), Missing(r, k)[sl.step])
      BY <1>4 DEF Now, sl
    <2> QED BY <1>1, <1>6, <1>7, <2>1, Kinds DEF Counts, st
  <1>12. Balanced(r, new, at, Missing(r, k)[sl.step])
    <2> DEFINE M == Missing(r, k)[sl.step]
    <2>1. IsRecv(st) /\ ~ IsZcopy(st) /\ ~ IsWaypoint(st) /\ ~ IsSendOnly(st) /\ ~ IsR1S(st)
      BY <1>1, Kinds
    <2>2. ~ sl.cb /\ sl.zcomps = 0 /\ sl.pending = RecvCount(st)
      BY <1>1, <1>2, <2>1 DEF SlotAt, Fresh, Second, Refused, st
    <2>3. Cardinality(M) = RecvCount(st) /\ RecvCount(st) \in Nat
      <3>1. M = Arrivals(Plan, r, sl.step)
        BY <1>4, <2>2 DEF Now, Counts, sl
      <3>2. WaitsFor(st) = RecvCount(st) /\ IsStep(st, Ranks, Offsets)
        BY <1>3, <2>1, Kinds, PlanSteps DEF WaitsFor, st, StepAt
      <3> HIDE DEF M
      <3> QED BY <1>3, <3>1, <3>2, AllMissing, StepNumbers DEF st, StepAt
    <2> HIDE DEF M
    <2>4. SendsBalanced(st, new)
      BY <1>6, <2>1 DEF SendsBalanced
    <2>5. Balanced(r, new, at, M)
      BY <1>6, <1>7, <2>2, <2>3, <2>4 DEF Balanced
    <2> QED BY <2>5 DEF M
  <1>9. ASSUME NEW a \in Posts(Plan), a.from = r PROVE Through(new, a) <=> Through(sl, a)
    <2>1. a.step # sl.step
      BY <1>1, <1>9, PostFacts DEF st, StepAt
    <2> QED BY <1>6, <2>1 DEF Through
  <1>10. Stays(r, s, new)
    BY <1>6, <1>9 DEF Stays, sl
  <1>11. SlotFlow(r, new, at, Missing(r, k))
    BY <1>3, <1>4, <1>6, <1>8, <1>12, MidFlow DEF sl
  <1> QED BY <1>1, <1>2, <1>4, <1>6, <1>10, <1>11, QuietFlow DEF Inside

\* A request without resources is executed again.
LEMMA ResendFlow ==
  ASSUME FlowFits, EngineInv, EngineInv', FlowInv, NEW r \in Ranks, NEW s \in SlotIds,
         Resend(r, s)
  PROVE  FlowInv'
  <1> DEFINE sl  == slot[r][s]
             new == [sl EXCEPT !.resending = FALSE]
  <1>1. /\ pc.at = "out" /\ sl.resending
        /\ Enter(r, s, new, "execute", 0, {}) /\ UNCHANGED <<next, net>>
    BY DEF Resend
  <1>2. sl \in SlotRecords(r) /\ SlotAt(r, sl, "out") /\ pc.then = {}
    BY <1>1, SlotNow, NothingWaits DEF EngineInv
  <1> HIDE DEF sl
  <1>3. Refused(r, sl)
    BY <1>1, <1>2 DEF SlotAt, Done, Waiting
  <1>4. sl.busy /\ ~ IsRS1(StepAt(r, sl))
    BY <1>3 DEF Refused
  <1>5. PICK k \in RunIds : Now(r, s, k)
    BY <1>4, BusyNow DEF sl
  <1>6. /\ new.busy = sl.busy /\ new.cb = sl.cb /\ new.recv_comp = sl.recv_comp
        /\ new.pending = sl.pending /\ new.step = sl.step /\ new.buf = sl.buf
        /\ new.iter = sl.iter /\ new.run = sl.run /\ new.coll_id = sl.coll_id
        /\ new.msgs = sl.msgs /\ new.zcomps = sl.zcomps /\ new.resend_flag = sl.resend_flag
    BY <1>2 DEF SlotRecords
  <1> HIDE DEF new
  <1>7. Counts(r, new, "execute", Missing(r, k)[sl.step])
    <2>1. Counts(r, sl, Activation(r, s), Missing(r, k)[sl.step])
      BY <1>5 DEF Now, sl
    <2> QED BY <1>4, <1>6, <2>1 DEF Counts, StepAt
  <1>10. Balanced(r, new, "execute", Missing(r, k)[sl.step])
    <2>1. Balanced(r, sl, Activation(r, s), Missing(r, k)[sl.step])
      BY <1>5 DEF Now, sl
    <2> QED BY <1>6, <2>1 DEF Balanced, SendsBalanced, StepAt, It, Flag
  <1>8. Stays(r, s, new)
    <2>1. \A a \in Posts(Plan) : a.from = r => (Through(new, a) <=> Through(sl, a))
      BY <1>6, ThroughSame
    <2> QED BY <1>6, <2>1 DEF Stays, sl
  <1>9. SlotFlow(r, new, "execute", Missing(r, k))
    BY <1>4, <1>5, <1>6, <1>7, <1>10, MidFlow DEF sl
  <1> QED BY <1>1, <1>2, <1>5, <1>8, <1>9, QuietFlow

\* The transport is done with a send.
LEMMA ZcopyDoneFlow ==
  ASSUME FlowFits, EngineInv, EngineInv', FlowInv, NEW r \in Ranks, NEW s \in SlotIds,
         ZcopyDone(r, s)
  PROVE  FlowInv'
  <1> DEFINE sl   == slot[r][s]
             st   == StepAt(r, sl)
             num  == sl.num_store[sl.step]
             less == [sl EXCEPT !.zcomps = @ - 1, !.pending = @ - 1]
             none == [less EXCEPT !.num_store[sl.step] = 0]
  <1>1. /\ pc.at = "out" /\ sl.zcomps > 0 /\ next' = next /\ net' = net
        /\ less.pending # num => Enter(r, s, less, "out", 0, {})
        /\ less.pending = num /\ num = 0 =>
             Enter(r, s, CompleteStep(r, less), AfterStep(r, less), 0, {})
        /\ less.pending = num /\ num # 0 => Enter(r, s, none, "scan", 0, {})
    BY DEF ZcopyDone
  <1>2. sl \in SlotRecords(r) /\ SlotAt(r, sl, "out") /\ pc.then = {}
    BY <1>1, SlotNow, NothingWaits DEF EngineInv
  <1> HIDE DEF sl
  <1>3. /\ IsStep(st, Ranks, Offsets) /\ sl.step \in DOMAIN Plan[r]
        /\ num = Num(sl) /\ num \in Nat /\ sl.pending \in Nat /\ sl.zcomps \in Nat
        /\ It(sl) \in Nat /\ sl.recv_comp \in BOOLEAN
        /\ RecvCount(st) \in Nat \ {0} /\ Owed(st) \in Nat /\ End(st) \in Nat
    BY <1>2, RecordFields, StepNumbers DEF Num
  <1> HIDE DEF st, num
  <1>4. \/ Waiting(r, sl) /\ AwaitsMessages(st, sl)
        \/ Waiting(r, sl) /\ AwaitsSends(st, sl)
        \/ Refused(r, sl) /\ sl.resending
    <2>1. ~ Done(r, sl) /\ ~ AwaitsFirstHalf(st, sl)
      BY <1>1 DEF Done, AwaitsFirstHalf
    <2> QED BY <1>2, <2>1 DEF SlotAt, Waiting, st
  <1>5. /\ sl.busy /\ sl.pending > 0 /\ ~ IsRS1(st) /\ IsZcopy(st)
        /\ IsRecv(st) => sl.pending >= RecvCount(st) + 1
        /\ IsR1S(st) => sl.recv_comp
    <2>1. CASE Waiting(r, sl) /\ AwaitsMessages(st, sl)
      BY <1>1, <1>3, <2>1, Kinds DEF Waiting, AwaitsMessages
    <2>2. CASE Waiting(r, sl) /\ AwaitsSends(st, sl)
      BY <2>2, Kinds DEF Waiting, AwaitsSends
    <2>3. CASE Refused(r, sl) /\ sl.resending
      <3>1. /\ IsZcopy(st) /\ It(sl) < End(st)
            /\ sl.pending >= Owed(st) + sl.zcomps + (End(st) - It(sl))
        BY <1>1, <2>3 DEF Refused, st
      <3>2. IsRecv(st) => Owed(st) = RecvCount(st)
        BY DEF Owed
      <3>3. sl.pending >= Owed(st) + 1 /\ sl.pending > 0
        BY <1>1, <1>3, <3>1
      <3> QED BY <1>3, <2>3, <3>1, <3>2, <3>3 DEF Refused, st
    <2> QED BY <1>4, <2>1, <2>2, <2>3
  <1>6. PICK k \in RunIds : Now(r, s, k)
    BY <1>5, BusyNow DEF sl
  <1> DEFINE M == Missing(r, k)[sl.step]
  <1>7. /\ Cardinality(M) \in Nat /\ Cardinality(M) <= WaitsFor(st)
        /\ Counts(r, sl, Activation(r, s), M) /\ (IsSendOnly(st) => M = {})
        /\ Balanced(r, sl, "out", M)
    <2>1. Activation(r, s) = "out"
      BY <1>1 DEF Activation
    <2> QED BY <1>6, <2>1 DEF Now, sl, st
  <1>8. /\ less \in SlotRecords(r)
        /\ less.busy /\ less.cb = sl.cb /\ less.run = sl.run /\ less.coll_id = sl.coll_id
        /\ less.recv_comp = sl.recv_comp /\ less.pending = sl.pending - 1
        /\ less.step = sl.step /\ less.buf = sl.buf /\ less.iter = sl.iter
        /\ less.msgs = sl.msgs /\ less.num_store = sl.num_store
        /\ less.resend_flag = sl.resend_flag /\ less.zcomps = sl.zcomps - 1
    <2>1. sl.pending - 1 \in Nat /\ sl.zcomps - 1 \in Nat
      BY <1>1, <1>3, <1>5
    <2> QED BY <1>2, <1>5, <2>1 DEF SlotRecords
  <1>9. /\ none.busy /\ none.cb = sl.cb /\ none.run = sl.run /\ none.coll_id = sl.coll_id
        /\ none.recv_comp = sl.recv_comp /\ none.pending = sl.pending - 1
        /\ none.step = sl.step /\ none.buf = sl.buf /\ none.iter = sl.iter
        /\ none.msgs = sl.msgs /\ none.zcomps = sl.zcomps - 1
        /\ none.resend_flag = sl.resend_flag
    <2> HIDE DEF less
    <2> QED BY <1>8 DEF SlotRecords
  <1> HIDE DEF less, none
  <1>10. ASSUME NEW new, new.busy, new.cb = sl.cb, new.run = sl.run, new.coll_id = sl.coll_id,
                new.recv_comp = sl.recv_comp, new.pending = sl.pending - 1,
                new.step = sl.step, new.buf = sl.buf, new.iter = sl.iter, new.msgs = sl.msgs,
                new.zcomps = sl.zcomps - 1, new.resend_flag = sl.resend_flag, NEW at, Enter(r, s, new, at, 0, {})
         PROVE  FlowInv'
    <2>1. StepAt(r, new) = st
      BY <1>10 DEF StepAt, st
    <2>2. Counts(r, new, at, M)
      <3>1. IsRecv(st) => WaitsFor(st) = RecvCount(st)
        BY Kinds DEF WaitsFor
      <3>2. IsRecv(st) => Cardinality(M) <= sl.pending - 1
        BY <1>3, <1>5, <1>7, <3>1
      <3> HIDE DEF M
      <3> QED BY <1>5, <1>7, <1>10, <2>1, <3>2 DEF Counts, st
    <2>5. Balanced(r, new, at, M)
      <3>1. ASSUME SendsCounted PROVE SendsBalanced(st, new)
        <4>1. SendsBalanced(st, sl)
          BY <1>7, <3>1 DEF Balanced, st
        <4>2. It(new) = It(sl) /\ Flag(new) = Flag(sl)
          BY <1>10 DEF It, Flag
        <4> QED BY <1>3, <1>5, <1>10, <4>1, <4>2 DEF SendsBalanced
      <3>2. ASSUME SendsCounted, sl.cb, ~ IsSendOnly(st), ~ (IsR1S(st) /\ sl.recv_comp)
            PROVE  new.pending = Cardinality(M) + new.zcomps
        <4>1. sl.pending = Cardinality(M) + sl.zcomps
          BY <1>7, <3>2 DEF Balanced, st
        <4> HIDE DEF M
        <4> QED BY <1>3, <1>7, <1>10, <4>1
      <3> HIDE DEF M
      <3> QED BY <1>10, <2>1, <3>1, <3>2 DEF Balanced
    <2>3. Stays(r, s, new)
      <3>1. \A a \in Posts(Plan) : a.from = r => (Through(new, a) <=> Through(sl, a))
        BY <1>5, <1>10, ThroughSame
      <3> QED BY <1>10, <3>1 DEF Stays, sl
    <2>4. SlotFlow(r, new, at, Missing(r, k))
      BY <1>6, <1>10, <2>2, <2>5, MidFlow DEF sl
    <2> QED BY <1>1, <1>2, <1>6, <1>10, <2>3, <2>4, QuietFlow
  <1>11. CASE less.pending # num
    BY <1>1, <1>8, <1>10, <1>11
  <1>12. CASE less.pending = num /\ num # 0
    BY <1>1, <1>9, <1>10, <1>12
  <1>13. CASE less.pending = num /\ num = 0
    <2>1. sl.pending = 1
      BY <1>3, <1>5, <1>8, <1>13
    <2>2. Waiting(r, sl) /\ AwaitsSends(st, sl)
      <3>1. ~ (Refused(r, sl) /\ sl.resending)
        <4>1. SUFFICES ASSUME Refused(r, sl) PROVE FALSE
          OBVIOUS
        <4>2. /\ IsZcopy(st) /\ It(sl) < End(st)
              /\ sl.pending >= Owed(st) + sl.zcomps + (End(st) - It(sl))
          BY <1>1, <4>1 DEF Refused, st
        <4> QED BY <1>1, <1>3, <2>1, <4>2
      <3>2. ~ AwaitsMessages(st, sl)
        BY <1>3, <1>5, <2>1 DEF AwaitsMessages
      <3> QED BY <1>4, <3>1, <3>2
    <2>3. M = {}
      <3>1. IsR1S(st) /\ sl.recv_comp => M = {}
        BY <1>7 DEF Counts, st
      <3> QED BY <1>7, <2>2, <3>1 DEF AwaitsSends
    <2>4. AllRewound(r, less)
      <3>1. /\ sl.iter[sl.step] = 0 /\ sl.num_store[sl.step] = 0
            /\ IsZcopy(Plan[r][sl.step]) => ~ sl.resend_flag[sl.step]
        BY <2>2 DEF Waiting, AwaitsSends, It, Num, Flag, st, StepAt
      <3>2. OthersRewound(r, sl)
        BY <2>2 DEF Waiting
      <3> QED BY <1>8, <3>1, <3>2 DEF AllRewound, OthersRewound, Rewound
    <2>9. less.zcomps = 0
      BY <1>1, <1>3, <1>8, <2>1, <2>2 DEF AwaitsSends
    <2> DEFINE new == CompleteStep(r, less)
               at  == AfterStep(r, less)
    <2>5. /\ SlotFlow(r, new, at, Missing(r, k))
          /\ new.run = less.run /\ new.coll_id = less.coll_id
          /\ new.msgs = less.msgs /\ new.buf = less.buf
          /\ \A a \in Posts(Plan) : a.from = r => (Through(new, a) <=> a.step <= less.step)
      <3>1. /\ Missing(r, k)[slot[r][s].step] = {} /\ less.step = slot[r][s].step
            /\ less.run = slot[r][s].run /\ less.buf = slot[r][s].buf
        BY <1>8, <2>3 DEF sl
      <3> QED BY <1>6, <1>8, <2>4, <2>9, <3>1, EndFlow
    <2> HIDE DEF new, at
    <2>6. ASSUME NEW a \in Posts(Plan), a.from = r PROVE Through(new, a) <=> Through(sl, a)
      <3>1. a.step \in Nat /\ sl.step \in Nat /\ a.pos \in Nat
            /\ (a.step = sl.step => a.pos < End(st))
        <4>1. /\ a.pos \in Nat /\ a.step \in Nat /\ a.pos < End(StepOf(Plan, a))
              /\ StepOf(Plan, a) = Plan[a.from][a.step]
          BY PostFacts
        <4>2. sl.step \in Nat
          BY <1>3, StepIsNat
        <4>3. st = Plan[r][sl.step]
          BY DEF st, StepAt
        <4> QED BY ONLY <2>6, <4>1, <4>2, <4>3
      <3>2. SentUpTo(a.from, sl) = End(st)
        BY <2>2, <2>6 DEF SentUpTo, AwaitsSends, Waiting, st
      <3>3. Through(sl, a) <=> a.step < sl.step \/ a.step = sl.step
        BY <1>5, <3>1, <3>2 DEF Through
      <3>4. Through(new, a) <=> a.step <= sl.step
        BY <1>8, <2>5, <2>6
      <3> QED BY <3>1, <3>3, <3>4
    <2>7. Stays(r, s, new)
      BY <1>8, <2>5, <2>6 DEF Stays, sl
    <2>8. Enter(r, s, new, at, 0, {})
      BY <1>1, <1>13 DEF new, at
    <2> QED BY <1>1, <1>2, <1>6, <2>5, <2>7, <2>8, QuietFlow
  <1> QED BY <1>11, <1>12, <1>13

\* The posts a step sends from position i up to position j.
Between(r, n, i, j) == {a \in Posts(Plan) : a.from = r /\ a.step = n /\ a.pos \in i .. j - 1}

\* What a step sends are the messages of its posts.
LEMMA SentAre ==
  ASSUME FlowFits, NEW r \in Ranks, NEW s \in SlotIds, NEW k, Now(r, s, k),
         NEW i \in Nat, NEW j \in Nat,
         LET st == StepAt(r, slot[r][s])
         IN  ~ IsRecvOnly(st) /\ First(st) <= i /\ j <= End(st),
         IF IsWaypoint(StepAt(r, slot[r][s]))
           THEN Missing(r, k)[slot[r][s].step] = {}
           ELSE Missing(r, k)[slot[r][s].step] = Arrivals(Plan, r, slot[r][s].step)
  PROVE  /\ Sent(r, slot[r][s], i, j) = Messages(Between(r, slot[r][s].step, i, j), k)
         /\ \A a \in Between(r, slot[r][s].step, i, j) :
              \E off \in Offsets : Msg(a, k).data = slot[r][s].buf[off]
  <1> DEFINE sl == slot[r][s]
             st == StepAt(r, sl)
             n  == sl.step
             X  == Between(r, n, i, j)
             M  == Missing(r, k)[n]
             Wire(x) == [from |-> r, to |-> st.eps[(x \div Fragments(st)) + 1],
                        coll_id |-> sl.coll_id, step_idx |-> st.step_idx,
                        off |-> st.pieces[(x % Fragments(st)) + 1],
                        data |-> sl.buf[st.pieces[(x % Fragments(st)) + 1]]]
  <1>1. /\ n \in DOMAIN Plan[r] /\ st = Plan[r][n] /\ sl.coll_id = k % IdSpace
        /\ Holds(r, sl, M) /\ sl.run = k
    BY RecordFields DEF Now
  <1>2. Sent(r, sl, i, j) = {Wire(x) : x \in i .. j - 1}
    BY DEF Sent
  <1>3. ASSUME NEW a \in X
        PROVE  /\ a.pos \in i .. j - 1 /\ Wire(a.pos) = Msg(a, k) /\ Place(Plan, a) \in Offsets
               /\ sl.buf[Place(Plan, a)] = Msg(a, k).data
    <2>1. /\ a \in Posts(Plan) /\ a.from = r /\ a.step = n /\ a.pos \in i .. j - 1
          /\ StepOf(Plan, a) = st /\ Place(Plan, a) \in Offsets
      BY <1>1, <1>3, PostFacts DEF Between
    <2>2. /\ Dest(Plan, a) = st.eps[(a.pos \div Fragments(st)) + 1]
          /\ Place(Plan, a) = st.pieces[(a.pos % Fragments(st)) + 1]
          /\ Index(Plan, a) = st.step_idx
      BY <2>1 DEF Dest, Place, Index
    <2>3. Held(r, n, Place(Plan, a), M) = Carried(Plan, Labels, a)
      <3>1. /\ M = Arrivals(Plan, r, n) =>
                 Held(r, n, Place(Plan, a), M) = Labels[r][n][Place(Plan, a)]
            /\ M = {} => Held(r, n, Place(Plan, a), M) = Labels[r][n + 1][Place(Plan, a)]
        <4> HIDE DEF M, n
        <4>1. /\ Held(r, n, Place(Plan, a), Arrivals(Plan, r, n)) = Labels[r][n][Place(Plan, a)]
              /\ Held(r, n, Place(Plan, a), {}) = Labels[r][n + 1][Place(Plan, a)]
          BY <1>1, <2>1, HeldEnds
        <4> QED BY <4>1
      <3> QED BY <2>1, <3>1 DEF Carried
    <2>4. sl.buf[Place(Plan, a)] = SetToBag(Carried(Plan, Labels, a) \X {k})
      BY <1>1, <2>1, <2>3 DEF Holds
    <2> QED BY <1>1, <2>1, <2>2, <2>4 DEF Msg
  <1>4. ASSUME NEW x \in i .. j - 1 PROVE \E a \in X : a.pos = x
    <2> DEFINE a == [from |-> r, step |-> n, pos |-> x]
    <2>1. x \in Positions(Plan[r][n])
      <3>1. First(st) \in Nat /\ End(st) \in Nat
        BY <1>1, PlanSteps, StepNumbers
      <3> HIDE DEF st
      <3>2. x \in First(st) .. End(st) - 1 /\ ~ IsRecvOnly(st)
        BY <3>1 DEF st
      <3> QED BY <1>1, <3>2 DEF Positions
    <2>2. a \in Posts(Plan)
      BY <1>1, <2>1, Fits, PostIs
    <2> QED BY <2>2 DEF Between
  <1> HIDE DEF Wire, X
  <1>5. \A m : m \in {Wire(x) : x \in i .. j - 1} <=> \E a \in X : m = Msg(a, k)
    BY <1>3, <1>4
  <1>6. \A m : m \in Messages(X, k) <=> \E a \in X : m = Msg(a, k)
    BY DEF Messages
  <1>7. Sent(r, sl, i, j) = Messages(X, k)
    <2> HIDE DEF sl
    <2> QED BY <1>2, <1>5, <1>6
  <1>8. \A a \in X : \E off \in Offsets : Msg(a, k).data = sl.buf[off]
    BY <1>3
  <1> QED BY <1>7, <1>8 DEF X

\* The sends of a step go out, all of them or up to where the transport has no
\* resources.
LEMMA ExecuteSendFlow ==
  ASSUME FlowFits, EngineInv, EngineInv', FlowInv, NEW r \in Ranks, NEW s \in SlotIds,
         NEW j \in Nat, ExecuteSend(r, s, j)
  PROVE  FlowInv'
  <1> DEFINE sl    == slot[r][s]
             st    == StepAt(r, sl)
             i     == sl.iter[sl.step]
             end   == Fragments(st) * Len(st.eps)
             count == PendingWhenSending(st, sl)
             sent  == [sl EXCEPT !.pending = count,
                                 !.zcomps = IF IsZcopy(st) THEN @ + (j - i) ELSE @,
                                 !.iter[sl.step] = IterAfter(j, end)]
             blocked == [sent EXCEPT !.resending = TRUE,
                                     !.resend_flag[sl.step] = @ \/ Fragments(st) > 1]
  <1>1. /\ Inside("execute", r, s) /\ ~ IsRecvOnly(st)
        /\ IsWaypoint(st) => i >= Fragments(st)
        /\ j \in i .. end
        /\ net' = net \cup Sent(r, sl, i, j) /\ next' = next
        /\ j < end => r \in MayBlock /\ Enter(r, s, blocked, "out", 0, {})
        /\ ~ (j < end) /\ ((~ IsRecv(st) /\ ~ IsZcopy(st)) \/ count = 0) =>
             Enter(r, s, CompleteStep(r, sent), AfterStep(r, sent), pc.depth, {})
        /\ ~ (j < end) /\ ~ ((~ IsRecv(st) /\ ~ IsZcopy(st)) \/ count = 0) =>
             FinishSend(r, s, sent, pc.depth)
    BY DEF ExecuteSend
  <1>2. sl \in SlotRecords(r) /\ SlotAt(r, sl, "execute") /\ pc.then = {}
    BY <1>1, SlotNow, NothingWaits DEF EngineInv, Inside
  <1> HIDE DEF sl
  <1>3. /\ IsStep(st, Ranks, Offsets) /\ sl.step \in DOMAIN Plan[r]
        /\ i = It(sl) /\ i \in Nat /\ end = End(st) /\ end \in Nat
        /\ First(st) \in Nat /\ Owed(st) \in Nat /\ RecvCount(st) \in Nat \ {0}
        /\ Fragments(st) \in Nat \ {0}
        /\ sl.zcomps \in Nat /\ sl.pending \in Nat
        /\ sl.resend_flag \in [DOMAIN Plan[r] -> BOOLEAN] /\ Flag(sl) \in BOOLEAN
    BY <1>2, RecordFields, StepNumbers DEF It, End
  <1>4. /\ sl.busy /\ Num(sl) = 0 /\ OthersRewound(r, sl)
        /\ First(st) <= i /\ i < end
        /\ count \in Nat /\ (IsRecv(st) => count > 0)
        /\ sl.zcomps <= i - First(st)
        /\ IF IsZcopy(st) THEN count >= Owed(st) + sl.zcomps + (end - i)
                          ELSE sl.zcomps = 0
        /\ IF IsR1S(st) THEN sl.cb /\ sl.recv_comp ELSE ~ IsWaypoint(st) => ~ sl.cb
        /\ IsRS1(st) => ~ Zcopy /\ r \notin MayBlock
    <2>1. IsWaypoint(st) => It(sl) >= Fragments(st)
      BY <1>1, <1>3
    <2>2. OrderlyPlan
      BY Fits
    <2> HIDE DEF i, end, count
    <2> QED BY <1>1, <1>2, <1>3, <2>1, <2>2, ReadyToSend DEF st, count
  <1> HIDE DEF st, i, end
  <1>5. PICK k \in RunIds : Now(r, s, k)
    BY <1>4, BusyNow DEF sl
  <1> DEFINE M == Missing(r, k)[sl.step]
             X == Between(r, sl.step, i, j)
  <1>6. /\ Cardinality(M) \in Nat /\ Cardinality(M) <= WaitsFor(st)
        /\ Counts(r, sl, Activation(r, s), M) /\ (IsSendOnly(st) => M = {})
        /\ sl.coll_id = k % IdSpace /\ sl.run = k
    BY <1>5 DEF Now, sl, st
  <1>7. /\ IsWaypoint(st) <=> IsR1S(st) \/ IsRS1(st)
        /\ IsRecv(st) => ~ IsWaypoint(st) /\ WaitsFor(st) = RecvCount(st)
        /\ ~ IsRecv(st) => IsSendOnly(st) \/ IsWaypoint(st)
        /\ IsZcopy(st) => Zcopy
    BY Kinds DEF WaitsFor
  <1>8. Activation(r, s) = "execute"
    BY <1>1 DEF Inside, Activation
  <1>9. IsWaypoint(st) => sl.cb /\ M = {}
    <2>1. IsR1S(st) => sl.cb /\ M = {}
      BY <1>4, <1>6 DEF Counts, st
    <2>2. IsRS1(st) => sl.cb
      <3>1. SUFFICES ASSUME IsRS1(st) PROVE sl.cb
        OBVIOUS
      <3>2. ~ Fresh(r, sl)
        <4>1. It(sl) # 0
          BY <1>1, <1>3, <1>7, <3>1
        <4> QED BY <1>3, <4>1 DEF Fresh, AllRewound, Rewound, It
      <3>3. ~ Refused(r, sl)
        BY <3>1 DEF Refused, st
      <3> QED BY <1>2, <3>2, <3>3 DEF SlotAt, Second
    <2>3. IsRS1(st) => M = {}
      BY <1>6, <1>8, <2>2 DEF Counts, st
    <2> QED BY <1>7, <2>1, <2>2, <2>3
  <1>10. ~ IsWaypoint(st) => ~ sl.cb /\ M = Arrivals(Plan, r, sl.step)
    BY <1>4, <1>6, <1>7 DEF Counts
  <1>11. SentUpTo(r, sl) = i
    <2>1. IsWaypoint(st) => i # 0
      BY <1>1, <1>3
    <2> QED BY <1>3, <1>10, <2>1 DEF SentUpTo
  <1>12. /\ \A a \in X : /\ a \in Posts(Plan) /\ a.from = r /\ ~ Through(sl, a)
                         /\ \E off \in Offsets : Msg(a, k).data = sl.buf[off]
         /\ net' = net \cup Messages(X, k)
    <2>1. Sent(r, sl, i, j) = Messages(X, k)
          /\ \A a \in X : \E off \in Offsets : Msg(a, k).data = sl.buf[off]
      <3>1. /\ ~ IsRecvOnly(StepAt(r, slot[r][s])) /\ First(StepAt(r, slot[r][s])) <= i
            /\ j <= End(StepAt(r, slot[r][s])) /\ i \in Nat
            /\ IF IsWaypoint(StepAt(r, slot[r][s]))
                 THEN Missing(r, k)[slot[r][s].step] = {}
                 ELSE Missing(r, k)[slot[r][s].step] = Arrivals(Plan, r, slot[r][s].step)
        BY <1>1, <1>3, <1>4, <1>9, <1>10 DEF sl, st
      <3> HIDE DEF X
      <3> QED BY <1>5, <3>1, SentAre DEF sl, X
    <2>2. ASSUME NEW a \in X PROVE a \in Posts(Plan) /\ a.from = r /\ ~ Through(sl, a)
      <3>1. a \in Posts(Plan) /\ a.from = r /\ a.step = sl.step /\ a.pos \in i .. j - 1
        BY DEF Between
      <3>2. sl.step \in Nat
        BY <1>3, StepIsNat
      <3> QED BY <1>3, <1>4, <1>11, <3>1, <3>2 DEF Through
    <2> QED BY <1>1, <2>1, <2>2
  <1>13. ASSUME NEW a \in Posts(Plan), a.from = r
         PROVE  Through(sl, a) \/ a \in X <=> a.step < sl.step \/ (a.step = sl.step /\ a.pos < j)
    <2>1. a.pos \in Nat /\ a.step \in Nat /\ sl.step \in Nat
      <3>1. a.pos \in Nat /\ a.step \in Nat
        BY PostFacts
      <3>2. sl.step \in Nat
        BY <1>3, StepIsNat
      <3> QED BY ONLY <3>1, <3>2
    <2>2. Through(sl, a) <=> a.step < sl.step \/ (a.step = sl.step /\ a.pos < i)
      BY <1>4, <1>11, <1>13 DEF Through
    <2>3. a \in X <=> a.step = sl.step /\ a.pos \in i .. j - 1
      BY <1>13 DEF Between
    <2> QED BY <1>1, <1>3, <2>1, <2>2, <2>3
  <1> HIDE DEF X, M
  <1>14. IsRecv(st) => Cardinality(M) <= count
    <2>1. SUFFICES ASSUME IsRecv(st) PROVE Cardinality(M) <= count
      OBVIOUS
    <2>2. CASE IsZcopy(st)
      <3>1. Owed(st) = RecvCount(st)
        BY <2>1 DEF Owed
      <3> QED BY <1>3, <1>4, <1>6, <1>7, <2>1, <2>2, <3>1
    <2>3. CASE ~ IsZcopy(st)
      <3>1. count = sl.pending
        BY <2>3 DEF PendingWhenSending
      <3> QED BY <1>6, <2>1, <3>1 DEF Counts, st
    <2> QED BY <2>2, <2>3
  <1>22. ASSUME SendsCounted
         PROVE  /\ IsZcopy(st) => count = Owed(st) + sl.zcomps + (end - i)
                /\ ~ IsZcopy(st) /\ IsRecv(st) => count = RecvCount(st)
    <2>1. SendsBalanced(st, sl)
      BY <1>5, <1>22 DEF Now, Balanced, sl, st
    <2>2. CASE IsZcopy(st) /\ (Flag(sl) \/ IsSendOnly(st))
      <3>1. IsSendOnly(st) => ~ sl.cb
        BY <1>10, Kinds
      <3>2. sl.pending = Owed(st) + sl.zcomps + (end - i)
        BY <1>3, <2>1, <2>2, <3>1 DEF SendsBalanced
      <3>3. count = sl.pending
        <4>1. IsSendOnly(st) => ~ IsRecv(st) /\ ~ IsRS1(st) /\ ~ IsR1S(st)
          BY Kinds
        <4> QED BY <2>2, <4>1 DEF PendingWhenSending, Flag
      <3> QED BY <2>2, <3>2, <3>3
    <2>3. CASE IsZcopy(st) /\ ~ Flag(sl) /\ ~ IsSendOnly(st)
      <3>1. i = First(st) /\ sl.zcomps = 0
        BY <1>3, <1>4, <2>1, <2>3 DEF SendsBalanced
      <3>2. ~ IsRS1(st)
        BY <1>4, <1>7, <2>3
      <3>3. /\ IsRecv(st) => First(st) = 0 /\ Owed(st) = RecvCount(st)
            /\ IsR1S(st) => Fragments(st) * (Len(st.eps) - 1) = end - First(st)
            /\ IsR1S(st) => Owed(st) = 0
        BY <1>3, <1>7, StepNumbers DEF Owed
      <3>4. Fragments(st) * Len(st.eps) = end
        BY <1>3 DEF End
      <3>5. CASE IsRecv(st)
        <4>1. count = RecvCount(st) + end
          BY <2>3, <3>4, <3>5 DEF PendingWhenSending, Flag
        <4> QED BY <1>3, <2>3, <3>1, <3>3, <3>5, <4>1
      <3>6. CASE IsR1S(st)
        <4>1. count = end - First(st) /\ ~ IsRecv(st)
          BY <1>7, <2>3, <3>2, <3>3, <3>6 DEF PendingWhenSending, Flag
        <4> QED BY <1>3, <2>3, <3>1, <3>3, <3>6, <4>1
      <3> QED BY <1>7, <2>3, <3>2, <3>5, <3>6
    <2>4. CASE ~ IsZcopy(st)
      <3>1. count = sl.pending
        BY <2>4 DEF PendingWhenSending
      <3> QED BY <1>7, <1>10, <2>1, <2>4, <3>1 DEF SendsBalanced
    <2> QED BY <2>2, <2>3, <2>4
  <1> HIDE DEF count
  <1> DEFINE zc == IF IsZcopy(st) THEN sl.zcomps + (j - i) ELSE sl.zcomps
             it == IterAfter(j, end)
  <1>15. zc \in Nat /\ it \in Nat /\ (j < end => it = j) /\ (~ (j < end) => it = 0 /\ j = end)
    BY <1>1, <1>3, <1>4 DEF IterAfter
  <1>16. /\ sent \in SlotRecords(r)
         /\ sent.busy /\ sent.cb = sl.cb /\ sent.recv_comp = sl.recv_comp
         /\ sent.run = sl.run /\ sent.coll_id = sl.coll_id /\ sent.pending = count
         /\ sent.step = sl.step /\ sent.buf = sl.buf /\ sent.msgs = sl.msgs
         /\ sent.iter[sl.step] = it
         /\ \A l \in DOMAIN Plan[r] : l # sl.step => sent.iter[l] = sl.iter[l]
         /\ sent.num_store = sl.num_store /\ sent.resend_flag = sl.resend_flag
         /\ sent.zcomps = zc
    <2>1. sent = [sl EXCEPT !.pending = count, !.zcomps = zc, !.iter[sl.step] = it]
      OBVIOUS
    <2> HIDE DEF sent, zc, it
    <2> QED BY <1>2, <1>3, <1>4, <1>15, <2>1 DEF SlotRecords
  <1>17. /\ blocked.busy /\ blocked.cb = sl.cb /\ blocked.recv_comp = sl.recv_comp
         /\ blocked.run = sl.run /\ blocked.coll_id = sl.coll_id /\ blocked.pending = count
         /\ blocked.step = sl.step /\ blocked.buf = sl.buf /\ blocked.msgs = sl.msgs
         /\ blocked.iter = sent.iter /\ blocked.zcomps = zc
         /\ Flag(blocked) = (Flag(sl) \/ Fragments(st) > 1)
    <2> HIDE DEF sent, zc, it
    <2> QED BY <1>16 DEF SlotRecords, Flag
  <1>23. zc = IF IsZcopy(st) THEN sl.zcomps + (j - i) ELSE 0
    BY <1>4
  <1> HIDE DEF sent, blocked, zc, it
  <1>18. ASSUME NEW new, new.busy, new.recv_comp = sl.recv_comp,
                new.run = sl.run, new.coll_id = sl.coll_id, new.pending = count,
                new.step = sl.step, new.buf = sl.buf, new.msgs = sl.msgs,
                SentUpTo(r, new) = j, ~ IsRS1(st), new.cb \/ new.cb = sl.cb,
                NEW at, Balanced(r, new, at, M), NEW depth, Enter(r, s, new, at, depth, {})
         PROVE  FlowInv'
    <2>1. StepAt(r, new) = st
      BY <1>18 DEF StepAt, st
    <2>2. Counts(r, new, at, M)
      <3>1. ~ new.cb => M = Arrivals(Plan, r, new.step)
        BY <1>9, <1>10, <1>18
      <3>2. IsRecv(st) => Cardinality(M) <= new.pending
        BY <1>14, <1>18
      <3>3. IsR1S(st) => new.recv_comp /\ M = {}
        BY <1>4, <1>7, <1>9, <1>18
      <3> QED BY <1>18, <2>1, <3>1, <3>2, <3>3 DEF Counts
    <2>3. SlotFlow(r, new, at, Missing(r, k))
      BY <1>5, <1>18, <2>2, MidFlow DEF sl, M
    <2>4. Sends(r, s, new, k, X)
      <3>1. ASSUME NEW a \in Posts(Plan), a.from = r
            PROVE  Through(new, a) <=> a.step < sl.step \/ (a.step = sl.step /\ a.pos < j)
        BY <1>18, <3>1 DEF Through
      <3>2. \A a \in Posts(Plan) : a.from = r => (Through(new, a) <=> Through(sl, a) \/ a \in X)
        BY <1>13, <3>1
      <3> QED BY <1>12, <3>2 DEF Sends, sl
    <2>5. /\ pc.at = "out" \/ (pc.rank = r /\ pc.slot = s)
          /\ new.run = slot[r][s].run /\ new.coll_id = slot[r][s].coll_id
          /\ new.buf = slot[r][s].buf /\ new.msgs = slot[r][s].msgs
          /\ net' = net \cup Messages(X, k) /\ next' = next
      BY <1>1, <1>12, <1>18 DEF sl, Inside
    <2> QED BY <1>2, <1>5, <1>18, <2>3, <2>4, <2>5, SendFlow
  <1>19. CASE j < end
    <2>1. ~ IsRS1(st)
      BY <1>1, <1>4, <1>19
    <2>2. SentUpTo(r, blocked) = j
      <3>1. It(blocked) = j
        BY <1>15, <1>16, <1>17, <1>19 DEF It
      <3>2. blocked.cb => j # 0
        BY <1>1, <1>3, <1>10, <1>17
      <3> QED BY <3>1, <3>2 DEF SentUpTo
    <2>3. Balanced(r, blocked, "out", M)
      <3>1. SUFFICES ASSUME SendsCounted
                     PROVE  /\ SendsBalanced(st, blocked)
                            /\ ~ (blocked.cb /\ ~ (IsR1S(st) /\ blocked.recv_comp))
        BY <1>17 DEF Balanced, StepAt, st
      <3>2. blocked.cb => IsR1S(st) /\ blocked.recv_comp
        BY <1>4, <1>7, <1>10, <1>17, <2>1
      <3>3. It(blocked) = j
        BY <1>15, <1>16, <1>17, <1>19 DEF It
      <3>4. IsZcopy(st) /\ ~ IsSendOnly(st) /\ ~ Flag(blocked) => j = First(st)
        <4>1. SUFFICES ASSUME IsZcopy(st), ~ IsSendOnly(st), ~ Flag(blocked) PROVE j = First(st)
          OBVIOUS
        <4>2. r \in MayBlock /\ Zcopy /\ ~ (Fragments(st) > 1) /\ st = Plan[r][sl.step]
          BY <1>1, <1>7, <1>17, <1>19, <4>1 DEF st, StepAt
        <4>3. end - First(st) <= 1
          BY <1>3, <3>1, <4>1, <4>2 DEF SendsCounted
        <4> QED BY <1>1, <1>3, <1>4, <1>19, <4>3
      <3>5. IsZcopy(st) => blocked.pending = Owed(st) + blocked.zcomps + (End(st) - It(blocked))
        <4>1. SUFFICES ASSUME IsZcopy(st)
                       PROVE  blocked.pending
                                = Owed(st) + blocked.zcomps + (End(st) - It(blocked))
          OBVIOUS
        <4>2. count = Owed(st) + sl.zcomps + (end - i)
          BY <1>22, <3>1, <4>1
        <4> QED BY <1>1, <1>3, <1>17, <1>23, <3>3, <4>1, <4>2
      <3>6. ~ IsZcopy(st) /\ IsRecv(st) => blocked.pending = RecvCount(st)
        BY <1>17, <1>22, <3>1
      <3>7. blocked.cb => It(blocked) # 0
        BY <1>1, <1>3, <1>10, <1>17, <3>3
      <3> QED BY <3>2, <3>3, <3>4, <3>5, <3>6, <3>7, Kinds DEF SendsBalanced
    <2> QED BY <1>1, <1>17, <1>18, <1>19, <2>1, <2>2, <2>3
  <1>20. CASE ~ (j < end) /\ ~ ((~ IsRecv(st) /\ ~ IsZcopy(st)) \/ count = 0)
    <2>1. ~ IsRS1(st)
      BY <1>4, <1>7, <1>20
    <2>2. \E new, at, d :
           /\ Enter(r, s, new, at, d, {}) /\ at \in {"out", "scan"}
           /\ new.cb /\ new.busy = sent.busy /\ new.run = sent.run /\ new.coll_id = sent.coll_id
           /\ new.step = sent.step /\ new.pending = sent.pending
           /\ new.recv_comp = sent.recv_comp
           /\ new.buf = sent.buf /\ new.iter = sent.iter /\ new.msgs = sent.msgs
           /\ new.zcomps = sent.zcomps /\ ~ Flag(new)
      <3>1. FinishSend(r, s, sent, pc.depth) /\ sent \in SlotRecords(r)
        BY <1>1, <1>16, <1>20
      <3> QED BY ONLY r \in Ranks, s \in SlotIds, <3>1, FinishSendShape
    <2>3. PICK new, at, d :
           /\ Enter(r, s, new, at, d, {}) /\ at \in {"out", "scan"}
           /\ new.cb /\ new.busy = sent.busy /\ new.run = sent.run /\ new.coll_id = sent.coll_id
           /\ new.step = sent.step /\ new.pending = sent.pending
           /\ new.recv_comp = sent.recv_comp
           /\ new.buf = sent.buf /\ new.iter = sent.iter /\ new.msgs = sent.msgs
           /\ new.zcomps = sent.zcomps /\ ~ Flag(new)
      BY <2>2
    <2>4. SentUpTo(r, new) = j
      <3>1. It(new) = 0 /\ StepAt(r, new) = st /\ j = End(st)
        BY <1>3, <1>15, <1>16, <1>20, <2>3 DEF It, StepAt, st
      <3> QED BY <2>3, <3>1 DEF SentUpTo
    <2>5. Balanced(r, new, at, M)
      <3>1. /\ new.cb /\ new.zcomps = zc /\ ~ Flag(new) /\ It(new) = 0 /\ j = end
            /\ new.pending = count /\ new.recv_comp = sl.recv_comp /\ StepAt(r, new) = st
        BY <1>3, <1>15, <1>16, <1>20, <2>3 DEF It, StepAt, st
      <3>2. SUFFICES ASSUME SendsCounted
                     PROVE  /\ SendsBalanced(st, new)
                            /\ ~ IsSendOnly(st) /\ ~ (IsR1S(st) /\ new.recv_comp) =>
                                 new.pending = Cardinality(M) + new.zcomps
        BY <3>1 DEF Balanced
      <3>3. IsZcopy(st) => count = Owed(st) + zc
        <4>1. SUFFICES ASSUME IsZcopy(st) PROVE count = Owed(st) + zc
          OBVIOUS
        <4>2. count = Owed(st) + sl.zcomps + (end - i) /\ zc = sl.zcomps + (j - i)
          BY <1>22, <1>23, <3>2, <4>1
        <4> QED BY <1>1, <1>3, <3>1, <4>2
      <3>4. SendsBalanced(st, new)
        <4>1. IsSendOnly(st) \/ IsR1S(st) => Owed(st) = 0
          BY Kinds DEF Owed
        <4> QED BY <1>15, <3>1, <3>3, <4>1 DEF SendsBalanced
      <3>5. ASSUME ~ IsSendOnly(st), ~ (IsR1S(st) /\ new.recv_comp)
            PROVE  new.pending = Cardinality(M) + new.zcomps
        <4>1. IsRecv(st) /\ ~ IsWaypoint(st)
          BY <1>4, <1>7, <2>1, <3>1, <3>5
        <4>2. M = Arrivals(Plan, r, sl.step) /\ Owed(st) = RecvCount(st)
          BY <1>10, <4>1 DEF Owed
        <4>3. Cardinality(M) = RecvCount(st)
          <5>1. Cardinality(M) = WaitsFor(Plan[r][sl.step]) /\ st = Plan[r][sl.step]
            BY <1>3, <4>2, AllMissing DEF st, StepAt
          <5> QED BY <1>7, <4>1, <5>1
        <4> QED BY <1>3, <1>15, <1>22, <1>23, <3>1, <3>2, <3>3, <4>1, <4>2, <4>3
      <3> QED BY <3>4, <3>5
    <2> QED BY <1>16, <1>18, <2>1, <2>3, <2>4, <2>5
  <1>21. CASE ~ (j < end) /\ ((~ IsRecv(st) /\ ~ IsZcopy(st)) \/ count = 0)
    <2>1. ~ IsRecv(st) /\ ~ IsZcopy(st)
      BY <1>3, <1>4, <1>21
    <2>2. M = {}
      BY <1>6, <1>7, <1>9, <2>1
    <2>3. AllRewound(r, sent)
      <3>1. ~ IsZcopy(Plan[r][sl.step]) /\ sent.iter[sl.step] = 0 /\ sl.num_store[sl.step] = 0
        BY <1>4, <1>15, <1>16, <1>21, <2>1 DEF st, StepAt, Num
      <3> QED BY <1>4, <1>16, <3>1 DEF AllRewound, OthersRewound, Rewound
    <2> DEFINE new == CompleteStep(r, sent)
               at  == AfterStep(r, sent)
    <2>4. /\ SlotFlow(r, new, at, Missing(r, k))
          /\ new.run = sent.run /\ new.coll_id = sent.coll_id
          /\ new.msgs = sent.msgs /\ new.buf = sent.buf
          /\ \A a \in Posts(Plan) : a.from = r => (Through(new, a) <=> a.step <= sent.step)
      <3>1. /\ Missing(r, k)[slot[r][s].step] = {} /\ sent.step = slot[r][s].step
            /\ sent.run = slot[r][s].run /\ sent.buf = slot[r][s].buf
        BY <1>16, <2>2 DEF sl, M
      <3>2. sent.zcomps = 0
        BY <1>16, <1>23, <2>1
      <3> QED BY <1>5, <1>16, <2>3, <3>1, <3>2, EndFlow
    <2> HIDE DEF new, at
    <2>5. Sends(r, s, new, k, X)
      <3>1. ASSUME NEW a \in Posts(Plan), a.from = r
            PROVE  Through(new, a) <=> Through(sl, a) \/ a \in X
        <4>01. /\ a.pos \in Nat /\ a.step \in Nat /\ a.pos < End(StepOf(Plan, a))
               /\ StepOf(Plan, a) = Plan[a.from][a.step]
          BY <3>1, PostFacts
        <4>02. sl.step \in Nat
          BY <1>3, StepIsNat
        <4>03. st = Plan[r][sl.step]
          BY DEF st, StepAt
        <4>1. a.pos \in Nat /\ a.step \in Nat /\ sl.step \in Nat
              /\ (a.step = sl.step => a.pos < End(st))
          BY ONLY <3>1, <4>01, <4>02, <4>03
        <4>2. j = End(st)
          BY <1>3, <1>15, <1>21
        <4>3. Through(new, a) <=> a.step <= sl.step
          BY <1>16, <2>4, <3>1
        <4> QED BY <1>13, <3>1, <4>1, <4>2, <4>3
      <3> QED BY <1>12, <3>1 DEF Sends, sl
    <2>6. /\ pc.at = "out" \/ (pc.rank = r /\ pc.slot = s)
          /\ new.run = slot[r][s].run /\ new.coll_id = slot[r][s].coll_id
          /\ new.buf = slot[r][s].buf /\ new.msgs = slot[r][s].msgs
          /\ net' = net \cup Messages(X, k) /\ next' = next
          /\ Enter(r, s, new, at, pc.depth, {})
      BY <1>1, <1>12, <1>16, <1>21, <2>4 DEF sl, Inside, new, at
    <2> QED BY <1>2, <1>5, <2>4, <2>5, <2>6, SendFlow
  <1> QED BY <1>19, <1>20, <1>21

\* Slot s of member r is left with what the recv_cb makes of rest, the slot
\* without message m: inside of activation at, and then with what follows.
Gives(r, s, rest, m, at, depth, then) ==
  LET res == Callback(r, rest, m)
  IN  /\ pc.at = "out" \/ (pc.rank = r /\ pc.slot = s)
      /\ Activation(r, s) # "execute"
      /\ rest \in SlotRecords(r) /\ Scanning(r, rest) /\ Alike(rest, slot[r][s])
      /\ m \in Mail(r) /\ m \in net \cup pc.then \cup MsgsOf(slot[r][s])
      /\ m.coll_id % Slots = s /\ Matches(r, slot[r][s], m) /\ net' = net \ {m}
      /\ MsgsOf(rest) = MsgsOf(slot[r][s]) \ {m}
      /\ \A i, j \in DOMAIN rest.msgs : rest.msgs[i] = rest.msgs[j] => i = j
      /\ at = res.at \/ (res.at = "more" /\ at # "execute")
      /\ Enter(r, s, res.slot, at, depth, then)
      /\ at = "out" \/ then = {} => pc.then \subseteq {m}
      /\ at # "out" /\ then # {} =>
           then = pc.then /\ pc.rank = r /\ pc.slot = s /\ res.at = "more"
      /\ m \in then => at = "out"

\* A message is given to the step, and is nowhere afterwards.
LEMMA GivenFlow ==
  ASSUME FlowFits, EngineInv, EngineInv', FlowInv, next' = next,
         NEW r \in Ranks, NEW s \in SlotIds, NEW rest, NEW m, NEW at, NEW depth, NEW then,
         Gives(r, s, rest, m, at, depth, then)
  PROVE  FlowInv'
  <1> DEFINE res == Callback(r, rest, m)
  <1> SUFFICES ASSUME
        pc.at = "out" \/ (pc.rank = r /\ pc.slot = s),
        Activation(r, s) # "execute",
        rest \in SlotRecords(r), Scanning(r, rest), Alike(rest, slot[r][s]),
        m \in Mail(r), m \in net \cup pc.then \cup MsgsOf(slot[r][s]),
        m.coll_id % Slots = s, Matches(r, slot[r][s], m), net' = net \ {m},
        MsgsOf(rest) = MsgsOf(slot[r][s]) \ {m},
        \A i, j \in DOMAIN rest.msgs : rest.msgs[i] = rest.msgs[j] => i = j,
        at = res.at \/ (res.at = "more" /\ at # "execute"),
        Enter(r, s, res.slot, at, depth, then),
        at = "out" \/ then = {} => pc.then \subseteq {m},
        at # "out" /\ then # {} =>
          then = pc.then /\ pc.rank = r /\ pc.slot = s /\ res.at = "more",
        m \in then => at = "out"
      PROVE FlowInv'
    BY DEF Gives
  <1>0. res = Callback(r, rest, m)
    OBVIOUS
  <1> HIDE DEF res
  <1>1. m \in Pool /\ m.to = r
    <2>1. \A n \in MsgsOf(slot[r][s]) : n \in Stored
      BY StoredWhere DEF FlowInv
    <2> QED BY <2>1 DEF Pool, Mail
  <1>2. \E k \in RunIds : \E b \in Missing(r, k)[slot[r][s].step] :
             Goes(r, rest, m, res, Without(r, rest.step, b, Missing(r, k)))
    <2>1. \E k \in RunIds : k = slot[r][s].run /\ \E b \in Missing(r, k)[slot[r][s].step] :
             /\ b \in Posts(Plan) /\ m = Msg(b, k)
             /\ Goes(r, rest, m, Callback(r, rest, m),
                     Without(r, rest.step, b, Missing(r, k)))
      BY <1>1, Taking
    <2> QED BY <1>0, <2>1
  <1>3. /\ res.slot.msgs = rest.msgs
        /\ res.at = "more" => \A n : Matches(r, slot[r][s], n) => Matches(r, res.slot, n)
    BY <1>2 DEF Goes, Alike, Matches, StepAt
  <1>4. \A n \in pc.then : at # "out" /\ then # {} => Matches(r, res.slot, n)
    <2>1. SUFFICES ASSUME NEW n \in pc.then, at # "out" /\ then # {} PROVE Matches(r, res.slot, n)
      OBVIOUS
    <2>2. Matches(r, slot[r][s], n)
      BY <2>1, ThenWhere
    <2> QED BY <1>3, <2>1, <2>2
  <1>5. OnceInv' /\ \A n : n \in Pool' <=> n \in Pool /\ n # m
    <2>01. at # "out" /\ then # {} => /\ then = pc.then /\ pc.rank = r /\ pc.slot = s
                                      /\ \A n \in then : Matches(r, res.slot, n)
      BY <1>4
    <2>02. MsgsOf(res.slot) = MsgsOf(rest)
      BY <1>3 DEF MsgsOf
    <2>1. /\ at # "out" /\ then # {} => /\ then = pc.then /\ pc.rank = r /\ pc.slot = s
                                        /\ \A n \in then : Matches(r, res.slot, n)
          /\ \A i, j \in DOMAIN res.slot.msgs : res.slot.msgs[i] = res.slot.msgs[j] => i = j
          /\ MsgsOf(res.slot) = MsgsOf(slot[r][s]) \ {m}
      BY <1>3, <2>01, <2>02
    <2>2. /\ pc.at = "out" \/ (pc.rank = r /\ pc.slot = s)
          /\ m.to = r /\ m.coll_id % Slots = s /\ Enter(r, s, res.slot, at, depth, then)
          /\ at = "out" \/ then = {} => pc.then \subseteq {m}
          /\ net' = net \ {m} /\ m \in net \cup pc.then \cup MsgsOf(slot[r][s])
          /\ m \in then => at = "out"
      BY <1>1
    <2> QED BY ONLY EngineInv, EngineInv', FlowInv, r \in Ranks, s \in SlotIds, <2>1, <2>2,
                    TakeMoves
  <1>6. /\ pc.at = "out" \/ (pc.rank = r /\ pc.slot = s)
        /\ Scanning(r, rest) /\ Alike(rest, slot[r][s]) /\ m \in Pool
        /\ Matches(r, slot[r][s], m) /\ res = Callback(r, rest, m)
        /\ at = res.at \/ (res.at = "more" /\ at # "execute")
        /\ Activation(r, s) # "execute" /\ Enter(r, s, res.slot, at, depth, then)
    BY <1>0, <1>1
  <1> QED BY ONLY FlowFits, EngineInv, EngineInv', FlowInv, next' = next, r \in Ranks,
                  s \in SlotIds, rest \in SlotRecords(r), m \in Mail(r), <1>5, <1>6, TakeFlow

\* A sequence of distinct things, and what is left of it without the i-th.
Distinct(t) == \A c, d \in DOMAIN t : t[c] = t[d] => c = d
Dropped(t, i) == SubSeq(t, 1, i - 1) \o SubSeq(t, i + 1, Len(t))
Lacks(left, t, x) ==
  \A y : (\E c \in DOMAIN left : y = left[c]) <=> (\E c \in DOMAIN t : y = t[c]) /\ y # x

\* Nothing but the i-th is lost.
LEMMA OneOut ==
  ASSUME NEW S, NEW t \in Seq(S), NEW i \in 1 .. Len(t), Distinct(t)
  PROVE  Distinct(Dropped(t, i)) /\ Lacks(Dropped(t, i), t, t[i])
  <1> DEFINE left == Dropped(t, i)
  <1>01. \A c, d \in DOMAIN t : t[c] = t[d] => c = d
    BY DEF Distinct
  <1>02. left = SubSeq(t, 1, i - 1) \o SubSeq(t, i + 1, Len(t))
    BY DEF Dropped
  <1> HIDE DEF left
  <1> DEFINE from(c) == IF c < i THEN c ELSE c + 1
             a == SubSeq(t, 1, i - 1)
             b == SubSeq(t, i + 1, Len(t))
  <1>0. PICK n \in Nat : n = Len(t)
    OBVIOUS
  <1>1. DOMAIN t = 1 .. n /\ i \in 1 .. n
    BY <1>0
  <1>2. a \in Seq(S) /\ Len(a) = i - 1 /\ \A c \in 1 .. i - 1 : a[c] = t[c]
    <2>1. 1 \in Int /\ i - 1 \in Int /\ \A d \in 1 .. i - 1 : t[d] \in S
      BY <1>0, <1>1
    <2>2. /\ a \in Seq(S) /\ Len(a) = IF 1 <= i - 1 THEN (i - 1) - 1 + 1 ELSE 0
          /\ \A d \in 1 .. (i - 1) - 1 + 1 : a[d] = t[1 + d - 1]
      BY <2>1, SubSeqProperties
    <2> HIDE DEF a
    <2> QED BY <1>1, <2>2
  <1>3. b \in Seq(S) /\ Len(b) = n - i /\ \A c \in 1 .. n - i : b[c] = t[i + c]
    <2>1. i + 1 \in Int /\ n \in Int /\ \A d \in i + 1 .. n : t[d] \in S
      BY <1>0, <1>1
    <2>2. /\ b \in Seq(S) /\ Len(b) = IF i + 1 <= n THEN n - (i + 1) + 1 ELSE 0
          /\ \A d \in 1 .. n - (i + 1) + 1 : b[d] = t[(i + 1) + d - 1]
      BY <1>0, <2>1, SubSeqProperties
    <2> HIDE DEF b
    <2> QED BY <1>1, <2>2
  <1>4. DOMAIN left = 1 .. n - 1 /\ \A c \in 1 .. n - 1 : left[c] = t[from(c)]
    <2>1. left = a \o b
      BY <1>02
    <2> HIDE DEF a, b
    <2>2. /\ left \in Seq(S) /\ Len(left) = Len(a) + Len(b)
          /\ \A c \in 1 .. Len(a) + Len(b) :
               left[c] = IF c <= Len(a) THEN a[c] ELSE b[c - Len(a)]
      <3>0. a \in Seq(S) /\ b \in Seq(S)
        BY <1>2, <1>3
      <3>1. /\ a \o b \in Seq(S) /\ Len(a \o b) = Len(a) + Len(b)
            /\ \A c \in 1 .. Len(a) + Len(b) :
                 (a \o b)[c] = IF c <= Len(a) THEN a[c] ELSE b[c - Len(a)]
        BY ONLY <3>0, ConcatProperties
      <3> QED BY ONLY <2>1, <3>1
    <2>3. Len(a) + Len(b) = n - 1 /\ DOMAIN left = 1 .. Len(left)
      BY <1>1, <1>2, <1>3, <2>2
    <2>4. ASSUME NEW c \in 1 .. n - 1 PROVE left[c] = t[from(c)]
      <3>1. CASE c < i
        <4>0. c \in 1 .. Len(a) + Len(b) /\ c <= Len(a) /\ c \in 1 .. i - 1
          BY <1>1, <1>2, <2>3, <3>1
        <4>1. left[c] = a[c] /\ c \in 1 .. i - 1
          BY ONLY <2>2, <4>0
        <4> QED BY <1>2, <3>1, <4>1
      <3>2. CASE ~ (c < i)
        <4>0. /\ c \in 1 .. Len(a) + Len(b) /\ ~ (c <= Len(a)) /\ Len(a) = i - 1
              /\ c - (i - 1) \in 1 .. n - i
          BY <1>1, <1>2, <2>3, <3>2
        <4>1. left[c] = b[c - (i - 1)] /\ c - (i - 1) \in 1 .. n - i
          BY ONLY <2>2, <4>0
        <4>2. i + (c - (i - 1)) = c + 1
          BY <1>1
        <4> QED BY <1>3, <3>2, <4>1, <4>2
      <3> QED BY <3>1, <3>2
    <2> QED BY <2>2, <2>3, <2>4
  <1> HIDE DEF a, b
  <1>5. /\ \A c \in 1 .. n - 1 : from(c) \in 1 .. n /\ from(c) # i
        /\ \A c, d \in 1 .. n - 1 : from(c) = from(d) => c = d
        /\ \A d \in 1 .. n : d # i => \E c \in 1 .. n - 1 : from(c) = d
    <2>1. ASSUME NEW d \in 1 .. n, d # i PROVE \E c \in 1 .. n - 1 : from(c) = d
      <3>1. CASE d < i
        <4>1. d \in 1 .. n - 1 /\ from(d) = d
          BY <1>1, <3>1
        <4> QED BY <4>1
      <3>2. CASE d > i
        <4>1. d - 1 \in 1 .. n - 1 /\ from(d - 1) = d
          BY <1>1, <3>2
        <4> QED BY <4>1
      <3> QED BY <1>1, <2>1, <3>1, <3>2
    <2> QED BY <1>1, <2>1
  <1> HIDE DEF from
  <1>6. ASSUME NEW c \in DOMAIN left, NEW d \in DOMAIN left, left[c] = left[d] PROVE c = d
    <2>1. t[from(c)] = t[from(d)] /\ from(c) \in DOMAIN t /\ from(d) \in DOMAIN t
      BY <1>1, <1>4, <1>5, <1>6
    <2>2. from(c) = from(d)
      BY <1>01, <2>1
    <2> QED BY <1>4, <1>5, <2>2
  <1>7. ASSUME NEW x PROVE (\E c \in DOMAIN left : x = left[c]) <=>
                           (\E c \in DOMAIN t : x = t[c]) /\ x # t[i]
    <2>1. ASSUME NEW c \in DOMAIN left, x = left[c]
          PROVE  (\E d \in DOMAIN t : x = t[d]) /\ x # t[i]
      <3>1. x = t[from(c)] /\ from(c) \in DOMAIN t /\ from(c) # i
        BY <1>1, <1>4, <1>5, <2>1
      <3> QED BY <1>01, <1>1, <3>1
    <2>2. ASSUME NEW d \in DOMAIN t, x = t[d], x # t[i] PROVE \E c \in DOMAIN left : x = left[c]
      <3>1. PICK c \in 1 .. n - 1 : from(c) = d
        BY <1>1, <1>5, <2>2
      <3> QED BY <1>4, <2>2, <3>1
    <2> QED BY <2>1, <2>2
  <1> QED BY <1>6, <1>7 DEF Distinct, Lacks, left

\* A stored message is given to its step.
LEMMA ScanMatchFlow ==
  ASSUME FlowFits, EngineInv, EngineInv', FlowInv, NEW r \in Ranks, NEW s \in SlotIds,
         ScanMatch(r, s)
  PROVE  FlowInv'
  <1> DEFINE sl   == slot[r][s]
             i    == CHOOSE i \in Matching(r, sl) : \A j \in Matching(r, sl) : i <= j
             rest == [sl EXCEPT !.msgs = SubSeq(@, 1, i - 1) \o SubSeq(@, i + 1, Len(@))]
             m    == sl.msgs[i]
             res  == Callback(r, rest, m)
  <1>1. /\ Inside("scan", r, s) /\ Matching(r, sl) # {} /\ UNCHANGED <<next, net>>
        /\ pc.depth = MaxMsgList => Enter(r, s, sl, "scan", 0, pc.then)
        /\ pc.depth # MaxMsgList /\ res.at = "more" =>
             Enter(r, s, res.slot, "scan", pc.depth, pc.then)
        /\ pc.depth # MaxMsgList /\ res.at # "more" =>
             Enter(r, s, res.slot, res.at, pc.depth + 1, {})
    BY DEF ScanMatch
  <1>2. PcInv /\ SlotsInv /\ OnceInv /\ StoredOnce(r, s)
    BY DEF EngineInv, FlowInv, OnceInv
  <1>3. sl \in SlotRecords(r) /\ SlotAt(r, sl, "scan")
    BY <1>1, <1>2, SlotNow
  <1>4. pc.rank = r /\ pc.slot = s /\ pc.at = "scan" /\ Activation(r, s) = "scan"
    BY <1>1 DEF Inside, Activation
  <1>5. sl.msgs \in Seq(Mail(r)) /\ DOMAIN sl.msgs = 1 .. Len(sl.msgs) /\ Len(sl.msgs) \in Nat
    <2> HIDE DEF sl
    <2> QED BY <1>3, RecordFields
  <1> HIDE DEF sl
  <1>6. i \in 1 .. Len(sl.msgs) /\ Matches(r, sl, m)
    <2>1. Matching(r, sl) \subseteq Nat
      BY <1>5 DEF Matching
    <2>2. i \in Matching(r, sl)
      BY <1>1, <2>1, FirstMatching
    <2> HIDE DEF i
    <2> QED BY <1>5, <2>2 DEF Matching
  <1> HIDE DEF i
  <1>7. m \in Mail(r) /\ m \in MsgsOf(sl)
    <2>1. ASSUME NEW S, NEW t \in Seq(S), NEW d \in 1 .. Len(t) PROVE t[d] \in S
      OBVIOUS
    <2> QED BY <1>5, <1>6, <2>1 DEF MsgsOf
  <1> DEFINE left == SubSeq(sl.msgs, 1, i - 1) \o SubSeq(sl.msgs, i + 1, Len(sl.msgs))
  <1>8. left \in Seq(Mail(r))
    <2>1. \A d \in 1 .. Len(sl.msgs) : sl.msgs[d] \in Mail(r)
      BY <1>5
    <2>2. i - 1 \in Int /\ i + 1 \in Int /\ i \in Int
      BY <1>6
    <2>3. \A d \in 1 .. i - 1 : sl.msgs[d] \in Mail(r)
      BY <1>5, <1>6, <2>1
    <2>4. \A d \in i + 1 .. Len(sl.msgs) : sl.msgs[d] \in Mail(r)
      BY <1>5, <1>6, <2>1
    <2>5. SubSeq(sl.msgs, 1, i - 1) \in Seq(Mail(r))
      BY <2>2, <2>3, SubSeqProperties
    <2>6. SubSeq(sl.msgs, i + 1, Len(sl.msgs)) \in Seq(Mail(r))
      BY <1>5, <2>2, <2>4, SubSeqProperties
    <2> QED BY <2>5, <2>6
  <1>9. /\ \A c, d \in DOMAIN left : left[c] = left[d] => c = d
        /\ {left[c] : c \in DOMAIN left} = MsgsOf(sl) \ {m}
    <2>1. Distinct(sl.msgs)
      BY <1>2 DEF StoredOnce, sl, Distinct
    <2>2. PICK t \in Seq(Mail(r)) : t = sl.msgs
      BY <1>5
    <2>3. PICK x0 \in 1 .. Len(t) : x0 = i
      BY <1>6, <2>2
    <2>4. Distinct(t)
      BY <2>1, <2>2
    <2>5. Distinct(Dropped(t, x0)) /\ Lacks(Dropped(t, x0), t, t[x0])
      BY <2>4, OneOut
    <2>6. left = Dropped(t, x0) /\ m = t[x0]
      BY <2>2, <2>3 DEF Dropped
    <2> HIDE DEF left, m
    <2>7. \A x : x \in MsgsOf(sl) <=> \E c \in DOMAIN t : x = t[c]
      BY <2>2 DEF MsgsOf
    <2> DEFINE L == {left[c] : c \in DOMAIN left}
               K == MsgsOf(sl) \ {m}
    <2>8. \A x : x \in L <=> \E c \in DOMAIN left : x = left[c]
      OBVIOUS
    <2>08. \A x : x \in K <=> x \in MsgsOf(sl) /\ x # m
      OBVIOUS
    <2>09. Lacks(left, t, m)
      BY <2>5, <2>6
    <2> HIDE DEF L, K
    <2>9. \A x : x \in L <=> x \in K
      BY ONLY <2>7, <2>8, <2>08, <2>09 DEF Lacks
    <2>10. L = K
      BY <2>9
    <2> QED BY <2>5, <2>6, <2>10 DEF L, K, Distinct
  <1> HIDE DEF left
  <1>10. /\ rest \in SlotRecords(r) /\ rest.msgs = left
         /\ rest.busy = sl.busy /\ rest.cb = sl.cb /\ rest.resending = sl.resending
         /\ rest.recv_comp = sl.recv_comp /\ rest.pending = sl.pending
         /\ rest.zcomps = sl.zcomps /\ rest.step = sl.step /\ rest.buf = sl.buf
         /\ rest.iter = sl.iter /\ rest.num_store = sl.num_store
         /\ rest.resend_flag = sl.resend_flag /\ rest.run = sl.run /\ rest.coll_id = sl.coll_id
    <2>1. rest = [sl EXCEPT !.msgs = left]
      BY DEF left
    <2> HIDE DEF rest
    <2> QED BY <1>3, <1>8, <2>1 DEF SlotRecords
  <1> HIDE DEF rest, m
  <1>11. Scanning(r, sl)
    BY <1>3 DEF SlotAt
  <1>12. Scanning(r, rest)
    <2>1. StepAt(r, rest) = StepAt(r, sl)
      BY <1>10 DEF StepAt
    <2> QED BY <1>10, <1>11, <2>1
         DEF Scanning, Waiting, OthersRewound, Rewound, AwaitsMessages, AwaitsSends,
             AwaitsFirstHalf, It, Num, Flag
  <1>13. Alike(rest, slot[r][s])
    BY <1>10 DEF Alike, sl
  <1>14. /\ MsgsOf(rest) = MsgsOf(slot[r][s]) \ {m}
         /\ \A c, d \in DOMAIN rest.msgs : rest.msgs[c] = rest.msgs[d] => c = d
    BY <1>9, <1>10 DEF MsgsOf, sl
  <1>15. m.coll_id % Slots = s /\ m \in net \cup pc.then \cup MsgsOf(slot[r][s])
         /\ Matches(r, slot[r][s], m) /\ m \notin pc.then /\ m \notin net /\ m \in Pool
    <2>1. m \in MsgsOf(slot[r][s])
      BY <1>7 DEF sl
    <2> QED BY <1>2, <1>6, <2>1, StoredWhere DEF StoredOnce, Pool, sl
  <1>16. net' = net \ {m} /\ next' = next
    BY <1>1, <1>15
  <1> HIDE DEF res
  <1>17. CASE pc.depth = MaxMsgList
    <2>1. Enter(r, s, sl, "scan", 0, pc.then)
      BY <1>1, <1>17
    <2>2. /\ slot'[r][s] = sl /\ pc'.then = pc.then /\ pc'.rank = r /\ pc'.slot = s
          /\ \A q \in Ranks, t \in SlotIds : q # r \/ t # s => slot'[q][t] = slot[q][t]
      BY <1>4, <2>1, Entered
    <2>3. \A q \in Ranks, t \in SlotIds : slot'[q][t] = slot[q][t]
      BY <2>2 DEF sl
    <2>4. OnceInv' /\ Pool' = Pool
      <3>1. \A q \in Ranks, t \in SlotIds : StoredOnce(q, t)'
        BY <1>1, <1>2, <2>2, <2>3 DEF OnceInv, StoredOnce
      <3>2. OnceInv'
        BY <1>1, <1>2, <1>4, <2>2, <3>1 DEF OnceInv, Matches, StepAt, sl
      <3>3. Stored' = Stored
        <4>1. \A n : n \in Stored' <=> \E q \in Ranks, t \in SlotIds : n \in MsgsOf(slot'[q][t])
          BY DEF Stored
        <4>2. \A n : n \in Stored <=> \E q \in Ranks, t \in SlotIds : n \in MsgsOf(slot[q][t])
          BY DEF Stored
        <4>3. \A n : n \in Stored' <=> n \in Stored
          BY ONLY <2>3, <4>1, <4>2
        <4> QED BY ONLY <4>3
      <3> QED BY <1>1, <2>2, <3>2, <3>3 DEF Pool
    <2>5. sl.busy
      BY <1>11 DEF Scanning, Waiting
    <2>6. PICK k \in RunIds : Now(r, s, k)
      BY <2>5, BusyNow DEF sl
    <2> DEFINE X == {}
    <2>7. Sends(r, s, sl, k, X) /\ Pool' = Pool \cup Messages(X, k) /\ ~ (X # {})
      BY <2>4 DEF Sends, Messages, sl
    <2> HIDE DEF X
    <2>8. SlotFlow(r, sl, "scan", Missing(r, k))
      <3>1. SlotFlow(r, slot[r][s], Activation(r, s), Missing(r, k))
        BY <2>6, FlowNow DEF Now
      <3> QED BY <1>4, <3>1 DEF sl
    <2>9. /\ pc.at = "out" \/ (pc.rank = r /\ pc.slot = s)
          /\ Enter(r, s, sl, "scan", 0, pc.then)
          /\ k = slot[r][s].run /\ sl.run = k /\ sl.coll_id = slot[r][s].coll_id
          /\ (sl.busy => slot[r][s].busy) /\ sl.buf = slot[r][s].buf
          /\ (X # {} => next[r] > s)
          /\ (next[r] > s => SlotFlow(r, sl, "scan", Missing(r, k)))
      BY <1>4, <2>1, <2>6, <2>7, <2>8 DEF sl, Now
    <2>10. FlowFits /\ EngineInv /\ EngineInv' /\ FlowInv /\ r \in Ranks /\ s \in SlotIds
      OBVIOUS
    <2> QED BY ONLY <1>16, <2>4, <2>7, <2>9, <2>10, KeepFlow
  <1>18. FlowFits /\ EngineInv /\ EngineInv' /\ FlowInv /\ r \in Ranks /\ s \in SlotIds
    OBVIOUS
  <1>19. /\ pc.at = "out" \/ (pc.rank = r /\ pc.slot = s)
         /\ Activation(r, s) # "execute"
    BY <1>4
  <1>20. res = Callback(r, rest, m)
    BY DEF res
  <1>21. CASE pc.depth # MaxMsgList /\ res.at = "more"
    <2> DEFINE at   == "scan"
               then == pc.then
               d    == pc.depth
    <2>1. Enter(r, s, res.slot, at, d, then)
      BY <1>1, <1>21
    <2>2. /\ at = res.at \/ (res.at = "more" /\ at # "execute")
          /\ at = "out" \/ then = {} => pc.then \subseteq {m}
          /\ at # "out" /\ then # {} =>
               then = pc.then /\ pc.rank = r /\ pc.slot = s /\ res.at = "more"
          /\ m \in then => at = "out"
      BY <1>4, <1>15, <1>21
    <2> HIDE DEF at, then, d
    <2>3. Gives(r, s, rest, m, at, d, then)
      BY <1>7, <1>10, <1>12, <1>13, <1>14, <1>15, <1>16, <1>19, <1>20, <2>1, <2>2 DEF Gives
    <2> QED BY ONLY <1>16, <1>18, <2>3, GivenFlow
  <1>22. CASE pc.depth # MaxMsgList /\ res.at # "more"
    <2> DEFINE at   == res.at
               then == {}
               d    == pc.depth + 1
    <2>1. Enter(r, s, res.slot, at, d, then)
      BY <1>1, <1>22
    <2>2. pc.then = {}
      <3>1. SUFFICES ASSUME NEW n \in pc.then PROVE FALSE
        OBVIOUS
      <3>2. n \in Mail(r) /\ n \in Pool /\ Matches(r, slot[r][s], n)
        BY <1>4, ThenWhere
      <3>3. Callback(r, rest, m).at # "more"
        BY <1>20, <1>22
      <3>4. n = m
        BY ONLY <1>7, <1>10, <1>12, <1>13, <1>15, <1>18, <1>19, <3>2, <3>3, LastTaken
      <3> QED BY <1>15, <3>4
    <2>3. /\ at = res.at \/ (res.at = "more" /\ at # "execute")
          /\ at = "out" \/ then = {} => pc.then \subseteq {m}
          /\ at # "out" /\ then # {} =>
               then = pc.then /\ pc.rank = r /\ pc.slot = s /\ res.at = "more"
          /\ m \in then => at = "out"
      BY <2>2
    <2> HIDE DEF at, then, d
    <2>4. Gives(r, s, rest, m, at, d, then)
      BY <1>7, <1>10, <1>12, <1>13, <1>14, <1>15, <1>16, <1>19, <1>20, <2>1, <2>3 DEF Gives
    <2> QED BY ONLY <1>16, <1>18, <2>4, GivenFlow
  <1> QED BY <1>17, <1>21, <1>22

\* No stored message is left; the one that was coming in is given to the step.
LEMMA ScanEndFlow ==
  ASSUME FlowFits, EngineInv, EngineInv', FlowInv, NEW r \in Ranks, NEW s \in SlotIds,
         ScanEnd(r, s)
  PROVE  FlowInv'
  <1> DEFINE sl == slot[r][s]
  <1>1. /\ Inside("scan", r, s) /\ next' = next /\ net' = net
        /\ pc.then = {} => Enter(r, s, sl, "out", 0, {})
        /\ pc.then # {} =>
             \E m \in pc.then :
               LET res == Callback(r, sl, m)
               IN  Enter(r, s, res.slot, IF res.at = "more" THEN "out" ELSE res.at, 0, {})
    BY DEF ScanEnd
  <1>2. PcInv /\ SlotsInv /\ OnceInv /\ StoredOnce(r, s)
    BY DEF EngineInv, FlowInv, OnceInv
  <1>3. sl \in SlotRecords(r) /\ Scanning(r, sl)
    BY <1>1, <1>2, SlotNow DEF SlotAt
  <1>4. pc.rank = r /\ pc.slot = s /\ pc.at = "scan" /\ Activation(r, s) = "scan"
    BY <1>1 DEF Inside, Activation
  <1> HIDE DEF sl
  <1>5. CASE pc.then = {}
    <2>1. sl.busy
      BY <1>3 DEF Scanning, Waiting
    <2>2. PICK k \in RunIds : Now(r, s, k)
      BY <2>1, BusyNow DEF sl
    <2>3. Counts(r, sl, "out", Missing(r, k)[sl.step])
      <3>1. Counts(r, sl, "scan", Missing(r, k)[sl.step])
        BY <1>4, <2>2 DEF Now, sl
      <3> QED BY <3>1 DEF Counts
    <2>8. Balanced(r, sl, "out", Missing(r, k)[sl.step])
      <3>1. Balanced(r, sl, "scan", Missing(r, k)[sl.step])
        BY <1>4, <2>2 DEF Now, sl
      <3> QED BY <3>1 DEF Balanced
    <2>4. SlotFlow(r, sl, "out", Missing(r, k))
      BY <2>1, <2>2, <2>3, <2>8, MidFlow DEF sl
    <2>5. Stays(r, s, sl)
      BY DEF Stays, sl
    <2>6. Enter(r, s, sl, "out", 0, {})
      BY <1>1, <1>5
    <2>7. pc.at = "out" \/ (pc.rank = r /\ pc.slot = s)
      BY <1>4
    <2> QED BY <1>1, <1>5, <2>2, <2>4, <2>5, <2>6, <2>7, QuietFlow
  <1>6. CASE pc.then # {}
    <2>1. PICK m \in pc.then :
            LET res == Callback(r, sl, m)
            IN  Enter(r, s, res.slot, IF res.at = "more" THEN "out" ELSE res.at, 0, {})
      BY <1>1, <1>6
    <2> DEFINE res  == Callback(r, sl, m)
               at   == IF res.at = "more" THEN "out" ELSE res.at
               then == {}
               d    == 0
    <2>2. Enter(r, s, res.slot, at, d, then)
      BY <2>1
    <2>3. /\ pc.then = {m} /\ m \in Mail(r) /\ m.coll_id % Slots = s
          /\ Matches(r, slot[r][s], m)
      BY <1>4, ThenWhere
    <2>4. /\ MsgsOf(sl) = MsgsOf(slot[r][s]) \ {m} /\ net' = net \ {m}
          /\ \A i, j \in DOMAIN sl.msgs : sl.msgs[i] = sl.msgs[j] => i = j
      BY <1>1, <1>2 DEF StoredOnce, OnceInv, sl
    <2>5. Alike(sl, slot[r][s])
      BY DEF Alike, sl
    <2>6. /\ at = res.at \/ (res.at = "more" /\ at # "execute")
          /\ at = "out" \/ then = {} => pc.then \subseteq {m}
          /\ at # "out" /\ then # {} =>
               then = pc.then /\ pc.rank = r /\ pc.slot = s /\ res.at = "more"
          /\ m \in then => at = "out"
      BY <2>3
    <2>7. m \in net \cup pc.then \cup MsgsOf(slot[r][s]) /\ Activation(r, s) # "execute"
      BY <1>4
    <2> HIDE DEF at, then, d
    <2>8. Gives(r, s, sl, m, at, d, then)
      BY <1>3, <1>4, <2>2, <2>3, <2>4, <2>5, <2>6, <2>7 DEF Gives
    <2>9. FlowFits /\ EngineInv /\ EngineInv' /\ FlowInv /\ r \in Ranks /\ s \in SlotIds
      OBVIOUS
    <2> QED BY ONLY <1>1, <2>8, <2>9, GivenFlow
  <1> QED BY <1>5, <1>6

\* A message that is kept for later leaves the flow alone.
LEMMA KeptFlow ==
  ASSUME FlowFits, EngineInv, EngineInv', FlowInv, next' = next,
         NEW r \in Ranks, NEW s \in SlotIds, pc.at = "out",
         NEW m \in net, m.to = r, m.coll_id % Slots = s, net' = net \ {m},
         NEW new, NEW at, NEW depth, NEW then, Enter(r, s, new, at, depth, then),
         Alike(new, slot[r][s]), at \in {"out", "scan"},
         \/ new.msgs = Append(slot[r][s].msgs, m) /\ then = {}
         \/ new.msgs = slot[r][s].msgs /\ then = {m} /\ at # "out" /\ Matches(r, new, m)
  PROVE  FlowInv'
  <1> DEFINE sl == slot[r][s]
             X  == {}
  <1>1. OnceInv' /\ Pool' = Pool
    BY ArriveMoves
  <1>2. PICK k \in RunIds : k = sl.run
    <2>1. sl \in SlotRecords(r)
      BY DEF EngineInv, SlotsInv
    <2> QED BY <2>1, RecordFields
  <1>3. Sends(r, s, new, k, X) /\ Pool' = Pool \cup Messages(X, k)
    <2>1. \A a \in Posts(Plan) : a.from = r => (Through(new, a) <=> Through(slot[r][s], a))
      BY ThroughSame DEF Alike
    <2> QED BY <1>1, <2>1 DEF Sends, Messages
  <1>4. next[r] > s => SlotFlow(r, new, at, Missing(r, k))
    <2>1. SUFFICES ASSUME next[r] > s PROVE SlotFlow(r, new, at, Missing(r, k))
      OBVIOUS
    <2>2. SlotFlow(r, sl, Activation(r, s), Missing(r, k)) /\ Activation(r, s) = "out"
      BY <1>2, <2>1, FlowNow DEF Activation
    <2>3. SlotFlow(r, new, "out", Missing(r, k))
      <3>1. /\ SlotFlow(r, sl, "out", Missing(r, k))
            /\ new.run = sl.run /\ new.busy = sl.busy /\ new.cb = sl.cb /\ new.step = sl.step
            /\ new.pending = sl.pending /\ new.recv_comp = sl.recv_comp /\ new.buf = sl.buf
            /\ new.zcomps = sl.zcomps /\ new.iter = sl.iter
            /\ new.resend_flag = sl.resend_flag
        BY <2>2 DEF Alike
      <3> HIDE DEF sl
      <3> QED BY ONLY <3>1, LikeFlow
    <2> QED BY <2>3 DEF SlotFlow, Counts, Balanced
  <1>5. /\ k = slot[r][s].run /\ new.run = k /\ new.coll_id = slot[r][s].coll_id
        /\ (new.busy => slot[r][s].busy) /\ new.buf = slot[r][s].buf
        /\ (X # {} => next[r] > s)
        /\ pc.at = "out" \/ (pc.rank = r /\ pc.slot = s)
        /\ Enter(r, s, new, at, depth, then)
    BY <1>2 DEF Alike
  <1> HIDE DEF X
  <1>6. /\ FlowFits /\ EngineInv /\ EngineInv' /\ FlowInv /\ next' = next
        /\ r \in Ranks /\ s \in SlotIds
    OBVIOUS
  <1> QED BY ONLY <1>1, <1>3, <1>4, <1>5, <1>6, KeepFlow

\* A message comes in.
LEMMA DeliverFlow ==
  ASSUME FlowFits, EngineInv, EngineInv', FlowInv, NEW m \in net, Deliver(m)
  PROVE  FlowInv'
  <1> DEFINE r    == m.to
             s    == m.coll_id % Slots
             sl   == slot[r][s]
             st   == StepAt(r, sl)
             here == sl.cb /\ Matches(r, sl, m)
             res  == Callback(r, sl, m)
             none == [sl EXCEPT !.num_store[sl.step] = 0]
  <1>1. /\ pc.at = "out" /\ net' = net \ {m} /\ next' = next
        /\ ~ here => Enter(r, s, Store(sl, m), "out", 0, {})
        /\ here /\ WaitsForSends(sl, st) => Enter(r, s, StoreForLater(sl, st, m), "out", 0, {})
        /\ here /\ ~ WaitsForSends(sl, st) /\ IsZcopy(st) /\ IsRecv(st) /\ Num(sl) > 0 =>
             Enter(r, s, none, "scan", 0, {m})
        /\ /\ here /\ ~ WaitsForSends(sl, st) /\ ~ (IsZcopy(st) /\ IsRecv(st) /\ Num(sl) > 0)
           /\ IsR1S(st) /\ sl.recv_comp
           => Enter(r, s, Store(sl, m), "out", 0, {})
        /\ /\ here /\ ~ WaitsForSends(sl, st) /\ ~ (IsZcopy(st) /\ IsRecv(st) /\ Num(sl) > 0)
           /\ ~ (IsR1S(st) /\ sl.recv_comp)
           => Enter(r, s, res.slot, IF res.at = "more" THEN "out" ELSE res.at, 0, {})
    BY DEF Deliver, Num
  <1>2. PcInv /\ SlotsInv /\ NetInv /\ OnceInv
    BY DEF EngineInv, FlowInv
  <1>3. r \in Ranks /\ m \in Mail(r) /\ s \in SlotIds
    <2>1. r \in Ranks /\ m \in Mail(r)
      BY <1>2 DEF NetInv
    <2>2. m.coll_id \in 0 .. IdSpace - 1
      BY <2>1 DEF Mail
    <2>3. m.coll_id \in Nat
      BY <2>2, EngineAssumption
    <2> QED BY <2>1, <2>3, Ids
  <1>4. m.to = r /\ m.coll_id % Slots = s
    OBVIOUS
  <1> HIDE DEF r, s
  <1>5. sl \in SlotRecords(r) /\ SlotAt(r, sl, "out") /\ pc.then = {} /\ StoredOnce(r, s)
    BY <1>1, <1>2, <1>3, SlotNow, NothingWaits DEF OnceInv, EngineInv
  <1> HIDE DEF sl
  <1>6. /\ RecvCount(st) \in Nat \ {0} /\ sl.step \in DOMAIN Plan[r] /\ Num(sl) \in Nat
        /\ sl.pending \in Nat /\ sl.zcomps \in Nat
    BY <1>3, <1>5, RecordFields, StepNumbers
  <1>7. here /\ ~ (IsR1S(st) /\ sl.recv_comp) => Waiting(r, sl)
    BY <1>5 DEF SlotAt, Done, Refused, st
  <1>8. /\ FlowFits /\ EngineInv /\ EngineInv' /\ FlowInv /\ next' = next
        /\ r \in Ranks /\ s \in SlotIds /\ pc.at = "out" /\ m \in net
        /\ m.to = r /\ m.coll_id % Slots = s /\ net' = net \ {m}
    BY <1>1, <1>3, <1>4
  <1>9. ASSUME NEW new, Enter(r, s, new, "out", 0, {}), Alike(new, sl),
               new.msgs = Append(sl.msgs, m)
        PROVE  FlowInv'
    <2> DEFINE at   == "out"
               then == {}
               d    == 0
    <2>1. /\ Enter(r, s, new, at, d, then) /\ at \in {"out", "scan"}
          /\ Alike(new, slot[r][s])
          /\ \/ new.msgs = Append(slot[r][s].msgs, m) /\ then = {}
             \/ new.msgs = slot[r][s].msgs /\ then = {m} /\ at # "out" /\ Matches(r, new, m)
      BY <1>9 DEF sl
    <2> HIDE DEF at, then, d
    <2> QED BY ONLY <1>8, <2>1, KeptFlow
  <1>10. ASSUME Enter(r, s, Store(sl, m), "out", 0, {}) PROVE FlowInv'
    <2> DEFINE new == Store(sl, m)
    <2>1. Alike(new, sl) /\ new.msgs = Append(sl.msgs, m)
      BY <1>5 DEF Store, Alike, SlotRecords
    <2> HIDE DEF new
    <2> QED BY <1>9, <1>10, <2>1 DEF new
  <1>11. ASSUME Enter(r, s, StoreForLater(sl, st, m), "out", 0, {}) PROVE FlowInv'
    <2> DEFINE n   == IF sl.num_store[sl.step] + 1 > RecvCount(st) THEN sl.num_store[sl.step]
                      ELSE sl.num_store[sl.step] + 1
               counted == [sl EXCEPT !.num_store[sl.step] = n]
               new == Store(counted, m)
    <2>1. StoreForLater(sl, st, m) = new
      BY DEF StoreForLater
    <2> HIDE DEF n
    <2>2. Alike(new, sl) /\ new.msgs = Append(sl.msgs, m)
      BY <1>5 DEF Store, Alike, SlotRecords
    <2> HIDE DEF new
    <2> QED BY <1>9, <1>11, <2>1, <2>2
  <1>12. ASSUME here, Enter(r, s, none, "scan", 0, {m}) PROVE FlowInv'
    <2> DEFINE at   == "scan"
               then == {m}
               d    == 0
    <2>1. Alike(none, sl) /\ none.msgs = sl.msgs
      BY <1>5 DEF Alike, SlotRecords
    <2> HIDE DEF none
    <2>2. Matches(r, none, m)
      BY <1>12, <2>1 DEF Matches, Alike, StepAt
    <2>3. /\ Enter(r, s, none, at, d, then) /\ at \in {"out", "scan"}
          /\ Alike(none, slot[r][s])
          /\ \/ none.msgs = Append(slot[r][s].msgs, m) /\ then = {}
             \/ none.msgs = slot[r][s].msgs /\ then = {m} /\ at # "out" /\ Matches(r, none, m)
      BY <1>12, <2>1, <2>2 DEF sl
    <2> HIDE DEF at, then, d
    <2> QED BY ONLY <1>8, <2>3, KeptFlow
  <1>13. ASSUME here, ~ WaitsForSends(sl, st), ~ (IsZcopy(st) /\ IsRecv(st) /\ Num(sl) > 0),
                ~ (IsR1S(st) /\ sl.recv_comp)
         PROVE  FlowInv'
    <2>1. Waiting(r, sl) /\ Matches(r, sl, m)
      BY <1>7, <1>13
    <2>2. AwaitsMessages(st, sl) \/ AwaitsSends(st, sl) \/ AwaitsFirstHalf(st, sl)
      BY <2>1 DEF Waiting, st
    <2>3. Num(sl) = 0
      BY <1>6, <1>13, <2>2 DEF AwaitsMessages, AwaitsSends, AwaitsFirstHalf
    <2>4. IsRecv(st) => sl.zcomps = 0
      <3>1. SUFFICES ASSUME IsRecv(st) PROVE sl.zcomps = 0
        OBVIOUS
      <3>2. AwaitsMessages(st, sl)
        BY <2>2, <3>1, Kinds DEF AwaitsSends, AwaitsFirstHalf, st
      <3>3. IsZcopy(st) => sl.pending <= RecvCount(st)
        BY <1>6, <1>13, <3>1 DEF WaitsForSends
      <3> QED BY <1>6, <3>2, <3>3 DEF AwaitsMessages
    <2>5. Scanning(r, sl)
      BY <1>13, <2>1, <2>3, <2>4 DEF Scanning, st
    <2> DEFINE at   == IF res.at = "more" THEN "out" ELSE res.at
               then == {}
               d    == 0
    <2>6. Enter(r, s, res.slot, at, d, then)
      BY <1>1, <1>13
    <2>7. /\ MsgsOf(sl) = MsgsOf(slot[r][s]) \ {m}
          /\ \A i, j \in DOMAIN sl.msgs : sl.msgs[i] = sl.msgs[j] => i = j
          /\ Alike(sl, slot[r][s]) /\ Matches(r, slot[r][s], m)
      BY <1>5, <2>1 DEF StoredOnce, Alike, sl
    <2>8. /\ at = res.at \/ (res.at = "more" /\ at # "execute")
          /\ at = "out" \/ then = {} => pc.then \subseteq {m}
          /\ at # "out" /\ then # {} =>
               then = pc.then /\ pc.rank = r /\ pc.slot = s /\ res.at = "more"
          /\ m \in then => at = "out"
      BY <1>5
    <2>9. m \in net \cup pc.then \cup MsgsOf(slot[r][s]) /\ Activation(r, s) # "execute"
      BY <1>1 DEF Activation
    <2> HIDE DEF at, then, d
    <2>10. Gives(r, s, sl, m, at, d, then)
      BY <1>3, <1>5, <1>8, <2>5, <2>6, <2>7, <2>8, <2>9 DEF Gives
    <2> QED BY ONLY <1>8, <2>10, GivenFlow
  <1> QED BY <1>1, <1>10, <1>11, <1>12, <1>13

\* Member r starts the k-th collective, in slot s.
Starts(r, s, k, new) ==
  /\ k \in RunIds /\ s \in SlotIds /\ k % Slots = s /\ next[r] = k /\ next'[r] = k + 1
  /\ \A q \in Ranks : q # r => next'[q] = next[q]
  /\ net' = net /\ pc.then = {} /\ pc'.then = {}
  /\ slot'[r][s] = new /\ ~ slot[r][s].busy
  /\ \A q \in Ranks, t \in SlotIds : q # r \/ t # s => slot'[q][t] = slot[q][t]
  /\ Activation(r, s)' = "execute"
  /\ \A q \in Ranks, t \in SlotIds : q # r \/ t # s => Activation(q, t)' = Activation(q, t)
  /\ new.busy /\ new.run = k /\ new.coll_id = k % IdSpace /\ new.step = 1 /\ ~ new.cb
  /\ new.pending = RecvCount(Plan[r][1]) /\ ~ new.recv_comp /\ It(new) = 0
  /\ new.buf = Buffer(r, k) /\ new.msgs = slot[r][s].msgs
  /\ new.zcomps = 0 /\ Rewound(r, new, 1)

\* What a start does.
LEMMA StartIs ==
  ASSUME EngineInv, NEW r \in Ranks, Start(r)
  PROVE  \E k \in RunIds, s \in SlotIds : \E new : Starts(r, s, k, new)
  <1>1. next \in [Ranks -> 0 .. Runs] /\ PcInv /\ SlotsInv
    BY DEF EngineInv
  <1>2. PICK k \in RunIds : k = next[r]
    <2>1. next[r] \in 0 .. Runs - 1
      <3>1. next[r] < Runs
        BY DEF Start
      <3> QED BY <1>1, <3>1, EngineAssumption
    <2> QED BY <2>1 DEF RunIds
  <1>3. PICK s \in SlotIds : s = k % Slots
    BY Ids DEF RunIds
  <1> DEFINE old   == slot[r][s]
             first == Plan[r][1]
             made  == [old EXCEPT !.busy = TRUE, !.run = k,
                                  !.coll_id = k % IdSpace, !.step = 1,
                                  !.pending = RecvCount(first),
                                  !.recv_comp = FALSE, !.iter[1] = 0,
                                  !.buf = Buffer(r, k)]
  <1>4. PICK new : new = made
    OBVIOUS
  <1>5. /\ pc.at = "out" /\ ~ old.busy
        /\ next' = [next EXCEPT ![r] = k + 1] /\ net' = net
        /\ Enter(r, s, new, "execute", 0, {})
    BY <1>2, <1>3, <1>4 DEF Start
  <1>6. next'[r] = k + 1 /\ \A q \in Ranks : q # r => next'[q] = next[q]
    BY <1>1, <1>5
  <1>7. pc.then = {} /\ old \in SlotRecords(r) /\ SlotAt(r, old, "out")
    BY <1>1, <1>5, NothingWaits, SlotNow
  <1>8. old.msgs = slot[r][s].msgs /\ ~ slot[r][s].busy
    BY <1>5
  <1> HIDE DEF old
  <1>9. Done(r, old)
    BY <1>5, <1>7 DEF SlotAt, Waiting, Refused
  <1>10. 1 \in DOMAIN Plan[r] /\ old.iter \in [DOMAIN Plan[r] -> Nat]
    BY <1>7, PlanSteps, RecordFields
  <1>11. /\ new.busy /\ new.cb = old.cb /\ ~ new.recv_comp
         /\ new.step = 1 /\ new.pending = RecvCount(first)
         /\ new.iter = [old.iter EXCEPT ![1] = 0]
         /\ new.run = k /\ new.coll_id = k % IdSpace /\ new.buf = Buffer(r, k)
         /\ new.msgs = old.msgs /\ new.zcomps = old.zcomps
         /\ new.num_store = old.num_store /\ new.resend_flag = old.resend_flag
    <2> HIDE DEF first
    <2> QED BY <1>4, <1>7 DEF SlotRecords
  <1> HIDE DEF made
  <1>15. new.zcomps = 0 /\ Rewound(r, new, 1)
    BY <1>9, <1>10, <1>11 DEF Done, AllRewound, Rewound
  <1>12. It(new) = 0 /\ ~ new.cb
    BY <1>9, <1>10, <1>11 DEF Done, It
  <1>13. /\ slot'[r][s] = new
         /\ \A q \in Ranks, t \in SlotIds : q # r \/ t # s => slot'[q][t] = slot[q][t]
         /\ Activation(r, s)' = "execute"
         /\ \A q \in Ranks, t \in SlotIds :
              q # r \/ t # s => Activation(q, t)' = Activation(q, t)
         /\ pc'.then = {}
    BY <1>5, Entered
  <1>14. Starts(r, s, k, new)
    BY <1>2, <1>3, <1>5, <1>6, <1>7, <1>8, <1>11, <1>12, <1>13, <1>15 DEF Starts
  <1> QED BY <1>14

\* It changes no message's place, and nothing is sent by it.
LEMMA StartKept ==
  ASSUME EngineInv, FlowInv, NEW r \in Ranks, NEW s \in SlotIds, NEW k \in RunIds, NEW new,
         Starts(r, s, k, new), FlowFits
  PROVE  /\ OnceInv' /\ Pool' = Pool
         /\ \A a \in Posts(Plan), j \in RunIds : Posted(a, j)' <=> Posted(a, j)
         /\ \A q \in Ranks, j \in RunIds : Missing(q, j)' = Missing(q, j)
  <1>1. \A q \in Ranks, t \in SlotIds : slot'[q][t].msgs = slot[q][t].msgs
    BY DEF Starts
  <1>2. \A q \in Ranks, t \in SlotIds : MsgsOf(slot'[q][t]) = MsgsOf(slot[q][t])
    BY <1>1 DEF MsgsOf
  <1>3. net' = net /\ pc'.then = pc.then /\ pc.then = {}
    BY DEF Starts
  <1>4. OnceInv'
    <2>1. ASSUME NEW q \in Ranks, NEW t \in SlotIds PROVE StoredOnce(q, t)'
      <3>1. StoredOnce(q, t)
        BY DEF FlowInv, OnceInv
      <3> QED BY <1>1, <1>2, <1>3, <3>1 DEF StoredOnce
    <2> QED BY <1>3, <2>1 DEF OnceInv
  <1>5. Pool' = Pool
    <2>1. \A n : n \in Stored' <=> \E q \in Ranks, t \in SlotIds : n \in MsgsOf(slot'[q][t])
      BY DEF Stored
    <2>2. \A n : n \in Stored <=> \E q \in Ranks, t \in SlotIds : n \in MsgsOf(slot[q][t])
      BY DEF Stored
    <2>3. Stored' = Stored
      BY <1>2, <2>1, <2>2
    <2> QED BY <1>3, <2>3 DEF Pool
  <1>6. ASSUME NEW a \in Posts(Plan), NEW j \in RunIds PROVE Posted(a, j)' <=> Posted(a, j)
    <2> DEFINE t == j % Slots
               q == a.from
    <2>1. q \in Ranks /\ a.step \in Nat /\ a.step >= 1 /\ a.pos \in Nat
      BY PostFacts, PlanSteps
    <2>2. j \in Nat /\ t \in SlotIds /\ k \in Nat
      BY Ids DEF RunIds
    <2>3. next \in [Ranks -> 0 .. Runs]
      BY DEF EngineInv
    <2>4. CASE q # r
      BY <2>1, <2>2, <2>4 DEF Posted, Starts
    <2>5. CASE q = r /\ j = k
      <3>1. ~ Posted(a, j)
        BY <2>2, <2>5 DEF Posted, Starts
      <3>2. ~ Through(new, a)
        <4>1. new.busy /\ new.step = 1 /\ ~ new.cb /\ It(new) = 0
          BY DEF Starts
        <4>2. SentUpTo(q, new) = 0
          BY <4>1 DEF SentUpTo
        <4> QED BY <2>1, <4>1, <4>2 DEF Through
      <3>3. ~ Posted(a, j)'
        <4>1. slot'[r][s] = new /\ new.run = k /\ k % Slots = s
          BY DEF Starts
        <4>2. slot'[a.from][j % Slots] = new
          BY <2>5, <4>1
        <4>3. Through(slot'[a.from][j % Slots], a) <=> Through(new, a)
          BY <4>2
        <4> QED BY <2>5, <3>2, <4>1, <4>2, <4>3 DEF Posted, Through, SentUpTo, StepAt, It
      <3> QED BY <3>1, <3>3
    <2>6. CASE q = r /\ j # k
      <3>1. next'[q] > j <=> next[q] > j
        BY <2>2, <2>6 DEF Starts
      <3>2. CASE t # s
        <4>1. slot'[q][t] = slot[q][t]
          BY <2>1, <2>2, <3>2 DEF Starts
        <4> QED BY <3>1, <4>1 DEF Posted, Through, SentUpTo, StepAt, It
      <3>3. CASE t = s
        <4>1. Through(slot[q][t], a)
          BY <2>6, <3>3 DEF Through, Starts
        <4>2. slot'[q][t].run # j
          BY <2>6, <3>3 DEF Starts
        <4> QED BY <3>1, <4>1, <4>2 DEF Posted
      <3> QED BY <3>2, <3>3
    <2> QED BY <2>4, <2>5, <2>6
  <1>7. ASSUME NEW q \in Ranks, NEW j \in RunIds PROVE Missing(q, j)' = Missing(q, j)
    <2>1. ASSUME NEW i \in DOMAIN Plan[q] PROVE Missing(q, j)'[i] = Missing(q, j)[i]
      <3>1. Arrivals(Plan, q, i) \subseteq Posts(Plan)
        BY ArrivalFacts
      <3>2. \A a \in Posts(Plan) : Open(a, j)' <=> Open(a, j)
        BY <1>5, <1>6 DEF Open, Msg
      <3>3. /\ Missing(q, j)'[i] = {a \in Arrivals(Plan, q, i) : Open(a, j)'}
            /\ Missing(q, j)[i] = {a \in Arrivals(Plan, q, i) : Open(a, j)}
        BY DEF Missing
      <3> QED BY <3>1, <3>2, <3>3
    <2>2. /\ Missing(q, j)' = [i \in DOMAIN Plan[q] |-> Missing(q, j)'[i]]
          /\ Missing(q, j) = [i \in DOMAIN Plan[q] |-> Missing(q, j)[i]]
      BY DEF Missing
    <2> QED BY ONLY <2>1, <2>2, Zenon
  <1> QED BY <1>4, <1>5, <1>6, <1>7

\* Between two starts a slot's number comes around once.
LEMMA StartNumbers ==
  ASSUME EngineInv, NEW r \in Ranks, NEW s \in SlotIds, NEW k \in RunIds, NEW new,
         Starts(r, s, k, new)
  PROVE  /\ k \in Nat /\ s \in Nat /\ Slots \in Nat \ {0} /\ s <= k
         /\ next[r] = k /\ next'[r] = k + 1
         /\ \A q \in Ranks : next[q] \in Nat /\ next'[q] \in Nat /\ next[q] <= next'[q]
         /\ \A q \in Ranks, j \in RunIds :
              q # r \/ j # k => (next'[q] <= j <=> next[q] <= j)
         /\ \A q \in Ranks, t \in SlotIds :
              q # r \/ t # s => (next'[q] <= t <=> next[q] <= t)
         /\ \A x \in Nat : x % Slots # s => x + Slots # k
  <1>1. k \in Nat /\ Slots \in Nat \ {0} /\ \A t \in SlotIds : t \in 0 .. Slots - 1
    BY EngineAssumption DEF RunIds, SlotIds
  <1>2. /\ next[r] = k /\ next'[r] = k + 1 /\ k % Slots = s
        /\ \A q \in Ranks : q # r => next'[q] = next[q]
    BY DEF Starts
  <1>3. \A q \in Ranks : next[q] \in Nat
    BY DEF EngineInv
  <1>4. s <= k
    BY <1>1, <1>2, RestAtMost
  <1>5. \A t \in SlotIds : t = k => t = s
    <2>1. SUFFICES ASSUME k \in 0 .. Slots - 1 PROVE k % Slots = k
      BY <1>1, <1>2
    <2>2. Slots \in Nat \ {0} /\ k \in 0 .. Slots - 1
      BY <1>1, <2>1
    <2> QED BY ONLY <2>2, SmallRest
  <1>6. ASSUME NEW x \in Nat, x + Slots = k PROVE x % Slots = s
    <2> DEFINE c == x % Slots
               d == x \div Slots
    <2>1. Slots \in Nat \ {0} /\ x \in Int
      BY <1>1
    <2>2. c \in 0 .. Slots - 1 /\ d \in Int /\ x = Slots * d + c
      BY <2>1, DivMod
    <2> HIDE DEF c, d
    <2>3. Slots * (d + 1) = Slots * d + Slots /\ Slots * d \in Int
      <3>1. \A y, z \in Int : y * (z + 1) = y * z + y /\ y * z \in Int
        OBVIOUS
      <3> QED BY <2>1, <2>2, <3>1
    <2> DEFINE e == d + 1
    <2>4. Slots \in Nat \ {0} /\ e \in Int /\ c \in 0 .. Slots - 1 /\ k \in Int
          /\ k = Slots * e + c
      BY <1>1, <1>6, <2>1, <2>2, <2>3
    <2> HIDE DEF e
    <2>5. k % Slots = c
      BY ONLY <2>4, ModUnique
    <2> QED BY <1>2, <2>5 DEF c
  <1>7. \A q \in Ranks, j \in RunIds : q # r \/ j # k => (next'[q] <= j <=> next[q] <= j)
    <2>1. ASSUME NEW j \in RunIds, j # k PROVE k + 1 <= j <=> k <= j
      BY <1>1, <2>1 DEF RunIds
    <2> QED BY <1>2, <2>1
  <1>8. \A q \in Ranks, t \in SlotIds : q # r \/ t # s => (next'[q] <= t <=> next[q] <= t)
    <2>1. ASSUME NEW t \in SlotIds, t # k PROVE k + 1 <= t <=> k <= t
      BY <1>1, <2>1 DEF SlotIds
    <2> QED BY <1>2, <1>5, <2>1
  <1>9. s \in Nat
    BY <1>1
  <1>10. \A q \in Ranks : next'[q] \in Nat /\ next[q] <= next'[q]
    <2>1. ASSUME NEW q \in Ranks PROVE next'[q] \in Nat /\ next[q] <= next'[q]
      <3>1. next'[q] = next[q] \/ (next'[q] = k + 1 /\ next[q] = k)
        BY <1>2
      <3>2. next[q] \in Nat
        BY <1>3
      <3> QED BY <1>1, <3>1, <3>2
    <2> QED BY <2>1
  <1> QED BY <1>1, <1>2, <1>3, <1>4, <1>6, <1>7, <1>8, <1>9, <1>10

\* A start gives the slot to the next collective.
LEMMA StartRuns ==
  ASSUME EngineInv, FlowInv, NEW r \in Ranks, NEW s \in SlotIds, NEW k \in RunIds, NEW new,
         Starts(r, s, k, new)
  PROVE  RunsInv'
  <1>1. ASSUME NEW q \in Ranks, NEW t \in SlotIds
        PROVE  IF next'[q] <= t THEN ~ slot'[q][t].busy
               ELSE /\ slot'[q][t].run % Slots = t /\ slot'[q][t].run < next'[q]
                    /\ next'[q] <= slot'[q][t].run + Slots
                    /\ slot'[q][t].coll_id = slot'[q][t].run % IdSpace
    <2>1. IF next[q] <= t THEN ~ slot[q][t].busy
          ELSE /\ slot[q][t].run % Slots = t /\ slot[q][t].run < next[q]
               /\ next[q] <= slot[q][t].run + Slots
               /\ slot[q][t].coll_id = slot[q][t].run % IdSpace
      BY DEF FlowInv, RunsInv
    <2>2. CASE q # r
      <3>1. slot'[q][t] = slot[q][t] /\ next'[q] = next[q]
        BY <2>2 DEF Starts
      <3> QED BY <2>1, <3>1
    <2>3. CASE q = r /\ t # s
      <3>1. slot'[q][t] = slot[q][t] /\ (next'[q] <= t <=> next[q] <= t)
        BY <2>3, StartNumbers DEF Starts
      <3>2. CASE next[q] <= t
        BY <2>1, <3>1, <3>2
      <3>3. CASE ~ (next[q] <= t)
        <4>1. slot[q][t].run \in Nat
          <5>1. slot[q][t] \in SlotRecords(q)
            BY DEF EngineInv, SlotsInv
          <5>2. slot[q][t].run \in RunIds
            BY <5>1, RecordFields
          <5> QED BY <5>2 DEF RunIds
        <4>2. slot[q][t].run + Slots # k
          BY <2>1, <2>3, <3>3, <4>1, StartNumbers
        <4>3. next[q] = k /\ next'[q] = k + 1 /\ k \in Nat /\ Slots \in Nat
          BY <2>3, StartNumbers
        <4> QED BY <2>1, <3>1, <3>3, <4>1, <4>2, <4>3
      <3> QED BY <3>2, <3>3
    <2>4. CASE q = r /\ t = s
      <3>1. /\ slot'[q][t] = new /\ new.run = k /\ new.coll_id = k % IdSpace /\ k % Slots = s
        BY <2>4 DEF Starts
      <3>2. next'[q] = k + 1 /\ k \in Nat /\ s \in Nat /\ s <= k /\ Slots \in Nat \ {0}
        BY <2>4, StartNumbers
      <3> QED BY <2>4, <3>1, <3>2
    <2> QED BY <2>2, <2>3, <2>4
  <1> QED BY <1>1 DEF RunsInv

\* Its first step misses all that is to come to it, and the buffer holds the
\* member's own data.
LEMMA FirstFlow ==
  ASSUME FlowFits, NEW r \in Ranks, NEW s \in SlotIds, NEW k \in RunIds, NEW new,
         Starts(r, s, k, new)
  PROVE  SlotFlow(r, new, "execute", All(r))
  <1>1. /\ new.busy /\ new.run = k /\ new.step = 1 /\ ~ new.cb
        /\ new.pending = RecvCount(Plan[r][1]) /\ ~ new.recv_comp
        /\ new.buf = Buffer(r, k)
    BY DEF Starts
  <1>2. 1 \in DOMAIN Plan[r] /\ DOMAIN Plan[r] = 1 .. Len(Plan[r])
    BY PlanSteps
  <1> DEFINE M == Arrivals(Plan, r, 1)
             st == Plan[r][1]
  <1>3. All(r)[1] = M /\ \A i \in DOMAIN Plan[r] : All(r)[i] = Arrivals(Plan, r, i)
    BY <1>2 DEF All
  <1>4. Counts(r, new, "execute", M)
    <2>1. Cardinality(M) = WaitsFor(st)
      BY <1>2, Fits DEF CountsFit
    <2>2. IsStep(st, Ranks, Offsets)
      BY <1>2, PlanSteps
    <2>3. RecvCount(st) \in Nat
      BY <2>2, StepNumbers
    <2> HIDE DEF M, st
    <2>4. IsRecv(st) => WaitsFor(st) = RecvCount(st)
      BY Kinds DEF WaitsFor
    <2>5. StepAt(r, new) = st
      BY <1>1 DEF StepAt, st
    <2>6. new.pending = RecvCount(st)
      BY <1>1 DEF st
    <2>7. IsRecv(st) => Cardinality(M) <= new.pending
      BY <2>1, <2>3, <2>4, <2>6
    <2>8. M = Arrivals(Plan, r, new.step)
      BY <1>1 DEF M
    <2> QED BY <1>1, <2>5, <2>7, <2>8 DEF Counts
  <1>5. Holds(r, new, M)
    <2>1. ASSUME NEW off \in Offsets
          PROVE  Buffer(r, k)[off] = SetToBag(Held(r, 1, off, M) \X {k})
      <3>1. Held(r, 1, off, M) = Labels[r][1][off]
        BY <1>2, HeldEnds
      <3>2. Labels[r][1][off] = IF r \in Sources THEN {r} ELSE {}
        BY Fits DEF LabelsFit
      <3>3. Buffer(r, k)[off] = IF r \in Sources THEN SetToBag({<<r, k>>}) ELSE EmptyBag
        BY DEF Buffer
      <3>4. {} \X {k} = {} /\ {r} \X {k} = {<<r, k>>}
        BY Pairs
      <3>5. SetToBag({}) = EmptyBag
        BY Bags
      <3> QED BY <3>1, <3>2, <3>3, <3>4, <3>5
    <2> HIDE DEF M
    <2> QED BY <1>1, <2>1 DEF Holds
  <1>6. ~ \E i \in DOMAIN Plan[r] : i < 1
    BY <1>2
  <1> HIDE DEF M
  <1>7. M \subseteq Arrivals(Plan, r, 1)
    BY DEF M
  <1>8. Balanced(r, new, "execute", M)
    <2>1. /\ new.zcomps = 0 /\ Rewound(r, new, new.step) /\ new.step \in DOMAIN Plan[r]
          /\ new.pending = RecvCount(StepAt(r, new))
      BY <1>1, <1>2 DEF Starts, StepAt
    <2> QED BY <1>1, <2>1, Fits, FreshBalanced
  <1> QED BY <1>1, <1>3, <1>4, <1>5, <1>6, <1>7, <1>8 DEF SlotFlow

\* What the steps of the other collectives miss is as it was.
LEMMA StartProgress ==
  ASSUME FlowFits, EngineInv, FlowInv, NEW r \in Ranks, NEW s \in SlotIds, NEW k \in RunIds,
         NEW new, Starts(r, s, k, new)
  PROVE  ProgressInv'
  <1>1. ASSUME NEW q \in Ranks, NEW j \in RunIds
        PROVE  IF next'[q] <= j THEN Missing(q, j)' = All(q)
               ELSE IF slot'[q][j % Slots].run # j THEN Missing(q, j)' = None(q)
               ELSE SlotFlow(q, slot'[q][j % Slots], Activation(q, j % Slots)', Missing(q, j)')
    <2> DEFINE t == j % Slots
    <2>1. IF next[q] <= j THEN Missing(q, j) = All(q)
          ELSE IF slot[q][t].run # j THEN Missing(q, j) = None(q)
          ELSE SlotFlow(q, slot[q][t], Activation(q, t), Missing(q, j))
      BY DEF FlowInv, ProgressInv
    <2>2. Missing(q, j)' = Missing(q, j)
      BY StartKept
    <2>3. t \in SlotIds
      BY Ids DEF RunIds
    <2>4. CASE q = r /\ j = k
      <3>1. Missing(r, k) = All(r)
        <4>1. next[q] <= j
          BY <2>4, StartNumbers
        <4> QED BY <2>1, <2>4, <4>1
      <3>2. SlotFlow(r, new, "execute", All(r))
        BY FirstFlow
      <3>3. ~ (next'[q] <= j)
        <4>1. next'[q] = k + 1 /\ k \in Nat
          BY <2>4, StartNumbers
        <4> QED BY <2>4, <4>1
      <3>4. t = s /\ slot'[r][s] = new /\ new.run = k /\ Activation(r, s)' = "execute"
        BY <2>4 DEF Starts
      <3> HIDE DEF t
      <3>5. slot'[q][t] = new /\ Activation(q, t)' = "execute"
        <4>1. Activation(q, t)' = Activation(r, s)'
          BY <2>4, <3>4
        <4> QED BY <2>4, <3>4, <4>1
      <3>6. SlotFlow(q, slot'[q][t], Activation(q, t)', Missing(q, j)')
        BY <2>2, <2>4, <3>1, <3>2, <3>5
      <3> QED BY <2>4, <3>3, <3>4, <3>5, <3>6 DEF t
    <2>5. CASE q # r \/ j # k
      <3>1. next'[q] <= j <=> next[q] <= j
        BY <2>5, StartNumbers
      <3>2. CASE q # r \/ t # s
        <4>1. slot'[q][t] = slot[q][t] /\ Activation(q, t)' = Activation(q, t)
          BY <2>3, <3>2 DEF Starts
        <4> QED BY <2>1, <2>2, <3>1, <4>1
      <3>3. CASE q = r /\ t = s
        <4>1. slot'[q][t].run # j /\ ~ slot[q][t].busy
          BY <2>5, <3>3 DEF Starts
        <4>2. CASE next[q] <= j
          BY <2>1, <2>2, <3>1, <4>2
        <4>3. CASE ~ (next[q] <= j)
          <5>1. Missing(q, j) = None(q)
            <6>1. CASE slot[q][t].run # j
              BY <2>1, <4>3, <6>1
            <6>2. CASE slot[q][t].run = j
              <7>1. SlotFlow(q, slot[q][t], Activation(q, t), Missing(q, j))
                BY <2>1, <4>3, <6>2
              <7>2. \A i \in DOMAIN Plan[q] : Missing(q, j)[i] = {}
                BY <4>1, <7>1 DEF SlotFlow
              <7>3. \A i \in DOMAIN Plan[q] : Missing(q, j)[i] = None(q)[i]
                BY <7>2 DEF None
              <7>4. /\ Missing(q, j) = [i \in DOMAIN Plan[q] |-> Missing(q, j)[i]]
                    /\ None(q) = [i \in DOMAIN Plan[q] |-> None(q)[i]]
                BY DEF Missing, None
              <7> QED BY ONLY <7>3, <7>4, Zenon
            <6> QED BY <6>1, <6>2
          <5> QED BY <2>2, <3>1, <4>1, <4>3, <5>1
        <4> QED BY <4>2, <4>3
      <3> QED BY <3>2, <3>3
    <2> QED BY <2>4, <2>5
  <1> QED BY <1>1 DEF ProgressInv, All, None

\* The member's own contribution is the only new one.
LEMMA StartKnown ==
  ASSUME FlowFits, EngineInv, FlowInv, NEW r \in Ranks, NEW s \in SlotIds, NEW k \in RunIds,
         NEW new, Starts(r, s, k, new)
  PROVE  KnownInv'
  <1>1. Known \subseteq Known' /\ <<r, k>> \in Known'
    <2>1. ASSUME NEW q \in Ranks, NEW j \in RunIds, next[q] > j PROVE next'[q] > j
      <3>1. next[q] \in Nat /\ next'[q] \in Nat /\ next[q] <= next'[q] /\ j \in Nat
        BY StartNumbers DEF RunIds
      <3> QED BY <2>1, <3>1
    <2>2. next'[r] > k
      BY StartNumbers
    <2>3. ASSUME NEW x \in Known PROVE x \in Known'
      <3>1. PICK q \in Ranks, j \in RunIds : x = <<q, j>>
        BY DEF Known
      <3>2. next[q] > j
        BY <3>1 DEF Known
      <3>3. next'[q] > j
        BY <2>1, <3>2
      <3> QED BY <3>1, <3>3 DEF Known
    <2> QED BY <2>2, <2>3 DEF Known
  <1>2. ASSUME NEW m \in Pool' PROVE DOMAIN m.data \subseteq Known'
    <2>1. m \in Pool
      BY StartKept
    <2> QED BY <1>1, <2>1 DEF FlowInv, KnownInv
  <1>3. ASSUME NEW q \in Ranks, NEW t \in SlotIds, next'[q] > t, NEW off \in Offsets
        PROVE  DOMAIN slot'[q][t].buf[off] \subseteq Known'
    <2>1. CASE q # r \/ t # s
      <3>1. slot'[q][t] = slot[q][t]
        BY <2>1 DEF Starts
      <3>2. next[q] > t
        <4>1. next'[q] <= t <=> next[q] <= t
          BY <2>1, StartNumbers
        <4>2. next[q] \in Int /\ next'[q] \in Int /\ t \in Int
          BY StartNumbers DEF SlotIds
        <4> QED BY <1>3, <4>1, <4>2
      <3>3. DOMAIN slot[q][t].buf[off] \subseteq Known
        BY <3>2 DEF FlowInv, KnownInv
      <3> QED BY <1>1, <3>1, <3>3
    <2>2. CASE q = r /\ t = s
      <3>1. slot'[q][t].buf = Buffer(r, k)
        BY <2>2 DEF Starts
      <3>2. DOMAIN SetToBag({<<r, k>>}) = {<<r, k>>} /\ DOMAIN EmptyBag = {}
        BY Bags
      <3>3. DOMAIN Buffer(r, k)[off] \subseteq {<<r, k>>}
        BY <3>2 DEF Buffer
      <3> QED BY <1>1, <3>1, <3>3
    <2> QED BY <2>1, <2>2
  <1> QED BY <1>2, <1>3 DEF KnownInv

\* The collective that used the slot before is through.
LEMMA StartLeft ==
  ASSUME FlowFits, EngineInv, FlowInv, NEW r \in Ranks, NEW s \in SlotIds, NEW k \in RunIds,
         NEW new, Starts(r, s, k, new)
  PROVE  LeftInv'
  <1>1. ASSUME NEW q \in Ranks, NEW j \in RunIds, next'[q] > j,
               ~ (slot'[q][j % Slots].busy /\ slot'[q][j % Slots].run = j), NEW p \in Ranks
        PROVE  next'[p] > j
    <2> DEFINE t == j % Slots
    <2>1. t \in SlotIds /\ j \in Nat
      BY Ids DEF RunIds
    <2>2. ~ (q = r /\ j = k)
      <3>1. slot'[r][s] = new /\ new.busy /\ new.run = k /\ k % Slots = s
        BY DEF Starts
      <3> QED BY <1>1, <3>1
    <2>3. next[q] > j
      <3>1. next'[q] <= j <=> next[q] <= j
        BY <2>2, StartNumbers
      <3>2. next[q] \in Int /\ next'[q] \in Int /\ j \in Int
        BY <2>1, StartNumbers
      <3> QED BY <1>1, <3>1, <3>2
    <2>4. ~ (slot[q][t].busy /\ slot[q][t].run = j)
      <3>1. CASE q # r \/ t # s
        <4>1. slot'[q][t] = slot[q][t]
          BY <2>1, <3>1 DEF Starts
        <4> QED BY <1>1, <4>1
      <3>2. CASE q = r /\ t = s
        BY <3>2 DEF Starts
      <3> QED BY <3>1, <3>2
    <2>5. next[p] > j
      BY <2>3, <2>4 DEF FlowInv, LeftInv
    <2>6. next[p] \in Nat /\ next'[p] \in Nat /\ next[p] <= next'[p]
      BY StartNumbers
    <2> QED BY <2>1, <2>5, <2>6
  <1> QED BY <1>1 DEF LeftInv

\* A member starts a collective.
LEMMA StartFlow ==
  ASSUME FlowFits, EngineInv, EngineInv', FlowInv, NEW r \in Ranks, Start(r)
  PROVE  FlowInv'
  <1>0. PICK k \in RunIds, s \in SlotIds : \E new : Starts(r, s, k, new)
    BY StartIs
  <1>1. PICK new : Starts(r, s, k, new)
    BY <1>0
  <1>2. /\ OnceInv' /\ Pool' = Pool
        /\ \A a \in Posts(Plan), j \in RunIds : Posted(a, j)' <=> Posted(a, j)
    BY <1>1, StartKept
  <1>3. GenuineInv'
    <2>1. \A a, j : Msg(a, j)' = Msg(a, j)
      BY DEF Msg
    <2> QED BY <1>2, <2>1 DEF FlowInv, GenuineInv
  <1>4. RunsInv' /\ ProgressInv' /\ KnownInv' /\ LeftInv'
    BY <1>1, StartRuns, StartProgress, StartKnown, StartLeft
  <1> QED BY <1>2, <1>3, <1>4 DEF FlowInv

-----------------------------------------------------------------------------
(***************************************************************************)
(* The invariant holds, and with it what a completed collective leaves in  *)
(* a member's buffer.                                                      *)
(***************************************************************************)
\* Nothing has been called at first.
LEMMA InitFlow ==
  ASSUME FlowFits, Init
  PROVE  FlowInv
  <1>1. \A q \in Ranks : next[q] = 0
    BY DEF Init
  <1>2. \A q \in Ranks, t \in SlotIds : ~ slot[q][t].busy /\ slot[q][t].msgs = <<>>
    BY DEF Init
  <1>3. net = {} /\ pc.then = {}
    BY DEF Init, Out
  <1>4. \A q \in Ranks, t \in SlotIds : MsgsOf(slot[q][t]) = {}
    BY <1>2 DEF MsgsOf
  <1>5. Pool = {}
    <2>1. \A n : n \notin Stored
      BY <1>4 DEF Stored
    <2> QED BY <1>3, <2>1 DEF Pool
  <1>6. \A t \in SlotIds : 0 <= t
    BY DEF SlotIds
  <1>7. \A j \in RunIds : 0 <= j /\ ~ (0 > j)
    BY DEF RunIds
  <1>8. RunsInv
    BY <1>1, <1>2, <1>6 DEF RunsInv
  <1>9. GenuineInv
    BY <1>5 DEF GenuineInv
  <1>10. OnceInv
    BY <1>2, <1>3, <1>4 DEF OnceInv, StoredOnce
  <1>11. ProgressInv
    <2>1. ASSUME NEW q \in Ranks, NEW j \in RunIds PROVE Missing(q, j) = All(q)
      <3>1. ASSUME NEW i \in DOMAIN Plan[q] PROVE Missing(q, j)[i] = All(q)[i]
        <4>1. \A a \in Arrivals(Plan, q, i) : Open(a, j)
          <5>1. ASSUME NEW a \in Arrivals(Plan, q, i) PROVE Open(a, j)
            <6>1. a.from \in Ranks
              BY ArrivalFacts, PostFacts
            <6> QED BY <1>1, <1>7, <6>1 DEF Open, Posted
          <5> QED BY <5>1
        <4>2. /\ Missing(q, j)[i] = {a \in Arrivals(Plan, q, i) : Open(a, j)}
              /\ All(q)[i] = Arrivals(Plan, q, i)
          BY DEF Missing, All
        <4> QED BY <4>1, <4>2
      <3>2. /\ Missing(q, j) = [i \in DOMAIN Plan[q] |-> Missing(q, j)[i]]
            /\ All(q) = [i \in DOMAIN Plan[q] |-> All(q)[i]]
        BY DEF Missing, All
      <3> QED BY ONLY <3>1, <3>2, Zenon
    <2> QED BY <1>1, <1>7, <2>1 DEF ProgressInv
  <1>12. KnownInv
    <2>1. \A t \in SlotIds : ~ (0 > t)
      BY DEF SlotIds
    <2> QED BY <1>1, <1>5, <2>1 DEF KnownInv
  <1>13. LeftInv
    BY <1>1, <1>7 DEF LeftInv
  <1> QED BY <1>8, <1>9, <1>10, <1>11, <1>12, <1>13 DEF FlowInv

\* Every step keeps the invariant.
LEMMA NextFlow ==
  ASSUME FlowFits, EngineInv, EngineInv', FlowInv, [Next]_vars
  PROVE  FlowInv'
  <1>1. ASSUME NEW m \in net, Deliver(m) PROVE FlowInv'
    BY <1>1, DeliverFlow
  <1>2. ASSUME NEW r \in Ranks, Start(r) PROVE FlowInv'
    BY <1>2, StartFlow
  <1>3. ASSUME NEW r \in Ranks, NEW s \in SlotIds, Execute(r, s) PROVE FlowInv'
    <2>1. CASE ExecuteReceiveFirst(r, s)
      BY <2>1, ReceiveFirstFlow
    <2>2. CASE ExecuteReceive(r, s)
      BY <2>2, ReceiveFlow
    <2>3. ASSUME NEW j \in 0 .. Fragments(StepAt(r, slot[r][s])) * Len(StepAt(r, slot[r][s]).eps),
                 ExecuteSend(r, s, j)
          PROVE  FlowInv'
      <3>1. j \in Nat
        OBVIOUS
      <3> QED BY <2>3, <3>1, ExecuteSendFlow
    <2> QED BY <1>3, <2>1, <2>2, <2>3 DEF Execute
  <1>4. ASSUME NEW r \in Ranks, NEW s \in SlotIds, ScanMatch(r, s) \/ ScanEnd(r, s)
        PROVE  FlowInv'
    BY <1>4, ScanMatchFlow, ScanEndFlow
  <1>5. ASSUME NEW r \in Ranks, NEW s \in SlotIds, ZcopyDone(r, s) \/ Resend(r, s)
        PROVE  FlowInv'
    BY <1>5, ZcopyDoneFlow, ResendFlow
  <1>6. CASE UNCHANGED vars
    <2>1. slot' = slot /\ pc' = pc /\ next' = next /\ net' = net
      BY <1>6 DEF vars
    <2>2. Pool' = Pool /\ Known' = Known
      BY <2>1 DEF Pool, Stored, Known
    <2>3. \A a, k : Posted(a, k)' <=> Posted(a, k)
      BY <2>1 DEF Posted
    <2>4. \A a, k : Msg(a, k)' = Msg(a, k)
      BY DEF Msg
    <2>5. \A q, k : Missing(q, k)' = Missing(q, k)
      BY <2>2, <2>3, <2>4 DEF Missing, Open
    <2>6. \A q, t : Activation(q, t)' = Activation(q, t)
      BY <2>1 DEF Activation
    <2>7. RunsInv' /\ LeftInv' /\ KnownInv' /\ GenuineInv'
      BY <2>1, <2>2, <2>3, <2>4 DEF FlowInv, RunsInv, LeftInv, KnownInv, GenuineInv
    <2>8. OnceInv'
      BY <2>1 DEF FlowInv, OnceInv, StoredOnce
    <2>9. ProgressInv'
      BY <2>1, <2>5, <2>6 DEF FlowInv, ProgressInv, All, None
    <2> QED BY <2>7, <2>8, <2>9 DEF FlowInv
  <1> QED BY <1>1, <1>2, <1>3, <1>4, <1>5, <1>6 DEF Next

\* The inductive invariant holds.
LEMMA FlowInvariant ==
  ASSUME FlowFits
  PROVE  Spec => [](EngineInv /\ FlowInv)
  <1>1. OrderlyPlan
    BY Fits
  <1>2. Spec => []EngineInv
    BY <1>1, EngineInvariant
  <1>3. Init => FlowInv
    BY InitFlow
  <1>4. EngineInv /\ EngineInv' /\ FlowInv /\ [Next]_vars => FlowInv'
    BY NextFlow
  <1> QED BY <1>2, <1>3, <1>4, PTL DEF Spec

\* A completed collective left every member's contribution in the buffer exactly
\* once, and no contribution of another collective: for every plan whose data
\* flow fits, on any number of members, with any number of slots, and whatever
\* the order of messages, completions and resends (the reductions of
\* ucg_builtin_step_am_handler and the steps of ucg_builtin_step_execute).
THEOREM ResultsAreExact ==
  ASSUME FlowFits
  PROVE  Spec => []ResultExact
  <1>1. EngineInv /\ FlowInv => ResultExact
    <2> SUFFICES ASSUME EngineInv, FlowInv, NEW r \in Ranks, NEW s \in SlotIds,
                        next[r] > s, ~ slot[r][s].busy, NEW off \in Offsets
                 PROVE  slot[r][s].buf[off] = SetToBag(Contributors \X {slot[r][s].run})
      BY DEF ResultExact
    <2>1. PICK k : k = slot[r][s].run
      OBVIOUS
    <2>2. SlotFlow(r, slot[r][s], Activation(r, s), Missing(r, k))
      BY <2>1, FlowNow
    <2> QED BY <2>2 DEF SlotFlow
  <1> QED BY <1>1, FlowInvariant, PTL

-----------------------------------------------------------------------------
(***************************************************************************)
(* The engine implements the collective.                                   *)
(***************************************************************************)
\* Only slot s of member r is changed.
Touches(r, s) ==
  \A q \in Ranks, t \in SlotIds : q # r \/ t # s => slot'[q][t] = slot[q][t]

Called(k) == {r \in Ranks : next[r] > k}
InIt(r, k) == \E s \in SlotIds : slot[r][s].busy /\ slot[r][s].run = k
Gone(k) == {r \in Ranks : next[r] > k /\ ~ InIt(r, k)}

\* An activation changes no other slot, and completes a collective at most.
LEMMA OneSlot ==
  ASSUME EngineInv, [Next]_vars, ~ \E r \in Ranks : Start(r)
  PROVE  /\ next' = next
         /\ \E r \in Ranks, s \in SlotIds :
              Touches(r, s) /\ (slot'[r][s].busy => slot[r][s].busy)
  <1> DEFINE Fine == /\ next' = next
                     /\ \E r \in Ranks, s \in SlotIds :
                          Touches(r, s) /\ (slot'[r][s].busy => slot[r][s].busy)
  <1>1. PcInv /\ SlotsInv /\ NetInv /\ slot = [q \in Ranks |-> [t \in SlotIds |-> slot[q][t]]]
    BY DEF EngineInv, SlotsInv
  <1>2. ASSUME NEW r \in Ranks, NEW s \in SlotIds, NEW new, NEW at, NEW depth, NEW then,
               Enter(r, s, new, at, depth, then)
        PROVE  Touches(r, s) /\ slot'[r][s] = new
    BY <1>1, <1>2 DEF Enter, Touches
  <1>3. ASSUME NEW r \in Ranks, NEW s \in SlotIds, NEW sl, NEW depth,
               FinishSend(r, s, sl, depth)
        PROVE  Touches(r, s)
    BY <1>2, <1>3 DEF FinishSend
  <1>4. ASSUME NEW r \in Ranks, NEW s \in SlotIds,
               Inside("execute", r, s) \/ Inside("scan", r, s)
        PROVE  slot[r][s].busy
    <2>1. SlotAt(r, slot[r][s], "execute") \/ SlotAt(r, slot[r][s], "scan")
      BY <1>1, <1>4, SlotNow
    <2> DEFINE sl == slot[r][s]
    <2> HIDE DEF sl
    <2>2. sl.busy
      BY <2>1 DEF SlotAt, Fresh, Second, Refused, Scanning, Waiting, sl
    <2> QED BY <2>2 DEF sl
  <1>5. ASSUME NEW r \in Ranks, NEW s \in SlotIds, pc.at = "out",
               slot[r][s].zcomps > 0 \/ slot[r][s].resending \/ slot[r][s].cb
        PROVE  slot[r][s].busy
    <2>1. SlotAt(r, slot[r][s], "out")
      BY <1>1, <1>5, SlotNow
    <2> DEFINE sl == slot[r][s]
    <2> HIDE DEF sl
    <2>2. (sl.zcomps > 0 \/ sl.resending \/ sl.cb) => sl.busy
      BY <2>1 DEF SlotAt, Done, Refused, Waiting, sl
    <2> QED BY <1>5, <2>2 DEF sl
  <1>6. ASSUME NEW r \in Ranks, NEW s \in SlotIds, Execute(r, s) PROVE Fine
    <2>1. ASSUME ExecuteReceiveFirst(r, s)
          PROVE  next' = next /\ Touches(r, s) /\ Inside("execute", r, s)
      BY <1>3, <2>1 DEF ExecuteReceiveFirst
    <2>2. ASSUME ExecuteReceive(r, s) PROVE next' = next /\ Touches(r, s) /\ Inside("execute", r, s)
      BY <1>3, <2>2 DEF ExecuteReceive
    <2>3. ASSUME NEW j, ExecuteSend(r, s, j)
          PROVE  next' = next /\ Touches(r, s) /\ Inside("execute", r, s)
      BY <1>2, <1>3, <2>3 DEF ExecuteSend
    <2>4. next' = next /\ Touches(r, s) /\ Inside("execute", r, s)
      BY <1>6, <2>1, <2>2, <2>3 DEF Execute
    <2> QED BY <1>4, <2>4
  <1>7. ASSUME NEW r \in Ranks, NEW s \in SlotIds, ScanMatch(r, s) PROVE Fine
    <2>1. next' = next /\ Touches(r, s) /\ Inside("scan", r, s)
      BY <1>2, <1>7 DEF ScanMatch
    <2> QED BY <1>4, <2>1
  <1>8. ASSUME NEW r \in Ranks, NEW s \in SlotIds, ScanEnd(r, s) PROVE Fine
    <2>1. next' = next /\ Touches(r, s) /\ Inside("scan", r, s)
      BY <1>2, <1>8 DEF ScanEnd
    <2> QED BY <1>4, <2>1
  <1>9. ASSUME NEW r \in Ranks, NEW s \in SlotIds, ZcopyDone(r, s) PROVE Fine
    <2>1. next' = next /\ Touches(r, s) /\ pc.at = "out" /\ slot[r][s].zcomps > 0
      BY <1>2, <1>9 DEF ZcopyDone
    <2> QED BY <1>5, <2>1
  <1>10. ASSUME NEW r \in Ranks, NEW s \in SlotIds, Resend(r, s) PROVE Fine
    <2>1. next' = next /\ Touches(r, s) /\ pc.at = "out" /\ slot[r][s].resending
      BY <1>2, <1>10 DEF Resend
    <2> QED BY <1>5, <2>1
  <1>11. ASSUME NEW m \in net, Deliver(m) PROVE Fine
    <2> DEFINE r == m.to
               s == m.coll_id % Slots
               sl == slot[r][s]
    <2>1. r \in Ranks /\ s \in SlotIds
      <3>1. r \in Ranks /\ m.coll_id \in 0 .. IdSpace - 1
        BY <1>1 DEF NetInv, Mail
      <3>2. m.coll_id \in Nat
        BY <3>1, EngineAssumption
      <3> QED BY <3>1, <3>2, Ids
    <2>2. pc.at = "out" /\ next' = next
      BY <1>11 DEF Deliver
    <2>3. /\ ~ (sl.cb /\ Matches(r, sl, m)) => Enter(r, s, Store(sl, m), "out", 0, {})
          /\ \E new, at, then : Enter(r, s, new, at, 0, then)
      BY <1>11 DEF Deliver
    <2>4. sl \in SlotRecords(r)
      BY <1>1, <2>1, SlotNow
    <2> HIDE DEF r, s
    <2>5. Touches(r, s)
      BY <1>2, <2>1, <2>3
    <2>6. CASE sl.cb
      BY <1>5, <2>1, <2>2, <2>5, <2>6
    <2>7. CASE ~ sl.cb
      <3>1. slot'[r][s] = Store(sl, m)
        BY <1>2, <2>1, <2>3, <2>7
      <3> HIDE DEF sl
      <3>2. Store(sl, m).busy = sl.busy
        BY <2>4 DEF Store, SlotRecords
      <3> QED BY <2>1, <2>2, <2>5, <3>1, <3>2 DEF sl
    <2> QED BY <2>6, <2>7
  <1>12. CASE UNCHANGED vars
    <2>1. 0 \in SlotIds /\ pc.rank \in Ranks
      BY <1>1, Ids DEF PcInv
    <2> QED BY <1>12, <2>1 DEF vars, Touches
  <1> QED BY <1>6, <1>7, <1>8, <1>9, <1>10, <1>11, <1>12 DEF Next

\* A slot's collective is the last one it was given, so it is known from next.
LEMMA RunKnown ==
  ASSUME FlowFits, EngineInv, FlowInv, EngineInv', FlowInv', next' = next,
         NEW r \in Ranks, NEW s \in SlotIds, slot[r][s].busy, slot'[r][s].busy
  PROVE  slot'[r][s].run = slot[r][s].run
  <1> DEFINE x == slot[r][s].run
             y == slot'[r][s].run
             n == next[r]
  <1>1. x \in Nat /\ y \in Nat /\ n \in Nat /\ Slots \in Nat \ {0}
    <2>1. slot[r][s] \in SlotRecords(r) /\ slot'[r][s] \in SlotRecords(r)
      BY DEF EngineInv, SlotsInv
    <2>2. x \in RunIds /\ y \in RunIds
      BY <2>1, RecordFields
    <2> QED BY <2>2, EngineAssumption DEF EngineInv, RunIds
  <1>2. x % Slots = s /\ x < n /\ n <= x + Slots
    BY DEF FlowInv, RunsInv
  <1>3. y % Slots = s /\ y < n /\ n <= y + Slots
    BY DEF FlowInv, RunsInv
  <1> HIDE DEF x, y, n
  <1>4. x < y => x + Slots <= y
    BY <1>1, <1>2, <1>3, SameRest
  <1>5. y < x => y + Slots <= x
    BY <1>1, <1>2, <1>3, SameRest
  <1>6. x = y
    BY <1>1, <1>2, <1>3, <1>4, <1>5
  <1> QED BY <1>6 DEF x, y

\* A member enters a collective when it starts it, and the others see nothing.
LEMMA EnterSeen ==
  ASSUME FlowFits, EngineInv, FlowInv, NEW r \in Ranks, NEW s \in SlotIds, NEW k \in RunIds,
         NEW new, Starts(r, s, k, new)
  PROVE  /\ r \notin Called(k) /\ (k > 0 => r \in Called(k - 1))
         /\ Called(k)' = Called(k) \cup {r}
         /\ \A j \in RunIds : j # k => Called(j)' = Called(j)
         /\ \A j \in RunIds : Gone(j)' = Gone(j)
  <1>1. \A q \in Ranks : next[q] \in Nat /\ next'[q] \in Nat
    BY StartNumbers
  <1>2. k \in Nat /\ next[r] = k /\ next'[r] = k + 1 /\ \A q \in Ranks : q # r => next'[q] = next[q]
    BY StartNumbers DEF Starts
  <1>3. ASSUME NEW j \in RunIds, NEW q \in Ranks, q # r \/ j # k
        PROVE  next'[q] > j <=> next[q] > j
    <2>1. next'[q] <= j <=> next[q] <= j
      BY <1>3, StartNumbers
    <2>2. j \in Nat
      BY DEF RunIds
    <2> QED BY <1>1, <2>1, <2>2
  <1>4. r \notin Called(k) /\ (k > 0 => r \in Called(k - 1))
    BY <1>2 DEF Called
  <1>5. Called(k)' = Called(k) \cup {r}
    <2>1. \A q \in Ranks : next'[q] > k <=> next[q] > k \/ q = r
      BY <1>2, <1>3
    <2> QED BY <2>1 DEF Called
  <1>6. \A j \in RunIds : j # k => Called(j)' = Called(j)
    BY <1>3 DEF Called
  <1>7. ASSUME NEW j \in RunIds PROVE Gone(j)' = Gone(j)
    <2>1. ASSUME NEW q \in Ranks
          PROVE  next'[q] > j /\ ~ InIt(q, j)' <=> next[q] > j /\ ~ InIt(q, j)
      <3>1. CASE q = r /\ j = k
        <4>1. slot'[r][s].busy /\ slot'[r][s].run = k
          BY DEF Starts
        <4>2. InIt(q, j)'
          BY <3>1, <4>1 DEF InIt
        <4>3. ~ (next[q] > j)
          BY <1>2, <3>1
        <4> QED BY <4>2, <4>3
      <3>2. CASE q # r \/ j # k
        <4>1. ASSUME NEW t \in SlotIds
              PROVE  slot'[q][t].busy /\ slot'[q][t].run = j <=> slot[q][t].busy /\ slot[q][t].run = j
          <5>1. CASE q # r \/ t # s
            BY <5>1 DEF Starts
          <5>2. CASE q = r /\ t = s
            BY <3>2, <5>2 DEF Starts
          <5> QED BY <5>1, <5>2
        <4>2. InIt(q, j)' <=> InIt(q, j)
          BY <4>1 DEF InIt
        <4> QED BY <1>3, <3>2, <4>2
      <3> QED BY <3>1, <3>2
    <2>2. /\ Gone(j)' = {q \in Ranks : next'[q] > j /\ ~ InIt(q, j)'}
          /\ Gone(j) = {q \in Ranks : next[q] > j /\ ~ InIt(q, j)}
      BY DEF Gone
    <2> QED BY <2>1, <2>2
  <1> QED BY <1>4, <1>5, <1>6, <1>7

\* A member leaves the collective in a slot when it is completed; all have
\* called it by then.
LEMMA LeaveSeen ==
  ASSUME FlowFits, EngineInv, FlowInv, EngineInv', FlowInv', next' = next,
         NEW r \in Ranks, NEW s \in SlotIds, Touches(r, s),
         slot[r][s].busy, ~ slot'[r][s].busy
  PROVE  \E k \in RunIds :
           /\ r \in Called(k) \ Gone(k) /\ Ranks \subseteq Called(k)
           /\ Gone(k)' = Gone(k) \cup {r}
           /\ \A j \in RunIds : j # k => Gone(j)' = Gone(j)
  <1>1. PICK k \in RunIds : Now(r, s, k)
    BY BusyNow
  <1>2. /\ k = slot[r][s].run /\ k % Slots = s /\ next[r] > s
        /\ k \in Int /\ next[r] \in Int
    <2>1. k = slot[r][s].run /\ k % Slots = s /\ next[r] > s
      BY <1>1 DEF Now
    <2>2. k \in Int
      BY EngineAssumption DEF RunIds
    <2>3. next[r] \in Int
      BY EngineAssumption DEF EngineInv
    <2> QED BY <2>1, <2>2, <2>3
  <1>3. next[r] > k
    <2>1. k < next[r]
      BY <1>2, FlowNow
    <2> QED BY <1>2, <2>1
  <1>4. InIt(r, k)
    BY <1>2 DEF InIt
  <1>5. r \in Called(k) /\ r \notin Gone(k)
    BY <1>3, <1>4 DEF Called, Gone
  <1>6. Ranks \subseteq Called(k)
    <2>1. ASSUME NEW p \in Ranks PROVE next[p] > k
      <3>1. ~ (slot'[r][k % Slots].busy /\ slot'[r][k % Slots].run = k)
        BY <1>2
      <3> QED BY <1>3, <3>1 DEF FlowInv, LeftInv
    <2> QED BY <2>1 DEF Called
  <1>7. ASSUME NEW j \in RunIds, NEW q \in Ranks, q # r \/ j # k
        PROVE  InIt(q, j)' <=> InIt(q, j)
    <2>1. ASSUME NEW t \in SlotIds
          PROVE  slot'[q][t].busy /\ slot'[q][t].run = j <=> slot[q][t].busy /\ slot[q][t].run = j
      <3>1. CASE q # r \/ t # s
        BY <3>1 DEF Touches
      <3>2. CASE q = r /\ t = s
        BY <1>2, <1>7, <3>2
      <3> QED BY <3>1, <3>2
    <2> QED BY <2>1 DEF InIt
  <1>8. ~ InIt(r, k)'
    <2>1. ASSUME NEW t \in SlotIds, slot'[r][t].busy, slot'[r][t].run = k PROVE FALSE
      <3>1. t # s
        BY <2>1
      <3>2. slot[r][t].busy /\ slot[r][t].run = k
        BY <2>1, <3>1 DEF Touches
      <3>3. ~ (next[r] <= t)
        BY <3>2 DEF FlowInv, RunsInv
      <3>4. k % Slots = t
        BY <3>2, <3>3 DEF FlowInv, RunsInv
      <3> QED BY <1>2, <3>1, <3>4
    <2> QED BY <2>1 DEF InIt
  <1>9. ASSUME NEW j \in RunIds
        PROVE  Gone(j)' = IF j = k THEN Gone(j) \cup {r} ELSE Gone(j)
    <2>1. /\ Gone(j)' = {q \in Ranks : next[q] > j /\ ~ InIt(q, j)'}
          /\ Gone(j) = {q \in Ranks : next[q] > j /\ ~ InIt(q, j)}
      BY DEF Gone
    <2>2. CASE j = k
      <3>1. \A q \in Ranks : next[q] > j /\ ~ InIt(q, j)' <=> (next[q] > j /\ ~ InIt(q, j)) \/ q = r
        BY <1>3, <1>7, <1>8, <2>2
      <3> QED BY <2>1, <2>2, <3>1
    <2>3. CASE j # k
      BY <1>7, <2>1, <2>3
    <2> QED BY <2>2, <2>3
  <1> QED BY <1>5, <1>6, <1>9

\* The engine implements the collective: a member is through only when all the
\* members have called it, and each step enters a collective, leaves one or
\* neither: for every plan whose data flow fits (ucg_collective_start and the
\* completion of a request in ucg_builtin_comp_last_step_cb).
THEOREM CollectiveImplemented ==
  ASSUME FlowFits
  PROVE  Spec => ImplementsCollective
  <1> DEFINE entered == [k \in RunIds |-> Called(k)]
             left    == [k \in RunIds |-> Gone(k)]
  <1>1. /\ entered = [k \in RunIds |-> {r \in Ranks : next[r] > k}]
        /\ left = [k \in RunIds |-> {r \in Ranks :
                     next[r] > k /\ ~ \E s \in SlotIds : slot[r][s].busy /\ slot[r][s].run = k}]
    BY DEF Called, Gone, InIt
  <1>2. /\ entered' = [k \in RunIds |-> {r \in Ranks : next'[r] > k}]
         /\ left' = [k \in RunIds |-> {r \in Ranks :
                       next'[r] > k /\ ~ \E s \in SlotIds : slot'[r][s].busy /\ slot'[r][s].run = k}]
    BY DEF Called, Gone, InIt
  <1>3. Init => Promise!Init
    <2> SUFFICES ASSUME Init PROVE Promise!Init
      OBVIOUS
    <2>1. \A r \in Ranks, k \in RunIds : ~ (next[r] > k)
      BY DEF Init, RunIds
    <2>2. \A k \in RunIds : Called(k) = {} /\ Gone(k) = {}
      BY <2>1 DEF Called, Gone
    <2> QED BY <1>1, <2>2 DEF Promise!Init, Promise!RunIds, RunIds
  <1>4. FlowFits /\ EngineInv /\ EngineInv' /\ FlowInv /\ FlowInv' /\ [Next]_vars
          => [Promise!Next]_(Promise!vars)
    <2> SUFFICES ASSUME EngineInv, EngineInv', FlowInv, FlowInv', [Next]_vars
                 PROVE  [Promise!Next]_(Promise!vars)
      OBVIOUS
    <2>1. ASSUME NEW r \in Ranks, Start(r) PROVE [Promise!Next]_(Promise!vars)
      <3>0. PICK k \in RunIds, s \in SlotIds : \E new : Starts(r, s, k, new)
        BY <2>1, StartIs
      <3>1. PICK new : Starts(r, s, k, new)
        BY <3>0
      <3>2. /\ r \notin Called(k) /\ (k > 0 => r \in Called(k - 1))
            /\ Called(k)' = Called(k) \cup {r}
            /\ \A j \in RunIds : j # k => Called(j)' = Called(j)
            /\ \A j \in RunIds : Gone(j)' = Gone(j)
        BY <3>1, EnterSeen
      <3>3. k > 0 => k - 1 \in RunIds
        <4>1. k \in 0 .. Runs - 1 /\ Runs \in Nat
          BY EngineAssumption DEF RunIds
        <4> QED BY <4>1 DEF RunIds
      <3>4. entered' = [entered EXCEPT ![k] = @ \cup {r}]
        BY <3>2
      <3>5. left' = left
        BY <3>2
      <3>6. r \notin entered[k] /\ (k > 0 => r \in entered[k - 1])
        BY <3>2, <3>3
      <3> HIDE DEF entered, left
      <3>7. Promise!Enter(r, k)
        BY <1>1, <1>2, <3>4, <3>5, <3>6 DEF Promise!Enter
      <3> QED BY <3>7 DEF Promise!Next, Promise!RunIds, RunIds
    <2>2. ASSUME ~ \E r \in Ranks : Start(r) PROVE [Promise!Next]_(Promise!vars)
      <3>1. PICK r \in Ranks, s \in SlotIds :
              /\ next' = next /\ Touches(r, s)
              /\ slot'[r][s].busy => slot[r][s].busy
        BY <2>2, OneSlot
      <3>2. \A j \in RunIds : Called(j)' = Called(j)
        BY <3>1 DEF Called
      <3>3. entered' = entered
        BY <3>2
      <3>4. CASE slot[r][s].busy /\ ~ slot'[r][s].busy
        <4>1. PICK k \in RunIds :
                /\ r \in Called(k) \ Gone(k) /\ Ranks \subseteq Called(k)
                /\ Gone(k)' = Gone(k) \cup {r}
                /\ \A j \in RunIds : j # k => Gone(j)' = Gone(j)
          BY <3>1, <3>4, LeaveSeen
        <4>2. left' = [left EXCEPT ![k] = @ \cup {r}]
          BY <4>1
        <4>3. r \in entered[k] \ left[k] /\ Contributors \subseteq entered[k]
          BY <4>1, Fits
        <4> HIDE DEF entered, left
        <4>4. Promise!Leave(r, k)
          BY <1>1, <1>2, <3>3, <4>2, <4>3 DEF Promise!Leave
        <4> QED BY <4>4 DEF Promise!Next, Promise!RunIds, RunIds
      <3>5. CASE ~ slot[r][s].busy \/ slot'[r][s].busy
        <4>1. slot'[r][s].busy <=> slot[r][s].busy
          BY <3>1, <3>5
        <4>2. slot[r][s].busy => slot'[r][s].run = slot[r][s].run
          BY <3>1, <4>1, RunKnown
        <4>3. ASSUME NEW q \in Ranks, NEW t \in SlotIds, NEW j \in RunIds
              PROVE  slot'[q][t].busy /\ slot'[q][t].run = j <=> slot[q][t].busy /\ slot[q][t].run = j
          <5>1. CASE q # r \/ t # s
            BY <3>1, <5>1 DEF Touches
          <5>2. CASE q = r /\ t = s
            BY <4>1, <4>2, <5>2
          <5> QED BY <5>1, <5>2
        <4>4. \A q \in Ranks, j \in RunIds : InIt(q, j)' <=> InIt(q, j)
          BY <4>3 DEF InIt
        <4>5. \A j \in RunIds : Gone(j)' = Gone(j)
          BY <3>1, <4>4 DEF Gone
        <4>6. left' = left
          BY <4>5
        <4> HIDE DEF entered, left
        <4> QED BY <1>1, <1>2, <3>3, <4>6 DEF Promise!vars
      <3> QED BY <3>4, <3>5
    <2> QED BY <2>1, <2>2
  <1> QED BY <1>3, <1>4, FlowInvariant, PTL DEF Spec, ImplementsCollective, Promise!Spec

-----------------------------------------------------------------------------
(***************************************************************************)
(* Nobody is left waiting.                                                 *)
(***************************************************************************)
\* What has come for a step, and is not yet given to it, is found by its ids.
LEMMA ComeIsFound ==
  ASSUME FlowFits, EngineInv, FlowInv, Quiet,
         NEW r \in Ranks, NEW s \in SlotIds, NEW k \in RunIds, Now(r, s, k),
         NEW a \in Missing(r, k)[slot[r][s].step], Posted(a, k)
  PROVE  \E i \in Matching(r, slot[r][s]) : slot[r][s].msgs[i] = Msg(a, k)
  <1> DEFINE sl == slot[r][s]
             m  == Msg(a, k)
  <1>1. /\ sl \in SlotRecords(r) /\ sl.step \in DOMAIN Plan[r] /\ sl.coll_id = k % IdSpace
        /\ k % Slots = s /\ StepAt(r, sl) = Plan[r][sl.step] /\ k \in Nat
    <2>1. k \in Nat
      BY EngineAssumption DEF RunIds
    <2> QED BY <2>1 DEF Now, StepAt
  <1>2. a \in Arrivals(Plan, r, sl.step) /\ m \in Pool
    BY <1>1 DEF Missing, Open
  <1>3. Dest(Plan, a) = r /\ Index(Plan, a) = Plan[r][sl.step].step_idx
    BY <1>2 DEF Arrivals
  <1>4. m.to = r /\ m.coll_id = k % IdSpace /\ m.step_idx = Plan[r][sl.step].step_idx
    BY <1>3 DEF Msg
  <1>5. net = {} /\ pc.then = {}
    BY DEF Quiet, EngineInv, PcInv
  <1>6. m \in Stored
    BY <1>2, <1>5 DEF Pool
  <1> HIDE DEF m
  <1>7. OnceInv
    BY DEF FlowInv
  <1>8. PICK q \in Ranks, t \in SlotIds : m \in MsgsOf(slot[q][t])
    BY <1>6, <1>7, StoredWhere
  <1>9. m.to = q /\ m.coll_id % Slots = t
    BY <1>7, <1>8, StoredWhere
  <1>10. q = r /\ t = s
    BY <1>1, <1>4, <1>9, IdSelects
  <1>11. PICK i \in DOMAIN sl.msgs : m = sl.msgs[i]
    BY <1>8, <1>10 DEF MsgsOf
  <1>12. Matches(r, sl, m)
    BY <1>1, <1>4 DEF Matches
  <1>13. i \in Matching(r, sl)
    <2> HIDE DEF sl
    <2> QED BY <1>11, <1>12 DEF Matching
  <1> QED BY <1>11, <1>13 DEF m

\* A member that is stuck in a collective waits for a message of somebody who
\* has not sent it.
LEMMA StuckWaits ==
  ASSUME FlowFits, SendsCounted, EngineInv, FlowInv, SortedInv, Quiet,
         NEW r \in Ranks, NEW s \in SlotIds, NEW k \in RunIds, Now(r, s, k)
  PROVE  \E a \in Arrivals(Plan, r, slot[r][s].step) : ~ Posted(a, k)
  <1> DEFINE sl == slot[r][s]
             st == StepAt(r, sl)
             M  == Missing(r, k)[sl.step]
             G  == Matching(r, sl)
  <1>1. Activation(r, s) = "out" /\ sl.zcomps = 0 /\ ~ sl.resending /\ sl.busy
    BY DEF Quiet, Activation, Now
  <1>2. sl \in SlotRecords(r) /\ SlotAt(r, sl, "out")
    BY <1>1 DEF EngineInv, SlotsInv
  <1>3. Waiting(r, sl)
    <2> HIDE DEF sl
    <2> QED BY <1>1, <1>2 DEF SlotAt, Done, Refused, sl
  <1>4. /\ sl.cb /\ sl.pending > 0 /\ sl.pending \in Nat /\ IsStep(st, Ranks, Offsets)
        /\ sl.step \in DOMAIN Plan[r] /\ st = Plan[r][sl.step]
        /\ AwaitsMessages(st, sl) \/ AwaitsSends(st, sl) \/ AwaitsFirstHalf(st, sl)
    <2> HIDE DEF sl
    <2> QED BY <1>2, <1>3, RecordFields DEF Waiting, st
  <1>5. M = {a \in Arrivals(Plan, r, sl.step) : Open(a, k)}
    BY <1>4 DEF Missing
  <1>6. /\ Cardinality(M) \in Nat /\ Cardinality(M) <= WaitsFor(st)
        /\ Balanced(r, sl, "out", M) /\ M \subseteq Arrivals(Plan, r, sl.step)
    BY <1>1 DEF Now
  <1>7. /\ SendsBalanced(st, sl)
        /\ ~ IsSendOnly(st) /\ ~ (IsR1S(st) /\ sl.recv_comp) => sl.pending = Cardinality(M)
    <2> HIDE DEF sl, M
    <2>1. /\ SendsBalanced(st, sl)
          /\ ~ IsSendOnly(st) /\ ~ (IsR1S(st) /\ sl.recv_comp) =>
               sl.pending = Cardinality(M) + sl.zcomps
      BY <1>4, <1>6 DEF Balanced, st
    <2> QED BY <1>1, <1>6, <2>1 DEF sl
  <1>8. Sorted(r, sl)
    BY <1>1 DEF SortedInv
  <1>9. ASSUME NEW a \in M, Posted(a, k) PROVE \E i \in G : sl.msgs[i] = Msg(a, k)
    BY <1>9, ComeIsFound
  <1> HIDE DEF M, G
  <1>10. CASE IsSendOnly(st) \/ (IsR1S(st) /\ sl.recv_comp)
    <2> HIDE DEF sl, st
    <2>1. AwaitsSends(st, sl)
      BY <1>4, <1>10 DEF AwaitsMessages, AwaitsFirstHalf, IsRecv, IsWaypoint, IsSendOnly, IsR1S, IsRS1
    <2>2. sl.pending = sl.zcomps
      BY <1>4, <1>7, <2>1 DEF AwaitsSends, SendsBalanced
    <2> QED BY <1>1, <1>4, <2>2 DEF sl
  <1>11. CASE ~ IsSendOnly(st) /\ ~ (IsR1S(st) /\ sl.recv_comp)
    <2> SUFFICES ASSUME \A a \in M : Posted(a, k) PROVE FALSE
      BY <1>5, <1>6
    <2>1. \A a \in M : \E i \in G : sl.msgs[i] = Msg(a, k)
      BY <1>9
    <2>2. sl.pending = Cardinality(M) /\ Cardinality(M) > 0
      BY <1>4, <1>7, <1>11
    <2>3. \A a \in M : a \in Posts(Plan)
      BY <1>5, <1>6 DEF Arrivals
    <2>4. IsFiniteSet(G)
      <3>1. G \subseteq DOMAIN sl.msgs
        BY DEF Matching, G
      <3>2. sl.msgs \in Seq(Mail(r))
        BY <1>2, RecordFields
      <3>3. IsFiniteSet(DOMAIN sl.msgs)
        BY <3>2, FS_Interval
      <3> QED BY <3>1, <3>3, FS_Subset
    <2>5. Cardinality(M) <= Cardinality(G) /\ Cardinality(G) \in Nat
      <3> DEFINE f == [a \in M |-> CHOOSE i \in G : sl.msgs[i] = Msg(a, k)]
      <3> HIDE DEF sl
      <3>1. \A a \in M : f[a] \in G /\ sl.msgs[f[a]] = Msg(a, k)
        BY <2>1
      <3>2. f \in [M -> G]
        BY <3>1
      <3>3. ASSUME NEW a \in M, NEW b \in M, f[a] = f[b] PROVE a = b
        <4>1. Msg(a, k) = Msg(b, k)
          BY <3>1, <3>3
        <4> QED BY <2>3, <4>1, MsgInjective
      <3> HIDE DEF f
      <3>4. f \in Injection(M, G)
        BY <3>2, <3>3 DEF Injection, IsInjective
      <3> QED BY <2>4, <3>4, FS_Injection, FS_CardinalityType
    <2>6. G # {}
      <3>1. Cardinality({}) = 0
        BY FS_EmptySet
      <3>2. G = {} => Cardinality(G) = 0
        BY <3>1
      <3> HIDE DEF G, M
      <3> QED BY <1>6, <2>2, <2>5, <3>2
    <2>7. IsZcopy(st) /\ IsRecv(st) /\ Num(sl) < sl.pending
          /\ Num(sl) = AtMost(Cardinality(G), RecvCount(st))
      <3> HIDE DEF sl
      <3> QED BY <1>1, <1>4, <1>8, <1>11, <2>6 DEF Sorted, G, st, sl
    <2>8. WaitsFor(st) = RecvCount(st) /\ RecvCount(st) \in Nat
      <3> HIDE DEF st
      <3>1. ~ IsR1S(st) /\ ~ IsRS1(st) /\ ~ IsSendOnly(st)
        BY <2>7 DEF IsRecv, IsWaypoint, IsSendOnly
      <3> QED BY <1>4, <3>1, StepNumbers DEF WaitsFor
    <2> DEFINE n == Cardinality(M)
               g == Cardinality(G)
               w == RecvCount(st)
    <2>9. n \in Nat /\ g \in Nat /\ w \in Nat /\ n <= g /\ n <= w /\ AtMost(g, w) < n
      BY <1>6, <2>2, <2>5, <2>7, <2>8
    <2> HIDE DEF n, g, w
    <2> QED BY ONLY <2>9 DEF AtMost
  <1> QED BY <1>10, <1>11

\* Who has not sent a message of a collective it has called is held up in it, at
\* a step the message goes out after.
LEMMA WhoBlocks ==
  ASSUME FlowFits, EngineInv, FlowInv, Quiet,
         NEW k \in RunIds, NEW a \in Posts(Plan), next[a.from] > k, ~ Posted(a, k),
         NEW s \in SlotIds, s = k % Slots
  PROVE  /\ slot[a.from][s].busy /\ slot[a.from][s].run = k
         /\ slot[a.from][s].step \in DOMAIN Plan[a.from]
         /\ SentAfter(Plan, a, slot[a.from][s].step)
  <1> DEFINE q  == a.from
             sl == slot[q][s]
  <1>1. q \in Ranks /\ a.step \in DOMAIN Plan[q] /\ a.step \in Nat /\ a.pos \in Nat
        /\ a.pos < End(StepOf(Plan, a)) /\ StepOf(Plan, a) = Plan[q][a.step]
    BY PostFacts
  <1>2. sl.run = k /\ ~ Through(sl, a)
    BY DEF Posted
  <1>3. sl \in SlotRecords(q) /\ SlotAt(q, sl, "out") /\ ~ sl.resending
    <2>1. Activation(q, s) = "out" /\ ~ sl.resending
      BY <1>1 DEF Quiet, Activation
    <2> QED BY <1>1, <2>1 DEF EngineInv, SlotsInv
  <1> HIDE DEF q
  <1>4. /\ sl.step \in DOMAIN Plan[q] /\ StepAt(q, sl) = Plan[q][sl.step] /\ sl.step \in Nat
        /\ It(sl) \in Nat
    <2> HIDE DEF sl
    <2>1. sl.step \in DOMAIN Plan[q] /\ StepAt(q, sl) = Plan[q][sl.step] /\ It(sl) \in Nat
      BY <1>1, <1>3, RecordFields
    <2> QED BY <1>1, <2>1, PlanSteps
  <1>5. /\ sl.busy /\ ~ (a.step < sl.step)
        /\ a.step = sl.step => ~ (a.pos < SentUpTo(q, sl))
    <2> HIDE DEF sl
    <2> QED BY <1>2 DEF Through, q
  <1>6. Waiting(q, sl)
    <2> HIDE DEF sl
    <2> QED BY <1>3, <1>5 DEF SlotAt, Done, Refused
  <1>7. CASE a.step = sl.step
    <2> HIDE DEF sl
    <2>1. sl.cb /\ StepAt(q, sl) = StepOf(Plan, a)
      BY <1>1, <1>4, <1>6, <1>7 DEF Waiting
    <2>2. It(sl) # 0
      BY <1>1, <1>5, <1>7, <2>1 DEF SentUpTo
    <2>3. IsWaypoint(StepOf(Plan, a))
      BY <1>6, <2>1, <2>2 DEF Waiting, AwaitsMessages, AwaitsSends, AwaitsFirstHalf
    <2>4. SentAfter(Plan, a, sl.step)
      BY <1>7, <2>3 DEF SentAfter
    <2> QED BY <1>2, <1>4, <1>5, <2>4 DEF sl, q
  <1>8. CASE a.step # sl.step
    <2>1. sl.step < a.step
      <3> HIDE DEF sl
      <3> QED BY <1>1, <1>4, <1>5, <1>8
    <2>2. SentAfter(Plan, a, sl.step)
      BY <2>1 DEF SentAfter
    <2> QED BY <1>2, <1>4, <1>5, <2>2 DEF q
  <1> QED BY <1>7, <1>8

\* Steps that have turns do not hold each other up for ever.
LEMMA NobodyBusy ==
  ASSUME FlowFits, SendsCounted, NEW T, TurnsFit(Plan, T),
         EngineInv, FlowInv, SortedInv, Quiet, \A p, q \in Ranks : next[p] = next[q],
         NEW r \in Ranks, NEW s \in SlotIds
  PROVE  ~ slot[r][s].busy
  <1> SUFFICES ASSUME slot[r][s].busy PROVE FALSE
    OBVIOUS
  <1>1. PICK k \in RunIds : Now(r, s, k)
    BY BusyNow
  <1>2. k % Slots = s /\ next[r] > s /\ slot[r][s].run = k
    BY <1>1 DEF Now
  <1>3. \A q \in Ranks : next[q] > k
    <2>1. k < next[r]
      BY <1>2, FlowNow
    <2>2. k \in Nat /\ next[r] \in Nat
      BY EngineAssumption DEF RunIds, EngineInv
    <2> QED BY <2>1, <2>2
  <1> DEFINE B == {q \in Ranks : slot[q][s].busy /\ slot[q][s].run = k}
             turn(q) == T[q][slot[q][s].step]
             U == {turn(q) : q \in B}
  <1>4. \A q \in B : q \in Ranks /\ Now(q, s, k) /\ slot[q][s].step \in DOMAIN Plan[q]
    <2> SUFFICES ASSUME NEW q \in B
                 PROVE  Now(q, s, k) /\ slot[q][s].step \in DOMAIN Plan[q]
      OBVIOUS
    <2>1. PICK l \in RunIds : Now(q, s, l)
      BY BusyNow
    <2>2. l = k
      BY <2>1 DEF Now
    <2> QED BY <2>1, <2>2 DEF Now
  <1>5. DOMAIN Plan = Ranks
    BY Fits
  <1>6. U \in SUBSET Nat /\ U # {}
    <2>1. \A q \in B : turn(q) \in Nat
      <3> SUFFICES ASSUME NEW q \in B PROVE turn(q) \in Nat
        OBVIOUS
      <3>1. PICK i \in DOMAIN Plan[q] : i = slot[q][s].step
        BY <1>4
      <3> QED BY <1>4, <1>5, <3>1 DEF TurnsFit
    <2>2. r \in B
      BY <1>2
    <2> HIDE DEF B, turn
    <2> QED BY <2>1, <2>2
  <1>7. PICK x \in U : \A y \in U : x <= y
    <2> HIDE DEF U
    <2> QED BY <1>6, LeastOf
  <1>8. PICK q \in B : x = turn(q)
    BY <1>7
  <1>9. PICK i \in DOMAIN Plan[q] : i = slot[q][s].step
    BY <1>4
  <1>10. PICK a \in Arrivals(Plan, q, i) : ~ Posted(a, k)
    BY <1>4, <1>9, StuckWaits
  <1>11. a \in Posts(Plan) /\ a.from \in Ranks
    <2>1. a \in Posts(Plan)
      BY DEF Arrivals
    <2> QED BY <2>1, PostFacts
  <1>12. /\ slot[a.from][s].busy /\ slot[a.from][s].run = k
         /\ slot[a.from][s].step \in DOMAIN Plan[a.from]
         /\ SentAfter(Plan, a, slot[a.from][s].step)
    BY <1>2, <1>3, <1>10, <1>11, WhoBlocks
  <1>13. a.from \in B
    BY <1>11, <1>12
  <1>14. turn(a.from) < turn(q)
    <2>1. PICK j \in DOMAIN Plan[a.from] : j = slot[a.from][s].step
      BY <1>12
    <2>2. SentAfter(Plan, a, j)
      BY <1>12, <2>1
    <2>3. q \in DOMAIN Plan
      BY <1>4, <1>5
    <2>4. T[a.from][j] < T[q][i]
      BY <2>2, <2>3 DEF TurnsFit
    <2> QED BY <1>9, <2>1, <2>4
  <1>15. turn(a.from) \in U /\ turn(q) \in Nat /\ turn(a.from) \in Nat
    BY <1>6, <1>8, <1>13
  <1>16. turn(q) <= turn(a.from)
    BY <1>7, <1>8, <1>15
  <1> HIDE DEF turn, B, U
  <1> QED BY <1>14, <1>15, <1>16

\* A message that is left over would be missing in a collective that is through.
LEMMA NothingStored ==
  ASSUME FlowFits, EngineInv, FlowInv, \A p, q \in Ranks : next[p] = next[q],
         \A p \in Ranks, t \in SlotIds : ~ slot[p][t].busy,
         NEW r \in Ranks, NEW s \in SlotIds
  PROVE  slot[r][s].msgs = <<>>
  <1> DEFINE msgs == slot[r][s].msgs
  <1>0. msgs \in Seq(Mail(r))
    BY RecordFields DEF EngineInv, SlotsInv
  <1> SUFFICES ASSUME msgs # <<>> PROVE FALSE
    OBVIOUS
  <1>1. 1 \in DOMAIN msgs
    <2> HIDE DEF msgs
    <2> QED BY <1>0
  <1>2. PICK m \in MsgsOf(slot[r][s]) : TRUE
    BY <1>1 DEF MsgsOf
  <1>3. OnceInv /\ GenuineInv /\ ProgressInv
    BY DEF FlowInv
  <1>4. m.to = r /\ m \in Pool
    BY <1>2, <1>3, StoredWhere DEF Pool
  <1>5. PICK a \in Posts(Plan), k \in RunIds : Posted(a, k) /\ m = Msg(a, k)
    BY <1>3, <1>4 DEF GenuineInv
  <1>6. Dest(Plan, a) = r
    BY <1>4, <1>5 DEF Msg
  <1>7. PICK i \in DOMAIN Plan[r] : a \in Arrivals(Plan, r, i)
    BY <1>6, Fits DEF IdsFit
  <1>8. a \in Missing(r, k)[i]
    BY <1>4, <1>5, <1>7 DEF Missing, Open
  <1>9. next[r] > k
    <2>1. a.from \in Ranks
      BY PostFacts
    <2> QED BY <1>5, <2>1 DEF Posted
  <1>10. k % Slots \in SlotIds /\ ~ (next[r] <= k)
    <2>1. k \in Nat /\ next[r] \in Nat
      BY EngineAssumption DEF RunIds, EngineInv
    <2> QED BY <1>9, <2>1, Ids
  <1> DEFINE t == k % Slots
  <1>11. \/ Missing(r, k) = None(r)
         \/ SlotFlow(r, slot[r][t], Activation(r, t), Missing(r, k))
    BY <1>3, <1>10 DEF ProgressInv
  <1>12. CASE Missing(r, k) = None(r)
    BY <1>8, <1>12 DEF None
  <1>13. CASE SlotFlow(r, slot[r][t], Activation(r, t), Missing(r, k))
    <2>1. ~ slot[r][t].busy
      BY <1>10
    <2>2. \A j \in DOMAIN Plan[r] : Missing(r, k)[j] = {}
      BY <1>13, <2>1 DEF SlotFlow
    <2> QED BY <1>8, <2>2
  <1> QED BY <1>11, <1>12, <1>13

\* When nothing is left that could wake a member up, nobody waits in a
\* collective, and no message is left over: for every plan whose data flow fits
\* and whose steps have turns, whatever the order of messages, completions and
\* resends (the counts of ucg_builtin_step_am_handler and
\* ucg_builtin_comp_zcopy_check_cb, and the search of ucg_builtin_msg_process).
THEOREM NobodyIsStuck ==
  ASSUME FlowFits, SendsCounted, \E T : TurnsFit(Plan, T)
  PROVE  Spec => []NobodyStuck
  <1>1. PICK T : TurnsFit(Plan, T)
    OBVIOUS
  <1>2. OrderlyPlan
    BY Fits
  <1>3. EngineInv /\ FlowInv /\ SortedInv => NobodyStuck
    <2> SUFFICES ASSUME EngineInv, FlowInv, SortedInv, Quiet,
                        \A p, q \in Ranks : next[p] = next[q]
                 PROVE  \A r \in Ranks, s \in SlotIds :
                          ~ slot[r][s].busy /\ slot[r][s].msgs = <<>>
      BY DEF NobodyStuck
    <2>1. \A r \in Ranks, s \in SlotIds : ~ slot[r][s].busy
      BY <1>1, NobodyBusy
    <2>2. \A r \in Ranks, s \in SlotIds : slot[r][s].msgs = <<>>
      BY <2>1, NothingStored
    <2> QED BY <2>1, <2>2
  <1> QED BY <1>2, <1>3, FlowInvariant, SortedInvariant, PTL

\* With one peer there is nothing to tell about refused sends, or several fragments.
LEMMA OnePeerCounts ==
  ASSUME DOMAIN Plan = Ranks, OnePeer(Plan)
  PROVE  SendsCounted
  <1> SUFFICES ASSUME NEW r \in Ranks, NEW i \in DOMAIN Plan[r]
               PROVE  Fragments(Plan[r][i]) > 1 \/ End(Plan[r][i]) - First(Plan[r][i]) <= 1
    BY EngineAssumption DEF SendsCounted
  <1> DEFINE st == Plan[r][i]
             f  == Fragments(st)
  <1>1. Len(st.eps) = 1 /\ ~ IsWaypoint(st)
    BY DEF OnePeer
  <1>2. IsStep(st, Ranks, Offsets)
    BY PlanSteps
  <1> HIDE DEF st
  <1>3. First(st) = 0 /\ f \in Nat /\ End(st) = f * 1
    BY <1>1, <1>2, StepNumbers DEF End
  <1> HIDE DEF f
  <1>4. f > 1 \/ f * 1 - 0 <= 1
    BY <1>3
  <1> QED BY <1>3, <1>4 DEF f, st

-----------------------------------------------------------------------------
(***************************************************************************)
(* Allreduce over a ring, for any number of members.                       *)
(***************************************************************************)
\* A ring of more than one member whose step indexes fit into the header.
OverRing ==
  \E n \in Nat, count \in Nat :
    /\ n > 1 /\ 2 * (n - 1) <= 256
    /\ Ranks = 0 .. n - 1 /\ Sources = Ranks /\ Contributors = Ranks
    /\ Offsets = 0 .. count - 1 /\ Plan = RingPlan(n, count)

\* Its data flow fits.
LEMMA RingFlow ==
  ASSUME OverRing, IdSpace >= 2 * Slots
  PROVE  FlowFits
  <1>1. PICK n \in Nat, count \in Nat :
          /\ n > 1 /\ 2 * (n - 1) <= 256
          /\ Ranks = 0 .. n - 1 /\ Sources = Ranks /\ Contributors = Ranks
          /\ Offsets = 0 .. count - 1 /\ Plan = RingPlan(n, count)
    BY DEF OverRing
  <1>2. CountsFit(Plan) /\ IdsFit(Plan) /\ LabelsOf(RingLabels(n, count))
    BY <1>1, RingDataFits DEF LabelsOf
  <1>3. OrderlyPlan
    <2>1. n \in Nat \ {0} /\ Plan = [r \in Ranks |-> Ring(n, r, count)]
      BY <1>1 DEF RingPlan
    <2> QED BY <1>1, <2>1, OrderlyAlgorithms
  <1>4. DOMAIN Plan = Ranks
    BY <1>1, RingLength
  <1> QED BY <1>1, <1>2, <1>3, <1>4 DEF FlowFits

\* An allreduce over a ring of any size is exact: every member that is through
\* holds every member's data once in each element, whatever the order of messages,
\* completions and resends, and nobody is through before all have called it.
THEOREM RingExact ==
  ASSUME OverRing, IdSpace >= 2 * Slots
  PROVE  Spec => []ResultExact /\ ImplementsCollective
  <1>1. FlowFits
    BY RingFlow
  <1> QED BY <1>1, ResultsAreExact, CollectiveImplemented

\* Nobody is left waiting in a ring, whatever its size.
THEOREM RingNeverStuck ==
  ASSUME OverRing, IdSpace >= 2 * Slots
  PROVE  Spec => []NobodyStuck
  <1>1. FlowFits
    BY RingFlow
  <1>2. PICK n \in Nat, count \in Nat :
          /\ n > 1 /\ 2 * (n - 1) <= 256
          /\ Ranks = 0 .. n - 1 /\ Sources = Ranks /\ Contributors = Ranks
          /\ Offsets = 0 .. count - 1 /\ Plan = RingPlan(n, count)
    BY DEF OverRing
  <1>3. OnePeer(Plan) /\ \E T : TurnsFit(Plan, T)
    BY <1>2, RingTurns
  <1>4. SendsCounted
    BY <1>1, <1>3, Fits, OnePeerCounts
  <1> QED BY <1>1, <1>3, <1>4, NobodyIsStuck

-----------------------------------------------------------------------------
(***************************************************************************)
(* Allreduce and barrier by recursive doubling, for any number of members. *)
(***************************************************************************)
\* Recursive doubling of a buffer in f fragments among more than one member; its
\* step indexes fit into the header.
OverRecursive ==
  \E n \in Nat, f \in Nat :
    /\ n > 1 /\ StepCount(n) <= 128 /\ f > 0
    /\ Ranks = 0 .. n - 1 /\ Sources = Ranks /\ Contributors = Ranks
    /\ Offsets = 0 .. f - 1 /\ Plan = RecursivePlan(n, f)

\* Its data flow fits.
LEMMA RecursiveFlow ==
  ASSUME OverRecursive, IdSpace >= 2 * Slots
  PROVE  FlowFits
  <1>1. PICK n \in Nat, f \in Nat :
          /\ n > 1 /\ StepCount(n) <= 128 /\ f > 0
          /\ Ranks = 0 .. n - 1 /\ Sources = Ranks /\ Contributors = Ranks
          /\ Offsets = 0 .. f - 1 /\ Plan = RecursivePlan(n, f)
    BY DEF OverRecursive
  <1>2. CountsFit(Plan) /\ IdsFit(Plan) /\ LabelsOf(RecursiveLabels(n, f))
    BY <1>1, RecursiveDataFits DEF LabelsOf
  <1>3. OrderlyPlan
    <2>1. n \in Nat \ {0} /\ Plan = [r \in Ranks |-> Recursive(n, r, Whole(f))]
      BY <1>1 DEF RecursivePlan
    <2>2. StepCount(n) \in 1 .. 255
      <3>1. StepCount(n) \in 1 .. n
        BY <1>1, StepCountIs
      <3> DEFINE c == StepCount(n)
      <3>2. c \in Nat /\ c >= 1 /\ c <= 128
        BY <1>1, <3>1
      <3> HIDE DEF c
      <3>3. c \in 1 .. 255
        BY <3>2
      <3> QED BY <3>3 DEF c
    <2> QED BY <1>1, <2>1, <2>2, OrderlyAlgorithms
  <1>4. DOMAIN Plan = Ranks
    BY <1>1 DEF RecursivePlan
  <1> QED BY <1>1, <1>2, <1>3, <1>4 DEF FlowFits

\* An allreduce by recursive doubling is exact in a group of any size, a power of
\* two or not: every member that is through holds every member's data once, and
\* nobody is through before all have called it, as a barrier promises.
THEOREM RecursiveExact ==
  ASSUME OverRecursive, IdSpace >= 2 * Slots
  PROVE  Spec => []ResultExact /\ ImplementsCollective
  <1>1. FlowFits
    BY RecursiveFlow
  <1> QED BY <1>1, ResultsAreExact, CollectiveImplemented

\* Nobody is left waiting in a recursive doubling, whatever the size of the group.
THEOREM RecursiveNeverStuck ==
  ASSUME OverRecursive, IdSpace >= 2 * Slots
  PROVE  Spec => []NobodyStuck
  <1>1. FlowFits
    BY RecursiveFlow
  <1>2. PICK n \in Nat, f \in Nat :
          /\ n > 1 /\ StepCount(n) <= 128 /\ f > 0
          /\ Ranks = 0 .. n - 1 /\ Sources = Ranks /\ Contributors = Ranks
          /\ Offsets = 0 .. f - 1 /\ Plan = RecursivePlan(n, f)
    BY DEF OverRecursive
  <1>3. OnePeer(Plan) /\ \E T : TurnsFit(Plan, T)
    BY <1>2, RecursiveTurns
  <1>4. SendsCounted
    BY <1>1, <1>3, Fits, OnePeerCounts
  <1> QED BY <1>1, <1>3, <1>4, NobodyIsStuck
=============================================================================
