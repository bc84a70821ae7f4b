----------------------------- MODULE BarrierGate -----------------------------
(***************************************************************************)
(* What the group promises the caller about starting collectives           *)
(* (src/base/ucg_group.h, comment of is_barrier_outstanding): a collective *)
(* becomes active in the order of submission, none becomes active while a  *)
(* barrier is, and those that had to wait are started after the barrier.   *)
(* A collective may also be over in the very step that would make it       *)
(* active.                                                                 *)
(***************************************************************************)
EXTENDS Sequences

CONSTANTS Ops, Barriers

VARIABLES waiting,  \* submitted behind an active barrier, oldest first
          active    \* collectives in progress

vars == <<waiting, active>>

Init == waiting = <<>> /\ active = {}

Shut == active \cap Barriers # {}

Idle(op) == op \notin active /\ \A i \in DOMAIN waiting : waiting[i] # op

Begin(op) ==
  /\ ~ Shut
  /\ waiting = <<>>
  /\ Idle(op)
  /\ active' = active \cup {op}
  /\ UNCHANGED waiting

Wait(op) ==
  /\ Shut
  /\ Idle(op)
  /\ waiting' = Append(waiting, op)
  /\ UNCHANGED active

Admit ==
  /\ ~ Shut
  /\ waiting # <<>>
  /\ waiting' = Tail(waiting)
  /\ active' \in {active, active \cup {Head(waiting)}}

Finish(op) ==
  /\ op \in active
  /\ active' = active \ {op}
  /\ UNCHANGED waiting

Next ==
  \/ Admit
  \/ \E op \in Ops : Begin(op) \/ Wait(op) \/ Finish(op)

\* What never happens, whether or not anything is fair.
Safety == Init /\ [][Next]_vars

\* Active collectives finish, and what waits is admitted.
Spec == /\ Safety
        /\ WF_vars(Admit)
        /\ \A op \in Ops : WF_vars(Finish(op))
=============================================================================
