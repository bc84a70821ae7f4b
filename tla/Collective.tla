------------------------------ MODULE Collective ------------------------------
(***************************************************************************)
(* What a sequence of collectives promises the members of a group: a member*)
(* leaves a collective only after every member whose data (or, for a       *)
(* barrier, whose arrival) its result depends on has entered it, and in the*)
(* end all members are through.                                            *)
(***************************************************************************)
EXTENDS Naturals

CONSTANTS
  Ranks,
  Runs,      \* number of collectives, called in the same order by all
  Needs      \* Needs[r]: the members r's result depends on

VARIABLES entered,  \* entered[k]: members that called the k-th collective
          left      \* left[k]: members whose k-th collective is complete

vars == <<entered, left>>

RunIds == 0 .. Runs - 1

Init ==
  /\ entered = [k \in RunIds |-> {}]
  /\ left = [k \in RunIds |-> {}]

Enter(r, k) ==
  /\ r \notin entered[k]
  /\ k > 0 => r \in entered[k - 1]
  /\ entered' = [entered EXCEPT ![k] = @ \cup {r}]
  /\ UNCHANGED left

Leave(r, k) ==
  /\ r \in entered[k] \ left[k]
  /\ Needs[r] \subseteq entered[k]
  /\ left' = [left EXCEPT ![k] = @ \cup {r}]
  /\ UNCHANGED entered

Next == \E r \in Ranks, k \in RunIds : Enter(r, k) \/ Leave(r, k)

Spec == Init /\ [][Next]_vars

\* In the end every member has called every collective and is out of it.
EverybodyLeaves == <>[](\A k \in RunIds : left[k] = Ranks)
=============================================================================
