------------------------------ MODULE MCGroup ------------------------------
(***************************************************************************)
(* The group for model checking: barriers are alike, and so are the other  *)
(* collectives of a kind, which is sound for the safety properties.        *)
(***************************************************************************)
EXTENDS UcgGroup, TLC

Alike == Permutations(Barriers) \cup Permutations(ZeroLen \ Barriers)
           \cup Permutations(Ops \ ZeroLen)
=============================================================================
