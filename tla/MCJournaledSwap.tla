-------------------------- MODULE MCJournaledSwap --------------------------
(* Small instances of JournaledSwap for TLC. *)
EXTENDS JournaledSwap, TLC

NoWeakness == {}
LostData == {"data"}
LostRenames == {"rollback"}

Symmetry == Permutations(Target) \cup Permutations(Content)
=============================================================================
