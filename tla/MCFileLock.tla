------------------------------ MODULE MCFileLock ------------------------------
(* Small instances of FileLock for TLC. *)
EXTENDS FileLock, TLC

CONSTANTS p1, p2, p3

OneHost == [p \in Process |-> "here"]
TwoHosts == [p \in Process |-> IF p = p1 THEN "here" ELSE "there"]

Overtaking == {"overtake"}
Everything == {"crash", "hang", "overtake"}

Symmetry == Permutations(Process)
=============================================================================
