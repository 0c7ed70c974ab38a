---------------------------- MODULE MCSharedStore ----------------------------
(* Small instances of SharedStore for TLC: a file, or an asset index with one
   object. *)
EXTENDS SharedStore, TLC

CONSTANTS i1, i2, o1, o2

Nothing == {}
Everything == {"busy", "sync"}

Leaf == [o \in Object |-> IF o = o1 THEN Object \ {o1} ELSE {}]
NoLeaf == [o \in Object |-> {}]

Symmetry == Permutations(Instance) \cup Permutations(Object)
=============================================================================
