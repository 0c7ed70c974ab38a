---------------------------- MODULE MCRemoteSync ----------------------------
(* An author with a CurseForge key and a joiner without one; two locks with a
   replay row each, for one path, and a path no row names. *)
EXTENDS RemoteSync

CONSTANTS Mod, Other, Jar, Jar2, First, Second

Paths == {Mod, Other}
MCRows == [v \in Version |->
             IF v = First THEN [p \in {Mod} |-> Jar] ELSE [p \in {Other} |-> Jar2]]
MCSetups == {[git |-> FALSE, old |-> FALSE, foreign |-> {}],
             [git |-> TRUE, old |-> TRUE, foreign |-> {First}]}
=============================================================================
