----------------------------- MODULE AtomicSwap -----------------------------
(***************************************************************************)
(* What `anvil build` promises about the instance tree, as one register    *)
(* per swap target: a requested change of the tree takes effect in one     *)
(* step or not at all, whatever interrupts it (src/build/swap.ts, "fully   *)
(* old ... or fully new ... never a half-installed Frankenstein").         *)
(***************************************************************************)
CONSTANTS
    Target,   \* relative paths a swap may install or remove
    Content,  \* what a path may hold: the bytes or directory staged for it
    None      \* nothing is at the path

(* A swap: the paths to install with what each is to hold, and the paths to *)
(* remove.  diffLocks never lists a path as both.                           *)
Request == {r \in [installs : SUBSET Target,
                   removes  : SUBSET Target,
                   content  : [Target -> Content \cup {None}]] :
                /\ r.installs \cap r.removes = {}
                /\ \A t \in Target : t \in r.installs <=> r.content[t] # None}

NoRequest == [installs |-> {}, removes |-> {}, content |-> [t \in Target |-> None]]

(* The tree a swap asks for. *)
Apply(tree, r) ==
    [t \in Target |->
        IF t \in r.installs THEN r.content[t]
        ELSE IF t \in r.removes THEN None
        ELSE tree[t]]

VARIABLES tree, request

atomicVars == <<tree, request>>

Init ==
    /\ tree \in [Target -> Content \cup {None}]
    /\ request = NoRequest

(* A build has staged a change. *)
Start ==
    /\ request = NoRequest
    /\ request' \in Request
    /\ UNCHANGED tree

(* The change takes effect, all of it. *)
Commit ==
    /\ request # NoRequest
    /\ tree' = Apply(tree, request)
    /\ request' = NoRequest

(* The change is dropped: a crash before the commit point. *)
Abandon ==
    /\ request # NoRequest
    /\ request' = NoRequest
    /\ UNCHANGED tree

Next == Start \/ Commit \/ Abandon

Spec == Init /\ [][Next]_atomicVars
=============================================================================
