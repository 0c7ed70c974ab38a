------------------------------ MODULE MCVcRefs ------------------------------
(***************************************************************************)
(* Two branches, a stash and a remote.  A run starts either in a fresh     *)
(* instance or in one whose branches have diverged: main is 1 <- 2 <- 3,   *)
(* topic is 1 <- 4, and the remote still has 1.                            *)
(***************************************************************************)
EXTENDS VcRefs

CONSTANTS main, topic, local, tracking

MCLine(line) == [gen |-> Len(line) - 1, past |-> ToSet(line), line |-> line, replays |-> Last(line)]

Diverged ==
    /\ commits = <<MCLine(<<1>>), MCLine(<<1, 2>>), MCLine(<<1, 2, 3>>), MCLine(<<1, 4>>)>>
    /\ stored = 1..4
    /\ HEAD = main
    /\ refs = (main :> 3) @@ (topic :> 4) @@ (local :> None) @@ (tracking :> 1)
    /\ ORIG_HEAD = None /\ MERGE_HEAD = None
    /\ logs = 1..4
    /\ REBASE_STATE = None
    /\ upstream = 1
    /\ pending = <<>> /\ replaying = FALSE /\ result = None
    /\ reported = 1..4
    /\ started = 0

MCSpec == (Init \/ Diverged) /\ [][Next]_vars
=============================================================================
