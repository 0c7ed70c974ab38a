------------------------------- MODULE VcRefs -------------------------------
(***************************************************************************)
(* The commits and refs of one instance (src/vc/repo.ts, refs.ts,          *)
(* rebase.ts, graph.ts, gc.ts, and the pull and push of src/remote/sync.ts *)
(* as far as they move refs), one file write at a time.                    *)
(*                                                                         *)
(* An operation runs under the instance lock, so that everything it reads  *)
(* is fixed when it starts: it is the list of writes it still has to make, *)
(* and a crash forgets the list.  The files of the working tree are left   *)
(* out, and so is everything of a commit but its place in the history.     *)
(***************************************************************************)
EXTENDS Integers, Sequences, FiniteSets, SequencesExt

CONSTANTS
    Branch,      \* names under refs/heads
    Main,        \* the branch HEAD names before the first commit
    Stash,       \* names a pull may use for refs/heads/local/<ts>
    Tracking,    \* refs/remotes/<remote>/<branch>
    None,        \* a ref, an operation head or a rebase state that is absent
    MaxCommits,  \* bound on the commits ever made, here and by peers
    MaxStarted,  \* bound on the operations ever started, the peers' included
    Trouble      \* what may happen besides: "pull" (a pull while a rebase is in
                 \* progress), "static" (a pull without history onto a detached
                 \* HEAD), "orphan" (a switch to a commit that no ref leads to)

Heads == Branch \cup Stash
Ref == Heads \cup {Tracking}
Commit == 1..MaxCommits

(* .anvil/REBASE_STATE: what is still to replay, what was, and the commit   *)
(* that a conflict has stopped at.                                          *)
RebaseState ==
    [onto : Commit, origHead : Commit, branch : Heads, tip : Commit,
     todo : Seq(Commit), done : Seq(Commit), current : Commit \cup {None}]

ASSUME VcAssumption ==
    /\ Main \in Branch
    /\ None \notin Commit \cup Ref \cup RebaseState
    /\ Ref \cap Commit = {} /\ Tracking \notin Heads
    /\ MaxCommits \in Nat /\ MaxStarted \in Nat
    /\ Trouble \subseteq {"pull", "static", "orphan"}

VARIABLES
    commits,      \* every commit ever made, here or by a peer: see MakeCommit
    stored,       \* the commits in .anvil/objects
    HEAD,         \* a name (symbolic) or a commit (detached)
    refs,         \* what each ref names
    ORIG_HEAD,
    MERGE_HEAD,
    logs,         \* the commits the reflogs name: those of all refs and of HEAD
    REBASE_STATE,
    upstream,     \* the branch of the remote
    pending,      \* writes the operation under way has still to make
    replaying,    \* the operation is inside #runRebase
    result,       \* the commit the operation will report
    reported,     \* commits an operation has reported as recorded
    started       \* operations started so far

disk == <<commits, stored, HEAD, refs, ORIG_HEAD, MERGE_HEAD, logs, REBASE_STATE, upstream>>
vars == <<disk, pending, replaying, result, reported, started>>

-----------------------------------------------------------------------------
(* The commit graph.                                                       *)

(* A commit hashes its parents, so it fixes all of its history: `past` is   *)
(* itself and its ancestors, `line` its first-parent chain from the root,  *)
(* and `replays` the commit whose change it carries: itself but for a rebase. *)

Fresh == 1 + Len(commits)

(* Variant: the generation of the first parent. *)
nextGenerationFirst(parents) == IF parents = <<>> THEN 0 ELSE 1 + commits[parents[1]].gen

nextGeneration(parents) ==
    IF parents = <<>> THEN 0
    ELSE 1 + Max({commits[p].gen : p \in ToSet(parents)})

MakeCommit(parents, replays) ==
    [gen |-> nextGeneration(parents),
     past |-> {Fresh} \cup UNION {commits[p].past : p \in ToSet(parents)},
     line |-> (IF parents = <<>> THEN <<>> ELSE commits[parents[1]].line) \o <<Fresh>>,
     replays |-> replays]

(* The ancestors are walked only if the generation allows it. *)
isAncestor(a, b) ==
    a = b \/ (commits[a].gen < commits[b].gen /\ a \in commits[b].past)

Related(a, b) == commits[a].past \cap commits[b].past # {}

(* The first-parent chain of ours down to what onto already has, which is a *)
(* beginning of the chain: the ancestors of an ancestor are ancestors.      *)
commitsToReplay(ours, onto) ==
    LET line  == commits[ours].line
        known == {i \in DOMAIN line : line[i] \in commits[onto].past}
    IN  SubSeq(line, 1 + Cardinality(known), Len(line))

-----------------------------------------------------------------------------
(* Reachability: what the collection keeps.                                *)

Value(ref) == {refs[ref]} \ {None}

resolveHead == IF HEAD \in Heads THEN refs[HEAD] ELSE HEAD

rebaseStateHashes ==
    IF REBASE_STATE = None THEN {}
    ELSE {REBASE_STATE.onto, REBASE_STATE.origHead, REBASE_STATE.tip}
         \cup ToSet(REBASE_STATE.todo) \cup ToSet(REBASE_STATE.done)

(* The reflogs of HEAD and of every ref that exists: no operation deletes  *)
(* a ref, and a ref is written before its first entry.                      *)
allReflogHashes == logs

(* Variant: an interrupted rebase is not a root. *)
SeedsNoRebase ==
    (UNION {Value(r) : r \in Ref})
    \cup ({resolveHead, ORIG_HEAD, MERGE_HEAD} \ {None})
    \cup allReflogHashes

(* Variant: the reflogs are not roots. *)
SeedsNoReflog ==
    (UNION {Value(r) : r \in Ref})
    \cup ({resolveHead, ORIG_HEAD, MERGE_HEAD} \ {None})
    \cup rebaseStateHashes

Seeds ==
    (UNION {Value(r) : r \in Ref})
    \cup ({resolveHead, ORIG_HEAD, MERGE_HEAD} \ {None})
    \cup allReflogHashes
    \cup rebaseStateHashes

History(roots) == UNION {commits[c].past : c \in roots}

-----------------------------------------------------------------------------
(* The writes of an operation, each one file.                              *)

Put(commit) == [file |-> "object", id |-> Fresh, commit |-> commit]
Set(name, value) == [file |-> name, value |-> value]
SetRef(ref, value) == [file |-> "ref", ref |-> ref, value |-> value]

(* The entry goes into the reflog of the branch and of HEAD, one after the  *)
(* other; a commit counts as logged from the first of them on.              *)
Log(old, new) == [file |-> "log", ids |-> {old, new} \ {None}]

(* HEAD's branch moves, or HEAD itself when it is detached.                 *)
Advance(new) == IF HEAD \in Heads THEN SetRef(HEAD, new) ELSE Set("HEAD", new)

Idle == pending = <<>> /\ ~replaying /\ result = None

Begin ==
    /\ Idle
    /\ started < MaxStarted
    /\ started' = started + 1

(* An operation decides on its writes and on what it will report. *)
Start(writes, returned) ==
    /\ Begin
    /\ pending' = writes
    /\ result' = returned
    /\ UNCHANGED <<disk, replaying, reported>>

(* Variant: a rebase that is paused is not in progress. *)
noRebaseReplaying == ~replaying

noRebaseInProgress == REBASE_STATE = None

Room == Len(commits) < MaxCommits

-----------------------------------------------------------------------------
(* Operations that record or move.                                         *)

Parents(head) == IF head = None THEN <<>> ELSE <<head>>

RecordCommit ==
    /\ noRebaseInProgress /\ Room
    /\ Start(<<Put(MakeCommit(Parents(resolveHead), Fresh)), Advance(Fresh),
               Log(resolveHead, Fresh)>>, Fresh)

CreateBranch(b) ==
    /\ noRebaseInProgress
    /\ refs[b] = None /\ resolveHead # None
    /\ Start(<<SetRef(b, resolveHead), Log(None, resolveHead)>>, None)

(* A pull's stash is a branch like any other. *)
SwitchToBranch(b) ==
    /\ noRebaseInProgress
    /\ refs[b] # None
    /\ Start(<<Set("HEAD", b), Log(resolveHead, refs[b])>>, None)

(* A tag, a tracking ref or an id; any commit that is stored may be named,  *)
(* what an interrupted operation or collection left behind included.       *)
SwitchToCommit(c) ==
    /\ noRebaseInProgress
    /\ c \in stored
    /\ c \in History(Seeds) \/ "orphan" \in Trouble
    /\ Start(<<Set("HEAD", c), Log(resolveHead, c)>>, None)

MergeFastForward(ref) ==
    LET ours == resolveHead  theirs == refs[ref]
    IN  /\ noRebaseInProgress
        /\ ours # None /\ theirs # None
        /\ ~isAncestor(theirs, ours) /\ isAncestor(ours, theirs)
        /\ Start(<<Set("ORIG_HEAD", ours), Advance(theirs), Log(ours, theirs)>>, theirs)

(* A conflict leaves no commit; MERGE_HEAD is cleared either way. *)
Merge3Way(ref) ==
    LET ours == resolveHead  theirs == refs[ref]
    IN  /\ noRebaseInProgress
        /\ ours # None /\ theirs # None
        /\ ~isAncestor(theirs, ours) /\ ~isAncestor(ours, theirs) /\ Related(ours, theirs)
        /\ \/ Start(<<Set("MERGE_HEAD", theirs), Set("MERGE_HEAD", None)>>, None)
           \/ /\ Room
              /\ Start(<<Set("MERGE_HEAD", theirs), Put(MakeCommit(<<ours, theirs>>, Fresh)),
                         Advance(Fresh), Log(ours, Fresh), Set("ORIG_HEAD", ours),
                         Set("MERGE_HEAD", None)>>, Fresh)

(* Whichever commit is reverted, the new one follows HEAD. *)
Revert ==
    LET head == resolveHead
    IN  /\ noRebaseInProgress /\ Room
        /\ head # None
        /\ Start(<<Put(MakeCommit(<<head>>, Fresh)), Advance(Fresh), Log(head, Fresh),
                   Set("ORIG_HEAD", head)>>, Fresh)

-----------------------------------------------------------------------------
(* Rebase: REBASE_STATE is rewritten before each step.                     *)

SetState(state) == Set("REBASE_STATE", state)

NewRebase(ours, onto) ==
    [onto |-> onto, origHead |-> ours, branch |-> HEAD, tip |-> onto,
     todo |-> commitsToReplay(ours, onto), done |-> <<>>, current |-> None]

Rest(todo) == SubSeq(todo, 2, Len(todo))

(* Variant: --continue records the resolved tree and replays the step again. *)
AdvancedTwice(state, id) ==
    [state EXCEPT !.tip = id, !.done = Append(@, id), !.current = None]

(* The step is done: its commit is the new tip. *)
Advanced(state, id) ==
    [state EXCEPT !.tip = id, !.done = Append(@, id), !.todo = Rest(@), !.current = None]

(* The step is dropped. *)
Skipped(state) == [state EXCEPT !.todo = Rest(@), !.current = None]

(* #runRebase takes over once `writes` are made. *)
StartReplay(writes) ==
    /\ Begin
    /\ pending' = writes
    /\ replaying' = TRUE
    /\ UNCHANGED <<disk, result, reported>>

RebaseFastForward(ref) ==
    LET ours == resolveHead  onto == refs[ref]
    IN  /\ noRebaseInProgress
        /\ HEAD \in Heads
        /\ ours # None /\ onto # None
        /\ ours # onto /\ isAncestor(ours, onto)
        /\ Start(<<Set("ORIG_HEAD", ours), SetRef(HEAD, onto), Log(ours, onto)>>, onto)

Rebase(ref) ==
    LET ours == resolveHead  onto == refs[ref]
    IN  /\ noRebaseInProgress
        /\ HEAD \in Heads
        /\ ours # None /\ onto # None
        /\ ~isAncestor(ours, onto)
        /\ commitsToReplay(ours, onto) # <<>>
        /\ StartReplay(<<Set("ORIG_HEAD", ours), SetState(NewRebase(ours, onto))>>)

Replaying == replaying /\ pending = <<>>

(* One turn of the loop: the next commit is applied to the tip ... *)
RebaseStep ==
    /\ Replaying /\ REBASE_STATE.todo # <<>> /\ Room
    /\ pending' = <<Put(MakeCommit(<<REBASE_STATE.tip>>, REBASE_STATE.todo[1])),
                    SetState(Advanced(REBASE_STATE, Fresh))>>
    /\ UNCHANGED <<disk, replaying, result, reported, started>>

(* ... or conflicts, and the rebase pauses. *)
RebasePause ==
    /\ Replaying /\ REBASE_STATE.todo # <<>>
    /\ pending' = <<SetState([REBASE_STATE EXCEPT !.current = REBASE_STATE.todo[1]])>>
    /\ replaying' = FALSE
    /\ UNCHANGED <<disk, result, reported, started>>

RebaseFinish ==
    LET state == REBASE_STATE
    IN  /\ Replaying /\ state.todo = <<>>
        /\ pending' = <<SetRef(state.branch, state.tip), Log(state.origHead, state.tip),
                        SetState(None)>>
        /\ replaying' = FALSE
        /\ result' = state.tip
        /\ UNCHANGED <<disk, reported, started>>

(* The working tree stands for the paused commit, whatever is in it. *)
RebaseContinue ==
    LET state == REBASE_STATE
        resolved == MakeCommit(<<state.tip>>, state.current)
    IN  /\ state # None
        /\ \/ state.current = None /\ StartReplay(<<>>)
           \/ /\ state.current # None /\ Room
              /\ StartReplay(<<Put(resolved), SetState(Advanced(state, Fresh))>>)

RebaseSkip ==
    /\ REBASE_STATE # None
    /\ StartReplay(<<SetState(Skipped(REBASE_STATE))>>)

RebaseAbort ==
    LET state == REBASE_STATE
    IN  /\ state # None
        /\ Start(<<SetRef(state.branch, state.origHead), Log(state.tip, state.origHead),
                   SetState(None)>>, None)

-----------------------------------------------------------------------------
(* Pull and push.                                                          *)

(* The commits of the remote's history that are not here; see ImportObject. *)
importHistory(tip) == [file |-> "import", tip |-> tip]

(* Variant: the diverged commits are left to the reflog. *)
stashLocalNone(at) == Log(at, at)

stashLocal(at) == SetRef(CHOOSE s \in Stash : refs[s] = None, at)

(* No guard on a rebase here: "pull" \in Trouble is what the code allows. *)
mayPull == noRebaseInProgress \/ "pull" \in Trouble

PullUnborn ==
    /\ mayPull
    /\ upstream # None /\ resolveHead = None
    /\ Start(<<importHistory(upstream), SetRef(HEAD, upstream), Set("HEAD", HEAD),
               SetRef(Tracking, upstream)>>, upstream)

PullUpToDate ==
    /\ mayPull
    /\ upstream # None /\ HEAD \in Heads /\ resolveHead # None
    /\ isAncestor(upstream, resolveHead)
    /\ Start(<<importHistory(upstream), SetRef(Tracking, upstream)>>, None)

(* A detached HEAD is noticed once the history is here. *)
PullRefused ==
    /\ mayPull
    /\ upstream # None /\ HEAD \notin Heads
    /\ ~(commits[upstream].past \subseteq stored)
    /\ Start(<<importHistory(upstream)>>, None)

(* The branch goes to the remote's tip; what it alone held is stashed first. *)
Pull ==
    LET ours == resolveHead
        diverged == ~isAncestor(ours, upstream)
    IN  /\ mayPull
        /\ upstream # None /\ HEAD \in Heads /\ ours # None
        /\ ~isAncestor(upstream, ours)
        /\ \/ /\ ~diverged
              /\ Start(<<importHistory(upstream),
                         Set("ORIG_HEAD", ours), SetRef(HEAD, upstream),
                         SetRef(Tracking, upstream), Log(ours, upstream)>>, upstream)
           \/ /\ diverged /\ \E s \in Stash : refs[s] = None
              /\ Start(<<importHistory(upstream), stashLocal(ours), Log(None, ours),
                         Set("ORIG_HEAD", ours), SetRef(HEAD, upstream),
                         SetRef(Tracking, upstream), Log(ours, upstream)>>, upstream)

(* A remote that publishes no history: its files become a commit after HEAD, *)
(* on the current branch, or on Main if HEAD is detached.                   *)
PullStatic ==
    LET ours == resolveHead
        branch == IF HEAD \in Heads THEN HEAD ELSE Main
    IN  /\ mayPull /\ Room
        /\ HEAD \in Heads \/ "static" \in Trouble
        /\ Start(<<Put(MakeCommit(Parents(ours), Fresh)),
                   Set("ORIG_HEAD", IF ours = None THEN ORIG_HEAD ELSE ours),
                   SetRef(branch, Fresh), Set("HEAD", branch), Log(ours, Fresh)>>, Fresh)

(* The remote's branch is overwritten, whatever it names. *)
Push ==
    /\ resolveHead # None
    /\ commits[resolveHead].past \subseteq stored
    /\ Start(<<Set("upstream", resolveHead), SetRef(Tracking, resolveHead)>>, None)

(* A peer pushes a commit of its own: after the remote's, or in place of it. *)
(* Only a pull and a push look at the remote, and each looks once.          *)
PeerPush ==
    /\ Begin /\ Room
    /\ \E parents \in {<<>>} \cup (IF upstream = None THEN {}
                                   ELSE {<<p>> : p \in commits[upstream].past}) :
          commits' = Append(commits, MakeCommit(parents, Fresh))
    /\ upstream' = Fresh
    /\ UNCHANGED <<stored, HEAD, refs, ORIG_HEAD, MERGE_HEAD, logs, REBASE_STATE,
                   pending, replaying, result, reported>>

-----------------------------------------------------------------------------
(* The writes, a crash, and the collection.                                *)

Register(w, name, value) == IF w.file = name THEN w.value ELSE value

Effect(w) ==
    /\ commits' = IF w.file = "object" THEN Append(commits, w.commit) ELSE commits
    /\ stored' = IF w.file = "object" THEN stored \cup {w.id} ELSE stored
    /\ refs' = IF w.file = "ref" THEN [refs EXCEPT ![w.ref] = w.value] ELSE refs
    /\ logs' = IF w.file = "log" THEN logs \cup w.ids ELSE logs
    /\ HEAD' = Register(w, "HEAD", HEAD)
    /\ ORIG_HEAD' = Register(w, "ORIG_HEAD", ORIG_HEAD)
    /\ MERGE_HEAD' = Register(w, "MERGE_HEAD", MERGE_HEAD)
    /\ REBASE_STATE' = Register(w, "REBASE_STATE", REBASE_STATE)
    /\ upstream' = Register(w, "upstream", upstream)

Write ==
    /\ pending # <<>> /\ Head(pending).file # "import"
    /\ Effect(Head(pending))
    /\ pending' = Tail(pending)
    /\ UNCHANGED <<replaying, result, reported, started>>

(* One object of the remote's history is written: the tip's, and then those *)
(* it leads to, in no order that matters.                                   *)
ImportObject ==
    /\ pending # <<>> /\ Head(pending).file = "import"
    /\ LET tip     == Head(pending).tip
           missing == commits[tip].past \ stored
       IN  \/ /\ missing = {}
              /\ pending' = Tail(pending) /\ UNCHANGED stored
           \/ \E c \in missing : /\ tip \in missing => c = tip
                                 /\ stored' = stored \cup {c} /\ UNCHANGED pending
    /\ UNCHANGED <<commits, HEAD, refs, ORIG_HEAD, MERGE_HEAD, logs, REBASE_STATE, upstream,
                   replaying, result, reported, started>>

(* The operation is over and tells the user which commit is there now. *)
Return ==
    /\ pending = <<>> /\ ~replaying /\ result # None
    /\ reported' = reported \cup {result}
    /\ result' = None
    /\ UNCHANGED <<disk, pending, replaying, started>>

Forget == pending' = <<>> /\ replaying' = FALSE /\ result' = None

Crash ==
    /\ ~Idle
    /\ Forget
    /\ UNCHANGED <<disk, reported, started>>

(* The collection drops what no seed leads to, all of it or, if it dies on *)
(* the way, some.  A seed that is missing is passed over.                   *)
Gc ==
    /\ Begin
    /\ \E gone \in SUBSET (stored \ History(Seeds \cap stored)) :
          gone # {} /\ stored' = stored \ gone
    /\ UNCHANGED <<commits, HEAD, refs, ORIG_HEAD, MERGE_HEAD, logs, REBASE_STATE, upstream,
                   pending, replaying, result, reported>>

-----------------------------------------------------------------------------
Init ==
    /\ commits = <<>> /\ stored = {}
    /\ HEAD = Main
    /\ refs = [r \in Ref |-> None]
    /\ ORIG_HEAD = None /\ MERGE_HEAD = None
    /\ logs = {}
    /\ REBASE_STATE = None
    /\ upstream = None
    /\ pending = <<>> /\ replaying = FALSE /\ result = None
    /\ reported = {}
    /\ started = 0

Record == RecordCommit \/ Revert \/ \E ref \in Ref : MergeFastForward(ref) \/ Merge3Way(ref)

Move ==
    \/ \E b \in Branch : CreateBranch(b)
    \/ \E b \in Heads : SwitchToBranch(b)
    \/ \E c \in Commit : SwitchToCommit(c)

RebaseOp ==
    \/ \E ref \in Ref : RebaseFastForward(ref) \/ Rebase(ref)
    \/ RebaseStep \/ RebasePause \/ RebaseFinish
    \/ RebaseContinue \/ RebaseSkip \/ RebaseAbort

Remote == PullUnborn \/ PullUpToDate \/ PullRefused \/ Pull \/ PullStatic \/ Push \/ PeerPush

Next == Record \/ Move \/ RebaseOp \/ Remote \/ Write \/ ImportObject \/ Return \/ Crash \/ Gc

Spec == Init /\ [][Next]_vars

-----------------------------------------------------------------------------
(* Properties.                                                             *)

(* Whatever was interrupted and however often the collection ran, every     *)
(* commit that a ref, HEAD, ORIG_HEAD, MERGE_HEAD, a reflog or a rebase      *)
(* leads to is stored, with all of its ancestors (src/vc/gc.ts: "switching  *)
(* to an old commit after a GC never hits a missing object").               *)
NothingMissing == History(Seeds) \subseteq stored

(* A commit that an operation has told the user of is kept for good with    *)
(* its history: whatever moves the refs away from it leaves it in a reflog. *)
ReportedKept == History(reported) \subseteq stored

(* While a rebase is in progress (src/vc/rebase.ts: the branch is not moved *)
(* until it finishes), HEAD names its branch, and the branch is where the   *)
(* rebase found it, or at the tip when nothing is left to replay: --abort   *)
(* and --continue overwrite nobody's commit.                                *)
RebaseOwnsBranch ==
    REBASE_STATE # None =>
        /\ HEAD = REBASE_STATE.branch
        /\ \/ refs[HEAD] = REBASE_STATE.origHead
           \/ REBASE_STATE.todo = <<>> /\ refs[HEAD] = REBASE_STATE.tip

(* Through pauses, skips and crashes: the tip is the new base followed by   *)
(* the commits made so far, and these replay, with what is left to do, each *)
(* commit of the branch at most once and in the branch's order, which is    *)
(* that of their ids: a commit is made after its parents.  A paused         *)
(* rebase is paused on the one it is to apply next, which is what --continue *)
(* and --skip both drop.                                                    *)
ReplayOrder ==
    REBASE_STATE # None =>
        LET state == REBASE_STATE
            plan == commitsToReplay(state.origHead, state.onto)
            carried == [i \in DOMAIN state.done |-> commits[state.done[i]].replays] \o state.todo
        IN  /\ commits[state.tip].line = commits[state.onto].line \o state.done
            /\ ToSet(carried) \subseteq ToSet(plan)
            /\ \A i, j \in DOMAIN carried : i < j => carried[i] < carried[j]
            /\ state.current # None => state.todo # <<>> /\ state.current = state.todo[1]

(* The comparison of generations that cuts a walk short (graph.ts,          *)
(* isAncestor) never cuts off an ancestor, whoever made the commits.         *)
AncestryByGen ==
    \A a, b \in DOMAIN commits : isAncestor(a, b) <=> a \in commits[b].past

(* A branch gives up a commit only to a rebase of that branch, or when a    *)
(* pull that resets it has put the commit on a branch of its own first.     *)
BranchKeepsWork ==
    [][\A b \in Heads : refs[b] # None =>
          /\ refs'[b] # None
          /\ \/ refs[b] \in commits'[refs'[b]].past
             \/ REBASE_STATE # None /\ REBASE_STATE.branch = b
             \/ \E s \in Stash \ {b} : refs[s] # None /\ refs[b] \in commits[refs[s]].past]_vars
=============================================================================
