----------------------------- MODULE RemoteSync -----------------------------
(***************************************************************************)
(* Instances that share one remote: push, pull and clone, with the rule    *)
(* that CurseForge (replay) bytes, which every machine fetches with a key  *)
(* of its own, reach no history and no remote.                             *)
(*                                                                         *)
(* A served tree is plain files, read and written one after another by     *)
(* whoever comes; a git remote is fetched whole and takes a push only when *)
(* nobody has pushed since.  A commit, a build and the local half of a     *)
(* pull are one step here: WorkTree, InstanceBuild and VcRefs cut them up. *)
(***************************************************************************)
EXTENDS Naturals, Sequences, Functions

CONSTANTS
    Peer,      \* the instances
    Keyed,     \* those with a CurseForge key
    Path,      \* files of an instance
    Own,       \* bytes a user has written
    Replay,    \* CurseForge bytes
    Version,   \* what a manifest and its lock may say
    Rows,      \* [Version -> [the paths of its replay rows -> Replay]]
    Setups,    \* the remotes to consider: [git, old, foreign], whether it is a
               \* git remote, whether it has a history from before replay bytes
               \* were refused, and the versions with a row that only makes sense
               \* where it was locked: a local file, or a host the others refuse
    None,      \* no file, no lock
    MaxChanges \* bound on edits, moves, locks and commits

Content == Own \cup Replay

ASSUME RemoteAssumption ==
    /\ Keyed \subseteq Peer
    /\ Own \cap Replay = {} /\ None \notin Content \cup Version
    /\ \A v \in Version : Rows[v] \in UNION {[D -> Replay] : D \in SUBSET Path}
    /\ Setups \subseteq [git : BOOLEAN, old : BOOLEAN, foreign : SUBSET Version]
    /\ MaxChanges \in Nat

VARIABLES
    inst,    \* [Peer -> the instance: its files, history and replay state]
    remote,  \* what the remote serves
    setup,   \* the one of Setups that it is
    op,      \* [Peer -> the push or pull that it is in]
    changes, \* how many changes have been made (bounded)
    wiped,   \* peers whose replay cache has been deleted
    moved,   \* peers where replay bytes have been renamed
    refilled, \* peers whose deleted cache has been filled again, but not with
              \* all the replay bytes that lie in the instance
    uneven,  \* publishes of a dirty tree, cut short, or read while they ran
    legacy   \* what the remote held of replay bytes before the rule was there

blindness == <<wiped, moved, refilled>>
vars == <<inst, remote, setup, op, changes, blindness, uneven, legacy>>

git == setup.git

-----------------------------------------------------------------------------
(* History.  A commit is the value of what it records, its ancestors        *)
(* included, which is what content addressing makes of it; without a lock    *)
(* it is none.                                                              *)

NoCommit == [past |-> {}, lock |-> None, tracked |-> [p \in {} |-> None]]

RowsOf(v) == IF v = None THEN [p \in {} |-> None] ELSE Rows[v]

Ancestors(c) == IF c = NoCommit THEN {} ELSE {c} \cup c.past
isAncestor(a, b) == a \in Ancestors(b)
MakeCommit(parent, lock, tracked) ==
    [past |-> Ancestors(parent), lock |-> lock, tracked |-> tracked]

Blobs(c) == UNION {Range(a.tracked) : a \in Ancestors(c)}

(* Every tracked (path, bytes) pair of the history. *)
TrackedEntries(c) == UNION {{<<p, a.tracked[p]>> : p \in DOMAIN a.tracked} : a \in Ancestors(c)}

(* Variant: the pins of the tip's own lock. *)
TipPins(c) == Range(RowsOf(c.lock))
replayPinsOf(c) == UNION {Range(RowsOf(a.lock)) : a \in Ancestors(c)}

-----------------------------------------------------------------------------
(* The replay rule of one instance s.                                       *)

established(s) == s.cache # {}

(* Variant: a claimed path is refused whatever lies there. *)
verdictByPath(s, p, c) == c \notin s.cache /\ p \notin s.ledger

(* TRUE for "track": the cache answers when there is one, or else the ledger. *)
verdict(s, p, c) == IF established(s) THEN c \notin s.cache ELSE p \notin s.ledger

recordReplayPaths(s, locks) ==
    [s EXCEPT !.ledger = @ \cup UNION {DOMAIN RowsOf(v) : v \in locks}]

BuildOwned(s) == DOMAIN RowsOf(s.lock) \cup DOMAIN RowsOf(s.built)

trackWorktree(s) ==
    Restrict(s.tree, {p \in Path \ BuildOwned(s) : s.tree[p] # None /\ verdict(s, p, s.tree[p])})

commitOf(s) ==
    LET c == MakeCommit(s.tip, s.lock, trackWorktree(s))
    IN  [s EXCEPT !.tip = c, !.commits = @ \cup {c}, !.blobs = @ \cup Range(c.tracked)]

(* Replay bytes come out of the cache or with the key. *)
ensure(s, bytes, key) == key \/ bytes \subseteq s.cache

(* A build claims the paths, fetches what the delta needs into the cache, and
   swaps; without the key and the bytes it stops at the claim. *)
buildInstance(s, previousLock, key) ==
    LET claimed == recordReplayPaths(s, {s.lock, previousLock})
        rows    == RowsOf(s.lock)
        was     == RowsOf(previousLock)
        install == {p \in DOMAIN rows : ~(p \in DOMAIN was /\ was[p] = rows[p])}
        fetched == {rows[p] : p \in install}
    IN  IF ~ensure(s, fetched, key) THEN claimed
        ELSE [claimed EXCEPT
                !.cache = @ \cup fetched,
                !.tree = IF s.kept THEN @
                         ELSE [p \in Path |->
                                 CASE p \in install                -> rows[p]
                                   [] p \in DOMAIN was \ DOMAIN rows -> None
                                   [] OTHER                        -> s.tree[p]],
                !.built = s.lock]

(* What a checkout of c writes: nothing that the transfer refused, that a lock
   of the history pins, or that the instance itself refuses. *)
materializeSnapshot(s, c, pins) ==
    LET before  == DOMAIN s.tip.tracked
        written == {p \in DOMAIN c.tracked :
                      c.tracked[p] \notin pins /\ verdict(s, p, c.tracked[p])}
    IN  [s EXCEPT !.lock = c.lock,
                  !.tree = [p \in Path |->
                              CASE p \in written -> c.tracked[p]
                                [] p \in before \ DOMAIN c.tracked -> None
                                [] OTHER -> s.tree[p]]]

-----------------------------------------------------------------------------
(* Transfers.                                                               *)

(* The tracked bytes of an incoming history that are not taken. *)
Refused(s, tip) == (Blobs(tip) \ s.blobs) \cap replayPinsOf(tip)

Importable(s, tip) ==
    /\ Ancestors(tip) \ s.commits \subseteq remote.commits
    /\ Blobs(tip) \ s.blobs \subseteq remote.blobs

(* An object is kept under the name it hashes to, once. *)
importRaw(s, commits, blobs) == [s EXCEPT !.commits = @ \cup commits, !.blobs = @ \cup blobs]

importHistory(s, tip) == importRaw(s, Ancestors(tip), Blobs(tip) \ Refused(s, tip))

(* Variant: what the remote has already been given is not stashed. *)
StashUnpushed(s, tip) ==
    IF s.tip = NoCommit \/ isAncestor(s.tip, tip) \/ s.tip \in remote.commits
    THEN s.stash ELSE s.stash \cup {s.tip}

(* A branch for the commits of our own that the remote's tip does not contain. *)
stashLocal(s, tip) ==
    IF s.tip = NoCommit \/ isAncestor(s.tip, tip) THEN s.stash ELSE s.stash \cup {s.tip}

assertPushableHistory(s) ==
    \A e \in TrackedEntries(s.tip) :
        e[2] \in s.blobs \ replayPinsOf(s.tip) /\ e[1] \notin s.ledger

gatherVcObjects(s) ==
    [file |-> "objects", commits |-> s.commits \cap Ancestors(s.tip),
     blobs |-> s.blobs \cap Blobs(s.tip)]

(* Variant: the branch before the objects. *)
publishRefFirst(s) ==
    <<[file |-> "branch", to |-> s.tip], gatherVcObjects(s),
      [file |-> "lock", to |-> s.lock]>>

(* Variant: the files that are served already are left. *)
publishNoFiles(s) ==
    <<gatherVcObjects(s),
      [file |-> "lock", to |-> IF remote.lock = None THEN s.lock ELSE remote.lock],
      [file |-> "branch", to |-> s.tip]>>

(* The writes of a publish, one after another: the objects, the manifest with
   its lock, and the branch last. *)
publish(s) ==
    <<gatherVcObjects(s), [file |-> "lock", to |-> s.lock],
      [file |-> "branch", to |-> s.tip]>>

Put(r, w) ==
    IF w.file = "objects"
    THEN [r EXCEPT !.commits = @ \cup w.commits, !.blobs = @ \cup w.blobs]
    ELSE IF w.file = "lock" THEN [r EXCEPT !.lock = w.to]
    ELSE [r EXCEPT !.branch = w.to]

-----------------------------------------------------------------------------
Fresh == [tree |-> [p \in Path |-> None], lock |-> None, built |-> None, cache |-> {},
          kept |-> FALSE, ledger |-> {}, tip |-> NoCommit, stash |-> {}, commits |-> {},
          blobs |-> {}]

(* What a remote may have from before replay bytes were refused: a lock with
   replay rows, then another that places nothing there and the bytes tracked
   where they lay. *)
Apart(v) == {w \in Version : DOMAIN RowsOf(v) \cap DOMAIN RowsOf(w) = {}}
LegacyTips ==
    UNION {{MakeCommit(MakeCommit(NoCommit, v, [p \in {} |-> None]), w, RowsOf(v)) :
              w \in Apart(v)} : v \in Version}
Served(c) ==
    [commits |-> Ancestors(c), blobs |-> Blobs(c), lock |-> c.lock, branch |-> c]

(* A peer is idle, publishes or fetches. *)
Nothing == [name |-> "idle"]

(* Those with a key have locked an instance; the others start from nothing. *)
Init ==
    /\ \E locks \in [Keyed -> Version] :
          inst = [p \in Peer |-> IF p \in Keyed THEN [Fresh EXCEPT !.lock = locks[p]] ELSE Fresh]
    /\ setup \in Setups
    /\ \E c \in IF setup.old THEN LegacyTips ELSE {NoCommit} : remote = Served(c) /\ legacy = Blobs(c)
    /\ op = [p \in Peer |-> Nothing]
    /\ changes = 0 /\ wiped = {} /\ moved = {} /\ refilled = {} /\ uneven = FALSE

Changed == changes < MaxChanges /\ changes' = changes + 1
Become(p, s) == inst' = [inst EXCEPT ![p] = s]

(* A build has put replay bytes into a cache that was deleted, and others that
   came before the deletion still lie in the instance. *)
Refill(p) ==
    LET replay == Range(inst'[p].tree) \cap Replay
    IN  refilled' = IF inst'[p].cache # {} /\ ~(replay \subseteq inst'[p].cache)
                    THEN refilled \cup {p} ELSE refilled

Idle(p) == op[p].name = "idle"

(* The user writes or removes a file. *)
Edit(p, f, c) ==
    /\ Idle(p) /\ Changed /\ inst[p].tree[f] # c
    /\ Become(p, [inst[p] EXCEPT !.tree[f] = c])
    /\ UNCHANGED <<remote, setup, op, blindness, uneven, legacy>>

(* The user renames a replay jar. *)
Move(p, f, g) ==
    /\ Idle(p) /\ Changed /\ f # g /\ inst[p].tree[f] \in Replay
    /\ Become(p, [inst[p] EXCEPT !.tree[g] = inst[p].tree[f], !.tree[f] = None])
    /\ moved' = moved \cup {p}
    /\ UNCHANGED <<remote, setup, op, wiped, refilled, uneven, legacy>>

(* The user deletes the replay cache (once). *)
Wipe(p) ==
    /\ Idle(p) /\ inst[p].cache # {} /\ p \notin wiped
    /\ Become(p, [inst[p] EXCEPT !.cache = {}])
    /\ wiped' = wiped \cup {p}
    /\ UNCHANGED <<remote, setup, op, changes, moved, refilled, uneven, legacy>>

(* A line of .anvilignore makes the swap leave the directory of the files alone,
   the replay jars that lie there (or else it is of no interest) with them. *)
Protect(p) ==
    /\ Idle(p) /\ ~inst[p].kept /\ Range(inst[p].tree) \cap Replay # {}
    /\ Become(p, [inst[p] EXCEPT !.kept = TRUE])
    /\ UNCHANGED <<remote, setup, op, changes, blindness, uneven, legacy>>

(* add or remove, then lock. *)
Relock(p, v) ==
    /\ Idle(p) /\ Changed /\ inst[p].lock # v
    /\ Become(p, [inst[p] EXCEPT !.lock = v])
    /\ UNCHANGED <<remote, setup, op, blindness, uneven, legacy>>

Build(p) ==
    /\ Idle(p) /\ inst[p].lock # None
    /\ Become(p, buildInstance(inst[p], inst[p].built, p \in Keyed))
    /\ Refill(p)
    /\ UNCHANGED <<remote, setup, op, changes, wiped, moved, uneven, legacy>>

Commit(p) ==
    /\ Idle(p) /\ inst[p].lock # None /\ Changed
    /\ Become(p, commitOf(inst[p]))
    /\ UNCHANGED <<remote, setup, op, blindness, uneven, legacy>>

-----------------------------------------------------------------------------
(* Whether somebody else reads or writes the served files at this moment. *)
Publishing(q) == op[q].name = "publish"
Fetching(q) == op[q].name = "fetch"
Overlapped(p) == \E q \in Peer \ {p} : Publishing(q)
Watched(p) == \E q \in Peer \ {p} : Publishing(q) \/ Fetching(q)

(* push: everything is gathered, then written file by file; git takes the
   files into a clone of what it has just fetched. *)
push(p) ==
    /\ Idle(p) /\ inst[p].tip # NoCommit
    /\ assertPushableHistory(inst[p])
    /\ op' = [op EXCEPT ![p] = [name |-> "publish", todo |-> publish(inst[p]),
                               seen |-> IF git THEN remote ELSE None]]
    /\ uneven' = (uneven \/ inst[p].lock # inst[p].tip.lock \/ (~git /\ Watched(p)))
    /\ UNCHANGED <<inst, remote, setup, changes, blindness, legacy>>

(* What is left of a publish after its next write. *)
Rest(o) == IF Len(o.todo) = 1 THEN Nothing ELSE [o EXCEPT !.todo = Tail(o.todo)]

publishWrites(p) ==
    /\ Publishing(p) /\ ~git
    /\ remote' = Put(remote, Head(op[p].todo))
    /\ op' = [op EXCEPT ![p] = Rest(op[p])]
    /\ UNCHANGED <<inst, setup, changes, blindness, uneven, legacy>>

(* git push is refused when the branch has moved since it was fetched. *)
gitPush(p) ==
    /\ Publishing(p) /\ git /\ remote = op[p].seen
    /\ remote' = Put(Put(Put(remote, op[p].todo[1]), op[p].todo[2]), op[p].todo[3])
    /\ op' = [op EXCEPT ![p] = Nothing]
    /\ UNCHANGED <<inst, setup, changes, blindness, uneven, legacy>>

(* pull: the files of the remote, its branch, and then all the rest. *)
fetchFiles(p) ==
    /\ Idle(p) /\ remote.lock # None
    /\ op' = [op EXCEPT ![p] = [name |-> "fetch", lock |-> remote.lock,
                               tip |-> IF git THEN remote.branch ELSE NoCommit, whole |-> git]]
    /\ uneven' = (uneven \/ (~git /\ Overlapped(p)))
    /\ UNCHANGED <<inst, remote, setup, changes, blindness, legacy>>

fetchBranch(p) ==
    /\ Fetching(p) /\ ~op[p].whole
    /\ op' = [op EXCEPT ![p] = [name |-> "fetch", lock |-> op[p].lock,
                               tip |-> remote.branch, whole |-> TRUE]]
    /\ UNCHANGED <<inst, remote, setup, changes, blindness, uneven, legacy>>

(* An instance without a commit is built as if it had never been built. *)
Land(p, s) ==
    /\ Become(p, buildInstance(s, IF inst[p].tip = NoCommit THEN None ELSE s.built, p \in Keyed))
    /\ Refill(p)
    /\ op' = [op EXCEPT ![p] = Nothing]
    /\ UNCHANGED <<remote, setup, changes, wiped, moved, uneven, legacy>>

(* A lock that names what this machine should not read is refused unseen. *)
validateRemoteLock(v) == v \notin setup.foreign

Landing(p) == Fetching(p) /\ op[p].whole /\ validateRemoteLock(op[p].lock)

(* What the pull works on: the instance with the paths of the served lock claimed. *)
Claimed(p) == recordReplayPaths(inst[p], {op[p].lock})

pullUpToDate(p) ==
    /\ Landing(p) /\ op[p].tip # NoCommit /\ isAncestor(op[p].tip, inst[p].tip)
    /\ Become(p, Claimed(p))
    /\ op' = [op EXCEPT ![p] = Nothing]
    /\ UNCHANGED <<remote, setup, changes, blindness, uneven, legacy>>

(* Into an empty directory: the remote's tip, or a first commit of its files. *)
cloneInstance(p) ==
    /\ Landing(p) /\ inst[p] = Fresh
    /\ \/ /\ op[p].tip # NoCommit /\ Importable(inst[p], op[p].tip)
          /\ LET s == importHistory(Claimed(p), op[p].tip)
             IN  Land(p, [materializeSnapshot(s, op[p].tip, replayPinsOf(op[p].tip))
                            EXCEPT !.tip = op[p].tip])
       \/ /\ op[p].tip = NoCommit
          /\ Land(p, commitOf([Claimed(p) EXCEPT !.lock = op[p].lock]))

(* The branch goes to the remote's tip, whatever lay in between. *)
pullInstance(p) ==
    /\ Landing(p) /\ op[p].tip # NoCommit /\ ~isAncestor(op[p].tip, inst[p].tip)
    /\ Importable(inst[p], op[p].tip)
    /\ LET s    == importHistory(Claimed(p), op[p].tip)
           tree == materializeSnapshot(s, op[p].tip, replayPinsOf(op[p].tip))
       IN  Land(p, [tree EXCEPT !.tip = op[p].tip, !.stash = stashLocal(s, op[p].tip)])

(* A remote that has files and no branch: they become a commit of our own,
   unless nothing has changed. *)
pullStatic(p) ==
    /\ Landing(p) /\ op[p].tip = NoCommit /\ Changed
    /\ LET s == commitOf([Claimed(p) EXCEPT !.lock = op[p].lock])
       IN  Become(p, IF /\ inst[p].tip # NoCommit
                        /\ inst[p].tip.lock = s.tip.lock /\ inst[p].tip.tracked = s.tip.tracked
                     THEN [Claimed(p) EXCEPT !.lock = op[p].lock]
                     ELSE buildInstance(s, s.built, p \in Keyed))
    /\ Refill(p)
    /\ op' = [op EXCEPT ![p] = Nothing]
    /\ UNCHANGED <<remote, setup, wiped, moved, uneven, legacy>>

(* The process dies, the connection breaks, or the other side refuses. *)
stop(p) ==
    /\ ~Idle(p)
    /\ op' = [op EXCEPT ![p] = Nothing]
    /\ uneven' = (uneven \/ (~git /\ Publishing(p)))
    /\ UNCHANGED <<inst, remote, setup, changes, blindness, legacy>>

Next ==
    \E p \in Peer :
        \/ \E f \in Path, c \in Own \cup {None} : Edit(p, f, c)
        \/ \E f \in Path, g \in Path : Move(p, f, g)
        \/ \E v \in Version : Relock(p, v)
        \/ Wipe(p) \/ Protect(p) \/ Build(p) \/ Commit(p)
        \/ push(p) \/ publishWrites(p) \/ gitPush(p)
        \/ fetchFiles(p) \/ fetchBranch(p)
        \/ cloneInstance(p) \/ pullUpToDate(p) \/ pullInstance(p) \/ pullStatic(p)
        \/ stop(p)

Spec == Init /\ [][Next]_vars

-----------------------------------------------------------------------------
(* Properties.                                                             *)

(* The two instruments of the rule are blind together where a replay cache was
   deleted and then a jar was renamed, or the cache filled again without what a
   protected directory still holds. *)
Blind == wiped \cap (moved \cup refilled) # {}

(* Otherwise no replay bytes are ever among the objects of an instance, none
   come to the remote that it did not have before the rule, and an instance
   without a key, which cannot have fetched any, holds none. *)
ReplayStaysHome ==
    ~Blind =>
        /\ remote.blobs \cap Replay \subseteq legacy
        /\ \A p \in Peer : inst[p].blobs \cap Replay = {}
        /\ \A p \in Peer \ Keyed : Range(inst[p].tree) \cap Replay = {}

(* Whoever finds a commit, on the remote's branch or as the tip or a stash of an
   instance, finds all it reaches, save replay bytes; so no publish, whatever it
   raced with or died of, serves a branch before its objects, and no history
   with a hole is ever passed on. *)
HistoryComplete ==
    /\ Ancestors(remote.branch) \subseteq remote.commits
    /\ Blobs(remote.branch) \subseteq remote.blobs
    /\ \A p \in Peer : \A c \in inst[p].stash \cup {inst[p].tip} :
         /\ Ancestors(c) \subseteq inst[p].commits
         /\ Blobs(c) \ Replay \subseteq inst[p].blobs

(* The lock a pull has vetted and whose replay paths it has claimed is the lock
   of the commit it goes on to install, unless a publish was made of a dirty
   tree, died, or met another publish or a reader on a served tree. *)
VettedIsInstalled ==
    ~uneven => \A p \in Peer : (Landing(p) /\ op[p].tip # NoCommit) => op[p].lock = op[p].tip.lock

(* The commits that somebody can still name: those of the histories of the tips
   and the stashes. *)
InReach ==
    UNION {UNION {Ancestors(c) : c \in inst[p].stash \cup {inst[p].tip}} : p \in Peer}

Inherited == IF setup.old THEN UNION {Ancestors(c) : c \in LegacyTips} ELSE {}

(* A push compares no histories, so one peer's takes another's commits out of the
   served branch, and whoever pulls next is moved off them.  Yet every commit that
   was ever pushed stays in reach of an instance, so that the last of its work is
   not on a remote that no branch leads to; what the remote had from the start is
   nobody's. *)
PushedInReach == remote.commits \ Inherited \subseteq InReach

(* With a replay cache to ask, a commit leaves out no file of the user's own that
   no build owns, not even at a path that once held a replay item. *)
OwnFilesRecorded ==
    [][\A p \in Peer :
          (Idle(p) /\ established(inst[p]) /\ inst'[p].tip # inst[p].tip) =>
              \A f \in Path \ BuildOwned(inst[p]) :
                  inst[p].tree[f] \in Own => f \in DOMAIN inst'[p].tip.tracked]_vars
=============================================================================
