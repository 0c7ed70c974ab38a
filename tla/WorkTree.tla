------------------------------ MODULE WorkTree ------------------------------
(***************************************************************************)
(* The files of one instance under version control: what a commit records  *)
(* (buildSnapshot, trackWorktree), how switch, merge and their like write  *)
(* a commit back (materializeSnapshot), what status calls dirty, and what  *)
(* addItems, lock and build do to the same files.                          *)
(*                                                                         *)
(* commit, switch, merge and build hold the instance lock, so one of them  *)
(* runs at a time; addItems, removeItems and lock take none and come       *)
(* between any two of their writes.  A write is atomic here.               *)
(***************************************************************************)
EXTENDS Naturals, Sequences, Functions

CONSTANTS
    Path,      \* files of the instance that no rule built into anvil excludes
    Exclude,   \* .anvilexclude, tracked like any other
    Content,   \* what a file may hold
    RuleOf,    \* [Content -> the paths it excludes when .anvilexclude holds it]
    Version,   \* what anvil.toml declares, and what anvil.lock was made from
    Local,     \* [Version -> [paths of its local items -> Content]]
    Branch,    \* two branches
    None,      \* no file, no operation, no build yet; of a slot, no file that parses
    MaxChanges \* bound on edits, spoilt slots, addItems, lock and commit

ASSUME TreeAssumption ==
    /\ Exclude \in Path
    /\ RuleOf \in [Content -> SUBSET (Path \ {Exclude})]
    /\ \A v \in Version : Local[v] \in UNION {[D -> Content] : D \in SUBSET (Path \ {Exclude})}
    /\ None \notin Content \cup Version
    /\ "manifest" \notin Path /\ "lock" \notin Path
    /\ MaxChanges \in Nat

Slot == {"manifest", "lock"}
File == Path \cup Slot

VARIABLES
    disk,     \* [File -> what it holds]
    built,    \* the version whose lock was built last
    branch,   \* [Branch -> the snapshot of its tip]
    base,     \* the snapshot both branches have in common
    ahead,    \* branches with commits of their own since
    head,     \* the branch HEAD names
    op,       \* the operation that holds the instance lock
    todo,     \* the writes it has yet to make: sets done one after another
    view,     \* the manifest that a running `anvil lock` has read
    changes,  \* how many changes have been made (bounded)
    raced     \* a write without the instance lock has fallen within an operation

repo == <<branch, base, ahead, head>>
vars == <<disk, built, repo, op, todo, view, changes, raced>>

Nothing == [name |-> "idle"]
Idle == op.name = "idle"

-----------------------------------------------------------------------------
(* What version control manages, and snapshots.                            *)

Rules(text) == IF text = None THEN {} ELSE RuleOf[text]

buildOwnedPaths(v) == IF v = None THEN {} ELSE DOMAIN Local[v]

snapshotExclusion(d, lock) ==
    Rules(d[Exclude]) \cup buildOwnedPaths(lock) \cup buildOwnedPaths(built)

walkWorktree(d, exclude) == {p \in Path \ exclude : d[p] # None}

trackWorktree(d, lock) == Restrict(d, walkWorktree(d, snapshotExclusion(d, lock)))

(* The bytes a lock's local items have in the store. *)
carryLocals(lock) == Local[lock]

(* The lock is parsed first; its bytes and the manifest's are read again. *)
buildSnapshot(d, lock) ==
    [manifest |-> d["manifest"], lock |-> d["lock"], carried |-> carryLocals(lock),
     tracked |-> trackWorktree(d, lock)]

Parses(d) == \A f \in Slot : d[f] # None

worktreeSlotBlobs == [manifest |-> disk["manifest"], lock |-> disk["lock"]]

carriedBytesDiffer(s) ==
    \E p \in DOMAIN s.carried : disk[p] \notin {None, s.carried[p]}

(* Variant: only the tracked files are compared. *)
worktreeDirtyTracked == branch[head].tracked # trackWorktree(disk, disk["lock"])

worktreeDirty ==
    LET s == branch[head]
    IN  \/ worktreeSlotBlobs # [manifest |-> s.manifest, lock |-> s.lock]
        \/ carriedBytesDiffer(s)
        \/ s.tracked # trackWorktree(disk, disk["lock"])

(* The rules a commit travels with. *)
targetExclusion(s) == IF Exclude \in DOMAIN s.tracked THEN Rules(s.tracked[Exclude]) ELSE {}

Listed(s) == DOMAIN s.carried \cup DOMAIN s.tracked

(* Variant: the rules on disk are not asked. *)
DeletedByTarget(s, previous, onDisk) ==
    (DOMAIN previous.carried \cup (DOMAIN previous.tracked \ targetExclusion(s))) \ Listed(s)

Deleted(s, previous, onDisk) ==
    (DOMAIN previous.carried \ Listed(s))
        \cup (DOMAIN previous.tracked \ (Listed(s) \cup targetExclusion(s) \cup onDisk))

(* Variant: the rules on disk decide what is written. *)
WrittenOnDisk(s, onDisk) == DOMAIN s.tracked \ onDisk

Written(s, onDisk) == DOMAIN s.tracked \ targetExclusion(s)

SourceFiles(s) == <<[f \in {"manifest"} |-> s.manifest], [f \in {"lock"} |-> s.lock]>>

(* Deletions, carried files, tracked files, and the source files last. *)
materializeSnapshot(s, previous) ==
    LET onDisk == Rules(disk[Exclude])
    IN  <<[p \in Deleted(s, previous, onDisk) |-> None], s.carried,
          Restrict(s.tracked, Written(s, onDisk))>> \o SourceFiles(s)

(* The path-level three-way of a merge: a side that moved wins, ours when both
   did.  (The warnings are not kept.) *)
Moved(was, files, p) ==
    (p \in DOMAIN files /\ p \in DOMAIN was) => files[p] # was[p]

(* Variant: whatever ours still holds is kept. *)
mergeTrackedOurs(was, ours, theirs) ==
    [p \in DOMAIN ours \cup (DOMAIN theirs \ DOMAIN was) |->
        IF p \in DOMAIN ours THEN ours[p] ELSE theirs[p]]

mergeTrackedSets(was, ours, theirs) ==
    LET kept  == {p \in DOMAIN ours : Moved(was, ours, p) \/ p \in DOMAIN theirs}
        taken == {p \in DOMAIN theirs : IF p \in DOMAIN ours THEN ~Moved(was, ours, p)
                                                            ELSE p \notin DOMAIN was}
    IN  [p \in kept \cup taken |-> IF p \in taken THEN theirs[p] ELSE ours[p]]

(* What the item-set merge may decide when both sides moved. *)
MergedManifests(was, ours, theirs) ==
    CASE ours = was    -> {theirs}
      [] theirs = was  -> {ours}
      [] OTHER         -> {ours, theirs}

-----------------------------------------------------------------------------
(* The operations.                                                         *)

Init ==
    /\ \E v \in Version, files \in [Path -> Content \cup {None}] :
          /\ \A p \in Path : (\E w \in Version : p \in DOMAIN Local[w]) => files[p] = None
          /\ files[Exclude] # None
          /\ disk = [f \in File |-> IF f \in Slot THEN v ELSE files[f]]
    /\ built = None
    /\ base = buildSnapshot(disk, disk["lock"])
    /\ branch = [b \in Branch |-> base]
    /\ ahead = {}
    /\ head \in Branch
    /\ op = Nothing /\ todo = <<>> /\ view = None
    /\ changes = 0 /\ raced = FALSE

Changed == changes < MaxChanges /\ changes' = changes + 1
Racing == raced' = (raced \/ ~Idle)

(* The user, or the game, writes or removes a file. *)
Edit(p, c) ==
    /\ Idle /\ Changed /\ disk[p] # c
    /\ disk' = [disk EXCEPT ![p] = c]
    /\ UNCHANGED <<built, repo, op, todo, view, raced>>

(* The user removes the manifest or the lock, or leaves it unparseable. *)
spoil(f) ==
    /\ Idle /\ Changed /\ disk[f] # None
    /\ disk' = [disk EXCEPT ![f] = None]
    /\ UNCHANGED <<built, repo, op, todo, view, raced>>

(* addItems, removeItems: at any moment, without the instance lock. *)
addItems(v) ==
    /\ Changed /\ disk["manifest"] \notin {None, v}
    /\ disk' = [disk EXCEPT !["manifest"] = v]
    /\ Racing
    /\ UNCHANGED <<built, repo, op, todo, view>>

(* lock: reads the manifest, resolves, and writes what it found. *)
lockReads ==
    /\ view = None /\ disk["manifest"] # None
    /\ Changed /\ view' = disk["manifest"]
    /\ UNCHANGED <<disk, built, repo, op, todo, raced>>

lockWrites ==
    /\ view # None /\ view' = None
    /\ disk' = [disk EXCEPT !["lock"] = view]
    /\ Racing
    /\ UNCHANGED <<built, repo, op, todo, changes>>

(* A build places the files of the lock and removes what the last one owned;
   an item that has not changed is not placed again. *)
build ==
    /\ Idle /\ disk["lock"] \notin {None, built}
    /\ LET v == disk["lock"]
           same(p) == /\ p \in buildOwnedPaths(built) \cap buildOwnedPaths(v)
                      /\ Local[built][p] = Local[v][p]
       IN  /\ disk' = [f \in File |->
                  CASE f \in buildOwnedPaths(v)     -> IF same(f) THEN disk[f] ELSE Local[v][f]
                    [] f \in buildOwnedPaths(built) \ buildOwnedPaths(v) -> None
                    [] OTHER                        -> disk[f]]
           /\ built' = v
    /\ UNCHANGED <<repo, op, todo, view, changes, raced>>

(* HEAD's branch gets a commit. *)
Record(s) == branch' = [branch EXCEPT ![head] = s] /\ UNCHANGED head

(* Variant: a stale lock is committed as it is. *)
StaleIsFine(d) == TRUE
LockFresh(d) == d["lock"] = d["manifest"]

(* commit: parses the manifest and the lock, then reads the bytes it records. *)
commitParses ==
    /\ Idle /\ Parses(disk) /\ LockFresh(disk)
    /\ op' = [name |-> "commit", lock |-> disk["lock"]]
    /\ UNCHANGED <<disk, built, repo, todo, view, changes, raced>>

commitRecords ==
    /\ op.name = "commit" /\ Changed
    /\ Record(buildSnapshot(disk, op.lock))
    /\ ahead' = ahead \cup {head}
    /\ op' = Nothing
    /\ UNCHANGED <<disk, built, base, todo, view, raced>>

(* Variant: the guard asks about the tracked files only. *)
AtSnapshotTracked(s) == trackWorktree(disk, disk["lock"]) = s.tracked
AtSnapshot(s) == buildSnapshot(disk, disk["lock"]) = s

(* What the guard of a switch has compared (history). *)
Compared == File \ snapshotExclusion(disk, disk["lock"])

Checkout(name, b, seen) ==
    /\ op' = [name |-> name, to |-> b, seen |-> seen, spared |-> Rules(disk[Exclude])]
    /\ todo' = materializeSnapshot(branch[b], branch[head])
    /\ UNCHANGED <<disk, built, repo, view, changes, raced>>

(* switchTo: the tree must be HEAD's or the target's already, *)
switchCompared(b) ==
    /\ Idle /\ b # head /\ Parses(disk)
    /\ AtSnapshot(branch[head]) \/ AtSnapshot(branch[b])
    /\ Checkout("switch", b, Compared)

(* unless it is no snapshot at all: the manifest or the lock does not parse, or
   the store has lost what a local item holds.  Then nothing is compared. *)
switchBlind(b) ==
    /\ Idle /\ b # head
    /\ Parses(disk) => DOMAIN carryLocals(disk["lock"]) # {}
    /\ Checkout("switch", b, {})

switchTo(b) == switchCompared(b) \/ switchBlind(b)

switched ==
    /\ op.name = "switch" /\ todo = <<>>
    /\ head' = op.to /\ op' = Nothing
    /\ UNCHANGED <<disk, built, branch, base, ahead, todo, view, changes, raced>>

(* merge, when HEAD's branch has nothing of its own: no guard on the tree. *)
fastForward(b) ==
    /\ Idle /\ b \in ahead /\ head \notin ahead
    /\ Checkout("forward", b, {})

forwarded ==
    /\ op.name = "forward" /\ todo = <<>>
    /\ branch' = [branch EXCEPT ![head] = branch[op.to]]
    /\ base' = branch[op.to] /\ ahead' = {}
    /\ op' = Nothing
    /\ UNCHANGED <<disk, built, head, todo, view, changes, raced>>

(* merge of two branches that both moved: the merged manifest and lock are
   written first, and the tree they lie in is taken for ours. *)
merge(b) ==
    /\ Idle /\ Branch \subseteq ahead /\ b # head
    /\ \E v \in MergedManifests(base.manifest, branch[head].manifest, branch[b].manifest) :
          todo' = SourceFiles([manifest |-> v, lock |-> v])
    /\ op' = [name |-> "merge", to |-> b, clean |-> ~worktreeDirty,
              spared |-> Rules(disk[Exclude])]
    /\ UNCHANGED <<disk, built, repo, view, changes, raced>>

mergeBuilds ==
    /\ op.name = "merge" /\ todo = <<>> /\ Parses(disk) /\ LockFresh(disk)
    /\ LET ours == buildSnapshot(disk, disk["lock"])
           s    == [ours EXCEPT !.tracked = mergeTrackedSets(base.tracked, ours.tracked,
                                                             branch[op.to].tracked)]
       IN  /\ op' = [name |-> "merged", to |-> op.to, clean |-> op.clean,
                     spared |-> op.spared, snapshot |-> s]
           /\ todo' = materializeSnapshot(s, branch[head])
    /\ UNCHANGED <<disk, built, repo, view, changes, raced>>

merged ==
    /\ op.name = "merged" /\ todo = <<>>
    /\ Record(op.snapshot)
    /\ base' = branch[op.to] /\ ahead' = {head}
    /\ op' = Nothing
    /\ UNCHANGED <<disk, built, todo, view, changes, raced>>

(* One file of the set being written, in any order within the set. *)
write ==
    /\ todo # <<>>
    /\ IF DOMAIN Head(todo) = {}
       THEN disk' = disk /\ todo' = Tail(todo)
       ELSE \E f \in DOMAIN Head(todo) :
              /\ disk' = [disk EXCEPT ![f] = Head(todo)[f]]
              /\ todo' = <<Restrict(Head(todo), DOMAIN Head(todo) \ {f})>> \o Tail(todo)
    /\ UNCHANGED <<built, repo, op, view, changes, raced>>

(* The process dies, a write fails, or a merge finds the lock stale. *)
stop ==
    /\ ~Idle
    /\ op' = Nothing /\ todo' = <<>>
    /\ UNCHANGED <<disk, built, repo, view, changes, raced>>

Next ==
    \/ \E p \in Path, c \in Content \cup {None} : Edit(p, c)
    \/ \E f \in Slot : spoil(f)
    \/ \E v \in Version : addItems(v)
    \/ lockReads \/ lockWrites \/ build
    \/ commitParses \/ commitRecords
    \/ \E b \in Branch : switchTo(b) \/ fastForward(b) \/ merge(b)
    \/ switched \/ forwarded \/ mergeBuilds \/ merged
    \/ write \/ stop

Spec == Init /\ [][Next]_vars

-----------------------------------------------------------------------------
(* Properties.                                                             *)

(* What a snapshot says of a path: its tracked file, its carried one, or none. *)
Recorded(s, p) == IF p \in DOMAIN s.tracked THEN s.tracked[p]
                  ELSE IF p \in DOMAIN s.carried THEN s.carried[p] ELSE None

(* When status reports the tree clean, be it in the middle of a switch or after
   one that died, every file that neither the rules nor the last build take out
   of version control is the one HEAD's commit records; only a carried file may
   be missing. *)
CleanMeansHead ==
    ~worktreeDirty =>
        \A p \in Path \ snapshotExclusion(disk, built) :
            \/ disk[p] = Recorded(branch[head], p)
            \/ disk[p] = None /\ p \in DOMAIN branch[head].carried
            \/ p \in buildOwnedPaths(disk["lock"]) \ DOMAIN branch[head].carried

(* Unless a write without the instance lock came between, every tip was made
   from one manifest: its lock and the files it carries are of that manifest. *)
FreshSnapshot(s) == s.lock = s.manifest /\ s.carried = Local[s.lock]
CommittedFresh == ~raced => \A b \in Branch : FreshSnapshot(branch[b])

(* The snapshot an operation brings to the tree. *)
Incoming == IF op.name = "merged" THEN op.snapshot ELSE branch[op.to]

Arriving == op.name \in {"switch", "forward", "merged"}

(* When a switch or a merge has made its last write the tree is the commit HEAD
   is about to name: what the commit lists and its own rules do not exclude is
   there, and what HEAD's commit listed and this one does not is gone, save what
   either side's rules exclude. *)
Arrives ==
    (Arriving /\ todo = <<>> /\ ~raced) =>
        /\ disk["manifest"] = Incoming.manifest /\ disk["lock"] = Incoming.lock
        /\ \A p \in Listed(Incoming) \ (DOMAIN Incoming.tracked \cap targetExclusion(Incoming)) :
              disk[p] = Recorded(Incoming, p)
        /\ \A p \in Listed(branch[head]) \ Listed(Incoming) :
              disk[p] = None \/ p \in op.spared \cup targetExclusion(Incoming)

(* Whoever merges, an edit made on one branch only is in the merge: theirs when
   HEAD's commit still has the file of the base, and the reverse.  (The tree was
   clean, and no build owns the path.) *)
Keeps(p, mine, other) ==
    (/\ Recorded(mine, p) # Recorded(base, p) /\ Recorded(mine, p) # None
     /\ Recorded(other, p) = Recorded(base, p))
        => Recorded(op.snapshot, p) = Recorded(mine, p)

MergeKeepsEdits ==
    (op.name = "merged" /\ op.clean /\ ~raced) =>
        \A p \in Path \ UNION {buildOwnedPaths(v) : v \in Version} :
            /\ Keeps(p, branch[op.to], branch[head])
            /\ Keeps(p, branch[head], branch[op.to])

(* A switch overwrites or removes nothing the user could lose: what it changes
   is what one of the two commits has for the file, tracked or carried.  Out of
   its sight are the files the rules or the locks take out of version control
   and, where no snapshot could be made of the tree, all of them; even there it
   changes no file but the two slots and what one of the two commits lists. *)
Holds(s, f, x) ==
    \/ f \in Slot /\ x \in {s.manifest, s.lock}
    \/ \E files \in {s.carried, s.tracked} : f \in DOMAIN files /\ files[f] = x

Lists(s) == Slot \cup Listed(s)

NothingUnsavedLost ==
    [][(op.name = "switch" /\ ~raced') =>
          \A f \in File : disk'[f] # disk[f] =>
              \/ disk[f] = None
              \/ Holds(branch[head], f, disk[f]) \/ Holds(branch[op.to], f, disk[f])
              \/ f \notin op.seen /\ f \in Lists(branch[head]) \cup Lists(branch[op.to])]_vars

(* A path the user's rules exclude when an operation begins is not removed by it,
   whichever commit tracked it; a carried file is the build's, not the user's. *)
IgnoredKept ==
    [][(Arriving /\ todo # <<>>) =>
          \A p \in op.spared : disk'[p] = None =>
              disk[p] = None \/ p \in DOMAIN branch[head].carried]_vars
=============================================================================
