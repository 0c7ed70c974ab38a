---------------------------- MODULE InstanceBuild ----------------------------
(***************************************************************************)
(* A build of one instance (buildInstance in src/build/pipeline.ts, called *)
(* by Anvil.build under the instance lock): read anvil.lock and            *)
(* refs/built, plan the delta, stage it, swap it in, record refs/built.    *)
(* The swap is atomic here; JournaledSwap models how it comes to be.  The  *)
(* objects that an asset index names are the exception: they are copied    *)
(* straight into the instance, before the swap, and never removed; what    *)
(* .anvilignore protects is not asked for them.                            *)
(* anvil.lock has no variable: its writers are free to change it whenever  *)
(* no build is reading it, so each build plans for any lock.               *)
(***************************************************************************)
EXTENDS LockDelta

CONSTANTS
    Lock,        \* the locks that `anvil lock`, a switch or a pull may write
    Ignorable,   \* what .anvilignore may protect: paths and asset objects
    UserPath,    \* paths where the user may already have a file
    NeverBuilt,  \* refs/built does not exist
    UserBytes,   \* what a file the user put in the instance holds
    Object,      \* asset objects
    assetHashes, \* [Hash -> the objects that the asset index of that hash names]
    Trouble      \* "killed": the process may die between swap and refs/built;
                 \* "torn": it may die while it copies an object;
                 \* "ignore": .anvilignore is edited

ASSUME BuildAssumption ==
    /\ \A l \in Lock : l \subseteq Package /\ WellFormed(l) /\ l # NeverBuilt
    /\ UserPath \subseteq Path /\ Ignorable \subseteq SUBSET (Path \cup Object)
    /\ Path \cap Object = {}
    /\ UserBytes \notin Hash
    /\ assetHashes \in [Hash -> SUBSET Object]
    /\ \A l \in Lock : \A p \in l : assetHashes[p.hash] # {} => p.method = "asset-tree"
    /\ Trouble \subseteq {"killed", "torn", "ignore"}

VARIABLES
    built,   \* .anvil/refs/built, as it was written
    tree,    \* what the instance holds at each path
    ignore,  \* what .anvilignore protects
    pc,      \* "idle", "planned" (delta staged and verified) or "swapped"
    next,    \* the lock being built
    prev,    \* the previous lock the build was planned against
    objects, \* [Object -> "absent", "torn" or "whole"], assets/objects
    parted,  \* a build has been killed after its swap, or .anvilignore edited
    cut      \* a build has been killed while it copied an object

plan == <<next, prev>>
pool == <<objects, cut>>
vars == <<built, tree, ignore, pc, plan, pool, parted>>

Init ==
    /\ built = NeverBuilt
    /\ tree \in [Path -> {{}, {UserBytes}}]
    /\ \A t \in Path \ UserPath : tree[t] = {}
    /\ ignore = {}
    /\ pc = "idle"
    /\ next = {} /\ prev = {}
    /\ objects \in [Object -> {"absent", "whole"}]
    /\ parted = FALSE /\ cut = FALSE

EditIgnore ==
    /\ "ignore" \in Trouble
    /\ pc = "idle"
    /\ ignore' \in Ignorable
    /\ parted' = TRUE
    /\ UNCHANGED <<built, tree, pc, plan, pool>>

(* Variant: no incremental baseline. *)
readBuiltLockNone(b) == {}

readBuiltLock(b) == IF b = NeverBuilt THEN {} ELSE ReadBack(b)

(* Preflight, and the delta. *)
Plan(lock) ==
    /\ pc = "idle"
    /\ NoPlacementCollision(lock)
    /\ next' = lock
    /\ prev' = readBuiltLock(built)
    /\ pc' = "planned"
    /\ UNCHANGED <<built, tree, ignore, pool, parted>>

Forgotten == next' = {} /\ prev' = {} /\ pc' = "idle"

(* A missing object, a bad hash, a full disk, a kill before the commit line: *)
(* the swap is not done, or rolled back; objects already copied stay.        *)
Fail ==
    /\ pc = "planned"
    /\ Forgotten
    /\ UNCHANGED <<built, tree, ignore, pool, parted>>

(* Variant: an object that exists is copied again. *)
LackingOrNot(p, o) ==
    pc = "planned" /\ p \in install(prev, next) /\ o \in assetHashes[p.hash]

(* An object that an index of the delta lacks; one that exists is taken for  *)
(* what it should be.                                                        *)
Lacking(p, o) ==
    /\ pc = "planned" /\ p \in install(prev, next)
    /\ o \in assetHashes[p.hash] /\ objects[o] = "absent"

materializeObject(p, o) ==
    /\ Lacking(p, o)
    /\ objects' = [objects EXCEPT ![o] = "whole"]
    /\ UNCHANGED <<built, tree, ignore, pc, plan, parted, cut>>

(* Killed in the copy, which is made in place and not by a rename. *)
KillInCopy(p, o) ==
    /\ "torn" \in Trouble
    /\ Lacking(p, o)
    /\ objects' = [objects EXCEPT ![o] = "torn"]
    /\ cut' = TRUE
    /\ Forgotten
    /\ UNCHANGED <<built, tree, ignore, parted>>

(* Variant: the index is staged whatever objects there are. *)
placedBare(p) == TRUE

(* An asset index is staged once its objects are there; what else a package *)
(* is made of is private to the stage.                                      *)
placed(p) == \A o \in assetHashes[p.hash] : objects[o] # "absent"

(* Variant: .anvilignore is not consulted by the swap. *)
ProtectedNone == {}

Protected == ignore

(* verifyStage, and the swap. *)
Swap ==
    /\ pc = "planned" /\ \A p \in install(prev, next) : placed(p)
    /\ tree' = Swapped(tree, prev, next, Protected)
    /\ pc' = "swapped"
    /\ UNCHANGED <<built, ignore, plan, pool, parted>>

(* Variant: the lock is added to what refs/built holds. *)
writeBuiltLockMerged ==
    /\ pc = "swapped"
    /\ built' = next \cup prev
    /\ Forgotten
    /\ UNCHANGED <<tree, ignore, pool, parted>>

writeBuiltLock ==
    /\ pc = "swapped"
    /\ built' = next
    /\ Forgotten
    /\ UNCHANGED <<tree, ignore, pool, parted>>

(* Killed, or refs/built cannot be written: the swap is committed, so
   recovery keeps the new tree. *)
KillAfterSwap ==
    /\ "killed" \in Trouble
    /\ pc = "swapped"
    /\ Forgotten
    /\ parted' = TRUE
    /\ UNCHANGED <<built, tree, ignore, pool>>

Next ==
    \/ \E lock \in Lock : Plan(lock)
    \/ \E p \in next, o \in Object : materializeObject(p, o) \/ KillInCopy(p, o)
    \/ EditIgnore \/ Fail \/ Swap \/ writeBuiltLock \/ KillAfterSwap

Spec == Init /\ [][Next]_vars

(* What `anvil verify` reports: the linked files and the asset indexes whose *)
(* bytes are not those the built lock pins, and the indexes some object of   *)
(* which is missing or torn.                                                 *)
hashMatches(p) == \A t \in p.targets : tree[t] = {p.hash}
unmaterializedAssets(p) == {o \in assetHashes[p.hash] : objects[o] # "whole"}

verify ==
    {p \in readBuiltLock(built) :
        /\ p.method \in {"link", "asset-tree"}
        /\ ~hashMatches(p) \/ unmaterializedAssets(p) # {}}

-----------------------------------------------------------------------------
(* Properties.                                                             *)

(* What path t holds is what the lock places there; where it places nothing, *)
(* nothing that a build has put there.                                       *)
Agrees(t, lock) ==
    IF t \in targetsOf(lock) THEN tree[t] = Materialize(lock)[t]
    ELSE tree[t] \subseteq {UserBytes}

(* refs/built is the record of the lock the current instance tree was built *)
(* from: between builds each path agrees with it, until a build is killed   *)
(* after its swap or .anvilignore is edited.                                *)
BuiltDescribesTree ==
    ~parted /\ pc # "swapped" => \A t \in Path : Agrees(t, readBuiltLock(built))

(* A build installs the instance its lock describes, whatever was built     *)
(* before: each path agrees with the lock once the swap is done.            *)
BuildMatchesLock ==
    pc = "swapped" => \A t \in Path \ ignore : Agrees(t, next)

(* So it does through any sequence of builds, failures and locks, until a   *)
(* build is killed after its swap or .anvilignore is edited.                *)
MatchesUntilParted == ~parted => BuildMatchesLock

(* A launcher never observes an index without the objects it references, in  *)
(* the middle of a build or after one that failed, until a build is killed   *)
(* in the copy of an object.                                                 *)
LiveIndexWhole ==
    ~cut => \A t \in Path, h \in Hash :
               h \in tree[t] => \A o \in assetHashes[h] : objects[o] = "whole"

(* What builds have made, verify finds in order: the delta, which installs   *)
(* only what changed, leaves nothing that the full list of the lock misses.  *)
BuildsVerify == pc # "swapped" /\ ~parted /\ ~cut => verify = {}

(* Nothing that lies where .anvilignore protects is moved, replaced or lost, *)
(* whatever is built, killed or edited: the swap leaves such a path alone,   *)
(* and all that is created there is an absent object of an index in the lock *)
(* being built (the copies do not ask .anvilignore).                         *)
ProtectedKept ==
    [][/\ \A t \in ignore \cap Path : tree'[t] = tree[t]
       /\ \A o \in ignore \cap Object : objects'[o] # objects[o] =>
              objects[o] = "absent" /\ \E p \in next : o \in assetHashes[p.hash]]_vars

(* Rebuilding the lock that is already built installs nothing. *)
RebuildIsNoOp == pc = "planned" /\ next = built => install(prev, next) = {}
=============================================================================
