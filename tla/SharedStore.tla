---------------------------- MODULE SharedStore ----------------------------
(***************************************************************************)
(* The content store that the instances of a machine share: builds that    *)
(* admit objects, record refs/built and register in instances.toml         *)
(* (Anvil.build, ContentStore.putStream, #registerInstance), against       *)
(* Anvil.gc, which marks from the registered instances and sweeps.         *)
(*                                                                         *)
(* An actor is a builder or a collector of an instance, a process of its   *)
(* own.  Both file locks are exclusive here; FileLock models how.  An      *)
(* operation that fails or dies lets go of its locks: FileLock again.      *)
(***************************************************************************)
EXTENDS FiniteSets

CONSTANTS
    Instance,  \* instance directories that use the store
    Versioned, \* those the user commits
    Object,    \* content hashes
    Pinned,    \* those that a lock may pin
    leavesOf,  \* [Object -> the objects that an asset index or JRE manifest names]
    Free,      \* nobody holds the lock, nothing is being fetched
    Trouble    \* "busy": a build dies, or times out on the store lock, before
               \* it has registered; "sync": a clone or pull runs the build

ASSUME StoreAssumption ==
    /\ Free \notin Instance \cup Object \cup ({"build", "gc"} \X Instance)
    /\ Versioned \subseteq Instance
    /\ Pinned \subseteq Object /\ leavesOf \in [Object -> SUBSET Object]
    /\ Trouble \subseteq {"busy", "sync"}

Actor == {"build", "gc"} \X Instance
builder(i) == <<"build", i>>
collector(i) == <<"gc", i>>

(* What a lock pins; an instance that was never built pins nothing. *)
Pins == SUBSET Pinned

(* The leaf objects of the trees among some packages. *)
treeLeaves(pins) == UNION {leavesOf[p] : p \in pins}
Whole(pins) == pins \cup treeLeaves(pins)

VARIABLES
    objects,    \* objects in the store
    young,      \* those whose mtime is within the grace window
    tmp,        \* builders whose temp file is in tmp/
    exists,     \* instance directories that exist
    built,      \* [Instance -> Pins], .anvil/refs/built
    history,    \* [Instance -> Pins], what the reachable commits' locks pin
    registry,   \* instances.toml
    storeLock,  \* the actor that holds the store lock
    instLock,   \* [Instance -> the actor that holds .anvil/lock]
    pc,         \* where each actor is
    want,       \* [Instance -> Pins], the lock being built
    got,        \* [Instance -> SUBSET Object], what Acquirer.ensure has ensured of it
    fetching,   \* [Instance -> the object being fetched]
    view,       \* [Actor -> the registry as it read it]
    roots,      \* objects the collection in progress has marked
    todo,       \* what that collection has yet to look at: instances, objects
    skipped,    \* instances a build of which has ended without registering
    bereft      \* those that lost an object to a collection while they built

held == <<storeLock, instLock>>
building == <<want, got, fetching, tmp>>
marking == <<roots, todo>>
exempt == <<skipped, bereft>>
vars == <<objects, young, tmp, exists, built, history, registry, storeLock, instLock,
          pc, want, got, fetching, view, roots, todo, exempt>>

Goto(a, label) == pc' = [pc EXCEPT ![a] = label]

Init ==
    /\ objects = {} /\ young = {} /\ tmp = {}
    /\ exists = Instance
    /\ built = [i \in Instance |-> {}]
    /\ history = [i \in Instance |-> {}]
    /\ registry = {}
    /\ storeLock = Free
    /\ instLock = [i \in Instance |-> Free]
    /\ pc = [a \in Actor |-> "idle"]
    /\ want = [i \in Instance |-> {}]
    /\ got = [i \in Instance |-> {}]
    /\ fetching = [i \in Instance |-> Free]
    /\ view = [a \in Actor |-> {}]
    /\ roots = {} /\ todo = {} /\ skipped = {} /\ bereft = {}

TakeInstLock(a, i) == instLock[i] = Free /\ instLock' = [instLock EXCEPT ![i] = a]
DropInstLock(i) == instLock' = [instLock EXCEPT ![i] = Free]

TakeStoreLock(a) == storeLock = Free /\ storeLock' = a
DropStoreLock == storeLock' = Free

-----------------------------------------------------------------------------
(* A build.                                                                *)

(* buildInstance begins by reaping the temp files, whosever they are; only  *)
(* the delta against refs/built is ensured.                                 *)
StartBuild(i, lock) ==
    LET b == builder(i)
    IN  /\ i \in exists /\ pc[b] = "idle" /\ lock # {}
        /\ TakeInstLock(b, i)
        /\ Goto(b, "acquire")
        /\ tmp' = {}
        /\ want' = [want EXCEPT ![i] = lock]
        /\ got' = [got EXCEPT ![i] = Whole(built[i] \cap lock)]
        /\ UNCHANGED <<objects, young, exists, built, history, registry, storeLock,
                       fetching, view, marking, exempt>>

(* What is ensured next: an object the lock pins, or a leaf that a manifest, *)
(* ensured before it and read from the store, names.                         *)
bringNext(i) ==
    (want[i] \cup treeLeaves(want[i] \cap got[i] \cap objects)) \ got[i]

ensuring(i, o) ==
    pc[builder(i)] = "acquire" /\ fetching[i] = Free /\ o \in bringNext(i)

Settled(i) ==
    /\ want' = [want EXCEPT ![i] = {}]
    /\ got' = [got EXCEPT ![i] = {}]
    /\ fetching' = [fetching EXCEPT ![i] = Free]

(* The build is over before its swap.  Its temp stays until somebody reaps it. *)
Rejected(i) ==
    /\ DropInstLock(i)
    /\ Goto(builder(i), "idle")
    /\ Settled(i)
    /\ UNCHANGED <<objects, young, tmp, exists, built, history, registry, storeLock, view,
                   marking, exempt>>

(* The object is there: its mtime is left alone. *)
Found(i, o) ==
    /\ ensuring(i, o) /\ o \in objects
    /\ got' = [got EXCEPT ![i] = @ \cup {o}]
    /\ UNCHANGED <<objects, young, tmp, exists, built, history, registry, held, pc,
                   want, fetching, view, marking, exempt>>

WriteTemp(i, o) ==
    /\ ensuring(i, o) /\ o \notin objects
    /\ fetching' = [fetching EXCEPT ![i] = o]
    /\ tmp' = tmp \cup {i}
    /\ UNCHANGED <<objects, young, exists, built, history, registry, held, pc, want, got,
                   view, marking, exempt>>

(* The end of putStream: rename the temp into place, or dedup against an    *)
(* object that has landed meanwhile and re-arm its grace window.            *)
Admit(i) ==
    LET o == fetching[i]
    IN  /\ o # Free
        /\ o \in objects \/ i \in tmp
        /\ objects' = objects \cup {o}
        /\ young' = young \cup {o}
        /\ tmp' = tmp \ {i}
        /\ got' = [got EXCEPT ![i] = @ \cup {o}]
        /\ fetching' = [fetching EXCEPT ![i] = Free]
        /\ UNCHANGED <<exists, built, history, registry, held, pc, want, view, marking, exempt>>

(* A build that is to fetch nothing stops at the first object it misses. *)
Missing(i, o) ==
    /\ ensuring(i, o) /\ o \notin objects
    /\ Rejected(i)

(* Everything is ensured, and the objects of the delta are linked or copied *)
(* out of the store while they are there.                                   *)
Stage(i) ==
    /\ pc[builder(i)] = "acquire" /\ fetching[i] = Free
    /\ got[i] = Whole(want[i])
    /\ Whole(want[i] \ built[i]) \subseteq objects
    /\ Goto(builder(i), "staged")
    /\ UNCHANGED <<objects, young, exists, built, history, registry, held, building, view,
                   marking, exempt>>

(* The temp file is gone, no link can be made, the process dies: the build  *)
(* rejects before its swap.                                                 *)
FailBuild(i) ==
    /\ pc[builder(i)] \in {"acquire", "staged"}
    /\ Rejected(i)

(* Variant: the registration is nested inside the instance lock. *)
RecordNested(i) ==
    /\ pc[builder(i)] = "staged"
    /\ built' = [built EXCEPT ![i] = want[i]]
    /\ Settled(i)
    /\ Goto(builder(i), "recorded")
    /\ UNCHANGED <<objects, young, tmp, exists, history, registry, held, view, marking, exempt>>

(* The swap and writeBuiltLock; then the instance lock is released. *)
Record(i) ==
    /\ pc[builder(i)] = "staged"
    /\ built' = [built EXCEPT ![i] = want[i]]
    /\ DropInstLock(i)
    /\ Settled(i)
    /\ UNCHANGED bereft
    /\ \/ Goto(builder(i), "recorded") /\ UNCHANGED skipped
       \/ /\ "sync" \in Trouble
          /\ Goto(builder(i), "idle")
          /\ skipped' = skipped \cup {i}
    /\ UNCHANGED <<objects, young, tmp, exists, history, registry, storeLock, view, marking>>

(* Variant: instances.toml is read and written outside the store lock. *)
ReadRegistryUnlocked(i) ==
    /\ pc[builder(i)] = "recorded"
    /\ view' = [view EXCEPT ![builder(i)] = registry]
    /\ Goto(builder(i), "registering")
    /\ UNCHANGED <<objects, young, exists, built, history, registry, held, building, marking, exempt>>

(* #registerInstance, in a critical section of its own. *)
ReadRegistry(i) ==
    /\ pc[builder(i)] = "recorded"
    /\ TakeStoreLock(builder(i))
    /\ view' = [view EXCEPT ![builder(i)] = registry]
    /\ Goto(builder(i), "registering")
    /\ UNCHANGED <<objects, young, exists, built, history, registry, instLock, building,
                   marking, exempt>>

Register(i) ==
    /\ pc[builder(i)] = "registering"
    /\ registry' = view[builder(i)] \cup {i}
    /\ view' = [view EXCEPT ![builder(i)] = {}]
    /\ DropStoreLock
    /\ Goto(builder(i), "idle")
    /\ UNCHANGED <<objects, young, exists, built, history, instLock, building, marking,
                   exempt>>

(* LockBusy on the store lock, or the process dies: the built instance is   *)
(* not registered.                                                          *)
Unregistered(i) ==
    /\ "busy" \in Trouble
    /\ pc[builder(i)] = "recorded"
    /\ Goto(builder(i), "idle")
    /\ skipped' = skipped \cup {i} /\ UNCHANGED bereft
    /\ UNCHANGED <<objects, young, exists, built, history, registry, held, building, view,
                   marking>>

-----------------------------------------------------------------------------
(* A collection: the store lock, then the instance lock.                   *)

StartGc(i) ==
    LET g == collector(i)
    IN  /\ i \in exists /\ pc[g] = "idle"
        /\ TakeStoreLock(g)
        /\ Goto(g, "locking")
        /\ UNCHANGED <<objects, young, exists, built, history, registry, instLock, building,
                       view, marking, exempt>>

(* Variant: the leaves of a tree are not roots. *)
collectRootsFlat(lock) == lock

(* The leaves of a tree whose manifest the store lacks cannot be told. *)
collectRoots(lock) == lock \cup treeLeaves(lock \cap objects)

(* Variant: this instance's lock is not taken. *)
MarkOwnUnlocked(i) ==
    LET g == collector(i)
    IN  /\ pc[g] = "locking"
        /\ view' = [view EXCEPT ![g] = registry]
        /\ roots' = collectRoots(history[i]) \cup collectRoots(built[i])
        /\ todo' = registry \ {i}
        /\ Goto(g, "marking")
        /\ UNCHANGED <<objects, young, exists, built, history, registry, held, building, exempt>>

(* Read the registry, then mark from this instance's history and build. *)
MarkOwn(i) ==
    LET g == collector(i)
    IN  /\ pc[g] = "locking"
        /\ TakeInstLock(g, i)
        /\ view' = [view EXCEPT ![g] = registry]
        /\ roots' = collectRoots(history[i]) \cup collectRoots(built[i])
        /\ todo' = registry \ {i}
        /\ Goto(g, "marking")
        /\ UNCHANGED <<objects, young, exists, built, history, registry, storeLock, building, exempt>>

(* A registered instance that still exists: its refs/built is read. *)
MarkOther(i, j) ==
    /\ pc[collector(i)] = "marking" /\ j \in todo
    /\ j \in exists
    /\ roots' = roots \cup collectRoots(built[j])
    /\ todo' = todo \ {j}
    /\ UNCHANGED <<objects, young, exists, built, history, registry, held, pc, building, view, exempt>>

(* One whose directory is gone: its entry is dropped. *)
PruneOther(i, j) ==
    LET g == collector(i)
    IN  /\ pc[g] = "marking" /\ j \in todo
        /\ j \notin exists
        /\ view' = [view EXCEPT ![g] = @ \ {j}]
        /\ todo' = todo \ {j}
        /\ UNCHANGED <<objects, young, exists, built, history, registry, held, pc, building,
                       roots, exempt>>

(* When an entry was dropped or this instance is missing, the registry is    *)
(* written back: what survives, and this instance if it is built.           *)
Reconcile(i) ==
    LET g == collector(i)
    IN  /\ pc[g] = "marking" /\ todo = {}
        /\ registry' = IF view[g] # registry \/ (built[i] # {} /\ i \notin registry)
                       THEN (view[g] \ {i}) \cup {j \in {i} : built[i] # {}}
                       ELSE registry
        /\ todo' = Object
        /\ Goto(g, "sweeping")
        /\ UNCHANGED <<objects, young, exists, built, history, held, building, view, roots, exempt>>

Sweep(i, o) ==
    /\ pc[collector(i)] = "sweeping" /\ o \in todo
    /\ objects' = IF o \in roots \cup young THEN objects ELSE objects \ {o}
    /\ bereft' = bereft \cup {j \in Instance : /\ o \in objects \ objects'
                                             /\ pc[builder(j)] # "idle"
                                             /\ o \in Whole(want[j] \cup built[j])}
    /\ todo' = todo \ {o}
    /\ UNCHANGED <<young, exists, built, history, registry, held, pc, building, view, roots, skipped>>

FinishGc(i) ==
    /\ pc[collector(i)] = "sweeping" /\ todo = {}
    /\ DropStoreLock /\ DropInstLock(i)
    /\ roots' = {}
    /\ view' = [view EXCEPT ![collector(i)] = {}]
    /\ Goto(collector(i), "idle")
    /\ UNCHANGED <<objects, young, exists, built, history, registry, building, todo, exempt>>

(* LockBusy on the instance lock, a file that does not parse, a death: the  *)
(* collection ends where it is, and lets go of what it holds.               *)
StopGc(i) ==
    LET g == collector(i)
    IN  /\ pc[g] # "idle"
        /\ DropStoreLock
        /\ IF pc[g] = "locking" THEN UNCHANGED instLock ELSE DropInstLock(i)
        /\ roots' = {} /\ todo' = {}
        /\ view' = [view EXCEPT ![g] = {}]
        /\ Goto(g, "idle")
        /\ UNCHANGED <<objects, young, exists, built, history, registry, building, exempt>>

-----------------------------------------------------------------------------
(* Everything else.                                                        *)

(* `anvil commit`, under the instance lock. *)
Commit(i, lock) ==
    /\ i \in exists /\ instLock[i] = Free
    /\ history' = [history EXCEPT ![i] = @ \cup lock]
    /\ UNCHANGED <<objects, young, exists, built, registry, held, pc, building, view, marking, exempt>>

(* The grace window of an object runs out. *)
Age(o) ==
    /\ o \in young
    /\ young' = young \ {o}
    /\ UNCHANGED <<objects, exists, built, history, registry, held, pc, building, view, marking, exempt>>

(* The user deletes an instance that nothing is running on. *)
Delete(i) ==
    /\ i \in exists
    /\ pc[builder(i)] = "idle" /\ pc[collector(i)] = "idle"
    /\ exists' = exists \ {i}
    /\ skipped' = skipped \ {i} /\ bereft' = bereft \ {i}
    /\ built' = [built EXCEPT ![i] = {}]
    /\ history' = [history EXCEPT ![i] = {}]
    /\ UNCHANGED <<objects, young, registry, held, pc, building, view, marking>>

Build(i) ==
    \/ \E lock \in Pins : StartBuild(i, lock)
    \/ \E o \in Object : Found(i, o) \/ WriteTemp(i, o) \/ Missing(i, o)
    \/ Admit(i) \/ Stage(i) \/ FailBuild(i) \/ Record(i)
    \/ ReadRegistry(i) \/ Register(i) \/ Unregistered(i)

Gc(i) ==
    \/ StartGc(i) \/ MarkOwn(i) \/ Reconcile(i) \/ FinishGc(i) \/ StopGc(i)
    \/ \E j \in Instance : MarkOther(i, j) \/ PruneOther(i, j)
    \/ \E o \in Object : Sweep(i, o)

Next ==
    \/ \E i \in Instance : Build(i) \/ Gc(i) \/ Delete(i)
    \/ \E i \in Versioned, lock \in Pins : Commit(i, lock)
    \/ \E o \in Object : Age(o)

Spec == Init /\ [][Next]_vars

-----------------------------------------------------------------------------
(* Properties.                                                             *)

Registered == registry \cap exists

(* What a step takes out of the store. *)
Removed == objects \ objects'

(* A collection takes nothing that refs/built of a registered instance      *)
(* names, nor the leaves of its trees, as long as no build of that instance *)
(* is under way: the build is only over once it has had the store lock,     *)
(* unless it ended without it.  The leaves are not told from a manifest     *)
(* that a collection has taken in the middle of a build.                    *)
SettledKept ==
    [][\A i \in Registered \ skipped :
           pc[builder(i)] = "idle" =>
               /\ built[i] \cap Removed = {}
               /\ i \notin bereft => treeLeaves(built[i]) \cap Removed = {}]_vars

(* The same whether or not a build of the instance is under way. *)
BuiltKept == [][\A i \in Registered : built[i] \cap Removed = {}]_vars

(* A collection takes nothing that its own instance's history pins, though  *)
(* commits go on meanwhile.                                                 *)
OwnHistoryKept ==
    [][\A i \in Instance : pc[collector(i)] = "sweeping" => history[i] \cap Removed = {}]_vars

(* No collection takes what the history of a registered instance pins. *)
HistoryKept == [][\A i \in Registered : history[i] \cap Removed = {}]_vars

(* Every instance that has built against the store is in the registry, but  *)
(* those a build of which died, timed out or was a pull's.                  *)
BuilderRegistered ==
    \A i \in exists \ skipped :
        built[i] # {} /\ pc[builder(i)] = "idle" => i \in registry

(* A temp file stays while the build that writes it goes on. *)
LiveTempKept ==
    [][\A i \in tmp : fetching[i] # Free /\ fetching'[i] = fetching[i] => i \in tmp']_vars

(* a cannot go on before b lets go of a lock: a built instance that is to be *)
(* registered waits for the store lock, a collection that has the store lock *)
(* for its instance's.                                                       *)
waitsFor(a, b) ==
    \E i \in Instance :
        \/ a = builder(i) /\ pc[a] = "recorded" /\ storeLock = b
        \/ a = collector(i) /\ pc[a] = "locking" /\ instLock[i] = b

(* Builds and collections never deadlock over the two locks: a chain of      *)
(* waits has at most two links, from a registration by way of a collection   *)
(* to a build in its critical section, and whoever is at its end waits for   *)
(* nobody.  So no wait closes a circle, and no time-out is needed to open it.*)
WaitsEnd ==
    \A a, b, c, d \in Actor : ~(waitsFor(a, b) /\ waitsFor(b, c) /\ waitsFor(c, d))
=============================================================================
