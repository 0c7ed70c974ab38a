-------------------------- MODULE SharedStoreProofs --------------------------
(***************************************************************************)
(* What builds and collections keep, for any number of instances, objects  *)
(* and trees, however builds fail and whatever runs at once: an instance   *)
(* all of whose builds registered is in the registry, and a collection     *)
(* takes nothing that such an instance or its own history needs.           *)
(***************************************************************************)
EXTENDS SharedStore, TLAPS

BuilderAt == {"idle", "acquire", "staged", "recorded", "registering"}
CollectorAt == {"idle", "locking", "marking", "sweeping"}

(* The variables the argument reads.                                       *)
Shape ==
    /\ pc \in [Actor -> BuilderAt \cup CollectorAt]
    /\ \A i \in Instance : pc[builder(i)] \in BuilderAt /\ pc[collector(i)] \in CollectorAt
    /\ instLock \in [Instance -> Actor \cup {Free}]
    /\ view \in [Actor -> SUBSET Instance]
    /\ built \in [Instance -> SUBSET Object]
    /\ history \in [Instance -> SUBSET Object]
    /\ want \in [Instance -> SUBSET Object]
    /\ exists \subseteq Instance /\ registry \subseteq Instance

(* Who holds which lock is told by where it is.                            *)
Locks ==
    \A i \in Instance :
        /\ pc[builder(i)] = "registering" <=> storeLock = builder(i)
        /\ pc[collector(i)] # "idle" <=> storeLock = collector(i)
        /\ pc[collector(i)] \in {"marking", "sweeping"} <=> instLock[i] = collector(i)
        /\ pc[builder(i)] \in {"acquire", "staged"} <=> instLock[i] = builder(i)

(* A registry that was read under the store lock is still what it was; what*)
(* a collection has dropped from it no longer exists.                      *)
Views ==
    \A i \in Instance :
        /\ pc[builder(i)] = "registering" => view[builder(i)] = registry
        /\ pc[collector(i)] = "marking" =>
              /\ view[collector(i)] \subseteq registry
              /\ (registry \ view[collector(i)]) \cap exists = {}

(* The last build of the instance does not wait to be registered.          *)
Quiet(i) == pc[builder(i)] \notin {"recorded", "registering"}

InRegistry ==
    \A i \in exists \ skipped : built[i] # {} /\ Quiet(i) => i \in registry

(* What refs/built names, or is about to, is in the store.                 *)
InStore ==
    \A i \in exists \ (skipped \cup bereft) :
        /\ built[i] \subseteq objects
        /\ pc[builder(i)] = "staged" => want[i] \subseteq objects

(* A collection has marked what it has to.                                 *)
Rooted(i) ==
    i \in exists \ skipped /\ Quiet(i) =>
        /\ built[i] \subseteq roots
        /\ i \notin bereft => treeLeaves(built[i]) \subseteq roots
Marked ==
    \A k \in Instance :
        /\ pc[collector(k)] = "marking" => \A i \in (registry \ todo) \cup {k} : Rooted(i)
        /\ pc[collector(k)] = "sweeping" => \A i \in registry : Rooted(i)
OwnMarked ==
    \A k \in Instance :
        pc[collector(k)] \in {"marking", "sweeping"} => history[k] \subseteq roots

Inv == Shape /\ Locks /\ Views /\ InRegistry /\ InStore /\ Marked /\ OwnMarked

-----------------------------------------------------------------------------
LEMMA Actors ==
    /\ Free \notin Actor
    /\ \A i \in Instance : builder(i) \in Actor /\ collector(i) \in Actor
    /\ \A i, j \in Instance :
          /\ builder(i) # collector(j)
          /\ builder(i) = builder(j) => i = j
          /\ collector(i) = collector(j) => i = j
    BY StoreAssumption DEF Actor, builder, collector

(* Where everybody is after one actor has moved.                           *)
LEMMA Moved ==
    ASSUME Shape, NEW a \in Actor, NEW label, Goto(a, label)
    PROVE  /\ pc'[a] = label
           /\ \A b \in Actor \ {a} : pc'[b] = pc[b]
           /\ DOMAIN pc' = Actor
    BY DEF Shape, Goto

(* While a collection runs, it alone has the store lock.                   *)
LEMMA OneCollector ==
    ASSUME Inv, NEW k \in Instance, pc[collector(k)] # "idle"
    PROVE  /\ \A j \in Instance : pc[collector(j)] # "idle" => j = k
           /\ \A j \in Instance : pc[builder(j)] # "registering"
    BY Actors DEF Inv, Locks

LEMMA LeavesGrow ==
    ASSUME NEW few, NEW many, few \subseteq many
    PROVE  treeLeaves(few) \subseteq treeLeaves(many)
    BY DEF treeLeaves

(* Nothing the argument reads changes but what the store has more of.      *)
LEMMA EnsureKeeps ==
    ASSUME Inv, objects \subseteq objects',
           UNCHANGED <<exists, built, history, registry, held, pc, want, view, marking, exempt>>
    PROVE  Inv'
<1>1. Shape' /\ Locks' /\ Views' /\ InRegistry'
    BY DEF Inv, Shape, Locks, Views, InRegistry, Quiet, held, exempt
<1>2. InStore'
    BY DEF Inv, InStore, exempt
<1>3. Marked' /\ OwnMarked'
    BY DEF Inv, Marked, OwnMarked, Rooted, Quiet, marking, exempt
<1> QED
    BY <1>1, <1>2, <1>3 DEF Inv

-----------------------------------------------------------------------------
(* Builds.                                                                 *)
LEMMA StartBuildKeeps ==
    ASSUME Inv, NEW i \in Instance, NEW lock \in Pins, StartBuild(i, lock)
    PROVE  Inv'
<1> DEFINE b == builder(i)
<1>1. /\ pc'[b] = "acquire" /\ pc[b] = "idle"
      /\ \A a \in Actor \ {b} : pc'[a] = pc[a]
      /\ DOMAIN pc' = Actor
    BY Actors, Moved DEF Inv, StartBuild
<1>2. /\ instLock[i] = Free /\ instLock'[i] = b
      /\ \A j \in Instance \ {i} : instLock'[j] = instLock[j]
    BY Actors DEF Inv, Shape, StartBuild, TakeInstLock
<1>3. Shape'
    BY <1>1, Actors, StoreAssumption DEF Inv, Shape, StartBuild, TakeInstLock, Goto, BuilderAt, Pins
<1>4. Locks'
    BY <1>1, <1>2, Actors DEF Inv, Locks, StartBuild
<1>5. Views' /\ InRegistry' /\ InStore'
    BY <1>1, Actors DEF Inv, Shape, Views, InRegistry, InStore, Quiet, StartBuild, exempt
<1>6. Marked' /\ OwnMarked'
    BY <1>1, Actors DEF Inv, Shape, Marked, OwnMarked, Rooted, Quiet, StartBuild, marking, exempt
<1> QED
    BY <1>3, <1>4, <1>5, <1>6 DEF Inv

LEMMA StageKeeps ==
    ASSUME Inv, NEW i \in Instance, Stage(i)
    PROVE  Inv'
<1> DEFINE b == builder(i)
<1>1. /\ pc'[b] = "staged" /\ pc[b] = "acquire"
      /\ \A a \in Actor \ {b} : pc'[a] = pc[a]
      /\ DOMAIN pc' = Actor
    BY Actors, Moved DEF Inv, Stage
<1>2. Shape'
    BY <1>1, Actors DEF Inv, Shape, Stage, Goto, BuilderAt, building, held
<1>3. Locks'
    BY <1>1, Actors DEF Inv, Locks, Stage, held
<1>4. Views' /\ InRegistry'
    BY <1>1, Actors DEF Inv, Shape, Views, InRegistry, Quiet, Stage, exempt
<1>5. want[i] \ built[i] \subseteq objects
    BY DEF Stage, Whole
<1>6. InStore'
    BY <1>1, <1>5, Actors DEF Inv, Shape, InStore, Stage, exempt, building
<1>7. Marked' /\ OwnMarked'
    BY <1>1, Actors DEF Inv, Shape, Marked, OwnMarked, Rooted, Quiet, Stage, marking, exempt
<1> QED
    BY <1>2, <1>3, <1>4, <1>6, <1>7 DEF Inv

LEMMA RejectedKeeps ==
    ASSUME Inv, NEW i \in Instance, pc[builder(i)] \in {"acquire", "staged"}, Rejected(i)
    PROVE  Inv'
<1> DEFINE b == builder(i)
<1>1. /\ pc'[b] = "idle"
      /\ \A a \in Actor \ {b} : pc'[a] = pc[a]
      /\ DOMAIN pc' = Actor
    BY Actors, Moved DEF Inv, Rejected
<1>2. /\ instLock[i] = b /\ instLock'[i] = Free
      /\ \A j \in Instance \ {i} : instLock'[j] = instLock[j]
    BY DEF Inv, Shape, Locks, Rejected, DropInstLock
<1>3. Shape'
    BY <1>1, Actors DEF Inv, Shape, Rejected, DropInstLock, Goto, BuilderAt, Settled
<1>4. Locks'
    BY <1>1, <1>2, Actors DEF Inv, Locks, Rejected
<1>5. Views' /\ InRegistry' /\ InStore'
    BY <1>1, Actors DEF Inv, Shape, Views, InRegistry, InStore, Quiet, Rejected, Settled, exempt
<1>6. Marked' /\ OwnMarked'
    BY <1>1, Actors DEF Inv, Shape, Marked, OwnMarked, Rooted, Quiet, Rejected, marking, exempt
<1> QED
    BY <1>3, <1>4, <1>5, <1>6 DEF Inv

(* What is recorded waits to be registered, or is not held to anything.    *)
LEMMA RecordKeeps ==
    ASSUME Inv, NEW i \in Instance, Record(i)
    PROVE  Inv'
<1> DEFINE b == builder(i)
<1>1. /\ pc[b] = "staged"
      /\ pc'[b] \in {"recorded", "idle"}
      /\ \A a \in Actor \ {b} : pc'[a] = pc[a]
      /\ DOMAIN pc' = Actor
    BY Actors, Moved DEF Inv, Record
<1>2. /\ instLock[i] = b /\ instLock'[i] = Free
      /\ \A j \in Instance \ {i} : instLock'[j] = instLock[j]
    BY <1>1 DEF Inv, Shape, Locks, Record, DropInstLock
<1>3. /\ skipped \subseteq skipped'
      /\ \A j \in Instance \ {i} : j \in skipped' => j \in skipped
      /\ pc'[b] = "recorded" \/ i \in skipped'
    BY <1>1, Actors, Moved DEF Inv, Record
<1>4. /\ built'[i] = want[i]
      /\ \A j \in Instance \ {i} : built'[j] = built[j] /\ want'[j] = want[j]
    BY DEF Inv, Shape, Record, Settled
<1>5. Shape'
    BY <1>1, Actors DEF Inv, Shape, Record, DropInstLock, Goto, BuilderAt, Settled
<1>6. Locks'
    BY <1>1, <1>2, Actors DEF Inv, Locks, Record
<1>7. Views'
    BY <1>1, Actors DEF Inv, Views, Record
<1>8. InRegistry'
    BY <1>1, <1>3, <1>4, Actors DEF Inv, Shape, InRegistry, Quiet, Record
<1>9. InStore'
    BY <1>1, <1>3, <1>4, Actors DEF Inv, Shape, InStore, Record
<1>10. \A j \in Instance : Rooted(j) => Rooted(j)'
    BY <1>1, <1>3, <1>4, Actors DEF Rooted, Quiet, Record, marking
<1>11. Marked' /\ OwnMarked'
    BY <1>1, <1>10, Actors DEF Inv, Shape, Marked, OwnMarked, Record, marking
<1> QED
    BY <1>5, <1>6, <1>7, <1>8, <1>9, <1>11 DEF Inv

LEMMA ReadRegistryKeeps ==
    ASSUME Inv, NEW i \in Instance, ReadRegistry(i)
    PROVE  Inv'
<1> DEFINE b == builder(i)
<1>1. /\ pc[b] = "recorded" /\ pc'[b] = "registering"
      /\ \A a \in Actor \ {b} : pc'[a] = pc[a]
      /\ DOMAIN pc' = Actor
    BY Actors, Moved DEF Inv, ReadRegistry
<1>2. /\ storeLock = Free /\ storeLock' = b
      /\ view'[b] = registry
      /\ \A a \in Actor \ {b} : view'[a] = view[a]
    BY Actors DEF Inv, Shape, ReadRegistry, TakeStoreLock
<1>3. Shape'
    BY <1>1, Actors DEF Inv, Shape, ReadRegistry, Goto, BuilderAt, building
<1>4. Locks'
    BY <1>1, <1>2, Actors DEF Inv, Locks, ReadRegistry
<1>5. Views'
    BY <1>1, <1>2, Actors DEF Inv, Views, ReadRegistry
<1>6. InRegistry' /\ InStore'
    BY <1>1, Actors DEF Inv, Shape, InRegistry, InStore, Quiet, ReadRegistry, exempt, building
<1>7. Marked' /\ OwnMarked'
    BY <1>1, Actors DEF Inv, Shape, Marked, OwnMarked, Rooted, Quiet, ReadRegistry, marking, exempt
<1> QED
    BY <1>3, <1>4, <1>5, <1>6, <1>7 DEF Inv

(* No collection is in its critical section, so that none has to have      *)
(* marked what is registered.                                              *)
LEMMA RegisterKeeps ==
    ASSUME Inv, NEW i \in Instance, Register(i)
    PROVE  Inv'
<1> DEFINE b == builder(i)
<1>1. /\ pc[b] = "registering" /\ pc'[b] = "idle"
      /\ \A a \in Actor \ {b} : pc'[a] = pc[a]
      /\ DOMAIN pc' = Actor
    BY Actors, Moved DEF Inv, Register
<1>2. /\ storeLock = b /\ storeLock' = Free
      /\ registry' = registry \cup {i}
      /\ \A a \in Actor \ {b} : view'[a] = view[a]
    BY <1>1 DEF Inv, Shape, Locks, Views, Register, DropStoreLock
<1>3. \A k \in Instance : pc[collector(k)] = "idle" /\ pc'[collector(k)] = "idle"
    BY <1>1, <1>2, Actors DEF Inv, Locks
<1>4. Shape'
    BY <1>1, <1>2, Actors DEF Inv, Shape, Register, Goto, BuilderAt, building
<1>5. Locks'
    BY <1>1, <1>2, Actors DEF Inv, Locks, Register
<1>6. Views'
    BY <1>1, <1>2, <1>3, Actors DEF Inv, Locks, Views
<1>7. InRegistry' /\ InStore'
    BY <1>1, <1>2, Actors DEF Inv, Shape, InRegistry, InStore, Quiet, Register, exempt, building
<1>8. Marked' /\ OwnMarked'
    BY <1>3 DEF Marked, OwnMarked
<1> QED
    BY <1>4, <1>5, <1>6, <1>7, <1>8 DEF Inv

LEMMA UnregisteredKeeps ==
    ASSUME Inv, NEW i \in Instance, Unregistered(i)
    PROVE  Inv'
<1> DEFINE b == builder(i)
<1>1. /\ pc[b] = "recorded" /\ pc'[b] = "idle"
      /\ \A a \in Actor \ {b} : pc'[a] = pc[a]
      /\ DOMAIN pc' = Actor
    BY Actors, Moved DEF Inv, Unregistered
<1>2. Shape'
    BY <1>1, Actors DEF Inv, Shape, Unregistered, Goto, BuilderAt, building, held
<1>3. Locks'
    BY <1>1, Actors DEF Inv, Locks, Unregistered, held
<1>4. Views' /\ InRegistry' /\ InStore'
    BY <1>1, Actors DEF Inv, Shape, Views, InRegistry, InStore, Quiet, Unregistered, building
<1>5. Marked' /\ OwnMarked'
    BY <1>1, Actors DEF Inv, Shape, Marked, OwnMarked, Rooted, Quiet, Unregistered, marking
<1> QED
    BY <1>2, <1>3, <1>4, <1>5 DEF Inv

-----------------------------------------------------------------------------
(* Collections.                                                            *)
LEMMA StartGcKeeps ==
    ASSUME Inv, NEW i \in Instance, StartGc(i)
    PROVE  Inv'
<1> DEFINE g == collector(i)
<1>1. /\ pc[g] = "idle" /\ pc'[g] = "locking"
      /\ \A a \in Actor \ {g} : pc'[a] = pc[a]
      /\ DOMAIN pc' = Actor
    BY Actors, Moved DEF Inv, StartGc
<1>2. storeLock = Free /\ storeLock' = g
    BY DEF StartGc, TakeStoreLock
<1>3. Shape'
    BY <1>1, Actors DEF Inv, Shape, StartGc, Goto, CollectorAt, building
<1>4. Locks'
    BY <1>1, <1>2, Actors DEF Inv, Locks, StartGc
<1>5. Views' /\ InRegistry' /\ InStore'
    BY <1>1, Actors DEF Inv, Shape, Views, InRegistry, InStore, Quiet, StartGc, exempt, building
<1>6. Marked' /\ OwnMarked'
    BY <1>1, Actors DEF Inv, Shape, Marked, OwnMarked, Rooted, Quiet, StartGc, marking, exempt
<1> QED
    BY <1>3, <1>4, <1>5, <1>6 DEF Inv

(* What a lock pins is marked, and its leaves where its manifests are.     *)
LEMMA RootsOf ==
    ASSUME NEW lock
    PROVE  /\ lock \subseteq collectRoots(lock)
           /\ lock \subseteq objects => treeLeaves(lock) \subseteq collectRoots(lock)
<1>1. ASSUME lock \subseteq objects
      PROVE  lock \cap objects = lock
    BY <1>1
<1> QED
    BY <1>1 DEF collectRoots

LEMMA MarkOwnKeeps ==
    ASSUME Inv, NEW i \in Instance, MarkOwn(i)
    PROVE  Inv'
<1> DEFINE g == collector(i)
<1>1. /\ pc[g] = "locking" /\ pc'[g] = "marking"
      /\ \A a \in Actor \ {g} : pc'[a] = pc[a]
      /\ DOMAIN pc' = Actor
    BY Actors, Moved DEF Inv, MarkOwn
<1>2. /\ instLock[i] = Free /\ instLock'[i] = g
      /\ \A j \in Instance \ {i} : instLock'[j] = instLock[j]
      /\ view'[g] = registry
      /\ \A a \in Actor \ {g} : view'[a] = view[a]
    BY Actors DEF Inv, Shape, MarkOwn, TakeInstLock
<1>3. \A k \in Instance \ {i} : pc'[collector(k)] = "idle"
    BY <1>1, OneCollector, Actors
<1>4. Shape'
    BY <1>1, Actors DEF Inv, Shape, MarkOwn, TakeInstLock, Goto, CollectorAt, building
<1>5. Locks'
    BY <1>1, <1>2, Actors DEF Inv, Locks, MarkOwn
<1>6. Views'
    BY <1>1, <1>2, <1>3, Actors DEF Inv, Views, MarkOwn
<1>7. InRegistry' /\ InStore'
    BY <1>1, Actors DEF Inv, Shape, InRegistry, InStore, Quiet, MarkOwn, exempt, building
<1>8. Rooted(i)'
  <2>1. built[i] \subseteq roots'
      BY RootsOf DEF MarkOwn
  <2>2. built[i] \subseteq objects => treeLeaves(built[i]) \subseteq roots'
      BY RootsOf DEF MarkOwn
  <2> QED
      BY <2>1, <2>2 DEF Inv, InStore, Rooted, MarkOwn, exempt
<1>9. Marked'
    BY <1>1, <1>3, <1>8 DEF Marked, MarkOwn
<1>10. history[i] \subseteq roots'
    BY RootsOf DEF MarkOwn
<1>11. OwnMarked'
    BY <1>1, <1>3, <1>10 DEF OwnMarked, MarkOwn
<1> QED
    BY <1>4, <1>5, <1>6, <1>7, <1>9, <1>11 DEF Inv

LEMMA MarkOtherKeeps ==
    ASSUME Inv, NEW i \in Instance, NEW j \in Instance, MarkOther(i, j)
    PROVE  Inv'
<1>1. Shape' /\ Locks' /\ Views'
    BY DEF Inv, Shape, Locks, Views, MarkOther, held, building
<1>2. InRegistry' /\ InStore'
    BY DEF Inv, InRegistry, InStore, Quiet, MarkOther, building, exempt
<1>3. \A k \in Instance \ {i} : pc[collector(k)] = "idle"
    BY OneCollector DEF MarkOther
<1>4. \A k \in Instance : Rooted(k) => Rooted(k)'
    BY DEF Rooted, Quiet, MarkOther, exempt
<1>5. Rooted(j)'
  <2>1. built[j] \subseteq roots'
      BY RootsOf DEF MarkOther
  <2>2. built[j] \subseteq objects => treeLeaves(built[j]) \subseteq roots'
      BY RootsOf DEF MarkOther
  <2> QED
      BY <2>1, <2>2 DEF Inv, InStore, Rooted, Quiet, MarkOther, exempt
<1>6. Marked'
    BY <1>3, <1>4, <1>5 DEF Inv, Shape, Marked, MarkOther
<1>7. OwnMarked'
    BY DEF Inv, OwnMarked, MarkOther
<1> QED
    BY <1>1, <1>2, <1>6, <1>7 DEF Inv

LEMMA PruneOtherKeeps ==
    ASSUME Inv, NEW i \in Instance, NEW j \in Instance, PruneOther(i, j)
    PROVE  Inv'
<1> DEFINE g == collector(i)
<1>1. /\ view'[g] = view[g] \ {j}
      /\ \A a \in Actor \ {g} : view'[a] = view[a]
    BY Actors DEF Inv, Shape, PruneOther
<1>2. Shape' /\ Locks'
    BY Actors DEF Inv, Shape, Locks, PruneOther, held, building
<1>3. Views'
    BY <1>1, Actors DEF Inv, Views, PruneOther
<1>4. InRegistry' /\ InStore'
    BY DEF Inv, InRegistry, InStore, Quiet, PruneOther, building, exempt
<1>5. \A k \in Instance \ {i} : pc[collector(k)] = "idle"
    BY OneCollector DEF PruneOther
<1>6. \A k \in Instance : Rooted(k) => Rooted(k)'
    BY DEF Rooted, Quiet, PruneOther, exempt
<1>7. Rooted(j)'
    BY DEF Rooted, PruneOther
<1>8. Marked'
    BY <1>5, <1>6, <1>7 DEF Inv, Shape, Marked, PruneOther
<1>9. OwnMarked'
    BY DEF Inv, OwnMarked, PruneOther
<1> QED
    BY <1>2, <1>3, <1>4, <1>8, <1>9 DEF Inv

LEMMA ReconcileKeeps ==
    ASSUME Inv, NEW i \in Instance, Reconcile(i)
    PROVE  Inv'
<1> DEFINE g == collector(i)
<1>1. /\ pc[g] = "marking" /\ pc'[g] = "sweeping"
      /\ \A a \in Actor \ {g} : pc'[a] = pc[a]
      /\ DOMAIN pc' = Actor
    BY Actors, Moved DEF Inv, Reconcile
<1>2. \A k \in Instance : /\ k # i => pc[collector(k)] = "idle" /\ pc'[collector(k)] = "idle"
                         /\ pc[builder(k)] # "registering" /\ pc'[builder(k)] = pc[builder(k)]
    BY <1>1, OneCollector, Actors
<1>3. /\ registry' \subseteq registry \cup {i}
      /\ registry \cap exists \subseteq registry' \cup {i}
      /\ built[i] # {} => i \in registry'
    BY <1>1 DEF Inv, Views, Reconcile
<1>4. Shape'
  <2>1. pc' \in [Actor -> BuilderAt \cup CollectorAt] /\ pc'[g] \in CollectorAt
      BY Actors DEF Inv, Shape, Reconcile, Goto, CollectorAt
  <2>2. \A k \in Instance : pc'[builder(k)] \in BuilderAt /\ pc'[collector(k)] \in CollectorAt
      BY <1>1, <2>1, Actors DEF Inv, Shape
  <2>3. registry' \subseteq Instance
      BY <1>3 DEF Inv, Shape
  <2> QED
      BY <2>1, <2>2, <2>3 DEF Inv, Shape, Reconcile, held, building
<1>5. Locks'
    BY <1>1, Actors DEF Inv, Locks, Reconcile, held
<1>6. Views'
    BY <1>1, <1>2 DEF Views
<1>7. InRegistry'
    BY <1>2, <1>3 DEF Inv, Shape, InRegistry, Quiet, Reconcile, exempt
<1>8. InStore'
    BY <1>2 DEF Inv, Shape, InStore, Reconcile, exempt, building
<1>9. \A k \in Instance : Rooted(k) => Rooted(k)'
    BY <1>2 DEF Rooted, Quiet, Reconcile, exempt
<1>10. \A k \in registry \cup {i} : Rooted(k)
    BY <1>1 DEF Inv, Marked, Reconcile
<1>11. Marked'
    BY <1>1, <1>2, <1>3, <1>9, <1>10 DEF Inv, Shape, Marked
<1>12. OwnMarked'
    BY <1>1, <1>2 DEF Inv, OwnMarked, Reconcile
<1> QED
    BY <1>4, <1>5, <1>6, <1>7, <1>8, <1>11, <1>12 DEF Inv

(* An object leaves the store only for want of a root, and whoever is in   *)
(* the middle of a build is told.                                          *)
LEMMA SweepKeeps ==
    ASSUME Inv, NEW i \in Instance, NEW o \in Object, Sweep(i, o)
    PROVE  Inv'
<1>1. /\ pc[collector(i)] = "sweeping"
      /\ objects' = objects \/ (o \notin roots /\ objects' = objects \ {o})
      /\ bereft \subseteq bereft'
    BY DEF Sweep
<1>2. \A k \in Instance \ {i} : pc[collector(k)] = "idle"
    BY <1>1, OneCollector
<1>3. Shape' /\ Locks' /\ Views' /\ InRegistry'
    BY DEF Inv, Shape, Locks, Views, InRegistry, Quiet, Sweep, held, building
<1>4. ASSUME NEW j \in exists' \ (skipped' \cup bereft')
      PROVE  /\ built'[j] \subseteq objects'
             /\ pc'[builder(j)] = "staged" => want'[j] \subseteq objects'
  <2>1. /\ j \in Instance /\ j \in exists \ (skipped \cup bereft)
        /\ built[j] \subseteq objects
        /\ pc[builder(j)] = "staged" => want[j] \subseteq objects
      BY <1>1, <1>4 DEF Inv, Shape, InStore, Sweep
  <2>2. CASE pc[builder(j)] # "idle"
    <3>1. o \in objects \ objects' => o \notin built[j] /\ o \notin want[j]
        BY <1>4, <2>1, <2>2 DEF Sweep, Whole
    <3> QED
        BY <1>1, <2>1, <3>1 DEF Sweep, building
  <2>3. CASE pc[builder(j)] = "idle"
    <3>1. built[j] # {} => j \in registry
        BY <2>1, <2>3 DEF Inv, InRegistry, Quiet
    <3>2. built[j] \subseteq roots
        BY <1>1, <2>1, <2>3, <3>1 DEF Inv, Marked, Rooted, Quiet
    <3> QED
        BY <1>1, <2>1, <2>3, <3>2 DEF Sweep, building
  <2> QED
      BY <2>2, <2>3
<1>5. InStore'
    BY <1>4 DEF InStore
<1>6. \A k \in Instance : Rooted(k) => Rooted(k)'
    BY <1>1 DEF Rooted, Quiet, Sweep
<1>7. Marked'
    BY <1>1, <1>2, <1>6 DEF Inv, Shape, Marked, Sweep
<1>8. OwnMarked'
    BY DEF Inv, OwnMarked, Sweep
<1> QED
    BY <1>3, <1>5, <1>7, <1>8 DEF Inv

LEMMA FinishGcKeeps ==
    ASSUME Inv, NEW i \in Instance, FinishGc(i)
    PROVE  Inv'
<1> DEFINE g == collector(i)
<1>1. /\ pc[g] = "sweeping" /\ pc'[g] = "idle"
      /\ \A a \in Actor \ {g} : pc'[a] = pc[a]
      /\ DOMAIN pc' = Actor
    BY Actors, Moved DEF Inv, FinishGc
<1>2. /\ storeLock = g /\ storeLock' = Free
      /\ instLock[i] = g /\ instLock'[i] = Free
      /\ \A j \in Instance \ {i} : instLock'[j] = instLock[j]
      /\ \A a \in Actor \ {g} : view'[a] = view[a]
    BY <1>1, Actors DEF Inv, Shape, Locks, FinishGc, DropStoreLock, DropInstLock
<1>3. \A k \in Instance : pc'[collector(k)] = "idle"
    BY <1>1, OneCollector, Actors
<1>4. Shape'
    BY <1>1, Actors DEF Inv, Shape, FinishGc, DropInstLock, Goto, CollectorAt, building
<1>5. Locks'
    BY <1>1, <1>2, Actors DEF Inv, Locks
<1>6. Views' /\ InRegistry' /\ InStore'
    BY <1>1, <1>2, <1>3, Actors DEF Inv, Shape, Views, InRegistry, InStore, Quiet, FinishGc, exempt, building
<1>7. Marked' /\ OwnMarked'
    BY <1>3 DEF Marked, OwnMarked
<1> QED
    BY <1>4, <1>5, <1>6, <1>7 DEF Inv

LEMMA StopGcKeeps ==
    ASSUME Inv, NEW i \in Instance, StopGc(i)
    PROVE  Inv'
<1> DEFINE g == collector(i)
<1>1. /\ pc[g] # "idle" /\ pc'[g] = "idle"
      /\ \A a \in Actor \ {g} : pc'[a] = pc[a]
      /\ DOMAIN pc' = Actor
    BY Actors, Moved DEF Inv, StopGc
<1>2. /\ storeLock = g /\ storeLock' = Free
      /\ instLock'[i] # g
      /\ instLock'[i] = instLock[i] \/ (instLock[i] = g /\ instLock'[i] = Free)
      /\ \A j \in Instance \ {i} : instLock'[j] = instLock[j]
      /\ \A a \in Actor \ {g} : view'[a] = view[a]
    BY <1>1, Actors DEF Inv, Shape, Locks, CollectorAt, StopGc, DropStoreLock, DropInstLock
<1>3. \A k \in Instance : pc'[collector(k)] = "idle"
    BY <1>1, OneCollector, Actors
<1>4. Shape'
    BY <1>1, Actors DEF Inv, Shape, StopGc, DropInstLock, Goto, CollectorAt, building
<1>5. Locks'
    BY <1>1, <1>2, <1>3, Actors DEF Inv, Locks
<1>6. Views' /\ InRegistry' /\ InStore'
    BY <1>1, <1>2, <1>3, Actors DEF Inv, Shape, Views, InRegistry, InStore, Quiet, StopGc, exempt, building
<1>7. Marked' /\ OwnMarked'
    BY <1>3 DEF Marked, OwnMarked
<1> QED
    BY <1>4, <1>5, <1>6, <1>7 DEF Inv

-----------------------------------------------------------------------------
(* Users.                                                                  *)
LEMMA CommitKeeps ==
    ASSUME Inv, NEW i \in Instance, NEW lock \in Pins, Commit(i, lock)
    PROVE  Inv'
<1>1. Shape'
    BY StoreAssumption DEF Inv, Shape, Commit, held, building, Pins
<1>2. Locks' /\ Views' /\ InRegistry' /\ InStore'
    BY DEF Inv, Locks, Views, InRegistry, InStore, Quiet, Commit, held, building, exempt
<1>3. Marked'
    BY DEF Inv, Marked, Rooted, Quiet, Commit, marking, exempt
<1>4. pc[collector(i)] \notin {"marking", "sweeping"}
    BY Actors DEF Inv, Locks, Commit
<1>5. OwnMarked'
    BY <1>4 DEF Inv, Shape, OwnMarked, Commit, marking
<1> QED
    BY <1>1, <1>2, <1>3, <1>5 DEF Inv

LEMMA DeleteKeeps ==
    ASSUME Inv, NEW i \in Instance, Delete(i)
    PROVE  Inv'
<1>1. /\ exists' = exists \ {i}
      /\ \A j \in Instance \ {i} : /\ built'[j] = built[j] /\ history'[j] = history[j]
                                   /\ j \in skipped <=> j \in skipped'
                                   /\ j \in bereft <=> j \in bereft'
    BY DEF Inv, Shape, Delete
<1>2. Shape'
    BY DEF Inv, Shape, Delete, held, building
<1>3. Locks' /\ Views'
    BY DEF Inv, Locks, Views, Delete, held
<1>4. InRegistry' /\ InStore'
    BY <1>1 DEF Inv, Shape, InRegistry, InStore, Quiet, Delete, building
<1>5. \A j \in Instance : Rooted(j) => Rooted(j)'
    BY <1>1 DEF Rooted, Quiet, Delete, marking
<1>6. Marked'
    BY <1>5 DEF Inv, Shape, Marked, Delete, marking
<1>7. OwnMarked'
    BY <1>1 DEF Inv, OwnMarked, Delete, marking
<1> QED
    BY <1>2, <1>3, <1>4, <1>6, <1>7 DEF Inv

-----------------------------------------------------------------------------
LEMMA InvInit ==
    Init => Inv
<1> SUFFICES ASSUME Init PROVE Inv
    OBVIOUS
<1>1. Shape
    BY Actors DEF Init, Shape, BuilderAt, CollectorAt
<1>2. Locks
    BY Actors DEF Init, Locks
<1>3. Views /\ InRegistry /\ InStore /\ Marked /\ OwnMarked
    BY Actors DEF Init, Views, InRegistry, InStore, Marked, OwnMarked
<1> QED
    BY <1>1, <1>2, <1>3 DEF Inv

LEMMA InvNext ==
    Inv /\ [Next]_vars => Inv'
<1> SUFFICES ASSUME Inv, [Next]_vars PROVE Inv'
    OBVIOUS
<1>1. ASSUME NEW i \in Instance, Build(i)
      PROVE  Inv'
  <2>1. CASE \E lock \in Pins : StartBuild(i, lock)
      BY <2>1, StartBuildKeeps
  <2>2. CASE \E o \in Object : Found(i, o) \/ WriteTemp(i, o)
      BY <2>2, EnsureKeeps DEF Found, WriteTemp
  <2>3. CASE Admit(i)
      BY <2>3, EnsureKeeps DEF Admit
  <2>4. CASE (\E o \in Object : Missing(i, o)) \/ FailBuild(i)
      BY <2>4, RejectedKeeps DEF Missing, FailBuild, ensuring
  <2>5. CASE Stage(i) \/ Record(i)
      BY <2>5, StageKeeps, RecordKeeps
  <2>6. CASE ReadRegistry(i) \/ Register(i) \/ Unregistered(i)
      BY <2>6, ReadRegistryKeeps, RegisterKeeps, UnregisteredKeeps
  <2> QED
      BY <1>1, <2>1, <2>2, <2>3, <2>4, <2>5, <2>6 DEF Build
<1>2. ASSUME NEW i \in Instance, Gc(i)
      PROVE  Inv'
    BY <1>2, StartGcKeeps, MarkOwnKeeps, MarkOtherKeeps, PruneOtherKeeps, ReconcileKeeps,
       SweepKeeps, FinishGcKeeps, StopGcKeeps DEF Gc
<1>3. ASSUME NEW i \in Versioned, NEW lock \in Pins, Commit(i, lock)
      PROVE  Inv'
    BY <1>3, CommitKeeps, StoreAssumption
<1>4. ASSUME NEW o \in Object, Age(o)
      PROVE  Inv'
    BY <1>4, EnsureKeeps DEF Age, held, building, marking, exempt
<1>5. CASE UNCHANGED vars
    BY <1>5, EnsureKeeps DEF vars, held, building, marking, exempt
<1> QED
    BY <1>1, <1>2, <1>3, <1>4, <1>5, DeleteKeeps DEF Next

(* An object leaves the store in a sweep, which has no root for it.        *)
LEMMA RemovedInSweep ==
    ASSUME Inv, [Next]_vars, NEW o \in Removed
    PROVE  \E k \in Instance : /\ pc[collector(k)] = "sweeping"
                              /\ o \notin roots
                              /\ UNCHANGED <<pc, built, history, registry, exists, skipped>>
                              /\ bereft \subseteq bereft'
<1>1. ASSUME NEW i \in Instance, NEW p \in Object, Sweep(i, p)
      PROVE  /\ pc[collector(i)] = "sweeping"
             /\ o \notin roots
             /\ UNCHANGED <<pc, built, history, registry, exists, skipped>>
             /\ bereft \subseteq bereft'
    BY <1>1 DEF Sweep, Removed
<1>2. ASSUME NEW i \in Instance, Build(i)
      PROVE  objects \subseteq objects'
    BY <1>2 DEF Build, StartBuild, Found, WriteTemp, Missing, Admit, Stage, FailBuild, Rejected,
       Record, ReadRegistry, Register, Unregistered
<1>3. ASSUME NEW i \in Instance, Gc(i), \A p \in Object : ~ Sweep(i, p)
      PROVE  objects \subseteq objects'
    BY <1>3 DEF Gc, StartGc, MarkOwn, MarkOther, PruneOther, Reconcile, FinishGc, StopGc
<1>4. CASE \E i \in Instance : Gc(i)
    BY <1>1, <1>3, <1>4 DEF Removed
<1>5. CASE ~ \E i \in Instance : Gc(i)
    BY <1>2, <1>5 DEF Next, Delete, Commit, Age, Removed, vars
<1> QED
    BY <1>4, <1>5

LEMMA InvSettled ==
    Inv /\ [Next]_vars =>
        /\ \A i \in Registered \ skipped :
              pc[builder(i)] = "idle" =>
                  /\ built[i] \cap Removed = {}
                  /\ i \notin bereft => treeLeaves(built[i]) \cap Removed = {}
        /\ \A i \in Instance : pc[collector(i)] = "sweeping" => history[i] \cap Removed = {}
<1> SUFFICES ASSUME Inv, [Next]_vars, NEW o \in Removed
             PROVE  /\ \A i \in Registered \ skipped :
                          pc[builder(i)] = "idle" =>
                              /\ o \notin built[i]
                              /\ i \notin bereft => o \notin treeLeaves(built[i])
                    /\ \A i \in Instance : pc[collector(i)] = "sweeping" => o \notin history[i]
    OBVIOUS
<1>1. PICK k \in Instance : pc[collector(k)] = "sweeping" /\ o \notin roots
    BY RemovedInSweep
<1>2. \A i \in registry : Rooted(i)
    BY <1>1 DEF Inv, Marked
<1>3. \A i \in Instance : pc[collector(i)] = "sweeping" => o \notin history[i]
    BY <1>1 DEF Inv, OwnMarked
<1> QED
    BY <1>1, <1>2, <1>3 DEF Rooted, Quiet, Registered

(* Whatever builds and collections run at once, however they end, every    *)
(* instance all of whose builds have registered is in the registry.        *)
THEOREM BuildersRegistered == Spec => []BuilderRegistered
<1>1. Inv => BuilderRegistered
    BY DEF Inv, InRegistry, BuilderRegistered, Quiet
<1> QED
    BY InvInit, InvNext, <1>1, PTL DEF Spec

(* A collection takes nothing that such an instance's refs/built names     *)
(* while no build of it is under way, neither object nor leaf.             *)
THEOREM SettledAlways == Spec => SettledKept
<1>1. Inv /\ [Next]_vars =>
        [\A i \in Registered \ skipped :
           pc[builder(i)] = "idle" =>
               /\ built[i] \cap Removed = {}
               /\ i \notin bereft => treeLeaves(built[i]) \cap Removed = {}]_vars
    BY InvSettled
<1> QED
    BY InvInit, InvNext, <1>1, PTL DEF Spec, SettledKept

(* A collection takes nothing that its own instance's history pins.        *)
THEOREM OwnHistoryAlways == Spec => OwnHistoryKept
<1>1. Inv /\ [Next]_vars =>
        [\A i \in Instance : pc[collector(i)] = "sweeping" => history[i] \cap Removed = {}]_vars
    BY InvSettled
<1> QED
    BY InvInit, InvNext, <1>1, PTL DEF Spec, OwnHistoryKept

(* An instance's lock is held by its own builder or collector.             *)
OwnLocks == \A i \in Instance : instLock[i] \in {Free, builder(i), collector(i)}

LEMMA OwnLocksKept ==
    ASSUME Shape, OwnLocks, [Next]_vars
    PROVE  OwnLocks'
<1> DEFINE Taken == \E i \in Instance : \E h \in {Free, builder(i), collector(i)} :
                       instLock' = [instLock EXCEPT ![i] = h]
<1>1. ASSUME UNCHANGED instLock PROVE OwnLocks'
    BY <1>1 DEF OwnLocks
<1>2. ASSUME Taken PROVE OwnLocks'
    BY <1>2 DEF OwnLocks, Shape
<1>3. ASSUME NEW i \in Instance, Build(i)
      PROVE  UNCHANGED instLock \/ Taken
    BY <1>3 DEF Build, StartBuild, Found, WriteTemp, Missing, Admit, Stage, FailBuild, Rejected,
       Record, ReadRegistry, Register, Unregistered, held, TakeInstLock, DropInstLock
<1>4. ASSUME NEW i \in Instance, Gc(i)
      PROVE  UNCHANGED instLock \/ Taken
    BY <1>4 DEF Gc, StartGc, MarkOwn, MarkOther, PruneOther, Reconcile, Sweep, FinishGc, StopGc,
       held, TakeInstLock, DropInstLock
<1> QED
    BY <1>1, <1>2, <1>3, <1>4 DEF Next, Delete, Commit, Age, held, vars

(* No builds and collections, however many, ever wait for one another in a *)
(* circle: whoever is waited for has two links of the chain before it at   *)
(* most.                                                                   *)
THEOREM NobodyDeadlocks == Spec => []WaitsEnd
<1>1. Init => Inv /\ OwnLocks
    BY InvInit DEF Init, OwnLocks
<1>2. Inv /\ OwnLocks /\ [Next]_vars => Inv' /\ OwnLocks'
    BY InvNext, OwnLocksKept DEF Inv
<1>3. Inv /\ OwnLocks => WaitsEnd
  <2> SUFFICES ASSUME Inv, OwnLocks, NEW a \in Actor, NEW b \in Actor, NEW c \in Actor,
                      NEW d \in Actor, waitsFor(a, b), waitsFor(b, c), waitsFor(c, d)
               PROVE  FALSE
      BY DEF WaitsEnd
  <2>1. ASSUME NEW i \in Instance, waitsFor(builder(i), d) \/ waitsFor(builder(i), c)
        PROVE  pc[builder(i)] = "recorded"
      BY <2>1, Actors DEF waitsFor
  <2>2. ASSUME NEW i \in Instance, pc[builder(i)] = "recorded", NEW x \in Actor
        PROVE  ~waitsFor(x, builder(i))
      BY <2>2, Actors DEF Inv, Locks, OwnLocks, waitsFor
  <2>3. PICK k \in Instance : c = collector(k) /\ pc[c] = "locking"
      BY <2>1, <2>2 DEF waitsFor
  <2>4. PICK i \in Instance : b = builder(i)
      BY <2>3, Actors DEF Inv, Locks, OwnLocks, waitsFor
  <2> QED
      BY <2>1, <2>2, <2>4
<1> QED
    BY <1>1, <1>2, <1>3, PTL DEF Spec
=============================================================================
