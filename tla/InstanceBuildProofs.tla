------------------------ MODULE InstanceBuildProofs ------------------------
(***************************************************************************)
(* Proofs about LockDelta and InstanceBuild for every set of locks:        *)
(* swapping in only the delta of diffLocks gives the instance that the new *)
(* lock stands for, and so does any sequence of builds, up to the first    *)
(* time a build is killed between its swap and refs/built or .anvilignore  *)
(* is edited.                                                              *)
(***************************************************************************)
EXTENDS InstanceBuild, TLAPS

-----------------------------------------------------------------------------
(* The delta of two locks.                                                 *)

(* Each path holds what the lock places there, or nothing but what is       *)
(* among `others` where the lock places nothing.                            *)
Matches(files, lock, others) ==
    \A t \in Path : IF t \in targetsOf(lock) THEN files[t] = Materialize(lock)[t]
                    ELSE files[t] \subseteq others

Sound(lock) == lock \subseteq Package /\ WellFormed(lock)

(* Two locks that place the same hashes at a path leave it alike. *)
LEMMA MaterializeEqual ==
    ASSUME NEW a, NEW b, NEW t \in Path,
           \A p \in a : t \in p.targets => \E q \in b : t \in q.targets /\ q.hash = p.hash,
           \A q \in b : t \in q.targets => \E p \in a : t \in p.targets /\ p.hash = q.hash
    PROVE  Materialize(a)[t] = Materialize(b)[t]
<1>1. \A c, h : h \in {p.hash : p \in {q \in c : t \in q.targets}}
                   <=> \E p \in c : t \in p.targets /\ h = p.hash
  OBVIOUS
<1>2. \A h : h \in {p.hash : p \in {q \in a : t \in q.targets}}
                <=> h \in {p.hash : p \in {q \in b : t \in q.targets}}
  BY <1>1
<1> QED
  BY <1>2 DEF Materialize

LEMMA ExtractAlone ==
    ASSUME NEW p \in Package, NEW t \in p.targets, p.method = "extract"
    PROVE  p.targets = {t} /\ p.keys = "declared"
BY DEF Package

(* Parsing refs/built changes nothing but the order of keys. *)
LEMMA ReadBackSound ==
    ASSUME NEW lock, Sound(lock)
    PROVE  /\ Sound(ReadBack(lock))
           /\ targetsOf(ReadBack(lock)) = targetsOf(lock)
           /\ \A t \in Path : Materialize(ReadBack(lock))[t] = Materialize(lock)[t]
<1> DEFINE back(p) == IF p.method = "asset-tree" THEN [p EXCEPT !.keys = "sorted"] ELSE p
<1>1. ASSUME NEW p \in Package
      PROVE  /\ back(p) \in Package
             /\ back(p).name = p.name /\ back(p).hash = p.hash
             /\ back(p).method = p.method /\ back(p).targets = p.targets
  BY DEF Package
<1>2. ReadBack(lock) = {back(p) : p \in lock}
  BY DEF ReadBack
<1>3. lock \subseteq Package
  BY DEF Sound
<1> HIDE DEF back
<1>4. ReadBack(lock) \subseteq Package
  BY <1>1, <1>2, <1>3
<1>5. WellFormed(ReadBack(lock))
  <2>1. NoPlacementCollision(ReadBack(lock))
    BY <1>1, <1>2, <1>3 DEF Sound, WellFormed, NoPlacementCollision
  <2>2. ASSUME NEW p \in ReadBack(lock), NEW q \in ReadBack(lock)
        PROVE  /\ p # q /\ p.targets \cap q.targets # {} =>
                      p.method = q.method /\ p.method \in {"link", "extract"}
               /\ p.method = "extract" /\ p.name = q.name => p = q
    <3>1. PICK a \in lock, b \in lock : p = back(a) /\ q = back(b)
      BY <1>2
    <3>2. /\ a # b /\ a.targets \cap b.targets # {} =>
                a.method = b.method /\ a.method \in {"link", "extract"}
          /\ a.method = "extract" /\ a.name = b.name => a = b
      BY DEF Sound, WellFormed
    <3>3. a \in Package /\ b \in Package
      BY <1>3
    <3> QED
      BY <1>1, <3>1, <3>2, <3>3
  <2> QED
    BY <2>1, <2>2 DEF WellFormed
<1>6. targetsOf(ReadBack(lock)) = targetsOf(lock)
  BY <1>1, <1>2, <1>3 DEF targetsOf
<1>7. \A t \in Path : Materialize(ReadBack(lock))[t] = Materialize(lock)[t]
  BY <1>1, <1>2, <1>3, MaterializeEqual
<1> QED
  BY <1>4, <1>5, <1>6, <1>7 DEF Sound

(* The baseline of a package is a package of that name in the old lock. *)
LEMMA Baseline ==
    ASSUME NEW old, NEW p, Named(old, p.name) # {}
    PROVE  prevByName(old, p.name) \in old /\ prevByName(old, p.name).name = p.name
BY DEF Named, prevByName

(* An unchanged directory of jars holds none that the delta installs. *)
LEMMA CleanDirUntouched ==
    ASSUME NEW old, NEW new, Sound(old), Sound(new),
           NEW p \in new, p.method = "extract", NEW t \in p.targets, t \in Path,
           t \notin dirtyDirs(old, new)
    PROVE  p \notin install(old, new)
<1>1. <<p.name, p.hash>> \in extractMembership(new, t)
  BY DEF extractMembership
<1>2. <<p.name, p.hash>> \in extractMembership(old, t)
  BY <1>1 DEF dirtyDirs
<1>3. PICK r \in old : /\ r.method = "extract" /\ t \in r.targets
                       /\ r.name = p.name /\ r.hash = p.hash
  BY <1>2 DEF extractMembership
<1>4. prevByName(old, p.name) = r
  <2>1. prevByName(old, p.name) \in old /\ prevByName(old, p.name).name = p.name
    BY <1>3, Baseline DEF Named
  <2> QED
    BY <1>3, <2>1 DEF Sound, WellFormed
<1>5. p.targets = {t} /\ r.targets = {t} /\ p.keys = "declared" /\ r.keys = "declared"
  BY <1>3, ExtractAlone DEF Sound
<1>6. p \notin Changed(old, new)
  BY <1>3, <1>4, <1>5 DEF Changed, Named, unchanged
<1>7. p.targets \cap dirtyDirs(old, new) = {}
  BY <1>5
<1> QED
  BY <1>6, <1>7 DEF install

(* A changed directory is restaged whole. *)
LEMMA DirtyDirRestaged ==
    ASSUME NEW old, NEW new, Sound(new), NEW t, t \in dirtyDirs(old, new),
           NEW q \in new, q.method = "extract", t \in q.targets
    PROVE  q \in install(old, new)
<1>1. ASSUME NEW c \in Changed(old, new), c.name = q.name PROVE c = q
  BY <1>1 DEF Changed, Sound, WellFormed
<1> QED
  BY <1>1 DEF install, Named

(* What the delta stages for a path is all that the new lock places there. *)
LEMMA StagedWhole ==
    ASSUME NEW old, NEW new, Sound(old), Sound(new),
           NEW t \in Path, t \in installTargets(old, new)
    PROVE  Materialize(install(old, new))[t] = Materialize(new)[t]
<1>1. PICK p \in install(old, new) : t \in p.targets
  BY DEF installTargets, targetsOf
<1>2. install(old, new) \subseteq new
  BY DEF install, Changed
<1>3. ASSUME NEW q \in new, t \in q.targets
      PROVE  \E r \in install(old, new) : t \in r.targets /\ r.hash = q.hash
  <2>1. CASE p = q
    BY <1>1, <2>1
  <2>2. CASE p # q /\ p.method = "link"
    <3>1. q.method = "link"
      BY <1>1, <1>2, <1>3, <2>2 DEF Sound, WellFormed
    <3>2. p.hash = q.hash
      BY <1>1, <1>2, <1>3, <2>2, <3>1 DEF Sound, WellFormed, NoPlacementCollision
    <3> QED
      BY <1>1, <3>2
  <2>3. CASE p # q /\ p.method # "link"
    <3>1. p.method = "extract" /\ q.method = "extract"
      BY <1>1, <1>2, <1>3, <2>3 DEF Sound, WellFormed
    <3>2. t \in dirtyDirs(old, new)
      BY <1>1, <1>2, <3>1, CleanDirUntouched
    <3> QED
      BY <1>3, <3>1, <3>2, DirtyDirRestaged
  <2> QED
    BY <2>1, <2>2, <2>3
<1> QED
  BY <1>2, <1>3, MaterializeEqual

(* A path of the new lock that the delta does not install is up to date. *)
LEMMA LeftIsCurrent ==
    ASSUME NEW old, NEW new, Sound(old), Sound(new),
           NEW t \in Path, t \in targetsOf(new), t \notin installTargets(old, new)
    PROVE  t \in targetsOf(old) /\ Materialize(old)[t] = Materialize(new)[t]
<1>1. ASSUME NEW q \in new, t \in q.targets
      PROVE  \E r \in old : /\ r.name = q.name /\ r.hash = q.hash /\ r.method = q.method
                            /\ t \in r.targets
  <2>1. q \notin install(old, new)
    BY <1>1 DEF installTargets, targetsOf
  <2>2. q \notin Changed(old, new)
    BY <2>1 DEF install
  <2>3. Named(old, q.name) # {} /\ unchanged(prevByName(old, q.name), q)
    BY <2>2 DEF Changed
  <2> QED
    BY <1>1, <2>3, Baseline DEF unchanged
<1>2. PICK q \in new : t \in q.targets
  BY DEF targetsOf
<1>3. PICK r \in old : r.hash = q.hash /\ r.method = q.method /\ t \in r.targets
  BY <1>1, <1>2
<1>4. ASSUME NEW s \in old, t \in s.targets
      PROVE  \E n \in new : t \in n.targets /\ n.hash = s.hash
  <2>1. CASE s = r
    BY <1>2, <1>3, <2>1
  <2>2. CASE s # r /\ r.method = "link"
    <3>1. s.method = "link"
      BY <1>3, <1>4, <2>2 DEF Sound, WellFormed
    <3>2. s.hash = r.hash
      BY <1>3, <1>4, <2>2, <3>1 DEF Sound, WellFormed, NoPlacementCollision
    <3> QED
      BY <1>2, <1>3, <3>2
  <2>3. CASE s # r /\ r.method # "link"
    <3>1. s.method = "extract" /\ q.method = "extract"
      BY <1>3, <1>4, <2>3 DEF Sound, WellFormed
    <3>2. t \notin dirtyDirs(old, new)
      <4>1. q \notin install(old, new)
        BY <1>2 DEF installTargets, targetsOf
      <4> QED
        BY <1>2, <3>1, <4>1, DirtyDirRestaged
    <3>3. <<q.name, q.hash>> \in extractMembership(new, t)
      BY <1>2, <3>1 DEF extractMembership
    <3>4. extractMembership(new, t) = extractMembership(old, t)
      BY <3>2, <3>3 DEF dirtyDirs
    <3>5. <<s.name, s.hash>> \in extractMembership(old, t)
      BY <1>4, <3>1 DEF extractMembership
    <3>6. <<s.name, s.hash>> \in extractMembership(new, t)
      BY <3>4, <3>5
    <3> QED
      BY <3>6 DEF extractMembership
  <2> QED
    BY <2>1, <2>2, <2>3
<1>5. t \in targetsOf(old)
  BY <1>3 DEF targetsOf
<1>6. Materialize(old)[t] = Materialize(new)[t]
  BY <1>1, <1>4, MaterializeEqual
<1> QED
  BY <1>5, <1>6

(* An instance that matches the old lock matches the new one after the      *)
(* delta has been swapped in, wherever .anvilignore protects nothing.       *)
THEOREM DeltaDelivers ==
    ASSUME NEW old, NEW new, Sound(old), Sound(new),
           NEW files, NEW others, Matches(files, old, others)
    PROVE  Matches(Swapped(files, old, new, {}), new, others)
<1> SUFFICES ASSUME NEW t \in Path
             PROVE  IF t \in targetsOf(new)
                    THEN Swapped(files, old, new, {})[t] = Materialize(new)[t]
                    ELSE Swapped(files, old, new, {})[t] \subseteq others
  BY DEF Matches
<1>1. Swapped(files, old, new, {})[t] =
          IF t \in installTargets(old, new) THEN Materialize(install(old, new))[t]
          ELSE IF t \in removeTargets(old, new) THEN {} ELSE files[t]
  BY DEF Swapped
<1>2. CASE t \in installTargets(old, new)
  <2>1. t \in targetsOf(new)
    BY <1>2 DEF installTargets, install, Changed, targetsOf
  <2> QED
    BY <1>1, <1>2, <2>1, StagedWhole
<1>3. CASE t \notin installTargets(old, new) /\ t \in targetsOf(new)
  <2>1. t \in targetsOf(old) /\ Materialize(old)[t] = Materialize(new)[t]
    BY <1>3, LeftIsCurrent
  <2>2. t \notin removeTargets(old, new)
    BY <1>3 DEF removeTargets
  <2> QED
    BY <1>1, <1>3, <2>1, <2>2 DEF Matches
<1>4. CASE t \notin installTargets(old, new) /\ t \notin targetsOf(new)
  BY <1>1, <1>4 DEF removeTargets, Matches
<1> QED
  BY <1>2, <1>3, <1>4

-----------------------------------------------------------------------------
(* Any sequence of builds.                                                 *)

(* Between a build's swap and its record the tree runs ahead of refs/built. *)
Recorded == pc # "swapped" => Matches(tree, readBuiltLock(built), {UserBytes})

SwappedIn == pc = "swapped" => Matches(tree, next, {UserBytes})

(* A running build was planned against what is still refs/built. *)
Planned == pc # "idle" => next \in Lock /\ prev = readBuiltLock(built)

BuildInv ==
    /\ pc \in {"idle", "planned", "swapped"}
    /\ built = NeverBuilt \/ built \in Lock
    /\ ignore = {}
    /\ Recorded /\ SwappedIn /\ Planned

LEMMA LockSound == \A l \in Lock : Sound(l) /\ l # NeverBuilt
BY BuildAssumption DEF Sound

LEMMA BuiltSound == ASSUME BuildInv PROVE Sound(readBuiltLock(built))
<1>1. CASE built = NeverBuilt
  BY <1>1 DEF readBuiltLock, Sound, WellFormed, NoPlacementCollision
<1>2. CASE built \in Lock
  BY <1>2, LockSound, ReadBackSound DEF readBuiltLock
<1> QED
  BY <1>1, <1>2 DEF BuildInv

LEMMA SwapStep == ASSUME BuildInv, Swap PROVE BuildInv'
<1>1. Sound(prev) /\ Sound(next) /\ Matches(tree, prev, {UserBytes})
  BY BuiltSound, LockSound DEF BuildInv, Swap, Planned, Recorded
<1>2. Matches(tree', next, {UserBytes})
  BY <1>1, DeltaDelivers DEF Swap, Protected, BuildInv
<1> QED
  BY <1>2 DEF BuildInv, Swap, plan, Recorded, SwappedIn, Planned

LEMMA RecordStep == ASSUME BuildInv, writeBuiltLock PROVE BuildInv'
<1>1. next \in Lock /\ Matches(tree, next, {UserBytes})
  BY DEF BuildInv, writeBuiltLock, Planned, SwappedIn
<1>2. readBuiltLock(next) = ReadBack(next)
  BY <1>1, LockSound DEF readBuiltLock
<1>3. Matches(tree, ReadBack(next), {UserBytes})
  BY <1>1, LockSound, ReadBackSound DEF Matches
<1> QED
  BY <1>1, <1>2, <1>3 DEF BuildInv, writeBuiltLock, Forgotten, Recorded, SwappedIn, Planned

LEMMA StepBuildInv == ASSUME BuildInv, ~parted', [Next]_vars PROVE BuildInv'
<1>1. CASE UNCHANGED vars
  BY <1>1 DEF vars, plan, BuildInv, Recorded, SwappedIn, Planned
<1>2. ASSUME NEW lock \in Lock, Plan(lock) PROVE BuildInv'
  BY <1>2 DEF Plan, BuildInv, Recorded, SwappedIn, Planned
<1>3. CASE Fail
  BY <1>3 DEF Fail, Forgotten, BuildInv, Recorded, SwappedIn, Planned
<1>4. CASE EditIgnore \/ KillAfterSwap
  BY <1>4 DEF EditIgnore, KillAfterSwap
<1>5. ASSUME NEW p \in next, NEW o \in Object, materializeObject(p, o) PROVE BuildInv'
  BY <1>5 DEF materializeObject, plan, BuildInv, Recorded, SwappedIn, Planned
<1>6. ASSUME NEW p \in next, NEW o \in Object, KillInCopy(p, o) PROVE BuildInv'
  BY <1>6 DEF KillInCopy, Lacking, Forgotten, BuildInv, Recorded, SwappedIn, Planned
<1> QED
  BY <1>1, <1>2, <1>3, <1>4, <1>5, <1>6, SwapStep, RecordStep DEF Next

LEMMA InitBuildInv == Init => BuildInv
<1> SUFFICES ASSUME Init PROVE BuildInv
  OBVIOUS
<1>1. \A t \in Path : tree[t] \subseteq {UserBytes}
  BY DEF Init
<1>2. readBuiltLock(built) = {} /\ targetsOf({}) = {}
  BY DEF Init, readBuiltLock, targetsOf
<1>3. Matches(tree, {}, {UserBytes})
  BY <1>1, <1>2 DEF Matches
<1> QED
  BY <1>2, <1>3 DEF Init, BuildInv, Recorded, SwappedIn, Planned

(* What has parted or been cut short stays so. *)
LEMMA FlagsStay ==
    ASSUME [Next]_vars
    PROVE  /\ parted => parted'
           /\ cut => cut'
           /\ parted = FALSE => parted' \in {TRUE, FALSE}
           /\ cut = FALSE => cut' \in {TRUE, FALSE}
<1> DEFINE Kept == \/ parted' = parted /\ cut' = cut
                   \/ parted' = TRUE /\ cut' = cut
                   \/ parted' = parted /\ cut' = TRUE
<1>1. Kept
  <2>1. CASE UNCHANGED vars
    BY <2>1 DEF vars, pool
  <2>2. ASSUME NEW lock \in Lock, Plan(lock) PROVE Kept
    BY <2>2 DEF Plan, pool
  <2>3. CASE Fail \/ Swap \/ writeBuiltLock
    BY <2>3 DEF Fail, Swap, writeBuiltLock, pool
  <2>4. CASE EditIgnore \/ KillAfterSwap
    BY <2>4 DEF EditIgnore, KillAfterSwap, pool
  <2>5. ASSUME NEW p \in next, NEW o \in Object,
               materializeObject(p, o) \/ KillInCopy(p, o)
        PROVE  Kept
    BY <2>5 DEF materializeObject, KillInCopy
  <2> QED
    BY <2>1, <2>2, <2>3, <2>4, <2>5 DEF Next
<1>2. CASE parted' = parted /\ cut' = cut
  BY <1>2
<1>3. CASE parted' = TRUE /\ cut' = cut
  BY <1>3
<1>4. CASE parted' = parted /\ cut' = TRUE
  BY <1>4
<1> QED
  BY <1>1, <1>2, <1>3, <1>4

(* The invariant holds until a build is killed after its swap or            *)
(* .anvilignore is edited.                                                  *)
LEMMA UntilParted == Spec => [](parted \/ (parted = FALSE /\ BuildInv))
<1> DEFINE Inv == parted \/ (parted = FALSE /\ BuildInv)
<1>1. Init => Inv
  BY InitBuildInv DEF Init
<1>2. Inv /\ [Next]_vars => Inv'
  BY StepBuildInv, FlagsStay
<1> QED
  BY <1>1, <1>2, PTL DEF Spec

(* refs/built is the record of the lock the current instance tree was built *)
(* from, through any sequence of builds, failures and locks, until then.    *)
THEOREM BuildRecorded == Spec => []BuiltDescribesTree
<1>1. parted \/ (parted = FALSE /\ BuildInv) => BuiltDescribesTree
  BY DEF BuildInv, BuiltDescribesTree, Agrees, Recorded, SwappedIn, Matches
<1> QED
  BY <1>1, UntilParted, PTL

(* Each build that swaps leaves the instance its lock describes, whatever   *)
(* was built before, until then.                                            *)
THEOREM BuildDelivers == Spec => []MatchesUntilParted
<1>1. parted \/ (parted = FALSE /\ BuildInv) => MatchesUntilParted
  BY DEF BuildInv, BuildMatchesLock, MatchesUntilParted, Agrees, Recorded, SwappedIn, Matches
<1> QED
  BY <1>1, UntilParted, PTL

(* No step of a build, whatever was built and however .anvilignore is       *)
(* edited between builds, changes what lies at a place that it protects;    *)
(* all that comes there are absent objects of an index being built.         *)
THEOREM IgnoredUntouched == Spec => ProtectedKept
<1> DEFINE KeepsPaths == \A t \in ignore \cap Path : tree'[t] = tree[t]
           KeepsObjects == \A o \in ignore \cap Object : objects'[o] # objects[o] =>
               objects[o] = "absent" /\ \E p \in next : o \in assetHashes[p.hash]
           Typed == objects \in [Object -> {"absent", "whole", "torn"}]
<1>1. Init => Typed
  BY DEF Init
<1>2. Typed /\ [Next]_vars => Typed'
  BY DEF Next, Plan, materializeObject, KillInCopy, EditIgnore, Fail, Swap, writeBuiltLock,
         KillAfterSwap, pool, vars
<1>3. Typed /\ [Next]_vars => [KeepsPaths /\ KeepsObjects]_vars
  <2> SUFFICES ASSUME Typed, Next PROVE KeepsPaths /\ KeepsObjects
    OBVIOUS
  <2>1. KeepsPaths
    BY DEF Next, Plan, materializeObject, KillInCopy, EditIgnore, Fail, Swap, Swapped, Protected,
           writeBuiltLock, KillAfterSwap
  <2>2. ASSUME NEW p \in next, NEW q \in Object, materializeObject(p, q) \/ KillInCopy(p, q)
        PROVE  KeepsObjects
    BY <2>2 DEF materializeObject, KillInCopy, Lacking
  <2>3. ASSUME UNCHANGED pool PROVE KeepsObjects
    BY <2>3 DEF pool
  <2>4. CASE Fail \/ EditIgnore \/ Swap \/ writeBuiltLock \/ KillAfterSwap
    BY <2>1, <2>3, <2>4 DEF Fail, EditIgnore, Swap, writeBuiltLock, KillAfterSwap
  <2>5. ASSUME NEW lock \in Lock, Plan(lock) PROVE KeepsObjects
    BY <2>3, <2>5 DEF Plan
  <2> QED
    BY <2>1, <2>2, <2>4, <2>5 DEF Next
<1> QED
  BY <1>1, <1>2, <1>3, PTL DEF Spec, ProtectedKept

-----------------------------------------------------------------------------
(* Asset objects.                                                          *)

(* What an index of the instance names is whole, and an object that exists  *)
(* is whole.                                                                *)
IndexesWhole ==
    \A t \in Path, h \in Hash : h \in tree[t] => \A o \in assetHashes[h] : objects[o] = "whole"

AssetInv ==
    /\ objects \in [Object -> {"absent", "whole"}]
    /\ IndexesWhole

LEMMA ObjectsOf == ASSUME NEW h \in Hash PROVE assetHashes[h] \subseteq Object
BY BuildAssumption

LEMMA SwapKeepsWhole == ASSUME AssetInv, Swap PROVE AssetInv'
<1>1. ASSUME NEW t \in Path, NEW h \in Hash, h \in tree'[t], NEW o \in assetHashes[h]
      PROVE  objects[o] = "whole"
  <2>1. CASE h \in tree[t]
    BY <1>1, <2>1 DEF AssetInv, IndexesWhole
  <2>2. CASE h \notin tree[t]
    <3>1. tree'[t] = Materialize(install(prev, next))[t]
      BY <1>1, <2>2 DEF Swap, Swapped
    <3>2. PICK p \in install(prev, next) : p.hash = h
      BY <1>1, <3>1 DEF Materialize
    <3>3. objects[o] # "absent"
      BY <1>1, <3>2 DEF Swap, placed
    <3> QED
      BY <1>1, <3>3, ObjectsOf DEF AssetInv
  <2> QED
    BY <2>1, <2>2
<1> QED
  BY <1>1 DEF AssetInv, IndexesWhole, Swap, plan, pool

LEMMA StepAssetInv == ASSUME AssetInv, ~cut', [Next]_vars PROVE AssetInv'
<1>1. CASE UNCHANGED vars
  BY <1>1 DEF vars, plan, pool, AssetInv, IndexesWhole
<1>2. ASSUME NEW lock \in Lock, Plan(lock) PROVE AssetInv'
  BY <1>2, BuildAssumption DEF Plan, pool, AssetInv, IndexesWhole
<1>3. CASE Fail \/ writeBuiltLock \/ KillAfterSwap
  BY <1>3 DEF Fail, writeBuiltLock, KillAfterSwap, Forgotten, pool, AssetInv, IndexesWhole
<1>4. CASE EditIgnore
  BY <1>4 DEF EditIgnore, plan, pool, AssetInv, IndexesWhole
<1>5. ASSUME NEW p \in next, NEW o \in Object, materializeObject(p, o) PROVE AssetInv'
  <2>1. objects' \in [Object -> {"absent", "whole"}]
    BY <1>5 DEF materializeObject, AssetInv
  <2>2. \A q \in Object : objects[q] = "whole" => objects'[q] = "whole"
    BY <1>5 DEF materializeObject, AssetInv
  <2>3. IndexesWhole'
    BY <1>5, <2>2, ObjectsOf DEF materializeObject, AssetInv, IndexesWhole
  <2> QED
    BY <1>5, <2>1, <2>3 DEF materializeObject, plan, AssetInv
<1>6. ASSUME NEW p \in next, NEW o \in Object, KillInCopy(p, o) PROVE AssetInv'
  BY <1>6 DEF KillInCopy
<1> QED
  BY <1>1, <1>2, <1>3, <1>4, <1>5, <1>6, SwapKeepsWhole DEF Next

LEMMA InitAssetInv == Init => AssetInv
<1> SUFFICES ASSUME Init PROVE AssetInv
  OBVIOUS
<1>1. \A t \in Path : tree[t] \subseteq {UserBytes}
  BY DEF Init
<1> QED
  BY <1>1, BuildAssumption DEF Init, AssetInv, IndexesWhole

(* A launcher never observes an index without the objects it references,    *)
(* whatever builds fail or are killed elsewhere, until one is killed in the *)
(* copy of an object.                                                       *)
THEOREM IndexesComplete == Spec => []LiveIndexWhole
<1> DEFINE Inv == cut \/ (cut = FALSE /\ AssetInv)
<1>1. Init => Inv
  BY InitAssetInv DEF Init
<1>2. Inv /\ [Next]_vars => Inv'
  BY StepAssetInv, FlagsStay
<1>3. Inv => LiveIndexWhole
  BY DEF AssetInv, IndexesWhole, LiveIndexWhole
<1> QED
  BY <1>1, <1>2, <1>3, PTL DEF Spec

(* Builds that only place what changed leave nothing for `anvil verify` to  *)
(* report, until a build is killed after its swap or in the copy of an      *)
(* object, or .anvilignore is edited.                                       *)
THEOREM VerifyFindsNothing == Spec => []BuildsVerify
<1> DEFINE BInv == parted \/ (parted = FALSE /\ BuildInv)
           AInv == cut \/ (cut = FALSE /\ AssetInv)
<1>1. Init => BInv /\ AInv
  BY InitBuildInv, InitAssetInv DEF Init
<1>2. BInv /\ AInv /\ [Next]_vars => BInv' /\ AInv'
  BY StepBuildInv, StepAssetInv, FlagsStay
<1>3. BInv /\ AInv => BuildsVerify
  <2> SUFFICES ASSUME BuildInv, AssetInv, pc # "swapped",
                      NEW p \in readBuiltLock(built), p.method \in {"link", "asset-tree"}
               PROVE  hashMatches(p) /\ unmaterializedAssets(p) = {}
    BY DEF BuildsVerify, verify
  <2>1. Sound(readBuiltLock(built)) /\ p \in Package
    BY BuiltSound DEF Sound
  <2>2. ASSUME NEW t \in p.targets PROVE tree[t] = {p.hash}
    <3>1. t \in Path /\ t \in targetsOf(readBuiltLock(built))
      BY <2>1, <2>2 DEF Package, targetsOf
    <3>2. tree[t] = Materialize(readBuiltLock(built))[t]
      BY <3>1 DEF BuildInv, Recorded, Matches
    <3>3. ASSUME NEW q \in readBuiltLock(built), t \in q.targets PROVE q.hash = p.hash
      BY <2>1, <2>2, <3>3 DEF Sound, WellFormed, NoPlacementCollision
    <3> QED
      BY <2>2, <3>1, <3>2, <3>3 DEF Materialize
  <2>3. ASSUME NEW o \in assetHashes[p.hash] PROVE objects[o] = "whole"
    <3>1. PICK t \in p.targets : t \in Path
      BY <2>1 DEF Package
    <3> QED
      BY <2>1, <2>2, <3>1 DEF AssetInv, IndexesWhole, Package
  <2> QED
    BY <2>2, <2>3 DEF hashMatches, unmaterializedAssets
<1> QED
  BY <1>1, <1>2, <1>3, PTL DEF Spec
=============================================================================
