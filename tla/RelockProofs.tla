----------------------------- MODULE RelockProofs -----------------------------
(***************************************************************************)
(* The overlay of any two layers (base/overlay.ts): when each of the two   *)
(* has one row per identity and one content per target, so has the lock    *)
(* they make, and no row is lost or left that should not be.               *)
(*                                                                         *)
(* A lock just written reconciles its two layers and keeps the pins of the *)
(* lock before, for every catalogue, manifest, policy and base pack, and   *)
(* for any number of operations, as long as the base pack and the lock     *)
(* before have one row per identity.                                       *)
(*                                                                         *)
(* The worklist of a resolve ends, and leaves every demand met and every   *)
(* fetched row with what it requires; a merge takes each side's changes,   *)
(* and what it resolves fits the game it took; and the graph a lock leaves *)
(* leads from each row to a root.  For these the sequences                 *)
(* that the code filters are reasoned about by induction on their length   *)
(* (Climb), and each step of the command by what it does (Steps).          *)
(***************************************************************************)
EXTENDS Why, FiniteSetTheorems, SequenceTheorems, WellFoundedInduction, TLAPS

-----------------------------------------------------------------------------
(* The overlay.                                                            *)

(* A base member is a row and nothing more.  The fields may be of any kind.*)
IsRow(row) ==
    row = [source |-> row.source, name |-> row.name, locator |-> row.locator,
           version |-> row.version, hash |-> row.hash, target |-> row.target,
           fromBase |-> row.fromBase]
AreRows(rows) == \A row \in rows : IsRow(row)

(* The instance rows that game.remove leaves, and the members that the     *)
(* overlay keeps.                                                          *)
Mine(instance, removes) == instance \ Dropped(instance, removes)
Kept(base, instance, removes) ==
    {member \in base \ Dropped(base, removes) : ~ Overridden(member, Mine(instance, removes))}

LEMMA OverlayIsUnion ==
    ASSUME NEW base, NEW instance, NEW removes
    PROVE  overlayBase(base, instance, removes) =
             {Flagged(member) : member \in Kept(base, instance, removes)} \cup
             {row \in Mine(instance, removes) : ~ Carried(row, Kept(base, instance, removes))}
    BY DEF overlayBase, Mine, Kept

(* Flagging a member changes no answer about it.                           *)
LEMMA FlaggedAlike ==
    ASSUME NEW member, IsRow(member)
    PROVE  /\ Flagged(member).source = member.source
           /\ Flagged(member).name = member.name
           /\ Flagged(member).locator = member.locator
           /\ Flagged(member).version = member.version
           /\ Flagged(member).hash = member.hash
           /\ Flagged(member).target = member.target
    BY DEF Flagged, IsRow

LEMMA FlaggedKey ==
    ASSUME NEW member, IsRow(member)
    PROVE  canonicalKeyOf(Flagged(member)) = canonicalKeyOf(member)
    BY FlaggedAlike DEF canonicalKeyOf

LEMMA FlaggedMatch ==
    ASSUME NEW member, IsRow(member), NEW ref
    PROVE  removeMatch(ref, Flagged(member)) <=> removeMatch(ref, member)
    BY FlaggedAlike, FlaggedKey DEF removeMatch, linkTargetOf

(* A kept member that an instance row shares an identity with is that row, *)
(* and one that shares no identity shares no target either.                *)
LEMMA KeptMember ==
    ASSUME NEW base, NEW instance, NEW removes,
           NEW member \in Kept(base, instance, removes),
           NEW row \in Mine(instance, removes)
    PROVE  /\ member \in base \ Dropped(base, removes)
           /\ SharesKey(row, member) \/ SharesTarget(row, member) =>
                \E same \in Mine(instance, removes) :
                   SharesKey(same, member) /\ sameEntry(member, same)
    BY DEF Kept, Overridden

(* The lock has one row for an identity when each layer has: a member and  *)
(* an instance row of one identity are one entry, and it is the base's.    *)
LEMMA OneRowPerKeyKept ==
    ASSUME NEW base, NEW instance, NEW removes, AreRows(base),
           OneRowPerKey(base), OneRowPerKey(instance)
    PROVE  OneRowPerKey(overlayBase(base, instance, removes))
<1> DEFINE kept == Kept(base, instance, removes)
           mine == Mine(instance, removes)
<1>1. \A member \in kept, row \in mine :
         SharesKey(row, member) => Carried(row, kept)
  <2> SUFFICES ASSUME NEW member \in kept, NEW row \in mine, SharesKey(row, member)
               PROVE  Carried(row, kept)
      OBVIOUS
  <2>1. PICK same \in mine : SharesKey(same, member) /\ sameEntry(member, same)
      BY KeptMember
  <2>2. same = row
      BY <2>1 DEF OneRowPerKey, Mine, SharesKey
  <2> QED
      BY <2>1, <2>2 DEF Carried
<1>2. \A member \in kept : member \in base /\ IsRow(member)
    BY DEF Kept, AreRows
<1>3. \A row \in mine : row \in instance
    BY DEF Mine
<1> SUFFICES ASSUME NEW row \in overlayBase(base, instance, removes),
                    NEW other \in overlayBase(base, instance, removes),
                    SharesKey(row, other)
             PROVE  row = other
    BY DEF OneRowPerKey
<1>4. CASE \E m, n \in kept : row = Flagged(m) /\ other = Flagged(n)
  <2>1. PICK m, n \in kept : row = Flagged(m) /\ other = Flagged(n)
      BY <1>4
  <2>2. SharesKey(m, n)
      BY <2>1, <1>2, FlaggedKey DEF SharesKey
  <2> QED
      BY <2>1, <2>2, <1>2 DEF OneRowPerKey
<1>5. CASE \E m \in kept : \/ row = Flagged(m) /\ other \in mine /\ ~ Carried(other, kept)
                           \/ other = Flagged(m) /\ row \in mine /\ ~ Carried(row, kept)
  <2>1. PICK m \in kept : \/ row = Flagged(m) /\ other \in mine /\ ~ Carried(other, kept)
                          \/ other = Flagged(m) /\ row \in mine /\ ~ Carried(row, kept)
      BY <1>5
  <2>2. SharesKey(other, m) \/ ~ (other \in mine /\ ~ Carried(other, kept)) \/ row # Flagged(m)
      BY <1>2, FlaggedKey DEF SharesKey
  <2>3. SharesKey(row, m) \/ other # Flagged(m)
      BY <1>2, FlaggedKey DEF SharesKey
  <2> QED
      BY <2>1, <2>2, <2>3, <1>1
<1>6. CASE row \in mine /\ other \in mine
    BY <1>6, <1>3 DEF OneRowPerKey
<1> QED
    BY <1>4, <1>5, <1>6, OverlayIsUnion

(* The lock has one content at a target when each layer has: a member that *)
(* lies where an instance row does was overridden, unless another instance *)
(* row is that member, and then the two instance rows collide              *)
(* (resolver/resolve.ts: "Base-vs-instance clashes cannot reach here").    *)
LEMMA CollisionFreeKept ==
    ASSUME NEW base, NEW instance, NEW removes, AreRows(base),
           CollisionFree(base), CollisionFree(instance)
    PROVE  CollisionFree(overlayBase(base, instance, removes))
<1> DEFINE kept == Kept(base, instance, removes)
           mine == Mine(instance, removes)
<1>1. \A member \in kept : member \in base /\ IsRow(member)
    BY DEF Kept, AreRows
<1>2. \A row \in mine : row \in instance
    BY DEF Mine
<1>3. \A member \in kept, row \in mine : ~ Collide(row, member)
  <2> SUFFICES ASSUME NEW member \in kept, NEW row \in mine, Collide(row, member)
               PROVE  FALSE
      OBVIOUS
  <2>1. PICK same \in mine : SharesKey(same, member) /\ sameEntry(member, same)
      BY KeptMember DEF Collide
  <2>2. Collide(row, same)
      BY <2>1 DEF Collide, SharesTarget, sameEntry
  <2> QED
      BY <2>2, <1>2 DEF CollisionFree
<1> SUFFICES ASSUME NEW row \in overlayBase(base, instance, removes),
                    NEW other \in overlayBase(base, instance, removes),
                    Collide(row, other)
             PROVE  FALSE
    BY DEF CollisionFree
<1>4. CASE \E m, n \in kept : row = Flagged(m) /\ other = Flagged(n)
  <2>1. PICK m, n \in kept : row = Flagged(m) /\ other = Flagged(n)
      BY <1>4
  <2>2. Collide(m, n)
      BY <2>1, <1>1, FlaggedAlike DEF Collide, SharesTarget, linkTargetOf
  <2> QED
      BY <2>2, <1>1 DEF CollisionFree
<1>5. CASE \E m \in kept : \/ row = Flagged(m) /\ other \in mine
                           \/ other = Flagged(m) /\ row \in mine
  <2>1. PICK m \in kept : \/ row = Flagged(m) /\ other \in mine
                          \/ other = Flagged(m) /\ row \in mine
      BY <1>5
  <2>2. CASE row = Flagged(m) /\ other \in mine
      BY <2>2, <1>1, <1>3, FlaggedAlike DEF Collide, SharesTarget, linkTargetOf
  <2>3. CASE other = Flagged(m) /\ row \in mine
      BY <2>3, <1>1, <1>3, FlaggedAlike DEF Collide, SharesTarget, linkTargetOf
  <2> QED
      BY <2>1, <2>2, <2>3
<1>6. CASE row \in mine /\ other \in mine
    BY <1>6, <1>2 DEF CollisionFree
<1> QED
    BY <1>4, <1>5, <1>6, OverlayIsUnion

(* What the overlay's own test of a remove matches is gone from the lock,  *)
(* and with it what the remove names by its identity.                      *)
LEMMA RemovedGone ==
    ASSUME NEW base, NEW instance, NEW removes, AreRows(base)
    PROVE  Dropped(overlayBase(base, instance, removes), removes) = {}
<1> SUFFICES ASSUME NEW row \in overlayBase(base, instance, removes),
                    NEW ref \in removes, removeMatch(ref, row)
             PROVE  FALSE
    BY DEF Dropped
<1>1. CASE \E m \in Kept(base, instance, removes) : row = Flagged(m)
  <2>1. PICK m \in Kept(base, instance, removes) : row = Flagged(m)
      BY <1>1
  <2>2. IsRow(m) /\ m \in base /\ m \notin Dropped(base, removes)
      BY DEF Kept, AreRows
  <2> QED
      BY <2>1, <2>2, FlaggedMatch DEF Dropped
<1>2. CASE row \in Mine(instance, removes)
    BY <1>2 DEF Mine, Dropped
<1> QED
    BY <1>1, <1>2, OverlayIsUnion

LEMMA NamedGone ==
    ASSUME NEW base, NEW instance, NEW removes, AreRows(base)
    PROVE  \A row \in overlayBase(base, instance, removes), ref \in removes : ~ NamedBy(ref, row)
    BY RemovedGone DEF Dropped, removeMatch, NamedBy

(* An instance row that was not removed is in the lock, as itself or as    *)
(* the member it is; a member that was not removed is in the lock, or an   *)
(* instance row has its identity or its target.                            *)
LEMMA NothingLost ==
    ASSUME NEW base, NEW instance, NEW removes, AreRows(base),
           OneRowPerKey(instance)
    PROVE  LET rows == overlayBase(base, instance, removes)
           IN  /\ \A row \in instance \ Dropped(instance, removes) :
                    \E same \in rows : SharesKey(same, row) /\ sameEntry(same, row)
               /\ \A member \in base \ Dropped(base, removes) :
                    \E same \in rows : SharesKey(same, member) \/ SharesTarget(same, member)
<1> DEFINE kept == Kept(base, instance, removes)
           mine == Mine(instance, removes)
           rows == overlayBase(base, instance, removes)
<1>1. ASSUME NEW row \in mine
      PROVE  \E same \in rows : SharesKey(same, row) /\ sameEntry(same, row)
  <2>1. CASE ~ Carried(row, kept)
    <3>1. row \in rows
        BY <2>1, OverlayIsUnion
    <3> QED
        BY <3>1 DEF SharesKey, sameEntry
  <2>2. CASE Carried(row, kept)
    <3>1. PICK m \in kept : SharesKey(row, m) /\ sameEntry(m, row)
        BY <2>2 DEF Carried
    <3>2. IsRow(m) /\ Flagged(m) \in rows
        BY OverlayIsUnion DEF Kept, AreRows
    <3> QED
        BY <3>1, <3>2, FlaggedAlike, FlaggedKey DEF SharesKey, sameEntry, linkTargetOf
  <2> QED
      BY <2>1, <2>2
<1>2. ASSUME NEW member \in base \ Dropped(base, removes)
      PROVE  \E same \in rows : SharesKey(same, member) \/ SharesTarget(same, member)
  <2>1. CASE ~ Overridden(member, mine)
    <3>1. Flagged(member) \in rows
        BY <2>1, OverlayIsUnion DEF Kept
    <3> QED
        BY <3>1, FlaggedKey DEF SharesKey, AreRows
  <2>2. CASE Overridden(member, mine)
    <3>1. PICK row \in mine : SharesKey(row, member) \/ SharesTarget(row, member)
        BY <2>2 DEF Overridden
    <3>2. PICK same \in rows : SharesKey(same, row) /\ sameEntry(same, row)
        BY <1>1
    <3> QED
        BY <3>1, <3>2 DEF SharesKey, SharesTarget, sameEntry
  <2> QED
      BY <2>1, <2>2
<1> QED
    BY <1>1, <1>2 DEF Mine

(* The overlay of two layers that are each well formed reconciles them:    *)
(* one row for an identity, one content at a target, nothing of either     *)
(* layer lost that is not displaced or removed, and nothing left that a    *)
(* remove names by its identity.                                           *)
THEOREM OverlayReconciles ==
    ASSUME NEW base, NEW instance, NEW removes, AreRows(base),
           OneRowPerKey(base), OneRowPerKey(instance),
           CollisionFree(base), CollisionFree(instance)
    PROVE  Reconciled(base, instance, removes, overlayBase(base, instance, removes))
    BY OneRowPerKeyKept, CollisionFreeKept, NamedGone, NothingLost DEF Reconciled

-----------------------------------------------------------------------------
(* A resolve.                                                              *)

Active == job.phase \in {"base", "items", "graph", "done"}

(* A command that resolves is a record of all that a resolve reads.        *)
Fields == {"phase", "kind", "manifest", "clock", "prior", "pins", "upgrade", "offline",
           "base", "release", "queue", "resolved", "alias", "demands", "edges", "fetched", "sides"}
JobShape ==
    /\ job.phase \in {"idle", "base", "items", "graph", "done", "import", "adopted"}
    /\ Active => Fields \subseteq DOMAIN job

(* What is resolved is filed under its own key.                            *)
Keyed(resolved) == \A key \in DOMAIN resolved : canonicalKeyOf(resolved[key]) = key

ResolvedKeyed == Active => Keyed(job.resolved) /\ AreRows(job.base)

(* The lock is what the overlay made of the layers of the command.         *)
LockIsOverlay ==
    job.phase \in {"graph", "done"} => lock.rows = Effective /\ CollisionFree(lock.rows)

Inv == JobShape /\ ResolvedKeyed /\ LockIsOverlay

-----------------------------------------------------------------------------
(* The members of a pack are rows, by the way they are made.               *)
LEMMA MembersAreRows ==
    ASSUME NEW release
    PROVE  AreRows(Members(release))
    BY DEF AreRows, IsRow, Members, trackedRow, MemberRow

LEMMA PinHasKey ==
    ASSUME NEW key, NEW row \in Pins(key)
    PROVE  canonicalKeyOf(row) = key
    BY DEF Pins, PinOf

LEMMA KeyedAdd ==
    ASSUME NEW resolved, Keyed(resolved), NEW row
    PROVE  Keyed(Put(resolved, canonicalKeyOf(row), row))
    BY DEF Keyed, Put

LEMMA StartedShape ==
    ASSUME NEW kind, NEW over, NEW pins, NEW upgrade, NEW offline, NEW sides
    PROVE  LET started == Started(kind, over, pins, upgrade, offline, sides)
           IN  /\ Fields \subseteq DOMAIN started
               /\ started.phase = "base"
               /\ Keyed(started.resolved) /\ AreRows(started.base)
    BY DEF Started, Fields, Keyed, AreRows

-----------------------------------------------------------------------------
(* A step that leaves the worklist where it was, or stops, or goes on with *)
(* one row more, keeps the invariant.                                      *)
LEMMA Stopping ==
    ASSUME Stops
    PROVE  Inv'
    BY DEF Stops, Idle, Inv, JobShape, ResolvedKeyed, LockIsOverlay, Active

LEMMA Standing ==
    ASSUME Inv, UNCHANGED <<lock, job>>
    PROVE  Inv'
    BY DEF Inv, JobShape, ResolvedKeyed, LockIsOverlay, Active, Effective, Resolved, LocalRemoves

LEMMA Popping ==
    ASSUME Inv, job.phase = "items"
    PROVE  /\ Fields \subseteq DOMAIN Popped
           /\ Popped.phase = "items"
           /\ Popped.resolved = job.resolved
           /\ Popped.base = job.base
    BY DEF Inv, JobShape, Active, Fields, Popped

(* The worklist goes on.                                                   *)
LEMMA GoesOn ==
    ASSUME job'.phase = "items", Fields \subseteq DOMAIN job',
           Keyed(job'.resolved), AreRows(job'.base)
    PROVE  Inv'
    BY DEF Inv, JobShape, ResolvedKeyed, LockIsOverlay, Active

LEMMA MeetsKeeps ==
    ASSUME Inv, job.phase = "items", NEW key, Meets(key)
    PROVE  Inv'
<1>1. CASE Stops
    BY <1>1, Stopping
<1>2. CASE job' = [Popped EXCEPT !.alias = Put(@, Key, key), !.edges = @ \cup {Edge(key, job.resolved[key])}]
    <2>1. /\ Fields \subseteq DOMAIN job'
          /\ job'.phase = Popped.phase
          /\ job'.resolved = Popped.resolved
          /\ job'.base = Popped.base
        BY <1>2, Popping DEF Fields
    <2> QED
        BY <2>1, Popping, GoesOn DEF Inv, ResolvedKeyed, Active
<1> QED
    BY <1>1, <1>2 DEF Meets

(* A lock is written of a resolution that was not refused.                 *)
LEMMA Writing ==
    ASSUME Inv, job.phase = "items", ~ Refused,
           lock'.rows = Effective,
           job'.phase \in {"graph", "done"}, Fields \subseteq DOMAIN job',
           job'.resolved = job.resolved, job'.base = job.base, job'.manifest = job.manifest
    PROVE  Inv'
<1>1. Effective' = Effective
    BY DEF Effective, Resolved, LocalRemoves
<1>2. CollisionFree(Effective)
    BY DEF Refused
<1> QED
    BY <1>1, <1>2 DEF Inv, JobShape, ResolvedKeyed, LockIsOverlay, Active

-----------------------------------------------------------------------------
(* Action by action.                                                       *)
LEMMA BaseLayerKeeps ==
    ASSUME Inv, ResolveBaseLayer
    PROVE  Inv'
<1>1. CASE Stops
    BY <1>1, Stopping
<1>2. CASE \E release : Begin(release)
  <2>1. PICK release : Begin(release)
      BY <1>2
  <2>2. Fields \subseteq DOMAIN job /\ Keyed(job.resolved)
      BY DEF ResolveBaseLayer, Inv, JobShape, ResolvedKeyed, Active
  <2>3. /\ job'.phase = "items"
        /\ Fields \subseteq DOMAIN job'
        /\ job'.resolved = job.resolved
        /\ job'.base = IF release = NoBase THEN {} ELSE Members(release)
      BY <2>1, <2>2 DEF Begin, Fields
  <2>4. AreRows(job'.base)
      BY <2>3, MembersAreRows DEF AreRows
  <2> QED
      BY <2>2, <2>3, <2>4, GoesOn
<1> QED
    BY <1>1, <1>2 DEF ResolveBaseLayer

LEMMA ReusePinKeeps ==
    ASSUME Inv, ReusePin
    PROVE  Inv'
<1>1. PICK row \in Pins(Key) :
         job' = [Popped EXCEPT !.resolved = Put(@, Key, row), !.alias = Put(@, Key, Key),
                               !.edges = @ \cup {Edge(Key, row)}]
    BY DEF ReusePin
<1>2. job.phase = "items" /\ Keyed(job.resolved) /\ AreRows(job.base)
    BY DEF ReusePin, AtRef, Inv, ResolvedKeyed, Active
<1>3. /\ job'.phase = "items"
      /\ Fields \subseteq DOMAIN job'
      /\ job'.resolved = Put(job.resolved, Key, row)
      /\ job'.base = job.base
    BY <1>1, <1>2, Popping DEF Fields
<1>4. Keyed(job'.resolved)
    BY <1>2, <1>3, PinHasKey, KeyedAdd
<1> QED
    BY <1>2, <1>3, <1>4, GoesOn

LEMMA FetchKeeps ==
    ASSUME Inv, Fetch
    PROVE  Inv'
<1>1. job.phase = "items" /\ Keyed(job.resolved) /\ AreRows(job.base)
    BY DEF Fetch, AtRef, Inv, ResolvedKeyed, Active
<1>2. CASE Stops
    BY <1>2, Stopping
<1>3. CASE \E key : Meets(key)
    BY <1>1, <1>3, MeetsKeeps
<1>4. ASSUME NEW result \in resolve(Next1.ref, job.clock, job.manifest.game.minecraft),
             LET row == result.pkg
                 key == canonicalKeyOf(row)
                 kept == Pins(key)
             IN  IF key \in DOMAIN job.resolved THEN Meets(key)
                 ELSE \E chosen \in IF kept # {} THEN kept ELSE {row} :
                        job' = [Popped EXCEPT
                                  !.resolved = Put(@, key, chosen),
                                  !.alias = Put(@, Key, key),
                                  !.edges = @ \cup {Edge(key, row)},
                                  !.fetched = IF kept = {} THEN @ \cup {key} ELSE @,
                                  !.queue = @ \o Enqueue(result.dependencies, row.name)]
      PROVE  Inv'
  <2> DEFINE row == result.pkg
             key == canonicalKeyOf(row)
             kept == Pins(key)
  <2>1. CASE Meets(key)
      BY <2>1, <1>3
  <2>2. CASE \E chosen \in IF kept # {} THEN kept ELSE {row} :
               job' = [Popped EXCEPT
                         !.resolved = Put(@, key, chosen),
                         !.alias = Put(@, Key, key),
                         !.edges = @ \cup {Edge(key, row)},
                         !.fetched = IF kept = {} THEN @ \cup {key} ELSE @,
                         !.queue = @ \o Enqueue(result.dependencies, row.name)]
    <3>1. PICK chosen \in IF kept # {} THEN kept ELSE {row} :
               job' = [Popped EXCEPT
                         !.resolved = Put(@, key, chosen),
                         !.alias = Put(@, Key, key),
                         !.edges = @ \cup {Edge(key, row)},
                         !.fetched = IF kept = {} THEN @ \cup {key} ELSE @,
                         !.queue = @ \o Enqueue(result.dependencies, row.name)]
        BY <2>2
    <3>2. canonicalKeyOf(chosen) = key
        BY <3>1, PinHasKey
    <3>3. /\ job'.phase = "items"
          /\ Fields \subseteq DOMAIN job'
          /\ job'.resolved = Put(job.resolved, canonicalKeyOf(chosen), chosen)
          /\ job'.base = job.base
        BY <1>1, <3>1, <3>2, Popping DEF Fields
    <3> QED
        BY <1>1, <3>3, KeyedAdd, GoesOn
  <2> QED
      BY <1>4, <2>1, <2>2
<1> QED
    BY <1>2, <1>4 DEF Fetch

LEMMA WriteLockKeeps ==
    ASSUME Inv, WriteLock
    PROVE  Inv'
<1>1. job.phase = "items" /\ ~ Refused /\ Fields \subseteq DOMAIN job
    BY DEF WriteLock, AtEnd, Inv, JobShape, Active
<1>2. lock'.rows = Effective
    BY DEF WriteLock, NewLock
<1>3. /\ job'.phase = "graph"
      /\ Fields \subseteq DOMAIN job'
      /\ job'.resolved = job.resolved
      /\ job'.base = job.base
      /\ job'.manifest = job.manifest
    BY <1>1 DEF WriteLock, Fields
<1> QED
    BY <1>1, <1>2, <1>3, Writing

LEMMA WriteMergeKeeps ==
    ASSUME Inv, WriteMerge
    PROVE  Inv'
<1>1. job.phase = "items" /\ ~ Refused /\ Fields \subseteq DOMAIN job
    BY DEF WriteMerge, AtEnd, Inv, JobShape, Active
<1>2. lock'.rows = Effective
    BY DEF WriteMerge, reLocked, NewLock
<1>3. /\ job'.phase = "done"
      /\ Fields \subseteq DOMAIN job'
      /\ job'.resolved = job.resolved
      /\ job'.base = job.base
      /\ job'.manifest = job.manifest
    BY <1>1 DEF WriteMerge, Fields
<1> QED
    BY <1>1, <1>2, <1>3, Writing

LEMMA WriteGraphKeeps ==
    ASSUME Inv, WriteGraph
    PROVE  Inv'
<1>1. job.phase = "graph" /\ Fields \subseteq DOMAIN job
    BY DEF WriteGraph, Inv, JobShape, Active
<1>2. /\ job'.phase = "done"
      /\ Fields \subseteq DOMAIN job'
      /\ job'.resolved = job.resolved
      /\ job'.base = job.base
      /\ job'.manifest = job.manifest
      /\ lock' = lock
    BY <1>1 DEF WriteGraph, Fields
<1>3. Effective' = Effective
    BY <1>2 DEF Effective, Resolved, LocalRemoves
<1> QED
    BY <1>1, <1>2, <1>3 DEF Inv, JobShape, ResolvedKeyed, LockIsOverlay, Active

(* A command that starts has nothing resolved.                             *)
LEMMA StartKeeps ==
    ASSUME NEW kind, NEW over, NEW pins, NEW upgrade, NEW offline, NEW sides,
           job' = Started(kind, over, pins, upgrade, offline, sides)
    PROVE  Inv'
    BY StartedShape DEF Inv, JobShape, ResolvedKeyed, LockIsOverlay, Active

LEMMA ImportKeeps ==
    ASSUME Inv, Import \/ ImportLock \/ ImportGraph
    PROVE  Inv'
<1>1. CASE Import
    BY <1>1 DEF Import, Inv, JobShape, ResolvedKeyed, LockIsOverlay, Active
<1>2. CASE ImportLock
    BY <1>2 DEF ImportLock, Inv, JobShape, ResolvedKeyed, LockIsOverlay, Active
<1>3. CASE ImportGraph
    BY <1>3, Stopping DEF ImportGraph
<1> QED
    BY <1>1, <1>2, <1>3

LEMMA BranchesKeep ==
    ASSUME Inv, \/ Fork \/ Switch
                \/ \E strategy \in {"ours", "theirs", "newest", "manual"} : Merge(strategy)
    PROVE  Inv'
<1>1. CASE Fork \/ Switch
    BY <1>1, Stopping DEF Fork, Switch, Stops
<1>2. ASSUME NEW strategy \in {"ours", "theirs", "newest", "manual"}, Merge(strategy)
      PROVE  Inv'
  <2>1. CASE job' = Idle
      BY <2>1, Stopping DEF Stops
  <2>2. CASE Merged(strategy).clean
      BY <1>2, <2>2, StartKeeps DEF Merge
  <2> QED
      BY <1>2, <2>1, <2>2 DEF Merge
<1> QED
    BY <1>1, <1>2

LEMMA UsersKeep ==
    ASSUME Inv,
           \/ \E ref \in Menu : addItem(ref) \/ removeItem(ref)
           \/ \E game \in GameMenu : EditGame(game)
           \/ \E p \in DOMAIN published : Publish(p)
           \/ LoseCache
    PROVE  Inv'
<1>1. job' = Idle \/ (job' = job /\ lock' = lock)
    BY DEF addItem, removeItem, EditGame, Publish, LoseCache, Rests
<1> QED
    BY <1>1, Stopping, Standing DEF Stops

LEMMA InvInit ==
    Init => Inv
    BY DEF Init, Idle, Inv, JobShape, ResolvedKeyed, LockIsOverlay, Active

LEMMA InvNext ==
    Inv /\ [Next]_vars => Inv'
<1> SUFFICES ASSUME Inv, [Next]_vars
             PROVE  Inv'
    OBVIOUS
<1>1. CASE ResolveBaseLayer
    BY <1>1, BaseLayerKeeps
<1>2. CASE RefuseSource \/ RefuseOffline \/ RefuseResult \/ Kill
    BY <1>2, Stopping DEF RefuseSource, RefuseOffline, RefuseResult, Kill
<1>3. CASE Dedupe
  <2>1. job.phase = "items" /\ Meets(job.alias[Key])
      BY <1>3 DEF Dedupe, AtRef
  <2> QED
      BY <2>1, MeetsKeeps
<1>4. CASE ReusePin
    BY <1>4, ReusePinKeeps
<1>5. CASE Fetch
    BY <1>5, FetchKeeps
<1>6. CASE WriteLock \/ WriteGraph \/ WriteMerge
    BY <1>6, WriteLockKeeps, WriteGraphKeeps, WriteMergeKeeps
<1>7. CASE ImportLock \/ ImportGraph \/ Import
    BY <1>7, ImportKeeps
<1>8. CASE \E how \in LockMenu : Lock(how.upgrade, how.offline)
    BY <1>8, StartKeeps DEF Lock
<1>9. CASE Fork \/ Switch \/ \E strategy \in {"ours", "theirs", "newest", "manual"} : Merge(strategy)
    BY <1>9, BranchesKeep
<1>10. CASE \/ \E ref \in Menu : addItem(ref) \/ removeItem(ref)
            \/ \E game \in GameMenu : EditGame(game)
            \/ \E p \in DOMAIN published : Publish(p)
            \/ LoseCache
    BY <1>10, UsersKeep
<1>11. CASE UNCHANGED vars
    BY <1>11, Standing DEF vars
<1> QED
    BY <1>1, <1>2, <1>3, <1>4, <1>5, <1>6, <1>7, <1>8, <1>9, <1>10, <1>11 DEF Next, Resolve

-----------------------------------------------------------------------------
LEMMA KeyedIsOneRow ==
    ASSUME Keyed(job.resolved)
    PROVE  OneRowPerKey(Resolved)
<1> SUFFICES ASSUME NEW k \in DOMAIN job.resolved, NEW l \in DOMAIN job.resolved,
                    SharesKey(job.resolved[k], job.resolved[l])
             PROVE  job.resolved[k] = job.resolved[l]
    BY DEF OneRowPerKey, Resolved
<1> QED
    BY DEF Keyed, SharesKey

LEMMA InvReconciles ==
    Inv /\ OneRowPerKey(job.base) => LayersReconciled
<1> SUFFICES ASSUME Inv, OneRowPerKey(job.base), job.phase = "done"
             PROVE  Reconciled(job.base, Resolved, LocalRemoves, lock.rows)
    BY DEF LayersReconciled, Written
<1>1. /\ lock.rows = overlayBase(job.base, Resolved, LocalRemoves)
      /\ CollisionFree(lock.rows)
      /\ OneRowPerKey(Resolved)
      /\ AreRows(job.base)
    BY KeyedIsOneRow DEF Inv, ResolvedKeyed, LockIsOverlay, Effective, Active
<1> QED
    BY <1>1, OneRowPerKeyKept, NamedGone, NothingLost DEF Reconciled

(* Every lock that is written reconciles its layers, when its base pack    *)
(* has one row per identity: nobody else checks that of a pack.            *)
THEOREM LocksReconciled ==
    Spec => [](OneRowPerKey(job.base) => LayersReconciled)
<1>1. Inv => (OneRowPerKey(job.base) => LayersReconciled)
    BY InvReconciles
<1> QED
    BY InvInit, InvNext, <1>1, PTL DEF Spec

-----------------------------------------------------------------------------
(* The pins.  Every name a demand was made under leads to what is resolved,*)
(* and a pin that has to stay is what is resolved.                         *)
AliasesKnown ==
    Active => /\ \A name \in DOMAIN job.alias : job.alias[name] \in DOMAIN job.resolved
              /\ \A d \in job.demands : d.key \in DOMAIN job.alias

PinsStay == Active /\ OneRowPerKey(job.pins) => \A row \in job.pins : PinStays(row)

LoaderKept ==
    job.phase \in {"graph", "done"} /\ job.kind = "lock" /\ job.prior # NoLock => LoaderStays

PinInv == AliasesKnown /\ PinsStay /\ LoaderKept

LEMMA PinsIdle ==
    ASSUME job'.phase \in {"idle", "import", "adopted"}
    PROVE  PinInv'
    BY DEF PinInv, AliasesKnown, PinsStay, LoaderKept, Active

LEMMA PinsStanding ==
    ASSUME PinInv, UNCHANGED <<lock, job>>
    PROVE  PinInv'
    BY DEF PinInv, AliasesKnown, PinsStay, LoaderKept, LoaderStays, Active, PinStays, DemandsOn

LEMMA PinsStarted ==
    ASSUME NEW kind, NEW over, NEW pins, NEW upgrade, NEW offline, NEW sides,
           job' = Started(kind, over, pins, upgrade, offline, sides)
    PROVE  PinInv'
<1>1. /\ job'.phase = "base"
      /\ job'.resolved = <<>>
      /\ job'.alias = <<>>
      /\ job'.demands = {}
    BY DEF Started
<1> QED
    BY <1>1 DEF PinInv, AliasesKnown, PinsStay, LoaderKept, Active, PinStays

(* A step that leaves what was resolved, demanded and named.               *)
LEMMA PinsCarried ==
    ASSUME PinInv, Active,
           job'.resolved = job.resolved, job'.alias = job.alias, job'.demands = job.demands,
           job'.pins = job.pins, job'.upgrade = job.upgrade
    PROVE  AliasesKnown' /\ PinsStay'
    BY DEF PinInv, AliasesKnown, PinsStay, Active, PinStays, DemandsOn

(* A ref is popped and its name leads to key.  A pin stays, or the step has*)
(* found it an upgrade or a demand that it does not satisfy.               *)
LEMMA PinsAdvance ==
    ASSUME PinInv, Active, job'.phase = "items",
           NEW key, Key \in DOMAIN job.alias => job.alias[Key] = key,
           job'.alias = Put(job.alias, Key, key),
           job'.demands = Popped.demands,
           Popped.demands = job.demands \cup
               {[key |-> Key, by |-> Next1.by, spec |-> Next1.ref.spec]},
           job'.pins = job.pins, job'.upgrade = job.upgrade,
           \/ /\ key \in DOMAIN job.resolved
              /\ job'.resolved = job.resolved
           \/ /\ \E chosen : job'.resolved = Put(job.resolved, key, chosen)
              /\ OneRowPerKey(job.pins) =>
                   \A row \in job.pins : canonicalKeyOf(row) = key =>
                      \/ job'.resolved[key] = row
                      \/ isUpgraded(job.upgrade, key)
                      \/ ~ specSatisfiedBy(Next1.ref.spec, row)
    PROVE  PinInv'
<1> DEFINE d == [key |-> Key, by |-> Next1.by, spec |-> Next1.ref.spec]
<1>1. \A k \in DOMAIN job.resolved : k # key =>
         k \in DOMAIN job'.resolved /\ job'.resolved[k] = job.resolved[k]
    BY DEF Put
<1>2. DOMAIN job'.resolved = DOMAIN job.resolved \cup {key}
    BY DEF Put
<1>3. \A e \in job.demands : e.key \in DOMAIN job'.alias /\ job'.alias[e.key] = job.alias[e.key]
    BY DEF PinInv, AliasesKnown, Put
<1>4. d \in job'.demands /\ job'.alias[d.key] = key
    BY DEF Put
<1>5. AliasesKnown'
  <2>1. \A name \in DOMAIN job'.alias : job'.alias[name] \in DOMAIN job'.resolved
      BY <1>2 DEF PinInv, AliasesKnown, Put
  <2>2. \A e \in job'.demands : e.key \in DOMAIN job'.alias
      BY <1>3 DEF Put
  <2> QED
      BY <2>1, <2>2 DEF AliasesKnown
<1>6. ASSUME OneRowPerKey(job.pins), NEW row \in job.pins
      PROVE  PinStays(row)'
  <2> DEFINE k == canonicalKeyOf(row)
  <2> SUFFICES ASSUME k \in DOMAIN job'.resolved,
                      ~ isUpgraded(job.upgrade, k),
                      \A e \in job'.demands : job'.alias[e.key] = k => specSatisfiedBy(e.spec, row)
               PROVE  job'.resolved[k] = row
      BY DEF PinStays, DemandsOn
  <2>1. PinStays(row)
      BY <1>6 DEF PinInv, PinsStay
  <2>2. \A e \in job.demands : job.alias[e.key] = k => specSatisfiedBy(e.spec, row)
      BY <1>3
  <2>3. CASE k # key \/ job'.resolved = job.resolved
    <3>1. k \in DOMAIN job.resolved /\ job'.resolved[k] = job.resolved[k]
        BY <1>1, <1>2, <2>3
    <3> QED
        BY <2>1, <2>2, <3>1 DEF PinStays, DemandsOn
  <2>4. CASE k = key /\ job'.resolved # job.resolved
    <3>1. specSatisfiedBy(Next1.ref.spec, row)
        BY <1>4, <2>4
    <3> QED
        BY <1>6, <2>4, <3>1
  <2> QED
      BY <2>3, <2>4
<1>7. PinsStay'
    BY <1>6 DEF PinsStay
<1> QED
    BY <1>5, <1>7 DEF PinInv, LoaderKept

-----------------------------------------------------------------------------
LEMMA PinsPopping ==
    ASSUME Inv, job.phase = "items"
    PROVE  /\ Popped.alias = job.alias
           /\ Popped.demands = job.demands \cup
                 {[key |-> Key, by |-> Next1.by, spec |-> Next1.ref.spec]}
           /\ Popped.pins = job.pins
           /\ Popped.upgrade = job.upgrade
    BY DEF Inv, JobShape, Active, Fields, Popped

LEMMA PinsMeet ==
    ASSUME Inv, PinInv, job.phase = "items", NEW key \in DOMAIN job.resolved, Meets(key),
           Key \in DOMAIN job.alias => job.alias[Key] = key
    PROVE  PinInv'
<1>1. CASE Stops
    BY <1>1, PinsIdle DEF Stops, Idle
<1>2. CASE job' = [Popped EXCEPT !.alias = Put(@, Key, key), !.edges = @ \cup {Edge(key, job.resolved[key])}]
  <2>1. /\ job'.phase = "items"
        /\ job'.alias = Put(job.alias, Key, key)
        /\ job'.demands = Popped.demands
        /\ job'.pins = job.pins
        /\ job'.upgrade = job.upgrade
        /\ job'.resolved = job.resolved
      BY <1>2, Popping, PinsPopping DEF Fields
  <2>2. Active
      BY DEF Active
  <2> QED
      BY <2>1, <2>2, PinsPopping, PinsAdvance
<1> QED
    BY <1>1, <1>2 DEF Meets

(* A name that is known leads to something that is resolved.               *)
LEMMA UnknownIsNew ==
    ASSUME PinInv, job.phase = "items", ~ Known
    PROVE  Key \notin DOMAIN job.alias
    BY DEF PinInv, AliasesKnown, Active, Known

(* What a pin yields is the pin, where there is one row per identity.      *)
LEMMA PinIsKept ==
    ASSUME NEW key, NEW chosen \in Pins(key), OneRowPerKey(job.pins),
           NEW row \in job.pins, canonicalKeyOf(row) = key
    PROVE  chosen = row
<1>1. row \in PinOf(key, job.pins)
    BY DEF PinOf
<1>2. chosen \in PinOf(key, job.pins)
    BY <1>1 DEF Pins
<1> QED
    BY <1>1, <1>2 DEF PinOf, OneRowPerKey, SharesKey

LEMMA PinIsFreed ==
    ASSUME NEW key, Pins(key) = {}, NEW row \in job.pins, canonicalKeyOf(row) = key
    PROVE  isUpgraded(job.upgrade, key) \/ ~ specSatisfiedBy(Next1.ref.spec, row)
    BY DEF Pins, PinOf

LEMMA PinsReused ==
    ASSUME Inv, PinInv, ReusePin
    PROVE  PinInv'
<1>1. PICK row \in Pins(Key) :
         job' = [Popped EXCEPT !.resolved = Put(@, Key, row), !.alias = Put(@, Key, Key),
                               !.edges = @ \cup {Edge(Key, row)}]
    BY DEF ReusePin
<1>2. job.phase = "items" /\ Active /\ ~ Known
    BY DEF ReusePin, AtRef, Active
<1>3. /\ job'.phase = "items"
      /\ job'.alias = Put(job.alias, Key, Key)
      /\ job'.demands = Popped.demands
      /\ job'.pins = job.pins
      /\ job'.upgrade = job.upgrade
      /\ job'.resolved = Put(job.resolved, Key, row)
    BY <1>1, <1>2, Popping, PinsPopping DEF Fields
<1>4. job'.resolved[Key] = row
    BY <1>3 DEF Put
<1>5. OneRowPerKey(job.pins) =>
         \A pin \in job.pins : canonicalKeyOf(pin) = Key => job'.resolved[Key] = pin
    BY <1>4, PinIsKept
<1> QED
    BY <1>2, <1>3, <1>5, PinsPopping, UnknownIsNew, PinsAdvance

LEMMA PinsFetched ==
    ASSUME Inv, PinInv, Fetch
    PROVE  PinInv'
<1>1. job.phase = "items" /\ Active /\ Key \notin DOMAIN job.alias
    BY UnknownIsNew DEF Fetch, AtRef, Active
<1>2. CASE Stops
    BY <1>2, PinsIdle DEF Stops, Idle
<1>3. ASSUME NEW key \in DOMAIN job.resolved, Meets(key)
      PROVE  PinInv'
    BY <1>1, <1>3, PinsMeet
<1>4. ASSUME NEW row, NEW asked, NEW key, key = canonicalKeyOf(row),
             NEW chosen \in IF Pins(key) # {} THEN Pins(key) ELSE {row},
             job' = [Popped EXCEPT
                       !.resolved = Put(@, key, chosen),
                       !.alias = Put(@, Key, key),
                       !.edges = @ \cup {Edge(key, row)},
                       !.fetched = IF Pins(key) = {} THEN @ \cup {key} ELSE @,
                       !.queue = @ \o Enqueue(asked, row.name)]
      PROVE  PinInv'
  <2>1. /\ job'.phase = "items"
        /\ job'.alias = Put(job.alias, Key, key)
        /\ job'.demands = Popped.demands
        /\ job'.pins = job.pins
        /\ job'.upgrade = job.upgrade
        /\ job'.resolved = Put(job.resolved, key, chosen)
      BY <1>1, <1>4, Popping, PinsPopping DEF Fields
  <2>2. job'.resolved[key] = chosen
      BY <2>1 DEF Put
  <2>3. ASSUME OneRowPerKey(job.pins), NEW pin \in job.pins, canonicalKeyOf(pin) = key
        PROVE  \/ job'.resolved[key] = pin
               \/ isUpgraded(job.upgrade, key)
               \/ ~ specSatisfiedBy(Next1.ref.spec, pin)
    <3>1. CASE Pins(key) = {}
        BY <2>3, <3>1, PinIsFreed
    <3>2. CASE Pins(key) # {}
        BY <1>4, <2>2, <2>3, <3>2, PinIsKept
    <3> QED
        BY <3>1, <3>2
  <2> QED
      BY <1>1, <2>1, <2>3, PinsPopping, PinsAdvance
<1> QED
    BY <1>2, <1>3, <1>4 DEF Fetch

(* What the loader is locked at.                                           *)
LEMMA LoaderOfTheLock ==
    ASSUME Inv, PinInv, WriteLock, job.prior # NoLock,
           ~ job.upgrade.all, job.manifest.game.loader = {}
    PROVE  lock'.loader = job.prior.loader
<1>1. PICK game \in GameInstalls :
         lock' = NewLock(game.client, game.loader, job.manifest.game.minecraft)
    BY DEF WriteLock
<1>2. lock'.loader = game.loader
    BY <1>1 DEF NewLock
<1>3. CASE job.offline
    BY <1>1, <1>2, <1>3 DEF GameInstalls
<1>4. CASE ~ job.offline
  <2>1. wantedLoader(job.manifest.game, job.prior, job.upgrade) = {job.prior.loader}
      BY DEF wantedLoader, priorLoaderVersion
  <2>2. game.loader \in {job.prior.loader}
      BY <1>1, <1>4, <2>1 DEF GameInstalls, resolveGameInstall, selectForgeVersion, selectLoaderVersion
  <2> QED
      BY <1>2, <2>2
<1> QED
    BY <1>3, <1>4

-----------------------------------------------------------------------------
LEMMA PinInvInit ==
    Init => PinInv
    BY DEF Init, Idle, PinInv, AliasesKnown, PinsStay, LoaderKept, Active

LEMMA PinsOfBase ==
    ASSUME Inv, PinInv, ResolveBaseLayer
    PROVE  PinInv'
<1>1. CASE Stops
    BY <1>1, PinsIdle DEF Stops, Idle
<1>2. CASE \E release : Begin(release)
  <2>1. Fields \subseteq DOMAIN job /\ Active
      BY DEF ResolveBaseLayer, Inv, JobShape, Active
  <2>2. /\ job'.phase = "items"
        /\ job'.resolved = job.resolved
        /\ job'.alias = job.alias
        /\ job'.demands = job.demands
        /\ job'.pins = job.pins
        /\ job'.upgrade = job.upgrade
      BY <1>2, <2>1 DEF Begin, Fields
  <2> QED
      BY <2>1, <2>2, PinsCarried DEF PinInv, LoaderKept
<1> QED
    BY <1>1, <1>2 DEF ResolveBaseLayer

LEMMA PinsWritten ==
    ASSUME Inv, PinInv, WriteLock \/ WriteGraph \/ WriteMerge
    PROVE  PinInv'
<1>1. Fields \subseteq DOMAIN job /\ Active
    BY DEF WriteLock, WriteGraph, WriteMerge, AtEnd, Inv, JobShape, Active
<1>2. /\ job'.resolved = job.resolved
      /\ job'.alias = job.alias
      /\ job'.demands = job.demands
      /\ job'.pins = job.pins
      /\ job'.upgrade = job.upgrade
      /\ job'.kind = job.kind
      /\ job'.prior = job.prior
      /\ job'.manifest = job.manifest
    BY <1>1 DEF WriteLock, WriteGraph, WriteMerge, Fields
<1>3. CASE WriteLock
    BY <1>1, <1>2, <1>3, PinsCarried, LoaderOfTheLock DEF PinInv, LoaderKept, LoaderStays
<1>4. CASE WriteGraph
  <2>1. LoaderKept'
      BY <1>2, <1>4 DEF WriteGraph, PinInv, LoaderKept, LoaderStays
  <2> QED
      BY <1>1, <1>2, <2>1, PinsCarried DEF PinInv
<1>5. CASE WriteMerge
  <2>1. job'.kind = "merge"
      BY <1>2, <1>5 DEF WriteMerge
  <2> QED
      BY <1>1, <1>2, <2>1, PinsCarried DEF PinInv, LoaderKept
<1> QED
    BY <1>3, <1>4, <1>5

LEMMA PinsOfOthers ==
    ASSUME Inv, PinInv,
           \/ RefuseSource \/ RefuseOffline \/ RefuseResult \/ Kill
           \/ ImportLock \/ ImportGraph
           \/ Import
           \/ \E how \in LockMenu : Lock(how.upgrade, how.offline)
           \/ Fork \/ Switch
           \/ \E strategy \in {"ours", "theirs", "newest", "manual"} : Merge(strategy)
           \/ \E ref \in Menu : addItem(ref) \/ removeItem(ref)
           \/ \E game \in GameMenu : EditGame(game)
           \/ \E p \in DOMAIN published : Publish(p)
           \/ LoseCache
    PROVE  PinInv'
<1>1. CASE job'.phase \in {"idle", "import", "adopted"}
    BY <1>1, PinsIdle
<1>2. CASE UNCHANGED <<lock, job>>
    BY <1>2, PinsStanding
<1>3. CASE \E kind, over, pins, upgrade, offline, sides :
             job' = Started(kind, over, pins, upgrade, offline, sides)
    BY <1>3, PinsStarted
<1>4. CASE RefuseSource \/ RefuseOffline \/ RefuseResult \/ Kill \/ ImportGraph
    BY <1>1, <1>4 DEF RefuseSource, RefuseOffline, RefuseResult, Kill, ImportGraph, Stops, Idle
<1>5. CASE ImportLock
    BY <1>1, <1>5 DEF ImportLock, Inv, JobShape
<1>6. CASE Import
    BY <1>1, <1>6 DEF Import
<1>7. CASE Fork \/ Switch \/ LoseCache
    BY <1>1, <1>7 DEF Fork, Switch, LoseCache, Idle
<1>8. CASE \E how \in LockMenu : Lock(how.upgrade, how.offline)
    BY <1>3, <1>8 DEF Lock
<1>9. ASSUME NEW strategy \in {"ours", "theirs", "newest", "manual"}, Merge(strategy)
      PROVE  PinInv'
  <2>1. CASE Merged(strategy).clean
      BY <1>3, <1>9, <2>1 DEF Merge
  <2>2. CASE ~ Merged(strategy).clean
      BY <1>1, <1>9, <2>2 DEF Merge, Idle
  <2> QED
      BY <2>1, <2>2
<1>10. CASE \/ \E ref \in Menu : addItem(ref) \/ removeItem(ref)
            \/ \E game \in GameMenu : EditGame(game)
            \/ \E p \in DOMAIN published : Publish(p)
  <2>1. Rests /\ UNCHANGED lock
      BY <1>10 DEF addItem, removeItem, EditGame, Publish
  <2> QED
      BY <1>1, <1>2, <2>1 DEF Rests, Idle
<1> QED
    BY <1>4, <1>5, <1>6, <1>7, <1>8, <1>9, <1>10

LEMMA PinInvNext ==
    Inv /\ PinInv /\ [Next]_vars => PinInv'
<1> SUFFICES ASSUME Inv, PinInv, [Next]_vars
             PROVE  PinInv'
    OBVIOUS
<1>1. CASE ResolveBaseLayer
    BY <1>1, PinsOfBase
<1>2. CASE Dedupe
  <2>1. /\ job.phase = "items"
        /\ Key \in DOMAIN job.alias
        /\ job.alias[Key] \in DOMAIN job.resolved
        /\ Meets(job.alias[Key])
      BY <1>2 DEF Dedupe, AtRef, Known
  <2> QED
      BY <2>1, PinsMeet
<1>3. CASE ReusePin
    BY <1>3, PinsReused
<1>4. CASE Fetch
    BY <1>4, PinsFetched
<1>5. CASE WriteLock \/ WriteGraph \/ WriteMerge
    BY <1>5, PinsWritten
<1>6. CASE UNCHANGED vars
    BY <1>6, PinsStanding DEF vars
<1> QED
    BY <1>1, <1>2, <1>3, <1>4, <1>5, <1>6, PinsOfOthers DEF Next, Resolve

(* A lock made again moves no pin that nobody asked to move, nor the loader*)
(* that no manifest names, whatever the catalogues have published since,   *)
(* when the lock before has one row per identity.                          *)
THEOREM LocksKeepPins ==
    Spec => [](OneRowPerKey(job.pins) => PinsKept)
<1>1. PinInv => (OneRowPerKey(job.pins) => PinsKept)
    BY DEF PinInv, PinsStay, LoaderKept, PinsKept, Relocked, Wrote, Active
<1>2. Init => Inv /\ PinInv
    BY InvInit, PinInvInit
<1>3. (Inv /\ PinInv) /\ [Next]_vars => (Inv /\ PinInv)'
    BY InvNext, PinInvNext
<1> QED
    BY <1>1, <1>2, <1>3, PTL DEF Spec

-----------------------------------------------------------------------------
(* Sequences.                                                              *)

Sequential(seq) == \E S : seq \in Seq(S)
In(x, seq) == \E i \in DOMAIN seq : seq[i] = x

Below == {ss \in Nat \X Nat : ss[1] < ss[2]}
LEMMA BelowWF == IsWellFoundedOn(Below, Nat)
    BY NatLessThanWellFounded, SMT DEF OpToRel, Below

LEMMA Least ==
    ASSUME NEW T, T \subseteq Nat, T # {}
    PROVE  \E n \in T : \A m \in T : n <= m
<1>1. PICK n \in T : \A m \in T : ~ (<<m, n>> \in Below)
    BY BelowWF, WFMin
<1>2. SUFFICES ASSUME NEW m \in T
               PROVE  n <= m
    OBVIOUS
<1>3. <<m, n>> \in Nat \X Nat /\ n \in Nat /\ m \in Nat
    OBVIOUS
<1>4. ~ (<<m, n>> \in Below)
    BY <1>1
<1>5. ~ (m < n)
    BY <1>3, <1>4 DEF Below
<1> QED
    BY <1>3, <1>5

(* Induction up to a number, for what holds of the numbers in a set.       *)
LEMMA Climb ==
    ASSUME NEW N \in Nat, NEW Good, 0 \in Good,
           \A n \in 1..N : n - 1 \in Good => n \in Good
    PROVE  \A n \in 0..N : n \in Good
<1> DEFINE Bad == {n \in 0..N : n \notin Good}
<1>1. SUFFICES ASSUME Bad # {}
               PROVE  FALSE
    OBVIOUS
<1>2. PICK n \in Bad : \A m \in Bad : n <= m
  <2>1. Bad \subseteq Nat
      OBVIOUS
  <2> HIDE DEF Bad
  <2> QED
      BY <1>1, <2>1, Least
<1>3. n \in 1..N
    OBVIOUS
<1>4. n - 1 \in 0..N /\ n - 1 \notin Bad
    BY <1>2, <1>3
<1> QED
    BY <1>3, <1>4

(* What Only has gathered of the first n elements.                         *)
Gathers(f, seq, keep, n) ==
    IF n = 0 THEN <<>> ELSE IF seq[n] \in keep THEN Append(f[n - 1], seq[n]) ELSE f[n - 1]

LEMMA OnlyExists ==
    ASSUME NEW seq, NEW keep, NEW N \in Nat
    PROVE  \E f : f = [n \in 0..N |-> Gathers(f, seq, keep, n)]
<1> DEFINE Good == {n \in Nat : \E f : f = [m \in 0..n |-> Gathers(f, seq, keep, m)]}
<1>1. 0 \in Good
  <2> DEFINE f == [m \in 0..0 |-> <<>>]
  <2>1. f = [m \in 0..0 |-> Gathers(f, seq, keep, m)]
      BY DEF Gathers
  <2> QED
      BY <2>1
<1>2. ASSUME NEW n \in 1..N, n - 1 \in Good
      PROVE  n \in Good
  <2>1. PICK g : g = [m \in 0..(n - 1) |-> Gathers(g, seq, keep, m)]
      BY <1>2
  <2> DEFINE h == [m \in 0..n |-> IF m = n THEN Gathers(g, seq, keep, n) ELSE g[m]]
  <2>2. \A m \in 0..n : m # n => h[m] = g[m]
      OBVIOUS
  <2>3. ASSUME NEW m \in 0..n
        PROVE  h[m] = Gathers(h, seq, keep, m)
    <3>1. m # 0 => m - 1 \in 0..n /\ m - 1 # n
        OBVIOUS
    <3>2. m # 0 => h[m - 1] = g[m - 1]
        BY <3>1, <2>2
    <3>3. Gathers(h, seq, keep, m) = Gathers(g, seq, keep, m)
      <4> HIDE DEF h
      <4> QED
          BY <3>2 DEF Gathers
    <3>4. m # n => m \in 0..(n - 1)
        OBVIOUS
    <3>5. m # n => g[m] = Gathers(g, seq, keep, m)
        BY <2>1, <3>4
    <3> QED
        BY <2>2, <3>3, <3>5
  <2>4. h = [m \in 0..n |-> Gathers(h, seq, keep, m)]
      BY <2>3
  <2> HIDE DEF h
  <2> QED
      BY <2>4
<1> HIDE DEF Good
<1>3. \A n \in 0..N : n \in Good
    BY <1>1, <1>2, Climb
<1> QED
    BY <1>3 DEF Good

(* Only is a sequence of what is in both.                                  *)
LEMMA OnlyOfSet ==
    ASSUME NEW S, NEW seq \in Seq(S), NEW keep
    PROVE  /\ Only(seq, keep) \in Seq(S)
           /\ \A x : In(x, Only(seq, keep)) <=> x \in keep /\ In(x, seq)
<1> DEFINE N == Len(seq)
<1>0. N \in Nat
    OBVIOUS
<1>1. PICK f : /\ f = [n \in 0..N |-> Gathers(f, seq, keep, n)]
               /\ Only(seq, keep) = f[N]
  <2> DEFINE F == CHOOSE f : f = [n \in 0..N |-> Gathers(f, seq, keep, n)]
  <2>1. F = [n \in 0..N |-> Gathers(F, seq, keep, n)]
      BY OnlyExists
  <2>2. Only(seq, keep) = F[N]
      BY DEF Only, Gathers
  <2> QED
      BY <2>1, <2>2
<1> DEFINE Good == {n \in 0..N : /\ f[n] \in Seq(S)
                                 /\ \A x : (\E i \in DOMAIN f[n] : f[n][i] = x)
                                            <=> x \in keep /\ \E i \in 1..n : seq[i] = x}
<1>2. 0 \in Good
    BY <1>0, <1>1 DEF Gathers
<1>3. ASSUME NEW n \in 1..N, n - 1 \in Good
      PROVE  n \in Good
  <2>0. n \in Nat /\ n - 1 \in 0..N /\ n \in 0..N /\ seq[n] \in S /\ n # 0
      OBVIOUS
  <2>1. PICK g : g = f[n - 1]
      OBVIOUS
  <2>2. /\ g \in Seq(S)
        /\ \A x : (\E i \in DOMAIN g : g[i] = x) <=> x \in keep /\ \E i \in 1..(n - 1) : seq[i] = x
      BY <1>3, <2>1
  <2>3. f[n] = IF seq[n] \in keep THEN Append(g, seq[n]) ELSE g
      BY <1>1, <2>0, <2>1 DEF Gathers
  <2>4. \A x : (\E i \in 1..n : seq[i] = x) <=> (x = seq[n] \/ \E i \in 1..(n - 1) : seq[i] = x)
      BY <2>0
  <2>5. CASE seq[n] \in keep
    <3>1. PICK h : h = Append(g, seq[n])
        OBVIOUS
    <3>2. /\ h \in Seq(S) /\ Len(h) = Len(g) + 1 /\ Len(g) \in Nat
          /\ DOMAIN g = 1..Len(g) /\ DOMAIN h = 1..Len(h)
          /\ h[Len(g) + 1] = seq[n] /\ \A i \in 1..Len(g) : h[i] = g[i]
        BY <2>0, <2>2, <3>1
    <3>3. \A x : (\E i \in DOMAIN h : h[i] = x) <=> (x = seq[n] \/ \E i \in DOMAIN g : g[i] = x)
        BY <3>2
    <3>4. f[n] = h
        BY <2>3, <2>5, <3>1
    <3> QED
        BY <2>0, <2>2, <2>4, <2>5, <3>2, <3>3, <3>4
  <2>6. CASE seq[n] \notin keep
    <3>1. f[n] = g
        BY <2>3, <2>6
    <3> QED
        BY <2>0, <2>2, <2>4, <2>6, <3>1
  <2> QED
      BY <2>5, <2>6
<1>4. N \in Good
  <2> HIDE DEF Good, N
  <2>1. \A n \in 0..N : n \in Good
      BY <1>0, <1>2, <1>3, Climb
  <2> QED
      BY <1>0, <2>1
<1> HIDE DEF N
<1> QED
    BY <1>0, <1>1, <1>4 DEF In, N

LEMMA OnlyIn ==
    ASSUME NEW seq, Sequential(seq), NEW keep
    PROVE  /\ Sequential(Only(seq, keep))
           /\ \A x : In(x, Only(seq, keep)) <=> x \in keep /\ In(x, seq)
    BY OnlyOfSet DEF Sequential

(* A queue and what comes after its head.                                  *)
LEMMA QueueTail ==
    ASSUME NEW queue, Sequential(queue), queue # <<>>
    PROVE  /\ Sequential(Tail(queue)) /\ Len(Tail(queue)) < Len(queue)
           /\ In(Head(queue), queue)
           /\ \A x : In(x, queue) <=> x = Head(queue) \/ In(x, Tail(queue))
<1>1. PICK S : queue \in Seq(S)
    BY DEF Sequential
<1>2. PICK tail : tail = Tail(queue)
    OBVIOUS
<1>3. /\ tail \in Seq(S) /\ Len(tail) = Len(queue) - 1 /\ Len(queue) \in Nat \ {0}
      /\ DOMAIN tail = 1..(Len(queue) - 1) /\ DOMAIN queue = 1..Len(queue)
      /\ Head(queue) = queue[1]
      /\ \A i \in 1..(Len(queue) - 1) : tail[i] = queue[i + 1]
    BY <1>1, <1>2
<1>4. ASSUME NEW x
      PROVE  In(x, queue) <=> x = Head(queue) \/ In(x, tail)
  <2>1. ASSUME In(x, queue), x # Head(queue)
        PROVE  In(x, tail)
    <3>1. PICK i \in 1..Len(queue) : queue[i] = x
        BY <1>3, <2>1 DEF In
    <3>2. i # 1 /\ i - 1 \in 1..(Len(queue) - 1) /\ i = (i - 1) + 1
        BY <1>3, <2>1, <3>1
    <3>3. tail[i - 1] = x
        BY <1>3, <3>1, <3>2
    <3> QED
        BY <1>3, <3>2, <3>3 DEF In
  <2>2. ASSUME In(x, tail)
        PROVE  In(x, queue)
    <3>1. PICK i \in 1..(Len(queue) - 1) : tail[i] = x
        BY <1>3, <2>2 DEF In
    <3>2. queue[i + 1] = x /\ i + 1 \in 1..Len(queue)
        BY <1>3, <3>1
    <3> QED
        BY <1>3, <3>2 DEF In
  <2>3. In(Head(queue), queue)
    <3>1. 1 \in 1..Len(queue)
        BY <1>3
    <3> QED
        BY <1>3, <3>1 DEF In
  <2> QED
      BY <2>1, <2>2, <2>3
<1> QED
    BY <1>2, <1>3, <1>4 DEF Sequential

LEMMA QueueConcat ==
    ASSUME NEW a, NEW b, Sequential(a), Sequential(b)
    PROVE  Sequential(a \o b) /\ \A x : In(x, a \o b) <=> In(x, a) \/ In(x, b)
<1>1. PICK S : a \in Seq(S)
    BY DEF Sequential
<1>2. PICK T : b \in Seq(T)
    BY DEF Sequential
<1>3. a \in Seq(S \cup T) /\ b \in Seq(S \cup T)
    BY <1>1, <1>2
<1>4. PICK c : c = a \o b
    OBVIOUS
<1>5. /\ c \in Seq(S \cup T) /\ Len(c) = Len(a) + Len(b) /\ Len(a) \in Nat /\ Len(b) \in Nat
      /\ DOMAIN a = 1..Len(a) /\ DOMAIN b = 1..Len(b) /\ DOMAIN c = 1..Len(c)
      /\ \A i \in 1..Len(c) : c[i] = IF i <= Len(a) THEN a[i] ELSE b[i - Len(a)]
    BY <1>3, <1>4, ConcatProperties
<1>6. ASSUME NEW x
      PROVE  In(x, c) <=> In(x, a) \/ In(x, b)
  <2>1. ASSUME In(x, c)
        PROVE  In(x, a) \/ In(x, b)
    <3>1. PICK i \in 1..Len(c) : c[i] = x
        BY <1>5, <2>1 DEF In
    <3>2. i <= Len(a) => i \in DOMAIN a /\ a[i] = x
        BY <1>5, <3>1
    <3>3. ~ (i <= Len(a)) => i - Len(a) \in DOMAIN b /\ b[i - Len(a)] = x
        BY <1>5, <3>1
    <3> QED
        BY <3>2, <3>3 DEF In
  <2>2. ASSUME In(x, a)
        PROVE  In(x, c)
    <3>1. PICK i \in 1..Len(a) : a[i] = x
        BY <1>5, <2>2 DEF In
    <3>2. i \in 1..Len(c) /\ c[i] = x
        BY <1>5, <3>1
    <3> QED
        BY <1>5, <3>2 DEF In
  <2>3. ASSUME In(x, b)
        PROVE  In(x, c)
    <3>1. PICK i \in 1..Len(b) : b[i] = x
        BY <1>5, <2>3 DEF In
    <3>2. i + Len(a) \in 1..Len(c) /\ ~ (i + Len(a) <= Len(a)) /\ (i + Len(a)) - Len(a) = i
        BY <1>5, <3>1
    <3>3. c[i + Len(a)] = x
        BY <1>5, <3>1, <3>2
    <3> QED
        BY <1>5, <3>2, <3>3 DEF In
  <2> QED
      BY <2>1, <2>2, <2>3
<1> QED
    BY <1>4, <1>5, <1>6 DEF Sequential

LEMMA EnqueueIn ==
    ASSUME NEW refs, Sequential(refs), NEW by
    PROVE  /\ Sequential(Enqueue(refs, by))
           /\ \A x : In(x, Enqueue(refs, by)) <=>
                 \E ref : In(ref, refs) /\ x = [ref |-> localizeRef(ref), by |-> by]
<1>1. PICK S : refs \in Seq(S)
    BY DEF Sequential
<1>2. PICK q : q = Enqueue(refs, by)
    OBVIOUS
<1>3. /\ DOMAIN refs = 1..Len(refs) /\ Len(refs) \in Nat /\ DOMAIN q = 1..Len(refs)
      /\ \A i \in 1..Len(refs) : q[i] = [ref |-> localizeRef(refs[i]), by |-> by]
    BY <1>1, <1>2 DEF Enqueue
<1>4. q \in Seq({q[i] : i \in 1..Len(refs)})
  <2>1. q = [i \in 1..Len(refs) |-> [ref |-> localizeRef(refs[i]), by |-> by]]
      BY <1>2, <1>3 DEF Enqueue
  <2> QED
      BY <1>3, <2>1
<1> QED
    BY <1>2, <1>3, <1>4 DEF Sequential, In

-----------------------------------------------------------------------------
(* The steps of the worklist: a ref is popped, its name leads to key, and   *)
(* what is resolved under key is met, or a pin, or what the source gave.    *)

Answers == resolve(Next1.ref, job.clock, job.manifest.game.minecraft)

Steady == Fields \ {"queue", "resolved", "alias", "demands", "edges", "fetched"}

MetAt(key) ==
    /\ key \in DOMAIN job.resolved
    /\ specSatisfiedBy(Next1.ref.spec, job.resolved[key])
    /\ \/ Key \in DOMAIN job.alias
       \/ Pins(Key) = {} /\ \E result \in Answers : key = canonicalKeyOf(result.pkg)
    /\ job'.resolved = job.resolved
    /\ job'.edges = job.edges \cup {Edge(key, job.resolved[key])}
    /\ job'.fetched = job.fetched
    /\ job'.queue = Tail(job.queue)

ReusedAt(key) ==
    /\ key = Key /\ Key \notin DOMAIN job.alias
    /\ \E row \in Pins(Key) : /\ job'.resolved = Put(job.resolved, Key, row)
                              /\ job'.edges = job.edges \cup {Edge(Key, row)}
    /\ job'.fetched = job.fetched
    /\ job'.queue = Tail(job.queue)

FoundAt(key) ==
    /\ Key \notin DOMAIN job.alias /\ key \notin DOMAIN job.resolved /\ Pins(Key) = {}
    /\ \E result \in Answers :
         /\ key = canonicalKeyOf(result.pkg)
         /\ job'.edges = job.edges \cup {Edge(key, result.pkg)}
         /\ job'.queue = Tail(job.queue) \o Enqueue(result.dependencies, result.pkg.name)
         /\ \/ /\ \E row \in Pins(key) : job'.resolved = Put(job.resolved, key, row)
               /\ job'.fetched = job.fetched
            \/ /\ Pins(key) = {} /\ job'.resolved = Put(job.resolved, key, result.pkg)
               /\ job'.fetched = job.fetched \cup {key}

Pops(key) ==
    /\ job.phase = "items" /\ job'.phase = "items" /\ Fields \subseteq DOMAIN job'
    /\ job.queue # <<>> /\ AllowSource(Next1.ref)
    /\ \A f \in Steady \ {"phase"} : job'[f] = job[f]
    /\ job'.alias = Put(job.alias, Key, key)
    /\ job'.demands = job.demands \cup {[key |-> Key, by |-> Next1.by, spec |-> Next1.ref.spec]}
    /\ Key \in DOMAIN job.alias => job.alias[Key] = key
    /\ MetAt(key) \/ ReusedAt(key) \/ FoundAt(key)

LEMMA PoppedFields ==
    ASSUME Inv, job.phase = "items"
    PROVE  /\ DOMAIN Popped = DOMAIN job /\ Fields \subseteq DOMAIN job
           /\ \A f \in Fields \ {"queue", "demands"} : Popped[f] = job[f]
           /\ Popped.queue = Tail(job.queue)
           /\ Popped.demands = job.demands \cup
                 {[key |-> Key, by |-> Next1.by, spec |-> Next1.ref.spec]}
    BY DEF Inv, JobShape, Active, Fields, Popped

LEMMA MeetsPops ==
    ASSUME Inv, AtRef, NEW key \in DOMAIN job.resolved, Meets(key),
           Key \in DOMAIN job.alias => job.alias[Key] = key,
           \/ Key \in DOMAIN job.alias
           \/ Pins(Key) = {} /\ \E result \in Answers : key = canonicalKeyOf(result.pkg)
    PROVE  job' = Idle \/ Pops(key)
<1>1. CASE ~ specSatisfiedBy(Next1.ref.spec, job.resolved[key])
    BY <1>1 DEF Meets, Stops
<1>2. CASE specSatisfiedBy(Next1.ref.spec, job.resolved[key])
  <2>1. job' = [Popped EXCEPT !.alias = Put(@, Key, key), !.edges = @ \cup {Edge(key, job.resolved[key])}]
      BY <1>2 DEF Meets
  <2>2. job.phase = "items" /\ job.queue # <<>> /\ AllowSource(Next1.ref)
      BY DEF AtRef
  <2>3. /\ DOMAIN job' = DOMAIN job /\ Fields \subseteq DOMAIN job'
        /\ \A f \in Fields \ {"queue", "demands", "alias", "edges"} : job'[f] = job[f]
        /\ job'.alias = Put(job.alias, Key, key)
        /\ job'.edges = job.edges \cup {Edge(key, job.resolved[key])}
        /\ job'.queue = Tail(job.queue)
        /\ job'.demands = job.demands \cup {[key |-> Key, by |-> Next1.by, spec |-> Next1.ref.spec]}
      BY <2>1, <2>2, PoppedFields DEF Fields
  <2>4. /\ job'.phase = "items" /\ job'.resolved = job.resolved /\ job'.fetched = job.fetched
        /\ \A f \in Steady \ {"phase"} : job'[f] = job[f]
      BY <2>2, <2>3 DEF Fields, Steady
  <2>5. MetAt(key)
      BY <1>2, <2>3, <2>4 DEF MetAt
  <2> QED
      BY <2>2, <2>3, <2>4, <2>5 DEF Pops
<1> QED
    BY <1>1, <1>2

LEMMA WorkPops ==
    ASSUME Inv, PinInv, Dedupe \/ ReusePin \/ Fetch
    PROVE  job' = Idle \/ \E key : Pops(key)
<1>1. AtRef /\ job.phase = "items" /\ job.queue # <<>> /\ AllowSource(Next1.ref)
    BY DEF Dedupe, ReusePin, Fetch, AtRef
<1>2. CASE Dedupe
    BY <1>1, <1>2, MeetsPops DEF Dedupe, Known
<1>3. CASE ReusePin
  <2>1. PICK row \in Pins(Key) :
         job' = [Popped EXCEPT !.resolved = Put(@, Key, row), !.alias = Put(@, Key, Key),
                               !.edges = @ \cup {Edge(Key, row)}]
      BY <1>3 DEF ReusePin
  <2>2. Key \notin DOMAIN job.alias
      BY <1>1, <1>3, UnknownIsNew DEF ReusePin
  <2>3. /\ DOMAIN job' = DOMAIN job /\ Fields \subseteq DOMAIN job'
        /\ \A f \in Fields \ {"queue", "demands", "alias", "edges", "resolved"} : job'[f] = job[f]
        /\ job'.alias = Put(job.alias, Key, Key)
        /\ job'.resolved = Put(job.resolved, Key, row)
        /\ job'.edges = job.edges \cup {Edge(Key, row)}
        /\ job'.queue = Tail(job.queue)
        /\ job'.demands = job.demands \cup {[key |-> Key, by |-> Next1.by, spec |-> Next1.ref.spec]}
      BY <1>1, <2>1, PoppedFields DEF Fields
  <2>4. /\ job'.phase = "items" /\ job'.fetched = job.fetched
        /\ \A f \in Steady \ {"phase"} : job'[f] = job[f]
      BY <1>1, <2>3 DEF Fields, Steady
  <2>5. ReusedAt(Key)
      BY <2>2, <2>3, <2>4 DEF ReusedAt
  <2> QED
      BY <1>1, <2>2, <2>3, <2>4, <2>5 DEF Pops
<1>4. CASE Fetch
  <2>1. Key \notin DOMAIN job.alias /\ Pins(Key) = {}
      BY <1>1, <1>4, UnknownIsNew DEF Fetch
  <2>2. ASSUME NEW result \in Answers, canonicalKeyOf(result.pkg) \in DOMAIN job.resolved,
               Meets(canonicalKeyOf(result.pkg))
        PROVE  job' = Idle \/ \E key : Pops(key)
      BY <1>1, <2>1, <2>2, MeetsPops
  <2>3. ASSUME NEW result \in Answers, NEW row, NEW key, row = result.pkg, key = canonicalKeyOf(row),
               key \notin DOMAIN job.resolved,
               NEW chosen \in IF Pins(key) # {} THEN Pins(key) ELSE {row},
               job' = [Popped EXCEPT
                         !.resolved = Put(@, key, chosen),
                         !.alias = Put(@, Key, key),
                         !.edges = @ \cup {Edge(key, row)},
                         !.fetched = IF Pins(key) = {} THEN @ \cup {key} ELSE @,
                         !.queue = @ \o Enqueue(result.dependencies, row.name)]
        PROVE  Pops(key)
    <3>1. /\ DOMAIN job' = DOMAIN job /\ Fields \subseteq DOMAIN job'
          /\ \A f \in Fields \ {"queue", "demands", "alias", "edges", "resolved", "fetched"} : job'[f] = job[f]
          /\ job'.alias = Put(job.alias, Key, key)
          /\ job'.resolved = Put(job.resolved, key, chosen)
          /\ job'.edges = job.edges \cup {Edge(key, row)}
          /\ job'.queue = Tail(job.queue) \o Enqueue(result.dependencies, row.name)
          /\ job'.demands = job.demands \cup {[key |-> Key, by |-> Next1.by, spec |-> Next1.ref.spec]}
          /\ job'.fetched = IF Pins(key) = {} THEN job.fetched \cup {key} ELSE job.fetched
        BY <1>1, <2>3, PoppedFields DEF Fields
    <3>2. /\ job'.phase = "items"
          /\ \A f \in Steady \ {"phase"} : job'[f] = job[f]
        BY <1>1, <3>1 DEF Fields, Steady
    <3>3. \/ /\ \E kept \in Pins(key) : job'.resolved = Put(job.resolved, key, kept)
             /\ job'.fetched = job.fetched
          \/ /\ Pins(key) = {} /\ job'.resolved = Put(job.resolved, key, row)
             /\ job'.fetched = job.fetched \cup {key}
        BY <2>3, <3>1
    <3>4. FoundAt(key)
        BY <2>1, <2>3, <3>1, <3>3 DEF FoundAt
    <3> QED
        BY <2>1, <3>1, <3>2, <3>4, <1>1 DEF Pops
  <2>4. CASE Stops
      BY <2>4 DEF Stops
  <2>5. ASSUME NEW result \in Answers,
               LET row == result.pkg
                   key == canonicalKeyOf(row)
                   kept == Pins(key)
               IN  IF key \in DOMAIN job.resolved THEN Meets(key)
                   ELSE \E chosen \in IF kept # {} THEN kept ELSE {row} :
                          job' = [Popped EXCEPT
                                    !.resolved = Put(@, key, chosen),
                                    !.alias = Put(@, Key, key),
                                    !.edges = @ \cup {Edge(key, row)},
                                    !.fetched = IF kept = {} THEN @ \cup {key} ELSE @,
                                    !.queue = @ \o Enqueue(result.dependencies, row.name)]
        PROVE  job' = Idle \/ \E key : Pops(key)
    <3>1. CASE canonicalKeyOf(result.pkg) \in DOMAIN job.resolved
        BY <2>2, <2>5, <3>1
    <3>2. CASE canonicalKeyOf(result.pkg) \notin DOMAIN job.resolved
        BY <2>3, <2>5, <3>2
    <3> QED
        BY <3>1, <3>2
  <2> QED
      BY <1>4, <2>4, <2>5 DEF Fetch, Answers
<1> QED
    BY <1>2, <1>3, <1>4

-----------------------------------------------------------------------------
(* What the other steps do to the command.                                 *)
StartsLock ==
    \E how \in LockMenu :
        job' = Started("lock", manifest, Rows(lock), how.upgrade, how.offline, NoBranches)

StartsMerge ==
    /\ Fresh /\ branches.forked /\ branches.base \notin {Commit, branches.theirs}
    /\ \E strategy \in {"ours", "theirs", "newest", "manual"} :
         /\ Merged(strategy).clean
         /\ job' = Started("merge", Merged(strategy).manifest, Merged(strategy).seedPins,
                           [all |-> FALSE, keys |-> Merged(strategy).reResolveKeys], FALSE,
                           [ours |-> Commit, theirs |-> branches.theirs, base |-> branches.base])

Starts == StartsLock \/ StartsMerge

Others ==
    \/ RefuseSource \/ RefuseOffline \/ RefuseResult \/ Kill
    \/ ImportLock \/ ImportGraph
    \/ Import
    \/ \E how \in LockMenu : Lock(how.upgrade, how.offline)
    \/ Fork \/ Switch
    \/ \E strategy \in {"ours", "theirs", "newest", "manual"} : Merge(strategy)
    \/ \E ref \in Menu : addItem(ref) \/ removeItem(ref)
    \/ \E game \in GameMenu : EditGame(game)
    \/ \E p \in DOMAIN published : Publish(p)
    \/ LoseCache

(* A command that starts has resolved nothing.                             *)
LEMMA StartsAnew ==
    ASSUME Starts
    PROVE  /\ job'.phase = "base" /\ job'.queue = <<>> /\ job'.resolved = <<>> /\ job'.alias = <<>>
           /\ job'.demands = {} /\ job'.fetched = {} /\ job'.base = {} /\ job'.edges = {}
           /\ job'.prior = lock /\ job'.kind \in {"lock", "merge"}
           /\ job'.kind = "lock" => job'.pins = Rows(lock)
<1>1. CASE StartsLock
    BY <1>1 DEF StartsLock, Started
<1>2. CASE StartsMerge
    BY <1>2 DEF StartsMerge, Started
<1> QED
    BY <1>1, <1>2 DEF Starts

(* A step of a user under a command leaves it alone.                       *)
Stays == UNCHANGED <<lock, graph, job>> /\ (job.phase = "done" => manifest' = manifest)

LEMMA OthersDo ==
    ASSUME Inv, Others
    PROVE  \/ job'.phase \in {"idle", "import", "adopted"}
           \/ Stays
           \/ Starts
<1>4. CASE RefuseSource \/ RefuseOffline \/ RefuseResult \/ Kill \/ ImportGraph
    BY <1>4 DEF RefuseSource, RefuseOffline, RefuseResult, Kill, ImportGraph, Stops, Idle
<1>5. CASE ImportLock
    BY <1>5 DEF ImportLock, Inv, JobShape
<1>6. CASE Import
    BY <1>6 DEF Import
<1>7. CASE Fork \/ Switch \/ LoseCache
    BY <1>7 DEF Fork, Switch, LoseCache, Idle
<1>8. CASE \E how \in LockMenu : Lock(how.upgrade, how.offline)
    BY <1>8 DEF Lock, Starts, StartsLock
<1>9. ASSUME NEW strategy \in {"ours", "theirs", "newest", "manual"}, Merge(strategy)
      PROVE  job'.phase = "idle" \/ Starts
  <2>1. CASE Merged(strategy).clean
      BY <1>9, <2>1 DEF Merge, Starts, StartsMerge
  <2>2. CASE ~ Merged(strategy).clean
      BY <1>9, <2>2 DEF Merge, Idle
  <2> QED
      BY <2>1, <2>2
<1>10. CASE \/ \E ref \in Menu : addItem(ref) \/ removeItem(ref)
            \/ \E game \in GameMenu : EditGame(game)
            \/ \E p \in DOMAIN published : Publish(p)
  <2>1. Rests /\ UNCHANGED <<lock, graph>>
      BY <1>10 DEF addItem, removeItem, EditGame, Publish
  <2> QED
      BY <2>1 DEF Rests, Resting, Idle, Stays
<1> QED
    BY <1>4, <1>5, <1>6, <1>7, <1>8, <1>9, <1>10 DEF Others

(* The base layer is set and the roots are queued, or the command stops.   *)
LEMMA BaseBegins ==
    ASSUME Inv, ResolveBaseLayer
    PROVE  \/ job' = Idle
           \/ /\ job.phase = "base" /\ job'.phase = "items" /\ Fields \subseteq DOMAIN job'
              /\ \A f \in Fields \ {"phase", "base", "release", "queue"} : job'[f] = job[f]
              /\ job'.queue = Enqueue(Roots, "(manifest)")
              /\ job'.base = IF job'.release = NoBase THEN {} ELSE Members(job'.release)
              /\ job'.release # NoBase => PackOf(job'.release).game = job.manifest.game.minecraft
<1>1. job.phase = "base" /\ Fields \subseteq DOMAIN job
    BY DEF ResolveBaseLayer, Inv, JobShape, Active
<1>2. CASE Stops
    BY <1>2 DEF Stops
<1>3. ASSUME NEW release, Begin(release)
      PROVE  /\ job'.phase = "items" /\ Fields \subseteq DOMAIN job'
             /\ \A f \in Fields \ {"phase", "base", "release", "queue"} : job'[f] = job[f]
             /\ job'.queue = Enqueue(Roots, "(manifest)")
             /\ job'.release = release
             /\ job'.base = IF release = NoBase THEN {} ELSE Members(release)
    BY <1>1, <1>3 DEF Begin, Fields
<1>4. CASE \E release : Begin(release) /\ (release # NoBase => PackOf(release).game = job.manifest.game.minecraft)
    BY <1>1, <1>3, <1>4
<1>5. \/ Stops
      \/ \E release : Begin(release) /\ (release # NoBase => PackOf(release).game = job.manifest.game.minecraft)
    BY DEF ResolveBaseLayer
<1> QED
    BY <1>2, <1>4, <1>5

(* A lock or a graph is written of what was resolved.                      *)
LEMMA WritesDo ==
    ASSUME Inv, WriteLock \/ WriteGraph \/ WriteMerge
    PROVE  /\ Active /\ job.phase \in {"items", "graph"} /\ job'.phase \in {"graph", "done"}
           /\ job.phase = "items" => job.queue = <<>>
           /\ Fields \subseteq DOMAIN job'
           /\ \A f \in Fields \ {"phase", "edges"} : job'[f] = job[f]
           /\ \/ /\ job'.phase = "graph" /\ job.kind = "lock"
                 /\ job'.edges = job.edges \cup MemberEdges
              \/ /\ job'.phase = "done" /\ job.phase = "graph" /\ UNCHANGED <<manifest, lock>>
                 /\ job'.edges = job.edges /\ graph' = job.edges
              \/ /\ job'.phase = "done" /\ job.phase = "items" /\ job.kind = "merge"
                 /\ manifest' = job.manifest /\ lock'.base = job.release
                 /\ job'.edges = job.edges
<1>1. /\ Fields \subseteq DOMAIN job /\ Active /\ job.phase \in {"items", "graph"}
      /\ job.phase = "items" => job.queue = <<>>
    BY DEF WriteLock, WriteGraph, WriteMerge, AtEnd, Inv, JobShape, Active
<1>2. /\ job'.phase \in {"graph", "done"} /\ Fields \subseteq DOMAIN job'
      /\ \A f \in Fields \ {"phase", "edges"} : job'[f] = job[f]
    BY <1>1 DEF WriteLock, WriteGraph, WriteMerge, Fields
<1>3. CASE WriteLock
  <2>1. job'.phase = "graph" /\ job.kind = "lock" /\ job'.edges = job.edges \cup MemberEdges
      BY <1>1, <1>3 DEF WriteLock, Fields
  <2> QED
      BY <1>1, <1>2, <2>1
<1>4. CASE WriteGraph
  <2>1. /\ job'.phase = "done" /\ job.phase = "graph" /\ UNCHANGED <<manifest, lock>>
        /\ job'.edges = job.edges /\ graph' = job.edges
      BY <1>1, <1>4 DEF WriteGraph, Fields
  <2> QED
      BY <1>1, <1>2, <2>1
<1>5. CASE WriteMerge
  <2>1. /\ job'.phase = "done" /\ job.phase = "items" /\ job.kind = "merge"
        /\ manifest' = job.manifest /\ lock'.base = job.release
        /\ job'.edges = job.edges
      BY <1>1, <1>5 DEF WriteMerge, AtEnd, reLocked, NewLock, Fields
  <2> QED
      BY <1>1, <1>2, <2>1
<1> QED
    BY <1>3, <1>4, <1>5

-----------------------------------------------------------------------------
(* The manifests: whatever is written, imported or merged is a sequence of *)
(* refs that may be asked of a source, with one spec for a name where what *)
(* was written at first has it.                                            *)

Authored(m) ==
    /\ "items" \in DOMAIN m /\ m.items \in Seq(Inputs)
    /\ WrittenOnce => OneSpec(ToSet(m.items))

AuthoredInv ==
    /\ Authored(manifest)
    /\ branches.forked => /\ {"base", "theirs"} \subseteq DOMAIN branches
                          /\ Authored(branches.base.manifest) /\ Authored(branches.theirs.manifest)
    /\ Active => Authored(job.manifest)

LEMMA SequenceOver ==
    ASSUME NEW seq, Sequential(seq), NEW T, \A x : In(x, seq) => x \in T
    PROVE  seq \in Seq(T)
    BY DEF Sequential, In

LEMMA SequentialOf ==
    ASSUME NEW seq, IsSequence(seq)
    PROVE  Sequential(seq) /\ \A x : In(x, seq) => x \in ToSet(seq)
    BY DEF IsSequence, Sequential, In

LEMMA MappedIsSequence ==
    ASSUME NEW seq, Sequential(seq), NEW f, f = [i \in DOMAIN seq |-> f[i]]
    PROVE  Sequential(f) /\ DOMAIN f = 1..Len(seq) /\ Len(seq) \in Nat
<1>1. PICK S : seq \in Seq(S)
    BY DEF Sequential
<1>2. DOMAIN seq = 1..Len(seq) /\ Len(seq) \in Nat
    BY <1>1
<1>3. DOMAIN f = 1..Len(seq)
    BY <1>2
<1>4. f \in Seq({f[i] : i \in 1..Len(seq)})
    BY <1>2, <1>3
<1> QED
    BY <1>2, <1>3, <1>4 DEF Sequential

(* The files of an archive become a sequence of entries.                   *)
LEMMA OverridesSequence ==
    ASSUME NEW archive \in Archives
    PROVE  Sequential(overrideEntries(archive))
<1>1. Sequential(importOverrideTree(archive.overrides))
    BY RelockAssumption, SequentialOf, OnlyIn DEF importOverrideTree
<1> QED
    BY <1>1, MappedIsSequence DEF overrideEntries

LEMMA EntriesSequence ==
    ASSUME NEW archive \in Archives, NEW entries \in entriesOf(archive)
    PROVE  Sequential(entries)
<1>1. Sequential(archive.files) /\ archive.format \in {"mrpack", "cfzip", "prism"}
    BY RelockAssumption, SequentialOf
<1>2. CASE archive.format = "mrpack"
  <2>1. PICK files : files = placeableFiles(archive)
      OBVIOUS
  <2>2. entries = [i \in DOMAIN files |-> mrpackEntry(files[i])] \o overrideEntries(archive)
      BY <1>2, <2>1 DEF entriesOf, importMrpack
  <2>3. Sequential(files)
      BY <1>1, <2>1, OnlyIn DEF placeableFiles
  <2>4. PICK own : own = [i \in DOMAIN files |-> mrpackEntry(files[i])]
      OBVIOUS
  <2>5. Sequential(own)
      BY <2>3, <2>4, MappedIsSequence
  <2> QED
      BY <2>2, <2>4, <2>5, OverridesSequence, QueueConcat
<1>3. CASE archive.format = "cfzip"
  <2>1. PICK own : own = [i \in DOMAIN archive.files |-> cfEntry(archive.files[i])]
      OBVIOUS
  <2>2. entries = own \o overrideEntries(archive)
      BY <1>3, <2>1 DEF entriesOf, importCurseForgeZip
  <2>3. Sequential(own)
      BY <1>1, <2>1, MappedIsSequence
  <2> QED
      BY <2>2, <2>3, OverridesSequence, QueueConcat
<1>4. CASE archive.format = "prism"
  <2>1. PICK files : /\ files = Only(archive.files, {file \in ToSet(archive.files) : Matched(file) \/ file.placeable})
                     /\ entries = [i \in DOMAIN files |->
                          IF Matched(files[i]) THEN matchedEntry(files[i]) ELSE trackedEntry(files[i])]
      BY <1>4 DEF entriesOf, importPrism
  <2>2. Sequential(files)
      BY <1>1, <2>1, OnlyIn
  <2> QED
      BY <2>1, <2>2, MappedIsSequence
<1> QED
    BY <1>1, <1>2, <1>3, <1>4

LEMMA AdoptedIsAuthored ==
    ASSUME NEW archive \in Archives, NEW entries \in entriesOf(archive), NEW loader
    PROVE  Authored(adoptedManifest(archive, entries, loader))
<1>1. Sequential(entries)
    BY EntriesSequence
<1>2. ASSUME NEW i \in DOMAIN entries
      PROVE  entries[i].item \in Inputs
  <2>1. entries \in Imports
      BY DEF Imports
  <2>2. entries[i].item \in UNION {{e[k].item : k \in DOMAIN e} : e \in Imports}
      BY <2>1
  <2> QED
      BY <2>2 DEF Inputs
<1>3. PICK items : items = [i \in DOMAIN entries |-> entries[i].item]
    OBVIOUS
<1>4. Sequential(items) /\ DOMAIN items = DOMAIN entries
    BY <1>1, <1>3, MappedIsSequence
<1>5. items \in Seq(Inputs)
    BY <1>2, <1>3, <1>4, SequenceOver DEF In
<1>6. ToSet(items) = {entries[i].item : i \in DOMAIN entries}
    BY <1>3, <1>4 DEF ToSet
<1>7. WrittenOnce => OneSpec(ToSet(items))
    BY <1>6 DEF WrittenOnce, Imports
<1> QED
    BY <1>3, <1>5, <1>7 DEF adoptedManifest, Authored

(* An entry of a merge is an item of one of its sides.                     *)
LEMMA ItemSetItem ==
    ASSUME NEW m, Authored(m), NEW rows, NEW key \in DOMAIN buildItemSet(m, rows).items
    PROVE  /\ buildItemSet(m, rows).items[key].ref \in ToSet(m.items)
           /\ refKey(buildItemSet(m, rows).items[key].ref) = key
           /\ buildItemSet(m, rows).items[key] = entryOf(buildItemSet(m, rows).items[key].ref, rows)
<1>1. PICK ref \in ToSet(m.items) : identityKeyOf(ref) = key
    BY DEF buildItemSet
<1>2. PICK chosen : chosen = CHOOSE r \in ToSet(m.items) : identityKeyOf(r) = key
    OBVIOUS
<1>3. chosen \in ToSet(m.items) /\ identityKeyOf(chosen) = key
    BY <1>1, <1>2
<1>4. buildItemSet(m, rows).items[key] = entryOf(chosen, rows)
    BY <1>2 DEF buildItemSet
<1> QED
    BY <1>3, <1>4 DEF entryOf, identityKeyOf

LEMMA ToSetIn ==
    ASSUME NEW seq, NEW x
    PROVE  x \in ToSet(seq) <=> In(x, seq)
    BY DEF ToSet, In

Strategies == {"ours", "theirs", "newest", "manual"}

(* The side an item is taken from.                                         *)
TakenSide(base, ours, theirs, pins, strategy, key) ==
    SideOf(entryValue(base, key), entryValue(ours, key), entryValue(theirs, key),
           resolveOne(key, ours, theirs, pins, strategy))

LEMMA SidesOfMerge ==
    ASSUME NEW base, NEW ours, NEW theirs, NEW pins, NEW strategy \in Strategies, NEW key
    PROVE  TakenSide(base, ours, theirs, pins, strategy, key) \in {"ours", "theirs", "manual"}
    BY DEF TakenSide, SideOf, resolveOne, pickNewestEntry, Strategies

SideSet(ours, theirs, side) == [ours |-> ours, theirs |-> theirs][side]

(* What a merge takes: the keys, and for each the entry of its side.       *)
TakenKeys(base, ours, theirs, pins, strategy) ==
    {key \in DOMAIN base.items \cup DOMAIN ours.items \cup DOMAIN theirs.items :
       /\ TakenSide(base, ours, theirs, pins, strategy, key) # "manual"
       /\ key \in DOMAIN SideSet(ours, theirs, TakenSide(base, ours, theirs, pins, strategy, key)).items}

TakenEntry(base, ours, theirs, pins, strategy, key) ==
    SideSet(ours, theirs, TakenSide(base, ours, theirs, pins, strategy, key)).items[key]

LEMMA MergeTakes ==
    ASSUME NEW base, NEW ours, NEW theirs, NEW pins, NEW strategy \in Strategies
    PROVE  LET m == threeWayMerge(base, ours, theirs, pins, strategy)
               order == Only(KeyOrder, TakenKeys(base, ours, theirs, pins, strategy))
           IN  /\ "items" \in DOMAIN m.manifest
               /\ m.manifest.items =
                    [i \in DOMAIN order |-> TakenEntry(base, ours, theirs, pins, strategy, order[i]).ref]
<1> DEFINE keys == DOMAIN base.items \cup DOMAIN ours.items \cup DOMAIN theirs.items
           side == [key \in keys |->
                   SideOf(entryValue(base, key), entryValue(ours, key), entryValue(theirs, key),
                          resolveOne(key, ours, theirs, pins, strategy))]
           from == [ours |-> ours, theirs |-> theirs]
           conflicts == {key \in keys : side[key] = "manual"}
           taken == {key \in keys \ conflicts : key \in DOMAIN from[side[key]].items}
           gives == [key \in taken |-> from[side[key]].items[key]]
           order == Only(KeyOrder, taken)
<1>1. \A key \in keys : side[key] = TakenSide(base, ours, theirs, pins, strategy, key)
    BY DEF TakenSide
<1>2. taken = TakenKeys(base, ours, theirs, pins, strategy)
    BY <1>1 DEF TakenKeys, SideSet
<1>3. \A key \in taken : gives[key] = TakenEntry(base, ours, theirs, pins, strategy, key)
    BY <1>1 DEF TakenEntry, SideSet
<1>4. \A i \in DOMAIN order : order[i] \in taken
  <2> HIDE DEF taken
  <2>1. Sequential(KeyOrder)
      BY RelockAssumption, SequentialOf
  <2>2. \A x : In(x, order) => x \in taken
      BY <2>1, OnlyIn
  <2> QED
      BY <2>2 DEF In
<1>5. /\ "items" \in DOMAIN threeWayMerge(base, ours, theirs, pins, strategy).manifest
      /\ threeWayMerge(base, ours, theirs, pins, strategy).manifest.items =
           [i \in DOMAIN order |-> gives[order[i]].ref]
    BY DEF threeWayMerge
<1> HIDE DEF gives, taken
<1>6. [i \in DOMAIN order |-> gives[order[i]].ref] =
        [i \in DOMAIN order |-> TakenEntry(base, ours, theirs, pins, strategy, order[i]).ref]
    BY <1>3, <1>4
<1> QED
    BY <1>2, <1>5, <1>6

LEMMA MergedIsAuthored ==
    ASSUME NEW strategy \in Strategies, NEW base, NEW o, NEW t, Authored(o), Authored(t),
           NEW orows, NEW trows, NEW pins
    PROVE  Authored(threeWayMerge(base, buildItemSet(o, orows), buildItemSet(t, trows),
                                  pins, strategy).manifest)
<1> DEFINE ours == buildItemSet(o, orows)
           theirs == buildItemSet(t, trows)
           m == threeWayMerge(base, ours, theirs, pins, strategy)
           taken == TakenKeys(base, ours, theirs, pins, strategy)
           order == Only(KeyOrder, taken)
<1>1. Sequential(order) /\ \A x : In(x, order) => x \in taken
  <2> HIDE DEF taken
  <2> QED
      BY RelockAssumption, SequentialOf, OnlyIn
<1>2. ASSUME NEW key \in taken
      PROVE  /\ TakenEntry(base, ours, theirs, pins, strategy, key).ref \in Inputs
             /\ refKey(TakenEntry(base, ours, theirs, pins, strategy, key).ref) = key
  <2>1. \/ TakenSide(base, ours, theirs, pins, strategy, key) = "ours" /\ key \in DOMAIN ours.items
        \/ TakenSide(base, ours, theirs, pins, strategy, key) = "theirs" /\ key \in DOMAIN theirs.items
    <3> HIDE DEF ours, theirs
    <3> QED
        BY SidesOfMerge DEF TakenKeys, SideSet
  <2>2. CASE TakenSide(base, ours, theirs, pins, strategy, key) = "ours" /\ key \in DOMAIN ours.items
    <3>1. TakenEntry(base, ours, theirs, pins, strategy, key) = ours.items[key]
        BY <2>2 DEF TakenEntry, SideSet
    <3>2. ours.items[key].ref \in ToSet(o.items) /\ refKey(ours.items[key].ref) = key
        BY <2>2, ItemSetItem
    <3> QED
        BY <3>1, <3>2 DEF Authored, ToSet
  <2>3. CASE TakenSide(base, ours, theirs, pins, strategy, key) = "theirs" /\ key \in DOMAIN theirs.items
    <3>1. TakenEntry(base, ours, theirs, pins, strategy, key) = theirs.items[key]
        BY <2>3 DEF TakenEntry, SideSet
    <3>2. theirs.items[key].ref \in ToSet(t.items) /\ refKey(theirs.items[key].ref) = key
        BY <2>3, ItemSetItem
    <3> QED
        BY <3>1, <3>2 DEF Authored, ToSet
  <2> QED
      BY <2>1, <2>2, <2>3
<1> HIDE DEF taken, ours, theirs
<1>3. PICK items : items = [i \in DOMAIN order |-> TakenEntry(base, ours, theirs, pins, strategy, order[i]).ref]
    OBVIOUS
<1>4. "items" \in DOMAIN m.manifest /\ m.manifest.items = items
    BY <1>3, MergeTakes DEF taken
<1>5. Sequential(items) /\ DOMAIN items = DOMAIN order
    BY <1>1, <1>3, MappedIsSequence
<1>6. \A i \in DOMAIN order : order[i] \in taken
    BY <1>1 DEF In
<1>7. items \in Seq(Inputs)
    BY <1>2, <1>3, <1>5, <1>6, SequenceOver DEF In
<1>8. \A x \in ToSet(items) : \E key \in taken : x = TakenEntry(base, ours, theirs, pins, strategy, key).ref
    BY <1>3, <1>5, <1>6 DEF ToSet
<1>9. OneSpec(ToSet(items))
    BY <1>2, <1>8 DEF OneSpec
<1> QED
    BY <1>4, <1>7, <1>9 DEF Authored, ours, theirs

-----------------------------------------------------------------------------
LEMMA AuthoredInit ==
    Init => AuthoredInv
<1> SUFFICES ASSUME Init
             PROVE  AuthoredInv
    OBVIOUS
<1>1. manifest \in FirstManifests
    BY DEF Init
<1>2. "items" \in DOMAIN manifest /\ manifest.items \in Seq(ToSet(manifest.items))
    BY <1>1, RelockAssumption DEF IsSequence
<1>3. \A x \in ToSet(manifest.items) : x \in Inputs
    BY <1>1 DEF Inputs
<1>4. manifest.items \in Seq(Inputs)
    BY <1>2, <1>3
<1>5. WrittenOnce => OneSpec(ToSet(manifest.items))
    BY <1>1 DEF WrittenOnce
<1> QED
    BY <1>2, <1>4, <1>5 DEF Init, AuthoredInv, Authored, Active, Idle, NoBranches

(* A command that goes on keeps the manifest it started with.              *)
LEMMA AuthoredGoesOn ==
    ASSUME AuthoredInv, UNCHANGED <<manifest, branches>>,
           \/ Active /\ job'.manifest = job.manifest
           \/ ~ Active'
           \/ job' = job
           \/ job'.manifest = manifest
    PROVE  AuthoredInv'
    BY DEF AuthoredInv, Active

LEMMA MenuAuthored ==
    ASSUME NEW ref \in Menu, NEW m, Authored(m), \A item \in ToSet(m.items) : refKey(item) # refKey(ref)
    PROVE  Authored([m EXCEPT !.items = Append(@, ref)])
<1>1. ref \in Inputs
    BY DEF Inputs
<1>2. PICK items : items = Append(m.items, ref)
    OBVIOUS
<1>3. items \in Seq(Inputs) /\ \A x : x \in ToSet(items) <=> x = ref \/ x \in ToSet(m.items)
  <2>1. /\ items \in Seq(Inputs) /\ Len(m.items) \in Nat /\ DOMAIN m.items = 1..Len(m.items)
        /\ DOMAIN items = 1..(Len(m.items) + 1)
        /\ items[Len(m.items) + 1] = ref /\ \A i \in 1..Len(m.items) : items[i] = m.items[i]
      BY <1>1, <1>2 DEF Authored
  <2> QED
      BY <2>1 DEF ToSet
<1>4. WrittenOnce => OneSpec(ToSet(items))
    BY <1>3 DEF OneSpec, Authored
<1> QED
    BY <1>2, <1>3, <1>4 DEF Authored

LEMMA OnlyAuthored ==
    ASSUME NEW m, Authored(m), NEW keep
    PROVE  Authored([m EXCEPT !.items = Only(@, keep)])
<1>1. PICK items : items = Only(m.items, keep)
    OBVIOUS
<1>2. items \in Seq(Inputs) /\ \A x : In(x, items) => In(x, m.items)
    BY <1>1, OnlyOfSet DEF Authored
<1>3. WrittenOnce => OneSpec(ToSet(items))
    BY <1>2, ToSetIn DEF OneSpec, Authored
<1> QED
    BY <1>1, <1>2, <1>3 DEF Authored

LEMMA AuthoredNext ==
    Inv /\ PinInv /\ AuthoredInv /\ [Next]_vars => AuthoredInv'
<1> SUFFICES ASSUME Inv, PinInv, AuthoredInv, [Next]_vars
             PROVE  AuthoredInv'
    OBVIOUS
<1>1. CASE Dedupe \/ ReusePin \/ Fetch
  <2>1. UNCHANGED <<manifest, branches>> /\ job.phase = "items"
      BY <1>1 DEF Dedupe, ReusePin, Fetch, AtRef, Same, Files
  <2>2. CASE job' = Idle
      BY <2>1, <2>2, AuthoredGoesOn DEF Active, Idle
  <2>3. CASE \E key : Pops(key)
    <3>1. job'.manifest = job.manifest
        BY <2>3 DEF Pops, Steady, Fields
    <3> QED
        BY <2>1, <3>1, AuthoredGoesOn DEF Active
  <2> QED
      BY <1>1, <2>2, <2>3, WorkPops
<1>2. CASE ResolveBaseLayer
  <2>1. UNCHANGED <<manifest, branches>> /\ job.phase = "base"
      BY <1>2 DEF ResolveBaseLayer, Files
  <2>2. job' = Idle \/ job'.manifest = job.manifest
      BY <1>2, BaseBegins DEF Fields
  <2> QED
      BY <2>1, <2>2, AuthoredGoesOn DEF Active, Idle
<1>3. CASE WriteLock \/ WriteGraph
  <2>1. UNCHANGED <<manifest, branches>>
      BY <1>3 DEF WriteLock, WriteGraph
  <2>2. Active /\ job'.manifest = job.manifest
      BY <1>3, WritesDo DEF Fields
  <2> QED
      BY <2>1, <2>2, AuthoredGoesOn
<1>4. CASE WriteMerge
  <2>1. Active /\ job'.manifest = job.manifest
      BY <1>4, WritesDo DEF Fields
  <2>2. manifest' = job.manifest /\ branches' = [branches EXCEPT !.base = branches.theirs]
      BY <1>4 DEF WriteMerge
  <2>3. branches'.forked => branches.forked
      BY <2>2
  <2>4. branches.forked => /\ {"base", "theirs"} \subseteq DOMAIN branches'
                           /\ branches'.base = branches.theirs /\ branches'.theirs = branches.theirs
      BY <2>2 DEF AuthoredInv
  <2> QED
      BY <2>1, <2>2, <2>3, <2>4 DEF AuthoredInv
<1>5. CASE RefuseSource \/ RefuseOffline \/ RefuseResult \/ Kill
  <2>1. UNCHANGED <<manifest, branches>> /\ job' = Idle
      BY <1>5 DEF RefuseSource, RefuseOffline, RefuseResult, Kill, Stops, Same, Files
  <2>2. ~ Active'
      BY <2>1 DEF Idle, Active
  <2> QED
      BY <2>1, <2>2, AuthoredGoesOn
<1>6. CASE ImportLock \/ ImportGraph \/ LoseCache
  <2>1. UNCHANGED <<manifest, branches>> /\ job'.phase \in {"idle", "import", "adopted"}
    <3>1. CASE ImportLock
        BY <3>1 DEF ImportLock, Inv, JobShape
    <3>2. CASE ImportGraph \/ LoseCache
        BY <3>2 DEF ImportGraph, LoseCache, Stops, Idle
    <3> QED
        BY <1>6, <3>1, <3>2
  <2>2. ~ Active'
      BY <2>1 DEF Active
  <2> QED
      BY <2>1, <2>2, AuthoredGoesOn
<1>7. ASSUME Import
      PROVE  AuthoredInv'
  <2>1. /\ \E archive \in Archives : \E entries \in entriesOf(archive) : \E loader :
              manifest' = adoptedManifest(archive, entries, loader)
        /\ job'.phase = "import" /\ branches' = branches
      BY <1>7 DEF Import
  <2>2. Authored(manifest')
      BY <2>1, AdoptedIsAuthored
  <2> QED
      BY <2>1, <2>2 DEF AuthoredInv, Active
<1>8. CASE \E how \in LockMenu : Lock(how.upgrade, how.offline)
    BY <1>8, AuthoredGoesOn DEF Lock, Started
<1>9. CASE Fork
    BY <1>9 DEF Fork, Commit, AuthoredInv, Idle, Active
<1>10. CASE Switch
  <2>1. /\ manifest' = branches.theirs.manifest /\ branches.forked
        /\ branches' = [branches EXCEPT !.theirs = Commit] /\ job' = Idle
      BY <1>10 DEF Switch
  <2>2. /\ {"base", "theirs"} \subseteq DOMAIN branches'
        /\ branches'.base = branches.base /\ branches'.theirs = Commit
      BY <2>1 DEF AuthoredInv
  <2>3. Commit.manifest = manifest
      BY DEF Commit
  <2>4. Authored(branches'.base.manifest) /\ Authored(branches'.theirs.manifest) /\ Authored(manifest')
      BY <2>1, <2>2, <2>3 DEF AuthoredInv
  <2> QED
      BY <2>1, <2>2, <2>4 DEF AuthoredInv, Active, Idle
<1>11. ASSUME NEW strategy \in {"ours", "theirs", "newest", "manual"}, Merge(strategy)
       PROVE  AuthoredInv'
  <2>1. UNCHANGED <<manifest, branches>> /\ branches.forked
      BY <1>11 DEF Merge
  <2>2. CASE ~ Merged(strategy).clean
      BY <1>11, <2>1, <2>2, AuthoredGoesOn DEF Merge, Idle, Active
  <2>3. CASE Merged(strategy).clean
    <3>1. job'.manifest = Merged(strategy).manifest
        BY <1>11, <2>3 DEF Merge, Started
    <3>2. Commit.manifest = manifest
        BY DEF Commit
    <3>3. Authored(Merged(strategy).manifest)
        BY <2>1, <3>2, MergedIsAuthored DEF Merged, itemSetOf, AuthoredInv, Strategies
    <3> QED
        BY <2>1, <3>1, <3>3 DEF AuthoredInv
  <2> QED
      BY <2>2, <2>3
<1>12. ASSUME NEW ref \in Menu, addItem(ref) \/ removeItem(ref)
       PROVE  AuthoredInv'
  <2>1. Authored(manifest')
      BY <1>12, MenuAuthored, OnlyAuthored DEF addItem, removeItem, AuthoredInv
  <2>2. branches' = branches /\ (job' = Idle \/ job' = job)
      BY <1>12 DEF addItem, removeItem, Rests
  <2> QED
      BY <2>1, <2>2 DEF AuthoredInv, Active, Idle
<1>13. ASSUME NEW game \in GameMenu, EditGame(game)
       PROVE  AuthoredInv'
  <2>1. manifest' = [manifest EXCEPT !.game = game] /\ branches' = branches /\ (job' = Idle \/ job' = job)
      BY <1>13 DEF EditGame, Rests
  <2>2. Authored(manifest')
      BY <2>1 DEF AuthoredInv, Authored
  <2> QED
      BY <2>1, <2>2 DEF AuthoredInv, Active, Idle
<1>14. ASSUME NEW p \in DOMAIN published, Publish(p)
       PROVE  AuthoredInv'
    BY <1>14, AuthoredGoesOn DEF Publish, Rests, Idle, Active
<1>15. CASE UNCHANGED vars
    BY <1>15, AuthoredGoesOn DEF vars
<1> QED
    BY <1>1, <1>2, <1>3, <1>4, <1>5, <1>6, <1>7, <1>8, <1>9, <1>10, <1>11, <1>12, <1>13, <1>14, <1>15
       DEF Next, Resolve

-----------------------------------------------------------------------------
(* The catalogues.                                                         *)

Content(p) == Source[p] \notin {"modrinth", "curseforge"}

PublishedInv ==
    /\ Projects \subseteq DOMAIN published
    /\ \A p \in Projects : /\ published[p] \in 0..Len(Releases[p])
                           /\ Content(p) => published[p] # 0

LEMMA ReleasesDomain ==
    ASSUME NEW p \in Projects
    PROVE  /\ DOMAIN Releases[p] = 1..Len(Releases[p]) /\ Len(Releases[p]) \in Nat
           /\ \A v \in DOMAIN Releases[p] :
                 /\ Sequential(Releases[p][v].requires)
                 /\ \A x : In(x, Releases[p][v].requires) => x \in Required
<1>1. IsSequence(Releases[p])
    BY RelockAssumption
<1>2. DOMAIN Releases[p] = 1..Len(Releases[p]) /\ Len(Releases[p]) \in Nat
    BY <1>1 DEF IsSequence
<1>3. ASSUME NEW v \in DOMAIN Releases[p]
      PROVE  /\ Sequential(Releases[p][v].requires)
             /\ \A x : In(x, Releases[p][v].requires) => x \in Required
  <2>1. IsSequence(Releases[p][v].requires)
      BY <1>3, RelockAssumption
  <2>2. PICK requires : requires = Releases[p][v].requires
      OBVIOUS
  <2>3. Sequential(requires) /\ \A x : In(x, requires) => x \in ToSet(requires)
      BY <2>1, <2>2, SequentialOf
  <2>4. ToSet(requires) \in {ToSet(Releases[p][w].requires) : w \in DOMAIN Releases[p]}
      BY <1>3, <2>2
  <2>5. \A x \in ToSet(requires) : x \in Required
    <3>1. \A x \in ToSet(requires) : x \in UNION {ToSet(Releases[p][w].requires) : w \in DOMAIN Releases[p]}
        BY <2>4
    <3>2. UNION {ToSet(Releases[p][w].requires) : w \in DOMAIN Releases[p]} \subseteq Required
        BY DEF Required
    <3> QED
        BY <3>1, <3>2
  <2> QED
      BY <2>2, <2>3, <2>5
<1> QED
    BY <1>2, <1>3

LEMMA PublishedInit ==
    Init => PublishedInv
    BY RelockAssumption DEF Init, PublishedInv, Content

LEMMA PublishedNext ==
    PublishedInv /\ [Next]_vars => PublishedInv'
<1> SUFFICES ASSUME PublishedInv, [Next]_vars
             PROVE  PublishedInv'
    OBVIOUS
<1>1. ASSUME NEW p \in DOMAIN published, Publish(p)
      PROVE  PublishedInv'
  <2>1. published' = [published EXCEPT ![p] = @ + 1]
      BY <1>1 DEF Publish
  <2>2. p \in Projects => published[p] < Len(Releases[p])
      BY <1>1 DEF Publish
  <2>3. ASSUME NEW q \in Projects
        PROVE  /\ published'[q] \in 0..Len(Releases[q])
               /\ Content(q) => published'[q] # 0
    <3>1. published[q] \in 0..Len(Releases[q]) /\ q \in DOMAIN published /\ Len(Releases[q]) \in Nat
        BY ReleasesDomain DEF PublishedInv
    <3>2. CASE q = p
      <4>1. published'[q] = published[q] + 1
          BY <2>1, <3>1, <3>2
      <4> QED
          BY <2>2, <3>1, <3>2, <4>1
    <3>3. CASE q # p
      <4>1. published'[q] = published[q]
          BY <2>1, <3>3
      <4> QED
          BY <3>1, <4>1 DEF PublishedInv
    <3> QED
        BY <3>2, <3>3
  <2>4. DOMAIN published' = DOMAIN published
      BY <2>1
  <2> QED
      BY <2>3, <2>4 DEF PublishedInv, Content
<1>2. CASE published' = published
    BY <1>2 DEF PublishedInv
<1>3. CASE Resolve
  <2>1. published' = published
      BY <1>3 DEF Resolve, ResolveBaseLayer, RefuseSource, Dedupe, ReusePin, RefuseOffline, Fetch,
                  RefuseResult, WriteLock, WriteGraph, WriteMerge, ImportLock, ImportGraph, Same, Files
  <2> QED
      BY <1>2, <2>1
<1>4. CASE \/ \E how \in LockMenu : Lock(how.upgrade, how.offline)
           \/ Import
           \/ Fork \/ Switch
           \/ \E strategy \in {"ours", "theirs", "newest", "manual"} : Merge(strategy)
           \/ \E ref \in Menu : addItem(ref) \/ removeItem(ref)
           \/ \E game \in GameMenu : EditGame(game)
           \/ LoseCache
           \/ Kill
  <2>1. published' = published
      BY <1>4 DEF Lock, Import, Fork, Switch, Merge, addItem, removeItem, EditGame, LoseCache,
                  Kill, Same, Files
  <2> QED
      BY <1>2, <2>1
<1> QED
    BY <1>1, <1>2, <1>3, <1>4 DEF Next, vars

-----------------------------------------------------------------------------
(* The newest of some releases is one of them.                             *)
LEMMA Greatest ==
    ASSUME NEW N \in Nat, NEW T, T \subseteq 0..N, T # {}
    PROVE  \E n \in T : \A m \in T : m <= n
<1> DEFINE D == {k \in 0..N : N - k \in T}
<1>1. \A t \in T : N - t \in D /\ N - (N - t) = t
    OBVIOUS
<1>2. D # {} /\ D \subseteq Nat
  <2>1. PICK t \in T : TRUE
      OBVIOUS
  <2>2. N - t \in D
      BY <1>1
  <2> QED
      BY <2>2
<1>3. PICK k \in D : \A j \in D : k <= j
  <2> HIDE DEF D
  <2> QED
      BY <1>2, Least
<1>4. N - k \in T /\ k \in 0..N
    OBVIOUS
<1>5. ASSUME NEW m \in T
      PROVE  m <= N - k
  <2>1. k <= N - m
      BY <1>1, <1>3
  <2> QED
      BY <1>4, <2>1
<1> QED
    BY <1>4, <1>5

LEMMA NewestIsOne ==
    ASSUME NEW N \in Nat, NEW T, T \subseteq 1..N, NEW v \in Newest(T)
    PROVE  v \in T
<1>1. T # {} /\ v = MaxOf(T)
    BY DEF Newest
<1>2. T \subseteq 0..N
    OBVIOUS
<1>3. \E n \in T : \A m \in T : m <= n
    BY <1>1, <1>2, Greatest
<1> QED
    BY <1>1, <1>3 DEF MaxOf

LEMMA ProjectFound ==
    ASSUME NEW ref, \E p \in Projects : Source[p] = ref.source /\ ref.id \in {p, Id[p]}
    PROVE  /\ projectOf(ref) \in Projects /\ Source[projectOf(ref)] = ref.source
           /\ projectOf(ref) = ProjectAt(refKey(ref))
    BY DEF projectOf, ProjectAt, refKey

LEMMA LocalizedSource ==
    ASSUME NEW ref
    PROVE  localizeRef(ref).source = ref.source /\ localizeRef(ref).spec = ref.spec
    BY DEF localizeRef

Meets1(spec, row) ==
    specSatisfiedBy(spec, row) \/ (row.source = "curseforge" /\ fileID(row.version) \in spec.versions)

(* What a source answers: a release of the project that is named, which    *)
(* meets the spec, and what that release requires.                         *)
LEMMA ResolveGives ==
    ASSUME PublishedInv, NEW input \in Inputs, NEW ref, ref = localizeRef(input), AllowSource(ref),
           NEW clock, NEW game, NEW result \in resolve(ref, clock, game)
    PROVE  \E p \in Projects : \E v \in DOMAIN Releases[p] :
             /\ result.dependencies = Releases[p][v].requires
             /\ result.pkg.name = p /\ result.pkg.hash = <<p, v>> /\ result.pkg.source = ref.source
             /\ p = ProjectAt(refKey(ref)) /\ canonicalKeyOf(result.pkg) = CatalogueKey(refKey(ref))
             /\ NoFileRanges => Meets1(ref.spec, result.pkg)
             /\ ref.source \in {"modrinth", "curseforge"} =>
                   result.pkg.version = v /\ game \in Releases[p][v].fits
<1> DEFINE p == projectOf(ref)
<1>0. ref.source = input.source /\ ref.spec = input.spec
    BY LocalizedSource
<1>1. p \in Projects /\ Source[p] = ref.source /\ p = ProjectAt(refKey(ref))
  <2>1. \E q \in Projects : Source[q] = ref.source /\ ref.id \in {q, Id[q]}
      BY <1>0, RelockAssumption
  <2> QED
      BY <2>1, ProjectFound
<1>2. published[p] \in 0..Len(Releases[p]) /\ DOMAIN Releases[p] = 1..Len(Releases[p])
      /\ Len(Releases[p]) \in Nat /\ (Content(p) => published[p] # 0)
    BY <1>1, ReleasesDomain DEF PublishedInv
<1>3. ref.spec.kind \in {"latest", "pin", "range"}
      /\ (ref.source \notin {"modrinth", "curseforge"} => ref.spec.kind = "latest")
    BY <1>0, RelockAssumption DEF Latest
<1> HIDE DEF p
<1>4. \A target, version, v : canonicalKeyOf(rowOf(p, version, v, target)) = CatalogueKey(refKey(ref))
    BY <1>1 DEF canonicalKeyOf, rowOf, CatalogueKey, refKey
<1>5. ASSUME NEW version, NEW v \in DOMAIN Releases[p], result = Result(ref, p, version, v)
      PROVE  /\ result.dependencies = Releases[p][v].requires
             /\ result.pkg.name = p /\ result.pkg.hash = <<p, v>> /\ result.pkg.source = ref.source
             /\ canonicalKeyOf(result.pkg) = CatalogueKey(refKey(ref))
             /\ result.pkg.version = version
    BY <1>1, <1>4, <1>5 DEF Result, rowOf
<1>6. CASE ref.source = "modrinth"
  <2>1. PICK v \in selectVersion(ref.spec, Listed(p, game), clock[p]) : result = Result(ref, p, v, v)
      BY <1>6 DEF resolve, resolveModrinth, p
  <2>2. Listed(p, game) \subseteq 1..Len(Releases[p])
      BY <1>2 DEF Listed
  <2>3. PICK T : T \subseteq Listed(p, game) /\ v \in Newest(T)
                 /\ (ref.spec.kind # "latest" => T \subseteq ref.spec.versions)
      BY <1>3, <2>1 DEF selectVersion
  <2>4. v \in T
      BY <1>2, <2>2, <2>3, NewestIsOne
  <2>5. v \in DOMAIN Releases[p] /\ game \in Releases[p][v].fits
      BY <1>2, <2>2, <2>3, <2>4 DEF Listed
  <2>6. ref.spec.kind = "latest" \/ v \in ref.spec.versions
      BY <2>3, <2>4
  <2>7. Meets1(ref.spec, result.pkg)
      BY <1>5, <2>1, <2>5, <2>6 DEF Meets1, specSatisfiedBy
  <2> QED
      BY <1>1, <1>5, <2>1, <2>5, <2>7
<1>7. CASE ref.source = "curseforge"
  <2>1. PICK v \in selectFile(ref.spec, Listed(p, game), clock[p]) : result = Result(ref, p, v, v)
      BY <1>7 DEF resolve, resolveCurseforge, p
  <2>2. Listed(p, game) \subseteq 1..Len(Releases[p])
      BY <1>2 DEF Listed
  <2>3. PICK T : T \subseteq Listed(p, game) /\ v \in Newest(T)
                 /\ (ref.spec.kind = "pin" => \A w \in T : {w, fileID(w)} \cap ref.spec.versions # {})
      BY <1>3, <2>1 DEF selectFile
  <2>4. v \in T
      BY <1>2, <2>2, <2>3, NewestIsOne
  <2>5. v \in DOMAIN Releases[p] /\ game \in Releases[p][v].fits
      BY <1>2, <2>2, <2>3, <2>4 DEF Listed
  <2>6. NoFileRanges => ref.spec.kind = "latest" \/ v \in ref.spec.versions \/ fileID(v) \in ref.spec.versions
      BY <1>0, <1>3, <1>7, <2>3, <2>4 DEF NoFileRanges
  <2>7. NoFileRanges => Meets1(ref.spec, result.pkg)
      BY <1>5, <1>7, <2>1, <2>5, <2>6 DEF Meets1, specSatisfiedBy
  <2> QED
      BY <1>1, <1>5, <2>1, <2>5, <2>7
<1>8. CASE ref.source \notin {"modrinth", "curseforge"}
  <2>1. result = Result(ref, p, 0, published[p])
      BY <1>8 DEF resolve, resolveContent, p
  <2>2. published[p] \in DOMAIN Releases[p]
      BY <1>1, <1>2, <1>8 DEF Content
  <2>3. Meets1(ref.spec, result.pkg)
      BY <1>3, <1>8 DEF Meets1, specSatisfiedBy
  <2> QED
      BY <1>1, <1>5, <1>8, <2>1, <2>2, <2>3
<1> QED
    BY <1>6, <1>7, <1>8

-----------------------------------------------------------------------------
(* Every step, by what it does to the command.                             *)
Begins ==
    /\ job.phase = "base" /\ job'.phase = "items" /\ Fields \subseteq DOMAIN job'
    /\ \A f \in Fields \ {"phase", "base", "release", "queue"} : job'[f] = job[f]
    /\ job'.queue = Enqueue(Roots, "(manifest)")
    /\ job'.base = IF job'.release = NoBase THEN {} ELSE Members(job'.release)
    /\ job'.release # NoBase => PackOf(job'.release).game = job.manifest.game.minecraft

Writes ==
    /\ Active /\ job.phase \in {"items", "graph"} /\ job'.phase \in {"graph", "done"}
    /\ job.phase = "items" => job.queue = <<>>
    /\ Fields \subseteq DOMAIN job'
    /\ \A f \in Fields \ {"phase", "edges"} : job'[f] = job[f]
    /\ \/ /\ job'.phase = "graph" /\ job.kind = "lock"
          /\ job'.edges = job.edges \cup MemberEdges
       \/ /\ job'.phase = "done" /\ job.phase = "graph" /\ UNCHANGED <<manifest, lock>>
          /\ job'.edges = job.edges /\ graph' = job.edges
       \/ /\ job'.phase = "done" /\ job.phase = "items" /\ job.kind = "merge"
          /\ manifest' = job.manifest /\ lock'.base = job.release
          /\ job'.edges = job.edges

Rested == job'.phase \in {"idle", "import", "adopted"}

LEMMA Steps ==
    ASSUME Inv, PinInv, [Next]_vars
    PROVE  \/ Rested \/ Stays \/ Starts \/ Begins \/ Writes
           \/ \E key : Pops(key)
<1>1. CASE Dedupe \/ ReusePin \/ Fetch
    BY <1>1, WorkPops DEF Rested, Idle
<1>2. CASE ResolveBaseLayer
    BY <1>2, BaseBegins DEF Begins, Rested, Idle
<1>3. CASE WriteLock \/ WriteGraph \/ WriteMerge
    BY <1>3, WritesDo DEF Writes
<1>4. CASE Others
    BY <1>4, OthersDo DEF Rested
<1>5. CASE UNCHANGED vars
    BY <1>5 DEF vars, Stays
<1> QED
    BY <1>1, <1>2, <1>3, <1>4, <1>5 DEF Next, Resolve, Others

-----------------------------------------------------------------------------
(* The worklist holds what may be asked for, in an order, and what was     *)
(* resolved and demanded is finite.                                        *)
Queued(queue) ==
    /\ Sequential(queue)
    /\ \A x : In(x, queue) => \E input \in Inputs : x.ref = localizeRef(input)

WorkInv ==
    Active => /\ Queued(job.queue)
              /\ IsFiniteSet(DOMAIN job.resolved)
              /\ IsFiniteSet(job.demands)

LEMMA QueuedRefs ==
    ASSUME NEW refs, Sequential(refs), \A ref : In(ref, refs) => ref \in Inputs, NEW by
    PROVE  Queued(Enqueue(refs, by))
<1>1. Sequential(Enqueue(refs, by))
    BY EnqueueIn
<1>2. ASSUME NEW x, In(x, Enqueue(refs, by))
      PROVE  \E input \in Inputs : x.ref = localizeRef(input)
  <2>1. PICK ref : In(ref, refs) /\ x = [ref |-> localizeRef(ref), by |-> by]
      BY <1>2, EnqueueIn
  <2> QED
      BY <2>1
<1> QED
    BY <1>1, <1>2 DEF Queued

LEMMA RootsQueued ==
    ASSUME Authored(job.manifest)
    PROVE  /\ Queued(Enqueue(Roots, "(manifest)")) /\ Sequential(Roots)
           /\ \A x : In(x, Roots) <=> x \in ToSet(job.manifest.items) /\ refKey(localizeRef(x)) \notin RemoveKeys
<1>1. Sequential(job.manifest.items) /\ \A x : In(x, job.manifest.items) => x \in Inputs
    BY DEF Authored, Sequential, In
<1>2. PICK keep : keep = {ref \in ToSet(job.manifest.items) : refKey(localizeRef(ref)) \notin RemoveKeys}
    OBVIOUS
<1>3. Roots = Only(job.manifest.items, keep)
    BY <1>2 DEF Roots
<1>4. Sequential(Roots) /\ \A x : In(x, Roots) <=> x \in keep /\ In(x, job.manifest.items)
    BY <1>1, <1>3, OnlyIn
<1>5. Queued(Enqueue(Roots, "(manifest)"))
    BY <1>1, <1>4, QueuedRefs
<1>6. \A x : x \in keep => In(x, job.manifest.items)
    BY <1>2, ToSetIn
<1> QED
    BY <1>2, <1>4, <1>5, <1>6

LEMMA HeadAsked ==
    ASSUME WorkInv, NEW key, Pops(key)
    PROVE  \E input \in Inputs : Next1.ref = localizeRef(input) /\ AllowSource(Next1.ref)
<1>1. Queued(job.queue) /\ job.queue # <<>> /\ AllowSource(Next1.ref)
    BY DEF WorkInv, Pops, Active
<1>2. In(Next1, job.queue)
    BY <1>1, QueueTail DEF Next1, Queued
<1> QED
    BY <1>1, <1>2 DEF Queued

LEMMA AnswersGive ==
    ASSUME WorkInv, PublishedInv, NEW key, Pops(key), NEW result \in Answers
    PROVE  \E p \in Projects : \E v \in DOMAIN Releases[p] :
             /\ result.dependencies = Releases[p][v].requires
             /\ result.pkg.name = p /\ result.pkg.hash = <<p, v>> /\ result.pkg.source = Next1.ref.source
             /\ p = ProjectAt(Key) /\ canonicalKeyOf(result.pkg) = CatalogueKey(Key)
             /\ NoFileRanges => Meets1(Next1.ref.spec, result.pkg)
             /\ Next1.ref.source \in {"modrinth", "curseforge"} =>
                   /\ result.pkg.version = v
                   /\ job.manifest.game.minecraft \in Releases[p][v].fits
<1>1. PICK input \in Inputs : Next1.ref = localizeRef(input) /\ AllowSource(Next1.ref)
    BY HeadAsked
<1>2. PICK ref : ref = Next1.ref
    OBVIOUS
<1>3. PICK clock, game : clock = job.clock /\ game = job.manifest.game.minecraft
    OBVIOUS
<1>4. result \in resolve(ref, clock, game)
    BY <1>2, <1>3 DEF Answers
<1> QED
    BY <1>1, <1>2, <1>3, <1>4, ResolveGives DEF Key

(* What the worklist is after a pop.                                       *)
LEMMA QueueAfter ==
    ASSUME WorkInv, PublishedInv, NEW key, Pops(key)
    PROVE  /\ Queued(job'.queue)
           /\ \A x : In(x, job.queue) => x = Next1 \/ In(x, job'.queue)
           /\ \/ Len(job'.queue) < Len(job.queue)
              \/ key \notin DOMAIN job.resolved /\ key \in DOMAIN job'.resolved
<1>1. Queued(job.queue) /\ job.queue # <<>>
    BY DEF WorkInv, Pops, Active
<1>2. PICK tail : tail = Tail(job.queue)
    OBVIOUS
<1>3. /\ Sequential(tail) /\ Len(tail) < Len(job.queue)
      /\ \A x : In(x, job.queue) <=> x = Next1 \/ In(x, tail)
    BY <1>1, <1>2, QueueTail DEF Queued, Next1
<1>4. Queued(tail)
    BY <1>1, <1>3 DEF Queued
<1>5. CASE MetAt(key) \/ ReusedAt(key)
  <2>1. job'.queue = tail
      BY <1>2, <1>5 DEF MetAt, ReusedAt
  <2> QED
      BY <1>3, <1>4, <2>1
<1>6. CASE FoundAt(key)
  <2>1. PICK result \in Answers :
           /\ job'.queue = tail \o Enqueue(result.dependencies, result.pkg.name)
           /\ \E row : job'.resolved = Put(job.resolved, key, row)
      BY <1>2, <1>6 DEF FoundAt
  <2>2. Sequential(result.dependencies) /\ \A x : In(x, result.dependencies) => x \in Inputs
      BY AnswersGive, ReleasesDomain DEF Inputs
  <2>3. PICK more : more = Enqueue(result.dependencies, result.pkg.name)
      OBVIOUS
  <2>4. Queued(more)
      BY <2>2, <2>3, QueuedRefs
  <2>5. Sequential(tail \o more) /\ \A x : In(x, tail \o more) <=> In(x, tail) \/ In(x, more)
      BY <1>3, <2>4, QueueConcat DEF Queued
  <2>6. Queued(tail \o more)
      BY <1>4, <2>4, <2>5 DEF Queued
  <2>7. key \notin DOMAIN job.resolved /\ key \in DOMAIN job'.resolved
      BY <1>6, <2>1 DEF FoundAt, Put
  <2> QED
      BY <1>3, <2>1, <2>3, <2>5, <2>6, <2>7
<1> QED
    BY <1>5, <1>6 DEF Pops

LEMMA ResolvedAfter ==
    ASSUME NEW key, Pops(key)
    PROVE  /\ DOMAIN job'.resolved = DOMAIN job.resolved \cup {key}
           /\ \A k \in DOMAIN job.resolved : k # key => job'.resolved[k] = job.resolved[k]
<1>1. (job'.resolved = job.resolved /\ key \in DOMAIN job.resolved)
      \/ \E row : job'.resolved = Put(job.resolved, key, row)
    BY DEF Pops, MetAt, ReusedAt, FoundAt
<1> QED
    BY <1>1 DEF Put

LEMMA WorkInvInit ==
    Init => WorkInv
    BY DEF Init, WorkInv, Active, Idle

LEMMA WorkInvNext ==
    Inv /\ PinInv /\ AuthoredInv /\ PublishedInv /\ WorkInv /\ [Next]_vars => WorkInv'
<1> SUFFICES ASSUME Inv, PinInv, AuthoredInv, PublishedInv, WorkInv, [Next]_vars
             PROVE  WorkInv'
    OBVIOUS
<1>1. CASE Rested
    BY <1>1 DEF Rested, WorkInv, Active
<1>2. CASE Stays
    BY <1>2 DEF Stays, WorkInv, Active
<1>3. CASE Starts
  <2>1. /\ job'.queue = <<>> /\ job'.resolved = <<>> /\ job'.demands = {}
      BY <1>3, StartsAnew
  <2>2. Queued(<<>>)
      BY DEF Queued, Sequential, In
  <2>3. IsFiniteSet({}) /\ DOMAIN <<>> = {}
      BY FS_EmptySet
  <2> QED
      BY <2>1, <2>2, <2>3 DEF WorkInv
<1>4. CASE Begins
  <2>1. Active /\ job'.resolved = job.resolved /\ job'.demands = job.demands
      BY <1>4 DEF Begins, Fields, Active
  <2>2. Queued(job'.queue)
      BY <1>4, <2>1, RootsQueued DEF AuthoredInv, Begins
  <2> QED
      BY <2>1, <2>2 DEF WorkInv
<1>5. CASE Writes
  <2>1. Active /\ job'.resolved = job.resolved /\ job'.demands = job.demands /\ job'.queue = job.queue
      BY <1>5 DEF Writes, Fields
  <2> QED
      BY <2>1 DEF WorkInv
<1>6. ASSUME NEW key, Pops(key)
      PROVE  WorkInv'
  <2>1. IsFiniteSet(DOMAIN job.resolved) /\ IsFiniteSet(job.demands)
      BY <1>6 DEF WorkInv, Pops, Active
  <2>2. IsFiniteSet(DOMAIN job.resolved \cup {key})
      BY <2>1, FS_AddElement
  <2>3. PICK d : job'.demands = job.demands \cup {d}
      BY <1>6 DEF Pops
  <2>4. IsFiniteSet(job'.demands)
      BY <2>1, <2>3, FS_AddElement
  <2> QED
      BY <1>6, <2>2, <2>4, QueueAfter, ResolvedAfter DEF WorkInv
<1> QED
    BY <1>1, <1>2, <1>3, <1>4, <1>5, <1>6, Steps

-----------------------------------------------------------------------------
ResolveInv == Inv /\ PinInv /\ AuthoredInv /\ PublishedInv /\ WorkInv

LEMMA ResolveInvInit ==
    Init => ResolveInv
    BY InvInit, PinInvInit, AuthoredInit, PublishedInit, WorkInvInit DEF ResolveInv

LEMMA ResolveInvNext ==
    ResolveInv /\ [Next]_vars => ResolveInv'
    BY InvNext, PinInvNext, AuthoredNext, PublishedNext, WorkInvNext DEF ResolveInv

LEMMA ShrinksNext ==
    ResolveInv /\ [Next]_vars =>
        [job.phase = "items" /\ job'.phase = "items" /\ job' # job =>
         \/ Len(job'.queue) < Len(job.queue)
         \/ Cardinality(DOMAIN job'.resolved) > Cardinality(DOMAIN job.resolved)]_vars
<1> SUFFICES ASSUME ResolveInv, [Next]_vars, job.phase = "items", job'.phase = "items", job' # job
             PROVE  \/ Len(job'.queue) < Len(job.queue)
                    \/ Cardinality(DOMAIN job'.resolved) > Cardinality(DOMAIN job.resolved)
    OBVIOUS
<1>1. PICK key : Pops(key)
    BY Steps, StartsAnew DEF ResolveInv, Rested, Stays, Begins, Writes
<1>2. CASE key \notin DOMAIN job.resolved
  <2>1. IsFiniteSet(DOMAIN job.resolved)
      BY DEF ResolveInv, WorkInv, Active
  <2>2. PICK D : D = DOMAIN job.resolved
      OBVIOUS
  <2>3. Cardinality(D \cup {key}) = Cardinality(D) + 1 /\ Cardinality(D) \in Nat
      BY <1>2, <2>1, <2>2, FS_AddElement, FS_CardinalityType
  <2>4. DOMAIN job'.resolved = D \cup {key}
      BY <1>1, <2>2, ResolvedAfter
  <2> QED
      BY <2>2, <2>3, <2>4
<1> QED
    BY <1>1, <1>2, QueueAfter DEF ResolveInv

(* The worklist ends, whatever requires whatever, for any catalogues and   *)
(* any number of operations: each step of it leaves fewer refs to resolve  *)
(* or resolves a project that was not resolved before (resolver/           *)
(* resolve.ts, the worklist).                                              *)
THEOREM WorklistsEnd ==
    Spec => WorklistShrinks
<1>1. Init => ResolveInv
    BY ResolveInvInit
<1>2. ResolveInv /\ [Next]_vars => ResolveInv'
    BY ResolveInvNext
<1>3. ResolveInv /\ [Next]_vars =>
        [job.phase = "items" /\ job'.phase = "items" /\ job' # job =>
         \/ Len(job'.queue) < Len(job.queue)
         \/ Cardinality(DOMAIN job'.resolved) > Cardinality(DOMAIN job.resolved)]_vars
    BY ShrinksNext
<1> QED
    BY <1>1, <1>2, <1>3, PTL DEF Spec, WorklistShrinks

-----------------------------------------------------------------------------
(* Closure.  A key is doubled when demands of two names led to it.         *)
DoubledIn(demands, alias, key) ==
    \E d, e \in demands : alias[d.key] = key /\ alias[e.key] = key /\ d.key # e.key

(* What is resolved was demanded, a name leads to itself or to what the    *)
(* catalogue has under it, and every demand is met.                        *)
ClaimedIn(demands, alias, resolved) ==
    \A key \in DOMAIN resolved : \E d \in demands : alias[d.key] = key
LeadIn(alias) ==
    \A name \in DOMAIN alias : alias[name] = name \/ alias[name] = CatalogueKey(name)
MetIn(demands, alias, resolved) ==
    \A d \in demands : \/ DoubledIn(demands, alias, alias[d.key])
                       \/ Meets1(d.spec, resolved[alias[d.key]])

(* A ref is seen to when its name leads somewhere or it is in the worklist,*)
(* and what a fetched row's release requires is seen to, as are the roots. *)
SeenIn(ref, alias, queue) ==
    \/ refKey(localizeRef(ref)) \in DOMAIN alias
    \/ \E x : In(x, queue) /\ x.ref = localizeRef(ref)
RequiresSeen(row, alias, queue) ==
    \E p \in Projects : \E v \in DOMAIN Releases[p] :
        /\ row.name = p /\ row.hash = <<p, v>>
        /\ \A ref : In(ref, Releases[p][v].requires) => SeenIn(ref, alias, queue)
FetchedIn(fetched, demands, alias, resolved, queue) ==
    \A key \in fetched :
        /\ key \in DOMAIN resolved
        /\ DoubledIn(demands, alias, key) \/ RequiresSeen(resolved[key], alias, queue)

ClosureInv ==
    Active =>
        /\ ClaimedIn(job.demands, job.alias, job.resolved)
        /\ LeadIn(job.alias)
        /\ NoFileRanges => MetIn(job.demands, job.alias, job.resolved)
        /\ FetchedIn(job.fetched, job.demands, job.alias, job.resolved, job.queue)
        /\ job.phase = "base" => job.fetched = {}
        /\ job.phase # "base" => \A ref : In(ref, Roots) => SeenIn(ref, job.alias, job.queue)
        /\ job.phase \in {"graph", "done"} => job.queue = <<>>
        /\ job.kind = "lock" => job.pins = Rows(job.prior)

-----------------------------------------------------------------------------
(* What a pop does to the names and the demands.                           *)
Demand == [key |-> Key, by |-> Next1.by, spec |-> Next1.ref.spec]

LEMMA NamesAfter ==
    ASSUME PinInv, NEW key, Pops(key)
    PROVE  /\ \A d \in job.demands : /\ d \in job'.demands /\ d.key \in DOMAIN job.alias
                                     /\ job'.alias[d.key] = job.alias[d.key]
                                     /\ job.alias[d.key] \in DOMAIN job.resolved
           /\ Demand \in job'.demands /\ Demand.key = Key /\ Demand.spec = Next1.ref.spec
           /\ job'.alias[Key] = key
           /\ \A d \in job'.demands : d \in job.demands \/ d = Demand
           /\ DOMAIN job'.alias = DOMAIN job.alias \cup {Key}
           /\ \A n \in DOMAIN job.alias : job'.alias[n] = job.alias[n]
<1>1. Active /\ job'.alias = Put(job.alias, Key, key)
      /\ (Key \in DOMAIN job.alias => job.alias[Key] = key)
      /\ job'.demands = job.demands \cup {Demand}
    BY DEF Pops, Active, Demand
<1>2. /\ \A name \in DOMAIN job.alias : job.alias[name] \in DOMAIN job.resolved
      /\ \A d \in job.demands : d.key \in DOMAIN job.alias
    BY <1>1 DEF PinInv, AliasesKnown
<1>3. /\ DOMAIN job'.alias = DOMAIN job.alias \cup {Key}
      /\ job'.alias[Key] = key
      /\ \A n \in DOMAIN job.alias : job'.alias[n] = job.alias[n]
    BY <1>1 DEF Put
<1>4. Demand.key = Key /\ Demand.spec = Next1.ref.spec
    BY DEF Demand
<1> QED
    BY <1>1, <1>2, <1>3, <1>4

LEMMA DoubledAfter ==
    ASSUME PinInv, NEW key, Pops(key), NEW k, DoubledIn(job.demands, job.alias, k)
    PROVE  DoubledIn(job'.demands, job'.alias, k)
    BY NamesAfter DEF DoubledIn

(* A row that was resolved is still there, or its key is doubled now.      *)
LEMMA RowAfter ==
    ASSUME PinInv, NEW key, Pops(key), NEW k \in DOMAIN job.resolved,
           ClaimedIn(job.demands, job.alias, job.resolved)
    PROVE  job'.resolved[k] = job.resolved[k] \/ DoubledIn(job'.demands, job'.alias, k)
<1>1. CASE k # key \/ MetAt(key)
    BY <1>1, ResolvedAfter DEF MetAt
<1>2. CASE k = key /\ ReusedAt(key)
  <2>1. PICK d \in job.demands : job.alias[d.key] = k
      BY DEF ClaimedIn
  <2>2. d.key # Key /\ k = Key
      BY <1>2, NamesAfter DEF ReusedAt
  <2> QED
      BY <1>2, <2>1, <2>2, NamesAfter DEF DoubledIn
<1>3. CASE k = key /\ FoundAt(key)
    BY <1>3 DEF FoundAt
<1> QED
    BY <1>1, <1>2, <1>3 DEF Pops

(* The new demand is met.                                                  *)
LEMMA DemandMet ==
    ASSUME PinInv, WorkInv, PublishedInv, NEW key, Pops(key), NoFileRanges
    PROVE  Meets1(Next1.ref.spec, job'.resolved[key])
<1>1. CASE MetAt(key)
    BY <1>1 DEF MetAt, Meets1
<1>2. ASSUME NEW row \in Pins(key), job'.resolved = Put(job.resolved, key, row)
      PROVE  Meets1(Next1.ref.spec, job'.resolved[key])
  <2>1. job'.resolved[key] = row
      BY <1>2 DEF Put
  <2>2. specSatisfiedBy(Next1.ref.spec, row)
      BY <1>2 DEF Pins
  <2> QED
      BY <2>1, <2>2 DEF Meets1
<1>3. CASE ReusedAt(key)
    BY <1>2, <1>3 DEF ReusedAt
<1>4. CASE FoundAt(key)
  <2>1. PICK result \in Answers :
           (\E row \in Pins(key) : job'.resolved = Put(job.resolved, key, row))
           \/ job'.resolved = Put(job.resolved, key, result.pkg)
      BY <1>4 DEF FoundAt
  <2>2. CASE job'.resolved = Put(job.resolved, key, result.pkg)
    <3>1. job'.resolved[key] = result.pkg
        BY <2>2 DEF Put
    <3>2. Meets1(Next1.ref.spec, result.pkg)
        BY AnswersGive
    <3> QED
        BY <3>1, <3>2
  <2> QED
      BY <1>2, <2>1, <2>2
<1> QED
    BY <1>1, <1>3, <1>4 DEF Pops

(* The name that was popped leads to itself or to what is there under it.  *)
LEMMA KeyLeads ==
    ASSUME PinInv, WorkInv, PublishedInv, NEW key, Pops(key), LeadIn(job.alias)
    PROVE  key = Key \/ key = CatalogueKey(Key)
<1>1. CASE Key \in DOMAIN job.alias
    BY <1>1 DEF Pops, LeadIn
<1>2. CASE ReusedAt(key)
    BY <1>2 DEF ReusedAt
<1>3. ASSUME NEW result \in Answers, key = canonicalKeyOf(result.pkg)
      PROVE  key = CatalogueKey(Key)
    BY <1>3, AnswersGive
<1> QED
    BY <1>1, <1>2, <1>3 DEF Pops, MetAt, FoundAt

(* What was seen to still is.                                              *)
LEMMA SeenAfter ==
    ASSUME PinInv, WorkInv, PublishedInv, NEW key, Pops(key), NEW ref,
           SeenIn(ref, job.alias, job.queue)
    PROVE  SeenIn(ref, job'.alias, job'.queue)
<1>1. CASE refKey(localizeRef(ref)) \in DOMAIN job.alias
    BY <1>1, NamesAfter DEF SeenIn
<1>2. CASE \E x : In(x, job.queue) /\ x.ref = localizeRef(ref)
  <2>1. PICK x : In(x, job.queue) /\ x.ref = localizeRef(ref)
      BY <1>2
  <2>2. x = Next1 \/ In(x, job'.queue)
      BY <2>1, QueueAfter
  <2>3. CASE x = Next1
      BY <2>1, <2>3, NamesAfter DEF SeenIn, Key
  <2> QED
      BY <2>1, <2>2, <2>3 DEF SeenIn
<1> QED
    BY <1>1, <1>2 DEF SeenIn

LEMMA RequiresAfter ==
    ASSUME PinInv, WorkInv, PublishedInv, NEW key, Pops(key), NEW row,
           RequiresSeen(row, job.alias, job.queue)
    PROVE  RequiresSeen(row, job'.alias, job'.queue)
    BY SeenAfter DEF RequiresSeen

(* What a row just fetched requires is in the worklist.                    *)
LEMMA FetchedSeen ==
    ASSUME PinInv, WorkInv, PublishedInv, NEW key, Pops(key), FoundAt(key),
           NEW result \in Answers,
           job'.queue = Tail(job.queue) \o Enqueue(result.dependencies, result.pkg.name)
    PROVE  RequiresSeen(result.pkg, job'.alias, job'.queue)
<1>0. PICK p \in Projects : \E v \in DOMAIN Releases[p] :
         /\ result.dependencies = Releases[p][v].requires
         /\ result.pkg.name = p /\ result.pkg.hash = <<p, v>>
    BY AnswersGive
<1>1. PICK v \in DOMAIN Releases[p] :
         /\ result.dependencies = Releases[p][v].requires
         /\ result.pkg.name = p /\ result.pkg.hash = <<p, v>>
    BY <1>0
<1>2. PICK requires : requires = Releases[p][v].requires
    OBVIOUS
<1>3. Sequential(requires)
    BY <1>2, ReleasesDomain
<1>4. Queued(job.queue) /\ job.queue # <<>>
    BY DEF WorkInv, Pops, Active
<1>5. Sequential(Tail(job.queue))
    BY <1>4, QueueTail DEF Queued
<1>6. PICK more : more = Enqueue(requires, result.pkg.name)
    OBVIOUS
<1>7. Sequential(more) /\ \A x : In(x, more) <=>
                 \E ref : In(ref, requires) /\ x = [ref |-> localizeRef(ref), by |-> result.pkg.name]
    BY <1>3, <1>6, EnqueueIn
<1>8. job'.queue = Tail(job.queue) \o more
    BY <1>1, <1>2, <1>6
<1>9. \A x : In(x, more) => In(x, job'.queue)
    BY <1>5, <1>7, <1>8, QueueConcat
<1>10. ASSUME NEW ref, In(ref, requires)
       PROVE  SeenIn(ref, job'.alias, job'.queue)
  <2>1. PICK x : x = [ref |-> localizeRef(ref), by |-> result.pkg.name]
      OBVIOUS
  <2>2. In(x, job'.queue)
      BY <1>7, <1>9, <1>10, <2>1
  <2>3. x.ref = localizeRef(ref)
      BY <2>1
  <2> QED
      BY <2>2, <2>3 DEF SeenIn
<1> QED
    BY <1>1, <1>2, <1>10 DEF RequiresSeen

-----------------------------------------------------------------------------
LEMMA ClosurePops ==
    ASSUME Inv, PinInv, WorkInv, PublishedInv, ClosureInv, NEW key, Pops(key)
    PROVE  ClosureInv'
<1>1. /\ Active /\ Active' /\ job.phase = "items" /\ job'.phase = "items"
      /\ \A f \in Steady \ {"phase"} : job'[f] = job[f]
    BY DEF Pops, Active
<1>2. /\ job'.manifest = job.manifest /\ job'.kind = job.kind /\ job'.pins = job.pins
      /\ job'.prior = job.prior
    BY <1>1 DEF Steady, Fields
<1>3. /\ ClaimedIn(job.demands, job.alias, job.resolved) /\ LeadIn(job.alias)
      /\ NoFileRanges => MetIn(job.demands, job.alias, job.resolved)
      /\ FetchedIn(job.fetched, job.demands, job.alias, job.resolved, job.queue)
      /\ \A ref : In(ref, Roots) => SeenIn(ref, job.alias, job.queue)
    BY <1>1 DEF ClosureInv
<1>4. ClaimedIn(job'.demands, job'.alias, job'.resolved)
  <2>1. SUFFICES ASSUME NEW k \in DOMAIN job'.resolved
                 PROVE  \E d \in job'.demands : job'.alias[d.key] = k
      BY DEF ClaimedIn
  <2>2. CASE k = key
      BY <2>2, NamesAfter
  <2>3. CASE k # key
    <3>1. PICK d \in job.demands : job.alias[d.key] = k
        BY <1>3, <2>3, ResolvedAfter DEF ClaimedIn
    <3> QED
        BY <3>1, NamesAfter
  <2> QED
      BY <2>2, <2>3
<1>5. LeadIn(job'.alias)
    BY <1>3, NamesAfter, KeyLeads DEF LeadIn
<1>6. ASSUME NoFileRanges
      PROVE  MetIn(job'.demands, job'.alias, job'.resolved)
  <2>1. SUFFICES ASSUME NEW d \in job'.demands
                 PROVE  \/ DoubledIn(job'.demands, job'.alias, job'.alias[d.key])
                        \/ Meets1(d.spec, job'.resolved[job'.alias[d.key]])
      BY DEF MetIn
  <2>2. CASE d \in job.demands
    <3>1. PICK k : k = job.alias[d.key]
        OBVIOUS
    <3>2. k \in DOMAIN job.resolved /\ job'.alias[d.key] = k
        BY <2>2, <3>1, NamesAfter
    <3>3. DoubledIn(job.demands, job.alias, k) \/ Meets1(d.spec, job.resolved[k])
        BY <1>3, <1>6, <2>2, <3>1 DEF MetIn
    <3>4. job'.resolved[k] = job.resolved[k] \/ DoubledIn(job'.demands, job'.alias, k)
        BY <1>3, <3>2, RowAfter
    <3> QED
        BY <3>2, <3>3, <3>4, DoubledAfter
  <2>3. CASE d = Demand
    <3>1. d.spec = Next1.ref.spec /\ job'.alias[d.key] = key
        BY <2>3, NamesAfter
    <3> QED
        BY <1>6, <3>1, DemandMet
  <2> QED
      BY <2>2, <2>3, NamesAfter
<1>7. FetchedIn(job'.fetched, job'.demands, job'.alias, job'.resolved, job'.queue)
  <2>1. SUFFICES ASSUME NEW k \in job'.fetched
                 PROVE  /\ k \in DOMAIN job'.resolved
                        /\ \/ DoubledIn(job'.demands, job'.alias, k)
                           \/ RequiresSeen(job'.resolved[k], job'.alias, job'.queue)
      BY DEF FetchedIn
  <2>2. CASE k \in job.fetched
    <3>1. /\ k \in DOMAIN job.resolved
          /\ DoubledIn(job.demands, job.alias, k) \/ RequiresSeen(job.resolved[k], job.alias, job.queue)
        BY <1>3, <2>2 DEF FetchedIn
    <3>2. job'.resolved[k] = job.resolved[k] \/ DoubledIn(job'.demands, job'.alias, k)
        BY <1>3, <3>1, RowAfter
    <3>3. k \in DOMAIN job'.resolved
        BY <3>1, ResolvedAfter
    <3> QED
        BY <3>1, <3>2, <3>3, DoubledAfter, RequiresAfter
  <2>3. CASE k \notin job.fetched
    <3>1. FoundAt(key) /\ k = key
      <4>1. ~ MetAt(key) /\ ~ ReusedAt(key)
          BY <2>1, <2>3 DEF MetAt, ReusedAt
      <4>2. job'.fetched \subseteq job.fetched \cup {key}
          BY <4>1 DEF Pops, FoundAt
      <4> QED
          BY <2>1, <2>3, <4>1, <4>2 DEF Pops
    <3>2. PICK result \in Answers :
             /\ job'.queue = Tail(job.queue) \o Enqueue(result.dependencies, result.pkg.name)
             /\ job'.resolved = Put(job.resolved, key, result.pkg)
        BY <2>1, <2>3, <3>1 DEF FoundAt
    <3>3. RequiresSeen(result.pkg, job'.alias, job'.queue)
        BY <3>1, <3>2, FetchedSeen
    <3>4. key \in DOMAIN job'.resolved /\ job'.resolved[key] = result.pkg
        BY <3>2 DEF Put
    <3> QED
        BY <3>1, <3>3, <3>4
  <2> QED
      BY <2>2, <2>3
<1>8. Roots' = Roots
    BY <1>2 DEF Roots, RemoveKeys
<1>9. \A ref : In(ref, Roots') => SeenIn(ref, job'.alias, job'.queue)
    BY <1>3, <1>8, SeenAfter
<1> QED
    BY <1>1, <1>2, <1>4, <1>5, <1>6, <1>7, <1>9 DEF ClosureInv

LEMMA ClosureInit ==
    Init => ClosureInv
    BY DEF Init, ClosureInv, Active, Idle

LEMMA ClosureStarts ==
    ASSUME Starts
    PROVE  ClosureInv'
<1>1. /\ job'.phase = "base" /\ job'.resolved = <<>> /\ job'.alias = <<>>
      /\ job'.demands = {} /\ job'.fetched = {}
      /\ job'.prior = lock
      /\ job'.kind = "lock" => job'.pins = Rows(lock)
    BY StartsAnew
<1>2. DOMAIN <<>> = {}
    OBVIOUS
<1> QED
    BY <1>1, <1>2 DEF ClosureInv, ClaimedIn, LeadIn, MetIn, FetchedIn

LEMMA ClosureBegins ==
    ASSUME AuthoredInv, ClosureInv, Begins
    PROVE  ClosureInv'
<1>1. /\ Active /\ job.phase = "base" /\ job'.phase = "items"
      /\ job'.manifest = job.manifest /\ job'.kind = job.kind /\ job'.pins = job.pins
      /\ job'.prior = job.prior /\ job'.demands = job.demands /\ job'.alias = job.alias
      /\ job'.resolved = job.resolved /\ job'.fetched = job.fetched
      /\ job'.queue = Enqueue(Roots, "(manifest)")
    BY DEF Begins, Fields, Active
<1>2. job.fetched = {}
    BY <1>1 DEF ClosureInv
<1>3. Roots' = Roots
    BY <1>1 DEF Roots, RemoveKeys
<1>4. ASSUME NEW ref, In(ref, Roots)
      PROVE  SeenIn(ref, job'.alias, job'.queue)
  <2>1. Authored(job.manifest)
      BY <1>1 DEF AuthoredInv
  <2>2. Sequential(Roots)
      BY <2>1, RootsQueued
  <2>3. PICK x : x = [ref |-> localizeRef(ref), by |-> "(manifest)"]
      OBVIOUS
  <2>4. In(x, job'.queue)
      BY <1>1, <1>4, <2>2, <2>3, EnqueueIn
  <2>5. x.ref = localizeRef(ref)
      BY <2>3
  <2> QED
      BY <2>4, <2>5 DEF SeenIn
<1> QED
    BY <1>1, <1>2, <1>3, <1>4 DEF ClosureInv, FetchedIn

LEMMA ClosureWrites ==
    ASSUME ClosureInv, Writes
    PROVE  ClosureInv'
<1>1. /\ Active /\ job.phase \in {"items", "graph"} /\ job'.phase \in {"graph", "done"}
      /\ job.phase = "items" => job.queue = <<>>
      /\ job'.manifest = job.manifest /\ job'.kind = job.kind /\ job'.pins = job.pins
      /\ job'.prior = job.prior /\ job'.demands = job.demands /\ job'.alias = job.alias
      /\ job'.resolved = job.resolved /\ job'.fetched = job.fetched
      /\ job'.queue = job.queue
    BY DEF Writes, Fields
<1>2. Roots' = Roots
    BY <1>1 DEF Roots, RemoveKeys
<1> QED
    BY <1>1, <1>2 DEF ClosureInv

LEMMA ClosureNext ==
    ResolveInv /\ ClosureInv /\ [Next]_vars => ClosureInv'
<1> SUFFICES ASSUME ResolveInv, ClosureInv, [Next]_vars
             PROVE  ClosureInv'
    OBVIOUS
<1>1. CASE Rested
    BY <1>1 DEF Rested, ClosureInv, Active
<1>2. CASE Stays
  <2>1. Roots' = Roots
      BY <1>2 DEF Stays, Roots, RemoveKeys
  <2> QED
      BY <1>2, <2>1 DEF Stays, ClosureInv, Active
<1>3. CASE \E key : Pops(key)
    BY <1>3, ClosurePops DEF ResolveInv
<1> QED
    BY <1>1, <1>2, <1>3, Steps, ClosureStarts, ClosureBegins, ClosureWrites DEF ResolveInv

-----------------------------------------------------------------------------
LEMMA TwoNamesOfDoubled ==
    ASSUME IsFiniteSet(job.demands), NEW key, DoubledIn(job.demands, job.alias, key)
    PROVE  TwoNames(key)
<1>1. PICK d, e \in job.demands : job.alias[d.key] = key /\ job.alias[e.key] = key /\ d.key # e.key
    BY DEF DoubledIn
<1>2. PICK names : names = {f.key : f \in DemandsOn(key)}
    OBVIOUS
<1>3. d \in DemandsOn(key) /\ e \in DemandsOn(key)
    BY <1>1 DEF DemandsOn
<1>4. {d.key, e.key} \subseteq names
    BY <1>2, <1>3
<1>5. IsFiniteSet(DemandsOn(key))
    BY FS_Subset DEF DemandsOn
<1>6. IsFiniteSet(names)
  <2>1. PICK f : f = [g \in DemandsOn(key) |-> g.key]
      OBVIOUS
  <2>2. f \in Surjection(DemandsOn(key), names)
      BY <1>2, <2>1 DEF Surjection
  <2> QED
      BY <1>5, <2>2, FS_Surjection
<1>7. Cardinality({d.key, e.key}) = 2
  <2>1. PICK a, b : a = d.key /\ b = e.key
      OBVIOUS
  <2>2. IsFiniteSet({a}) /\ Cardinality({a}) = 1
      BY FS_Singleton
  <2>3. b \notin {a}
      BY <1>1, <2>1
  <2>4. Cardinality({a} \cup {b}) = 1 + 1
    <3>1. PICK A : A = {a}
        OBVIOUS
    <3>2. IsFiniteSet(A) /\ b \notin A /\ Cardinality(A) = 1
        BY <2>2, <2>3, <3>1
    <3>3. Cardinality(A \cup {b}) = Cardinality(A) + 1
        BY <3>2, FS_AddElement
    <3> QED
        BY <3>1, <3>2, <3>3
  <2>5. {a} \cup {b} = {d.key, e.key}
      BY <2>1
  <2> QED
      BY <2>4, <2>5
<1>8. 2 <= Cardinality(names) /\ Cardinality(names) \in Nat
    BY <1>4, <1>6, <1>7, FS_Subset, FS_CardinalityType
<1> QED
    BY <1>2, <1>8 DEF TwoNames

LEMMA MetAtEnd ==
    ASSUME ResolveInv, ClosureInv, NoFileRanges, Written
    PROVE  DemandsMet
<1>1. /\ MetIn(job.demands, job.alias, job.resolved) /\ IsFiniteSet(job.demands)
    BY DEF ClosureInv, ResolveInv, WorkInv, Written, Active
<1> QED
    BY <1>1, TwoNamesOfDoubled DEF DemandsMet, MetIn, Meets1

(* What is seen to when the worklist is empty leads to a row of the lock,  *)
(* or game.remove names it.                                                *)
LEMMA SeenIsLocked ==
    ASSUME ResolveInv, ClosureInv, Written, NEW ref, SeenIn(ref, job.alias, job.queue)
    PROVE  LET name == refKey(localizeRef(ref))
               key == job.alias[name]
           IN  /\ name \in DOMAIN job.alias /\ key \in DOMAIN job.resolved
               /\ RowFor(key) # {} \/ RemovedKey(key)
<1>1. job.queue = <<>>
    BY DEF ClosureInv, Written, Active
<1>2. \A x : ~ In(x, job.queue)
    BY <1>1 DEF In
<1>3. PICK name, key : name = refKey(localizeRef(ref)) /\ key = job.alias[name]
    OBVIOUS
<1>4. name \in DOMAIN job.alias /\ key \in DOMAIN job.resolved
    BY <1>2, <1>3 DEF SeenIn, ResolveInv, PinInv, AliasesKnown, Written, Active
<1>5. PICK row : row = job.resolved[key]
    OBVIOUS
<1>6. Keyed(job.resolved) /\ AreRows(job.base) /\ lock.rows = Effective
    BY DEF ResolveInv, Inv, ResolvedKeyed, LockIsOverlay, Written, Active
<1>7. row \in Resolved /\ canonicalKeyOf(row) = key
    BY <1>4, <1>5, <1>6 DEF Resolved, Keyed
<1>8. ASSUME row \in Dropped(Resolved, LocalRemoves)
      PROVE  RemovedKey(key)
    BY <1>7, <1>8 DEF Dropped, RemovedKey
<1>9. ASSUME row \notin Dropped(Resolved, LocalRemoves)
      PROVE  RowFor(key) # {}
  <2>1. PICK same \in Effective : SharesKey(same, row)
      BY <1>6, <1>7, <1>9, KeyedIsOneRow, NothingLost DEF Effective
  <2>2. same \in RowFor(key)
      BY <1>6, <1>7, <2>1 DEF RowFor, SharesKey
  <2> QED
      BY <2>2
<1>10. RowFor(key) # {} \/ RemovedKey(key)
    BY <1>8, <1>9
<1> QED
    BY <1>3, <1>4, <1>10

LEMMA FetchedAtEnd ==
    ASSUME ResolveInv, ClosureInv, Written
    PROVE  FetchedIsClosed
<1>1. /\ FetchedIn(job.fetched, job.demands, job.alias, job.resolved, job.queue)
      /\ IsFiniteSet(job.demands)
    BY DEF ClosureInv, ResolveInv, WorkInv, Written, Active
<1>2. SUFFICES ASSUME NEW key \in job.fetched, ~ TwoNames(key),
                      NEW i \in DOMAIN Releases[job.resolved[key].name][job.resolved[key].hash[2]].requires
               PROVE  LET needed == job.alias[refKey(Releases[job.resolved[key].name][job.resolved[key].hash[2]].requires[i])]
                      IN  RowFor(needed) # {} \/ RemovedKey(needed)
    BY DEF FetchedIsClosed
<1>3. RequiresSeen(job.resolved[key], job.alias, job.queue)
    BY <1>1, <1>2, TwoNamesOfDoubled DEF FetchedIn
<1>4. PICK p \in Projects : \E v \in DOMAIN Releases[p] :
        /\ job.resolved[key].name = p /\ job.resolved[key].hash = <<p, v>>
        /\ \A ref : In(ref, Releases[p][v].requires) => SeenIn(ref, job.alias, job.queue)
    BY <1>3 DEF RequiresSeen
<1>5. PICK v \in DOMAIN Releases[p] :
        /\ job.resolved[key].name = p /\ job.resolved[key].hash = <<p, v>>
        /\ \A ref : In(ref, Releases[p][v].requires) => SeenIn(ref, job.alias, job.queue)
    BY <1>4
<1>6. PICK ref : ref = Releases[p][v].requires[i]
    OBVIOUS
<1>7. job.resolved[key].hash[2] = v
    BY <1>5
<1>8. In(ref, Releases[p][v].requires)
    BY <1>2, <1>5, <1>6, <1>7 DEF In
<1>9. ref \in Required
    BY <1>8, ReleasesDomain
<1>10. localizeRef(ref) = ref
    BY <1>9, RelockAssumption DEF localizeRef
<1>11. SeenIn(ref, job.alias, job.queue)
    BY <1>5, <1>8
<1>12. RowFor(job.alias[refKey(ref)]) # {} \/ RemovedKey(job.alias[refKey(ref)])
    BY <1>10, <1>11, SeenIsLocked
<1> QED
    BY <1>5, <1>6, <1>7, <1>12

LEMMA ImportAtEnd ==
    ASSUME ResolveInv, ClosureInv, ImportsNamed, Written
    PROVE  ImportStays
<1>1. SUFFICES ASSUME job.kind = "lock", job.prior # NoLock, job.prior.of = job.manifest,
                      NEW archive \in Archives, NEW entries \in entriesOf(archive),
                      job.prior.of = adoptedManifest(archive, entries, job.prior.loader),
                      job.prior.rows = placeable(entries),
                      NEW row \in job.pins
               PROVE  canonicalKeyOf(row) \in DOMAIN job.resolved
    BY DEF ImportStays, Relocked, Wrote, Imported
<1>2. /\ job.pins = Rows(job.prior) /\ LeadIn(job.alias) /\ Authored(job.manifest)
      /\ \A ref : In(ref, Roots) => SeenIn(ref, job.alias, job.queue)
    BY <1>1 DEF ClosureInv, ResolveInv, AuthoredInv, Written, Active
<1>3. row \in placeable(entries)
    BY <1>1, <1>2 DEF Rows
<1>4. PICK i \in DOMAIN entries : row = entries[i].row
    BY <1>3 DEF placeable
<1>5. PICK item, key : item = entries[i].item /\ key = canonicalKeyOf(row)
    OBVIOUS
<1>6. refKey(localizeRef(item)) = key /\ CatalogueKey(key) = key
    BY <1>1, <1>4, <1>5 DEF ImportsNamed, Imports
<1>7. item \in ToSet(job.manifest.items) /\ job.manifest.game.remove = {}
    BY <1>1, <1>4, <1>5 DEF adoptedManifest, ToSet
<1>8. RemoveKeys = {}
    BY <1>7 DEF RemoveKeys
<1>9. In(item, Roots)
    BY <1>2, <1>7, <1>8, RootsQueued
<1>10. key \in DOMAIN job.alias /\ job.alias[key] \in DOMAIN job.resolved
    BY <1>2, <1>6, <1>9, SeenIsLocked
<1>11. job.alias[key] = key
    BY <1>2, <1>6, <1>10 DEF LeadIn
<1> QED
    BY <1>5, <1>10, <1>11

(* A resolution is closed, whatever the catalogues have and whatever a     *)
(* user does: a locked row meets every demand made on its project, what a  *)
(* row just fetched requires is locked too, and what an import wrote stays *)
(* (resolver/resolve.ts, the worklist).  It takes that no CurseForge file  *)
(* is asked for in a range, which its resolver takes for the latest, and   *)
(* that an import's rows have the names of the catalogues.                 *)
THEOREM ResolutionsClose ==
    Spec => [](NoFileRanges /\ ImportsNamed => ResolutionClosed)
<1>1. Init => ResolveInv /\ ClosureInv
    BY ResolveInvInit, ClosureInit
<1>2. (ResolveInv /\ ClosureInv) /\ [Next]_vars => (ResolveInv /\ ClosureInv)'
    BY ResolveInvNext, ClosureNext
<1>3. ResolveInv /\ ClosureInv => (NoFileRanges /\ ImportsNamed => ResolutionClosed)
    BY MetAtEnd, FetchedAtEnd, ImportAtEnd DEF ResolutionClosed
<1> QED
    BY <1>1, <1>2, <1>3, PTL DEF Spec

-----------------------------------------------------------------------------
(* Merges.  What the merge of two item sets pins, resolves anew, and holds.*)
LEMMA MergeGives ==
    ASSUME NEW base, NEW ours, NEW theirs, NEW pins, NEW strategy \in Strategies,
           NEW m, m = threeWayMerge(base, ours, theirs, pins, strategy),
           NEW taken, taken = TakenKeys(base, ours, theirs, pins, strategy)
    PROVE  /\ \A row \in m.seedPins : \E key \in taken :
                 canonicalKeyOf(row) = TakenEntry(base, ours, theirs, pins, strategy, key).canonicalKey
           /\ \A row : row \in m.seedPins <=> \E key \in taken :
                 row \in PinOf(TakenEntry(base, ours, theirs, pins, strategy, key).canonicalKey,
                              pins[TakenSide(base, ours, theirs, pins, strategy, key)])
           /\ m.manifest.game # base.game => \A key \in taken :
                 LET entered == TakenEntry(base, ours, theirs, pins, strategy, key)
                 IN  entered.ref.source \in {"modrinth", "curseforge"} =>
                        entered.canonicalKey \in m.reResolveKeys
           /\ \A name \in m.reResolveKeys : \E key \in taken :
                 LET entered == TakenEntry(base, ours, theirs, pins, strategy, key)
                 IN  entered.canonicalKey = name /\ entered.ref.source \in {"modrinth", "curseforge"}
           /\ m.clean =>
                /\ \A key \in DOMAIN base.items \cup DOMAIN ours.items \cup DOMAIN theirs.items :
                      TakenSide(base, ours, theirs, pins, strategy, key) # "manual"
                /\ resolveGame(base, ours, theirs, strategy) # "manual"
           /\ m.manifest.game = IF resolveGame(base, ours, theirs, strategy) = "theirs"
                                THEN theirs.game ELSE ours.game
<1> DEFINE keys == DOMAIN base.items \cup DOMAIN ours.items \cup DOMAIN theirs.items
           side == [key \in keys |->
                   SideOf(entryValue(base, key), entryValue(ours, key), entryValue(theirs, key),
                          resolveOne(key, ours, theirs, pins, strategy))]
           from == [ours |-> ours, theirs |-> theirs]
           conflicts == {key \in keys : side[key] = "manual"}
           chosen == {key \in keys \ conflicts : key \in DOMAIN from[side[key]].items}
           gives == [key \in chosen |-> from[side[key]].items[key]]
           gameSide == resolveGame(base, ours, theirs, strategy)
           game == IF gameSide = "theirs" THEN theirs.game ELSE ours.game
<1>1. \A key \in keys : side[key] = TakenSide(base, ours, theirs, pins, strategy, key)
    BY DEF TakenSide
<1>2. chosen = taken
    BY <1>1 DEF TakenKeys, SideSet
<1>3. \A key \in chosen : gives[key] = TakenEntry(base, ours, theirs, pins, strategy, key)
    BY <1>1 DEF TakenEntry, SideSet
<1>4. /\ m.seedPins = UNION {PinOf(gives[key].canonicalKey, pins[side[key]]) : key \in chosen}
      /\ m.reResolveKeys = IF game = base.game THEN {}
                           ELSE {gives[key].canonicalKey : key \in
                                   {k \in chosen : gives[k].ref.source \in {"modrinth", "curseforge"}}}
      /\ m.clean = (conflicts = {} /\ gameSide # "manual")
      /\ m.manifest.game = game
    BY DEF threeWayMerge
<1>5. ASSUME NEW row \in m.seedPins
      PROVE  \E key \in taken :
                 canonicalKeyOf(row) = TakenEntry(base, ours, theirs, pins, strategy, key).canonicalKey
  <2> HIDE DEF gives, chosen, side
  <2>1. PICK key \in chosen : row \in PinOf(gives[key].canonicalKey, pins[side[key]])
      BY <1>4
  <2>2. canonicalKeyOf(row) = gives[key].canonicalKey
      BY <2>1 DEF PinOf
  <2> QED
      BY <1>2, <1>3, <2>1, <2>2
<1>6. ASSUME m.manifest.game # base.game, NEW key \in taken,
             TakenEntry(base, ours, theirs, pins, strategy, key).ref.source \in {"modrinth", "curseforge"}
      PROVE  TakenEntry(base, ours, theirs, pins, strategy, key).canonicalKey \in m.reResolveKeys
  <2> HIDE DEF gives, chosen, game
  <2>1. gives[key].ref.source \in {"modrinth", "curseforge"} /\ key \in chosen
      BY <1>2, <1>3, <1>6
  <2>2. gives[key].canonicalKey \in m.reResolveKeys
      BY <1>4, <1>6, <2>1
  <2> QED
      BY <1>2, <1>3, <2>1, <2>2
<1>7. m.clean => \A key \in keys : TakenSide(base, ours, theirs, pins, strategy, key) # "manual"
  <2> HIDE DEF side, keys
  <2> QED
      BY <1>1, <1>4
<1>8. ASSUME NEW row
      PROVE  row \in m.seedPins <=> \E key \in taken :
                 row \in PinOf(TakenEntry(base, ours, theirs, pins, strategy, key).canonicalKey,
                              pins[TakenSide(base, ours, theirs, pins, strategy, key)])
  <2>1. \A key \in taken : /\ gives[key] = TakenEntry(base, ours, theirs, pins, strategy, key)
                           /\ side[key] = TakenSide(base, ours, theirs, pins, strategy, key)
    <3> HIDE DEF gives, side
    <3> QED
        BY <1>1, <1>2, <1>3
  <2> HIDE DEF gives, chosen, side
  <2>2. row \in m.seedPins <=> \E key \in taken : row \in PinOf(gives[key].canonicalKey, pins[side[key]])
      BY <1>2, <1>4
  <2> QED
      BY <2>1, <2>2
<1>9. ASSUME NEW name \in m.reResolveKeys
      PROVE  \E key \in taken :
                 /\ TakenEntry(base, ours, theirs, pins, strategy, key).canonicalKey = name
                 /\ TakenEntry(base, ours, theirs, pins, strategy, key).ref.source \in {"modrinth", "curseforge"}
  <2> HIDE DEF gives, chosen, game
  <2>1. PICK key \in chosen : gives[key].canonicalKey = name /\ gives[key].ref.source \in {"modrinth", "curseforge"}
      BY <1>4
  <2> QED
      BY <1>2, <1>3, <2>1
<1> QED
    BY <1>4, <1>5, <1>6, <1>7, <1>8, <1>9

(* An entry that is taken is one of a side's items, under its key.         *)
LEMMA TakenItem ==
    ASSUME NEW strategy \in Strategies, NEW base, NEW o, NEW t, Authored(o), Authored(t),
           NEW orows, NEW trows, NEW pins, NEW ours, NEW theirs,
           ours = buildItemSet(o, orows), theirs = buildItemSet(t, trows),
           NEW key \in TakenKeys(base, ours, theirs, pins, strategy)
    PROVE  LET entered == TakenEntry(base, ours, theirs, pins, strategy, key)
               side == TakenSide(base, ours, theirs, pins, strategy, key)
           IN  /\ \/ side = "ours" /\ entered.ref \in ItemsAt(o, key)
                  \/ side = "theirs" /\ entered.ref \in ItemsAt(t, key)
               /\ entered.canonicalKey = FileKey(entered.ref)
               /\ entered.canonicalKey[1] = entered.ref.source
<1>1. \/ TakenSide(base, ours, theirs, pins, strategy, key) = "ours" /\ key \in DOMAIN ours.items
      \/ TakenSide(base, ours, theirs, pins, strategy, key) = "theirs" /\ key \in DOMAIN theirs.items
    BY SidesOfMerge DEF TakenKeys, SideSet
<1>2. PICK side, entered : /\ side = TakenSide(base, ours, theirs, pins, strategy, key)
                           /\ entered = TakenEntry(base, ours, theirs, pins, strategy, key)
    OBVIOUS
<1>3. \A ref, rows : /\ entryOf(ref, rows).canonicalKey = FileKey(ref)
                    /\ entryOf(ref, rows).canonicalKey[1] = ref.source
    BY LocalizedSource DEF entryOf, refKey, FileKey
<1>4. CASE side = "ours" /\ key \in DOMAIN ours.items
  <2>1. entered = ours.items[key]
      BY <1>2, <1>4 DEF TakenEntry, SideSet
  <2>2. entered.ref \in ToSet(o.items) /\ refKey(entered.ref) = key /\ entered = entryOf(entered.ref, orows)
      BY <1>4, <2>1, ItemSetItem
  <2> QED
      BY <1>2, <1>3, <1>4, <2>2 DEF ItemsAt
<1>5. CASE side = "theirs" /\ key \in DOMAIN theirs.items
  <2>1. entered = theirs.items[key]
      BY <1>2, <1>5 DEF TakenEntry, SideSet
  <2>2. entered.ref \in ToSet(t.items) /\ refKey(entered.ref) = key /\ entered = entryOf(entered.ref, trows)
      BY <1>5, <2>1, ItemSetItem
  <2> QED
      BY <1>2, <1>3, <1>5, <2>2 DEF ItemsAt
<1> QED
    BY <1>1, <1>2, <1>4, <1>5

(* The items of a merged manifest are those of the entries taken, one for  *)
(* a key.                                                                  *)
HoldsTaken(m, base, ours, theirs, pins, strategy) ==
    \A key : IF key \in TakenKeys(base, ours, theirs, pins, strategy)
            THEN ItemsAt(m, key) = {TakenEntry(base, ours, theirs, pins, strategy, key).ref}
            ELSE ItemsAt(m, key) = {}

LEMMA MergedItems ==
    ASSUME NEW strategy \in Strategies, NEW base, NEW o, NEW t, Authored(o), Authored(t),
           NEW orows, NEW trows, NEW pins, NEW ours, NEW theirs,
           ours = buildItemSet(o, orows), theirs = buildItemSet(t, trows),
           NEW m, m = threeWayMerge(base, ours, theirs, pins, strategy)
    PROVE  HoldsTaken(m.manifest, base, ours, theirs, pins, strategy)
<1>0. PICK taken : taken = TakenKeys(base, ours, theirs, pins, strategy)
    OBVIOUS
<1>1. PICK order : order = Only(KeyOrder, taken)
    OBVIOUS
<1>2. \A k \in taken : /\ refKey(TakenEntry(base, ours, theirs, pins, strategy, k).ref) = k
                       /\ TakenEntry(base, ours, theirs, pins, strategy, k).ref \in Inputs
  <2>1. ToSet(o.items) \subseteq Inputs /\ ToSet(t.items) \subseteq Inputs
      BY DEF Authored, ToSet
  <2> QED
      BY <1>0, <2>1, TakenItem DEF ItemsAt
<1>3. /\ \A i \in DOMAIN order : order[i] \in taken
      /\ \A k \in taken : \E i \in DOMAIN order : order[i] = k
  <2>1. Sequential(KeyOrder) /\ \A k \in taken : In(k, KeyOrder)
      BY <1>2, RelockAssumption, SequentialOf, ToSetIn
  <2>2. \A x : In(x, order) <=> x \in taken /\ In(x, KeyOrder)
      BY <1>1, <2>1, OnlyIn
  <2> QED
      BY <2>1, <2>2 DEF In
<1>4. m.manifest.items =
        [i \in DOMAIN order |-> TakenEntry(base, ours, theirs, pins, strategy, order[i]).ref]
    BY <1>0, <1>1, MergeTakes
<1>5. ToSet(m.manifest.items) =
        {TakenEntry(base, ours, theirs, pins, strategy, order[i]).ref : i \in DOMAIN order}
    BY <1>4 DEF ToSet
<1>6. ASSUME NEW key \in taken
      PROVE  ItemsAt(m.manifest, key) = {TakenEntry(base, ours, theirs, pins, strategy, key).ref}
    BY <1>2, <1>3, <1>5, <1>6 DEF ItemsAt
<1>7. ASSUME NEW key, key \notin taken
      PROVE  ItemsAt(m.manifest, key) = {}
    BY <1>2, <1>3, <1>5, <1>7 DEF ItemsAt
<1> QED
    BY <1>0, <1>6, <1>7 DEF HoldsTaken

-----------------------------------------------------------------------------
(* The value of an entry that is no local file says what its spec is.      *)
ValueOf(spec) == [spec |-> spec, hash |-> NoHash]
Valued(value, specs) ==
    (value = {} /\ specs = {}) \/ \E spec : value = {ValueOf(spec)} /\ specs = {spec}

LEMMA ValueIsSpec ==
    ASSUME NEW m, Authored(m), OneSpec(ToSet(m.items)), NEW rows, NEW key, key[1] # "local",
           NEW set, set = buildItemSet(m, rows)
    PROVE  /\ key \in DOMAIN set.items <=> SpecsAt(m, key) # {}
           /\ Valued(entryValue(set, key), SpecsAt(m, key))
<1>1. key \in DOMAIN set.items <=> ItemsAt(m, key) # {}
    BY DEF buildItemSet, ItemsAt, identityKeyOf
<1>2. ASSUME key \notin DOMAIN set.items
      PROVE  entryValue(set, key) = {} /\ SpecsAt(m, key) = {}
    BY <1>1, <1>2 DEF entryValue, SpecsAt
<1>3. ASSUME key \in DOMAIN set.items
      PROVE  \E spec : entryValue(set, key) = {ValueOf(spec)} /\ SpecsAt(m, key) = {spec}
  <2>1. PICK ref : ref = set.items[key].ref
      OBVIOUS
  <2>2. ref \in ToSet(m.items) /\ refKey(ref) = key /\ set.items[key] = entryOf(ref, rows)
      BY <1>3, <2>1, ItemSetItem
  <2>3. ref.source # "local"
      BY <2>2 DEF refKey
  <2>4. set.items[key].value = ValueOf(ref.spec)
      BY <2>2, <2>3 DEF entryOf, ValueOf
  <2>5. entryValue(set, key) = {ValueOf(ref.spec)}
      BY <1>3, <2>4 DEF entryValue
  <2>6. \A other \in ItemsAt(m, key) : other.spec = ref.spec
      BY <2>2 DEF OneSpec, ItemsAt
  <2>7. ref \in ItemsAt(m, key)
      BY <2>2 DEF ItemsAt
  <2>8. SpecsAt(m, key) = {ref.spec}
      BY <2>6, <2>7 DEF SpecsAt
  <2> QED
      BY <2>5, <2>8
<1> QED
    BY <1>2, <1>3 DEF Valued

LEMMA SameValueSameSpec ==
    ASSUME NEW m, Authored(m), OneSpec(ToSet(m.items)), NEW mrows,
           NEW n, Authored(n), OneSpec(ToSet(n.items)), NEW nrows, NEW key, key[1] # "local"
    PROVE  entryValue(buildItemSet(m, mrows), key) = entryValue(buildItemSet(n, nrows), key)
              <=> SpecsAt(m, key) = SpecsAt(n, key)
<1>1. PICK a, b : a = buildItemSet(m, mrows) /\ b = buildItemSet(n, nrows)
    OBVIOUS
<1>2. /\ Valued(entryValue(a, key), SpecsAt(m, key))
      /\ Valued(entryValue(b, key), SpecsAt(n, key))
    BY <1>1, ValueIsSpec
<1>3. \A x, y : ValueOf(x) = ValueOf(y) => x = y
  <2>1. \A x : ValueOf(x).spec = x
      BY DEF ValueOf
  <2> QED
      BY <2>1
<1>4. entryValue(a, key) = entryValue(b, key) <=> SpecsAt(m, key) = SpecsAt(n, key)
    BY <1>2, <1>3 DEF Valued
<1> QED
    BY <1>1, <1>4

(* A clean merge takes each spec and the game from a side, and from the    *)
(* side that changed it when only one did.                                 *)
LEMMA MergeIsTwoSided ==
    ASSUME NEW strategy \in Strategies, NEW b, NEW o, NEW t, Authored(b), Authored(o), Authored(t),
           OneSpec(ToSet(b.items)), OneSpec(ToSet(o.items)), OneSpec(ToSet(t.items)),
           NEW brows, NEW orows, NEW trows, NEW pins, NEW m,
           m = threeWayMerge(buildItemSet(b, brows), buildItemSet(o, orows), buildItemSet(t, trows),
                             pins, strategy),
           m.clean
    PROVE  ManifestTwoSided(b, o, t, m.manifest)
<1>1. PICK base, ours, theirs : /\ base = buildItemSet(b, brows)
                                /\ ours = buildItemSet(o, orows)
                                /\ theirs = buildItemSet(t, trows)
    OBVIOUS
<1>2. PICK taken : taken = TakenKeys(base, ours, theirs, pins, strategy)
    OBVIOUS
<1>3. base.game = b.game /\ ours.game = o.game /\ theirs.game = t.game
    BY <1>1 DEF buildItemSet
<1>4. OneSided(b.game, o.game, t.game, m.manifest.game)
  <2>1. /\ resolveGame(base, ours, theirs, strategy) # "manual"
        /\ m.manifest.game = IF resolveGame(base, ours, theirs, strategy) = "theirs"
                             THEN theirs.game ELSE ours.game
      BY <1>1, MergeGives
  <2> QED
      BY <1>3, <2>1 DEF resolveGame, SideOf, OneSided
<1>5. ASSUME NEW key \in ToSet(KeyOrder), key[1] # "local"
      PROVE  OneSided(SpecsAt(b, key), SpecsAt(o, key), SpecsAt(t, key), SpecsAt(m.manifest, key))
  <2>1. /\ key \notin taken => ItemsAt(m.manifest, key) = {}
        /\ key \in taken => ItemsAt(m.manifest, key) = {TakenEntry(base, ours, theirs, pins, strategy, key).ref}
    <3>1. m = threeWayMerge(base, ours, theirs, pins, strategy)
        BY <1>1
    <3>2. HoldsTaken(m.manifest, base, ours, theirs, pins, strategy)
        BY <1>1, <3>1, MergedItems
    <3> QED
        BY <1>2, <3>2 DEF HoldsTaken
  <2>2. PICK side : side = TakenSide(base, ours, theirs, pins, strategy, key)
      OBVIOUS
  <2>3. /\ key \in DOMAIN base.items <=> SpecsAt(b, key) # {}
        /\ key \in DOMAIN ours.items <=> SpecsAt(o, key) # {}
        /\ key \in DOMAIN theirs.items <=> SpecsAt(t, key) # {}
      BY <1>1, <1>5, ValueIsSpec
  <2>4. CASE key \notin DOMAIN base.items \cup DOMAIN ours.items \cup DOMAIN theirs.items
    <3>1. key \notin taken
        BY <1>2, <2>4 DEF TakenKeys
    <3>2. SpecsAt(m.manifest, key) = {}
        BY <2>1, <3>1 DEF SpecsAt
    <3> QED
        BY <2>3, <2>4, <3>2 DEF OneSided
  <2>5. CASE key \in DOMAIN base.items \cup DOMAIN ours.items \cup DOMAIN theirs.items
    <3>1. side # "manual"
        BY <1>1, <2>2, <2>5, MergeGives
    <3>2. side \in {"ours", "theirs"}
        BY <2>2, <3>1, SidesOfMerge
    <3>3. key \in taken <=> key \in DOMAIN SideSet(ours, theirs, side).items
        BY <1>2, <2>2, <2>5, <3>1 DEF TakenKeys
    <3>4. /\ side = "ours" => SpecsAt(m.manifest, key) = SpecsAt(o, key)
          /\ side = "theirs" => SpecsAt(m.manifest, key) = SpecsAt(t, key)
      <4>1. CASE key \notin taken
        <5>1. SpecsAt(m.manifest, key) = {}
            BY <2>1, <4>1 DEF SpecsAt
        <5> QED
            BY <2>3, <3>3, <4>1, <5>1 DEF SideSet
      <4>2. CASE key \in taken
        <5>1. PICK ref : ref = TakenEntry(base, ours, theirs, pins, strategy, key).ref
            OBVIOUS
        <5>2. SpecsAt(m.manifest, key) = {ref.spec}
            BY <2>1, <4>2, <5>1 DEF SpecsAt
        <5>3. \/ side = "ours" /\ ref \in ItemsAt(o, key)
              \/ side = "theirs" /\ ref \in ItemsAt(t, key)
            BY <1>1, <1>2, <2>2, <4>2, <5>1, TakenItem
        <5>4. /\ \A x \in ItemsAt(o, key), y \in ItemsAt(o, key) : x.spec = y.spec
              /\ \A x \in ItemsAt(t, key), y \in ItemsAt(t, key) : x.spec = y.spec
            BY DEF ItemsAt, OneSpec
        <5>5. ref \in ItemsAt(o, key) => SpecsAt(o, key) = {ref.spec}
            BY <5>4 DEF SpecsAt
        <5>6. ref \in ItemsAt(t, key) => SpecsAt(t, key) = {ref.spec}
            BY <5>4 DEF SpecsAt
        <5> QED
            BY <5>2, <5>3, <5>5, <5>6
      <4> QED
          BY <4>1, <4>2
    <3>5. /\ entryValue(ours, key) = entryValue(theirs, key) <=> SpecsAt(o, key) = SpecsAt(t, key)
          /\ entryValue(ours, key) = entryValue(base, key) <=> SpecsAt(o, key) = SpecsAt(b, key)
          /\ entryValue(theirs, key) = entryValue(base, key) <=> SpecsAt(t, key) = SpecsAt(b, key)
        BY <1>1, <1>5, SameValueSameSpec
    <3> QED
        BY <2>2, <3>2, <3>4, <3>5 DEF TakenSide, SideOf, OneSided
  <2> QED
      BY <2>4, <2>5
<1> QED
    BY <1>4, <1>5 DEF ManifestTwoSided, SpecsTwoSided

-----------------------------------------------------------------------------
(* A merge in its resolve.  The merged manifest is two-sided from its      *)
(* start; where it changed the Minecraft version, what its catalogues have *)
(* is not pinned, so that what is resolved fits the new one or is a member *)
(* of the base pack; and the pack is for the game.                         *)
NewGame == job.manifest.game.minecraft # job.sides.base.manifest.game.minecraft
FromCatalogue(row) == row.source \in {"modrinth", "curseforge"}

MergeInv ==
    /\ Active /\ job.kind = "merge" =>
         /\ WrittenOnce => ManifestTwoSided(job.sides.base.manifest, job.sides.ours.manifest,
                                            job.sides.theirs.manifest, job.manifest)
         /\ NewGame =>
              /\ \A row \in job.pins : FromCatalogue(row) => isUpgraded(job.upgrade, canonicalKeyOf(row))
              /\ \A key \in DOMAIN job.resolved :
                   \/ Fits(job.resolved[key], job.manifest.game.minecraft)
                   \/ job.resolved[key] \in job.base
    /\ job.phase = "base" => DOMAIN job.resolved = {}
    /\ job.phase = "graph" => job.kind = "lock"
    /\ Active /\ job.phase # "base" /\ job.release # NoBase =>
         PackOf(job.release).game = job.manifest.game.minecraft
    /\ Wrote("merge") => manifest = job.manifest /\ lock.base = job.release

LEMMA MergeInvInit ==
    Init => MergeInv
    BY DEF Init, MergeInv, Active, Wrote, Idle

LEMMA MergeStarts ==
    ASSUME AuthoredInv, StartsMerge
    PROVE  MergeInv'
<1>1. PICK strategy \in Strategies :
        /\ Merged(strategy).clean
        /\ job' = Started("merge", Merged(strategy).manifest, Merged(strategy).seedPins,
                           [all |-> FALSE, keys |-> Merged(strategy).reResolveKeys], FALSE,
                           [ours |-> Commit, theirs |-> branches.theirs, base |-> branches.base])
    BY DEF StartsMerge, Strategies
<1>2. PICK m : m = Merged(strategy)
    OBVIOUS
<1>3. /\ job'.phase = "base" /\ job'.kind = "merge" /\ job'.manifest = m.manifest
      /\ job'.pins = m.seedPins /\ job'.upgrade = [all |-> FALSE, keys |-> m.reResolveKeys]
      /\ job'.resolved = <<>>
      /\ job'.sides = [ours |-> Commit, theirs |-> branches.theirs, base |-> branches.base]
    BY <1>1, <1>2 DEF Started
<1>4. PICK b, o, t, brows, orows, trows, pins :
        /\ b = branches.base.manifest /\ o = manifest /\ t = branches.theirs.manifest
        /\ brows = Rows(branches.base.lock) /\ orows = Rows(lock) /\ trows = Rows(branches.theirs.lock)
        /\ pins = [ours |-> Rows(lock), theirs |-> Rows(branches.theirs.lock)]
    OBVIOUS
<1>5. m = threeWayMerge(buildItemSet(b, brows), buildItemSet(o, orows), buildItemSet(t, trows),
                        pins, strategy)
    BY <1>2, <1>4 DEF Merged, itemSetOf, Commit
<1>6. /\ job'.sides.base.manifest = b /\ job'.sides.ours.manifest = o /\ job'.sides.theirs.manifest = t
    BY <1>3, <1>4 DEF Commit
<1>7. Authored(b) /\ Authored(o) /\ Authored(t)
    BY <1>4 DEF AuthoredInv, StartsMerge
<1>8. WrittenOnce => ManifestTwoSided(b, o, t, m.manifest)
    BY <1>1, <1>2, <1>5, <1>7, MergeIsTwoSided DEF Authored
<1>9. ASSUME m.manifest.game.minecraft # b.game.minecraft, NEW row \in m.seedPins, FromCatalogue(row)
      PROVE  canonicalKeyOf(row) \in m.reResolveKeys
  <2>1. PICK base, ours, theirs : /\ base = buildItemSet(b, brows)
                                  /\ ours = buildItemSet(o, orows)
                                  /\ theirs = buildItemSet(t, trows)
      OBVIOUS
  <2>2. PICK taken : taken = TakenKeys(base, ours, theirs, pins, strategy)
      OBVIOUS
  <2>3. m = threeWayMerge(base, ours, theirs, pins, strategy)
      BY <1>5, <2>1
  <2>4. PICK key \in taken :
          canonicalKeyOf(row) = TakenEntry(base, ours, theirs, pins, strategy, key).canonicalKey
      BY <1>9, <2>2, <2>3, MergeGives
  <2>5. PICK entered : entered = TakenEntry(base, ours, theirs, pins, strategy, key)
      OBVIOUS
  <2>6. entered.canonicalKey[1] = entered.ref.source
      BY <1>7, <2>1, <2>2, <2>5, TakenItem
  <2>7. canonicalKeyOf(row)[1] = row.source
      BY DEF canonicalKeyOf
  <2>8. entered.ref.source \in {"modrinth", "curseforge"}
      BY <1>9, <2>4, <2>5, <2>6, <2>7 DEF FromCatalogue
  <2>9. m.manifest.game # base.game
      BY <1>9, <2>1 DEF buildItemSet
  <2>10. entered.canonicalKey \in m.reResolveKeys
      BY <2>2, <2>3, <2>5, <2>8, <2>9, MergeGives
  <2> QED
      BY <2>4, <2>5, <2>10
<1>10. DOMAIN <<>> = {}
    OBVIOUS
<1>11. \A key : key \in m.reResolveKeys => isUpgraded([all |-> FALSE, keys |-> m.reResolveKeys], key)
    BY DEF isUpgraded
<1>12. (NewGame' <=> m.manifest.game.minecraft # b.game.minecraft)
    BY <1>3, <1>6 DEF NewGame
<1>13. ~ Wrote("merge")'
    BY <1>3 DEF Wrote
<1> QED
    BY <1>3, <1>6, <1>8, <1>9, <1>10, <1>11, <1>12, <1>13 DEF MergeInv

LEMMA MergePops ==
    ASSUME WorkInv, PublishedInv, MergeInv, NEW key, Pops(key)
    PROVE  MergeInv'
<1>1. /\ Active /\ job.phase = "items" /\ job'.phase = "items"
      /\ job'.manifest = job.manifest /\ job'.kind = job.kind /\ job'.pins = job.pins
      /\ job'.upgrade = job.upgrade /\ job'.sides = job.sides /\ job'.base = job.base
      /\ job'.release = job.release
    BY DEF Pops, Active, Steady, Fields
<1>2. ASSUME job.kind = "merge", NewGame, NEW k \in DOMAIN job'.resolved
      PROVE  \/ Fits(job'.resolved[k], job.manifest.game.minecraft)
             \/ job'.resolved[k] \in job.base
  <2>1. /\ \A row \in job.pins : FromCatalogue(row) => isUpgraded(job.upgrade, canonicalKeyOf(row))
        /\ \A j \in DOMAIN job.resolved : \/ Fits(job.resolved[j], job.manifest.game.minecraft)
                                          \/ job.resolved[j] \in job.base
      BY <1>1, <1>2 DEF MergeInv
  <2>2. CASE k # key \/ job'.resolved = job.resolved
      BY <1>2, <2>1, <2>2, ResolvedAfter
  <2>3. ASSUME NEW row \in Pins(key), job'.resolved = Put(job.resolved, key, row), k = key
        PROVE  \/ Fits(job'.resolved[k], job.manifest.game.minecraft)
               \/ job'.resolved[k] \in job.base
    <3>1. job'.resolved[k] = row
        BY <2>3 DEF Put
    <3>2. /\ row \in job.pins \/ row \in job.base
          /\ ~ isUpgraded(job.upgrade, key) /\ canonicalKeyOf(row) = key
        BY <2>3 DEF Pins, PinOf
    <3>3. row \in job.pins => ~ FromCatalogue(row)
        BY <2>1, <3>2
    <3> QED
        BY <3>1, <3>2, <3>3 DEF Fits, FromCatalogue
  <2>4. ASSUME NEW result \in Answers, job'.resolved = Put(job.resolved, key, result.pkg), k = key
        PROVE  Fits(job'.resolved[k], job.manifest.game.minecraft)
    <3>1. job'.resolved[k] = result.pkg
        BY <2>4 DEF Put
    <3>2. Fits(result.pkg, job.manifest.game.minecraft)
        BY AnswersGive DEF Fits
    <3> QED
        BY <3>1, <3>2
  <2> QED
      BY <2>2, <2>3, <2>4 DEF Pops, MetAt, ReusedAt, FoundAt
<1>3. NewGame' = NewGame
    BY <1>1 DEF NewGame
<1> QED
    BY <1>1, <1>2, <1>3 DEF MergeInv, Active, Wrote

LEMMA MergeBegins ==
    ASSUME MergeInv, Begins
    PROVE  MergeInv'
<1>1. /\ Active /\ job.phase = "base" /\ job'.phase = "items"
      /\ job'.manifest = job.manifest /\ job'.kind = job.kind /\ job'.pins = job.pins
      /\ job'.upgrade = job.upgrade /\ job'.sides = job.sides /\ job'.resolved = job.resolved
      /\ job'.release # NoBase => PackOf(job'.release).game = job.manifest.game.minecraft
    BY DEF Begins, Active, Fields
<1>2. NewGame' = NewGame
    BY <1>1 DEF NewGame
<1> QED
    BY <1>1, <1>2 DEF MergeInv, Wrote

LEMMA MergeWrites ==
    ASSUME MergeInv, Writes
    PROVE  MergeInv'
<1>1. /\ Active /\ job.phase \in {"items", "graph"} /\ job'.phase \in {"graph", "done"}
      /\ job'.manifest = job.manifest /\ job'.kind = job.kind /\ job'.pins = job.pins
      /\ job'.upgrade = job.upgrade /\ job'.sides = job.sides /\ job'.resolved = job.resolved
      /\ job'.base = job.base /\ job'.release = job.release
    BY DEF Writes, Fields
<1>2. NewGame' = NewGame
    BY <1>1 DEF NewGame
<1>3. CASE job'.phase = "graph" /\ job.kind = "lock"
    BY <1>1, <1>2, <1>3 DEF MergeInv, Wrote
<1>4. CASE job'.phase = "done" /\ job.phase = "graph"
    BY <1>1, <1>2, <1>4 DEF MergeInv, Wrote
<1>5. CASE /\ job'.phase = "done" /\ job.phase = "items" /\ job.kind = "merge"
           /\ manifest' = job.manifest /\ lock'.base = job.release
    BY <1>1, <1>2, <1>5 DEF MergeInv, Wrote
<1> QED
    BY <1>3, <1>4, <1>5 DEF Writes

LEMMA MergeInvNext ==
    ResolveInv /\ MergeInv /\ [Next]_vars => MergeInv'
<1> SUFFICES ASSUME ResolveInv, MergeInv, [Next]_vars
             PROVE  MergeInv'
    OBVIOUS
<1>1. CASE Rested
    BY <1>1 DEF Rested, MergeInv, Active, Wrote
<1>2. CASE Stays
  <2>1. NewGame' = NewGame
      BY <1>2 DEF Stays, NewGame
  <2> QED
      BY <1>2, <2>1 DEF Stays, MergeInv, Active, Wrote
<1>3. CASE StartsLock
  <2>1. /\ job'.phase = "base" /\ job'.kind = "lock" /\ DOMAIN job'.resolved = {}
      BY <1>3 DEF StartsLock, Started
  <2> QED
      BY <2>1 DEF MergeInv, Wrote
<1>4. CASE StartsMerge
    BY <1>4, MergeStarts DEF ResolveInv
<1>5. CASE \E key : Pops(key)
    BY <1>5, MergePops DEF ResolveInv
<1> QED
    BY <1>1, <1>2, <1>3, <1>4, <1>5, Steps, MergeBegins, MergeWrites DEF ResolveInv, Starts

-----------------------------------------------------------------------------
(* A merge takes a change only one side made, keeps what neither changed,  *)
(* and invents nothing, in the specs of what a catalogue or a URL has and  *)
(* in the game, for any two sides and any strategy (vc/merge.ts), when the *)
(* manifests written at first and imported have one spec for a name.       *)
THEOREM MergesAreTwoSided ==
    Spec => [](WrittenOnce /\ Wrote("merge") =>
                  ManifestTwoSided(job.sides.base.manifest, job.sides.ours.manifest,
                                   job.sides.theirs.manifest, manifest))
<1>1. Init => ResolveInv /\ MergeInv
    BY ResolveInvInit, MergeInvInit
<1>2. (ResolveInv /\ MergeInv) /\ [Next]_vars => (ResolveInv /\ MergeInv)'
    BY ResolveInvNext, MergeInvNext
<1>3. ResolveInv /\ MergeInv =>
        (WrittenOnce /\ Wrote("merge") =>
                  ManifestTwoSided(job.sides.base.manifest, job.sides.ours.manifest,
                                   job.sides.theirs.manifest, manifest))
    BY DEF MergeInv, Wrote, Active
<1> QED
    BY <1>1, <1>2, <1>3, PTL DEF Spec

-----------------------------------------------------------------------------
(* Local files.  A file's key follows from the name of its item, and the   *)
(* files of a commit at a name are those its lock has under that key.      *)
LEMMA FileKeyGiven ==
    ASSUME NEW ref \in Inputs, NEW other \in Inputs, refKey(ref) = refKey(other)
    PROVE  FileKey(ref) = FileKey(other)
<1>1. /\ DOMAIN ref = {"source", "id", "spec", "target"}
      /\ DOMAIN other = {"source", "id", "spec", "target"}
    BY RelockAssumption
<1>2. ref.source = other.source /\ ref.id = other.id
    BY DEF refKey
<1>3. localizeRef(ref).id = localizeRef(other).id
    BY <1>1, <1>2 DEF localizeRef
<1> QED
    BY <1>2, <1>3, LocalizedSource DEF FileKey, refKey

LEMMA FileKeySource ==
    ASSUME NEW ref
    PROVE  FileKey(ref)[1] = ref.source
    BY LocalizedSource DEF FileKey, refKey

LEMMA FilesOfItem ==
    ASSUME NEW commit, Authored(commit.manifest), NEW key, NEW ref \in ItemsAt(commit.manifest, key),
           NEW rows, rows = PinOf(FileKey(ref), commit.lock.rows), rows # {},
           NEW hash, \A row \in rows : row.hash = hash
    PROVE  FilesAt(commit, key) = {hash}
<1>1. ToSet(commit.manifest.items) \subseteq Inputs
    BY DEF Authored, ToSet
<1>2. \A other \in ItemsAt(commit.manifest, key) : PinOf(refKey(localizeRef(other)), commit.lock.rows) = rows
    BY <1>1, FileKeyGiven DEF ItemsAt, FileKey
<1>3. UNION {PinOf(refKey(localizeRef(other)), commit.lock.rows) :
               other \in ItemsAt(commit.manifest, key)} = rows
    BY <1>2
<1> QED
    BY <1>3 DEF FilesAt

LEMMA FileOfPin ==
    ASSUME NEW commit, Authored(commit.manifest), NEW key, NEW ref \in ItemsAt(commit.manifest, key),
           NEW row, PinOf(FileKey(ref), commit.lock.rows) = {row}
    PROVE  FilesAt(commit, key) = {row.hash}
<1>1. PICK rows : rows = PinOf(FileKey(ref), commit.lock.rows)
    OBVIOUS
<1>2. rows # {} /\ \A x \in rows : x.hash = row.hash
    BY <1>1
<1> QED
    BY <1>1, <1>2, FilesOfItem

LEMMA NoFiles ==
    ASSUME NEW commit, NEW key, ItemsAt(commit.manifest, key) = {}
    PROVE  FilesAt(commit, key) = {}
    BY DEF FilesAt

(* The value of a local item that is locked once says what its file is.    *)
FileValue(hash) == [spec |-> Latest, hash |-> hash]
Filed(value, files) ==
    (value = {} /\ files = {}) \/ \E hash : value = {FileValue(hash)} /\ files = {hash}

LEMMA ItemIsFile ==
    ASSUME NEW commit, Authored(commit.manifest), LockedOnce(commit), NEW key, key[1] = "local",
           NEW ref \in ItemsAt(commit.manifest, key)
    PROVE  \E row : /\ PinOf(FileKey(ref), Rows(commit.lock)) = {row}
                    /\ FilesAt(commit, key) = {row.hash}
<1>1. ref \in Locals(commit.manifest)
    BY DEF ItemsAt, Locals, refKey
<1>2. PICK row \in Rows(commit.lock) : PinOf(FileKey(ref), Rows(commit.lock)) = {row}
    BY <1>1 DEF LockedOnce
<1>3. Rows(commit.lock) = commit.lock.rows
    BY <1>2 DEF Rows
<1>4. FilesAt(commit, key) = {row.hash}
    BY <1>2, <1>3, FileOfPin
<1> QED
    BY <1>2, <1>4

LEMMA ValueIsFile ==
    ASSUME NEW commit, Authored(commit.manifest), LockedOnce(commit), NEW key, key[1] = "local",
           NEW set, set = buildItemSet(commit.manifest, Rows(commit.lock))
    PROVE  /\ key \in DOMAIN set.items <=> ItemsAt(commit.manifest, key) # {}
           /\ Filed(entryValue(set, key), FilesAt(commit, key))
<1>1. key \in DOMAIN set.items <=> ItemsAt(commit.manifest, key) # {}
    BY DEF buildItemSet, ItemsAt, identityKeyOf
<1>2. ASSUME key \notin DOMAIN set.items
      PROVE  entryValue(set, key) = {} /\ FilesAt(commit, key) = {}
    BY <1>1, <1>2, NoFiles DEF entryValue
<1>3. ASSUME key \in DOMAIN set.items
      PROVE  \E hash : entryValue(set, key) = {FileValue(hash)} /\ FilesAt(commit, key) = {hash}
  <2>1. PICK ref : ref = set.items[key].ref
      OBVIOUS
  <2>2. PICK rows : rows = Rows(commit.lock)
      OBVIOUS
  <2>3. ref \in ToSet(commit.manifest.items) /\ refKey(ref) = key /\ set.items[key] = entryOf(ref, rows)
      BY <1>3, <2>1, <2>2, ItemSetItem
  <2>4. ref \in ItemsAt(commit.manifest, key)
      BY <2>3 DEF ItemsAt
  <2>5. PICK row : PinOf(FileKey(ref), rows) = {row} /\ FilesAt(commit, key) = {row.hash}
      BY <2>2, <2>4, ItemIsFile
  <2>6. ref.source = "local" /\ ref.spec = Latest
    <3>1. ref \in Inputs
        BY <2>3 DEF Authored, ToSet
    <3>2. ref.source = "local"
        BY <2>3 DEF refKey
    <3> QED
        BY <3>1, <3>2, RelockAssumption
  <2>7. set.items[key].value = FileValue(row.hash)
    <3>1. (CHOOSE x \in {row} : TRUE) = row
        OBVIOUS
    <3> QED
        BY <2>3, <2>5, <2>6, <3>1 DEF entryOf, FileValue, FileKey
  <2> QED
      BY <1>3, <2>5, <2>7 DEF entryValue
<1> QED
    BY <1>1, <1>2, <1>3 DEF Filed

LEMMA SameValueSameFile ==
    ASSUME NEW a, NEW b, NEW files, NEW others, Filed(a, files), Filed(b, others)
    PROVE  a = b <=> files = others
<1>1. \A x, y : FileValue(x) = FileValue(y) => x = y
  <2>1. \A x : FileValue(x).hash = x
      BY DEF FileValue
  <2> QED
      BY <2>1
<1> QED
    BY <1>1 DEF Filed

PinnedOnce(m, pins) == \A ref \in Locals(m) : \E row \in pins : PinOf(FileKey(ref), pins) = {row}

(* A clean merge pins each local item it takes at the row of its side, and *)
(* takes it from the side that changed it when only one did.               *)
LEMMA MergeKeepsFiles ==
    ASSUME NEW strategy \in Strategies, NEW b, NEW o, NEW t,
           Authored(b.manifest), Authored(o.manifest), Authored(t.manifest),
           LockedOnce(b), LockedOnce(o), LockedOnce(t), NEW pins,
           pins = [ours |-> Rows(o.lock), theirs |-> Rows(t.lock)], NEW m,
           m = threeWayMerge(buildItemSet(b.manifest, Rows(b.lock)), buildItemSet(o.manifest, Rows(o.lock)),
                             buildItemSet(t.manifest, Rows(t.lock)), pins, strategy),
           m.clean, OneName(Locals(m.manifest)), NEW seeded,
           seeded = [manifest |-> m.manifest, lock |-> [rows |-> m.seedPins]]
    PROVE  FilesTwoSided(b, o, t, seeded) /\ PinnedOnce(m.manifest, m.seedPins)
<1>1. PICK base, ours, theirs : /\ base = buildItemSet(b.manifest, Rows(b.lock))
                                /\ ours = buildItemSet(o.manifest, Rows(o.lock))
                                /\ theirs = buildItemSet(t.manifest, Rows(t.lock))
    OBVIOUS
<1>2. PICK taken : taken = TakenKeys(base, ours, theirs, pins, strategy)
    OBVIOUS
<1>3. m = threeWayMerge(base, ours, theirs, pins, strategy)
    BY <1>1
<1>4. PICK side, entered : /\ \A key \in taken : side[key] = TakenSide(base, ours, theirs, pins, strategy, key)
                           /\ \A key \in taken : entered[key] = TakenEntry(base, ours, theirs, pins, strategy, key)
  <2>1. PICK side : side = [key \in taken |-> TakenSide(base, ours, theirs, pins, strategy, key)]
      OBVIOUS
  <2>2. PICK entered : entered = [key \in taken |-> TakenEntry(base, ours, theirs, pins, strategy, key)]
      OBVIOUS
  <2> QED
      BY <2>1, <2>2
<1>5. ASSUME NEW key
      PROVE  /\ key \notin taken => ItemsAt(m.manifest, key) = {}
             /\ key \in taken => ItemsAt(m.manifest, key) = {entered[key].ref}
  <2>1. PICK om, tm, orows, trows : /\ om = o.manifest /\ orows = Rows(o.lock)
                                    /\ tm = t.manifest /\ trows = Rows(t.lock)
      OBVIOUS
  <2>2. Authored(om) /\ Authored(tm) /\ ours = buildItemSet(om, orows) /\ theirs = buildItemSet(tm, trows)
      BY <1>1, <2>1
  <2>3. HoldsTaken(m.manifest, base, ours, theirs, pins, strategy)
      BY <1>3, <2>2, MergedItems
  <2> QED
      BY <1>2, <1>4, <2>3 DEF HoldsTaken
<1>6. \A key \in taken : /\ \/ side[key] = "ours" /\ entered[key].ref \in ItemsAt(o.manifest, key)
                            \/ side[key] = "theirs" /\ entered[key].ref \in ItemsAt(t.manifest, key)
                         /\ entered[key].canonicalKey = FileKey(entered[key].ref)
    BY <1>1, <1>2, <1>4, TakenItem
<1>7. \A row : row \in m.seedPins <=> \E key \in taken :
                  row \in PinOf(FileKey(entered[key].ref), pins[side[key]])
    BY <1>2, <1>3, <1>4, <1>6, MergeGives
<1>8. ASSUME NEW key \in taken, key[1] = "local"
      PROVE  \E row \in m.seedPins :
                /\ PinOf(FileKey(entered[key].ref), m.seedPins) = {row}
                /\ side[key] = "ours" => FilesAt(o, key) = {row.hash}
                /\ side[key] = "theirs" => FilesAt(t, key) = {row.hash}
  <2>1. PICK ref : ref = entered[key].ref
      OBVIOUS
  <2>2. PICK row : /\ PinOf(FileKey(ref), pins[side[key]]) = {row}
                   /\ side[key] = "ours" => FilesAt(o, key) = {row.hash}
                   /\ side[key] = "theirs" => FilesAt(t, key) = {row.hash}
    <3>1. CASE side[key] = "ours" /\ ref \in ItemsAt(o.manifest, key)
      <4>1. \E row : PinOf(FileKey(ref), Rows(o.lock)) = {row} /\ FilesAt(o, key) = {row.hash}
          BY <1>8, <3>1, ItemIsFile
      <4> QED
          BY <3>1, <4>1
    <3>2. CASE side[key] = "theirs" /\ ref \in ItemsAt(t.manifest, key)
      <4>1. \E row : PinOf(FileKey(ref), Rows(t.lock)) = {row} /\ FilesAt(t, key) = {row.hash}
          BY <1>8, <3>2, ItemIsFile
      <4> QED
          BY <3>2, <4>1
    <3> QED
        BY <1>6, <2>1, <3>1, <3>2
  <2>3. row \in m.seedPins /\ canonicalKeyOf(row) = FileKey(ref)
      BY <1>7, <2>1, <2>2 DEF PinOf
  <2>4. ASSUME NEW other \in m.seedPins, canonicalKeyOf(other) = FileKey(ref)
        PROVE  other = row
    <3>1. PICK k \in taken : other \in PinOf(FileKey(entered[k].ref), pins[side[k]])
        BY <1>7
    <3>2. FileKey(entered[k].ref) = FileKey(ref)
        BY <2>4, <3>1 DEF PinOf
    <3>3. /\ entered[k].ref \in ItemsAt(m.manifest, k)
          /\ ref \in ItemsAt(m.manifest, key)
        BY <1>5, <2>1
    <3>4. ref.source = "local" /\ entered[k].ref.source = "local"
      <4>1. ref.source = "local"
          BY <1>8, <3>3 DEF ItemsAt, refKey
      <4> QED
          BY <3>2, <4>1, FileKeySource
    <3>5. refKey(entered[k].ref) = refKey(ref)
        BY <3>2, <3>3, <3>4 DEF OneName, Locals, ItemsAt
    <3>6. k = key
        BY <3>3, <3>5 DEF ItemsAt
    <3> QED
        BY <2>1, <2>2, <3>1, <3>6
  <2>5. PinOf(FileKey(ref), m.seedPins) = {row}
      BY <2>3, <2>4 DEF PinOf
  <2> QED
      BY <2>1, <2>2, <2>3, <2>5
<1>9. ASSUME NEW ref \in Locals(m.manifest)
      PROVE  \E row \in m.seedPins : PinOf(FileKey(ref), m.seedPins) = {row}
  <2>1. PICK key : key = refKey(ref)
      OBVIOUS
  <2>2. ref \in ItemsAt(m.manifest, key) /\ key[1] = "local"
      BY <2>1 DEF Locals, ItemsAt, refKey
  <2>3. key \in taken /\ ref = entered[key].ref
      BY <1>5, <2>2
  <2> QED
      BY <1>8, <2>2, <2>3
<1>10. ASSUME NEW key \in ToSet(KeyOrder), key[1] = "local"
       PROVE  OneSided(FilesAt(b, key), FilesAt(o, key), FilesAt(t, key), FilesAt(seeded, key))
  <2>1. PICK chosen : chosen = TakenSide(base, ours, theirs, pins, strategy, key)
      OBVIOUS
  <2>2. /\ key \in DOMAIN base.items <=> ItemsAt(b.manifest, key) # {}
        /\ key \in DOMAIN ours.items <=> ItemsAt(o.manifest, key) # {}
        /\ key \in DOMAIN theirs.items <=> ItemsAt(t.manifest, key) # {}
        /\ Filed(entryValue(base, key), FilesAt(b, key))
        /\ Filed(entryValue(ours, key), FilesAt(o, key))
        /\ Filed(entryValue(theirs, key), FilesAt(t, key))
      BY <1>1, <1>10, ValueIsFile
  <2>3. CASE key \notin DOMAIN base.items \cup DOMAIN ours.items \cup DOMAIN theirs.items
    <3>1. key \notin taken
        BY <1>2, <2>3 DEF TakenKeys
    <3>2. ItemsAt(seeded.manifest, key) = {}
        BY <1>5, <3>1
    <3>3. FilesAt(seeded, key) = {}
        BY <3>2, NoFiles
    <3>4. FilesAt(b, key) = {} /\ FilesAt(o, key) = {} /\ FilesAt(t, key) = {}
        BY <2>2, <2>3, NoFiles
    <3> QED
        BY <3>3, <3>4 DEF OneSided
  <2>4. CASE key \in DOMAIN base.items \cup DOMAIN ours.items \cup DOMAIN theirs.items
    <3>1. chosen # "manual"
        BY <1>1, <1>3, <2>1, <2>4, MergeGives
    <3>2. chosen \in {"ours", "theirs"}
        BY <2>1, <3>1, SidesOfMerge
    <3>3. key \in taken <=> key \in DOMAIN SideSet(ours, theirs, chosen).items
        BY <1>2, <2>1, <2>4, <3>1 DEF TakenKeys
    <3>4. /\ chosen = "ours" => FilesAt(seeded, key) = FilesAt(o, key)
          /\ chosen = "theirs" => FilesAt(seeded, key) = FilesAt(t, key)
      <4>1. CASE key \notin taken
        <5>1. FilesAt(seeded, key) = {}
            BY <1>5, <4>1, NoFiles
        <5>2. /\ chosen = "ours" => ItemsAt(o.manifest, key) = {}
              /\ chosen = "theirs" => ItemsAt(t.manifest, key) = {}
            BY <2>2, <3>3, <4>1 DEF SideSet
        <5> QED
            BY <5>1, <5>2, NoFiles
      <4>2. CASE key \in taken
        <5>1. PICK ref : ref = entered[key].ref /\ ref \in ItemsAt(seeded.manifest, key)
            BY <1>5, <4>2
        <5>2. PICK row \in m.seedPins :
                /\ PinOf(FileKey(ref), m.seedPins) = {row}
                /\ side[key] = "ours" => FilesAt(o, key) = {row.hash}
                /\ side[key] = "theirs" => FilesAt(t, key) = {row.hash}
            BY <1>8, <1>10, <4>2, <5>1
        <5>3. FilesAt(seeded, key) = {row.hash}
          <6>1. Authored(seeded.manifest)
              BY <1>1, <1>3, MergedIsAuthored
          <6>2. PinOf(FileKey(ref), seeded.lock.rows) = {row}
              BY <5>2
          <6> QED
              BY <5>1, <6>1, <6>2, FileOfPin
        <5> QED
            BY <1>4, <2>1, <4>2, <5>2, <5>3
      <4> QED
          BY <4>1, <4>2
    <3>5. /\ entryValue(ours, key) = entryValue(theirs, key) <=> FilesAt(o, key) = FilesAt(t, key)
          /\ entryValue(ours, key) = entryValue(base, key) <=> FilesAt(o, key) = FilesAt(b, key)
          /\ entryValue(theirs, key) = entryValue(base, key) <=> FilesAt(t, key) = FilesAt(b, key)
        BY <2>2, SameValueSameFile
    <3> QED
        BY <2>1, <3>2, <3>4, <3>5 DEF TakenSide, SideOf, OneSided
  <2> QED
      BY <2>3, <2>4
<1> QED
    BY <1>9, <1>10 DEF FilesTwoSided, PinnedOnce

-----------------------------------------------------------------------------
(* A merge in its resolve.  What it starts from is two-sided in the local  *)
(* files, each pinned at one row; no such pin is upgraded; and the worklist*)
(* resolves a local item at its pin, under its own key.                    *)
Seeded == [manifest |-> job.manifest, lock |-> [rows |-> job.pins]]

PinHeld(key, pins, resolved, alias) ==
    \E row \in pins : /\ PinOf(key, pins) = {row}
                      /\ key \in DOMAIN resolved => resolved[key] = row
                      /\ key \in DOMAIN alias => alias[key] = key

FilesInv ==
    Active /\ job.kind = "merge" =>
        /\ ~ job.upgrade.all /\ \A key \in job.upgrade.keys : key[1] # "local"
        /\ FilesKept =>
             /\ FilesTwoSided(job.sides.base, job.sides.ours, job.sides.theirs, Seeded)
             /\ \A ref \in Locals(job.manifest) : PinHeld(FileKey(ref), job.pins, job.resolved, job.alias)

LEMMA FilesInvInit ==
    Init => FilesInv
    BY DEF Init, FilesInv, Active, Idle

(* What a merge resolves anew is of a catalogue.                           *)
LEMMA UpgradesCatalogued ==
    ASSUME NEW strategy \in Strategies, NEW base, NEW o, NEW t, Authored(o), Authored(t),
           NEW orows, NEW trows, NEW pins, NEW ours, NEW theirs,
           ours = buildItemSet(o, orows), theirs = buildItemSet(t, trows),
           NEW m, m = threeWayMerge(base, ours, theirs, pins, strategy),
           NEW name \in m.reResolveKeys
    PROVE  name[1] # "local"
<1>1. PICK taken : taken = TakenKeys(base, ours, theirs, pins, strategy)
    OBVIOUS
<1>2. PICK key \in taken : /\ TakenEntry(base, ours, theirs, pins, strategy, key).canonicalKey = name
                           /\ TakenEntry(base, ours, theirs, pins, strategy, key).ref.source
                                \in {"modrinth", "curseforge"}
    BY <1>1, MergeGives
<1> QED
    BY <1>1, <1>2, TakenItem

LEMMA FilesStart ==
    ASSUME AuthoredInv, StartsMerge
    PROVE  FilesInv'
<1>1. PICK strategy \in Strategies :
        /\ Merged(strategy).clean
        /\ job' = Started("merge", Merged(strategy).manifest, Merged(strategy).seedPins,
                           [all |-> FALSE, keys |-> Merged(strategy).reResolveKeys], FALSE,
                           [ours |-> Commit, theirs |-> branches.theirs, base |-> branches.base])
    BY DEF StartsMerge, Strategies
<1>2. PICK m : m = Merged(strategy)
    OBVIOUS
<1>3. /\ job'.phase = "base" /\ job'.kind = "merge" /\ job'.manifest = m.manifest
      /\ job'.pins = m.seedPins /\ job'.upgrade = [all |-> FALSE, keys |-> m.reResolveKeys]
      /\ job'.resolved = <<>> /\ job'.alias = <<>>
      /\ job'.sides = [ours |-> Commit, theirs |-> branches.theirs, base |-> branches.base]
    BY <1>1, <1>2 DEF Started
<1>4. PICK b, o, t, pins :
        /\ b = branches.base /\ o = Commit /\ t = branches.theirs
        /\ pins = [ours |-> Rows(o.lock), theirs |-> Rows(t.lock)]
    OBVIOUS
<1>5. m = threeWayMerge(buildItemSet(b.manifest, Rows(b.lock)), buildItemSet(o.manifest, Rows(o.lock)),
                        buildItemSet(t.manifest, Rows(t.lock)), pins, strategy)
    BY <1>2, <1>4 DEF Merged, itemSetOf, Commit
<1>6. job'.sides.base = b /\ job'.sides.ours = o /\ job'.sides.theirs = t
    BY <1>3, <1>4
<1>7. Authored(b.manifest) /\ Authored(o.manifest) /\ Authored(t.manifest)
    BY <1>4 DEF AuthoredInv, StartsMerge, Commit
<1>8. \A key \in m.reResolveKeys : key[1] # "local"
  <2>1. PICK base, om, tm, orows, trows, ours, theirs :
           /\ base = buildItemSet(b.manifest, Rows(b.lock))
           /\ om = o.manifest /\ orows = Rows(o.lock) /\ ours = buildItemSet(om, orows)
           /\ tm = t.manifest /\ trows = Rows(t.lock) /\ theirs = buildItemSet(tm, trows)
      OBVIOUS
  <2>2. m = threeWayMerge(base, ours, theirs, pins, strategy) /\ Authored(om) /\ Authored(tm)
      BY <1>5, <1>7, <2>1
  <2> QED
      BY <2>1, <2>2, UpgradesCatalogued
<1>9. ASSUME FilesKept'
      PROVE  FilesTwoSided(b, o, t, Seeded') /\ PinnedOnce(m.manifest, m.seedPins)
  <2>1. /\ LockedOnce(b) /\ LockedOnce(o) /\ LockedOnce(t)
        /\ OneName(Locals(m.manifest))
      BY <1>3, <1>6, <1>9 DEF FilesKept
  <2>2. PICK seeded : seeded = [manifest |-> m.manifest, lock |-> [rows |-> m.seedPins]]
      OBVIOUS
  <2>3. m.clean
      BY <1>1, <1>2
  <2>4. FilesTwoSided(b, o, t, seeded) /\ PinnedOnce(m.manifest, m.seedPins)
      BY <1>4, <1>5, <1>7, <2>1, <2>2, <2>3, MergeKeepsFiles
  <2>5. Seeded' = seeded
      BY <1>3, <2>2 DEF Seeded
  <2> QED
      BY <2>4, <2>5
<1>10. ASSUME FilesKept', NEW ref \in Locals(m.manifest)
       PROVE  PinHeld(FileKey(ref), job'.pins, job'.resolved, job'.alias)
  <2>1. DOMAIN job'.resolved = {} /\ DOMAIN job'.alias = {}
      BY <1>3
  <2> QED
      BY <1>3, <1>9, <1>10, <2>1 DEF PinHeld, PinnedOnce
<1> QED
    BY <1>3, <1>6, <1>8, <1>9, <1>10 DEF FilesInv

(* A pin of a local item is what a ref of its name takes.                  *)
LEMMA PinOfFile ==
    ASSUME WorkInv, FilesInv, job.kind = "merge", NEW key, Pops(key),
           NEW file, NEW row, PinOf(file, job.pins) = {row}, file[1] = "local"
    PROVE  /\ Pins(file) \subseteq {row}
           /\ Next1.ref.source = "local" => Pins(file) = {row}
<1>1. Pins(file) = {x \in {row} : ~ isUpgraded(job.upgrade, file) /\ specSatisfiedBy(Next1.ref.spec, x)}
    BY DEF Pins
<1>2. ~ isUpgraded(job.upgrade, file)
    BY DEF FilesInv, Pops, Active, isUpgraded
<1>3. ASSUME Next1.ref.source = "local"
      PROVE  specSatisfiedBy(Next1.ref.spec, row)
  <2>1. PICK input \in Inputs : Next1.ref = localizeRef(input)
      BY HeadAsked
  <2>2. input.source = "local" /\ Next1.ref.spec = input.spec
      BY <1>3, <2>1, LocalizedSource
  <2>3. Next1.ref.spec = Latest
      BY <2>2, RelockAssumption
  <2> QED
      BY <2>3 DEF specSatisfiedBy, Latest
<1> QED
    BY <1>1, <1>2, <1>3

LEMMA PinStillHeld ==
    ASSUME PinInv, WorkInv, PublishedInv, FilesInv, job.kind = "merge", NEW key, Pops(key),
           NEW file, file[1] = "local", PinHeld(file, job.pins, job.resolved, job.alias)
    PROVE  PinHeld(file, job.pins, job'.resolved, job'.alias)
<1>1. PICK row \in job.pins : /\ PinOf(file, job.pins) = {row}
                              /\ file \in DOMAIN job.resolved => job.resolved[file] = row
                              /\ file \in DOMAIN job.alias => job.alias[file] = file
    BY DEF PinHeld
<1>2. /\ Pins(file) \subseteq {row}
      /\ Next1.ref.source = "local" => Pins(file) = {row}
    BY <1>1, PinOfFile
<1>3. Key[1] = Next1.ref.source
    BY DEF Key, refKey
<1>4. ASSUME file \in DOMAIN job'.resolved
      PROVE  job'.resolved[file] = row
  <2>1. CASE file # key \/ job'.resolved = job.resolved
      BY <1>1, <1>4, <2>1, ResolvedAfter
  <2>2. ASSUME file = key, NEW other \in Pins(key), job'.resolved = Put(job.resolved, key, other)
        PROVE  job'.resolved[file] = row
      BY <1>2, <2>2 DEF Put
  <2>3. ASSUME file = key, FoundAt(key)
        PROVE  \E other \in Pins(key) : job'.resolved = Put(job.resolved, key, other)
    <3>1. PICK result \in Answers :
             /\ key = canonicalKeyOf(result.pkg)
             /\ \/ \E other \in Pins(key) : job'.resolved = Put(job.resolved, key, other)
                \/ Pins(key) = {}
        BY <2>3 DEF FoundAt
    <3>2. result.pkg.source = Next1.ref.source
        BY AnswersGive
    <3>3. Next1.ref.source = "local"
        BY <2>3, <3>1, <3>2 DEF canonicalKeyOf
    <3> QED
        BY <1>2, <2>3, <3>1, <3>3
  <2> QED
      BY <2>1, <2>2, <2>3 DEF Pops, MetAt, ReusedAt
<1>5. ASSUME file \in DOMAIN job'.alias
      PROVE  job'.alias[file] = file
  <2>1. CASE file # Key
      BY <1>1, <1>5, <2>1, NamesAfter
  <2>2. CASE file = Key
    <3>1. Pins(Key) # {}
        BY <1>2, <1>3, <2>2
    <3>2. key = Key
      <4>1. CASE Key \in DOMAIN job.alias
          BY <1>1, <2>2, <4>1 DEF Pops
      <4>2. CASE Key \notin DOMAIN job.alias
          BY <3>1, <4>2 DEF Pops, MetAt, ReusedAt, FoundAt
      <4> QED
          BY <4>1, <4>2
    <3> QED
        BY <2>2, <3>2, NamesAfter
  <2> QED
      BY <2>1, <2>2
<1> QED
    BY <1>1, <1>4, <1>5 DEF PinHeld

LEMMA FilesPop ==
    ASSUME PinInv, WorkInv, PublishedInv, FilesInv, NEW key, Pops(key)
    PROVE  FilesInv'
<1>1. /\ Active /\ job'.manifest = job.manifest /\ job'.kind = job.kind /\ job'.pins = job.pins
      /\ job'.upgrade = job.upgrade /\ job'.sides = job.sides
    BY DEF Pops, Active, Steady, Fields
<1>2. (FilesKept' <=> FilesKept) /\ Seeded' = Seeded
    BY <1>1 DEF FilesKept, LocalRemoves, Seeded
<1>3. ASSUME job.kind = "merge", FilesKept, NEW ref \in Locals(job.manifest)
      PROVE  PinHeld(FileKey(ref), job.pins, job'.resolved, job'.alias)
  <2>1. FileKey(ref)[1] = "local"
      BY FileKeySource DEF Locals
  <2>2. PinHeld(FileKey(ref), job.pins, job.resolved, job.alias)
      BY <1>1, <1>3 DEF FilesInv
  <2> QED
      BY <1>3, <2>1, <2>2, PinStillHeld
<1> QED
    BY <1>1, <1>2, <1>3 DEF FilesInv

LEMMA FilesInvNext ==
    ResolveInv /\ FilesInv /\ [Next]_vars => FilesInv'
<1> SUFFICES ASSUME ResolveInv, FilesInv, [Next]_vars
             PROVE  FilesInv'
    OBVIOUS
<1>1. CASE Rested
    BY <1>1 DEF Rested, FilesInv, Active
<1>2. CASE Stays \/ Begins \/ Writes
  <2>1. \/ UNCHANGED job
        \/ /\ Active /\ job'.manifest = job.manifest /\ job'.kind = job.kind /\ job'.pins = job.pins
           /\ job'.upgrade = job.upgrade /\ job'.sides = job.sides
           /\ job'.resolved = job.resolved /\ job'.alias = job.alias
      BY <1>2 DEF Stays, Begins, Writes, Fields, Active
  <2>2. (FilesKept' <=> FilesKept) /\ Seeded' = Seeded
      BY <2>1 DEF FilesKept, LocalRemoves, Seeded
  <2> QED
      BY <2>1, <2>2 DEF FilesInv, Active
<1>3. CASE StartsLock
  <2>1. job'.kind = "lock"
      BY <1>3 DEF StartsLock, Started
  <2> QED
      BY <2>1 DEF FilesInv
<1>4. CASE StartsMerge
    BY <1>4, FilesStart DEF ResolveInv
<1>5. CASE \E key : Pops(key)
    BY <1>5, FilesPop DEF ResolveInv
<1> QED
    BY <1>1, <1>2, <1>3, <1>4, <1>5, Steps DEF ResolveInv, Starts

-----------------------------------------------------------------------------
(* In the lock, what a row of the instance that game.remove spares has as  *)
(* its content is the content of every row of its key.                     *)
LEMMA OverlayKeepsContent ==
    ASSUME NEW base, NEW instance, NEW removes, AreRows(base), OneRowPerKey(instance),
           NEW row \in Mine(instance, removes), NEW rows,
           rows = PinOf(canonicalKeyOf(row), overlayBase(base, instance, removes))
    PROVE  rows # {} /\ \A x \in rows : x.hash = row.hash
<1>1. rows # {}
  <2>1. PICK same \in overlayBase(base, instance, removes) : SharesKey(same, row)
      BY NothingLost DEF Mine
  <2> QED
      BY <2>1 DEF PinOf, SharesKey
<1>2. ASSUME NEW x \in rows
      PROVE  x.hash = row.hash
  <2>1. x \in overlayBase(base, instance, removes) /\ canonicalKeyOf(x) = canonicalKeyOf(row)
      BY <1>2 DEF PinOf
  <2>2. CASE x \in Mine(instance, removes)
      BY <2>1, <2>2 DEF Mine, OneRowPerKey, SharesKey
  <2>3. ASSUME NEW member \in Kept(base, instance, removes), x = Flagged(member)
        PROVE  x.hash = row.hash
    <3>1. IsRow(member)
        BY DEF Kept, AreRows
    <3>2. SharesKey(row, member)
        BY <2>1, <2>3, <3>1, FlaggedKey DEF SharesKey
    <3>3. PICK same \in Mine(instance, removes) : SharesKey(same, member) /\ sameEntry(member, same)
        BY <3>2, KeptMember
    <3>4. same = row
        BY <3>2, <3>3 DEF Mine, OneRowPerKey, SharesKey
    <3> QED
        BY <2>3, <3>1, <3>3, <3>4, FlaggedAlike DEF sameEntry
  <2> QED
      BY <2>1, <2>2, <2>3, OverlayIsUnion
<1> QED
    BY <1>1, <1>2

(* A local item of a merge is locked at its pin's content.                 *)
LEMMA FileLocked ==
    ASSUME ResolveInv, ClosureInv, MergeInv, FilesInv, Wrote("merge"), FilesKept,
           NEW key, key[1] = "local", NEW ref \in ItemsAt(manifest, key)
    PROVE  FilesAt(Commit, key) = FilesAt(Seeded, key)
<1>1. /\ Active /\ job.kind = "merge" /\ Written /\ manifest = job.manifest /\ job.phase = "done"
      /\ Authored(manifest)
    BY DEF Wrote, Written, Active, MergeInv, ResolveInv, AuthoredInv
<1>2. PICK file : file = FileKey(ref)
    OBVIOUS
<1>3. ref \in Locals(job.manifest) /\ file[1] = "local" /\ file = refKey(localizeRef(ref))
    BY <1>1, <1>2, FileKeySource DEF Locals, ItemsAt, refKey, FileKey
<1>4. PICK row \in job.pins : /\ PinOf(file, job.pins) = {row}
                              /\ file \in DOMAIN job.resolved => job.resolved[file] = row
                              /\ file \in DOMAIN job.alias => job.alias[file] = file
    BY <1>1, <1>2, <1>3 DEF FilesInv, PinHeld
<1>5. canonicalKeyOf(row) = file /\ row.source = "local"
  <2>1. canonicalKeyOf(row) = file
      BY <1>4 DEF PinOf
  <2> QED
      BY <1>3, <2>1 DEF canonicalKeyOf
<1>6. \A remove \in LocalRemoves : ~ removeMatch(remove, row)
    BY <1>4, <1>5 DEF FilesKept
<1>7. file \notin RemoveKeys
  <2>1. \A remove \in LocalRemoves : refKey(remove) # file
      BY <1>5, <1>6 DEF removeMatch
  <2> QED
      BY <2>1 DEF RemoveKeys, LocalRemoves
<1>8. In(ref, Roots)
  <2>1. Authored(job.manifest)
      BY <1>1
  <2> QED
      BY <1>3, <1>7, <2>1, RootsQueued DEF Locals
<1>9. SeenIn(ref, job.alias, job.queue)
    BY <1>1, <1>8 DEF ClosureInv
<1>10. file \in DOMAIN job.resolved /\ job.resolved[file] = row
    BY <1>1, <1>3, <1>4, <1>9, SeenIsLocked
<1>11. row \in Mine(Resolved, LocalRemoves)
    BY <1>6, <1>10 DEF Mine, Resolved, Dropped
<1>12. /\ AreRows(job.base) /\ OneRowPerKey(Resolved)
       /\ lock.rows = overlayBase(job.base, Resolved, LocalRemoves)
    BY <1>1, KeyedIsOneRow DEF ResolveInv, Inv, ResolvedKeyed, LockIsOverlay, Effective, Active
<1>13. PICK rows : rows = PinOf(file, lock.rows)
    OBVIOUS
<1>14. rows # {} /\ \A x \in rows : x.hash = row.hash
    BY <1>5, <1>11, <1>12, <1>13, OverlayKeepsContent
<1>15. FilesAt(Commit, key) = {row.hash}
  <2>1. Commit.manifest = manifest /\ Commit.lock.rows = lock.rows
      BY DEF Commit
  <2> QED
      BY <1>1, <1>2, <1>13, <1>14, <2>1, FilesOfItem
<1>16. FilesAt(Seeded, key) = {row.hash}
  <2>1. Seeded.manifest = manifest /\ Seeded.lock.rows = job.pins
      BY <1>1 DEF Seeded
  <2> QED
      BY <1>1, <1>2, <1>4, <2>1, FileOfPin
<1> QED
    BY <1>15, <1>16

LEMMA FilesAtEnd ==
    ASSUME ResolveInv, ClosureInv, MergeInv, FilesInv, Wrote("merge"), FilesKept
    PROVE  FilesTwoSided(job.sides.base, job.sides.ours, job.sides.theirs, Commit)
<1>1. FilesTwoSided(job.sides.base, job.sides.ours, job.sides.theirs, Seeded) /\ manifest = job.manifest
    BY DEF FilesInv, MergeInv, Wrote, Active
<1>2. ASSUME NEW key, key[1] = "local"
      PROVE  FilesAt(Commit, key) = FilesAt(Seeded, key)
  <2>1. CASE ItemsAt(manifest, key) = {}
    <3>1. ItemsAt(Commit.manifest, key) = {} /\ ItemsAt(Seeded.manifest, key) = {}
        BY <1>1, <2>1 DEF Commit, Seeded
    <3>2. FilesAt(Commit, key) = {} /\ FilesAt(Seeded, key) = {}
        BY <3>1, NoFiles
    <3> QED
        BY <3>2
  <2>2. CASE ItemsAt(manifest, key) # {}
      BY <1>2, <2>2, FileLocked
  <2> QED
      BY <2>1, <2>2
<1> QED
    BY <1>1, <1>2 DEF FilesTwoSided

(* And in the content of the local files (vc/merge.ts, anvil.ts merge):    *)
(* each is locked at the content of a side, of the one that changed it     *)
(* when only one did.  It takes what FilesKept says of the sides, of the   *)
(* names of files and of the game.remove that is taken: a side that has an *)
(* item without its row, or a file under two names, has it resolved anew.  *)
THEOREM MergesTwoSided ==
    Spec => [](WrittenOnce /\ (Wrote("merge") => FilesKept) => MergeTwoSided)
<1> DEFINE I == ResolveInv /\ ClosureInv /\ MergeInv /\ FilesInv
<1>1. Init => I
    BY ResolveInvInit, ClosureInit, MergeInvInit, FilesInvInit
<1>2. I /\ [Next]_vars => I'
    BY ResolveInvNext, ClosureNext, MergeInvNext, FilesInvNext
<1>3. I => (WrittenOnce /\ (Wrote("merge") => FilesKept) => MergeTwoSided)
  <2>1. ASSUME I, WrittenOnce, Wrote("merge")
        PROVE  ManifestTwoSided(job.sides.base.manifest, job.sides.ours.manifest,
                                job.sides.theirs.manifest, manifest)
      BY <2>1 DEF MergeInv, Wrote, Active
  <2> QED
      BY <2>1, FilesAtEnd DEF MergeTwoSided
<1> QED
    BY <1>1, <1>2, <1>3, PTL DEF Spec

-----------------------------------------------------------------------------
(* The members of the base pack fit the game of the pack.                  *)
MembersFit == \A row \in job.base : Fits(row, job.manifest.game.minecraft)

(* A merge that changed the Minecraft version leaves no package locked at  *)
(* a release that does not fit it, nor a base pack of another game, when   *)
(* each member of that pack fits the pack's own game (vc/merge.ts): the    *)
(* pins of what a catalogue has are dropped, those of files and URLs kept. *)
THEOREM MergesFitTheGame ==
    Spec => [](MembersFit => MergedFitsGame)
<1>1. Init => ResolveInv /\ MergeInv
    BY ResolveInvInit, MergeInvInit
<1>2. (ResolveInv /\ MergeInv) /\ [Next]_vars => (ResolveInv /\ MergeInv)'
    BY ResolveInvNext, MergeInvNext
<1>3. ResolveInv /\ MergeInv => (MembersFit => MergedFitsGame)
  <2>1. SUFFICES ASSUME MergeInv, MembersFit, Wrote("merge"),
                        manifest.game.minecraft # job.sides.base.manifest.game.minecraft
                 PROVE  /\ \A key \in DOMAIN job.resolved : Fits(job.resolved[key], manifest.game.minecraft)
                        /\ lock.base # NoBase => PackOf(lock.base).game = manifest.game.minecraft
      BY DEF MergedFitsGame
  <2>2. Active /\ job.phase # "base" /\ job.kind = "merge"
      BY <2>1 DEF Wrote, Active
  <2>3. manifest = job.manifest /\ lock.base = job.release /\ NewGame
      BY <2>1 DEF MergeInv, NewGame
  <2> QED
      BY <2>1, <2>2, <2>3 DEF MergeInv, MembersFit
<1> QED
    BY <1>1, <1>2, <1>3, PTL DEF Spec

-----------------------------------------------------------------------------
(* The graph.  Its edges lead up: each set of names that has whoever the   *)
(* manifest or the base pack asks for, and with a name whoever it asks     *)
(* for, has them all.                                                      *)
Named(edges) == {edge.name : edge \in edges}
Roots0 == {"(manifest)", "(base)"}
ClosedUp(S, edges) == \A edge \in edges : edge.by \in S \cup Roots0 => edge.name \in S
Grounded(edges) == \A S : ClosedUp(S, edges) => Named(edges) \subseteq S

EdgeOf(row, edges) == \E edge \in edges : edge.child = canonicalKeyOf(row) /\ edge.name = row.name
MayTrace(row, edges, base) == row \in base \/ EdgeOf(row, edges)

GraphInv ==
    Active =>
        /\ \A x : In(x, job.queue) => x.by \in Named(job.edges) \cup {"(manifest)"}
        /\ Grounded(job.edges) /\ IsFiniteSet({edge.by : edge \in job.edges})
        /\ job.phase = "base" => job.resolved = <<>>
        /\ PinsNamed => \A key \in DOMAIN job.resolved : MayTrace(job.resolved[key], job.edges, job.base)
        /\ job.kind = "lock" /\ job.phase \in {"graph", "done"} =>
              \A row \in job.base : EdgeOf(row, job.edges)
        /\ job.kind = "lock" /\ job.phase = "done" => graph = job.edges

LEMMA GroundedMore ==
    ASSUME NEW edges, Grounded(edges), NEW more,
           \A edge \in more : edge.by \in Named(edges) \cup Roots0
    PROVE  Grounded(edges \cup more)
<1>1. SUFFICES ASSUME NEW S, ClosedUp(S, edges \cup more)
               PROVE  Named(edges \cup more) \subseteq S
    BY DEF Grounded
<1>2. ClosedUp(S, edges)
    BY <1>1 DEF ClosedUp
<1>3. Named(edges) \subseteq S
    BY <1>2 DEF Grounded
<1>4. \A edge \in more : edge.by \in S \cup Roots0
    BY <1>3
<1> QED
    BY <1>1, <1>3, <1>4 DEF Named, ClosedUp

LEMMA AskersMore ==
    ASSUME NEW edges, IsFiniteSet({edge.by : edge \in edges}), NEW more, NEW by,
           \A edge \in more : edge.by = by
    PROVE  IsFiniteSet({edge.by : edge \in edges \cup more})
<1>1. PICK T : T = {edge.by : edge \in edges}
    OBVIOUS
<1>2. IsFiniteSet(T \cup {by})
    BY <1>1, FS_AddElement
<1>3. {edge.by : edge \in edges \cup more} \subseteq T \cup {by}
    BY <1>1
<1> QED
    BY <1>2, <1>3, FS_Subset

LEMMA EdgeOfMore ==
    ASSUME NEW row, NEW edges, EdgeOf(row, edges), NEW more
    PROVE  EdgeOf(row, edges \cup more)
    BY DEF EdgeOf

(* The edge that a pop adds, and the row it is of.                         *)
LEMMA EdgeAfter ==
    ASSUME Inv, AuthoredInv, PublishedInv, WorkInv, GraphInv, NEW key, Pops(key)
    PROVE  \E edge : /\ job'.edges = job.edges \cup {edge}
                     /\ edge.by = Next1.by
                     /\ PinsNamed => MayTrace(job'.resolved[key], job'.edges, job.base)
                     /\ \/ job'.queue = Tail(job.queue)
                        \/ \E refs : /\ Sequential(refs)
                                     /\ job'.queue = Tail(job.queue) \o Enqueue(refs, edge.name)
<1>0. Active /\ job.phase = "items" /\ Keyed(job.resolved)
    BY DEF Pops, Active, Inv, ResolvedKeyed
<1>1. CASE MetAt(key)
  <2>1. PICK edge : edge = Edge(key, job.resolved[key])
      OBVIOUS
  <2>2. /\ job'.edges = job.edges \cup {edge} /\ job'.resolved = job.resolved
        /\ key \in DOMAIN job.resolved /\ job'.queue = Tail(job.queue)
      BY <1>1, <2>1 DEF MetAt
  <2>3. edge.by = Next1.by
      BY <2>1 DEF Edge
  <2>4. PinsNamed => MayTrace(job'.resolved[key], job'.edges, job.base)
      BY <1>0, <2>2 DEF GraphInv, MayTrace, EdgeOf
  <2> QED
      BY <2>2, <2>3, <2>4
<1>2. CASE ReusedAt(key)
  <2>1. PICK row \in Pins(Key) : /\ job'.resolved = Put(job.resolved, Key, row)
                                 /\ job'.edges = job.edges \cup {Edge(Key, row)}
      BY <1>2 DEF ReusedAt
  <2>2. PICK edge : edge = Edge(Key, row)
      OBVIOUS
  <2>3. key = Key /\ job'.queue = Tail(job.queue)
      BY <1>2 DEF ReusedAt
  <2>4. edge.by = Next1.by /\ edge.child = key /\ edge.name = row.name
      BY <2>2, <2>3 DEF Edge
  <2>5. job'.resolved[key] = row /\ canonicalKeyOf(row) = key
      BY <2>1, <2>3, PinHasKey DEF Put
  <2>6. EdgeOf(job'.resolved[key], job'.edges)
      BY <2>1, <2>2, <2>4, <2>5 DEF EdgeOf
  <2> QED
      BY <2>1, <2>2, <2>3, <2>4, <2>6 DEF MayTrace
<1>3. CASE FoundAt(key)
  <2>1. PICK result \in Answers :
         /\ key = canonicalKeyOf(result.pkg)
         /\ job'.edges = job.edges \cup {Edge(key, result.pkg)}
         /\ job'.queue = Tail(job.queue) \o Enqueue(result.dependencies, result.pkg.name)
         /\ \/ \E row \in Pins(key) : job'.resolved = Put(job.resolved, key, row)
            \/ job'.resolved = Put(job.resolved, key, result.pkg)
      BY <1>3 DEF FoundAt
  <2>2. PICK edge : edge = Edge(key, result.pkg)
      OBVIOUS
  <2>3. edge.by = Next1.by /\ edge.child = key /\ edge.name = result.pkg.name
      BY <2>2 DEF Edge
  <2>4. Sequential(result.dependencies) /\ result.pkg.name \in Projects
      BY AnswersGive, ReleasesDomain
  <2>5. ASSUME NEW row, row \in Pins(key), job'.resolved = Put(job.resolved, key, row), PinsNamed
        PROVE  MayTrace(job'.resolved[key], job'.edges, job.base)
    <3>1. row \in job.pins \cup job.base /\ canonicalKeyOf(row) = key
        BY <2>5, PinHasKey DEF Pins, PinOf
    <3>2. result.pkg.name = ProjectAt(Key) /\ key = CatalogueKey(Key)
        BY <2>1, AnswersGive
    <3>3. PICK input \in Inputs : Next1.ref = localizeRef(input) /\ AllowSource(Next1.ref)
        BY HeadAsked
    <3>4. row \in job.pins /\ CatalogueKey(Key) # Key => row.name = ProjectAt(Key)
        BY <1>0, <2>5, <3>1, <3>2, <3>3 DEF PinsNamed, Key
    <3>5. CatalogueKey(Key) # Key
        BY <1>3, <2>5, <3>2 DEF FoundAt
    <3>6. job'.resolved[key] = row
        BY <2>5 DEF Put
    <3> QED
        BY <2>1, <2>2, <2>3, <3>1, <3>2, <3>4, <3>5, <3>6 DEF EdgeOf, MayTrace
  <2>6. ASSUME job'.resolved = Put(job.resolved, key, result.pkg)
        PROVE  MayTrace(job'.resolved[key], job'.edges, job.base)
    <3>1. job'.resolved[key] = result.pkg
        BY <2>6 DEF Put
    <3> QED
        BY <2>1, <2>2, <2>3, <3>1 DEF EdgeOf, MayTrace
  <2>7. PinsNamed => MayTrace(job'.resolved[key], job'.edges, job.base)
      BY <2>1, <2>5, <2>6
  <2> QED
      BY <2>1, <2>2, <2>3, <2>4, <2>7
<1> QED
    BY <1>1, <1>2, <1>3 DEF Pops

LEMMA GraphPops ==
    ASSUME Inv, AuthoredInv, PublishedInv, WorkInv, GraphInv, NEW key, Pops(key)
    PROVE  GraphInv'
<1>0. /\ Active /\ job.phase = "items" /\ job'.phase = "items"
      /\ job'.pins = job.pins /\ job'.base = job.base
    BY DEF Pops, Active, Steady, Fields
<1>1. PICK edge : /\ job'.edges = job.edges \cup {edge}
                  /\ edge.by = Next1.by
                  /\ PinsNamed => MayTrace(job'.resolved[key], job'.edges, job.base)
                  /\ \/ job'.queue = Tail(job.queue)
                     \/ \E refs : /\ Sequential(refs)
                                  /\ job'.queue = Tail(job.queue) \o Enqueue(refs, edge.name)
    BY EdgeAfter
<1>2. /\ Sequential(job.queue) /\ job.queue # <<>>
      /\ \A x : In(x, job.queue) => x.by \in Named(job.edges) \cup {"(manifest)"}
      /\ Grounded(job.edges) /\ IsFiniteSet({e.by : e \in job.edges})
      /\ PinsNamed => \A k \in DOMAIN job.resolved : MayTrace(job.resolved[k], job.edges, job.base)
    BY <1>0 DEF GraphInv, WorkInv, Queued, Pops
<1>3. Next1.by \in Named(job.edges) \cup {"(manifest)"}
    BY <1>2, QueueTail DEF Next1
<1>4. Grounded(job'.edges)
  <2>1. PICK more : more = {edge}
      OBVIOUS
  <2>2. \A e \in more : e.by \in Named(job.edges) \cup Roots0
      BY <1>1, <1>3, <2>1 DEF Roots0
  <2>3. Grounded(job.edges \cup more)
      BY <1>2, <2>2, GroundedMore
  <2> QED
      BY <1>1, <2>1, <2>3
<1>5. IsFiniteSet({e.by : e \in job'.edges})
  <2>1. PICK more : more = {edge}
      OBVIOUS
  <2>2. \A e \in more : e.by = edge.by
      BY <2>1
  <2>3. IsFiniteSet({e.by : e \in job.edges \cup more})
      BY <1>2, <2>2, AskersMore
  <2> QED
      BY <1>1, <2>1, <2>3
<1>6. PICK tail : tail = Tail(job.queue)
    OBVIOUS
<1>7. Sequential(tail) /\ \A x : In(x, tail) => In(x, job.queue)
    BY <1>2, <1>6, QueueTail
<1>8. Named(job.edges) \cup {edge.name} = Named(job'.edges)
    BY <1>1 DEF Named
<1>9. ASSUME NEW x, In(x, job'.queue)
      PROVE  x.by \in Named(job'.edges) \cup {"(manifest)"}
  <2>1. CASE In(x, tail)
      BY <1>2, <1>7, <1>8, <2>1
  <2>2. CASE ~ In(x, tail)
    <3>1. PICK refs : Sequential(refs) /\ job'.queue = tail \o Enqueue(refs, edge.name)
        BY <1>1, <1>6, <1>9, <2>2
    <3>2. PICK more : more = Enqueue(refs, edge.name)
        OBVIOUS
    <3>3. Sequential(more) /\ (In(x, more) => x.by = edge.name)
        BY <3>1, <3>2, EnqueueIn
    <3>4. In(x, more)
        BY <1>7, <1>9, <2>2, <3>1, <3>2, <3>3, QueueConcat
    <3> QED
        BY <1>8, <3>3, <3>4
  <2> QED
      BY <2>1, <2>2
<1>10. PinsNamed' => PinsNamed
    BY <1>0 DEF PinsNamed
<1>11. ASSUME PinsNamed', NEW k \in DOMAIN job'.resolved
       PROVE  MayTrace(job'.resolved[k], job'.edges, job'.base)
  <2>1. CASE k = key
      BY <1>0, <1>1, <1>10, <1>11, <2>1
  <2>2. CASE k # key
    <3>1. k \in DOMAIN job.resolved /\ job'.resolved[k] = job.resolved[k]
        BY <1>11, <2>2, ResolvedAfter
    <3>2. MayTrace(job.resolved[k], job.edges, job.base)
        BY <1>2, <1>10, <1>11, <3>1
    <3>3. PICK more : job'.edges = job.edges \cup more
        BY <1>1
    <3> QED
        BY <1>0, <3>1, <3>2, <3>3, EdgeOfMore DEF MayTrace
  <2> QED
      BY <2>1, <2>2
<1> QED
    BY <1>0, <1>4, <1>5, <1>9, <1>11 DEF GraphInv

LEMMA GraphInit ==
    Init => GraphInv
    BY DEF Init, GraphInv, Active, Idle

LEMMA GraphStarts ==
    ASSUME Starts
    PROVE  GraphInv'
<1>1. /\ job'.phase = "base" /\ job'.queue = <<>> /\ job'.resolved = <<>> /\ job'.edges = {}
    BY StartsAnew
<1>2. Grounded({}) /\ IsFiniteSet({edge.by : edge \in {}})
  <2>1. {edge.by : edge \in {}} = {}
      OBVIOUS
  <2> QED
      BY <2>1, FS_EmptySet DEF Grounded, Named
<1>3. \A x : ~ In(x, <<>>)
    BY DEF In
<1>4. DOMAIN <<>> = {}
    OBVIOUS
<1> QED
    BY <1>1, <1>2, <1>3, <1>4 DEF GraphInv

LEMMA GraphBegins ==
    ASSUME AuthoredInv, GraphInv, Begins
    PROVE  GraphInv'
<1>1. /\ Active /\ job.phase = "base" /\ job'.phase = "items"
      /\ job'.edges = job.edges /\ job'.resolved = job.resolved
      /\ job'.queue = Enqueue(Roots, "(manifest)")
    BY DEF Begins, Fields, Active
<1>2. job.resolved = <<>> /\ DOMAIN <<>> = {}
    BY <1>1 DEF GraphInv
<1>3. Sequential(Roots)
    BY <1>1, RootsQueued DEF AuthoredInv
<1>4. ASSUME NEW x, In(x, job'.queue)
      PROVE  x.by = "(manifest)"
    BY <1>1, <1>3, <1>4, EnqueueIn
<1> QED
    BY <1>1, <1>2, <1>4 DEF GraphInv

LEMMA GraphWrites ==
    ASSUME GraphInv, Writes
    PROVE  GraphInv'
<1>1. /\ Active /\ job.phase \in {"items", "graph"} /\ job'.phase \in {"graph", "done"}
      /\ job'.kind = job.kind /\ job'.pins = job.pins /\ job'.base = job.base
      /\ job'.resolved = job.resolved /\ job'.queue = job.queue
    BY DEF Writes, Fields
<1>2. PinsNamed' => PinsNamed
    BY <1>1 DEF PinsNamed
<1>3. CASE job'.phase = "graph"
  <2>1. job'.edges = job.edges \cup MemberEdges
      BY <1>3 DEF Writes
  <2>2. \A edge \in MemberEdges : edge.by = "(base)"
    <3>1. TAKE edge \in MemberEdges
    <3>2. PICK m \in job.base : edge = [child |-> canonicalKeyOf(m), name |-> m.name, by |-> "(base)"]
        BY DEF MemberEdges
    <3> QED
        BY <3>2
  <2>3. Grounded(job'.edges) /\ IsFiniteSet({edge.by : edge \in job'.edges})
    <3>1. Grounded(job.edges) /\ IsFiniteSet({edge.by : edge \in job.edges})
        BY <1>1 DEF GraphInv
    <3>2. PICK more : more = MemberEdges
        OBVIOUS
    <3>3. /\ \A edge \in more : edge.by = "(base)"
          /\ \A edge \in more : edge.by \in Named(job.edges) \cup Roots0
        BY <2>2, <3>2 DEF Roots0
    <3>4. Grounded(job.edges \cup more)
        BY <3>1, <3>3, GroundedMore
    <3>5. IsFiniteSet({edge.by : edge \in job.edges \cup more})
        BY <3>1, <3>3, AskersMore
    <3> QED
        BY <2>1, <3>2, <3>4, <3>5
  <2>4. ASSUME NEW row \in job.base
        PROVE  EdgeOf(row, job'.edges)
    <3>1. PICK edge : edge = [child |-> canonicalKeyOf(row), name |-> row.name, by |-> "(base)"]
        OBVIOUS
    <3>2. edge \in MemberEdges
        BY <3>1 DEF MemberEdges
    <3>3. edge.child = canonicalKeyOf(row) /\ edge.name = row.name
        BY <3>1
    <3> QED
        BY <2>1, <3>2, <3>3 DEF EdgeOf
  <2>5. \A row : EdgeOf(row, job.edges) => EdgeOf(row, job'.edges)
      BY <2>1, EdgeOfMore
  <2>6. Named(job.edges) \subseteq Named(job'.edges)
      BY <2>1 DEF Named
  <2> QED
      BY <1>1, <1>2, <1>3, <2>3, <2>4, <2>5, <2>6 DEF GraphInv, MayTrace
<1>4. CASE job'.phase = "done" /\ job.phase = "graph"
  <2>1. job'.edges = job.edges /\ graph' = job.edges
      BY <1>4 DEF Writes
  <2> QED
      BY <1>1, <1>2, <1>4, <2>1 DEF GraphInv
<1>5. CASE job'.phase = "done" /\ job.phase = "items" /\ job.kind = "merge"
  <2>1. TRUE
      OBVIOUS
  <2> QED
      BY <1>1, <1>2, <1>5 DEF GraphInv, Writes
<1> QED
    BY <1>3, <1>4, <1>5 DEF Writes

LEMMA GraphNext ==
    ResolveInv /\ GraphInv /\ [Next]_vars => GraphInv'
<1> SUFFICES ASSUME ResolveInv, GraphInv, [Next]_vars
             PROVE  GraphInv'
    OBVIOUS
<1>1. CASE Rested
    BY <1>1 DEF Rested, GraphInv, Active
<1>2. CASE Stays
    BY <1>2 DEF Stays, GraphInv, Active, PinsNamed
<1>3. CASE \E key : Pops(key)
    BY <1>3, GraphPops DEF ResolveInv
<1> QED
    BY <1>1, <1>2, <1>3, Steps, GraphStarts, GraphBegins, GraphWrites DEF ResolveInv

-----------------------------------------------------------------------------
(* Chains.  A chain from an item up is found by trace, however long it is: *)
(* its steps are no more than the askers there are.                        *)
Above(name) == demandersOf(name) \ {"(manifest)"}

IsChain(c, n, item) ==
    /\ \E S : c \in Seq(S)
    /\ Len(c) = n + 1 /\ c[1] = item
    /\ \A i \in 1..n : c[i + 1] \in Above(c[i])
    /\ \A i, j \in 1..(n + 1) : c[i] = c[j] => i = j

Rooted(name) == "(manifest)" \in demandersOf(name) \/ name = "(base)"

(* What trace has of the chains of n steps, from those of one step less.   *)
Longer(up, n) ==
    UNION {{Append(chain, by) : by \in demandersOf(chain[n]) \ (ToSet(chain) \cup {"(manifest)"})} :
              chain \in up[n - 1]}
Traced(up, item, n) == IF n = 0 THEN {<<item>>} ELSE Longer(up, n)

LEMMA TracedExists ==
    ASSUME NEW item, NEW N \in Nat
    PROVE  \E up : up = [n \in 0..N |-> Traced(up, item, n)]
<1> DEFINE Good == {n \in Nat : \E up : up = [m \in 0..n |-> Traced(up, item, m)]}
<1>1. 0 \in Good
  <2> DEFINE up == [m \in 0..0 |-> {<<item>>}]
  <2>1. up = [m \in 0..0 |-> Traced(up, item, m)]
      BY DEF Traced
  <2> QED
      BY <2>1
<1>2. ASSUME NEW n \in 1..N, n - 1 \in Good
      PROVE  n \in Good
  <2>1. PICK g : g = [m \in 0..(n - 1) |-> Traced(g, item, m)]
      BY <1>2
  <2> DEFINE h == [m \in 0..n |-> IF m = n THEN Traced(g, item, n) ELSE g[m]]
  <2>2. \A m \in 0..n : m # n => h[m] = g[m]
      OBVIOUS
  <2>3. ASSUME NEW m \in 0..n
        PROVE  h[m] = Traced(h, item, m)
    <3>1. m # 0 => m - 1 \in 0..n /\ m - 1 # n
        OBVIOUS
    <3>2. m # 0 => h[m - 1] = g[m - 1]
        BY <3>1, <2>2
    <3>3. Traced(h, item, m) = Traced(g, item, m)
      <4> HIDE DEF h
      <4> QED
          BY <3>2, Zenon DEF Traced, Longer
    <3>4. m # n => m \in 0..(n - 1)
        OBVIOUS
    <3>5. m # n => g[m] = Traced(g, item, m)
        BY <2>1, <3>4
    <3> QED
        BY <2>2, <3>3, <3>5
  <2>4. h = [m \in 0..n |-> Traced(h, item, m)]
      BY <2>3
  <2> HIDE DEF h
  <2> QED
      BY <2>4
<1> HIDE DEF Good
<1>3. \A n \in 0..N : n \in Good
    BY <1>1, <1>2, Climb
<1> QED
    BY <1>3 DEF Good

LEMMA TraceIs ==
    ASSUME NEW item, Cardinality(Askers) \in Nat
    PROVE  \E up : /\ up = [n \in 0..Cardinality(Askers) |-> Traced(up, item, n)]
                   /\ trace(item) = UNION {up[n] : n \in 0..Cardinality(Askers)}
<1> DEFINE Up == CHOOSE up : up = [n \in 0..Cardinality(Askers) |-> Traced(up, item, n)]
<1>1. Up = [n \in 0..Cardinality(Askers) |-> Traced(Up, item, n)]
    BY TracedExists
<1>2. trace(item) = UNION {Up[n] : n \in 0..Cardinality(Askers)}
    BY DEF trace, Traced, Longer
<1> QED
    BY <1>1, <1>2

(* The first steps of a chain.                                             *)
First(c, n) == [i \in 1..n |-> c[i]]

Among(c, n) == {c[i] : i \in 1..n}

LEMMA FirstAppends ==
    ASSUME NEW S, NEW c \in Seq(S), NEW n \in Nat \ {0}, n < Len(c)
    PROVE  /\ First(c, n + 1) = Append(First(c, n), c[n + 1])
           /\ First(c, n)[n] = c[n] /\ ToSet(First(c, n)) = Among(c, n)
<1>1. PICK f : f = First(c, n)
    OBVIOUS
<1>2. /\ f \in Seq(S) /\ Len(f) = n /\ DOMAIN f = 1..n
      /\ \A i \in 1..n : f[i] = c[i]
    BY <1>1 DEF First
<1>3. PICK g : g = Append(f, c[n + 1])
    OBVIOUS
<1>4. /\ Len(g) = n + 1 /\ DOMAIN g = 1..(n + 1) /\ g[n + 1] = c[n + 1]
      /\ g \in Seq(S) /\ \A i \in 1..n : g[i] = c[i]
    BY <1>2, <1>3
<1>5. g = [i \in 1..(n + 1) |-> c[i]]
  <2>1. \A i \in 1..(n + 1) : g[i] = c[i]
      BY <1>4
  <2> QED
      BY <1>4, <2>1
<1>6. g = First(c, n + 1)
    BY <1>5 DEF First
<1>7. ToSet(f) = Among(c, n)
    BY <1>2 DEF ToSet, Among
<1>8. f[n] = c[n]
    BY <1>2
<1> QED
    BY <1>1, <1>3, <1>6, <1>7, <1>8

LEMMA ChainTraced ==
    ASSUME NEW item, NEW N \in Nat, NEW c, IsChain(c, N, item),
           NEW M \in Nat, N <= M,
           NEW up, up = [n \in 0..M |-> Traced(up, item, n)]
    PROVE  c \in up[N]
<1> DEFINE Good == {n \in 0..N : First(c, n + 1) \in up[n]}
<1>0. PICK S : c \in Seq(S)
    BY DEF IsChain
<1>1. 0 \in Good
  <2>1. First(c, 1) = <<item>>
    <3>1. First(c, 1) = [i \in 1..1 |-> item]
        BY DEF First, IsChain
    <3>2. \A i \in 1..1 : i = 1
        OBVIOUS
    <3> QED
        BY <3>1, <3>2
  <2>2. up[0] = {<<item>>}
      BY DEF Traced
  <2> QED
      BY <2>1, <2>2
<1>2. ASSUME NEW n \in 1..N, n - 1 \in Good
      PROVE  n \in Good
  <2>1. PICK f : f = First(c, n)
      OBVIOUS
  <2>2. f \in up[n - 1]
      BY <1>2, <2>1
  <2>3. n \in Nat \ {0} /\ n < Len(c)
      BY DEF IsChain
  <2>4. /\ First(c, n + 1) = Append(f, c[n + 1])
        /\ f[n] = c[n] /\ ToSet(f) = Among(c, n)
      BY <1>0, <2>1, <2>3, FirstAppends
  <2>5. c[n + 1] \in demandersOf(f[n]) /\ c[n + 1] # "(manifest)"
      BY <2>4 DEF IsChain, Above
  <2>6. c[n + 1] \notin ToSet(f)
      BY <2>4 DEF IsChain, Among
  <2>7. c[n + 1] \in demandersOf(f[n]) \ (ToSet(f) \cup {"(manifest)"})
      BY <2>5, <2>6
  <2>8. First(c, n + 1) \in Longer(up, n)
      BY <2>2, <2>4, <2>7 DEF Longer
  <2>9. up[n] = Longer(up, n)
      BY DEF Traced
  <2> QED
      BY <2>8, <2>9
<1> HIDE DEF Good
<1>3. \A n \in 0..N : n \in Good
    BY <1>1, <1>2, Climb
<1>4. First(c, N + 1) \in up[N]
    BY <1>3 DEF Good
<1>5. First(c, N + 1) = c
    BY <1>0 DEF First, IsChain
<1> QED
    BY <1>4, <1>5

LEMMA ChainIsShort ==
    ASSUME NEW item, NEW N \in Nat, NEW c, IsChain(c, N, item), IsFiniteSet(Askers)
    PROVE  Cardinality(Askers) \in Nat /\ N <= Cardinality(Askers)
<1>1. Cardinality(Askers) \in Nat
    BY FS_CardinalityType
<1>2. IsFiniteSet(1..N) /\ Cardinality(1..N) = N
    BY FS_Interval
<1> DEFINE f == [i \in 1..N |-> c[i + 1]]
<1>3. f \in [1..N -> Askers]
  <2>1. ASSUME NEW i \in 1..N
        PROVE  c[i + 1] \in Askers
      BY DEF IsChain, Above, demandersOf, Askers
  <2> QED
      BY <2>1
<1>4. ASSUME NEW i \in 1..N, NEW j \in 1..N, i # j
      PROVE  f[i] # f[j]
    BY <1>4 DEF IsChain
<1> HIDE DEF f
<1>5. ~ Cardinality(Askers) < Cardinality(1..N)
    BY <1>2, <1>3, <1>4, FS_PigeonHole
<1> QED
    BY <1>1, <1>2, <1>5

LEMMA ChainFound ==
    ASSUME NEW item, NEW N \in Nat, NEW c, IsChain(c, N, item), Rooted(c[N + 1]),
           IsFiniteSet(Askers), NoBaseName
    PROVE  \E chain \in whyChains(item) :
              "(manifest)" \in demandersOf(Last(chain)) \/ Last(chain) = "(base)"
<1>1. Cardinality(Askers) \in Nat /\ N <= Cardinality(Askers)
    BY ChainIsShort
<1>2. PICK up : /\ up = [n \in 0..Cardinality(Askers) |-> Traced(up, item, n)]
                /\ trace(item) = UNION {up[n] : n \in 0..Cardinality(Askers)}
    BY <1>1, TraceIs
<1>3. c \in up[N]
    BY <1>1, <1>2, ChainTraced
<1>4. c \in trace(item)
    BY <1>1, <1>2, <1>3
<1>5. Last(c) = c[N + 1]
    BY DEF Last, IsChain
<1>6. demandersOf("(base)") = {}
    BY DEF demandersOf, NoBaseName
<1> QED
    BY <1>4, <1>5, <1>6 DEF whyChains, Rooted

-----------------------------------------------------------------------------
(* Each name of the graph has a chain to a root: a chain of who asks for   *)
(* it, with it in front, or from where it is in that chain on.             *)
Leads(item) == \E n \in Nat : \E c : IsChain(c, n, item) /\ Rooted(c[n + 1])

LEMMA RootLeads ==
    ASSUME NEW item, "(manifest)" \in demandersOf(item)
    PROVE  Leads(item)
<1>1. PICK c : c = <<item>>
    OBVIOUS
<1>2. c \in Seq({item}) /\ Len(c) = 1 /\ c[1] = item
    BY <1>1
<1>3. IsChain(c, 0, item) /\ Rooted(c[0 + 1])
    BY <1>2 DEF IsChain, Rooted
<1> QED
    BY <1>3 DEF Leads

LEMMA MemberLeads ==
    ASSUME NEW item, "(base)" \in demandersOf(item), item # "(base)"
    PROVE  Leads(item)
<1>1. PICK c : c = <<item, "(base)">>
    OBVIOUS
<1>2. c \in Seq({item, "(base)"}) /\ Len(c) = 2 /\ c[1] = item /\ c[2] = "(base)"
    BY <1>1
<1>3. IsChain(c, 1, item)
    BY <1>2 DEF IsChain, Above
<1>4. Rooted(c[1 + 1])
    BY <1>2 DEF Rooted
<1> QED
    BY <1>3, <1>4 DEF Leads

LEMMA AskedLeads ==
    ASSUME NEW item, NEW by \in Above(item), Leads(by)
    PROVE  Leads(item)
<1>0. PICK n \in Nat : \E c : IsChain(c, n, by) /\ Rooted(c[n + 1])
    BY DEF Leads
<1>1. PICK c : IsChain(c, n, by) /\ Rooted(c[n + 1])
    BY <1>0
<1>2. PICK S : c \in Seq(S)
    BY <1>1 DEF IsChain
<1>3. CASE \E k \in 1..(n + 1) : c[k] = item
  <2>1. PICK k \in 1..(n + 1) : c[k] = item
      BY <1>3
  <2>2. PICK m : m = n + 1 - k
      OBVIOUS
  <2>3. m \in Nat /\ m + k = n + 1
      BY <2>2
  <2>4. PICK d : d = [i \in 1..(m + 1) |-> c[i + k - 1]]
      OBVIOUS
  <2>5. \A i \in 1..(m + 1) : i + k - 1 \in 1..(n + 1)
      BY <2>3
  <2>6. Len(c) = n + 1 /\ DOMAIN c = 1..(n + 1)
      BY <1>1, <1>2 DEF IsChain
  <2>7. d \in Seq(S) /\ Len(d) = m + 1
      BY <1>2, <2>3, <2>4, <2>5, <2>6
  <2>8. d[1] = item
      BY <2>1, <2>3, <2>4
  <2>9. ASSUME NEW i \in 1..m
        PROVE  d[i + 1] \in Above(d[i])
    <3>1. PICK h : h = i + k - 1
        OBVIOUS
    <3>2. h \in 1..n
        BY <2>3, <3>1
    <3>3. d[i] = c[h] /\ d[i + 1] = c[h + 1]
        BY <2>3, <2>4, <3>1
    <3> QED
        BY <1>1, <3>2, <3>3 DEF IsChain
  <2>10. ASSUME NEW i \in 1..(m + 1), NEW j \in 1..(m + 1), d[i] = d[j]
         PROVE  i = j
    <3>1. c[i + k - 1] = c[j + k - 1]
        BY <2>4, <2>10
    <3>2. i + k - 1 = j + k - 1
        BY <1>1, <2>5, <3>1 DEF IsChain
    <3> QED
        BY <3>2
  <2>11. IsChain(d, m, item)
      BY <2>7, <2>8, <2>9, <2>10 DEF IsChain
  <2>12. d[m + 1] = c[n + 1]
      BY <2>3, <2>4
  <2> QED
      BY <1>1, <2>3, <2>11, <2>12 DEF Leads
<1>4. CASE \A k \in 1..(n + 1) : c[k] # item
  <2>1. PICK d : d = [i \in 1..(n + 2) |-> IF i = 1 THEN item ELSE c[i - 1]]
      OBVIOUS
  <2>2. Len(c) = n + 1 /\ DOMAIN c = 1..(n + 1) /\ c[1] = by
      BY <1>1, <1>2 DEF IsChain
  <2>3. d \in Seq(S \cup {item}) /\ Len(d) = (n + 1) + 1
      BY <1>2, <2>1, <2>2
  <2>4. d[1] = item
      BY <2>1
  <2>5. \A i \in 2..(n + 2) : d[i] = c[i - 1]
      BY <2>1
  <2>6. ASSUME NEW i \in 1..(n + 1)
        PROVE  d[i + 1] \in Above(d[i])
    <3>1. CASE i = 1
        BY <2>2, <2>4, <2>5, <3>1
    <3>2. CASE i # 1
      <4>1. PICK h : h = i - 1
          OBVIOUS
      <4>2. h \in 1..n /\ d[i] = c[h] /\ d[i + 1] = c[h + 1]
          BY <2>5, <3>2, <4>1
      <4> QED
          BY <1>1, <4>2 DEF IsChain
    <3> QED
        BY <3>1, <3>2
  <2>7. ASSUME NEW i \in 1..(n + 2), NEW j \in 1..(n + 2), d[i] = d[j]
        PROVE  i = j
    <3>1. \A h \in 2..(n + 2) : h - 1 \in 1..(n + 1) /\ d[h] = c[h - 1] /\ d[h] # item
        BY <1>4, <2>5
    <3>2. CASE i = 1 \/ j = 1
        BY <2>4, <2>7, <3>1, <3>2
    <3>3. CASE i # 1 /\ j # 1
      <4>1. i \in 2..(n + 2) /\ j \in 2..(n + 2)
          BY <3>3
      <4>2. i - 1 = j - 1
          BY <1>1, <2>7, <3>1, <4>1 DEF IsChain
      <4> QED
          BY <4>2
    <3> QED
        BY <3>2, <3>3
  <2>8. IsChain(d, n + 1, item)
      BY <2>3, <2>4, <2>6, <2>7 DEF IsChain
  <2>9. d[(n + 1) + 1] = c[n + 1]
      BY <2>5
  <2> QED
      BY <1>1, <2>8, <2>9 DEF Leads
<1> QED
    BY <1>3, <1>4

LEMMA NamesLead ==
    ASSUME Grounded(graph), NoBaseName
    PROVE  \A edge \in graph : Leads(edge.name)
<1>1. PICK S : S = {name \in Named(graph) : Leads(name)}
    OBVIOUS
<1>2. ASSUME NEW edge \in graph, edge.by \in S \cup Roots0
      PROVE  edge.name \in S
  <2>1. edge.by \in demandersOf(edge.name) /\ edge.name \in Named(graph) /\ edge.name # "(base)"
      BY DEF demandersOf, Named, NoBaseName
  <2>2. CASE edge.by = "(manifest)"
      BY <1>1, <2>1, <2>2, RootLeads
  <2>3. CASE edge.by = "(base)"
      BY <1>1, <2>1, <2>3, MemberLeads
  <2>4. CASE edge.by \in S /\ edge.by # "(manifest)"
    <3>1. edge.by \in Above(edge.name) /\ Leads(edge.by)
        BY <1>1, <2>1, <2>4 DEF Above
    <3> QED
        BY <1>1, <2>1, <3>1, AskedLeads
  <2> QED
      BY <1>2, <2>2, <2>3, <2>4 DEF Roots0
<1>3. Named(graph) \subseteq S
    BY <1>2 DEF ClosedUp, Grounded
<1> QED
    BY <1>1, <1>3 DEF Named

LEMMA LockedHaveEdges ==
    ASSUME Inv, GraphInv, PinsNamed, Wrote("lock")
    PROVE  \A row \in lock.rows : EdgeOf(row, graph)
<1>1. /\ graph = job.edges /\ AreRows(job.base) /\ Keyed(job.resolved)
      /\ \A row \in job.base : EdgeOf(row, graph)
      /\ \A key \in DOMAIN job.resolved : EdgeOf(job.resolved[key], graph)
      /\ lock.rows = Effective
    BY DEF GraphInv, MayTrace, Wrote, Active, Inv, ResolvedKeyed, LockIsOverlay
<1>2. TAKE row \in lock.rows
<1>3. CASE \E member \in Kept(job.base, Resolved, LocalRemoves) : row = Flagged(member)
  <2>1. PICK member \in job.base : row = Flagged(member)
      BY <1>3 DEF Kept
  <2>2. canonicalKeyOf(row) = canonicalKeyOf(member) /\ row.name = member.name
      BY <1>1, <2>1, FlaggedKey, FlaggedAlike DEF AreRows
  <2> QED
      BY <1>1, <2>2 DEF EdgeOf
<1>4. CASE row \in Mine(Resolved, LocalRemoves)
  <2>1. PICK key \in DOMAIN job.resolved : row = job.resolved[key]
      BY <1>4 DEF Mine, Resolved
  <2> QED
      BY <1>1, <2>1
<1> QED
    BY <1>1, <1>2, <1>3, <1>4, OverlayIsUnion DEF Effective

LEMMA WhyAtEnd ==
    ASSUME Inv, GraphInv, PinsNamed, NoBaseName
    PROVE  WhyReachesRoot
<1> SUFFICES ASSUME Wrote("lock"), NEW row \in lock.rows
             PROVE  /\ \E edge \in graph : edge.child = canonicalKeyOf(row)
                    /\ \E chain \in whyChains(row.name) :
                         "(manifest)" \in demandersOf(Last(chain)) \/ Last(chain) = "(base)"
    BY DEF WhyReachesRoot
<1>1. Grounded(graph) /\ IsFiniteSet(Askers)
    BY DEF GraphInv, Wrote, Active, Askers
<1>2. PICK edge \in graph : edge.child = canonicalKeyOf(row) /\ edge.name = row.name
    BY LockedHaveEdges DEF EdgeOf
<1>3. Leads(row.name)
    BY <1>1, <1>2, NamesLead
<1>4. PICK n \in Nat : \E c : IsChain(c, n, row.name) /\ Rooted(c[n + 1])
    BY <1>3 DEF Leads
<1>5. PICK c : IsChain(c, n, row.name) /\ Rooted(c[n + 1])
    BY <1>4
<1> QED
    BY <1>1, <1>2, <1>5, ChainFound

(* anvil why finds a chain to the manifest or to the base pack for every   *)
(* package of a lock just written, through any demands, in a cycle or not, *)
(* (build/graph.ts whyChains; anvil.ts writes the graph after the lock).   *)
(* It takes that what a catalogue knows has its name there in the pins and *)
(* in the base pack, for the edge of a dependency has the name that its    *)
(* source gives, and that no package is called as the base pack's mark.    *)
THEOREM WhyFindsRoot ==
    Spec => [](PinsNamed /\ NoBaseName => WhyReachesRoot)
<1>1. Init => ResolveInv /\ GraphInv
    BY ResolveInvInit, GraphInit
<1>2. (ResolveInv /\ GraphInv) /\ [Next]_vars => (ResolveInv /\ GraphInv)'
    BY ResolveInvNext, GraphNext
<1>3. ResolveInv /\ GraphInv => (PinsNamed /\ NoBaseName => WhyReachesRoot)
    BY WhyAtEnd DEF ResolveInv
<1> QED
    BY <1>1, <1>2, <1>3, PTL DEF Spec
=============================================================================
