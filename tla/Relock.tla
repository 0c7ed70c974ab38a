------------------------------- MODULE Relock -------------------------------
(***************************************************************************)
(* anvil lock and the re-lock of a merge: the manifest's items and what    *)
(* they require become rows of anvil.lock, over the members of the base    *)
(* pack, keeping the pins of the lock before (anvil.ts, resolver/,         *)
(* sources/, base/, game/).                                                *)
(*                                                                         *)
(* One command at a time resolves, ref by ref; the catalogues publish and  *)
(* the manifest is edited under it, and it can be killed anywhere.  Two    *)
(* branches of the instance fork, change and merge.  What a commit holds   *)
(* and the files a checkout writes are WorkTree's; here a commit is its    *)
(* manifest and its lock, and .anvil/base.lock and .anvil/graph.json       *)
(* belong to no branch.                                                    *)
(***************************************************************************)
EXTENDS ItemSets, Catalogues

CONSTANTS
    Menu,           \* the refs a user adds
    GameMenu,       \* the games a user writes: [minecraft, from, remove]
    LockMenu,       \* how a user locks: [upgrade, offline]
    FirstManifests, FirstPublished,     \* the manifests and the catalogues
                    \* before the first lock
    MaxOps          \* bound: edits of the manifest, releases, lost caches,
                    \* requests for identities without an answer

(* All that may be asked of a source: what is written, imported, required. *)
Required == UNION {UNION {ToSet(Releases[p][v].requires) : v \in DOMAIN Releases[p]} : p \in Projects}
Imports == UNION {entriesOf(archive) : archive \in Archives}
Inputs ==
    UNION ({Menu, Required} \cup {ToSet(first.items) : first \in FirstManifests}
           \cup {{entries[i].item : i \in DOMAIN entries} : entries \in Imports})

(* Items, releases and archives are sequences, and an archive is of one of *)
(* the three formats; what was published at first was made, a file with    *)
(* some content; what the policy lets through is in a catalogue; a ref has *)
(* its four fields, a key in the order, and a spec of one of three kinds,  *)
(* of a file or a URL the latest; and no release requires a local file.    *)
IsSequence(s) == s \in Seq(ToSet(s))
ASSUME RelockAssumption ==
    /\ \A ref \in Inputs :
          /\ AllowSource(localizeRef(ref)) =>
                \E p \in Projects : Source[p] = ref.source /\ localizeRef(ref).id \in {p, Id[p]}
          /\ ref.spec.kind \in {"latest", "pin", "range"}
          /\ DOMAIN ref = {"source", "id", "spec", "target"} /\ refKey(ref) \in ToSet(KeyOrder)
          /\ ref.source \notin {"modrinth", "curseforge"} => ref.spec = Latest
    /\ \A ref \in Required : ref.source # "local"
    /\ \A first \in FirstManifests : "items" \in DOMAIN first /\ IsSequence(first.items)
    /\ IsSequence(KeyOrder)
    /\ \A p \in Projects : /\ IsSequence(Releases[p])
                           /\ \A v \in DOMAIN Releases[p] : IsSequence(Releases[p][v].requires)
    /\ \A archive \in Archives : /\ archive.format \in {"mrpack", "cfzip", "prism"}
                                 /\ IsSequence(archive.files) /\ IsSequence(archive.overrides)
    /\ \A first \in FirstPublished :
          /\ Projects \subseteq DOMAIN first
          /\ \A p \in Projects :
                /\ first[p] \in 0..Len(Releases[p])
                /\ Source[p] \notin {"modrinth", "curseforge"} => first[p] # 0

VARIABLES
    manifest,   \* anvil.toml
    lock,       \* anvil.lock
    baseCache,  \* .anvil/base.lock
    graph,      \* .anvil/graph.json
    branches,   \* the fork point and the other branch, as commits
    job,        \* the command that resolves
    ops         \* what was done, for the bound

vars == <<published, manifest, lock, baseCache, graph, branches, job, ops>>

NoLock == [of |-> NoFrom]
NoCache == [from |-> NoFrom]
NoBase == [source |-> "none"]
NoBranches == [forked |-> FALSE]
Idle == [phase |-> "idle"]

Locked == lock # NoLock
Rows(l) == IF l = NoLock THEN {} ELSE l.rows

isUpgradedAll(upgrade, key) == upgrade.all
isUpgraded(upgrade, key) == upgrade.all \/ key \in upgrade.keys
NoUpgrade == [all |-> FALSE, keys |-> {}]

(* A manifest that names no release of the loader keeps the lock's own     *)
(* unless everything is upgraded.                                          *)
priorLoaderVersion(prior, upgrade) ==
    IF prior = NoLock \/ upgrade.all THEN {} ELSE {prior.loader}
wantedLoader(game, prior, upgrade) ==
    IF game.loader # {} THEN game.loader ELSE priorLoaderVersion(prior, upgrade)

Archive(release) == <<release.source, release.id, release.n>>

(* The cached base pack is for the base and the game that are named now.   *)
baseCacheUsable(game, prior, upgrade) ==
    /\ baseCache # NoCache
    /\ baseCache.from = game.from
    /\ ~ upgrade.all /\ refKey(game.from) \notin upgrade.keys
    /\ prior # NoLock /\ prior.base # NoBase => Archive(prior.base) = Archive(baseCache.release)
    /\ PackOf(baseCache.release).game = game.minecraft

-----------------------------------------------------------------------------
(* A command starts: the manifest, the lock and the clock as they are now. *)
Started(kind, over, pins, upgrade, offline, sides) ==
    [phase |-> "base", kind |-> kind, manifest |-> over, clock |-> published,
     prior |-> lock, pins |-> pins, upgrade |-> upgrade, offline |-> offline,
     base |-> {}, release |-> NoBase, queue |-> <<>>, resolved |-> <<>>, alias |-> <<>>,
     demands |-> {}, edges |-> {}, fetched |-> {}, sides |-> sides]

Resting == job.phase \in {"idle", "done"}
MayAct == ops < MaxOps /\ ops' = ops + 1

Lock(upgrade, offline) ==
    /\ Resting
    /\ job' = Started("lock", manifest, Rows(lock), upgrade, offline, NoBranches)
    /\ UNCHANGED <<published, manifest, lock, baseCache, graph, branches, ops>>

(* A command that fails, or that is killed, leaves what it has written.    *)
Stops == job' = Idle
Files == <<published, manifest, lock, graph, branches>>
Same == UNCHANGED <<Files, ops>>

Enqueue(refs, by) == [i \in DOMAIN refs |-> [ref |-> localizeRef(refs[i]), by |-> by]]

RemoveKeys == {refKey(localizeRef(ref)) : ref \in job.manifest.game.remove}

Roots == Only(job.manifest.items,
              {ref \in ToSet(job.manifest.items) : refKey(localizeRef(ref)) \notin RemoveKeys})

(* With the base at hand, its members and the roots are set; a pack of     *)
(* another game stops the command, after it has been cached.               *)
Begin(release) ==
    job' = [job EXCEPT !.phase = "items", !.release = release,
                       !.base = IF release = NoBase THEN {} ELSE Members(release),
                       !.queue = Enqueue(Roots, "(manifest)")]

(* A merge forces no base to be resolved again.                            *)
BaseUpgrade == IF job.kind = "lock" THEN job.upgrade ELSE NoUpgrade

CacheServes == baseCacheUsable(job.manifest.game, job.prior, BaseUpgrade)

(* The pack that #baseResolver comes back with.                            *)
baseResolver(from) ==
    IF CacheServes THEN {baseCache.release} ELSE IF job.offline THEN {} ELSE resolveBase(from)

ResolveBaseLayer ==
    /\ job.phase = "base"
    /\ LET game == job.manifest.game
       IN \/ /\ game.from = NoFrom
             /\ Begin(NoBase)
             /\ UNCHANGED <<baseCache, ops>>
          \/ /\ game.from # NoFrom
             /\ AllowSource(game.from) => baseResolver(game.from) = {}
             /\ Stops /\ UNCHANGED <<baseCache, ops>>
          \/ /\ game.from # NoFrom /\ AllowSource(game.from)
             /\ \E release \in baseResolver(game.from) :
                  /\ IF CacheServes THEN UNCHANGED <<baseCache, ops>>
                     ELSE /\ baseCache' = [from |-> game.from, release |-> release]
                          /\ IF release.answered THEN UNCHANGED ops ELSE MayAct
                  /\ IF PackOf(release).game = game.minecraft THEN Begin(release) ELSE Stops
    /\ UNCHANGED Files

-----------------------------------------------------------------------------
(* The worklist, one ref at a time.                                        *)
Next1 == Head(job.queue)
Key == refKey(Next1.ref)

Popped == [job EXCEPT !.queue = Tail(@),
                      !.demands = @ \cup {[key |-> Key, by |-> Next1.by, spec |-> Next1.ref.spec]}]

Put(f, key, value) == [k \in DOMAIN f \cup {key} |-> IF k = key THEN value ELSE f[k]]

Edge(key, row) == [child |-> key, name |-> row.name, by |-> Next1.by]

PinsOfDependencies(key) ==
    LET pin == IF Next1.by = "(manifest)" THEN {} ELSE PinOf(key, job.pins) \cup PinOf(key, job.base)
    IN  {row \in pin : ~ isUpgraded(job.upgrade, key) /\ specSatisfiedBy(Next1.ref.spec, row)}

(* A row taken from the lock before, or, for a dependency, from the base.  *)
Pins(key) ==
    LET locked == PinOf(key, job.pins)
        based == IF Next1.by = "(manifest)" THEN {} ELSE PinOf(key, job.base)
        pin == IF locked # {} THEN locked ELSE based
    IN  {row \in pin : ~ isUpgraded(job.upgrade, key) /\ specSatisfiedBy(Next1.ref.spec, row)}

AtRef == job.phase = "items" /\ job.queue # <<>> /\ AllowSource(Next1.ref)
Known == Key \in DOMAIN job.alias /\ job.alias[Key] \in DOMAIN job.resolved

RefuseSource ==
    /\ job.phase = "items" /\ job.queue # <<>>
    /\ ~ AllowSource(Next1.ref)
    /\ Stops /\ Same /\ UNCHANGED baseCache

MeetsAny(key) ==
    job' = [Popped EXCEPT !.alias = Put(@, Key, key), !.edges = @ \cup {Edge(key, job.resolved[key])}]

MeetsAgain(key) ==
    LET row == job.resolved[key]
    IN  IF specSatisfiedBy(Next1.ref.spec, row)
        THEN job' = [Popped EXCEPT !.alias = Put(@, Key, key), !.edges = @ \cup {Edge(key, row)},
                                   !.queue = @ \o Enqueue(Releases[row.name][row.hash[2]].requires, row.name)]
        ELSE Stops

(* A ref resolved before meets its row, or the command stops.              *)
Meets(key) ==
    LET row == job.resolved[key]
    IN  IF specSatisfiedBy(Next1.ref.spec, row)
        THEN job' = [Popped EXCEPT !.alias = Put(@, Key, key), !.edges = @ \cup {Edge(key, row)}]
        ELSE Stops

Dedupe ==
    /\ AtRef /\ Known
    /\ Meets(job.alias[Key])
    /\ Same /\ UNCHANGED baseCache

ReusePin ==
    /\ AtRef /\ ~ Known
    /\ \E row \in Pins(Key) :
         job' = [Popped EXCEPT !.resolved = Put(@, Key, row), !.alias = Put(@, Key, Key),
                               !.edges = @ \cup {Edge(Key, row)}]
    /\ Same /\ UNCHANGED baseCache

RefuseOffline ==
    /\ AtRef /\ ~ Known /\ Pins(Key) = {} /\ job.offline
    /\ Stops /\ Same /\ UNCHANGED baseCache

(* The source is asked: nothing fits, or the row is one already resolved   *)
(* under another name, or its pin is kept, or it is new; with it come the  *)
(* dependencies of the release that was asked for.                         *)
Fetch ==
    /\ AtRef /\ ~ Known /\ Pins(Key) = {} /\ ~ job.offline
    /\ LET found == resolve(Next1.ref, job.clock, job.manifest.game.minecraft)
       IN \/ found = {} /\ Stops
          \/ \E result \in found :
               LET row == result.pkg
                   key == canonicalKeyOf(row)
                   kept == Pins(key)
               IN  IF key \in DOMAIN job.resolved THEN Meets(key)
                   ELSE \E chosen \in IF kept # {} THEN kept ELSE {row} :
                          job' = [Popped EXCEPT
                                    !.resolved = Put(@, key, chosen),
                                    !.alias = Put(@, Key, key),
                                    !.edges = @ \cup {Edge(key, row)},
                                    !.fetched = IF kept = {} THEN @ \cup {key} ELSE @,
                                    !.queue = @ \o Enqueue(result.dependencies, row.name)]
    /\ Same /\ UNCHANGED baseCache

-----------------------------------------------------------------------------
(* The end of the worklist: the overlay, the refusals, the game install.   *)
Resolved == {job.resolved[key] : key \in DOMAIN job.resolved}
LocalRemoves == {localizeRef(ref) : ref \in job.manifest.game.remove}

Effective == overlayBase(job.base, Resolved, LocalRemoves)

Unmatched ==
    {ref \in unmatchedRemoves(job.base, Resolved, LocalRemoves) :
       \A item \in ToSet(job.manifest.items) : refKey(localizeRef(item)) # refKey(ref)}

MemberEdgesNone == {}
MemberEdges ==
    {[child |-> canonicalKeyOf(m), name |-> m.name, by |-> "(base)"] : m \in job.base}

NewLock(client, loader, meta) ==
    [of |-> job.manifest, rows |-> Effective, base |-> job.release,
     client |-> client, loader |-> loader, meta |-> meta]

(* #resolveGamePackages: offline, the lock before has the game.            *)
GameInstalls ==
    IF job.offline
    THEN IF job.prior = NoLock THEN {}
         ELSE {[client |-> job.prior.client, loader |-> job.prior.loader]}
    ELSE resolveGameInstall(job.manifest.game.minecraft,
                            wantedLoader(job.manifest.game, job.prior, job.upgrade))

AtEnd == job.phase = "items" /\ job.queue = <<>>
Refused == Unmatched # {} \/ ~ CollisionFree(Effective)

RefuseResult ==
    /\ AtEnd
    /\ \/ Refused
       \/ job.kind = "lock" /\ GameInstalls = {}
    /\ Stops /\ Same /\ UNCHANGED baseCache

WriteLock ==
    /\ AtEnd /\ ~ Refused /\ job.kind = "lock"
    /\ \E game \in GameInstalls :
         lock' = NewLock(game.client, game.loader, job.manifest.game.minecraft)
    /\ job' = [job EXCEPT !.phase = "graph", !.edges = @ \cup MemberEdges]
    /\ UNCHANGED <<published, manifest, baseCache, graph, branches, ops>>

WriteGraph ==
    /\ job.phase = "graph"
    /\ graph' = job.edges
    /\ job' = [job EXCEPT !.phase = "done"]
    /\ UNCHANGED <<published, manifest, lock, baseCache, branches, ops>>

-----------------------------------------------------------------------------
(* anvil import writes the manifest, the lock and the graph of an archive, *)
(* in that order, over what the instance had; here, for the bound's sake,  *)
(* over no lock yet and with no edit or release after it.                  *)
adoptedManifest(archive, entries, loader) ==
    [items |-> [i \in DOMAIN entries |-> entries[i].item],
     game |-> [minecraft |-> archive.game, loader |-> {loader}, from |-> NoFrom, remove |-> {}]]

Import ==
    /\ Resting /\ ~ Locked
    /\ ops < MaxOps /\ ops' = MaxOps
    /\ \E archive \in Archives :
         \E game \in resolveGameInstall(archive.game, archive.loader), entries \in entriesOf(archive) :
           LET adopted == adoptedManifest(archive, entries, game.loader)
               rows == placeable(entries)
           IN  /\ manifest' = adopted
               /\ job' = [phase |-> "import",
                          lock |-> [of |-> adopted, rows |-> rows, base |-> NoBase, meta |-> archive.game,
                                    client |-> game.client, loader |-> game.loader],
                          edges |-> {[child |-> canonicalKeyOf(row), name |-> row.name,
                                      by |-> "(manifest)"] : row \in rows}]
    /\ UNCHANGED <<published, lock, baseCache, graph, branches>>

ImportLock ==
    /\ job.phase = "import"
    /\ lock' = job.lock
    /\ job' = [job EXCEPT !.phase = "adopted"]
    /\ UNCHANGED <<published, manifest, baseCache, graph, branches, ops>>

ImportGraph ==
    /\ job.phase = "adopted"
    /\ graph' = job.edges
    /\ Stops
    /\ UNCHANGED <<published, manifest, lock, baseCache, branches, ops>>

-----------------------------------------------------------------------------
(* Branches.  An operation needs a lock made from the manifest.            *)
Fresh == Locked /\ lock.of = manifest
Commit == [manifest |-> manifest, lock |-> lock]

Fork ==
    /\ Resting /\ Fresh /\ ~ branches.forked
    /\ branches' = [forked |-> TRUE, base |-> Commit, theirs |-> Commit]
    /\ job' = Idle
    /\ UNCHANGED <<published, manifest, lock, baseCache, graph, ops>>

Switch ==
    /\ Resting /\ Fresh /\ branches.forked
    /\ branches' = [branches EXCEPT !.theirs = Commit]
    /\ manifest' = branches.theirs.manifest
    /\ lock' = branches.theirs.lock
    /\ job' = Idle
    /\ UNCHANGED <<published, baseCache, graph, ops>>

itemSetOf(commit) == buildItemSet(commit.manifest, Rows(commit.lock))

Merged(strategy) ==
    threeWayMerge(itemSetOf(branches.base), itemSetOf(Commit), itemSetOf(branches.theirs),
                  [ours |-> Rows(lock), theirs |-> Rows(branches.theirs.lock)], strategy)

(* A side that is still at the fork point is fast-forwarded, not merged.   *)
Merge(strategy) ==
    /\ Resting /\ Fresh /\ branches.forked
    /\ branches.base \notin {Commit, branches.theirs}
    /\ LET merged == Merged(strategy)
       IN  IF merged.clean
           THEN job' = Started("merge", merged.manifest, merged.seedPins,
                               [all |-> FALSE, keys |-> merged.reResolveKeys], FALSE,
                               [ours |-> Commit, theirs |-> branches.theirs, base |-> branches.base])
           ELSE job' = Idle
    /\ UNCHANGED <<published, manifest, lock, baseCache, graph, branches, ops>>

(* The side whose manifest has the merged game gives the game install, and *)
(* ours when none has; a side is looked up by its Minecraft version alone. *)
gameFor(game) ==
    LET sides == <<job.sides.ours, job.sides.theirs, job.sides.base>>
        matching == {i \in DOMAIN sides : BareGame(sides[i].manifest.game) = game}
    IN  IF matching = {} THEN sides[1].lock
        ELSE sides[CHOOSE i \in matching : \A j \in matching : i <= j].lock

(* The items resolved anew, with the game packages of that side.           *)
reLocked ==
    LET side == gameFor(job.manifest.game) IN NewLock(side.client, side.loader, side.meta)

WriteMerge ==
    /\ AtEnd /\ ~ Refused /\ job.kind = "merge"
    /\ manifest' = job.manifest
    /\ lock' = reLocked
    /\ branches' = [branches EXCEPT !.base = branches.theirs]
    /\ job' = [job EXCEPT !.phase = "done"]
    /\ UNCHANGED <<published, baseCache, graph, ops>>

-----------------------------------------------------------------------------
(* Users and publishers.  A resolve reads the manifest once, at its start: *)
(* of the edits only addItem comes under one, for the bound's sake.        *)
Rests == job' = IF Resting THEN Idle ELSE job

addItem(ref) ==
    /\ MayAct
    /\ \A item \in ToSet(manifest.items) : refKey(item) # refKey(ref)
    /\ manifest' = [manifest EXCEPT !.items = Append(@, ref)]
    /\ Rests
    /\ UNCHANGED <<published, lock, baseCache, graph, branches>>

removeItem(ref) ==
    /\ Resting /\ MayAct
    /\ \E item \in ToSet(manifest.items) : refKey(item) = refKey(ref)
    /\ manifest' = [manifest EXCEPT !.items =
                      Only(@, {item \in ToSet(@) : refKey(item) # refKey(ref)})]
    /\ Rests
    /\ UNCHANGED <<published, lock, baseCache, graph, branches>>

EditGame(game) ==
    /\ Resting /\ MayAct
    /\ game # manifest.game
    /\ manifest' = [manifest EXCEPT !.game = game]
    /\ Rests
    /\ UNCHANGED <<published, lock, baseCache, graph, branches>>

(* A command reads a pack or the loader once, so that one published under   *)
(* it might as well be before or after it.                                  *)
Publish(p) ==
    /\ p \in Projects \/ Resting
    /\ MayAct
    /\ published[p] < Len(IF p \in Projects THEN Releases[p]
                          ELSE IF p \in DOMAIN Packs THEN Packs[p] ELSE Loaders)
    /\ published' = [published EXCEPT ![p] = @ + 1]
    /\ Rests
    /\ UNCHANGED <<manifest, lock, baseCache, graph, branches>>

(* A clone or a clean-up: .anvil/base.lock travels with no commit.         *)
LoseCache ==
    /\ MayAct /\ Resting /\ baseCache # NoCache
    /\ baseCache' = NoCache
    /\ job' = Idle
    /\ UNCHANGED <<published, manifest, lock, graph, branches>>

Kill ==
    /\ ~ Resting
    /\ Stops
    /\ Same /\ UNCHANGED baseCache

-----------------------------------------------------------------------------
Init ==
    /\ published \in FirstPublished
    /\ manifest \in FirstManifests
    /\ lock = NoLock
    /\ baseCache = NoCache
    /\ graph = {}
    /\ branches = NoBranches
    /\ job = Idle
    /\ ops = 0

Resolve ==
    \/ ResolveBaseLayer \/ RefuseSource \/ Dedupe \/ ReusePin \/ RefuseOffline \/ Fetch
    \/ RefuseResult \/ WriteLock \/ WriteGraph \/ WriteMerge \/ ImportLock \/ ImportGraph

Next ==
    \/ Resolve
    \/ \E how \in LockMenu : Lock(how.upgrade, how.offline)
    \/ Import
    \/ Fork \/ Switch
    \/ \E strategy \in {"ours", "theirs", "newest", "manual"} : Merge(strategy)
    \/ \E ref \in Menu : addItem(ref) \/ removeItem(ref)
    \/ \E game \in GameMenu : EditGame(game)
    \/ \E p \in DOMAIN published : Publish(p)
    \/ LoseCache
    \/ Kill

Spec == Init /\ [][Next]_vars /\ WF_vars(Resolve)

-----------------------------------------------------------------------------
(* What was promised.  A property of a written lock is about the command   *)
(* that wrote it, which is kept until the next operation.                  *)
Wrote(kind) == job.phase = "done" /\ job.kind = kind
Written == job.phase = "done"

RowFor(key) == {row \in lock.rows : canonicalKeyOf(row) = key}
RemovedKey(key) ==
    \E ref \in LocalRemoves : \E row \in Resolved \cup job.base :
       canonicalKeyOf(row) = key /\ removeMatch(ref, row)

(* The demands on a key, whatever name they used.                          *)
DemandsOn(key) == {d \in job.demands : job.alias[d.key] = key}
TwoNames(key) == Cardinality({d.key : d \in DemandsOn(key)}) > 1

(* A re-lock moves no pin that nobody asked to move: what the manifest     *)
(* still reaches, was not upgraded and still satisfies every demand made   *)
(* on it stays at the row of the lock before, and so does the loader that  *)
(* no manifest names (anvil.ts lock: "untouched items keep their exact     *)
(* pins").                                                                 *)
PinStays(row) ==
    LET key == canonicalKeyOf(row)
    IN  /\ key \in DOMAIN job.resolved
        /\ ~ isUpgraded(job.upgrade, key)
        /\ \A d \in DemandsOn(key) : specSatisfiedBy(d.spec, row)
        => job.resolved[key] = row
LoaderStays ==
    job.upgrade.all \/ job.manifest.game.loader # {} \/ lock.loader = job.prior.loader

Relocked == Wrote("lock") /\ job.prior # NoLock
PinsKept == Relocked => (\A row \in job.pins : PinStays(row)) /\ LoaderStays

(* A resolution is closed.  Conflicts are fail-closed: a locked row meets  *)
(* every demand made on its project, under any name; and whatever a lock   *)
(* takes fresh from a source, it locks what that release requires too,     *)
(* unless game.remove names it.  A project named both by slug and by id is *)
(* left out: there a pin overwrites what was resolved before it            *)
(* (resolver/resolve.ts, the worklist).  And a lock made again of the      *)
(* manifest that an import wrote resolves each file of the import: none    *)
(* "exists only in the lock this import writes and vanishes"               *)
(* (import/pack-common.ts).                                                *)
DemandsMet ==
    \A d \in job.demands :
        LET row == job.resolved[job.alias[d.key]]
        IN  \/ TwoNames(job.alias[d.key])
            \/ specSatisfiedBy(d.spec, row)
            \/ row.source = "curseforge" /\ fileID(row.version) \in d.spec.versions
FetchedIsClosed ==
    \A key \in {k \in job.fetched : ~ TwoNames(k)} :
        LET row == job.resolved[key]
            requires == Releases[row.name][row.hash[2]].requires
        IN  \A i \in DOMAIN requires :
              LET needed == job.alias[refKey(requires[i])]
              IN  RowFor(needed) # {} \/ RemovedKey(needed)
Imported(l) ==
    \E archive \in Archives : \E entries \in entriesOf(archive) :
        l.of = adoptedManifest(archive, entries, l.loader) /\ l.rows = placeable(entries)
ImportStays ==
    Relocked /\ job.prior.of = job.manifest /\ Imported(job.prior) =>
        \A row \in job.pins : canonicalKeyOf(row) \in DOMAIN job.resolved
ResolutionClosed == Written => DemandsMet /\ FetchedIsClosed /\ ImportStays

(* It takes that no CurseForge file is asked for in a range, which its     *)
(* resolver takes for the latest (sources/curseforge.ts), and that what an *)
(* import writes is what a catalogue has under that name.                  *)
ProjectAt(name) == CHOOSE p \in Projects : Source[p] = name[1] /\ name[2] \in {p, Id[p]}
CatalogueKey(name) ==
    <<name[1], IF name[1] = "modrinth" THEN ProjectAt(name) ELSE Id[ProjectAt(name)]>>
NoFileRanges == \A ref \in Inputs : ref.source = "curseforge" => ref.spec.kind # "range"
ImportsNamed ==
    \A entries \in Imports : \A i \in DOMAIN entries :
        LET key == canonicalKeyOf(entries[i].row)
        IN  refKey(localizeRef(entries[i].item)) = key /\ CatalogueKey(key) = key

(* The two layers are reconciled: one row for an identity, one content at  *)
(* a target, nothing the manifest resolved is lost to a base member, every *)
(* base member nobody claims is there, and nothing is left of either layer *)
(* that game.remove names by its identity, a path by its absolute place;   *)
(* what lies there of the base stays, a root or not (base/overlay.ts,      *)
(* resolver/resolve.ts:258).                                               *)
LayersReconciled ==
    Written => Reconciled(job.base, Resolved, LocalRemoves, lock.rows)

(* A merge takes a change only one side made, keeps what neither changed,  *)
(* and invents nothing: every item, with the content a local one was       *)
(* locked at, and the game are a side's own (vc/merge.ts).  Where a game   *)
(* removes an item for a file, whether it is locked is the game's matter.  *)
OneSided(b, o, t, m) ==
    /\ m \in {o, t}
    /\ o = b => m = t
    /\ t = b => m = o
ItemsAt(m, key) == {ref \in ToSet(m.items) : refKey(ref) = key}
SpecsAt(m, key) == {ref.spec : ref \in ItemsAt(m, key)}
FilesAt(commit, key) ==
    {row.hash : row \in UNION {PinOf(refKey(localizeRef(ref)), commit.lock.rows) :
                                 ref \in ItemsAt(commit.manifest, key)}}
SpecsTwoSided(base, ours, theirs, merged) ==
    \A key \in {k \in ToSet(KeyOrder) : k[1] # "local"} :
        OneSided(SpecsAt(base, key), SpecsAt(ours, key), SpecsAt(theirs, key), SpecsAt(merged, key))
FilesTwoSided(base, ours, theirs, merged) ==
    \A key \in {k \in ToSet(KeyOrder) : k[1] = "local"} :
        OneSided(FilesAt(base, key), FilesAt(ours, key), FilesAt(theirs, key), FilesAt(merged, key))
ManifestTwoSided(base, ours, theirs, merged) ==
    /\ SpecsTwoSided(base, ours, theirs, merged)
    /\ OneSided(base.game, ours.game, theirs.game, merged.game)
Locals(m) == {ref \in ToSet(m.items) : ref.source = "local"}
FileKey(ref) == refKey(localizeRef(ref))
FilesStand(m) == \A item \in Locals(m), ref \in m.game.remove : FileKey(item) # FileKey(ref)
MergeTwoSided ==
    Wrote("merge") =>
        LET sides == job.sides
        IN  /\ ManifestTwoSided(sides.base.manifest, sides.ours.manifest, sides.theirs.manifest, manifest)
            /\ (\A m \in {sides.base.manifest, sides.ours.manifest, sides.theirs.manifest, manifest} :
                    FilesStand(m)) =>
                  FilesTwoSided(sides.base, sides.ours, sides.theirs, Commit)

(* It takes that what is written at first or imported has one spec for a   *)
(* name, as what is added has.                                             *)
OneSpec(refs) == \A ref, other \in refs : refKey(ref) = refKey(other) => ref.spec = other.spec
WrittenOnce ==
    /\ \A first \in FirstManifests : OneSpec(ToSet(first.items))
    /\ \A entries \in Imports : OneSpec({entries[i].item : i \in DOMAIN entries})

(* Of the local files it takes that every side has each one locked once,   *)
(* that a file is named in one way, and that the game.remove it takes does *)
(* not name one that is pinned.                                            *)
LockedOnce(commit) ==
    \A ref \in Locals(commit.manifest) :
        \E row \in Rows(commit.lock) : PinOf(FileKey(ref), Rows(commit.lock)) = {row}
OneName(refs) == \A ref, other \in refs : FileKey(ref) = FileKey(other) => refKey(ref) = refKey(other)
FilesKept ==
    /\ LockedOnce(job.sides.base) /\ LockedOnce(job.sides.ours) /\ LockedOnce(job.sides.theirs)
    /\ OneName(Locals(job.manifest))
    /\ \A ref \in LocalRemoves, row \in job.pins : row.source = "local" => ~ removeMatch(ref, row)

Fits(row, game) ==
    row.source \in {"modrinth", "curseforge"} => game \in Releases[row.name][row.version].fits

(* The game cascade: a merge that changed the Minecraft version leaves no  *)
(* package of its own layer locked at a release that does not fit it, and  *)
(* no base pack of another game (vc/merge.ts).                             *)
MergedFitsGame ==
    Wrote("merge") /\ manifest.game.minecraft # job.sides.base.manifest.game.minecraft =>
        /\ \A key \in DOMAIN job.resolved : Fits(job.resolved[key], manifest.game.minecraft)
        /\ lock.base # NoBase => PackOf(lock.base).game = manifest.game.minecraft

(* The worklist ends, whatever requires whatever: a step that enqueues     *)
(* resolves a project that was not resolved before, so two projects that   *)
(* require one another are visited once (resolver/resolve.ts).             *)
WorklistShrinks ==
    [][job.phase = "items" /\ job'.phase = "items" /\ job' # job =>
         \/ Len(job'.queue) < Len(job.queue)
         \/ Cardinality(DOMAIN job'.resolved) > Cardinality(DOMAIN job.resolved)]_vars

-----------------------------------------------------------------------------
(* What the code does not keep.                                            *)

(* "Untouched items keep their exact prior pins" (ARCHITECTURE.md:387): a  *)
(* lock made again of a manifest that did not change, with no upgrade, has *)
(* a row for every row of the lock before.                                 *)
UntouchedKept ==
    /\ Wrote("lock")
    /\ job.prior # NoLock /\ job.prior.of = job.manifest
    /\ job.upgrade = NoUpgrade
    => \A row \in job.prior.rows : RowFor(canonicalKeyOf(row)) # {}

(* A merge carries the Minecraft client of the game it merged to           *)
(* (vc/repo.ts:505-511), when the two sides' clients are their games'.     *)
MergedClientMatches ==
    /\ Wrote("merge")
    /\ \A commit \in {job.sides.ours, job.sides.theirs, job.sides.base} :
         commit.lock.client = commit.manifest.game.minecraft
    => lock.client = manifest.game.minecraft
=============================================================================
