# Lobbify Anvil in TLA+

A verification development of Lobbify Anvil (`src/`), the TypeScript package
manager that builds reproducible Minecraft instances: a manifest is resolved
into a lock, the lock's packages are fetched into a content-addressed store that
all instances of a machine share, the instance directory is built from the
store, and the manifest, the lock and tracked files are versioned, pushed and
pulled like a small git.

The modules model the parts whose correctness rests on the order of file writes,
on locks, on crashes, on the interleaving of processes, or on a long sequence of
legal commands. TLC checks them on small instances; TLAPS proves the main safety
properties for every instance. Paths below are relative to the repository's
`src/` unless they begin with it; `swap.ts` stands for `build/swap.ts` once it
has been introduced.

## 1. Inventory

Anvil is a library with a command line. Nothing runs in the background: every
operation is a process that reads and writes files, and all state that matters
is on disk. Within one process the code is sequential between `await`s; the
concurrency that matters is between processes (two terminals, a launcher and a
terminal, two instances on one store, two peers on one remote).

| component | source | state | operations | correct when | module |
|---|---|---|---|---|---|
| journaled swap | `build/swap.ts` | the instance's targets, their backups, the stage, `swap-journal` | `journaledSwap`, `recoverSwap` | a killed or powered-off build is recovered to the old tree or all of the new one | `JournaledSwap` |
| file lock | `internal/lock.ts` | one lock file with token, pid, mtime | `acquireLock`, heartbeat, `release` | at most one holder; a dead holder's lock is reclaimed | `FileLock` |
| incremental build | `build/incremental.ts`, `pipeline.ts`, `refs.ts`, `anvilignore.ts` | `refs/built`, the tree, `.anvilignore`, asset objects | `diffLocks`, `buildInstance`, `writeBuiltLock`, `verify` | the tree is what the lock describes; protected paths are untouched | `LockDelta`, `InstanceBuild` |
| shared content store | `store/store.ts`, `atomic.ts`, `registry.ts`, `build/acquire.ts`, build and gc of `anvil.ts` | objects, temps, mtimes, `instances.toml`, two locks | admit, register, mark, reconcile, sweep | a collection takes nothing that an instance needs | `SharedStore` |
| placement | `store/linking.ts`, `placement.ts`, `safe-extract.ts` | none of its own | preflight, link, copy, extract | each method puts its package's files at its targets | the delta's in `LockDelta`, asset trees in `InstanceBuild` |
| version control: history | `vc/repo.ts`, `refs.ts`, `rebase.ts`, `graph.ts`, `gc.ts` | commits, refs, HEAD, ORIG_HEAD, MERGE_HEAD, reflogs, rebase state | commit, branch, switch, merge, revert, rebase, gc | no reported commit is lost; nothing dangles; ancestry is right | `VcRefs` |
| version control: working tree | `vc/snapshot.ts`, `worktree.ts`, `repo.ts` | manifest, lock, tracked files, `.anvilexclude`, `refs/built`, HEAD's snapshot | commit, status, switch, fast-forward, merge | a checkout arrives; status and commit tell the truth; nothing unsaved is lost | `WorkTree` |
| lock merge | `vc/itemset.ts`, `merge.ts`, `conflict.ts` | none | three-way merge of items and games, re-lock | a change of one side is kept; the result fits its game | `ItemSets`, `Relock` |
| remote sync | `remote/sync.ts`, `transfer.ts`, `transport.ts`, `git.ts` | a remote's objects, lock, branch; tracking refs | push, pull, clone | local work survives a pull; a reader never sees half a push | `RemoteSync`, `VcRefs` |
| replay cache | `store/replay-cache.ts`, `replay-provenance.ts` | cached bytes and the ledger of the paths they lay at | record, veto | replayed bytes never enter the version control, hence never a push | `RemoteSync` |
| base packs | `base/overlay.ts`, `cache.ts`, `mrpack-base.ts`, `cf-base.ts` | `.anvil/base.lock` | resolve the pack, overlay the instance on it | two layers, one row per identity and per target, nothing lost | `Overlay`, `Catalogues`, `Relock` |
| resolver | `resolver/resolve.ts`, `identity.ts`, `build/graph.ts` | a worklist and pins; `graph.json` | `resolveManifest`, `lock`, `why` | a pin stays; every demand is met or refused; it ends | `Relock`, `Why` |
| sources | `sources/modrinth.ts`, `curseforge.ts`, `url.ts`, `local.ts` | none | choose a release | it fits the spec, the game and the frozen clock | `Catalogues` |
| game installer | `game/*` | none | client and loader of a lock | a pinned or prior loader is kept or refused | `Catalogues`, `Relock` |
| lock and manifest files | `lock/*`, `manifest/*` | `anvil.lock`, `anvil.toml` | parse, serialise, add, remove | round trip | keys and `ReadBack` only |
| import, export | `import/*`, `export/*` | none | an archive to a manifest and a lock, and back | the next lock has what the import had | imports in `Catalogues` |
| HTTP client | `sources/http.ts`, `ssrf.ts` | counters of a command | retries, rate limits | | not modelled |
| base pack diff, progress events, command line, terminal UI | `base/diff.ts`, `events.ts`, `cli/*`, `tui/*` | none that outlives a command | presentation | | not modelled |

**How they interact.** `Anvil.lock` reads the manifest and the lock before,
resolves the base pack (or takes it from `.anvil/base.lock`), works through the
refs, overlays the two layers, asks for the game install and writes `anvil.lock`
and then `graph.json`; it takes no lock. `Anvil.build` takes the instance's file
lock, runs `recoverSwap`, plans the delta of `refs/built` and `anvil.lock`, has
the acquirer ensure every object (found in the store, or fetched to a temp and
renamed in), stages, calls `journaledSwap`, writes `refs/built`, lets go of the
instance lock, and only then takes the store lock to register the instance in
`instances.toml`. `Anvil.gc` takes the store lock, then its own instance's lock,
and holds both to the end: it marks its own history and `refs/built`, every
other registered instance's `refs/built` without their locks, reconciles the
registry and sweeps. The operations of version control run under the instance
lock and write manifest, lock and tracked files with HEAD last; a merge
re-locks the merged items before it writes. A pull runs the build in the same
process, under the same lock. Peers only meet on a remote.

**What is hard.** A process that dies between any two file-system calls, and a
power loss that keeps any subset of the renames that were not fsynced; a
recovery that is itself interrupted; a lock file that is replaced between the
check of its record and the rename that steals it; a collection in one process
against a build in another that has found an object and not yet recorded it; two
locks taken in an order that could deadlock; a rebase that lives across
processes, paused, continued, skipped and aborted, with other operations and
crashes between; commands that take no lock between the writes of one that
does; a served tree read while it is written; bytes that must not be shared and
outlive the row that named them; a lock made from a lock made from a lock, so
that what it holds depends on the whole history of commands. `PROJECT.json`
lists each hazard at its line with the properties aimed at it, or the reason why
none is.

## 2. Modules

| module | stands for | depends on |
|---|---|---|
| `JournaledSwap` | `build/swap.ts` | instantiates `AtomicSwap` |
| `AtomicSwap` | what `journaledSwap` promises: one indivisible update | |
| `FileLock` | `internal/lock.ts` | |
| `LockDelta` | `build/incremental.ts`, the swap's effect, the text of a placement | |
| `InstanceBuild` | `build/pipeline.ts`, `refs.ts`, `anvilignore.ts`, the copies of `store/placement.ts`, `verify` | extends `LockDelta` |
| `SharedStore` | `store/store.ts`, `atomic.ts`, `registry.ts`, the acquirers, `build` and `gc` of `anvil.ts` | |
| `VcRefs` | `vc/repo.ts`, `refs.ts`, `rebase.ts`, `graph.ts`, `gc.ts`, the refs of pull and push | |
| `WorkTree` | `vc/snapshot.ts`, `worktree.ts`, the file writes of `vc/repo.ts` | |
| `RemoteSync` | `remote/sync.ts`, `transfer.ts`, `transport.ts`, `git.ts`, `store/replay-*.ts` | |
| `Overlay` | `base/overlay.ts`, `build/collision.ts`, the identity keys | |
| `Catalogues` | the sources, base packs, loaders and imports: what the outside world answers | extends `Overlay` |
| `ItemSets` | `vc/itemset.ts`, `vc/merge.ts` | extends `Overlay` |
| `Relock` | `resolver/resolve.ts`, `lock` and `import` of `anvil.ts`, the re-lock of a merge | extends `ItemSets`, `Catalogues` |
| `Why` | `build/graph.ts` | extends `Relock` |
| `MC*` | values of the constants, symmetry sets, one more initial state for `VcRefs` | the module of the same name |
| `*Proofs` | theorems: one module each for swap, lock, build (with `LockDelta`), store, history, working tree, remote, and re-lock (with `Overlay`) | the module of the same name, TLAPS |

The layers rest on one another's promises, and each promise is checked below:
`InstanceBuild` and `SharedStore` take the swap for atomic (`JournaledSwap`
implements `AtomicSwap`), `SharedStore`, `VcRefs` and `WorkTree` take the locks
for exclusive (`FileLock`, with the exceptions section 6 names), `RemoteSync`
takes a checkout, a build and the local half of a pull for one step each
(`WorkTree`, `InstanceBuild`, `VcRefs` cut them up), and `WorkTree` takes "a
lock of this manifest" for one value (`Relock` makes it).

Several modules keep a history variable that says when an assumption of the code
first fails, so that one run shows both what holds until then and that the
failure is reachable: `upset` (FileLock), `parted` and `cut` (InstanceBuild),
`skipped` and `bereft` (SharedStore), `raced` (WorkTree), `wiped`, `moved`,
`refilled` and `uneven` (RemoteSync). They model no state of the program.

### JournaledSwap

State: for each target what is in the instance, in the backup and in the stage
(`disk`), the journal, and for both of them what a power loss may reveal
(`seen`, `journalSeen`): renames and appends that no fsync has covered are in
the set or not, at the disk's whim. Each file-system call of `journaledSwap`
is an action in the code's order: open and write the begin record, fsync,
rename the old target aside, rename the new one in, remove, fsync the
directories, append the commit line, fsync, drop backups, drop the journal. The
recovery is `RecoverClean`, `RecoverForward` and `RecoverBack` with its
per-target undo. `Kill` and `PowerLoss` may happen between any two calls, the
recovery's included. A call that throws leaves the journal and is a `Kill`: the
code handles neither differently.

Abstractions: no target lies inside another, which holds of the targets that the
resolver and the game installer make (files under `mods/` and the like, a
directory of natives, the asset and runtime trees) and which nothing in
`swap.ts` checks; a rename is atomic; a directory that a target is, is one
content. `Unsynced` names what the code never fsyncs: `"data"` (staged bytes)
and `"rollback"` (the renames of a recovery).

`AtomicSwap` is the abstract specification: the tree changes in one step to the
one asked for. The refinement mapping is `Tree`, what the recovery *would* leave
if it ran now, so a half-done swap maps to the old tree until the commit line
counts.

### FileLock

State: the file at the lock's path (creator, record written or not, aged past
`staleMs` or not), where each process is, what a releasing process has renamed
aside. One action per call: exclusive create, write of the record, read, probe
of the pid, stat, rename that steals, poll, give up; heartbeat; release as
rename aside, read, discard or put back. `PidIsDead` is exact on the process's
own host and arbitrary for another host. `Trouble` switches on `"crash"`,
`"hang"` (a heartbeat pauses past `staleMs`) and `"overtake"` (a file replaced
between check and rename). `upset` turns true when a live holder's file ages or
a check is overtaken: `ExcludesUntilUpset` is exclusion up to that point.

### LockDelta and InstanceBuild

`LockDelta` has no state: a lock is a set of packages (name, hash, method,
targets, order of its keys), and `install`, `removeTargets`, `dirtyDirs` and
`unchanged` are `diffLocks`. `Swapped` is what the swap of the delta leaves.
`InstanceBuild` is a build in steps: plan, copy asset objects, verify the stage
and swap, record, for any lock of the given set, with a failure before the swap,
a kill after it (`"killed"`) or in a copy (`"torn"`), and edits of
`.anvilignore` (`"ignore"`). The objects that an asset index names are copied
straight into the instance, outside the swap, and are skipped when something is
at their path; the index itself is staged last. `.anvilignore` may protect a
target, a file or the assets directory itself, and what it protects is asked for
when the delta is staged but not when an object is copied: `ProtectedKept` says
that nothing protected is written or removed but objects that were absent. An
assets directory outside the instance (`[paths].assets`) is not modelled.
`verify` is what `anvil verify`
would report of the tree. `ReadBack` models the one conversion a property
depends on: `refs/built` lists the keys of a placement in another order than the
parsed `anvil.lock`, and `unchanged` compares text.

### SharedStore

State: objects, which of them are young (within the grace window), temps,
`refs/built`, what each instance's history pins, the registry, the two kinds of
lock, and one builder and one collector per instance. A build is: take the
instance lock, find or fetch each object (or, with an acquirer that only looks,
fail), stage and swap, record, unlock, take the store lock, read the registry,
write it. What a build ensures are the pinned objects and then the leaves that a
tree's manifest in the store names. A collection is: take the store lock, take
the own instance's lock, mark the own history, mark or prune each other
instance, reconcile the registry, sweep object by object, let go of both; it may
end anywhere (`StopGc`: it died, or a read failed). `waitsFor` is who waits for
whose lock: a registration for the store lock, a collection that has the store
lock for its instance's. A leaf is rooted by the manifest the collection can read. Commits, deletions of
instances and the ageing of objects happen at any time. `Trouble`: `"busy"` (a
build dies or times out before it has registered), `"sync"` (a clone or a pull
runs the build, which then does not register).

### VcRefs

State: the commits ever made (their generation, their set of ancestors `past`,
their first-parent `line`, and which commit they replay), which of them are
stored, HEAD, refs, ORIG_HEAD, MERGE_HEAD, the reflogs, the rebase state, the
remote's branch. An operation holds the instance lock, so all it reads is fixed
when it starts: it is the list of writes it has still to make (`pending`), one
`Write` per file in the order of the code, and `Crash` forgets the rest. A rebase
is the loop of `#runRebase` and comes back after a pause or a crash. A pull
imports its objects one per step (`ImportObject`), the tip first, as `transfer.ts`
does; a crash leaves those that came. `Gc` may die half way. `REBASE_STATE` is a
record of `RebaseState`: branch, onto, where the branch was, the commits left and
done.

Abstractions: a merge, a fast-forward and a rebase take a named ref (`resolveRef`
also takes tags, and raw ids of any stored commit; here only a switch takes a
commit that is no ref, `SwitchToCommit`, with `"orphan"` also one that nothing
leads to); the working tree and the item sets are left out, so a merge
or a replay is free to conflict or not; the reflogs are one set, since no operation
that is reachable deletes a ref (`packRefs` and `deleteRef` have no caller); what
a peer pushes is any commit on, or in place of, the remote's branch; a peer
pushes only while no local operation is under way, since a pull or a push looks
at the remote's branch once.

### WorkTree

State: what each file holds (`disk`: manifest, lock, tracked paths,
`.anvilexclude`), the version built last, each branch's snapshot, which branches
have commits of their own, HEAD, and the operation that holds the instance lock
with the writes it has still to make. A snapshot is what `buildSnapshot`
records: manifest, lock, the bytes of the lock's local items (*carried*) and the
walked files that no rule excludes (*tracked*). A commit parses in one step and
records in the next; switch, fast-forward and merge put their writes in `todo`
as `materializeSnapshot` orders them and move HEAD after the last; `write`
makes one, `stop` is a death, a failed write or a refusal at any point.
`addItems`, `lockReads` and `lockWrites` take no lock, as in the code, and come
between any two writes; `raced` remembers it. `spoil` is a manifest or a lock
that the user removes or breaks; a slot without a file that parses holds `None`,
and every command that parses it refuses. A switch has two arms:
`switchCompared`, when a snapshot of the tree can be made and is HEAD's or the
target's, and `switchBlind`, when none can be made; then the code compares
nothing and goes on. `seen` remembers what was compared, and `NothingUnsavedLost`
asks of a file that was not only that one of the two commits lists it.

A merged snapshot may list one path both as carried and as tracked:
`mergeTrackedSets` is asked for the tracked files only (`repo.ts:755`), and
`materializeSnapshot` writes the carried files first and the tracked over them.
`Holds` says that a snapshot has some bytes for a path in either capacity, which
is what `NothingUnsavedLost` asks.

Abstractions: a lock is the version of the manifest it was made from; a blob is
its content; revert and the steps of a rebase, which write through the same two
operators, and the third slot (`.anvilignore`) are left out; files are written
whole.

### RemoteSync

State: per instance its tree, lock, last build, tip, stashes, stored objects,
replay cache, whether `.anvilexclude` protects paths, and the ledger of paths
that replay rows have claimed; the remote's objects, published lock and branch;
what each instance is transferring. A served tree is written `objects`, `lock`,
`branch` and read `lock` and objects, then `branch`, one file per step, by
whoever comes; a git remote is fetched whole and refuses a push that does not
follow. `verdict` is the rule that keeps CurseForge bytes home: a byte is
replay if the cache holds it, or, when there is no cache to ask, if its path is
in the ledger. `commitOf`, `assertPushableHistory`, `importHistory` (which
refuses blobs that a pin of the history names), `validateRemoteLock`,
`stashLocal` and `materializeSnapshot` are the operators of a push, a pull and a
clone. `objects` is two sets, commits and blobs. The two instruments of the rule
fail together in two ways, and `Blind` names both: the cache was deleted
(`wiped`), and since then a jar was renamed away from its claimed path
(`moved`), or a build has filled the cache again without a jar that it kept
(`refilled`). `Setups` lists the remotes a run considers: served or git, with or
without a history from before the rule, with or without a lock that only makes
sense where it was made.

Abstractions: a commit is the value of what it records, its ancestors included,
which is what content addressing makes of it; stash branches have no names;
descriptors, rooms and the remotes' configuration are left out.

### Overlay, Catalogues, ItemSets, Relock and Why

A row of a lock is a record of identity, version, content and target. `Overlay`
is the algebra of the two layers: `overlayBase` with its three phases (removes,
precedence, union), the keys two rows share, and `CollisionFree`. `Catalogues`
holds what the outside world answers as functions of what it has published
(`published`, the only variable; it grows while commands run) and of the clock a
command has frozen: a release per source, the members of a base pack (the
network may fail on the identities of a pack's files, in which case the members
are named by their mirrors), the loader, and what each import format makes of an
archive. `ItemSets` is the three-way merge of items and of the game section.

`Relock` is the command: `Lock`, a re-lock of a `Merge`, or an `Import`. `job`
holds all it has read and made; `ResolveBaseLayer` uses or rewrites the cache of
the base; then one ref of the worklist per step: `Dedupe`, `ReusePin` or `Fetch`
in the order of the code, or a refusal; at the end `RefuseResult`, `WriteLock`
and `WriteGraph`, or `WriteMerge`. `Fork` and `Switch` exchange the manifest and
the lock with another branch and leave the base cache and the graph, which no
commit carries. `EditGame`, `removeItem`, `addItem`, `Publish`, `LoseCache` are
users and publishers; `Kill` ends a command anywhere and stands for any request
that fails. `Why` is what `anvil why` finds in the graph that a lock has left:
`trace` goes up from an item, a demand at a time and no package twice, so that it
ends after as many steps as there are askers (`Askers`); the cap of 64 reported
chains is left out.

Abstractions: a version spec is the set of versions it admits; a release is its
number; the manifest's `game` is minecraft, loader release, base and removes
(the loader's name is constant); a merge writes its manifest and its lock in one
step (`WorkTree` cuts the writes up); CurseForge range specs and `url` items with
a version are not among the inputs; archives are not opened. The code filters
lists in six places; each is `Only(seq, keep)`, which is `SelectSeq` as a
recursive function, so that the proofs can unfold it. `RelockAssumption` says what
the inputs of a resolve are: sequences; refs of four fields, whose key is in the
order, with specs of three kinds, of a file or a URL the latest
(`manifest/ref.ts`); what the policy lets through is in some catalogue; a local
file or a URL was there when it was first asked for; no release requires a local
file.

## 3. Runs

`CHECK_DEADLOCK FALSE` appears where the system may really stop: every process
has crashed (lock), every instance is deleted (store), or the bound on
operations is used up (version control, working tree, remote).

| run | instance | shows |
|---|---|---|
| `swap` | 2 targets, 2 contents | `Recoverable`: whatever a power loss keeps is recoverable to the old tree or all of the new one. `SwapIsAtomic`: the swap, any number of kills and recoveries implement `AtomicSwap`. `ReconciledOnStart`: however a build was stopped, a later one gets through `recoverSwap` and finds the tree that was owed at every target. |
| `lock` | 3 processes, all troubles | `ExcludesUntilUpset`. `AbandonedReclaimed`: a lock file with a record that nobody holds goes away. |
| `build` | mods that move and displace each other, natives jars in one directory, an index in two versions; all troubles | `BuiltDescribesTree`, `MatchesUntilParted`: the delta leaves what a full build would. `LiveIndexWhole`: no index without its objects. `BuildsVerify`. `ProtectedKept`. |
| `store` | 2 instances, an index and its leaf, all troubles | `BuilderRegistered`, `SettledKept`, `OwnHistoryKept`. `WaitsEnd`: no chain of waits for the two locks is longer than two, so none is a circle. |
| `store_in_flight` | 2 instances, 2 objects | violates `BuiltKept` (section 6). |
| `vc_history` | 2 branches, 1 stash, 1 remote, 7 commits, 4 operations | `NothingMissing`, `ReportedKept`, `RebaseOwnsBranch`, `ReplayOrder`, `AncestryByGen`, `BranchKeepsWork`. |
| `vc_pull` | as `vc_history`, pulls during a rebase | violates `RebaseOwnsBranch` (section 6). |
| `worktree` | 2 branches, a configuration file, a local mod, `.anvilexclude`, 4 changes | `CleanMeansHead`, `CommittedFresh`, `Arrives`, `MergeKeepsEdits`, `NothingUnsavedLost`, `IgnoredKept`. |
| `remote` | an author with a key and a joiner without, 2 paths, 3 changes, 3 kinds of remote | `ReplayStaysHome`, `HistoryComplete`, `VettedIsInstalled`, `PushedInReach`, `OwnFilesRecorded`. |
| `relock` | 6 projects, 2 packs, 2 loader releases, 3 archives, 2 operations | `PinsKept`, `ResolutionClosed`, `LayersReconciled`, `MergeTwoSided`, `MergedFitsGame`, `WhyReachesRoot`, `WorklistShrinks`. |
| `relock_drops` | as `relock` | violates `UntouchedKept` (section 6). |
| `merge_wrong_game` | as `relock` | violates `MergedClientMatches` (section 6). |

**Why the bounds are enough.** *Swap*: each target goes through the swap on its
own and the targets only meet in the journal, so two show every mixture (one
done, one not), and two contents tell a new install from an old one. *Lock*: the
races need a holder, a contender that has checked, and a third that creates the
file in between. *Build* (1.6 million states): the rules of the delta relate at
most two packages and one directory or path that both touch; the set of locks
has all of their combinations; the two versions of the index share one object
and the second has one of its own. *Store* (215 thousand): a collection's roots
are a union over instances; one index with one leaf shows both kinds of root,
and an instance may pin it or nothing; only one instance commits, since the
other's history is nobody's root but its own. *History* (731 thousand): the started
operations (`MaxStarted`) and the commits (`MaxCommits`) are counted in the
guards `Begin` and `Room`; a rebase with its pauses, a second operation, a crash
and a collection between them fit into four, and because the run also starts
from diverged branches (a state that four commits and a switch lead to,
`Diverged` in `MCVcRefs`), a rebase of two commits and a merge are reached within
the bound. *Working tree* (3.3 million): `MaxChanges` counts edits, spoilt slots,
`addItems`, `lock` and `commit`, not builds, switches and merges; four make a change on
each branch and commit both. *Remote* (2.1 million): `MaxChanges` counts edits,
moves, locks and commits, not transfers; three make a lock, a move and a commit
between any number of pushes and pulls; an old history and rows that the others
must refuse each come with one kind of remote; two versions of the manifest, whose
replay rows are at different paths, let a relock leave a jar of the version before. *Relock* (820 thousand):
`MaxOps` counts edits, releases, losses of the cache and failed identity
requests, not locks, merges and switches; two make one change on each branch,
or an edit and a release. Of the edits only `addItem`, and of the releases only
a project's, come under a running resolve (a resolve reads the manifest, the
pack and the loader once, so that another edit might as well be before or after
it). An import is the last operation of a behaviour and over no lock; what
follows it are locks of every kind.

That the interesting cases happen is part of the check: every action of every
module fires in a passing run, and each property has a mutant of a modelled
definition that TLC finds it violated by.

**Fairness.** `JournaledSwap!FairSpec`: weak fairness of the steps of a
recovery, its begin included, and of the clean-up after a commit: an instance
whose build was interrupted is built again some day, and the process that runs
`recoverSwap` goes on. Nothing is assumed of a swap; the property itself
supposes that kills and power losses come to an end (`LetRun`). `FileLock!
FairSpec`: weak fairness of each process's start, acquisition and release (a
process that is scheduled goes on; a dead one has no step) and of time (`Age`);
no fairness of polls that time out. `Relock!Spec`: weak fairness of a command's next
step; nothing is assumed of users, publishers or kills. Safety is checked
without fairness.

## 4. Proofs

| theorem | for every | under |
|---|---|---|
| `JournaledSwapProofs!TypeCorrect` | set of targets and contents, whatever is unsynced | `SwapAssumption` |
| `JournaledSwapProofs!RecoverableAlways` | set of targets and contents | `Unsynced = {}` |
| `JournaledSwapProofs!SwapRefinesAtomic` | set of targets and contents | `Unsynced = {}` |
| `FileLockProofs!LockTypeCorrect` | set of processes and hosts, any trouble | `LockAssumption` |
| `FileLockProofs!LockExcludes` | number of processes, any trouble, until `upset` | one host |
| `InstanceBuildProofs!DeltaDelivers` | pair of well-formed locks | |
| `InstanceBuildProofs!BuildRecorded` (`BuiltDescribesTree`) | set of well-formed locks, any trouble, until `parted` | `BuildAssumption` |
| `InstanceBuildProofs!BuildDelivers` (`MatchesUntilParted`) | as above | `BuildAssumption` |
| `InstanceBuildProofs!IgnoredUntouched` (`ProtectedKept`) | set of locks, any trouble | `BuildAssumption` |
| `InstanceBuildProofs!IndexesComplete` | set of locks and indexes, any trouble, until `cut` | |
| `InstanceBuildProofs!VerifyFindsNothing` | set of locks and indexes, any trouble, until `parted` or `cut` | |
| `SharedStoreProofs!BuildersRegistered` | set of instances, objects and trees, any trouble | `StoreAssumption` |
| `SharedStoreProofs!SettledAlways` | set of instances, objects and trees, any trouble | `StoreAssumption` |
| `SharedStoreProofs!OwnHistoryAlways` | set of instances, objects and trees, any trouble | `StoreAssumption` |
| `SharedStoreProofs!NobodyDeadlocks` (`WaitsEnd`) | set of instances and actors, any trouble | `StoreAssumption` |
| `VcRefsProofs!AncestorsFound` (`AncestryByGen`) | number of branches, commits and operations, any trouble | `VcAssumption` |
| `VcRefsProofs!HistoryStored` (`NothingMissing`) | as above | no `"orphan"` |
| `VcRefsProofs!ReplaysInOrder` (`ReplayOrder`) | as above | `VcAssumption` |
| `VcRefsProofs!RebaseOwns` (`RebaseOwnsBranch`) | as above | no `"pull"` |
| `VcRefsProofs!BranchesKeepWork` (`BranchKeepsWork`) | as above | no `"static"` |
| `VcRefsProofs!ReportedStays` (`ReportedKept`) | as above | no `"orphan"`, no `"static"` |
| `WorkTreeProofs!CleanIsHead` (`CleanMeansHead`) | set of files, rules, versions, branches, `MaxChanges` | `TreeAssumption` |
| `WorkTreeProofs!CommitsFresh` (`CommittedFresh`) | as above, until `raced` | `TreeAssumption` |
| `WorkTreeProofs!CheckoutsArrive` (`Arrives`) | as above, until `raced` | `TreeAssumption` |
| `WorkTreeProofs!MergesKeepEdits` (`MergeKeepsEdits`) | as above, until `raced` | `TreeAssumption` |
| `WorkTreeProofs!SwitchesLoseNothing` (`NothingUnsavedLost`) | as above, until `raced` | `TreeAssumption` |
| `WorkTreeProofs!IgnoredStays` (`IgnoredKept`) | as above | `TreeAssumption` |
| `RemoteSyncProofs!ReplayBytesStayHome` (`ReplayStaysHome`) | set of peers, keys, paths, rows and remotes, `MaxChanges`, until `Blind` | `RemoteAssumption` |
| `RemoteSyncProofs!NothingServedTooEarly` (`HistoryComplete`) | as above, blind or not | `RemoteAssumption` |
| `RemoteSyncProofs!VettedLocksAreInstalled` (`VettedIsInstalled`) | as above, until `uneven` | `RemoteAssumption` |
| `RemoteSyncProofs!PushedStaysInReach` (`PushedInReach`) | as above | `RemoteAssumption` |
| `RemoteSyncProofs!OwnFilesAreRecorded` (`OwnFilesRecorded`) | as above | `RemoteAssumption` |
| `RelockProofs!OverlayReconciles` | base, instance and removes | each layer has one row per identity and one content per target |
| `RelockProofs!CollisionFreeKept` | base, instance and removes | as above |
| `RelockProofs!LocksReconciled` | catalogues, manifests, menus, policy, `MaxOps` | the base pack has one row per identity |
| `RelockProofs!LocksKeepPins` | catalogues, manifests, menus, policy, `MaxOps` | the lock before has one row per identity |
| `RelockProofs!WorklistsEnd` (`WorklistShrinks`) | as above | `RelockAssumption` |
| `RelockProofs!ResolutionsClose` (`ResolutionClosed`) | as above | `NoFileRanges`, `ImportsNamed` |
| `RelockProofs!MergesAreTwoSided` (`ManifestTwoSided`) | as above, any two sides, any strategy | `WrittenOnce` |
| `RelockProofs!MergesTwoSided` (`MergeTwoSided`) | as above | `WrittenOnce`, `FilesKept` |
| `RelockProofs!WhyFindsRoot` (`WhyReachesRoot`) | as above, demands in cycles or not | a pin reached under another name has its catalogue's name (`PinsNamed`), no package is called "(base)" (`NoBaseName`) |
| `RelockProofs!MergesFitTheGame` (`MergedFitsGame`) | as above, any two sides, any strategy | each member of the base pack fits its game (`MembersFit`) |

*Swap.* `Recoverable` and the refinement speak of what a recovery would do from
any crash image, so neither is inductive: a step of a half-done swap keeps them
only because the images it may leave are known. `IInv` says, per point of the
program, which entries each target may have on disk and in a crash image:
`Current` (the present state is among the images), `Phase` (the journal's state
fits the program counter), `Journals`, `BackedUp` (a target that is out of the
instance has its old content in the backup), `Untouched`, `Pending`, `Loops`,
`Done` and `Safe` (every image, read with every journal that may survive,
yields the old tree, or the new one once the commit line may be there). There is
one lemma per action; `EntryStep` is the argument shared by those that touch one
target. The refinement then follows step by step: all actions leave `Tree`
alone but the one that commits (`SyncCommit`, or the kill or loss that decides
an appended commit line) and the staging that sets the request.

*Lock.* `LockInv` adds to exclusion that a holder's file is at the path under
its name, that a contender whose check still counts has checked that file, and
that the verdict "dead" was reached of a process that is dead. Until something
upsets it a live holder's file does not age, and a check is of the file that is
stolen.

*Build.* `DeltaDelivers` is the algebra of the delta: a target outside the
installs and removals already has what the new lock wants (`LeftIsCurrent`),
a directory that several jars share is restaged whole once one of them is
dirty (`DirtyDirRestaged`), and a clean one was touched by nobody
(`CleanDirUntouched`). `BuildDelivers` is the invariant of the build on top of
it, `BuildInv`: `refs/built` describes the tree, so the hypothesis of
`DeltaDelivers` holds at every plan. `AssetInv` says that what the tree names has
its objects whole, and during a build that what has been copied is whole; the
two together give `VerifyFindsNothing`.

*Store.* That a collection takes nothing of a settled instance depends on what
was true when it marked, many steps before it sweeps, so the invariant follows
it. `Locks` says that who holds which lock is told by where it is; `Views`, that
a registry read under the store lock is still what it was, and that an instance
the collection has dropped from it no longer exists; `InRegistry`, that a
build which is not about to register has registered; `InStore`, that what
`refs/built` names, or a staged build is about to write there, is in the store;
`Marked` and `OwnMarked`, that the instances the collection is done with, and
once it sweeps all registered ones, have their objects and leaves among the
roots, and so has the own history. The sweep then follows at once. The variables
`skipped` and `bereft` name the builds the code gives up on (a registration
that failed, an object swept while its build was in flight). `NobodyDeadlocks`
needs `Locks` and that an instance's lock is only ever held by its own builder or
collector (`OwnLocks`): a build that waits for the store lock has let go of its
instance's, so nobody waits for it, and whoever waits for a build is a collection.

*History.* The core is `Inv`: what is stored of a good commit is stored with its
whole past (`Sound` orders the commits: ancestors are older, closed, and smaller
in generation, which is `AncestryByGen`), every seed of a collection is good
(`Seeds \subseteq Good`), and a list of writes never makes a ref name a commit
before the writes that bring it (`InOrder`, with what the earlier writes have
`Brought`). Each operation is one lemma that gives its list of writes these
properties, and one lemma for `Write` then serves all of them. Four smaller
invariants lie on top. `ReplayInv`: what a rebase has left and done lies in its
branch, in its order, once each, for the state on disk and for the one about to
be written. `OwnInv`: no write that is left takes HEAD or the branch from the
rebase. `KeepInv`: a write that moves a branch is of the rebase's own branch,
goes to a descendant, or comes after the stash and the log entry that keep the
old tip. `LogInv`: each reported commit is in the past of an *anchor* (a log
entry, a branch that no rebase is about to move, or the place where the rebase
found its branch), and what is about to be reported is logged by then; since the
anchors are seeds, `ReportedKept` follows. The hypotheses are the three holes
of section 6: a switch to a commit that nothing leads to (`"orphan"`), a pull
without history onto a detached HEAD (`"static"`) and a pull during a rebase
(`"pull"`).

*Working tree.* What a checkout leaves is known only when its last write is made,
so the invariant speaks of the writes that are left: they lead to the commit,
in any order within each set (`Heading`); they put into a compared file what one
of the two commits has, and touch no file that neither lists
(`Saving`), and remove nothing that the rules spare (`Staying`). `LeadsKept` and `AmongKept` are the argument for one write, shared
by switch, fast-forward and merge; an operation's lemma only has to show that the
writes it begins with are so. `Fresh` follows a commit under way, between its
parse and its record. `Joining` says that a merge begun on a clean tree still has
ours on disk when it asks `mergeTrackedSets`. `CleanMeansHead` and `IgnoredKept`
hold even while commands without a lock race. Until this proof was tried
`NothingUnsavedLost` asked for the one content that a commit has for a file,
which a merged snapshot with a path both carried and tracked (section 2) refutes:
TLC finds the run of seven changes that gets there.

*Remote.* Three invariants, each over the operations as well as the instances,
since a publish is three writes and a fetch three reads with anything between.
`WholeInv`: whatever stage a publish is in, what it will serve as branch is among
what it has written or has still to write before it, so the branch never comes
first; nothing ever leaves a remote's objects. `EvenInv`: the lock that a publish
or a fetch carries is the lock of its branch, and on a served tree a publish is
alone. `HomeInv`: no replay bytes among an instance's objects (`InstHome`), in a
transfer (`OpHome`) or new on the remote (`RemoteHome`), because every replay
byte in a tree is in the cache or at a path of the ledger (`FilesOK`), and a
history's replay entries are pinned by its own locks, so that an import refuses
them (`Pinned`). `ReachInv`, for `PushedInReach`: the commits of the remote, and those
that a publish still brings, are in the history of a tip or a stash, except what
the remote had from the start; `ReachGrows` says that no step takes a commit out
of an instance's reach, since a tip that a pull leaves is stashed or is an
ancestor of the new one. The proof of `ReplayStaysHome` did not go through with the `Blind` that stood here
before: a build that fills a deleted cache again is also blind to a jar that
`.anvilignore` made it keep, and TLC shows it (section 6).

*Overlay and resolver.* The overlay's lemmas take the phases one by one: nothing
that a remove names by identity is left, a kept member shares no key and no target with an instance row
(`CollisionFreeKept`), a carried row is there as the member it equals. The
invariant of `LocksReconciled` is that what is resolved is filed under its own
key (`Keyed`), so that the instance layer has one row per identity, and that a
written lock is what the overlay made of the command's two layers, which were
refused if they collided. `LocksKeepPins` needs more: every name a demand was
made under leads to something resolved (`AliasesKnown`), so that a ref that is
asked for again under a second name can never free a pin; `PinsAdvance` is the
argument shared by the steps of the worklist: a pin stays unless the step has
found it upgraded, or has recorded a demand that it does not meet.
The two hypotheses are real: nothing in the code checks that a pack ships a
project once, nor that an import's rows have different identities.

*Worklist and merges.* What is asked of a source comes out of lists that the
code filters, so the base of these proofs is `Climb`, induction up to a number,
which follows from the least element of a set of numbers (`WFMin` of the
library, whose hypotheses are sets; its induction theorems take an operator and
cannot be used). `OnlyIn` and its companions then say what a filtered list
holds. `Steps` reads the next-state relation once, by what a step does to the
command (it rests, starts, begins its worklist, pops a ref, writes), and every
invariant below is proved over those cases. `ResolveInv` holds what a resolve
works on: its refs are `Inputs` (`AuthoredInv` for what a manifest may hold
after any edits, imports and merges), a popped ref has an answer that is filed
under the key its name leads to, and the set of the resolved is finite, from
which `WorklistsEnd` follows step by step: a pop leaves one ref fewer unless it
fetches a project for the first time. `ClosureInv` follows a demand: each root
and each requirement of a fetched row has been met or is still in the queue,
names lead to what is resolved (`LeadIn`), and what a row has answered it still
meets, unless two names led to it (`DoubledIn`, the exception `TwoNames` of
`ResolutionClosed`). `MergeInv` says that a merge under way is two-sided
already, before any ref is resolved, and that when it changed the Minecraft
version no pin of a catalogue is left, so that what fits is what was fetched.
`FilesInv` is the same for the content of local files, which is not in the
manifest but in the rows that a merge pins: the commit that the pins would make
(`Seeded`) is two-sided when the merge starts (`MergeKeepsFiles`, from
`ValueIsFile`: what the merge compares of a local item is the content of its
row), each local item has one pin, and that pin, never upgraded, is held or met
again under the same key until it is reused. At the end every local item has
been met (`FileLocked`), no remove names it, and the overlay keeps its content
(`OverlayKeepsContent`). The hypotheses are about inputs. `NoFileRanges`: a
CurseForge range is taken for the latest (section 6). `ImportsNamed`: a file
that a URL item names could be known to the catalogue by another locator, after
which the next lock resolves another row. `WrittenOnce`: a manifest written by
hand may name one project twice with two specs, and a merge keeps one of them.
`FilesKept`: each side locks each of its local items once, the merged manifest
calls a file by one name, and the merged `game.remove` names no local pin.
Without it a merge does lock other bytes: a branch whose `game.remove` names a
local item has no row for it, and a merge that takes that item and the other
branch's game locks the file as it is on disk then, which may be neither side's.
It holds after every merge of the relock run, also where a side has changed a
file, when TLC checks it as an invariant. `MergeTwoSided` itself asks about the files only when no manifest's
`game.remove` names an item for a local file (`FilesStand`), with or without a
path. `MembersFit`: nothing checks a pack's
files against the pack's game. TLC evaluates the first three on every run of
`MCRelock` (`MCInputsNamed`).

*Why.* What has to be known of the graph is that it hangs from its roots:
`Grounded` says that a set of names with whatever the manifest or the base pack
asks for, and with a name whatever it asks for, has every name of the graph. It is
inductive because a popped ref was asked for by the manifest or by a name with an
edge already. At the end it is used once, with the names that lead to a root:
`AskedLeads` makes of a chain for who asks a chain for what is asked, without a
repetition (in front of it, or from where it occurs in it on), and `ChainTraced`
shows by induction that `trace` finds every such chain, since by the pigeonhole
principle it has no more steps than there are askers (`ChainIsShort`). That each
row has an edge under its name is the other half (`LockedHaveEdges`), and what
`PinsNamed` is for: the edge of a dependency whose pin is kept has the name that
the source gives (section 6). Both hypotheses hold in every state of `MCRelock`;
TLC checks it when they are added to the INVARIANTS of `MCRelock.cfg`.

*Only model-checked.* Liveness (`ReconciledOnStart`, `AbandonedReclaimed`) and the
ENABLED that fairness stands for. What a recursive
definition computes for every input (the folds over sequences of the library)
would need induction over data. Every safety invariant and every action property
of a passing run has a theorem, under the hypotheses of the table.

Run `tlapm` on a `*Proofs` module to check its proofs, and
`tlc -config X.cfg M` for a run, with `M` the MC module `PROJECT.json` names.

## 5. Plan

1. **Swap, lock, build, store, history, working tree, remote, resolver, base
   packs, merge and imports**: modelled and checked; the safety properties
   proved.
2. **Proofs**: fewer hypotheses, where the code can be made to check them (a pack
   that ships a project once, an import whose rows have different identities).
3. **Compositions**: the working tree with `JournaledSwap` (a commit between a
   killed build and the recovery); a pool of assets that two instances share;
   `addItems` and `lock` within a build.
4. **More operations**: revert and the steps of a rebase on the working tree,
   the third slot, exports, the HTTP client's buckets.

## 6. Where the code and its comments part

Found while modelling and shown by the runs that expect a violation:

- **A build in flight** (`store_in_flight`): a collection reads each
  instance's `refs/built` once and then sweeps; a build that has found an old
  object (whose mtime is not renewed) and records it afterwards loses it,
  against the comment at `src/anvil.ts:1936-1937`.
- **A pull during a rebase** (`vc_pull`): `pullInstance` has no rebase guard
  (`src/remote/sync.ts:583`), and moves the branch that a paused rebase owns.
- **A second lock drops dependencies** (`relock_drops`): an item whose pin is
  reused does not enqueue what it requires (`src/resolver/resolve.ts:350`), so
  a plain lock of an unchanged manifest writes a lock without the rows that
  only a dependency brought in, against "untouched items keep their exact pins"
  (`src/anvil.ts:746-747`). `PinsKept` is what does hold.
- **A merge with the wrong client** (`merge_wrong_game`): `#gameFor`
  (`src/vc/repo.ts:517`) looks for a side by Minecraft version and loader among
  merged games that have a base or a remove too, finds none, and keeps the
  client of ours.

The modules also hold what no run lists: an assumption made by a run, or a
stronger property, that the code does not meet. Each can be seen by checking
the property named with the constant named.

| module | setting | what is violated | why |
|---|---|---|---|
| `JournaledSwap` | `Unsynced <- LostData` or `LostRenames` | `Recoverable` | staged bytes and the renames of a recovery are never fsynced |
| `FileLock` | `Trouble <- Overtaking` | `MutualExclusion` | `acquireLock` judges the record it read and renames whatever is at the path (`lock.ts:163`), against "A live holder is never stolen from." (`lock.ts:11`) |
| `FileLock` | `Host <- TwoHosts` | `MutualExclusion` | a pid of another host is probed on this one |
| `FileLock` | `"crash" \in Trouble` | `EveryAbandonedReclaimed` | an empty lock file, from a death between create and write, is never stale |
| `InstanceBuild` | `Trouble <- Killed` | `BuildMatchesLock` | the swap and `refs/built` are two writes (`pipeline.ts:228`): when the lock goes back to the earlier one, the next build finds nothing to do over the other lock's tree |
| `InstanceBuild` | `Trouble = {"ignore"}` | `BuildMatchesLock` | a path protected at one build and not at the next is taken for installed |
| `InstanceBuild` | `Trouble = {"torn"}` | `LiveIndexWhole` without `~cut` | a torn copy of an asset object is skipped for ever (`store/placement.ts:294`), against "a launcher never observes an index without the objects it references" |
| `InstanceBuild` | locks with an index | `RebuildIsNoOp` | an asset tree is installed anew each time: the texts of its placement differ |
| `SharedStore` | any | `HistoryKept` | only the collecting instance's history is marked |
| `SharedStore` | any | `LiveTempKept` | the sweep of orphan temps takes another build's |
| `VcRefs` | `Trouble = {"static"}` | `BranchKeepsWork` | a pull without history onto a detached HEAD overwrites the default branch |
| `VcRefs` | `Trouble = {"orphan"}` | `NothingMissing` | a switch to a stored commit whose ancestors a collection or a dead import left out |

Read in the code while modelling, and in no run:

- *Imports.* A file that shares its target with an override keeps its item in
  the manifest while its row is dropped (`import/mrpack.ts`, `cfzip.ts`,
  `pack-common.ts`): the next lock has two rows at the target and is refused, and
  so is every lock after it. In `Relock` no lock is ever written after the import
  of the CurseForge archive of `MCRelock`, which has such a file. Items of an
  `.mrpack` record no target, so `upgrade` places an imported file anew by its
  kind and base name. Items of a CurseForge zip are pinned by file id, which is
  not the row's version, so each lock fetches them again and an offline lock is
  refused.
- *Base packs.* `game.remove = ["./config/x"]` is made absolute before it is
  matched (`resolver/resolve.ts:258-261`), so it never matches a base override,
  against `base/overlay.ts:17-18` and `113-118` and its test: an item of the
  manifest at that path goes, the override at that path stays. `LayersReconciled`
  asks of a remove only what holds, by identity; the relock run has a remove by
  path and reaches the lock in which the override has stayed. A base pack's archive is re-extracted over
  `.anvil/base/` before the lock is written. The identities of a pack's files
  fail open: a failed request leaves members named by their mirrors
  (`mrpack-base.ts:361`), and a plain lock keeps them. One long-lived `Anvil`
  object returns its in-memory base without asking `baseCacheUsable`.
- *Two names.* A project that is asked for by slug and by id has its resolved row
  overwritten by the pin of the second name, without `conflictIf`
  (`resolver/resolve.ts:350-351`), against "fail-closed" at
  `resolver/resolve.ts:12-15`. `ResolutionClosed` exempts such projects
  (`TwoNames`), so nothing is shown of what they resolve to.
- *Loaders.* With Forge or NeoForge, an edit of `game.minecraft` keeps the prior
  loader release, which does not fit, and a plain lock is refused until
  everything is upgraded.
- *CurseForge.* A range spec takes the latest file whatever the range is, against
  the comment at `sources/curseforge.ts:548-551`, which narrows it to names that
  contain its first token.
- *Why.* A pin that is kept after its source was asked stays under its own name,
  while its edge has the name that the source gave (`resolver/resolve.ts:396-402`).
  A CurseForge project that has another slug since it was locked, asked for by that
  slug, is in the lock under a name that `anvil why` does not know (`PinsNamed`).
- *Protected paths.* What `.anvilignore` protects is "never created, moved, or
  deleted by a build" (`build/anvilignore.ts:2`), but the copy of asset objects
  (`materializeAssetTree`, `store/placement.ts:287-306`) asks no ignore set: under a
  protected assets directory a build creates the objects of its indexes.
  `ProtectedKept` allows that and nothing else.
- *Diff and verify.* `anvil diff`, `verify --strict` and `#buildDirty` compare
  names and hashes only: a package that only moves its target is in the build's
  delta and in no diff.
- *Working tree.* A merge has no guard against a dirty tree (`vc/repo.ts:602`):
  it merges what is on disk. A merge may rewrite `.anvilexclude` and leave
  status dirty, or record one path as a local item's and as a tracked file with
  different bytes (`vc/repo.ts:755`). A crash in a step of a rebase leaves files that an abort does not
  remove. The dirty guard of a switch is skipped where no snapshot can be made of
  the tree: `anvil.toml` or `anvil.lock` is missing or does not parse, or a local
  item's bytes are gone from the store (`#worktreeSnapshotId`, `vc/repo.ts:360-391`
  and `404-405`, whose comment at `342-356` means it so). There a switch overwrites
  or deletes unsaved edits of any file that HEAD's or the target's commit lists,
  against "Refuses on a dirty working tree" (`anvil.ts:1512`). `switchBlind` is
  that arm: it violates `NothingUnsavedLost` with `op.seen # {}` added to the last
  disjunct.
  `addItem`, `lock` and `import` take no lock at all.
- *Remote.* A file of the user's own at a path that a replay row once claimed is
  recorded but cannot be pushed. A lock with local rows can be pushed and every
  pull refuses it. A push publishes the working tree's manifest and lock, not the
  commit's; a pull vets the published lock and installs the commit's. No push to a
  served tree compares histories (`remote/transport.ts:169-185`), and a git
  remote refuses one only when its branch moved since the fetch: the second push
  of two takes the first's commits, or what the remote had, out of the branch.
  What stays is `PushedInReach`: an instance still has them in its history.
  Both instruments of the replay rule are blind
  to a jar that was renamed after the cache was deleted, and to a jar that a build
  kept while it filled the cache again: build a replay jar, protect it in
  `.anvilignore`, delete the cache, lock to another replay row at another path and
  build, take the rule away again, and a commit tracks the jar, since a cache that
  has *some* entry answers for all (`established()` of `store/replay-cache.ts`)
  and the comment at `store/replay-provenance.ts:57-62` counts on the rename alone
  (`Blind` with `moved` only, in place of `moved \cup refilled`, is violated).
- *Store.* Leaves of a tree whose manifest the store lacks cannot be rooted, so
  an index that is lost in flight loses its leaves too (`bereft`).

## 7. Not modelled

*Presentation and reports*: the command line, the terminal UI, the progress bus,
`base/diff.ts`: no other component depends on them. *The HTTP client*: retries
and rate limits are sequential within a command, and a request that fails for
good is `Kill` of `Relock`, or `FailBuild` of `SharedStore`. *Formats and
conversions*: the text of the lock, the manifest, `instances.toml` and archives,
game metadata, installers, exports (which read the built lock and the store and
change neither). *Bytes*: hashing, linking, copying and extraction appear only as
"this target has this content". *Texts torn by a crash*: a reflog or a registry
rewritten in place is replaced whole here (see the hazards). *Content objects* of
the version control are the contents themselves. A component that is `partly`
modelled names in `PROJECT.json` what is missing of it.
