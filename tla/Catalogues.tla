----------------------------- MODULE Catalogues -----------------------------
(***************************************************************************)
(* What a lock learns from outside the instance: the releases of a project *)
(* and the content of a file or a URL (sources/), the members of a base    *)
(* pack (base/mrpack-base.ts, base/cf-base.ts), the release of the loader  *)
(* (game/).  Bytes, hashes and formats are abstracted: a release has one   *)
(* content.  An empty set is a refusal, which ends the command.            *)
(***************************************************************************)
EXTENDS Overlay, SequencesExt

CONSTANTS
    Projects,       \* the projects of the catalogues, the local files, the URLs
    Source, Id,     \* per project: its source; its opaque id, path or final URL
    Releases,       \* per project: sequence of [fits, requires, target, open]
    Packs,          \* per base pack: sequence of [game, files, overrides, open]
    Archives,       \* what a user imports: [format, game, loader, files, overrides]
    Loaders,        \* the releases of the loader: sequence of the games each fits
    LoaderPerGame,  \* TRUE: a loader is built for one game (Forge, NeoForge)
    HasKey,         \* whether the user has a CurseForge key
    AllowSource(_)  \* the embedder's policy on a ref

VARIABLE published  \* per project, pack and loader: the newest release; of a
                    \* local file or a URL: its content

MaxOf(S) == CHOOSE x \in S : \A y \in S : y <= x
Newest(S) == IF S = {} THEN {} ELSE {MaxOf(S)}

projectOf(ref) == CHOOSE p \in Projects : Source[p] = ref.source /\ ref.id \in {p, Id[p]}

(* The releases a catalogue lists for the game.                            *)
Listed(p, game) == {v \in 1..published[p] : game \in Releases[p][v].fits}

(* Latest and range stop at the frozen clock, a pin does not.              *)
selectVersion(spec, listed, now) ==
    Newest(CASE spec.kind = "pin"   -> listed \cap spec.versions
             [] spec.kind = "range" -> {v \in listed : v <= now} \cap spec.versions
             [] OTHER               -> {v \in listed : v <= now})

(* On CurseForge a range is its latest, and a pin names the id of a file,  *)
(* which is never the version that its row shows, or that version.         *)
fileID(v) == 100 + v
selectFile(spec, listed, now) ==
    Newest(IF spec.kind = "pin" THEN {v \in listed : {v, fileID(v)} \cap spec.versions # {}}
           ELSE {v \in listed : v <= now})

rowOf(p, version, content, target) ==
    [source |-> Source[p], name |-> p, locator |-> Id[p], version |-> version,
     hash |-> <<p, content>>, target |-> target, fromBase |-> FALSE]

(* A declared target wins over the one of the release.                     *)
singleFilePlacement(ref, release) == IF ref.target # NoTarget THEN ref.target ELSE release.target

Result(ref, p, version, content) ==
    LET release == Releases[p][content]
    IN  [pkg |-> rowOf(p, version, content, singleFilePlacement(ref, release)),
         dependencies |-> release.requires]

resolveModrinth(ref, clock, game) ==
    LET p == projectOf(ref)
    IN  {Result(ref, p, v, v) : v \in selectVersion(ref.spec, Listed(p, game), clock[p])}

(* A file whose author forbids third-party downloads cannot be pinned.     *)
resolveCurseforge(ref, clock, game) ==
    LET p == projectOf(ref)
        chosen == selectFile(ref.spec, Listed(p, game), clock[p])
    IN  {Result(ref, p, v, v) : v \in {w \in chosen : HasKey /\ Releases[p][w].open}}

(* A path or a URL has the content it has now, and no version.             *)
resolveContent(ref) ==
    LET p == projectOf(ref) IN {Result(ref, p, 0, published[p])}

resolve(ref, clock, game) ==
    CASE ref.source = "modrinth"   -> resolveModrinth(ref, clock, game)
      [] ref.source = "curseforge" -> resolveCurseforge(ref, clock, game)
      [] OTHER                     -> resolveContent(ref)

-----------------------------------------------------------------------------
(* Base packs.  A file is [source, name, locator, version, hash, target,    *)
(* mirror, placeable, listed, attested]: what it is and hashes to, where it *)
(* lies in the instance and on the network; whether it may be placed there  *)
(* (in an .mrpack: for the client, at a path of the instance; on CurseForge:*)
(* of a known kind); whether CurseForge still lists it and attests a hash.  *)
PackOf(release) == Packs[release.id][release.n]

MemberRow(file) ==
    [source |-> file.source, name |-> file.name, locator |-> file.locator,
     version |-> file.version, hash |-> file.hash, target |-> file.target, fromBase |-> FALSE]

memberRef(file) ==
    [source |-> file.source, id |-> IF file.source = "modrinth" THEN file.name ELSE file.locator,
     spec |-> [kind |-> "pin", versions |-> {file.version}], target |-> NoTarget]

(* A file known by its mirror only.                                        *)
mirrored(file) ==
    [file EXCEPT !.source = "url", !.name = file.target, !.locator = file.mirror, !.version = 0]

(* An .mrpack names mirrors.  One request asks which projects they are; when *)
(* it fails, the members are pinned as plain URLs.                           *)
identifyMembers(files, answered) ==
    {IF answered /\ file.source = "modrinth" THEN file ELSE mirrored(file) : file \in files}

mrpackMembers(release) ==
    identifyMembers({file \in PackOf(release).files : file.placeable}, release.answered)

(* The files of a CurseForge pack are asked for one by one, and one that is  *)
(* no longer listed leaves no facts; any other failure ends the command.     *)
gatherMemberFacts(files) == {file \in files : file.listed}

(* They are pinned unseen, by the hash CurseForge attests.                   *)
cfMembers(release) ==
    {file \in gatherMemberFacts(PackOf(release).files) : file.attested /\ file.placeable}

(* A file that a pack overrides is [tree, target, hash, placeable], tree    *)
(* being the place of its prefix in their order.  It is tracked under       *)
(* .anvil/, in base or in overrides, as a local file; of two at one place   *)
(* the later prefix has it.                                                 *)
trackedAs(file, subdir) == ".anvil/" \o subdir \o "/" \o file.target

trackedRow(file, subdir) ==
    [source |-> "local", name |-> file.target, locator |-> Absolute[trackedAs(file, subdir)],
     version |-> 0, hash |-> file.hash, target |-> file.target, fromBase |-> FALSE]

importOverrideTree(overrides) ==
    Only(overrides,
         {file \in ToSet(overrides) :
            /\ file.placeable
            /\ \A other \in ToSet(overrides) : other.target = file.target => other.tree <= file.tree})

Members(release) ==
    {trackedRow(file, "base") : file \in ToSet(importOverrideTree(PackOf(release).overrides))} \cup
    {MemberRow(file) : file \in
        IF release.source = "modrinth" THEN mrpackMembers(release) ELSE cfMembers(release)}

Release(from, versions, answers) ==
    [source : {from.source}, id : {from.id}, n : versions, answered : answers]

(* The policy is asked for each member before its bytes are fetched.       *)
resolveMrpack(from) ==
    {release \in Release(from, selectVersion(from.spec, 1..published[from.id], published[from.id]), BOOLEAN) :
       \A file \in mrpackMembers(release) : AllowSource(memberRef(file))}

selectPackFile(spec, listed, now) ==
    Newest(IF spec.kind = "pin" THEN listed \cap spec.versions
           ELSE {v \in listed : v <= now})

(* The archive is all that is downloaded, and its author may forbid that.   *)
downloadPackArchive(release) == PackOf(release).open

(* A CurseForge pack none of whose members can be pinned is refused.        *)
resolveCfPack(from) ==
    {release \in Release(from, selectPackFile(from.spec, 1..published[from.id], published[from.id]), {TRUE}) :
       /\ HasKey
       /\ downloadPackArchive(release)
       /\ \A file \in PackOf(release).files : AllowSource(memberRef(file))
       /\ PackOf(release).files # {} => cfMembers(release) # {}}

resolveBase(from) == IF from.source = "modrinth" THEN resolveMrpack(from) ELSE resolveCfPack(from)

-----------------------------------------------------------------------------
(* The loader: one that is named or reused must still be published, and    *)
(* Forge refuses one that is not for the game.                             *)
selectLoaderVersion(wanted) ==
    LET all == 1..published["loader"] IN IF wanted # {} THEN wanted \cap all ELSE Newest(all)

selectForgeVersion(wanted, game) ==
    LET matching == {v \in 1..published["loader"] : game \in Loaders[v]}
    IN  IF wanted # {} THEN wanted \cap matching ELSE Newest(matching)

resolveGameInstall(game, wanted) ==
    {[client |-> game, loader |-> v] : v \in
       IF LoaderPerGame THEN selectForgeVersion(wanted, game) ELSE selectLoaderVersion(wanted)}

-----------------------------------------------------------------------------
(* Imports.  Each file of an archive becomes a row of the lock and an item  *)
(* of the manifest; a row loses its target to a later one, an item stays.   *)
Latest == [kind |-> "latest", versions |-> {}]
PinnedTo(v) == [kind |-> "pin", versions |-> {v}]

entry(row, spec, target) ==
    [row |-> row, item |-> [source |-> row.source,
                            id |-> IF row.source = "modrinth" THEN row.name ELSE row.locator,
                            spec |-> spec, target |-> target]]

trackedEntry(file) ==
    [row  |-> trackedRow(file, "overrides"),
     item |-> [source |-> "local", id |-> trackedAs(file, "overrides"),
               spec |-> Latest, target |-> file.target]]

overrideEntries(archive) ==
    LET chosen == importOverrideTree(archive.overrides)
    IN  [i \in DOMAIN chosen |-> trackedEntry(chosen[i])]

(* The files of an .mrpack are what their mirrors hold.                    *)
placeableFiles(archive) == Only(archive.files, {file \in ToSet(archive.files) : file.placeable})
mrpackEntry(file) == entry(MemberRow(mirrored(file)), Latest, NoTarget)

importMrpack(archive) ==
    IF \A file \in ToSet(placeableFiles(archive)) : AllowSource(mrpackEntry(file).item)
    THEN {[i \in DOMAIN placeableFiles(archive) |-> mrpackEntry(placeableFiles(archive)[i])]
            \o overrideEntries(archive)}
    ELSE {}

(* Those of a CurseForge zip are pinned by the ids of the files, under a   *)
(* key, and each must be there to be downloaded.                           *)
cfEntry(file) == entry(MemberRow(file), PinnedTo(fileID(file.version)), NoTarget)

importCurseForgeZip(archive) ==
    IF \A file \in ToSet(archive.files) :
         HasKey /\ AllowSource(cfEntry(file).item) /\ file.listed /\ file.open
    THEN {[i \in DOMAIN archive.files |-> cfEntry(archive.files[i])] \o overrideEntries(archive)}
    ELSE {}

(* Those of another launcher's instance are what a catalogue says they are,*)
(* at the path they have there if an item may name it, or local files.     *)
matchModrinth(file) == file.source = "modrinth"
matchCurseForge(file) == HasKey /\ file.source = "curseforge"
Matched(file) == matchModrinth(file) \/ matchCurseForge(file)

matchedEntry(file) ==
    LET lands == IF file.placeable THEN file.target
                 ELSE Releases[file.name][file.version].target
        row == [MemberRow(file) EXCEPT !.target = lands]
        target == IF file.placeable THEN lands ELSE NoTarget
    IN  IF matchModrinth(file) THEN entry(row, PinnedTo(file.version), target)
        ELSE entry([row EXCEPT !.name = file.locator, !.version = 0],
                   PinnedTo(fileID(file.version)), target)

importPrism(archive) ==
    LET files == Only(archive.files, {file \in ToSet(archive.files) : Matched(file) \/ file.placeable})
    IN  {[i \in DOMAIN files |->
            IF Matched(files[i]) THEN matchedEntry(files[i]) ELSE trackedEntry(files[i])]}

entriesOf(archive) ==
    CASE archive.format = "mrpack" -> importMrpack(archive)
      [] archive.format = "cfzip"  -> importCurseForgeZip(archive)
      [] archive.format = "prism"  -> importPrism(archive)

(* One row per target, the last.                                           *)
placeable(entries) ==
    {entries[i].row : i \in {k \in DOMAIN entries : \A j \in DOMAIN entries :
                                j > k => entries[j].row.target # entries[k].row.target}}
=============================================================================
