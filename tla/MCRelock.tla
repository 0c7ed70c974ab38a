------------------------------ MODULE MCRelock ------------------------------
(* Two mods that require one another, a local file that lies where a base  *)
(* member and a release of a mod would, a replayed mod, a pack of each     *)
(* game and a CurseForge pack.                                             *)
EXTENDS Why, TLC

Ref(source, id, spec) == [source |-> source, id |-> id, spec |-> spec, target |-> NoTarget]
Lib == Ref("modrinth", "lib", Latest)
LibById == Ref("modrinth", "AAlib", [kind |-> "range", versions |-> {1}])
Mod == Ref("modrinth", "mod", Latest)
File == Ref("local", "mods/lib-2.jar", Latest)
Web == Ref("url", "web", Latest)
FromPack == Ref("modrinth", "pack", Latest)

Cf == Ref("curseforge", "7", Latest)
FromCf == Ref("curseforge", "8", Latest)

MCNoTarget == ""
MCNoFrom == Ref("none", "", Latest)
MCAbsolute ==
    [path \in {"mods/lib-2.jar", ".anvil/base/mods/lib-2.jar",
               ".anvil/overrides/mods/cf-1.jar"} |-> "/i/" \o path]
MCProjects == {"lib", "mod", "file", "cf", "cdn", "x"}
MCSource ==
    [p \in MCProjects |-> CASE p \in {"file", "x"} -> "local" [] p = "cf" -> "curseforge"
                            [] p = "cdn" -> "url" [] OTHER -> "modrinth"]
MCId == [lib |-> "AAlib", mod |-> "AAmod", file |-> "/i/mods/lib-2.jar", cf |-> "7",
         cdn |-> "cdn/mods/lib-1.jar", x |-> "/i/.anvil/overrides/mods/cf-1.jar"]
ReleaseOf(fits, requires, target) == [fits |-> fits, requires |-> requires, target |-> target, open |-> TRUE]
MCReleases ==
    [lib  |-> <<ReleaseOf({1}, <<>>, "mods/lib-1.jar"),
                ReleaseOf({1, 2}, <<Ref("modrinth", "AAmod", Latest)>>, "mods/lib-2.jar")>>,
     mod  |-> <<ReleaseOf({1}, <<Ref("modrinth", "AAlib", PinnedTo(1))>>, "mods/mod.jar"),
                ReleaseOf({1, 2}, <<Ref("modrinth", "AAlib", PinnedTo(2))>>, "mods/mod.jar")>>,
     file |-> <<ReleaseOf({}, <<>>, ""), ReleaseOf({}, <<>>, "")>>,
     cdn  |-> <<ReleaseOf({}, <<>>, "mods/lib-1.jar")>>,
     x    |-> <<ReleaseOf({}, <<>>, "")>>,
     cf   |-> <<ReleaseOf({1, 2}, <<>>, "mods/cf-1.jar"), ReleaseOf({1, 2}, <<>>, "mods/cf-2.jar")>>]
FileOf(source, name, locator, version, hash, target) ==
    [source |-> source, name |-> name, locator |-> locator, version |-> version,
     hash |-> hash, target |-> target, mirror |-> "cdn/" \o target,
     placeable |-> TRUE, open |-> TRUE, listed |-> TRUE, attested |-> TRUE]
LibFile(version, target) ==
    FileOf("modrinth", "lib", "AAlib", version, <<"lib", version>>, target)
CfFile(name, locator) ==
    FileOf("curseforge", name, locator, 1, <<"sha1", name, 1>>, "mods/" \o name \o "-1.jar")
OverrideOf(tree, target, hash) ==
    [tree |-> tree, target |-> target, hash |-> hash, placeable |-> TRUE]
MCPacks ==
    ("pack" :> <<[game |-> 1, overrides |-> <<OverrideOf(1, "mods/lib-2.jar", <<"over", 0>>)>>, open |-> TRUE,
                  files |-> {LibFile(1, "mods/lib-1.jar")}],
                 [game |-> 2, overrides |-> <<>>, open |-> TRUE,
                  files |-> {LibFile(2, "mods/lib-2.jar")}]>>) @@
    ("8" :> <<[game |-> 1, overrides |-> <<>>, open |-> TRUE,
               files |-> {CfFile("cf", "7"), [CfFile("gone", "9") EXCEPT !.listed = FALSE],
                          [CfFile("bare", "10") EXCEPT !.attested = FALSE]}]>>)
ArchiveOf(format, files, overrides) ==
    [format |-> format, game |-> 1, loader |-> {1}, files |-> files, overrides |-> overrides]
MCArchives ==
    {ArchiveOf("mrpack", <<[LibFile(1, "mods/lib-1.jar") EXCEPT !.hash = <<"cdn", 1>>],
                           [LibFile(1, "saves/lib-1.jar") EXCEPT !.placeable = FALSE]>>,
               <<OverrideOf(2, "mods/cf-1.jar", <<"x", 1>>), OverrideOf(1, "mods/cf-1.jar", <<"x", 0>>)>>),
     ArchiveOf("cfzip", <<[CfFile("cf", "7") EXCEPT !.hash = <<"cf", 1>>]>>,
               <<OverrideOf(1, "mods/cf-1.jar", <<"x", 1>>)>>),
     ArchiveOf("prism", <<[LibFile(1, "mods/a:b.jar") EXCEPT !.placeable = FALSE],
                          [FileOf("curseforge", "cf", "7", 1, <<"cf", 1>>, "mods/1/cf.jar") EXCEPT !.open = FALSE],
                          FileOf("local", "x", "", 0, <<"x", 1>>, "mods/cf-1.jar")>>, <<>>)}
MCLoaders == <<{1}, {1, 2}>>
Allow(ref) == ref.id # "web"
MCKeyOrder ==
    <<<<"curseforge", "7">>, <<"local", ".anvil/overrides/mods/cf-1.jar">>,
      <<"local", "mods/lib-2.jar">>,
      <<"modrinth", "AAlib">>, <<"modrinth", "AAmod">>, <<"modrinth", "lib">>, <<"modrinth", "mod">>,
      <<"url", "cdn/mods/lib-1.jar">>, <<"url", "web">>>>
MCMenu == {LibById}
MCLockMenu == {[upgrade |-> NoUpgrade, offline |-> TRUE]} \cup
    {[upgrade |-> upgrade, offline |-> FALSE] : upgrade \in
       {NoUpgrade, [all |-> TRUE, keys |-> {}], [all |-> FALSE, keys |-> {<<"modrinth", "lib">>}]}}
Game(minecraft, from, remove) ==
    [minecraft |-> minecraft, loader |-> {}, from |-> from, remove |-> remove]
MCGameMenu == {Game(2, MCNoFrom, {}), Game(1, FromPack, {}),
               Game(2, FromPack, {}), Game(1, FromPack, {Lib}), Game(1, FromPack, {File})}
MCFirstPublished ==
    {[p \in MCProjects \cup {"pack", "8", "loader"} |->
        CASE p = "cf" -> 2 [] p \in {"8", "cdn", "x"} -> 1 [] p = "loader" -> 3 - newest [] OTHER -> newest] :
       newest \in {1, 2}}
MCFirstManifests ==
    {[items |-> <<Mod>>, game |-> Game(1, MCNoFrom, {})],
     [items |-> <<Lib, File>>, game |-> Game(1, FromPack, {})],
     [items |-> <<LibById, Lib, Cf>>, game |-> Game(1, FromCf, {})],
     [items |-> <<Web>>, game |-> Game(1, Web, {})]}

(* What RelockProofs takes of the inputs holds of these.                   *)
ASSUME MCInputsNamed == NoFileRanges /\ ImportsNamed /\ WrittenOnce
=============================================================================
