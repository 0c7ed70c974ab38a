--------------------------- MODULE MCInstanceBuild ---------------------------
(* A small instance of InstanceBuild for TLC: one mod in two versions that  *)
(* may move, another that may take its place, an asset index in two         *)
(* versions that share an object, and two natives jars that share a         *)
(* directory.                                                               *)
EXTENDS InstanceBuild

CONSTANTS sodium, lithium, index, lwjgl, glfw, h1, h2, x1, x2, o1, o2, p1, p2, assets, natives

Pkg(n, h, m, t) ==
    [name |-> n, hash |-> h, method |-> m, targets |-> {t}, keys |-> "declared"]

Mods == {Pkg(sodium, h, "link", t) : h \in {h1, h2}, t \in {p1, p2}}
            \cup {Pkg(lithium, h1, "link", p1)}
Index == {Pkg(index, h, "asset-tree", assets) : h \in {x1, x2}}
Jars == {Pkg(lwjgl, h1, "extract", natives), Pkg(lwjgl, h2, "extract", natives),
         Pkg(glfw, h2, "extract", natives)}

OneEach(pkgs) == {l \in SUBSET pkgs : \A p, q \in l : p.name = q.name => p = q}

(* Two packages relate in every way the delta tells apart. *)
ModLocks == {l \in OneEach(Mods) : WellFormed(l)}
JarLocks == {l \in OneEach(Jars) : WellFormed(l)}
IndexLocks == OneEach(Index) \cup {{i, Pkg(sodium, h1, "link", p1)} : i \in Index}
Locks == ModLocks \cup JarLocks \cup IndexLocks

Objects == [h \in Hash |-> CASE h = x1 -> {o1} [] h = x2 -> {o1, o2} [] OTHER -> {}]

(* .anvilignore protects top-level entries, so all of the assets or none. *)
Protections == {{}, {p1}, {natives}, {assets, o1, o2}}
Killed == {"killed"}
AllTrouble == {"killed", "torn", "ignore"}
=============================================================================
