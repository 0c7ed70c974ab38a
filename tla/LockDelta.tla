------------------------------ MODULE LockDelta ------------------------------
(***************************************************************************)
(* The incremental plan of a build (src/build/incremental.ts): what of the *)
(* new lock to install and what of the last built one to remove, so that   *)
(* the swap touches only what changed.                                     *)
(*                                                                         *)
(* A lock is the set of its platform-effective packages.  What a path of   *)
(* the instance holds is the set of hashes materialized there: one for a   *)
(* file, one per natives jar for a directory that extracted jars share.    *)
(***************************************************************************)
CONSTANTS
    Name,  \* package names
    Hash,  \* content pins
    Path   \* instance-relative target paths; none lies inside another

Method == {"link", "extract", "asset-tree", "runtime-tree", "forge-build", "store-only"}

(* A resolved package.  `keys` is the order of its placement's JSON keys,   *)
(* which placementKey compares along with the values: an asset-tree's alone *)
(* may differ.  Only forge-build's placement names several targets.         *)
Package == {p \in [name    : Name,
                   hash    : Hash,
                   method  : Method,
                   targets : SUBSET Path,
                   keys    : {"declared", "sorted"}] :
               /\ p.method # "asset-tree" => p.keys = "declared"
               /\ p.targets = {} => p.method \in {"store-only", "forge-build"}
               /\ p.method # "forge-build" => \A t, u \in p.targets : t = u}

(* refs/built is canonical JSON, its keys sorted; the lock parser builds    *)
(* every placement `method` first, which sorts last for asset-tree alone.   *)
ReadBack(lock) ==
    {IF p.method = "asset-tree" THEN [p EXCEPT !.keys = "sorted"] ELSE p : p \in lock}

targetsOf(lock) == UNION {p.targets : p \in lock}

(* The instance that a lock stands for. *)
Materialize(lock) == [t \in Path |-> {p.hash : p \in {q \in lock : t \in q.targets}}]

-----------------------------------------------------------------------------
(* Variant: only the pins are compared. *)
unchangedByHash(a, b) == a.hash = b.hash

unchanged(a, b) ==
    /\ a.hash = b.hash
    /\ a.method = b.method /\ a.targets = b.targets /\ a.keys = b.keys

Named(lock, n) == {p \in lock : p.name = n}

prevByName(prev, n) == CHOOSE p \in prev : p.name = n

Changed(prev, next) ==
    {p \in next : Named(prev, p.name) = {} \/ ~unchanged(prevByName(prev, p.name), p)}

(* Which jars, by name and hash, are extracted into directory d. *)
extractMembership(lock, d) ==
    {<<p.name, p.hash>> : p \in {q \in lock : q.method = "extract" /\ d \in q.targets}}

(* Variant: a directory counts as changed only when a jar joins it. *)
dirtyDirsGrown(prev, next) ==
    {d \in Path : extractMembership(next, d) \ extractMembership(prev, d) # {}}

(* Directories the next lock extracts into, with another membership. *)
dirtyDirs(prev, next) ==
    {d \in Path : /\ extractMembership(next, d) # {}
                  /\ extractMembership(next, d) # extractMembership(prev, d)}

install(prev, next) ==
    LET changed == Changed(prev, next)
    IN  changed \cup {p \in next : /\ p.method = "extract"
                                   /\ p.targets \cap dirtyDirs(prev, next) # {}
                                   /\ Named(changed, p.name) = {}}

installTargets(prev, next) == targetsOf(install(prev, next))

removeTargets(prev, next) == targetsOf(prev) \ targetsOf(next)

-----------------------------------------------------------------------------
(* The tree after the swap; paths that `ignore` protects are filtered out.  *)
Swapped(tree, prev, next, ignore) ==
    LET staged == Materialize(install(prev, next))
    IN  [t \in Path |->
            IF t \in installTargets(prev, next) \ ignore THEN staged[t]
            ELSE IF t \in removeTargets(prev, next) \ ignore THEN {}
            ELSE tree[t]]

(* assertNoPlacementCollisions: no path is linked to two contents. *)
NoPlacementCollision(lock) ==
    \A p, q \in lock :
        p.method = "link" /\ q.method = "link" /\ p.targets \cap q.targets # {}
            => p.hash = q.hash

(* What the resolver's own packages observe: only natives jars share the    *)
(* directory they go to, and no two packages share a natives jar's name.    *)
WellFormed(lock) ==
    /\ NoPlacementCollision(lock)
    /\ \A p, q \in lock :
          p # q /\ p.targets \cap q.targets # {} =>
              p.method = q.method /\ p.method \in {"link", "extract"}
    /\ \A p, q \in lock : p.method = "extract" /\ p.name = q.name => p = q
=============================================================================
