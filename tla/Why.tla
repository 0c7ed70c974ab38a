--------------------------------- MODULE Why ---------------------------------
(***************************************************************************)
(* anvil why: what it finds in .anvil/graph.json of a lock of Relock       *)
(* (build/graph.ts).                                                       *)
(***************************************************************************)
EXTENDS Relock

(* Who asks for a package, by name.                                        *)
demandersOf(name) == {edge.by : edge \in {e \in graph : e.name = name}}
Askers == {edge.by : edge \in graph}

(* From an item up: n demands, none of them seen before.                   *)
trace(item) ==
    LET up[n \in 0..Cardinality(Askers)] ==
            IF n = 0 THEN {<<item>>}
            ELSE UNION {{Append(chain, by) :
                           by \in demandersOf(chain[n]) \ (ToSet(chain) \cup {"(manifest)"})} :
                          chain \in up[n - 1]}
    IN  UNION {up[n] : n \in 0..Cardinality(Askers)}

(* A chain ends where the manifest asks, or where nobody does.             *)
whyChains(item) ==
    {chain \in trace(item) :
       \/ "(manifest)" \in demandersOf(Last(chain))
       \/ demandersOf(Last(chain)) = {}}

(* anvil why traces every package of a lock just written to the manifest   *)
(* or to the base pack, through names (build/graph.ts whyChains).          *)
WhyReachesRoot ==
    Wrote("lock") => \A row \in lock.rows :
        /\ \E edge \in graph : edge.child = canonicalKeyOf(row)
        /\ \E chain \in whyChains(row.name) :
             "(manifest)" \in demandersOf(Last(chain)) \/ Last(chain) = "(base)"

(* It takes that a pin which a ref reaches under another name than its own *)
(* is called what the catalogue calls it, for the edge has that name       *)
(* (resolver/resolve.ts), and that no package is called (base).            *)
PinsNamed ==
    job.phase \in {"base", "items", "graph", "done"} =>
        \A ref \in Inputs, row \in job.pins :
            LET name == refKey(localizeRef(ref))
            IN  /\ AllowSource(localizeRef(ref)) /\ CatalogueKey(name) # name
                /\ canonicalKeyOf(row) = CatalogueKey(name)
                => row.name = ProjectAt(name)
NoBaseName == \A edge \in graph : edge.name # "(base)"
=============================================================================
