------------------------------ MODULE Overlay -------------------------------
(***************************************************************************)
(* What the resolver knows of references and rows, and the precedence of   *)
(* the two layers of an instance: the members of its base pack underneath, *)
(* the packages of its own manifest on top (resolver/identity.ts,          *)
(* manifest/ref.ts, base/overlay.ts, build/collision.ts).                  *)
(*                                                                         *)
(*   ref  [source, id, spec, target]: an item of anvil.toml, a dependency, *)
(*        or an entry of game.remove                                       *)
(*   spec [kind, versions]: "latest", "pin" or "range", with the versions  *)
(*        the pin or the range admits                                      *)
(*   row  [source, name, locator, version, hash, target, fromBase]: a      *)
(*        package of a lock; name is the slug or the base name, locator    *)
(*        the CurseForge project, the URL or the absolute path             *)
(***************************************************************************)
EXTENDS Naturals, FiniteSets, Sequences

CONSTANTS
    NoTarget,   \* the target of a row that is not a link, or of a ref without one
    Absolute    \* the absolute path of each path of the instance directory

(* The elements of a sequence that are in a set, in their order: SelectSeq *)
(* in a form that the proofs can unfold.                                   *)
Only(seq, keep) ==
    LET upTo[n \in 0..Len(seq)] ==
            IF n = 0 THEN <<>>
            ELSE IF seq[n] \in keep THEN Append(upTo[n - 1], seq[n]) ELSE upTo[n - 1]
    IN  upTo[Len(seq)]

refKey(ref) == <<ref.source, ref.id>>

canonicalKeyOf(row) ==
    <<row.source, IF row.source = "modrinth" THEN row.name ELSE row.locator>>

(* A url or a local row has no version, so it is no pin's and in no range. *)
specSatisfiedBy(spec, row) == spec.kind = "latest" \/ row.version \in spec.versions

(* A path of the instance is read from its absolute place and placed where *)
(* it was authored, unless the item declares a target.                     *)
localizeRef(ref) ==
    IF ref.source = "local" /\ ref.id \in DOMAIN Absolute
    THEN [ref EXCEPT !.id = Absolute[ref.id],
                     !.target = IF @ = NoTarget THEN ref.id ELSE @]
    ELSE ref

linkTargetOf(row) == row.target

SharesKey(row, other) == canonicalKeyOf(row) = canonicalKeyOf(other)
SharesTarget(row, other) ==
    linkTargetOf(row) # NoTarget /\ linkTargetOf(row) = linkTargetOf(other)

sameEntry(row, other) ==
    /\ row.hash = other.hash
    /\ row.version = other.version
    /\ linkTargetOf(row) = linkTargetOf(other)

(* Only a path of the instance names a placement, an absolute one does not.*)
removeTargetOf(ref) ==
    IF ref.source = "local" /\ ref.id \in DOMAIN Absolute THEN ref.id ELSE NoTarget

removeMatch(ref, row) ==
    \/ refKey(ref) = canonicalKeyOf(row)
    \/ ref.source = row.source /\ ref.id = row.name
    \/ removeTargetOf(ref) # NoTarget /\ removeTargetOf(ref) = linkTargetOf(row)

-----------------------------------------------------------------------------
(* The three phases of overlayBase.  Phase 1: what game.remove drops, from *)
(* either layer.                                                           *)
Dropped(rows, removes) == {row \in rows : \E ref \in removes : removeMatch(ref, row)}

OverriddenByTarget(member, instance) == \E row \in instance : ~ SharesKey(row, member) /\ SharesTarget(row, member)

(* Phase 2: an instance row takes the whole member of its identity, unless *)
(* it is that member, and the member at its target.                        *)
Overridden(member, instance) ==
    LET alike == {row \in instance : SharesKey(row, member)}
    IN  IF alike # {} THEN \A row \in alike : ~ sameEntry(member, row)
                      ELSE \E row \in instance : SharesTarget(row, member)

(* An instance row that is a surviving member stays in the base's part.    *)
Carried(row, base) == \E member \in base : SharesKey(row, member) /\ sameEntry(member, row)

Flagged(member) == [member EXCEPT !.fromBase = TRUE]

(* Phase 3: the union.                                                     *)
overlayBase(base, instance, removes) ==
    LET mine == instance \ Dropped(instance, removes)
        kept == {member \in base \ Dropped(base, removes) : ~ Overridden(member, mine)}
    IN  {Flagged(member) : member \in kept} \cup {row \in mine : ~ Carried(row, kept)}

(* The entries of game.remove that match nothing.                          *)
unmatchedRemoves(base, instance, removes) ==
    {ref \in removes : \A row \in base \cup instance : ~ removeMatch(ref, row)}

(* Two rows of different content linked at one target.                     *)
Collide(row, other) == SharesTarget(row, other) /\ row.hash # other.hash
CollisionFree(rows) == \A row, other \in rows : ~ Collide(row, other)

OneRowPerKey(rows) == \A row, other \in rows : SharesKey(row, other) => row = other

(* A remove names a row by its identity: its key, or its source and name.  *)
NamedBy(ref, row) ==
    refKey(ref) = canonicalKeyOf(row) \/ (ref.source = row.source /\ ref.id = row.name)

(* The two layers are reconciled in rows: one row for an identity, one     *)
(* content at a target, nothing of the instance lost to a base member, no  *)
(* base member gone that nobody claims, and no row of either layer left    *)
(* that game.remove names by its identity.  A place is no identity: what   *)
(* the overlay promises of a path, the resolver never lets it see (it has  *)
(* made the path absolute), and a base member that lies there stays.       *)
Reconciled(base, instance, removes, rows) ==
    /\ OneRowPerKey(rows)
    /\ CollisionFree(rows)
    /\ \A row \in instance \ Dropped(instance, removes) :
         \E kept \in rows : SharesKey(kept, row) /\ sameEntry(kept, row)
    /\ \A member \in base \ Dropped(base, removes) :
         \E kept \in rows : SharesKey(kept, member) \/ SharesTarget(kept, member)
    /\ \A row \in rows, ref \in removes : ~ NamedBy(ref, row)
=============================================================================
