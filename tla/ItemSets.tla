------------------------------ MODULE ItemSets ------------------------------
(***************************************************************************)
(* The item set of a manifest and the three-way merge of two of them       *)
(* (vc/itemset.ts, vc/merge.ts).                                           *)
(*                                                                         *)
(*   manifest [items, game]: items a sequence of refs, as authored         *)
(*   game     [minecraft, loader, from, remove]: loader is the release of  *)
(*            the loader that is named, or {}; from is a ref or NoFrom       *)
(*   a merge's pins are the rows of the two sides' locks, by side          *)
(***************************************************************************)
EXTENDS Overlay, Sequences, SequencesExt

CONSTANTS
    NoFrom,     \* a manifest without a base pack
    KeyOrder    \* every identity key, in code-unit order

NoHash == <<>>

(* A local path is keyed as authored, so the key is the same on any machine.*)
identityKeyOf(ref) == refKey(ref)

PinOf(key, rows) == {row \in rows : canonicalKeyOf(row) = key}

entryOf(ref, rows) ==
    LET key == refKey(localizeRef(ref))
        pin == PinOf(key, rows)
    IN  [ref |-> ref, canonicalKey |-> key,
         value |-> [spec |-> ref.spec,
                    hash |-> IF ref.source = "local" /\ pin # {}
                             THEN (CHOOSE row \in pin : TRUE).hash ELSE NoHash]]

buildItemSet(manifest, rows) ==
    LET keys == {identityKeyOf(ref) : ref \in ToSet(manifest.items)}
    IN  [items |-> [key \in keys |->
                      entryOf(CHOOSE ref \in ToSet(manifest.items) : identityKeyOf(ref) = key, rows)],
         game  |-> manifest.game]

(* The value of an entry; an absent one has none.                          *)
entryValue(set, key) == IF key \in DOMAIN set.items THEN {set.items[key].value} ELSE {}

(* The value of the game when its base is not passed.                      *)
BareGame(game) == [game EXCEPT !.from = NoFrom, !.remove = {}]

-----------------------------------------------------------------------------
(* Which of two entries has the newer pinned version; without two versions *)
(* to compare, theirs.                                                     *)
pickNewestEntry(mine, other, pins) ==
    LET versions(entry, rows) ==
            {row.version : row \in PinOf(entry.canonicalKey, rows)} \ {0}
        ov == versions(mine, pins.ours)
        tv == versions(other, pins.theirs)
    IN  IF ov # {} /\ tv # {} /\ \A o \in ov, t \in tv : o >= t THEN "ours" ELSE "theirs"

(* What a strategy makes of a conflict on an item; "manual" resolves none. *)
resolveOne(key, ours, theirs, pins, strategy) ==
    CASE strategy # "newest" -> strategy
      [] key \notin DOMAIN theirs.items -> "ours"
      [] key \notin DOMAIN ours.items -> "theirs"
      [] OTHER -> pickNewestEntry(ours.items[key], theirs.items[key], pins)

SideOfSwapped(b, o, t, conflict) ==
    IF o = t \/ o = b THEN "ours" ELSE IF t = b THEN "theirs" ELSE conflict

(* The side a value comes from, in the three-way table.                    *)
SideOf(b, o, t, conflict) ==
    IF o = t \/ t = b THEN "ours" ELSE IF o = b THEN "theirs" ELSE conflict

resolveGame(base, ours, theirs, strategy) ==
    SideOf(base.game, ours.game, theirs.game,
           IF strategy # "newest" THEN strategy
           ELSE IF ours.game.minecraft >= theirs.game.minecraft THEN "ours" ELSE "theirs")

threeWayMerge(base, ours, theirs, pins, strategy) ==
    LET keys == DOMAIN base.items \cup DOMAIN ours.items \cup DOMAIN theirs.items
        side == [key \in keys |->
                   SideOf(entryValue(base, key), entryValue(ours, key), entryValue(theirs, key),
                          resolveOne(key, ours, theirs, pins, strategy))]
        from == [ours |-> ours, theirs |-> theirs]
        gameSide == resolveGame(base, ours, theirs, strategy)
        conflicts == {key \in keys : side[key] = "manual"}
        taken == {key \in keys \ conflicts : key \in DOMAIN from[side[key]].items}
        entry == [key \in taken |-> from[side[key]].items[key]]
        game == IF gameSide = "theirs" THEN theirs.game ELSE ours.game
        order == Only(KeyOrder, taken)
    IN  [clean |-> conflicts = {} /\ gameSide # "manual",
         manifest |-> [items |-> [i \in DOMAIN order |-> entry[order[i]].ref], game |-> game],
         seedPins |-> UNION {PinOf(entry[key].canonicalKey, pins[side[key]]) : key \in taken},
         reResolveKeys |-> IF game = base.game THEN {}
                           ELSE {entry[key].canonicalKey : key \in
                                   {k \in taken : entry[k].ref.source \in {"modrinth", "curseforge"}}}]
=============================================================================
