-------------------------- MODULE BlueprintCatalog --------------------------
(***************************************************************************)
(* blueprints.py: the catalog built from the blueprint pools of contracts, *)
(* the list of the Blueprints tab that joins ownership to it, and the      *)
(* owned marks in the game's text, which ask it for each item of a pool.   *)
(*                                                                         *)
(* An offer is one item of one pool of one contract: what the game or a    *)
(* community list calls the item, and its identity when the game names it. *)
(* Names are compared without case, tags and spaces (Normal).  Ids are the *)
(* game's, or made from the name; "attribute" stands for category, type,   *)
(* class, size and grade.                                                  *)
(***************************************************************************)
EXTENDS Integers, Sequences, FiniteSets, SequencesExt, Functions

CONSTANTS Unknown,      \* no identity, no attribute, no filter
          Normal(_)     \* normalize_blueprint_name

\* _stable_id
StableId(offer) ==
  IF offer.id # Unknown THEN [by |-> "game", id |-> offer.id]
  ELSE [by |-> "name", id |-> Normal(offer.name)]

Entry(offer) ==
  [name |-> offer.name, aliases |-> {}, sources |-> {offer.source}, attribute |-> offer.attribute]

Extended(entry, offer) ==
  [entry EXCEPT !.aliases = @ \union ({offer.name} \ {entry.name}),
                !.sources = @ \union {offer.source},
                !.attribute = IF @ = Unknown THEN offer.attribute ELSE @]

Gather(entries, offer) ==
  LET id == StableId(offer)
  IN  [x \in DOMAIN entries \union {id} |->
         CASE x # id -> entries[x]
           [] x = id /\ id \in DOMAIN entries -> Extended(entries[id], offer)
           [] x = id /\ id \notin DOMAIN entries -> Entry(offer)]

\* Offers come in the order of contract ids.
Gathered(offers) == FoldLeft(Gather, << >>, offers)

IsFallback(id) == id.by = "name"

Named(entries, id) ==
  {x \in DOMAIN entries : ~IsFallback(x) /\ Normal(entries[x].name) = Normal(entries[id].name)}

\* An entry known by name only belongs to the one entry the game calls so.
Folds(entries, id) == IsFallback(id) /\ Cardinality(Named(entries, id)) = 1

\* The entry that takes over what is known by name only.
Home(entries, id) == IF Folds(entries, id) THEN CHOOSE x \in Named(entries, id) : TRUE ELSE id

\* build_catalog
Catalog(offers) ==
  LET entries == Gathered(offers)
      Of(id) == {x \in DOMAIN entries : Home(entries, x) = id}
  IN  [id \in {x \in DOMAIN entries : ~Folds(entries, x)} |->
         [entries[id] EXCEPT !.aliases = UNION {entries[x].aliases : x \in Of(id)},
                             !.sources = UNION {entries[x].sources : x \in Of(id)}]]

\* BlueprintCatalog.resolve_name_candidates, resolve_name
Candidates(catalog, name) ==
  {id \in DOMAIN catalog :
     \E alias \in {catalog[id].name} \union catalog[id].aliases : Normal(alias) = Normal(name)}

\* query_blueprints: a filter left empty (Unknown) admits every entry.
Matches(entry, owned, query) ==
  /\ query.ownership = "all" \/ query.ownership = IF owned THEN "owned" ELSE "unowned"
  /\ query.search \in {Unknown} \union {Normal(n) : n \in {entry.name} \union entry.aliases}
  /\ query.attribute \in {Unknown, entry.attribute}
  /\ query.mission \in {Unknown} \union entry.sources

Rows(catalog, records, query) ==
  {[id |-> id, owned |-> id \in records] :
     id \in {x \in DOMAIN catalog : Matches(catalog[x], x \in records, query)}}

\* Mutant of MarkedOwned: an item the game does not name is not looked up.
MarkedByIdentity(offers, records) == {i \in DOMAIN offers : StableId(offers[i]) \in records}

\* apply_ownership_snapshot
MarkedOwned(offers, records) ==
  LET catalog == Catalog(offers)
      Answer(o) == LET id == StableId(o)
                       found == Candidates(catalog, o.name)
                   IN  IF id \notin DOMAIN catalog /\ Cardinality(found) = 1
                       THEN CHOOSE x \in found : TRUE ELSE id
  IN  {i \in DOMAIN offers : Answer(offers[i]) \in records}

-----------------------------------------------------------------------------
\* An item marked as owned in the game's text is owned in the list too, in the
\* entry that has its source, unless it is known by a name only that several
\* entries have; and an item of an owned entry is marked, unless several
\* entries have its name.
MarksAreOwned(offers, records) ==
  LET catalog == Catalog(offers)
      all == [ownership |-> "all", search |-> Unknown, attribute |-> Unknown, mission |-> Unknown]
      owned == {row.id : row \in {x \in Rows(catalog, records, all) : x.owned}}
      marked == MarkedOwned(offers, records)
      Called(i) == Candidates(catalog, offers[i].name)
      Listed(i) == {id \in Called(i) : offers[i].source \in catalog[id].sources}
  IN  \A i \in DOMAIN offers :
        /\ i \in marked =>
             Listed(i) \intersect owned # {} \/ (offers[i].id = Unknown /\ Cardinality(Called(i)) > 1)
        /\ Listed(i) \intersect owned # {} => i \in marked \/ Cardinality(Called(i)) > 1
=============================================================================
