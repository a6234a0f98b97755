---------------------------- MODULE Presentation ----------------------------
(***************************************************************************)
(* What the generated text says, and on whose word: tags for display names *)
(* (entity_presentation.py, render/renderer.py entity_tag), tags, routes   *)
(* and mining tokens in mission titles (renderer.py, route_presentation.py)*)
(* rules for one reviewed build (legacy_pack.py), and render_all, which    *)
(* puts them together.                                                     *)
(*                                                                         *)
(* A text is its stock text and the parts added to it; evidence is a set   *)
(* of opaque references.  Widths are those of the rendered parts, the      *)
(* separator is one character.  Templates are the built-in ones.           *)
(***************************************************************************)
EXTENDS Integers, Sequences, FiniteSets, FiniteSetsExt, SequencesExt, Functions

CONSTANTS None,
          SupportedBuild,       \* legacy_pack.SUPPORTED_BUILD
          Broken,               \* a text validate_value finds errors in
          Wrong,                \* a value of the wrong type or range
          Width(_)              \* the length of a part

\* LocalizationFile.resolve_key: 15% of keys carry a ",P".
ResolveKey(keys, key) ==
  IF key \in keys THEN key
  ELSE LET other == [key EXCEPT !.plural = ~@] IN IF other \in keys THEN other ELSE None

-----------------------------------------------------------------------------
(* entity_presentation.py.  A fact is a record of the game: its kind and   *)
(* what its path says of it, the key of its name, and its values.          *)

Kind(fact) ==
  CASE fact.kind = "journal" -> None
    [] fact.kind = "ship-weapon" /\ fact.inMissiles -> "missile"
    [] OTHER -> fact.kind

\* _LOCALIZATION_PREFIXES
Families(kind) ==
  CASE kind = "vehicle" -> {"vehicle_name"}
    [] kind = "commodity" -> {"commodity_name", "item_name"}
    [] OTHER -> {"item_name"}

Joins(catalog, strings) ==
  LET joined == {[fact |-> f, key |-> ResolveKey(DOMAIN strings, f.name)] :
                   f \in {x \in catalog : Kind(x) # None /\ x.name # None}}
  IN  {j \in joined : j.key # None /\ j.key.family \in Families(Kind(j.fact))}

\* The elements of a sequence that pass a test, in their order.
Only(s, Test(_)) == FlattenSeq([i \in DOMAIN s |-> IF Test(s[i]) THEN << s[i] >> ELSE << >>])

\* _attribute: every record agrees, and the value is a sane one.
Attribute(facts, name) ==
  LET values == {f.values[name] : f \in facts}
  IN  IF /\ \A f \in facts : name \in DOMAIN f.values
         /\ Cardinality(values) = 1
         /\ Wrong \notin values
      THEN CHOOSE v \in values : TRUE
      ELSE None

\* _path_subtype: every path names one label, the same.
PathSubtype(facts) ==
  IF \A f, g \in facts : Cardinality(f.path) = 1 /\ f.path = g.path
  THEN CHOOSE l \in UNION {f.path : f \in facts} : TRUE
  ELSE None

AttributesOf(facts, names) ==
  LET value == [n \in names |-> IF n = "subtype" THEN PathSubtype(facts) ELSE Attribute(facts, n)]
  IN  [n \in {x \in names : value[x] # None} |->
         [value |-> value[n], evidence |-> {<< f.id, n >> : f \in facts}]]

\* attach_entity_presentation
Entities(catalog, strings, names) ==
  LET joins == Joins(catalog, strings)
      Of(key) == {j.fact : j \in {x \in joins : x.key = key}}
      Unambiguous(key) == Cardinality({Kind(f) : f \in Of(key)}) = 1
  IN  {[key |-> k, kind |-> CHOOSE x \in {Kind(f) : f \in Of(k)} : TRUE,
        attributes |-> AttributesOf(Of(k), names),
        evidence |-> {<< f.id, "name" >> : f \in Of(k)}] :
         k \in {j.key : j \in {x \in joins : Unambiguous(x.key) /\ strings[x.key] # None}}}

-----------------------------------------------------------------------------
(* Tags.  Parts are taken in the chosen order; one that does not fit is    *)
(* left out, and a later, shorter one may still fit.                       *)

Tags == [parts |-> << >>, width |-> 0, evidence |-> {}]

Taken(tags, part) ==
  LET added == Width(part) + IF tags.width > 0 THEN 1 ELSE 0
  IN  [parts |-> Append(tags.parts, part), width |-> tags.width + added,
       evidence |-> tags.evidence \union part.evidence]

Fitted(tags, part, limit) ==
  LET taken == Taken(tags, part) IN IF taken.width > limit THEN tags ELSE taken

FittedAll(parts, limit) ==
  LET tags[n \in 0 .. Len(parts)] ==
        IF n = 0 THEN Tags ELSE Fitted(tags[n - 1], parts[n], limit)
  IN  tags[Len(parts)]

EntityParts(entity, fields) ==
  LET PartOf(field) ==
        IF field = "kind" THEN [value |-> entity.kind, evidence |-> entity.evidence]
        ELSE entity.attributes[field]
      HasPart(field) ==
        field = "kind" \/ (field \in DOMAIN entity.attributes
                           /\ (field = "subtype" => entity.attributes[field].value # entity.kind))
      shown == Only(fields, HasPart)
  IN  [i \in DOMAIN shown |-> PartOf(shown[i])]

\* RenderOptions.entity_tag; the brackets take two characters.
EntityTag(entity, opts) ==
  IF entity.kind \notin opts.entityKinds THEN Tags
  ELSE FittedAll(EntityParts(entity, opts.entityFields), opts.limit - 2)

\* _title_group_details: of a group's facts the preferred one is shown.
Preferred(group) ==
  CASE group = "ace" -> << "ace-pilot", "ace-probability" >>
    [] group = "difficulty" -> << "difficulty", "difficulty-risk" >>
    [] OTHER -> << group >>

GroupParts(contract, group) ==
  LET found == Only(Preferred(group), LAMBDA n : n \in DOMAIN contract.details)
      detail == contract.details[found[1]]
  IN  IF found = << >> \/ detail.value = "no" THEN << >>  \* no ace: nothing to say
      ELSE << detail >>

TitleTags(contract, opts) ==
  FittedAll(FlattenSeq([i \in DOMAIN opts.titleFields |-> GroupParts(contract, opts.titleFields[i])]),
            opts.limit)

-----------------------------------------------------------------------------
(* Routes and mining tokens: route_presentation.py.  A description is a    *)
(* sequence of mission tokens: endpoints ("from", "to"), bare tokens that  *)
(* stand for other strings ("nested"), and mined resources ("resource").   *)

Tokens(text, role) == Only(text, LAMBDA t : t.role = role)

Names(tokens) == {tokens[i].name : i \in DOMAIN tokens}

\* _agreed, _strict_agreed: the tokens of the first that all groups name.
Agreed(groups) ==
  IF groups = << >> THEN << >>
  ELSE Only(groups[1], LAMBDA t : \A i \in DOMAIN groups : t.name \in Names(groups[i]))

IsEndpoint(token) == token.role \in {"from", "to"}

\* attach_nested_route_expansions: what all strings of that name agree on.
Expansion(strings, token) ==
  IF token.name \notin DOMAIN strings THEN << >>
  ELSE Agreed([i \in DOMAIN strings[token.name] |-> Only(strings[token.name][i], IsEndpoint)])

Endpoints(strings, text, role) ==
  FlattenSeq([i \in DOMAIN text |->
    IF text[i].role = role THEN << text[i] >>
    ELSE IF text[i].role = "nested" THEN Tokens(Expansion(strings, text[i]), role)
    ELSE << >>])

\* Descriptions without an endpoint of this role do not contribute.
Shared(strings, descs, role) ==
  Agreed(Only([i \in DOMAIN descs |-> Endpoints(strings, descs[i], role)],
              LAMBDA group : group # << >>))

\* token_evidence: where the descriptions name them; what a nested string says
\* is put at the token that names it.  The limits on tokens, strings and their
\* lengths are left out.
TokenEvidence(contract, names) ==
  {<< i, n >> : i \in {x \in DOMAIN contract.descs : Names(contract.descs[x]) \intersect names # {}},
                n \in names}

\* The tokens of a mission that stand for strings which name one of the places.
Standing(strings, contract, places) ==
  {n \in UNION {Names(Tokens(d, "nested")) : d \in ToSet(contract.descs)} :
     Names(Expansion(strings, [name |-> n, role |-> "nested"])) \intersect places # {}}

\* route_fragment; a title that names an endpoint itself gets none.
Route(strings, contract) ==
  LET Of(role) == Names(Shared(strings, contract.descs, role))
      Evidence(places) ==
        TokenEvidence(contract, places \union Standing(strings, contract, places))
  IN  [value |-> [role \in {"from", "to"} |-> Of(role)],
       evidence |-> Evidence(UNION {Of(role) : role \in {"from", "to"}})]

HasRoute(strings, contract) ==
  contract.haul /\ \E role \in {"from", "to"} : Shared(strings, contract.descs, role) # << >>

\* resource_signature
Signature(contract) ==
  LET names == UNION {Names(Tokens(contract.descs[i], "resource")) : i \in DOMAIN contract.descs}
  IN  [value |-> [resources |-> names], evidence |-> TokenEvidence(contract, names)]

HasSignature(contract) == contract.scan /\ Signature(contract).value.resources # {}

-----------------------------------------------------------------------------
(* Titles and descriptions.                                                *)

\* mission_title_base: a route that fits beside the tags takes the title's place.
Replaces(strings, contract, tags, opts) ==
  /\ opts.routes = "replace" /\ HasRoute(strings, contract)
  /\ Taken(tags, Route(strings, contract)).width <= opts.limit

\* mission_title_suffix: what follows the tags, counted from their width.
TitleSuffix(strings, contract, tags, opts) ==
  LET Routed(start) ==
        IF opts.routes = "append" /\ HasRoute(strings, contract)
        THEN Fitted(start, Route(strings, contract), opts.limit) ELSE start
      Marked(routed) ==
        IF HasSignature(contract) THEN Fitted(routed, Signature(contract), opts.limit) ELSE routed
  IN  Marked(Routed([Tags EXCEPT !.width = tags.width])).parts

\* Mutant of MissionEvidence: a route of the contract is taken for a shown one.
EvidenceOfAnyRoute(strings, contract, tags, suffix, opts) ==
  UNION {tags.evidence,
         IF opts.routes # "off" /\ HasRoute(strings, contract)
         THEN Route(strings, contract).evidence ELSE {},
         IF Signature(contract) \in ToSet(suffix) THEN Signature(contract).evidence ELSE {}}

\* mission_evidence, of a title: looks for the route and the signature in what
\* follows the tags, and measures a replacing route once more.
MissionEvidence(strings, contract, tags, suffix, opts) ==
  LET routeIsShown ==
        \/ /\ opts.routes = "append" /\ HasRoute(strings, contract)
           /\ Route(strings, contract) \in ToSet(suffix)
        \/ /\ opts.routes = "replace" /\ HasRoute(strings, contract)
           /\ Taken(tags, Route(strings, contract)).width <= opts.limit
  IN  UNION {tags.evidence,
             IF routeIsShown THEN Route(strings, contract).evidence ELSE {},
             IF HasSignature(contract) /\ Signature(contract) \in ToSet(suffix)
             THEN Signature(contract).evidence ELSE {}}

\* Of title.j2 the tags, the title and what follows; the prefixes of organization
\* and rank and its tags of reputation and blueprints are outside the width.
Composed(strings, contract, base, tags, suffix, opts) ==
  LET replaced == Replaces(strings, contract, tags, opts)
      replacing == IF replaced THEN << Route(strings, contract) >> ELSE << >>
  IN  [base |-> IF replaced THEN None ELSE base,
       parts |-> (tags.parts \o suffix) \o replacing,
       evidence |-> contract.evidence
                      \union MissionEvidence(strings, contract, tags, suffix, opts)]

Title(strings, contract, base, opts) ==
  LET Beside(tags) ==
        Composed(strings, contract, base, tags, TitleSuffix(strings, contract, tags, opts), opts)
  IN  Beside(TitleTags(contract, opts))

\* mission_detail_lines, desc.j2
Description(contract, base) ==
  LET shown == {contract.details[n] : n \in DOMAIN contract.details}
  IN  [base |-> base, parts |-> SetToSeq(shown),
       evidence |-> contract.evidence \union UNION {d.evidence : d \in shown}]

\* legacy_pack.py: rules for one build, each bound to the text it replaces.
LegacyTexts(strings, build, rules) ==
  IF build # SupportedBuild THEN << >>
  ELSE LET bound == {r \in rules : LET k == ResolveKey(DOMAIN strings, r.key)
                                    IN  k # None /\ strings[k] = r.expected}
       IN  [key \in {r.key : r \in bound} |->
              LET r == CHOOSE x \in bound : x.key = key
              IN  [base |-> IF r.replaces THEN None ELSE r.expected,
                   parts |-> << [value |-> r.text, evidence |-> {r.key}] >>, evidence |-> {r.key}]]

\* Texts of distinct keys; an earlier text of the same key stands.
Emitted(result, texts) ==
  LET earlier == DOMAIN result.values
      new == {key \in DOMAIN texts \ earlier : texts[key].base # Broken}
  IN  [values |-> [key \in earlier \union new |->
                     IF key \in earlier THEN result.values[key] ELSE texts[key]],
       skipped |-> result.skipped \union
         {key \in DOMAIN texts \ new : key \in earlier => result.values[key] # texts[key]}]

\* Renderer.render_all
RenderAll(game, opts) ==
  LET ofContracts ==
        [key \in DOMAIN game.contracts |->
           LET c == game.contracts[key]
           IN  IF key.kind = "title" THEN Title(game.nested, c, game.strings[key], opts)
               ELSE Description(c, game.strings[key])]
      entities == Entities(game.catalog, game.strings, ToSet(opts.entityFields) \ {"kind"})
      tagged == {e \in entities : EntityTag(e, opts).parts # << >>}
      ofEntities ==
        [key \in {e.key : e \in tagged} |->
           LET e == CHOOSE x \in tagged : x.key = key
           IN  [base |-> game.strings[key], parts |-> EntityTag(e, opts).parts,
                evidence |-> EntityTag(e, opts).evidence]]
      ofLegacy == IF opts.legacy THEN LegacyTexts(game.strings, game.build, game.rules) ELSE << >>
      first == Emitted([values |-> << >>, skipped |-> {}], ofContracts)
  IN  Emitted(Emitted(first, ofEntities), ofLegacy)

-----------------------------------------------------------------------------
(* Properties.                                                             *)

WidthOf(parts) ==
  LET width[n \in 0 .. Len(parts)] ==
        IF n = 0 THEN 0 ELSE width[n - 1] + Width(parts[n]) + IF n > 1 THEN 1 ELSE 0
  IN  width[Len(parts)]

Places(text) == Names(Only(text, IsEndpoint))

\* A description names a place itself, or through a string all of whose texts
\* name it.
SaysPlace(strings, text, place) ==
  \/ place \in Places(text)
  \/ \E t \in ToSet(Tokens(text, "nested")) :
       /\ t.name \in DOMAIN strings /\ strings[t.name] # << >>
       /\ \A variant \in ToSet(strings[t.name]) : place \in Places(variant)

\* A tag of a name: every record that gives something this name states it.
TagIsAgreed(game, key, part) ==
  LET named == {f \in game.catalog :
                  /\ f.name # None /\ ResolveKey(DOMAIN game.strings, f.name) = key
                  /\ Kind(f) # None /\ key.family \in Families(Kind(f))}
  IN  \/ \A f \in named : Kind(f) = part.value
      \/ \A f \in named : f.path = {part.value}
      \/ \E n \in UNION {DOMAIN f.values : f \in named} :
           \A f \in named : n \in DOMAIN f.values /\ f.values[n] = part.value

\* A place of a route: every description that has an endpoint of this role
\* names it.
PlaceIsAgreed(game, contract, role, place) ==
  \A d \in ToSet(contract.descs) :
    SaysPlace(game.nested, d, place) \/ Endpoints(game.nested, d, role) = << >>

IsRoute(game, key, part) ==
  /\ key \in DOMAIN game.contracts /\ key.kind = "title"
  /\ part = Route(game.nested, game.contracts[key])

\* A text's parts fit, are agreed on, and its evidence is theirs.  What replaces
\* a title, its last part, does not count.
ShowsOnlyAgreed(game, opts, key, text, own) ==
  /\ text.evidence = own \union UNION {p.evidence : p \in ToSet(text.parts)}
  /\ WidthOf(IF text.base = None THEN Front(text.parts) ELSE text.parts)
       <= opts.limit - IF key.kind = "title" THEN 0 ELSE 2
  /\ \A part \in ToSet(text.parts) :
       IF key.kind # "title" THEN TagIsAgreed(game, key, part)
       ELSE IsRoute(game, key, part) =>
              \A role \in {"from", "to"} : \A place \in part.value[role] :
                PlaceIsAgreed(game, game.contracts[key], role, place)

\* What is added to a name or a title is said by every record or description
\* it is taken from, fits the configured width, and is written with the
\* evidence of exactly the parts that are shown.
OnlyAgreedIsShown(game, opts) ==
  \A rendered \in {RenderAll(game, opts).values} :
    \A key \in {k \in DOMAIN rendered : k.kind # "desc" /\ k \notin {r.key : r \in game.rules}} :
      ShowsOnlyAgreed(game, opts, key, rendered[key],
                      IF key \in DOMAIN game.contracts THEN game.contracts[key].evidence ELSE {})
=============================================================================
