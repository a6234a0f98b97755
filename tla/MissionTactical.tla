--------------------------- MODULE MissionTactical ---------------------------
(***************************************************************************)
(* Tactical facts of a mission (extract/mission_tactical.py): values read  *)
(* from its own fields and from the records it refers to within a few      *)
(* hops, each with the chain of references that led to it.                 *)
(*                                                                         *)
(* A record's fields come in their order, [name, value]: a scalar for a    *)
(* value, a GUID for a reference, and for spawn settings the pair of an    *)
(* allied marker and a limit, of which either may be missing.  A contract  *)
(* record has scopes with fields and keys of their own.  A provider names  *)
(* the fields that are references, those it reads, and how far it goes.    *)
(***************************************************************************)
EXTENDS RecordGraph

\* A value's evidence: the references that were followed, then its field.
Step(record, field) == [record |-> record, field |-> field]

-----------------------------------------------------------------------------
(* _provider_candidates: a search by hops from the mission's own fields.   *)

Candidate(record, fields, i, chain) == [record |-> record, at |-> i, field |-> fields[i], chain |-> chain]

CandidatesOf(record, fields, chain) ==
  {Candidate(record, fields, i, chain) : i \in DOMAIN fields}

\* Mutant of MayFollow: one hop too many.
MayFollowOnce(provider, chain) == Len(chain) <= provider.hops

MayFollow(provider, chain) == Len(chain) < provider.hops

\* enqueue_references, for one field.
Enqueued(source, provider, from, walk, field) ==
  LET target == Target(source, field.value)
      chain == Append(from.chain, Step(from.record, field))
      Note(code) == [walk EXCEPT !.diags = @ \union {Diagnostic(code, "warning")}]
  IN  IF field.name \notin provider.references \/ field.value = Null THEN walk
      ELSE IF target = None THEN [walk EXCEPT !.diags = @ \union Complaints(source, field.value)]
      ELSE IF target \in from.ancestry THEN Note("reference-cycle")
      ELSE IF target \in walk.seen THEN walk
      ELSE IF ~ MayFollow(provider, from.chain) THEN Note("reference-hop-limit")
      ELSE [walk EXCEPT !.seen = @ \union {target},
              !.queue = Append(@, [record |-> target, chain |-> chain,
                                   ancestry |-> from.ancestry \union {target}])]

FollowAll(source, provider, from, fields, walk) ==
  LET after[i \in 0 .. Len(fields)] ==
        IF i = 0 THEN walk ELSE Enqueued(source, provider, from, after[i - 1], fields[i])
  IN  after[Len(fields)]

\* The next record of the queue.
Dequeued(source, provider, walk) ==
  LET from == Head(walk.queue)
      fields == source[from.record].fields
      rest == [walk EXCEPT !.queue = Tail(@),
                 !.candidates = @ \union CandidatesOf(from.record, fields, from.chain)]
  IN  IF walk.queue = << >> THEN walk ELSE FollowAll(source, provider, from, fields, rest)

\* Until the queue is empty: a record is in it at most once.
Walked(source, provider, walk) ==
  LET after[n \in 0 .. Cardinality(DOMAIN source)] ==
        IF n = 0 THEN walk ELSE Dequeued(source, provider, after[n - 1])
  IN  after[Cardinality(DOMAIN source)]

Candidates(source, provider, record, fields) ==
  LET start == [record |-> record, chain |-> << >>, ancestry |-> {record}]
      walk == [queue |-> << >>, seen |-> {record}, diags |-> {},
               candidates |-> CandidatesOf(record, fields, << >>)]
  IN  IF provider.references = {} \/ provider.hops = 0 THEN walk
      ELSE Walked(source, provider, FollowAll(source, provider, start, fields, walk))

-----------------------------------------------------------------------------
(* _extract_values: a value is stated if all candidates agree on it.       *)

Readable(spec, candidate) ==
  /\ candidate.field.name \in spec.names
  /\ Converted(candidate.field.value, spec.kind) # None
  /\ spec.kind \in {"integer", "float"} => Converted(candidate.field.value, spec.kind) \in spec.range

\* The least evidence, then the least place.
Best(candidates) ==
  CHOOSE c \in candidates : \A d \in candidates :
    \/ Len(c.chain) < Len(d.chain)
    \/ Len(c.chain) = Len(d.chain)
         /\ (c.record < d.record \/ (c.record = d.record /\ c.at <= d.at))

Evidence(candidate) == Append(candidate.chain, Step(candidate.record, candidate.field))

ValuesOf(spec, candidates) ==
  LET readable == {c \in candidates : Readable(spec, c)}
      values == {Converted(c.field.value, spec.kind) : c \in readable}
  IN  IF Cardinality(values) # 1 THEN {}
      ELSE {[name |-> spec.fact, value |-> v, confidence |-> spec.confidence,
             evidence |-> ToSet(Evidence(Best(readable)))] : v \in values}

ValueDiagnostics(spec, candidates) ==
  LET named == {c \in candidates : c.field.name \in spec.names}
      readable == {c \in named : Readable(spec, c)}
  IN  {d \in {Diagnostic("schema-drift", "warning")} :
         \/ readable # named
         \/ Cardinality({Converted(c.field.value, spec.kind) : c \in readable}) > 1}

\* _extract_spawn_totals: complete, bounded pairs.
Pairs(candidates) ==
  {c \in candidates :
     /\ c.field.name = "autoSpawnSettings"
     /\ c.field.value.allied \in BOOLEAN
     /\ c.field.value.limit \in 0 .. 100000}

SpawnFact(role) == IF role THEN "friendly-spawns" ELSE "hostile-spawns"

Limit(pair) == pair.field.value.limit

TotalOf(pairs) == 1000 * MapThenSumSet(Limit, pairs)

\* The group of a pair is its place, whichever way led to it.
Grouped(pairs) == {[p EXCEPT !.chain = << >>] : p \in pairs}

\* A role that a field states has no total.
Totals(candidates, stated) ==
  LET Of(role) == {c \in Pairs(candidates) : c.field.value.allied = role}
  IN  {[name |-> SpawnFact(role), value |-> TotalOf(Grouped(Of(role))), confidence |-> 3,
        evidence |-> UNION {ToSet(Evidence(c)) : c \in Of(role)}] :
         role \in {r \in BOOLEAN : Of(r) # {} /\ \A v \in stated : v.name # SpawnFact(r)}}

\* A pair that is not complete or not bounded is passed over; a limit out of
\* range is a drift of the schema.
TotalDiagnostics(candidates) ==
  LET excluded == {c \in candidates : c.field.name = "autoSpawnSettings"} \ Pairs(candidates)
      Passed(value) == value.allied = None \/ value.limit \in {None, -1}
  IN  {Diagnostic(IF Passed(c.field.value) THEN "spawn-limit" ELSE "schema-drift", "warning") :
         c \in excluded}

-----------------------------------------------------------------------------
(* MissionTacticalProvider.extract                                         *)

\* A mission is known by the GUID of its record and the place of its scope.
Views(source) ==
  UNION {{[record |-> r, fields |-> source[r].scopes[i].fields, titles |-> source[r].scopes[i].titles,
           descs |-> source[r].scopes[i].descs, id |-> << source[r].guid, i >>] : i \in DOMAIN source[r].scopes} :
         r \in Records(source, "contract")}

SharedDescriptions(views) ==
  {k \in UNION {v.descs : v \in views} : \E v, w \in views : v.id # w.id /\ k \in v.descs \intersect w.descs}

\* _fact_confidence: levels none (0) to high (3).
FactConfidence(values, keys, removed) ==
  LET least == Min({v.confidence : v \in values})
  IN  IF keys = {} THEN 1 ELSE IF removed /\ least = 3 THEN 2 ELSE least

FactOf(view, values, diags, shared) ==
  LET keys == view.titles \union (view.descs \ shared)
      removed == view.descs \intersect shared # {}
  IN  [id |-> view.id, keys |-> keys, values |-> values,
       confidence |-> FactConfidence(values, keys, removed),
       diags |-> diags \union {d \in {Diagnostic("shared-description-ambiguous", "warning")} : removed}]

\* The values of one view, with what there is to say of them.
Extracted(provider, walk) ==
  LET stated == UNION {ValuesOf(spec, walk.candidates) : spec \in provider.specs}
  IN  [values |-> stated \union IF provider.totals THEN Totals(walk.candidates, stated) ELSE {},
       diags |-> walk.diags
         \union UNION {ValueDiagnostics(spec, walk.candidates) : spec \in provider.specs}
         \union IF provider.totals THEN TotalDiagnostics(walk.candidates) ELSE {}]

ExtractOf(source, provider, view) ==
  Extracted(provider, Candidates(source, provider, view.record, view.fields))

\* A fact for each view of which something is stated.
Extract(source, provider) ==
  LET views == Views(source)
  IN  UNION {LET found == ExtractOf(source, provider, v)
             IN  IF found.values = {} THEN {}
                 ELSE {FactOf(v, found.values, found.diags, SharedDescriptions(views))} : v \in views}

Capability(source, provider, facts) ==
  LET diags == UNION {ExtractOf(source, provider, v).diags : v \in Views(source)}
  IN  IF facts = {} THEN "unavailable"
      ELSE IF \E d \in diags : Degrades(d) THEN "degraded" ELSE "available"

-----------------------------------------------------------------------------
(* Properties.                                                             *)

\* Records reached from a mission's own fields over at most n unambiguous
\* references, without coming back to its own record.
Reached(source, provider, view, n) ==
  LET Near(fields) ==
        {r \in DOMAIN source : \E i \in DOMAIN fields :
           /\ fields[i].name \in provider.references
           /\ IsUnique(source, fields[i].value) /\ r \in ByGuid(source, fields[i].value)}
      within[i \in 0 .. n] ==
        IF i = 0 THEN {}
        ELSE (Near(view.fields) \union UNION {Near(source[r].fields) : r \in within[i - 1]})
               \ {view.record}
  IN  within[n]

\* All places a value may be read from within n references: the view's own
\* fields and those of the records reached, not the other views of its record.
Places(source, provider, view, n) ==
  CandidatesOf(view.record, view.fields, << >>)
    \union UNION {CandidatesOf(r, source[r].fields, << >>) : r \in Reached(source, provider, view, n)}

ReadFrom(places, spec) == {Converted(p.field.value, spec.kind) : p \in {q \in places : Readable(spec, q)}}

\* What the fields of a specification agree on in all places it is read from.
Agreed(places, spec) == IF Cardinality(ReadFrom(places, spec)) = 1 THEN ReadFrom(places, spec) ELSE {}

\* What there is to say of a fact: what its fields agree on, or for spawns the
\* sum of the limits of all pairs in reach, each counted once.
Expected(provider, places, fact) ==
  LET agreed == UNION {Agreed(places, spec) : spec \in {s \in provider.specs : s.fact = fact}}
      Of(role) == {p \in Pairs(places) : p.field.value.allied = role}
  IN  IF agreed # {} \/ ~ provider.totals THEN agreed
      ELSE {TotalOf(Of(role)) : role \in {r \in BOOLEAN : SpawnFact(r) = fact /\ Of(r) # {}}}

\* Evidence is a chain: each step's reference names the record of the next,
\* the first is the mission's own, none is visited twice.
IsChain(source, view, value) ==
  LET records == {s.record : s \in value.evidence}
  IN  /\ view.record \in records
      /\ \A r \in records \ {view.record} : \E s \in value.evidence :
           s.field.name # "autoSpawnSettings" /\ s.record # r /\ Target(source, s.field.value) = r

\* Evidence of a stated field is no longer than the shortest way to a field
\* that states it.
IsShortest(source, provider, view, places, value) ==
  \A spec \in {x \in provider.specs : x.fact = value.name /\ Agreed(places, x) # {}} :
    \A n \in 0 .. Cardinality(value.evidence) - 2 :
      \A p \in Places(source, provider, view, n) : ~ Readable(spec, p)

\* No two missions are matched by the same description.
DescriptionsIdentify(views, facts) ==
  \A f, g \in facts : f # g =>
    \A v, w \in views : v.id = f.id /\ w.id = g.id =>
      f.keys \intersect v.descs \intersect g.keys \intersect w.descs \subseteq v.titles \union w.titles

\* A catalog that is not degraded has met no field with two values.
AvailableIsSound(source, provider, views, facts) ==
  Capability(source, provider, facts) = "available" =>
    \A view \in views : \A places \in {Places(source, provider, view, provider.hops)} :
      \A spec \in provider.specs : ~ Cardinality(ReadFrom(places, spec)) > 1

\* What a mission's tactical facts state is what every readable field within
\* reach agrees on, on the evidence of a shortest chain of references; spawn
\* limits that no field states are summed once for each pair however many ways
\* lead to it.
StatedIsAgreed(source, provider) ==
  \A facts \in {Extract(source, provider)} : \A views \in {Views(source)} :
    /\ DescriptionsIdentify(views, facts)
    /\ AvailableIsSound(source, provider, views, facts)
    /\ \A view \in views :
         \A values \in {UNION {f.values : f \in {x \in facts : x.id = view.id}}} :
         \A places \in {Places(source, provider, view, provider.hops)} :
           /\ \A fact \in {s.fact : s \in provider.specs} \union {SpawnFact(r) : r \in BOOLEAN} :
                {v.value : v \in {x \in values : x.name = fact}} = Expected(provider, places, fact)
           /\ \A value \in values : IsChain(source, view, value)
                                    /\ IsShortest(source, provider, view, places, value)
=============================================================================
