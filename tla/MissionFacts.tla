----------------------------- MODULE MissionFacts -----------------------------
(***************************************************************************)
(* The rewards of a mission and the records that state them:               *)
(* extract_mission_facts of extract/dataforge.py.                          *)
(*                                                                         *)
(* The nested fields of a record are reduced to what is read of them.  A   *)
(* contract generator has scopes, one for each variant: the keys of its    *)
(* titles and descriptions, the reward lists of its outcomes, references   *)
(* to blueprint pools with their chances, and to items.  A reward record   *)
(* has amounts, a pool references blueprints, a blueprint entities, an     *)
(* entity names: localization keys with the rank of the field they are in. *)
(* Evidence is the set of the records a fact is taken from.                *)
(***************************************************************************)
EXTENDS RecordGraph

-----------------------------------------------------------------------------
(* Definitions the contracts refer to.                                     *)

Amount(record) ==
  IF record.amounts = << >> THEN None ELSE Converted(record.amounts[1], "integer")

\* _build_reputation_lookup: by GUID, if no other record has it.
Amounts(source) ==
  LET usable == {r \in Records(source, "reward") :
                   Amount(source[r]) # None /\ IsUnique(source, source[r].guid)}
  IN  [g \in {source[r].guid : r \in usable} |-> Amount(source[Target(source, g)])]

\* _display_name: the best localization key, or the name of the file.
DisplayName(source, r) ==
  LET names == {n \in source[r].names : n.key # "placeholder"}
  IN  IF names = {} THEN [key |-> None, file |-> r]
      ELSE [key |-> (CHOOSE n \in names : \A m \in names : n.rank <= m.rank).key, file |-> None]

\* Only the first entity of a blueprint counts.
Entity(record) == {record.entities[i] : i \in DOMAIN record.entities \intersect {1}}

\* The record that names a blueprint: its entity, or the blueprint itself.
NamedBy(source, blueprint) ==
  LET named == {Target(source, e) : e \in Entity(source[blueprint])} \ {None}
  IN  IF named = {} THEN blueprint ELSE CHOOSE r \in named : TRUE

Item(source, named) ==
  [name |-> DisplayName(source, named), id |-> source[named].guid, record |-> named]

\* What one reference of a pool adds: an item of a new name.
WithReference(source, record, pool, reference) ==
  LET blueprint == Target(source, reference)
      named == NamedBy(source, blueprint)
      known == \E i \in DOMAIN pool.items : pool.items[i].name = Item(source, named).name
  IN  IF reference = Null THEN pool
      ELSE IF blueprint = None THEN [pool EXCEPT !.diags = @ \union Complaints(source, reference)]
      ELSE [items |-> IF known THEN pool.items ELSE Append(pool.items, Item(source, named)),
            evidence |-> pool.evidence \union {record} \union ({blueprint} \ {named})
              \union IF known THEN {} ELSE {named},
            diags |-> pool.diags
              \union UNION {Complaints(source, e) : e \in Entity(source[blueprint])}
              \union {d \in {Diagnostic("unexpected-blueprint-target", "warning")} :
                        source[blueprint].kind # "blueprint"}
              \union {d \in {Diagnostic("blueprint-name-fallback", "warning")} :
                        ~ known /\ DisplayName(source, named).key = None}]

\* _build_blueprint_pools
Pool(source, record) ==
  FoldLeft(LAMBDA pool, reference : WithReference(source, record, pool, reference),
           [items |-> << >>, evidence |-> {},
            diags |-> {d \in {Diagnostic("schema-drift", "warning")} :
                         source[record].references = << >>}],
           source[record].references)

Pools(source) ==
  [g \in {source[r].guid : r \in {x \in Records(source, "pool") : IsUnique(source, source[x].guid)}}
     |-> Pool(source, Target(source, g))]

-----------------------------------------------------------------------------
(* Rewards of one variant.                                                 *)

NoReward == [values |-> << >>, evidence |-> {}, diags |-> {}]

\* The rewards of the first outcome that have the scope of its first.
Primary(outcomes) ==
  LET rewards == IF outcomes = << >> THEN << >>
                 ELSE SelectSeq(outcomes[1], LAMBDA a : a.reward # Null)
  IN  SelectSeq(rewards, LAMBDA a : a.scope = rewards[1].scope)

Counted(source, amounts, primary) ==
  SelectSeq(primary, LAMBDA a : Target(source, a.reward) # None /\ a.reward \in DOMAIN amounts)

\* _mission_reputation
Reputation(source, amounts, outcomes) ==
  LET primary == Primary(outcomes)
      counted == Counted(source, amounts, primary)
  IN  [values |-> IF counted = << >> THEN << >>
                  ELSE << FoldLeft(LAMBDA sum, a : sum + amounts[a.reward], 0, counted) >>,
       evidence |-> {Target(source, counted[i].reward) : i \in DOMAIN counted},
       diags |-> UNION {Complaints(source, primary[i].reward) : i \in DOMAIN primary}
         \union IF primary = << >> /\ outcomes # << >> /\ outcomes[1] # << >>
                THEN {Diagnostic("schema-drift", "warning")} ELSE {}]

\* _build_broker_reputation: broker entries, with what their outcomes give.
Brokers(source, amounts) ==
  {[record |-> r, guid |-> source[r].guid, keys |-> source[r].keys \ {"placeholder"},
    reward |-> Reputation(source, amounts, source[r].outcomes)] : r \in Records(source, "broker")}

\* Of entries with the same GUID the first, as keys and entries are met.
Linked(brokers, keys) ==
  LET matching == {b \in brokers : b.reward.values # << >> /\ b.keys \intersect ToSet(keys) # {}}
      Met(b) == Min({i \in DOMAIN keys : keys[i] \in b.keys})
      Before(b, c) == Met(b) < Met(c) \/ (Met(b) = Met(c) /\ b.record < c.record)
      first == {b \in matching : \A c \in matching : c.guid = b.guid => c = b \/ Before(b, c)}
  IN  SetToSortSeq(first, Before)

\* Without a reward of its own, a variant has those of its broker entries.
FromBrokers(linked, own) ==
  FoldLeft(LAMBDA sum, b :
      [values |-> IF b.reward.values[1] \in ToSet(sum.values) THEN sum.values
                  ELSE sum.values \o b.reward.values,
       evidence |-> sum.evidence \union {b.record} \union b.reward.evidence,
       diags |-> sum.diags \union b.reward.diags],
    own, linked)

\* _mission_blueprints
Blueprints(source, pools, references) ==
  LET known == SelectSeq(references, LAMBDA p : p.pool \in DOMAIN pools)
      Chance(p) == IF p.chance = None THEN None ELSE Converted(p.chance, "float")
      DiagsOf(p) ==
        Complaints(source, p.pool)
          \union IF p.pool \in DOMAIN pools
                 THEN pools[p.pool].diags
                        \union IF p.chance # None /\ Chance(p) = None
                               THEN {Diagnostic("invalid-blueprint-chance", "warning")} ELSE {}
                 ELSE IF Target(source, p.pool) # None
                 THEN {Diagnostic("unindexed-blueprint-pool", "warning")} ELSE {}
  IN  [values |-> [i \in DOMAIN known |->
                     [pool |-> known[i].pool, items |-> pools[known[i].pool].items,
                      chance |-> Chance(known[i])]],
       evidence |-> UNION {pools[known[i].pool].evidence : i \in DOMAIN known},
       diags |-> UNION {DiagsOf(references[i]) : i \in DOMAIN references}]

\* _mission_items: rewarded entities, each name once.
Items(source, references) ==
  FoldLeft(LAMBDA sum, reference :
      LET r == Target(source, reference)
          name == DisplayName(source, r)
      IN  IF r = None THEN [sum EXCEPT !.diags = @ \union Complaints(source, reference)]
          ELSE IF \E i \in DOMAIN sum.values : sum.values[i].name = name THEN sum
          ELSE [values |-> Append(sum.values, Item(source, r)),
                evidence |-> sum.evidence \union {r},
                diags |-> sum.diags
                  \union {d \in {Diagnostic("item-name-fallback", "warning")} : name.key = None}],
    NoReward, references)

-----------------------------------------------------------------------------
(* extract_mission_facts                                                   *)

\* Its title is evidence too.
Confidence(titles, diags) ==
  IF titles = << >> \/ \E d \in diags : d.severity = "error" THEN "low"
  ELSE IF diags # {} THEN "medium" ELSE "high"

Stated(source, scope, own, pools, brokers) ==
  LET reputation == IF own.values # << >> THEN own
                    ELSE FromBrokers(Linked(brokers, scope.titles \o scope.descs), own)
      blueprints == Blueprints(source, pools, scope.pools)
      items == Items(source, scope.items)
      diags == reputation.diags \union blueprints.diags \union items.diags
                 \union IF scope.titles = << >> THEN {Diagnostic("mission-title-missing", "warning")}
                        ELSE {}
      evidence == reputation.evidence \union blueprints.evidence \union items.evidence
  IN  [reputation |-> reputation.values, pools |-> blueprints.values, items |-> items.values,
       evidence |-> evidence, diags |-> diags,
       confidence |-> Confidence(scope.titles, diags)]

\* One fact for each variant, named << record, number >>.
Facts(source) ==
  LET amounts == Amounts(source)
      pools == Pools(source)
      brokers == Brokers(source, amounts)
      variants == UNION {{<< r, i >> : i \in DOMAIN source[r].scopes} :
                           r \in Records(source, "contract")}
  IN  [v \in variants |->
         LET scope == source[v[1]].scopes[v[2]]
         IN  Stated(source, scope, Reputation(source, amounts, scope.outcomes), pools, brokers)]

\* The report on the whole source.
Status(source, facts) ==
  LET amounts == Amounts(source)
      pools == Pools(source)
      diags == IndexDiagnostics(source)
        \union {d \in {Diagnostic("schema-drift", "warning")} :
                  \E r \in Records(source, "reward") : source[r].amounts = << >>}
        \union {d \in {Diagnostic("provider-missing", "warning")} :
                  DOMAIN amounts = {} \/ DOMAIN pools = {}}
        \union UNION {pools[g].diags : g \in DOMAIN pools}
        \union UNION {b.reward.diags : b \in Brokers(source, amounts)}
        \union UNION {facts[v].diags : v \in DOMAIN facts}
      Recognized(v) ==
        \/ source[v[1]].scopes[v[2]].titles \o source[v[1]].scopes[v[2]].descs # << >>
        \/ facts[v].reputation # << >> \/ facts[v].pools # << >> \/ facts[v].items # << >>
  IN  IF ~ \E v \in DOMAIN facts : Recognized(v) THEN "unavailable"
      ELSE IF \E d \in diags : Degrades(d) THEN "degraded"
      ELSE "available"

-----------------------------------------------------------------------------
(* Properties.                                                             *)

\* Exactly one record has this GUID, and it names the item.
Names(source, reference, item) ==
  /\ IsUnique(source, reference)
  /\ \E r \in ByGuid(source, reference) :
       \/ item.record = r
       \/ \E e \in Entity(source[r]) : IsUnique(source, e) /\ item.record \in ByGuid(source, e)

ItemsAreTraced(source, items, references) ==
  /\ \A i \in DOMAIN items : \E reference \in ToSet(references) : Names(source, reference, items[i])
  /\ \A i, j \in DOMAIN items : items[i].name = items[j].name => i = j

PoolsAreTraced(source, fact) ==
  \A p \in ToSet(fact.pools) :
    /\ IsUnique(source, p.pool)
    /\ \A r \in ByGuid(source, p.pool) : ItemsAreTraced(source, p.items, source[r].references)

\* The sum of the amounts that are known for the scope of the first reward.
TotalOf(source, outcomes) ==
  LET listed == SelectSeq(outcomes[1], LAMBDA a : a.reward # Null)
      counts == {i \in DOMAIN listed :
                   /\ listed[i].scope = listed[1].scope
                   /\ IsUnique(source, listed[i].reward)
                   /\ \E r \in ByGuid(source, listed[i].reward) :
                        source[r].kind = "reward" /\ Amount(source[r]) # None}
      Worth(i) == Amount(source[CHOOSE r \in ByGuid(source, listed[i].reward) : TRUE])
  IN  [known |-> counts # {}, total |-> MapThenSumSet(Worth, counts)]

TotalsAreTraced(source, scope, fact) ==
  IF scope.outcomes # << >> /\ TotalOf(source, scope.outcomes).known
  THEN fact.reputation = << TotalOf(source, scope.outcomes).total >>
  ELSE \A total \in ToSet(fact.reputation) : \E r \in Records(source, "broker") :
         /\ (source[r].keys \ {"placeholder"}) \intersect ToSet(scope.titles \o scope.descs) # {}
         /\ source[r].outcomes # << >>
         /\ TotalOf(source, source[r].outcomes) = [known |-> TRUE, total |-> total]

\* At high confidence no reference was left out, except rewards whose record
\* states no amount.
HighIsWhole(source, scope, fact) ==
  fact.confidence = "high" =>
    /\ \A a \in ToSet(Primary(scope.outcomes)) : IsUnique(source, a.reward)
    /\ \A p \in ToSet(scope.pools) :
         /\ \E i \in DOMAIN fact.pools : fact.pools[i].pool = p.pool
         /\ \A r \in ByGuid(source, p.pool) : \A b \in ToSet(source[r].references) :
              b # Null => IsUnique(source, b)
    /\ \A reference \in ToSet(scope.items) : IsUnique(source, reference)

\* The records a contract's facts may depend on.
Referenced(source, r) ==
  LET scopes == ToSet(source[r].scopes)
      Rewards(outcomes) == {a.reward : a \in UNION {ToSet(outcomes[i]) : i \in DOMAIN outcomes}}
  IN  UNION {Rewards(s.outcomes) \union ToSet(s.items) \union {p.pool : p \in ToSet(s.pools)} : s \in scopes}
        \union Rewards(source[r].outcomes) \union ToSet(source[r].references) \union ToSet(source[r].entities)

WithReferenced(source, records) ==
  records \union UNION {ByGuid(source, g) : g \in UNION {Referenced(source, r) : r \in records}}

Concerning(source, contract) ==
  LET keys == UNION {ToSet(s.titles \o s.descs) : s \in ToSet(source[contract].scopes)}
      linked == {r \in Records(source, "broker") : source[r].keys \intersect keys # {}}
  IN  WithReferenced(source, WithReferenced(source, WithReferenced(source, {contract} \union linked)))

\* What a contract is said to give does not depend on records it has nothing
\* to do with, however damaged they are.
FactsAreLocal(source, facts) ==
  \A contract \in Records(source, "contract") :
    \A alone \in {Facts(Restrict(source, Concerning(source, contract)))} :
      \A v \in DOMAIN facts : v[1] = contract => alone[v] = facts[v]

\* Every reward a mission is said to give is stated by records that its
\* references name without ambiguity, and by no others.
RewardsAreTraced(source) ==
  \A facts \in {Facts(source)} :
    /\ \A v \in DOMAIN facts :
         LET scope == source[v[1]].scopes[v[2]]
         IN  /\ PoolsAreTraced(source, facts[v])
             /\ ItemsAreTraced(source, facts[v].items, scope.items)
             /\ TotalsAreTraced(source, scope, facts[v])
             /\ HighIsWhole(source, scope, facts[v])
    /\ FactsAreLocal(source, facts)
    /\ Status(source, facts) = "available" => IndexDiagnostics(source) = {}
=============================================================================
