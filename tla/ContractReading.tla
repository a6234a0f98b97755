--------------------------- MODULE ContractReading ---------------------------
(***************************************************************************)
(* From the game's strings and its mission records to a set of contracts:  *)
(* user-authored strings for keys the build lacks (fallbacks.py), contracts*)
(* found by the shape of keys and by the records that name them            *)
(* (sources/game_strings.py), and facts of several providers joined to     *)
(* them (enhancements.py), in the order of operations.py.                  *)
(*                                                                         *)
(* A key is what naming.py splits it into: a stem, whether it is spelled   *)
(* with capitals, the kind its name states, and a variant number.  Stem 0  *)
(* stands for the namespaces that are no missions ("ui", "item", ...).     *)
(* Strings are a function from keys to what the rules ask of a text.  A    *)
(* fact is a DataForge mission; its rewards and the tactical details are   *)
(* opaque.  Facts and providers come sorted by their ids.                  *)
(***************************************************************************)
EXTENDS Integers, Sequences, FiniteSetsExt, SequencesExt, Functions

CONSTANTS Unstated,     \* a kind no name states, a text no detail has
          Placeholder,  \* LOC_UNINITIALIZED, LOC_PLACEHOLDER
          Refused       \* FallbackError

\* What naming.split_key makes of a name.
IsName(key) == key \in [stem : Nat, upper : BOOLEAN, kind : {"title", "desc", Unstated}, n : Nat]

ASSUME ReadingAssumption == Unstated \notin {"title", "desc"} /\ ~ IsName(Placeholder)

\* casefold
Folded(key) == IF key = Placeholder THEN key ELSE [key EXCEPT !.upper = FALSE]

\* naming.split_key: the key without its kind and variant.
Base(key) == [stem |-> key.stem, upper |-> key.upper]

LooksLikeContract(key) == key.stem # 0 /\ key.kind # Unstated

ValidTyped(key) == key # Placeholder /\ key.stem # 0

KeysOf(fact) == fact.titles \union fact.descs
Titles(fact) == {Folded(k) : k \in {x \in fact.titles : ValidTyped(x)}}
Descs(fact)  == {Folded(k) : k \in {x \in fact.descs : ValidTyped(x)}}

-----------------------------------------------------------------------------
(* Keys of one mission belong together: game_strings._evidence_aliases.    *)

\* Mutant of Union: a group takes only keys no other group has.
UnionOfNew(groups, keys) == groups \union ({keys \ UNION groups} \ {{}})

Union(groups, keys) ==
  LET met == {g \in groups : g \intersect keys # {}}
  IN  (groups \ met) \union {keys \union UNION met}

\* A record without a description says nothing of its titles.
IsEvidence(fact) == Descs(fact) # {}

Joined(groups, fact) ==
  IF IsEvidence(fact) THEN Union(groups, Titles(fact) \union Descs(fact)) ELSE groups

Components(facts) == FoldLeft(Joined, {}, facts)

\* A kind the key states wins over the field that refers to it, and the
\* first record over later ones.
Role(facts, key) ==
  IF key.kind # Unstated THEN key.kind
  ELSE LET Says(i) == IsEvidence(facts[i]) /\ key \in Titles(facts[i]) \union Descs(facts[i])
           first == CHOOSE i \in DOMAIN facts : Says(i) /\ \A j \in 1 .. i - 1 : ~ Says(j)
       IN  IF key \in Titles(facts[first]) THEN "title" ELSE "desc"

\* The least base of a group's titles names the contract.
Alias(facts, group) ==
  LET titles == {k \in group : Role(facts, k) = "title"}
  IN  [stem |-> Min({k.stem : k \in IF titles = {} THEN group ELSE titles}), upper |-> FALSE]

\* Groups of which some record has no title at all.
DescOnly(facts, group) ==
  \E i \in DOMAIN facts : Titles(facts[i]) = {} /\ Descs(facts[i]) \intersect group # {}

-----------------------------------------------------------------------------
(* game_strings.parse                                                      *)

Parse(strings, facts) ==
  LET groups == Components(facts)
      evidence == UNION groups
      GroupOf(key) == CHOOSE g \in groups : Folded(key) \in g
      IsEvidenced(key) == Folded(key) \in evidence
      entries == {k \in DOMAIN strings : LooksLikeContract(k) \/ IsEvidenced(k)}
      BaseOf(key) == IF IsEvidenced(key) THEN Alias(facts, GroupOf(key)) ELSE Base(key)
      KindOf(key) == IF IsEvidenced(key) THEN Role(facts, Folded(key)) ELSE key.kind
      Found(base) ==
        [id |-> base,
         titles |-> {k \in entries : BaseOf(k) = base /\ KindOf(k) = "title"},
         descs  |-> {k \in entries : BaseOf(k) = base /\ KindOf(k) = "desc"}]
      \* A title, and a description that reads like one.
      IsContract(c) ==
        /\ c.titles # {} /\ c.descs # {}
        /\ \/ \E k \in c.titles \union c.descs : strings[k] = "token"
           \/ \E k \in c.descs : strings[k] = "prose"
      lower(base) == [base EXCEPT !.upper = FALSE]
      IsNamed(c) ==
        /\ c.descs # {}
        /\ \E g \in groups : Alias(facts, g) = lower(c.id)
        /\ \/ c.titles # {}
           \/ \E g \in groups : Alias(facts, g) = lower(c.id) /\ DescOnly(facts, g)
  IN  {c \in {Found(BaseOf(k)) : k \in entries} : IsContract(c) \/ IsNamed(c)}

-----------------------------------------------------------------------------
(* fallbacks.apply_to_localization: all keys a reward-bearing mission lacks*)
(* are authored, or none.                                                  *)

\* Strings, and others for keys that have none.
Joint(strings, others) ==
  [k \in DOMAIN strings \union DOMAIN others |->
     IF k \in DOMAIN strings THEN strings[k] ELSE others[k]]

Lacks(strings, fact) ==
  IF fact.rewards = {} THEN {} ELSE KeysOf(fact) \ (DOMAIN strings \union {Placeholder})

WithFallbacks(strings, facts, authored) ==
  LET lacking == {Lacks(strings, facts[i]) : i \in DOMAIN facts}
      keys == DOMAIN authored
  IN  IF /\ keys \subseteq UNION lacking
         /\ \A missing \in lacking : missing \intersect keys # {} => missing \subseteq keys
      THEN Joint(strings, authored)
      ELSE Refused

-----------------------------------------------------------------------------
(* enhancements.py                                                         *)

Enhancement(strings, source, keys, rewards, details) ==
  [source |-> source, keys |-> keys, rewards |-> rewards, details |-> details,
   available |-> keys \intersect DOMAIN strings]

\* The members of a sequence that pass a test.
Only(s, Test(_)) == FlattenSeq([i \in DOMAIN s |-> IF Test(s[i]) THEN << s[i] >> ELSE << >>])

\* MissionEnhancementProvider: facts that bear a reward.
MissionSet(strings, facts) ==
  LET bearing == Only(facts, LAMBDA f : KeysOf(f) # {} /\ f.rewards # {})
  IN  [provider |-> "missions",
       enhancements |-> [i \in DOMAIN bearing |->
         Enhancement(strings, bearing[i].id, KeysOf(bearing[i]), bearing[i].rewards, << >>)]]

\* MissionTacticalEnhancementProvider: a mission type whose text the build
\* lacks is left out.
TacticalSet(strings, result) ==
  LET shown(f) == Only(f.details, LAMBDA d : d.text = Unstated \/ d.text \in DOMAIN strings)
      all == [i \in DOMAIN result.facts |->
                Enhancement(strings, result.facts[i].id, result.facts[i].keys, {},
                            shown(result.facts[i]))]
  IN  [provider |-> result.provider,
       enhancements |-> Only(all, LAMBDA e : e.details # << >>)]

Meets(contract, enhancement) ==
  \E k \in contract.titles \union contract.descs, l \in enhancement.keys :
    l # Placeholder /\ Folded(k) = Folded(l)

\* _extend_mission_details
\* Mutant of Suppressed: the next fact may state the detail again.
NotSuppressed(acc, name) == [acc EXCEPT !.shown = Restrict(@, DOMAIN @ \ {name})]

Suppressed(acc, name) ==
  [acc EXCEPT !.shown = Restrict(@, DOMAIN @ \ {name}), !.blocked = @ \union {name}]

Showing(acc, name, value, confidence, evidence) ==
  [acc EXCEPT !.shown =
     [n \in DOMAIN @ \union {name} |->
        IF n = name THEN [value |-> value, confidence |-> confidence, evidence |-> evidence]
        ELSE @[n]]]

NothingStated == [shown |-> << >>, blocked |-> {}]

ExtendDetail(acc, d) ==
  CASE d.name \in acc.blocked -> acc
    [] d.name \notin acc.blocked \union DOMAIN acc.shown ->
         Showing(acc, d.name, d.value, d.confidence, d.evidence)
    [] d.name \in DOMAIN acc.shown \ acc.blocked ->
         LET old == acc.shown[d.name]
         IN  IF old.value # d.value THEN Suppressed(acc, d.name)
             ELSE Showing(acc, d.name, d.value, Min({old.confidence, d.confidence}),
                          old.evidence \union d.evidence)

\* apply_enhancements, for one contract
Enhanced(contract, sets) ==
  LET meeting == FlattenSeq([s \in DOMAIN sets |->
                   Only(sets[s].enhancements, LAMBDA e : Meets(contract, e))])
      details == FlattenSeq([i \in DOMAIN meeting |-> meeting[i].details])
      result == FoldLeft(ExtendDetail, NothingStated, details)
  IN  [contract |-> contract, details |-> result.shown,
       rewards |-> UNION {meeting[i].rewards : i \in DOMAIN meeting}]

\* The gaps of a provider, from which an authoring file is made.
Unmatched(contracts, set) ==
  {[source |-> e.source, keys |-> e.keys,
    reason |-> CASE e.available # {} -> "contract-filtered"
                 [] e.available = {} /\ Placeholder \in e.keys -> "placeholder-key"
                 [] e.available = {} /\ Placeholder \notin e.keys -> "localization-missing"] :
     e \in {x \in ToSet(set.enhancements) : \A c \in contracts : ~Meets(c, x)}}

-----------------------------------------------------------------------------
(* operations._read_contracts_local.  A build without Game2.dcb, or with   *)
(* one that cannot be read, has strings and no facts; every provider then  *)
(* reports itself unavailable.                                             *)

Read(build, authored) ==
  LET facts == IF build.records = "readable" THEN build.facts ELSE << >>
      strings == IF authored = << >> THEN build.strings
                 ELSE IF build.records # "readable" THEN Refused
                 ELSE WithFallbacks(build.strings, facts, authored)
      sets == IF build.records # "readable" THEN << >>
              ELSE << MissionSet(strings, facts) >>
                   \o [i \in DOMAIN build.tactical |-> TacticalSet(strings, build.tactical[i])]
      contracts == Parse(strings, facts)
  IN  IF strings = Refused THEN Refused
      ELSE [contracts |-> {Enhanced(c, sets) : c \in contracts},
            sets |-> sets,
            unmatched |-> UNION {Unmatched(contracts, s) : s \in ToSet(sets)}]

-----------------------------------------------------------------------------
(* Properties, of every build, authored strings and facts.                 *)

IsBuild(build, authored) ==
  /\ \A k \in DOMAIN build.strings \union DOMAIN authored : IsName(k)
  /\ build.facts \in Seq(ToSet(build.facts))

\* The strings a record refers to, in whatever case they are spelled, are
\* found in one contract or in none, and a title and a description that say so
\* by their names are found.
KeptTogether(build, authored) ==
  LET read == Read(build, authored)
      strings == Joint(build.strings, authored)
      KeysIn(c) == c.contract.titles \union c.contract.descs
      Referred(f) == {k \in DOMAIN strings : Folded(k) \in Titles(f) \union Descs(f)}
      Holding(f) == {c \in read.contracts : KeysIn(c) \intersect Referred(f) # {}}
  IN  read # Refused /\ build.records = "readable" =>
        \A f \in {x \in ToSet(build.facts) : Descs(x) # {}} :
          /\ \A c, d \in Holding(f) : c = d
          /\ \A c \in Holding(f) : Referred(f) \subseteq KeysIn(c)
          /\ {"title", "desc"} \subseteq {k.kind : k \in Referred(f)} => Holding(f) # {}

\* What providers return, with their confidences as numbers.
AFinding(result) ==
  /\ result.facts \in Seq(ToSet(result.facts))
  /\ \A f \in ToSet(result.facts) :
       /\ f.details \in Seq(ToSet(f.details))
       /\ \A d \in ToSet(f.details) : d.confidence \in Nat

AreFindings(results) ==
  results \in Seq(ToSet(results)) /\ \A r \in ToSet(results) : AFinding(r)

\* A detail is shown exactly when all facts that meet the contract and state
\* it in text the build has agree, with the least of their confidences and
\* all of their evidence.
AgreedIsShown(strings, contract, results) ==
  LET sets == [i \in DOMAIN results |-> TacticalSet(strings, results[i])]
      meeting == {f \in UNION {ToSet(r.facts) : r \in ToSet(results)} :
                    Meets(contract, [keys |-> f.keys])}
      Stated(n) == {d \in UNION {ToSet(f.details) : f \in meeting} :
                      d.name = n /\ d.text \in {Unstated} \union DOMAIN strings}
      shown == Enhanced(contract, sets).details
  IN  \A n \in DOMAIN shown
                 \union UNION {{d.name : d \in ToSet(f.details)} : f \in meeting} :
        LET values == {d.value : d \in Stated(n)}
        IN  IF Cardinality(values) # 1 THEN n \notin DOMAIN shown
            ELSE /\ n \in DOMAIN shown
                 /\ {shown[n].value} = values
                 /\ shown[n].confidence = Min({d.confidence : d \in Stated(n)})
                 /\ shown[n].evidence = UNION {d.evidence : d \in Stated(n)}
=============================================================================
