---------------------------- MODULE MCUpdateWork ----------------------------
(***************************************************************************)
(* Model-checking instance of an update from the game's data to the text   *)
(* that is written: the jobs that do it (OverviewJobs), and the pure       *)
(* functions the jobs apply, on bounded inputs: contracts and the facts    *)
(* joined to them (ContractReading), tags, routes and titles               *)
(* (Presentation), the text that is planned and written (UpdateText), and  *)
(* the blueprint list with its ownership marks (BlueprintCatalog); and the *)
(* commands that do the same from terminals (CommandLine).  They share no  *)
(* state: a behaviour shows one of them, named by "subject".               *)
(***************************************************************************)
EXTENDS OverviewJobs, ContractReading, BlueprintCatalog, UpdateText, TLC

CONSTANTS Width(_), Wrong, short, long,
          game1, game2,
          Updating, Others,        \* terminals
          MaxUpdates, MaxOthers,   \* bounds: commands of each
          MaxOutside

VARIABLES subject, sample,
          files, run, promised, commands, outside

-----------------------------------------------------------------------------
(* Contracts: two missions a and b, keys with and without capitals, a      *)
(* variant, and a key that states no kind.                                 *)

Key(stem, upper, kind, n) == [stem |-> stem, upper |-> upper, kind |-> kind, n |-> n]
aTitle == Key(1, TRUE, "title", 0)
aDesc  == Key(1, TRUE, "desc", 0)
aMore  == Key(1, TRUE, "desc", 1)
bDesc  == Key(2, FALSE, "desc", 0)
bPlain == Key(2, FALSE, Unstated, 0)


StringSets ==
  {[k \in K |-> IF k.n = 1 \/ k \notin prose THEN "label" ELSE "prose"] :
     K \in SUBSET {aTitle, aDesc, aMore, bDesc, bPlain}, prose \in {{}, {aDesc, bDesc}}}

Mission(id, titles, descs, rewards) ==
  [id |-> id, titles |-> titles, descs |-> descs, rewards |-> rewards]
TitleSets == {{}, {aTitle}, {aTitle, Placeholder}}
DescSets  == {{}, {aDesc}, {aMore}, {bDesc, aMore}, {bPlain}}

MissionSets ==
  {<< >>}
  \union {<< Mission(1, t, d, r) >> : t \in TitleSets, d \in DescSets, r \in {{}, {"reward"}}}
  \union {<< Mission(1, t, d, {"reward"}), Mission(2, u, e, {"reward"}) >> :
            t \in TitleSets, u \in {{}, {aTitle}}, d, e \in DescSets}

Readings ==
  {r \in [build : [records : {"readable", "corrupt"}, strings : StringSets, facts : MissionSets,
                   tactical : {<< >>}],
          authored : {<< >>, [k \in {aMore} |-> "prose"], [k \in {aMore, bDesc} |-> "prose"]}] :
     r.build.records = "corrupt" => r.authored = << >>}

FactsStayTogether ==
  subject = "reading" => KeptTogether(sample.build, sample.authored)

Strings == [k \in {aTitle, aDesc} |-> "prose"]
Detail(value, confidence, id, text) ==
  [name |-> "detail", value |-> value, confidence |-> confidence, evidence |-> {id},
   text |-> text]
FactsOf(id, values) ==
  {[id |-> id, keys |-> k, details |-> << Detail(v, c, id, t) >>] :
     k \in {{aDesc}, {aTitle, bDesc}, {bDesc}}, v \in values, c \in 1 .. 2,
     t \in {Unstated, aTitle, bDesc}}

Findings ==
  {<< [provider |-> "one", facts |-> << f, g >>], [provider |-> "two", facts |-> << h >>] >> :
     f \in FactsOf(1, {1}), g \in FactsOf(2, 1 .. 2), h \in FactsOf(3, 1 .. 2)}

DetailsAgree ==
  subject = "details" =>
    AgreedIsShown(Strings, [titles |-> {aTitle}, descs |-> {aDesc}], sample)

-----------------------------------------------------------------------------
(* Names and titles.  A part is short (2) or long (5); the limit leaves    *)
(* room for one, for two, or for all.                                      *)

PartWidth(part) == IF part.value = long THEN 5 ELSE 2

Text == INSTANCE Presentation WITH SupportedBuild <- 1

ASSUME NoTextIsBroken == None # Broken

Name(name, kind, family) == [name |-> name, kind |-> kind, family |-> family, plural |-> FALSE]
gun     == Name("gun", "name", "item_name")
guns    == [gun EXCEPT !.plural = TRUE]
ship    == Name("ship", "name", "vehicle_name")
aName   == Name("title", "title", "mission")
aProse  == Name("text", "desc", "mission")

Stated == {<< >>} \union [{"size"} -> {short, long, Wrong}] \union [{"size", "grade"} -> {long}]

RecordsOf(id) ==
  {[id |-> id, kind |-> k, inMissiles |-> m, name |-> n, values |-> v, path |-> p] :
     k \in {"ship-weapon", "vehicle"}, m \in {FALSE}, n \in {gun, guns, ship},
     v \in Stated, p \in {{long}, {short, long}}}
  \union {[id |-> id, kind |-> k, inMissiles |-> TRUE, name |-> gun, values |-> << >>,
           path |-> {}] : k \in {"ship-weapon", "journal"}}

Rules == {[key |-> ship, expected |-> "stock", replaces |-> TRUE, text |-> long]}

Options(limit, routes) ==
  [entityKinds |-> {"ship-weapon", "vehicle"}, entityFields |-> << "kind", "size", "grade", "subtype" >>,
   titleFields |-> << "ace", "difficulty" >>, limit |-> limit, routes |-> routes, legacy |-> TRUE]

Names ==
  {[game |-> [contracts |-> << >>, nested |-> << >>, catalog |-> {r, s}, build |-> 1,
              rules |-> Rules, strings |-> [k \in K |-> "stock"]],
    opts |-> Options(limit, "off")] :
     r \in RecordsOf(1), s \in RecordsOf(2), K \in {{guns, ship}, {gun, guns}}, limit \in {7, 10}}

Part(value, name) == [value |-> value, evidence |-> {<< 0, name >>}]
Token(role, name) == [role |-> role, name |-> name]
Here == Token("from", "here")
There == Token("to", "there")
Through == Token("nested", "route")

Descriptions ==
  {<< >>, << Here >>, << Here, There >>, << There, Token("from", "there") >>, << Through >>,
   << Through, There >>, << Here, Token("resource", "ore") >>}
NestedTexts == {<< >>} \union {<< a >> : a \in Descriptions} \union {<< a, << Here >> >> : a \in Descriptions}
TitleDetails ==
  {<< >>, [n \in {"ace-pilot"} |-> Part("no", n)],
   [n \in {"ace-pilot", "ace-probability"} |-> Part(long, n)],
   [n \in {"ace-probability", "difficulty-risk"} |-> Part(IF n = "difficulty-risk" THEN short ELSE long, n)]}

TitledBy(d, scan, x, y, r, limit, routes) ==
  [game |-> [contracts |-> [k \in {aName, aProse} |->
               [details |-> d, haul |-> TRUE, scan |-> scan, descs |-> << x, y >>,
                evidence |-> {<< 0, "contract" >>}]],
             nested |-> [n \in {"route"} |-> r],
             catalog |-> {}, build |-> 2, rules |-> {},
             strings |-> [k \in {aName, aProse} |-> "stock"]],
   opts |-> Options(limit, routes)]

\* What is agreed on does not depend on the tags or the limit, and what fits not
\* on how a place came to be agreed on.
Titled ==
  {TitledBy(<< >>, scan, x, y, r, 11, routes) :
     scan \in BOOLEAN, x, y \in Descriptions, r \in NestedTexts, routes \in {"append", "replace"}}
  \union {TitledBy(d, scan, x, y, << << Here, There >> >>, limit, routes) :
            d \in TitleDetails, scan \in BOOLEAN, x, y \in Descriptions,
            limit \in {4, 8, 11}, routes \in {"append", "replace"}}

OnlyAgreedIsShown ==
  subject \in {"names", "titles"} => Text!OnlyAgreedIsShown(sample.game, sample.opts)

-----------------------------------------------------------------------------
(* The update.  Stock text and overrides spell "one" with and without ",P".*)

one   == [name |-> 1, plural |-> FALSE]
ones  == [name |-> 1, plural |-> TRUE]
two   == [name |-> 2, plural |-> FALSE]
three == [name |-> 3, plural |-> FALSE]
AnyText == {"stock", "other", "generated", "user", Broken}
ASSUME SampleAssumption == AnyText \subseteq EntryTexts
Line(key, value) == [key |-> key, value |-> value]

Stocks == {<< Line(ones, "stock"), Line(two, "stock") >>,
           << Line(one, "stock"), Line(two, Broken) >>,
           << Line(ones, "stock"), Line(one, "generated") >>}
Overrides ==
  {Absent, << Line(ones, "other") >>, << Line(two, "other"), Line(two, "stock") >>,
   << Line(two, "other"), Line(three, "other") >>}
  \union {<< Line(ones, v), Line(two, "generated") >> : v \in {"stock", "generated"}}
Generated == (UNION {[K -> {"generated", "stock"}] : K \in SUBSET {one, two}})
             \union {[k \in {ones} |-> "generated"], [k \in {two} |-> Broken]}
Authored  == {[k \in K |-> v] : K \in SUBSET {one, two, three}, v \in {"user", "stock"}}

Updates ==
  [stock : Stocks, override : Overrides, generated : Generated, user : Authored,
   rules : {[mayAdd |-> {}, removals |-> {}, mayRemove |-> {}],
            [mayAdd |-> {three}, removals |-> {}, mayRemove |-> {three}],
            [mayAdd |-> {three}, removals |-> {three}, mayRemove |-> {three}],
            [mayAdd |-> {}, removals |-> {two}, mayRemove |-> {}],
            [mayAdd |-> {}, removals |-> {one}, mayRemove |-> {one}]},
   mode : {"merge", "overwrite"}]

ReviewedIsWritten ==
  subject = "text" =>
    WrittenAsReviewed(sample.stock, sample.override, sample.generated, sample.user,
                      sample.rules, sample.mode)

-----------------------------------------------------------------------------
(* Blueprints: one item of each of three sources, or of four; two          *)
(* spellings are the same name.                                            *)

Spelled(name) == IF name = "NAME" THEN "name" ELSE name

Offers ==
  LET Items == [id : {Unknown, game1, game2}, name : {"name", "NAME", "other"}]
      any == [1 .. 3 -> Items]
  IN  any \union {<< [id |-> game1, name |-> "name"] >> \o items : items \in any}
WithSources(offers) ==
  [i \in DOMAIN offers |->
     [id |-> offers[i].id, name |-> offers[i].name, source |-> i, attribute |-> Unknown]]

Owned == SUBSET {[by |-> "game", id |-> game1], [by |-> "game", id |-> game2],
                 [by |-> "name", id |-> "name"], [by |-> "name", id |-> "other"]}

MarkedIsOwned ==
  subject = "blueprints" => MarksAreOwned(WithSources(sample.offers), sample.owned)

-----------------------------------------------------------------------------
(* Terminals: some preview and apply, the others run any command; other    *)
(* programs act in between.                                                *)

AnyCommand ==
  {"import", "render", "scmdb", "stock", "user-set", "user-import", "user-undo",
    "delta-pack-export", "delta-pack-import", "languages-import", "languages-activate",
    "languages-restore-stock", "channel-preview", "channel-apply", "channel-rollback",
    "apply", "restore", "blueprints-mark", "blueprints-scan", "blueprints-export",
    "settings-import", "settings-export", "diagnostics-export"}

RunsIn(terminal) ==
  IF terminal \in Updating THEN {"channel-preview", "channel-apply"} ELSE AnyCommand
CommandsIn(terminal) == IF terminal \in Updating THEN MaxUpdates ELSE MaxOthers

Terminal == INSTANCE CommandLine WITH
              Terminals <- Updating \union Others, Runs <- RunsIn, MaxCommands <- CommandsIn
ASSUME CommandConstants == Terminal!CommandAssumption

terminalVars == << files, run, promised, commands, outside >>

OnlySuccessChanges    == [][Terminal!OnlySuccessChanges]_terminalVars
ExpectedPlanIsWritten == [][Terminal!ExpectedPlanIsWritten]_terminalVars

-----------------------------------------------------------------------------
\* A selection to start from, where it does not matter.
SomeSelection == selection.install = (CHOOSE i \in Installs : TRUE) /\ inputOvertakesTimer

UpdateInit ==
  /\ Init /\ Terminal!Init
  /\ \/ subject = "jobs" /\ sample = << >>
     \/ /\ SomeSelection
        /\ \/ subject = "terminals" /\ sample = << >>
           \/ subject = "reading" /\ sample \in Readings
           \/ subject = "details" /\ sample \in Findings
           \/ subject = "names" /\ sample \in Names
           \/ subject = "titles" /\ sample \in Titled
           \/ subject = "text" /\ sample \in Updates
           \/ subject = "blueprints" /\ sample \in [offers : Offers, owned : Owned]

UpdateNext ==
  /\ UNCHANGED << subject, sample >>
  /\ \/ subject = "jobs" /\ Next /\ UNCHANGED terminalVars
     \/ subject = "terminals" /\ Terminal!Next /\ UNCHANGED vars

\* The fairness of OverviewJobs.FairSpec.
OfJobs(A) == subject = "jobs" /\ A

UpdateSpec ==
  /\ UpdateInit
  /\ [][UpdateNext]_<< vars, subject, sample, terminalVars >>
  /\ WF_state(OfJobs(TimerFires))
  /\ WF_state(OfJobs(OverviewJoined))
  /\ WF_state(OfJobs(OthersJoined))
  /\ \A j \in Slots : WF_state(OfJobs(Deliver(j))) /\ WF_state(OfJobs(MustGoOn(j)))
=============================================================================
