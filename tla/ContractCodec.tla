---------------------------- MODULE ContractCodec ----------------------------
(***************************************************************************)
(* How a set of contracts is written down (src/starcompanion/cache.py): as *)
(* one JSON document in the cache, and as JSON lines from the helper       *)
(* process.  Evidence is written once, in the order it is first mentioned, *)
(* and referred to by its place; a base text is written only if it differs *)
(* from the text.                                                          *)
(*                                                                         *)
(* A set is a sequence of items: its contracts, then its entities, then    *)
(* the items of the legacy packs.  An item has evidence, and parts with    *)
(* evidence of their own: a contract's mission details and route           *)
(* expansions, an entity's attributes.  Fields that are copied unchanged   *)
(* are its id; organisations, capabilities and unparsed keys are left out. *)
(***************************************************************************)
EXTENDS Integers, Sequences, SequencesExt

CONSTANTS Version,   \* CACHE_VERSION
          Invalid    \* the exception of a load

ASequence(s) == s \in Seq(Range(s))

APart(part) == part = [name |-> part.name, evidence |-> part.evidence] /\ ASequence(part.evidence)

\* A contract is given a detail of a name once, and the expansion of a variable
\* once if its texts spell the variable in one way: names that differ only in
\* case are one name here, as they are to the reader.
AnItem(item) ==
  /\ item = [kind |-> item.kind, id |-> item.id, texts |-> item.texts, base |-> item.base,
             evidence |-> item.evidence, parts |-> item.parts]
  /\ item.texts = [k \in DOMAIN item.texts |-> item.texts[k]]
  /\ item.base = [k \in DOMAIN item.base |-> item.base[k]]
  /\ ASequence(item.evidence) /\ ASequence(item.parts)
  /\ \A i \in DOMAIN item.parts : APart(item.parts[i])
  /\ item.kind = "contract" => IsInjective([i \in DOMAIN item.parts |-> item.parts[i].name])

\* What a read of the game's archive builds, and is written down.
ContractSet(items) == ASequence(items) /\ \A i \in DOMAIN items : AnItem(items[i])

Mentions(item) ==
  item.evidence \o FlattenSeq([i \in DOMAIN item.parts |-> item.parts[i].evidence])

Mentioned(items) == FlattenSeq([i \in DOMAIN items |-> Mentions(items[i])])

Enter(table, e) == IF Contains(table, e) THEN table ELSE Append(table, e)

\* _evidence_table
EvidenceTable(items) == FoldLeft(Enter, << >>, Mentioned(items))

\* Python counts from 0.
Ids(table, evidence) ==
  [i \in DOMAIN evidence |-> (CHOOSE n \in DOMAIN table : table[n] = evidence[i]) - 1]

\* Mutant of BaseDelta: the base text of a key that has no text is left out.
DeltaOfTexts(item) ==
  [k \in {x \in DOMAIN item.base \intersect DOMAIN item.texts : item.texts[x] # item.base[x]}
     |-> item.base[k]]

BaseDelta(item) ==
  [k \in {x \in DOMAIN item.base : x \notin DOMAIN item.texts \/ item.texts[x] # item.base[x]}
     |-> item.base[k]]

ItemToDict(table, item) ==
  [kind |-> item.kind, id |-> item.id, texts |-> item.texts,
   base |-> BaseDelta(item),
   evidence |-> Ids(table, item.evidence),
   parts |-> [i \in DOMAIN item.parts |->
                [name |-> item.parts[i].name,
                 evidence |-> Ids(table, item.parts[i].evidence)]]]

Document(items) ==
  LET table == EvidenceTable(items)
  IN  [version |-> Version, evidence |-> table,
       items |-> [i \in DOMAIN items |-> ItemToDict(table, items[i])]]

Lines(items) ==
  LET doc == Document(items)
  IN  << [type |-> "header", data |-> doc.version] >>
      \o [i \in DOMAIN doc.evidence |-> [type |-> "evidence", data |-> doc.evidence[i]]]
      \o [i \in DOMAIN doc.items |-> [type |-> "item", data |-> doc.items[i]]]

-----------------------------------------------------------------------------

ValidIds(table, ids) == \A i \in DOMAIN ids : 0 <= ids[i] /\ ids[i] < Len(table)

\* A contract has one part of a name; an entity may have several.
ValidItem(table, raw) ==
  /\ ValidIds(table, raw.evidence)
  /\ \A i \in DOMAIN raw.parts : ValidIds(table, raw.parts[i].evidence)
  /\ raw.kind = "contract" => IsInjective([i \in DOMAIN raw.parts |-> raw.parts[i].name])

\* A base text that is not written is the text.
Filled(base, texts) ==
  [k \in DOMAIN base \union DOMAIN texts |-> IF k \in DOMAIN base THEN base[k] ELSE texts[k]]

Evidence(table, ids) == [i \in DOMAIN ids |-> table[ids[i] + 1]]

ItemFromDict(table, raw) ==
  [kind |-> raw.kind, id |-> raw.id, texts |-> raw.texts,
   base |-> Filled(raw.base, raw.texts),
   evidence |-> Evidence(table, raw.evidence),
   parts |-> [i \in DOMAIN raw.parts |->
                [name |-> raw.parts[i].name,
                 evidence |-> Evidence(table, raw.parts[i].evidence)]]]

Loads(doc) ==
  IF doc.version = Version /\ \A i \in DOMAIN doc.items : ValidItem(doc.evidence, doc.items[i])
  THEN [i \in DOMAIN doc.items |-> ItemFromDict(doc.evidence, doc.items[i])]
  ELSE Invalid

\* Only the first line is a header.
ReadLine(read, line) ==
  CASE line.type = "evidence" -> [read EXCEPT !.evidence = Append(@, line.data)]
    [] line.type = "item" /\ ValidItem(read.evidence, line.data) ->
         [read EXCEPT !.items = Append(@, ItemFromDict(read.evidence, line.data))]
    [] OTHER -> [read EXCEPT !.outcome = "invalid"]

NothingRead == [evidence |-> << >>, items |-> << >>, outcome |-> "read"]

LoadLines(lines) ==
  IF lines = << >> \/ lines[1].type # "header" \/ lines[1].data # Version THEN Invalid
  ELSE LET read == FoldLeft(ReadLine, NothingRead, Tail(lines))
       IN  IF read.outcome = "invalid" THEN Invalid ELSE read.items

\* Contract.base_text
Normalised(items) == [i \in DOMAIN items |-> [items[i] EXCEPT !.base = Filled(@, items[i].texts)]]

\* Both readers return what was written.
RoundTrip(items) ==
  /\ Loads(Document(items)) = Normalised(items)
  /\ LoadLines(Lines(items)) = Normalised(items)
=============================================================================
