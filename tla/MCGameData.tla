----------------------------- MODULE MCGameData -----------------------------
(***************************************************************************)
(* Small game data for the readers: builds of an archive for               *)
(* ArchiveReader, sources of records for MissionFacts and MissionTactical. *)
(***************************************************************************)
EXTENDS Integers, Sequences, TLC

CONSTANTS None, Null, Unreadable

-----------------------------------------------------------------------------
(* Archives: what is read is the localization file and the DataCore.       *)

\* Method, encrypted, aligned, ends in a zero byte.
Plain   == << "zstd", FALSE, FALSE, FALSE >>
Aligned == << "zstd", FALSE, TRUE, FALSE >>
Lzma    == << "lzma", FALSE, FALSE, FALSE >>
Shapes ==
  ({"store"} \X BOOLEAN \X {FALSE} \X {FALSE}) \union ({"deflate"} \X BOOLEAN \X {FALSE} \X BOOLEAN)
    \union {Plain, Aligned, Lzma}

Entry(of, slashes, upper, shape, content) ==
  [name |-> [of |-> of, slashes |-> slashes, upper |-> upper], method |-> shape[1],
   encrypted |-> shape[2], aligned |-> shape[3], endsInZero |-> shape[4], content |-> content]
Texts(shape, content) == Entry("localization", "/", FALSE, shape, content)
Records(shape, content) == Entry("datacore", "\\", FALSE, shape, content)
Build(wide, entries) == [wide |-> wide, entries |-> entries]

Values == {"a", "b", "c", "d", "e", "f"}
Old  == << "a", "b" >>
Long == << "a", "b", "c" >>
New  == << "d", "e", "f" >>

\* The archive stays as it is.
Unpatched ==
  {Build(FALSE, << Entry("localization", slashes, upper, shape, content), Records(Plain, Old) >>) :
     slashes \in {"/", "\\", "mixed"}, upper \in BOOLEAN, shape \in Shapes, content \in {Old, Long}}
  \union
  {Build(wide, entries) : wide \in BOOLEAN, entries \in
     {<< >>, << Records(Plain, Old) >>, << Texts(Plain, Old), Records(Aligned, Long) >>,
      << Texts(Plain, Old), Entry("localization", "\\", FALSE, Plain, Long) >>,
      << Texts(Plain, Old), Entry("localization", "\\", TRUE, Plain, Long) >>}}

\* An entry changes where it lies, or all of them move.
Patched ==
  {<< Build(FALSE, << Texts(shape, Long), Records(other, Old) >>),
      Build(FALSE, << Texts(shape, New), Records(other, Old) >>) >> :
     shape \in {s \in Shapes : ~ s[4]} \ {Lzma}, other \in {Plain, Aligned}}
  \union
  {<< Build(wide, << Texts(Plain, Long), Records(Plain, Old) >>),
      Build(wide, << Records(Plain, Old), Texts(Plain, New) >>) >> : wide \in BOOLEAN}

Patches == {<< build, build >> : build \in Unpatched} \union Patched

Requests == [exact : BOOLEAN, wants : {<< "localization", "datacore" >>}]

-----------------------------------------------------------------------------
(* Sources for MissionFacts: record 1 is the contract.                     *)

Number(form, n) == [form |-> form, n |-> n]
Blank == [guid |-> Null, scopes |-> << >>, amounts |-> << >>, references |-> << >>,
          entities |-> << >>, names |-> {}, keys |-> {}, outcomes |-> << >>]
Record(kind, guid, more) == more @@ [kind |-> kind, guid |-> guid] @@ Blank
RewardOf(guid, scope) == [reward |-> guid, scope |-> scope]
PoolAt(guid, chance) == [pool |-> guid, chance |-> chance]
Scope(titles, outcomes, pools, items) ==
  [titles |-> titles, descs |-> << "text" >>, outcomes |-> outcomes, pools |-> pools, items |-> items]
NameOf(key, rank) == [key |-> key, rank |-> rank]

\* Rewards: GUIDs 2 and 3, broker entries 4 and 5.
RewardSources ==
  {<< Record("contract", 1, [scopes |-> << Scope(t, o, << >>, << >>) >>]),
      Record("reward", 2, [amounts |-> a]),
      Record("reward", g, [amounts |-> << Number("int", 3000) >>]),
      Record("broker", 4, [keys |-> {"title"}, outcomes |-> << << RewardOf(2, 1) >> >>]),
      Record("broker", b, [keys |-> k, outcomes |-> << << RewardOf(3, 1) >> >>]) >> :
     t \in {<< >>, << "title" >>},
     o \in {<< >>, << << >> >>, << << RewardOf(2, 1) >> >>, << << RewardOf(2, 1), RewardOf(3, 1) >> >>,
            << << RewardOf(Null, 2), RewardOf(3, 2), RewardOf(2, 1) >>, << RewardOf(2, 1) >> >>,
            << << RewardOf(9, 1) >> >>},
     a \in {<< >>, << Number("int", 2000) >>, << Number("text", 2500), Number("int", 2000) >>},
     g \in {2, 3}, b \in {4, 5}, k \in {{"text"}, {"title", "text"}, {"other"}}}

\* Items: pools 2 and 3, blueprints 4 and 5, an entity 6.
ItemSources ==
  {<< Record("contract", 1, [scopes |-> << Scope(<< "title" >>, << >>, p, i),
                                           Scope(<< >>, << >>, << >>, << 6 >>) >>]),
      Record("pool", 2, [references |-> r]),
      Record("pool", g, [references |-> << 4 >>]),
      Record("blueprint", 4, [entities |-> e, names |-> {NameOf("blueprint", 1)}]),
      Record("blueprint", b, [names |-> {NameOf("other", 1)}]),
      Record("entity", 6, [names |-> n]) >> :
     p \in {<< >>, << PoolAt(2, None) >>, << PoolAt(6, None) >>,
            << PoolAt(2, Number("text", 500)), PoolAt(3, Number("text", Unreadable)) >>},
     i \in {<< >>, << 6 >>, << 6, 4 >>, << 9 >>, << Null >>},
     r \in {<< >>, << 4 >>, << 4, 5 >>, << Null, 5, 6 >>}, g \in {2, 3}, b \in {4, 5},
     e \in {<< >>, << 6 >>, << 9 >>},
     n \in {{}, {NameOf("entity", 2), NameOf("placeholder", 1)},
            {NameOf("blueprint", 2), NameOf("entity", 3)}}}

-----------------------------------------------------------------------------
(* Sources for MissionTactical: record 1 is a contract with two scopes.    *)

Field(name, value) == [name |-> name, value |-> value]
Ref(guid) == Field("next", guid)
Count(n) == Field("count", Number("int", n))
Friendly(n) == Field("friendlyCount", Number("int", n))
Spawns(allied, limit) == Field("autoSpawnSettings", [allied |-> allied, limit |-> limit])
View(fields, titles, descs) == [fields |-> fields, titles |-> titles, descs |-> descs]
Holder(guid, fields) == [kind |-> "other", guid |-> guid, scopes |-> << >>, fields |-> fields]
Contract(scopes) == [kind |-> "contract", guid |-> 1, scopes |-> scopes, fields |-> << >>]

\* GUIDs 2, 3 and 4, of which 3 may belong to two records, and no 9.
FieldLists ==
  {<< >>, << Ref(2) >>, << Ref(3), Field("way", 4) >>, << Ref(4), Count(1000) >>, << Count(1000) >>,
   << Field("alias", Number("int", 2000)), Ref(1) >>, << Count(9000), Friendly(2000) >>,
   << Spawns(TRUE, 3), Friendly(1000) >>,
   << Ref(2), Ref(Null), Ref(9) >>,
   << Spawns(FALSE, -1), Spawns(None, 2), Spawns(FALSE, 2), Ref(4) >>}

TacticalSources ==
  {<< Contract(<< View(a, k[1], k[2]), View(b, {"title"}, {"text"}) >>),
      Holder(2, c), Holder(3, d), Holder(g, << Count(1000), Spawns(TRUE, 2) >>) >> :
     k \in {<< {"title"}, {"text"} >>, << {}, {"text"} >>, << {"title"}, {"other"} >>},
     a \in FieldLists, b \in {<< >>, << Ref(3) >>}, c \in FieldLists, d \in FieldLists, g \in {3, 4}}

Providers ==
  {[references |-> {"next", "way"}, hops |-> h, totals |-> TRUE,
    specs |-> {[fact |-> "count", names |-> {"count", "alias"}, kind |-> "integer",
                range |-> 1000 .. 2000, confidence |-> 3],
               [fact |-> "friendly-spawns", names |-> {"friendlyCount"}, kind |-> "integer",
                range |-> 0 .. 5000, confidence |-> 3]}] : h \in 0 .. 2}
=============================================================================
