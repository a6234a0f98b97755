----------------------------- MODULE UpdateText -----------------------------
(***************************************************************************)
(* The text of an update: layers of values merged by precedence            *)
(* (source_graph.py, gui/state.py), the baseline they are put on           *)
(* (prepare.py), the plan shown for review and the text written from it    *)
(* (inject.py), over the tables of ini.py.                                 *)
(*                                                                         *)
(* A table is the sequence of its entries.  A key is a name, with or       *)
(* without the suffix ",P" (plural) that lookups tolerate.  Text is        *)
(* opaque; Broken is one validate_value finds errors in, unless the same   *)
(* markup is in the text it replaces.  Fingerprints and the transaction    *)
(* itself are ApplyTransaction's.                                          *)
(***************************************************************************)
EXTENDS Integers, Sequences, FiniteSets, FiniteSetsExt, SequencesExt, Functions

CONSTANTS Absent,       \* no key, no file
          Rejected,     \* TargetChangedError, ValidationFailedError, OSError
          EntryTexts,   \* the values of entries
          Broken

-----------------------------------------------------------------------------
(* ini.LocalizationFile                                                    *)

KeyNames == [name : Int, plural : BOOLEAN]

Tables == Seq([key : KeyNames, value : EntryTexts])

ASSUME UpdateAssumption ==
  Absent \notin KeyNames /\ Absent \notin Tables /\ Rejected \notin Tables /\ Absent # Rejected

Keys(table) == {table[i].key : i \in DOMAIN table}

Plural(key) == [name |-> key.name, plural |-> ~ key.plural]

\* The key as the table spells it.
ResolveKey(table, key) ==
  CASE key \in Keys(table) -> key
    [] key \notin Keys(table) /\ Plural(key) \in Keys(table) -> Plural(key)
    [] OTHER -> Absent

\* Of several entries of one key the first is read and set.
Index(table, key) == Min({i \in DOMAIN table : table[i].key = ResolveKey(table, key)})

Get(table, key) == table[Index(table, key)].value
\* What a reader of the whole table has: of several entries, the last.
Values(table) ==
  [k \in Keys(table) |-> table[Max({i \in DOMAIN table : table[i].key = k})].value]

-----------------------------------------------------------------------------
(* source_graph.SourceGraph.resolve                                        *)

Precedence == << "stock", "language-overlay", "import", "generated", "user" >>

Priority(kind) == CHOOSE i \in DOMAIN Precedence : Precedence[i] = kind

Before(a, b) ==
  \/ Priority(a.kind) < Priority(b.kind)
  \/ a.kind = b.kind /\ a.order < b.order

Having(layers, key) == {l \in ToSet(layers) : key \in DOMAIN l.values}

Layered(layers) == UNION {DOMAIN l.values : l \in ToSet(layers)}

\* Mutant of Resolve: the first layer that has a key wins.
ResolveFirst(layers) ==
  [key \in Layered(layers) |->
     LET having == Having(layers, key)
     IN  (CHOOSE l \in having : \A m \in having : m = l \/ Before(l, m)).values[key]]

Resolve(layers) ==
  [key \in Layered(layers) |->
     LET having == Having(layers, key)
     IN  (CHOOSE l \in having : \A m \in having : m = l \/ Before(m, l)).values[key]]

\* A key comes before the same key with ",P".
Earlier(a, b) == a.name < b.name \/ (a.name = b.name /\ ~a.plural /\ b.plural)

InOrder(keys) ==
  [i \in 1 .. Cardinality(keys) |->
     CHOOSE k \in keys : Cardinality({l \in keys : Earlier(l, k)}) = i - 1]

\* AppState.effective_values: what an update asks for, in the order of keys.
Effective(generated, user) ==
  LET values == Resolve(<< [kind |-> "generated", order |-> 0, values |-> generated],
                           [kind |-> "user", order |-> 0, values |-> user] >>)
      keys == InOrder(DOMAIN values)
  IN  [i \in DOMAIN keys |-> [key |-> keys[i], value |-> values[keys[i]]]]

-----------------------------------------------------------------------------
(* inject.plan.  A request is the values to set, the keys that may be new, *)
(* the keys to remove and those that may be.                               *)

Asked(request) == {request.values[i].key : i \in DOMAIN request.values}

Bad(table, item) ==
  /\ item.value = Broken
  /\ ResolveKey(table, item.key) # Absent => Get(table, item.key) # Broken

Plan(table, request) ==
  LET New(item) == ResolveKey(table, item.key) = Absent
      items == ToSet(request.values)
  IN  [errors |-> {i.key : i \in {x \in items : Bad(table, x)}}
                  \union (request.removals \ (request.mayRemove \ Asked(request))),
       added |-> {i.key : i \in {x \in items : New(x) /\ x.key \in request.mayAdd}},
       skipped |-> {i.key : i \in {x \in items : New(x) /\ x.key \notin request.mayAdd}},
       updated |-> {i.key : i \in {x \in items : ~New(x) /\ Get(table, x.key) # x.value}},
       removed |-> {k \in request.removals : ResolveKey(table, k) # Absent}]

\* The edits of build_operation_plan and of apply, in their order.
Edits(request, plan) ==
  LET Each(keys, does) ==
        [i \in DOMAIN request.values |->
           [key |-> request.values[i].key, value |-> request.values[i].value,
            does |-> IF request.values[i].key \in keys THEN does ELSE "nothing"]]
      removed == SetToSeq(plan.removed)
  IN  Each(plan.updated, "set") \o Each(plan.added, "add")
        \o [i \in DOMAIN removed |-> [key |-> removed[i], value |-> Absent, does |-> "remove"]]

\* LocalizationFile.set, add, remove; a key may be there by then, or be gone.
Edit(state, edit) ==
  LET there == ResolveKey(state.table, edit.key) # Absent
      at == Index(state.table, edit.key)
  IN  CASE edit.does = "set" /\ there -> [state EXCEPT !.table[at].value = edit.value]
        [] edit.does = "add" /\ ~there ->
             [state EXCEPT !.table = Append(@, [key |-> edit.key, value |-> edit.value])]
        [] edit.does = "remove" /\ there -> [state EXCEPT !.table = RemoveAt(@, at)]
        [] edit.does = "nothing" -> state
        [] OTHER -> [state EXCEPT !.failed = TRUE]

Edited(table, request, plan) ==
  FoldLeft(Edit, [table |-> table, failed |-> FALSE], Edits(request, plan))

\* _atomic_save: what is about to be written is read again.
Verified(table, request, plan) ==
  /\ \A item \in ToSet(request.values) : item.key \in plan.updated \union plan.added =>
       ResolveKey(table, item.key) # Absent /\ Get(table, item.key) = item.value
  /\ \A k \in plan.removed : ResolveKey(table, k) = Absent

Differences(before, after) ==
  [added |-> DOMAIN after \ DOMAIN before,
   removed |-> DOMAIN before \ DOMAIN after,
   updated |-> {k \in DOMAIN before \intersect DOMAIN after : before[k] # after[k]}]

Nothing == [added |-> {}, removed |-> {}, updated |-> {}]

HasDuplicates(table) == \E i, j \in DOMAIN table : i # j /\ table[i].key = table[j].key

\* prepare_localization: an existing override is kept unless it is rebuilt.
Baseline(stock, override, mode) ==
  IF mode = "merge" /\ override # Absent THEN override ELSE stock

\* build_operation_plan
OperationPlan(baseline, override, request) ==
  LET before == IF override # Absent THEN override ELSE baseline
      plan == Plan(baseline, request)
      desired == Edited(baseline, request, plan).table
  IN  [valid |-> plan.errors = {} /\ ~HasDuplicates(before) /\ ~HasDuplicates(baseline),
       changes |-> Differences(Values(before), Values(desired)),
       skipped |-> plan.skipped,
       desired |-> desired]

\* apply, for a target that is still the reviewed one: the table afterwards.
Applied(baseline, override, request, reviewed) ==
  LET plan == Plan(baseline, request)
      edited == Edited(baseline, request, plan)
  IN  IF plan.errors # {} THEN Rejected
      ELSE IF plan.updated \union plan.added \union plan.removed = {} /\ reviewed.changes = Nothing
      THEN override
      ELSE IF \/ edited.failed \/ edited.table # reviewed.desired
              \/ ~ Verified(edited.table, request, plan)
      THEN Rejected
      ELSE edited.table

-----------------------------------------------------------------------------
(* Properties.                                                             *)

\* No two requested keys are spellings of one name, "name" and "name,P", unless
\* the baseline has both; and it has but one spelling of a key to remove.
OneNameEach(table, request) ==
  LET requested == Asked(request) \union request.removals
      Both(k) == {k, Plural(k)} \subseteq Keys(table)
  IN  /\ \A k \in requested : Plural(k) \in requested => Both(k)
      /\ \A k \in request.removals : ~ Both(k)

Requested(generated, user, rules) ==
  [values |-> Effective(generated, user), mayAdd |-> rules.mayAdd,
   removals |-> rules.removals, mayRemove |-> rules.mayRemove]

\* The update that was reviewed, of a target nobody changed, is written, and
\* the differences of the file are those that were shown.  When the names of
\* its keys are clear, it is not refused, a user's text wins over generated text,
\* entries nobody asked for keep the baseline's, removed ones are gone, and the
\* same update afterwards has nothing to do.
WrittenAsReviewed(stock, override, generated, user, rules, mode) ==
  LET request == Requested(generated, user, rules)
      baseline == Baseline(stock, override, mode)
      reviewed == OperationPlan(baseline, override, request)
      written == Applied(baseline, override, request, reviewed)
      Shown(table) == IF table = Absent THEN stock ELSE table
      again == OperationPlan(Baseline(stock, written, mode), written, request)
      after == Shown(written)
  IN  reviewed.valid =>
        /\ written # Rejected =>
             Differences(Values(Shown(override)), Values(after)) = reviewed.changes
        /\ OneNameEach(baseline, request) =>
             /\ written # Rejected
             /\ again.valid /\ again.changes = Nothing
             /\ \A k \in Asked(request) \ reviewed.skipped :
                  Get(after, k) = IF k \in DOMAIN user THEN user[k] ELSE generated[k]
             /\ \A k \in rules.removals : ResolveKey(after, k) = Absent
             /\ \A k \in Keys(after) \ {ResolveKey(after, l) : l \in Asked(request)} :
                  Values(after)[k] = Values(baseline)[k]
=============================================================================
