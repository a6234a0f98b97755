----------------------- MODULE OwnershipEvidenceProofs -----------------------
(***************************************************************************)
(* Theorems about OwnershipEvidence, for every set of windows, files and   *)
(* blueprints, every number of events and every bound.                     *)
(*                                                                         *)
(* The properties speak of the stores; what makes them inductive is what   *)
(* the windows have in hand.  A scan or a decision was made over the state *)
(* that was loaded, which may be outdated when it is saved, but the save   *)
(* compares revisions: only of a job whose state still has the revision of *)
(* its store does the invariant say that it keeps the store's evidence and *)
(* that its cursors are behind its own.  In between, the logs grow, are    *)
(* rewritten and are copied, and the stores merged into the linked scope   *)
(* change.                                                                 *)
(***************************************************************************)
EXTENDS OwnershipEvidence, FiniteSetTheorems, TLAPS

-----------------------------------------------------------------------------
(* Types.                                                                  *)

Logs == [channel : Channels \union {None}, lines : Seq(Events), half : BOOLEAN,
         text : Nat]

Entries == {Absent} \union {Entry(b, f) : b \in Blueprints \union {None}, f \in Files}

Prefixes == {<< >>} \union (Nat \X Nat)
Cursors  == [offset : Nat, prefix : Prefixes]

States == [rev : Nat, ev : [Events -> Entries], decided : SUBSET Blueprints,
           cur : [Files -> Cursors]]

Paths == Channels \X (Files \union {None})

Opened == [file : Files, size : Nat, committed : Nat]

ScanJobs == [stage : {"scan"}, scope : Scopes, full : BOOLEAN, catalog : Catalogs,
             state : States, todo : SUBSET Paths, open : Opened \union {None}]

GameTyped ==
  /\ logs \in [Files -> Logs]
  /\ gamelog \in [Channels -> Files \union {None}]
  /\ home \in [Events -> Channels]
  /\ next \in 1 .. LastEvent + 1
  /\ raced \subseteq Files
  /\ dismissed \subseteq Events

StoresTyped == stores \in [Scopes -> States]

AllOps == {"owned", "unowned", "resolve", "import"}

PlanTyped(d) ==
  /\ d.op \in AllOps /\ d.scope \in Scopes /\ d.bp \in Blueprints
  /\ d.op = "resolve" => d.event \in Events

JobTyped(j) ==
  /\ j.stage \in {"scan", "review", "save"}
  /\ j.stage = "scan" => j \in ScanJobs
  /\ j.stage = "review" => j.plan # None /\ PlanTyped(j.plan) /\ j.plan.rev \in Nat
  /\ j.stage = "save" =>
       /\ j.scope \in Scopes /\ j.state \in States
       /\ j.plan # None => PlanTyped(j.plan) /\ j.plan.scope = j.scope

-----------------------------------------------------------------------------
(* What a state says of the logs.                                          *)

\* Its evidence is of events that have happened, in the scope's channel.
FromLogs(s, st) ==
  \A e \in Events : st.ev[e].known => e < next /\ (s \in Channels => home[e] = s)

\* The lines of the file before the offset are in the evidence.
ReadTo(f, offset, ev, excused) ==
  /\ offset <= 2 * Len(logs[f].lines)
  /\ \A i \in 1 .. offset \div 2 :
       \/ ev[logs[f].lines[i]].known
       \/ logs[f].lines[i] \in dismissed \union excused

\* A cursor remembers which text it was set in; of that text it is behind the
\* evidence, but for what is excused.
CursorSound(f, c, ev, excused) ==
  c # NoCursor =>
    /\ logs[f].channel # None
    /\ c.prefix # << >> /\ c.prefix[1] <= logs[f].text /\ c.prefix[2] > 0
    /\ c.prefix[1] = logs[f].text /\ f \notin raced => ReadTo(f, c.offset, ev, excused)

Sound(s, st, excused) ==
  /\ FromLogs(s, st)
  /\ \A f \in Files : CursorSound(f, st.cur[f], st.ev, excused)

\* Evidence and blueprints of one state are kept by another.
EntryKept(x, y) == x.known => y.known /\ (x.bp # None => y.bp = x.bp)
Keeps(old, new) == \A e \in Events : EntryKept(old.ev[e], new.ev[e])

\* The evidence a decision takes out of a state.
Evidence(st, b) == {e \in Events : st.ev[e].bp = b}

-----------------------------------------------------------------------------
(* The inductive invariant.                                                *)

LogsSound ==
  /\ \A c \in Channels : gamelog[c] # None => logs[gamelog[c]].channel = c
  /\ \A f \in Files :
       /\ logs[f].channel = None => logs[f].lines = << >>
       /\ \A i \in 1 .. Len(logs[f].lines) :
            logs[f].lines[i] < next /\ home[logs[f].lines[i]] = logs[f].channel

StoresSound == \A s \in Scopes : Sound(s, stores[s], {})

\* A path a scan has yet to read leads to a log of its scope.
PathSound(s, p) ==
  /\ p[1] \in Roots(s)
  /\ IF p[2] = None THEN gamelog[p[1]] # None ELSE logs[p[2]].channel = p[1]

OpenSound(j) ==
  j.open # None =>
    /\ j.open.size > 0
    /\ logs[j.open.file].channel # None
    /\ j.open.file \notin raced => ReadTo(j.open.file, j.open.committed, j.state.ev, {})

Dismisses(j) == j.plan # None /\ j.plan.op = "unowned"
Excused(j) == IF Dismisses(j) THEN Evidence(Loaded(j.scope), j.plan.bp) ELSE {}

Reviewed(d) == IF d.op = "unowned" THEN d.owned \ {d.bp} ELSE d.owned \union {d.bp}

\* A decision changes what the player reviewed, in the scope he reviewed.
PlanSound(d, s, st) ==
  /\ d.op = "unowned" <=> d.bp \notin Owned(st)
  /\ s \in Channels => Owned(st) = Reviewed(d)
  /\ Owned(stores[s]) \ {d.bp} \subseteq Owned(st)

ScanSound(j) ==
  /\ \A p \in j.todo : PathSound(j.scope, p)
  /\ j.state.rev = stores[j.scope].rev =>
       /\ Sound(j.scope, j.state, {})
       /\ Keeps(stores[j.scope], j.state)
       /\ OpenSound(j)

\* What a save takes out of its store, the player has marked as not owned.
SaveKeeps(j) ==
  \A e \in Events :
    \/ EntryKept(stores[j.scope].ev[e], j.state.ev[e])
    \/ /\ Dismisses(j)
       /\ \/ stores[j.scope].ev[e].bp = j.plan.bp
          \/ stores[j.scope].ev[e].bp = None /\ e \in dismissed \union Excused(j)

SaveSound(j) ==
  j.state.rev = stores[j.scope].rev =>
    /\ Sound(j.scope, j.state, Excused(j))
    /\ SaveKeeps(j)
    /\ j.plan # None => PlanSound(j.plan, j.scope, j.state)

ReviewSound(d) ==
  /\ d.rev <= stores[d.scope].rev
  /\ d.scope \in Channels /\ d.rev = stores[d.scope].rev => d.owned = Owned(stores[d.scope])

JobSound(j) ==
  /\ JobTyped(j)
  /\ j.stage \in {"scan", "save"} => j.state.rev <= stores[j.scope].rev
  /\ j.stage = "scan" => ScanSound(j)
  /\ j.stage = "save" => SaveSound(j)
  /\ j.stage = "review" => ReviewSound(j.plan)

JobsSound ==
  /\ DOMAIN job = Windows
  /\ \A w \in Windows : job[w] # None => JobSound(job[w])

RevisionsBounded ==
  \A s \in Scopes : stores[s].rev <= MaxSaves

Typed == GameTyped /\ StoresTyped
IInv == Typed /\ LogsSound /\ StoresSound /\ JobsSound /\ RevisionsBounded

-----------------------------------------------------------------------------
(* Lemmas: the operators stay within the types.                            *)

LEMMA NoneApart ==
  ASSUME EvidenceAssumption
  PROVE  None \notin Files /\ None \notin Blueprints /\ None \notin Channels
         /\ Linked \notin Channels
BY DEF EvidenceAssumption, Channels, Linked

LEMMA EntryFields ==
  ASSUME NEW b, NEW f
  PROVE  Entry(b, f).known /\ Entry(b, f).bp = b /\ Entry(b, f).file = f
BY DEF Entry

LEMMA EntryFacts ==
  ASSUME NEW x \in Entries
  PROVE  /\ x.bp \in Blueprints \union {None} /\ x.known \in BOOLEAN
         /\ ~x.known => x = Absent /\ x.bp = None
         /\ x.known => x.file \in Files /\ x = Entry(x.bp, x.file)
<1>1. CASE x = Absent
  BY <1>1 DEF Absent
<1>2. ASSUME NEW b \in Blueprints \union {None}, NEW f \in Files, x = Entry(b, f)
      PROVE  x.known = TRUE /\ x.bp = b /\ x.file = f
  BY <1>2 DEF Entry
<1>3. CASE \E b \in Blueprints \union {None}, f \in Files : x = Entry(b, f)
  <2>1. PICK b \in Blueprints \union {None}, f \in Files : x = Entry(b, f)
    BY <1>3
  <2>2. x.known = TRUE /\ x.bp = b /\ x.file = f
    BY <1>2, <2>1
  <2> QED  BY <2>1, <2>2
<1> QED  BY <1>1, <1>3 DEF Entries

LEMMA ResolvedEntry ==
  ASSUME NEW b, NEW f, NEW bp
  PROVE  [Entry(b, f) EXCEPT !.bp = bp] = Entry(bp, f)
<1>1. ASSUME NEW k
      PROVE  [[bp |-> b, file |-> f, known |-> k] EXCEPT !.bp = bp]
               = [bp |-> bp, file |-> f, known |-> k]
  OBVIOUS
<1> QED  BY <1>1, Zenon DEF Entry

LEMMA EntryTyped ==
  ASSUME NEW b \in Blueprints \union {None}, NEW f \in Files
  PROVE  Entry(b, f) \in Entries
BY DEF Entries

LEMMA CursorFacts ==
  ASSUME NEW c \in Cursors
  PROVE  /\ c.offset \in Nat
         /\ PrefixLength(c) \in Nat
         /\ c.prefix # << >> => /\ c.prefix[1] \in Nat /\ c.prefix[2] \in Nat
                                /\ c.prefix = << c.prefix[1], c.prefix[2] >>
                                /\ PrefixLength(c) = c.prefix[2]
<1>1. CASE c.prefix = << >>
  BY <1>1 DEF Cursors, PrefixLength
<1>2. CASE c.prefix # << >> /\ c.prefix \in Nat \X Nat
  <2>1. c.prefix = << c.prefix[1], c.prefix[2] >> /\ c.prefix[1] \in Nat
        /\ c.prefix[2] \in Nat
    BY <1>2
  <2> QED  BY <1>2, <2>1 DEF Cursors, PrefixLength
<1> QED  BY <1>1, <1>2 DEF Cursors, Prefixes

LEMMA NoCursorTyped == NoCursor \in Cursors
BY DEF NoCursor, Cursors, Prefixes

LEMMA NewStoreTyped == NewStore \in States
BY NoCursorTyped DEF NewStore, States, Entries

LEMMA FoundTyped ==
  ASSUME EvidenceAssumption, NEW cat \in Catalogs, NEW e \in Events
  PROVE  Found(cat, e) \in Blueprints \union {None}
<1>1. CASE Cardinality(Candidates(cat, e)) = 1
  <2>1. Candidates(cat, e) \subseteq Blueprints /\ IsFiniteSet(Candidates(cat, e))
    BY DEF EvidenceAssumption
  <2>2. Candidates(cat, e) # {}
    BY <1>1, <2>1, FS_EmptySet
  <2> QED  BY <1>1, <2>1, <2>2 DEF Found
<1> QED  BY <1>1 DEF Found, Unresolved

LEMMA MergedCursorTyped ==
  ASSUME NEW x \in Cursors, NEW y \in Cursors
  PROVE  MergedCursor(x, y) \in {x, y, NoCursor}
BY DEF MergedCursor

LEMMA MergeTyped ==
  ASSUME NEW a \in States, NEW b \in States
  PROVE  /\ Merge(a, b) \in States
         /\ Merge(a, b).rev = a.rev
<1>1. [e \in Events |-> MergedEntry(a.ev[e], b.ev[e])] \in [Events -> Entries]
  BY DEF MergedEntry, States
<1>2. [f \in Files |-> MergedCursor(a.cur[f], b.cur[f])] \in [Files -> Cursors]
  BY MergedCursorTyped, NoCursorTyped DEF States
<1> QED  BY <1>1, <1>2 DEF Merge, States

LEMMA LoadedTyped ==
  ASSUME StoresTyped, NEW s \in Scopes
  PROVE  /\ Loaded(s) \in States
         /\ Loaded(s).rev = stores[s].rev
<1>1. /\ stores[s] \in States /\ stores["LIVE"] \in States
      /\ stores["HOTFIX"] \in States /\ stores[Linked] \in States
  BY DEF StoresTyped, Scopes, Channels
<1> QED  BY <1>1, MergeTyped DEF Loaded

LEMMA ReconciledTyped ==
  ASSUME EvidenceAssumption, NEW cat \in Catalogs, NEW st \in States
  PROVE  /\ Reconciled(cat, st) \in States
         /\ Reconciled(cat, st).rev = st.rev
         /\ Reconciled(cat, st).cur = st.cur
<1> DEFINE ev == [e \in Events |->
                    IF st.ev[e].known /\ st.ev[e].bp = Unresolved
                    THEN Entry(Found(cat, e), st.ev[e].file) ELSE st.ev[e]]
<1>1. ASSUME NEW e \in Events
      PROVE  ev[e] \in Entries
  <2>1. st.ev[e] \in Entries
    BY DEF States
  <2>2. CASE st.ev[e].known /\ st.ev[e].bp = Unresolved
    <3>1. st.ev[e].file \in Files /\ Found(cat, e) \in Blueprints \union {None}
      BY <2>1, <2>2, EntryFacts, FoundTyped
    <3> QED  BY <2>2, <3>1, EntryTyped
  <2> QED  BY <2>1, <2>2
<1>2. ev \in [Events -> Entries]
  BY <1>1
<1> HIDE DEF ev
<1>3. [st EXCEPT !.ev = ev] \in States
  BY <1>2 DEF States
<1>4. Reconciled(cat, st) = [st EXCEPT !.ev = ev]
  BY DEF Reconciled, ev
<1> QED  BY <1>3, <1>4 DEF States

LEMMA DecidedTyped ==
  ASSUME EvidenceAssumption, NEW d, PlanTyped(d), NEW st \in States, StillTrue(d, st)
  PROVE  /\ Decided(d, st) \in States
         /\ Decided(d, st).rev = st.rev
         /\ Decided(d, st).cur = st.cur
<1>1. st.ev \in [Events -> Entries] /\ st.decided \subseteq Blueprints
      /\ d.bp \in Blueprints
  BY DEF States, PlanTyped
<1>2. CASE d.op \in {"owned", "import"}
  BY <1>1, <1>2 DEF Decided, States
<1>3. CASE d.op = "unowned"
  <2> DEFINE ev == [e \in Events |-> IF st.ev[e].bp = d.bp THEN Absent ELSE st.ev[e]]
  <2>1. ev \in [Events -> Entries]
    BY <1>1 DEF Entries
  <2> HIDE DEF ev
  <2>2. [st EXCEPT !.decided = st.decided \ {d.bp}, !.ev = ev] \in States
    BY <1>1, <2>1 DEF States
  <2>3. Decided(d, st) = [st EXCEPT !.decided = st.decided \ {d.bp}, !.ev = ev]
    BY <1>3 DEF Decided, ev, States
  <2> QED  BY <2>2, <2>3 DEF States
<1>4. CASE d.op = "resolve"
  <2> DEFINE ev == [st.ev EXCEPT ![d.event] = [st.ev[d.event] EXCEPT !.bp = d.bp]]
  <2>1. ev \in [Events -> Entries]
    <3>1. ASSUME d.event \in Events
          PROVE  [st.ev[d.event] EXCEPT !.bp = d.bp] \in Entries
      <4>1. st.ev[d.event] \in Entries /\ st.ev[d.event].known
        BY <1>1, <1>4, <3>1 DEF StillTrue
      <4>2. st.ev[d.event] = Entry(st.ev[d.event].bp, st.ev[d.event].file)
            /\ st.ev[d.event].file \in Files
        BY <4>1, EntryFacts
      <4>3. [st.ev[d.event] EXCEPT !.bp = d.bp] = Entry(d.bp, st.ev[d.event].file)
        BY <4>2, ResolvedEntry
      <4> QED  BY <1>1, <4>2, <4>3, EntryTyped
    <3> QED  BY <1>1, <3>1
  <2> HIDE DEF ev
  <2>2. [st EXCEPT !.ev = ev] \in States
    BY <2>1 DEF States
  <2>3. Decided(d, st) = [st EXCEPT !.ev = ev]
    BY <1>4 DEF Decided, ev
  <2> QED  BY <2>2, <2>3 DEF States
<1> QED  BY <1>2, <1>3, <1>4 DEF PlanTyped, AllOps

-----------------------------------------------------------------------------
(* Lemmas: what the operators keep.                                        *)

LEMMA LineTyped ==
  ASSUME GameTyped, NEW f \in Files, NEW i \in 1 .. Len(logs[f].lines)
  PROVE  logs[f].lines[i] \in Events
BY DEF GameTyped, Logs

\* A cursor stays behind evidence that grows.
LEMMA CursorSoundOver ==
  ASSUME GameTyped, NEW f \in Files, NEW c \in Cursors, NEW ev, NEW more,
         NEW excused, NEW others,
         \A e \in Events : ev[e].known \/ e \in dismissed \union excused
                             => more[e].known \/ e \in dismissed \union others,
         CursorSound(f, c, ev, excused)
  PROVE  CursorSound(f, c, more, others)
<1>1. ASSUME ReadTo(f, c.offset, ev, excused)
      PROVE  ReadTo(f, c.offset, more, others)
  <2>1. c.offset \in Nat /\ Len(logs[f].lines) \in Nat /\ c.offset <= 2 * Len(logs[f].lines)
    BY <1>1 DEF Cursors, GameTyped, Logs, ReadTo
  <2>2. ASSUME NEW i \in 1 .. c.offset \div 2
        PROVE  more[logs[f].lines[i]].known \/ logs[f].lines[i] \in dismissed \union others
    <3>1. i \in 1 .. Len(logs[f].lines)
      BY <2>1
    <3>2. logs[f].lines[i] \in Events
      BY <3>1, LineTyped
    <3> QED  BY <1>1, <3>2 DEF ReadTo
  <2> QED  BY <2>1, <2>2 DEF ReadTo
<1> QED  BY <1>1 DEF CursorSound

LEMMA MergedKnown ==
  ASSUME NEW a \in States, NEW b \in States, NEW e \in Events
  PROVE  /\ Merge(a, b).ev[e] = MergedEntry(a.ev[e], b.ev[e])
         /\ Merge(a, b).ev[e].known <=> a.ev[e].known \/ b.ev[e].known
         /\ a.ev[e].bp # None => Merge(a, b).ev[e] = a.ev[e]
<1>1. a.ev[e] \in Entries /\ b.ev[e] \in Entries
  BY DEF States
<1>2. Merge(a, b).ev[e] = MergedEntry(a.ev[e], b.ev[e])
  BY DEF Merge
<1>3. ~a.ev[e].known => a.ev[e].bp = None
  BY <1>1, EntryFacts
<1> QED  BY <1>2, <1>3 DEF MergedEntry

LEMMA KeepsTransitive ==
  ASSUME NEW a, NEW b, NEW c, Keeps(a, b), Keeps(b, c)
  PROVE  Keeps(a, c)
BY DEF Keeps, EntryKept

LEMMA MergeKeeps ==
  ASSUME NEW a \in States, NEW b \in States
  PROVE  Keeps(a, Merge(a, b)) /\ a.decided \subseteq Merge(a, b).decided
<1>1. Keeps(a, Merge(a, b))
  BY MergedKnown DEF Keeps, EntryKept
<1> QED  BY <1>1 DEF Merge

LEMMA OwnedGrows ==
  ASSUME NEW a \in States, NEW b \in States, Keeps(a, b), a.decided \subseteq b.decided
  PROVE  Owned(a) \subseteq Owned(b)
<1>1. ASSUME NEW e \in Events, a.ev[e].bp # None
      PROVE  b.ev[e].bp = a.ev[e].bp
  <2>1. a.ev[e] \in Entries
    BY DEF States
  <2>2. a.ev[e].known
    BY <1>1, <2>1, EntryFacts
  <2> QED  BY <1>1, <2>2 DEF Keeps, EntryKept
<1> QED  BY <1>1 DEF Owned

LEMMA LoadedKeeps ==
  ASSUME StoresTyped, NEW s \in Scopes
  PROVE  /\ Keeps(stores[s], Loaded(s))
         /\ Owned(stores[s]) \subseteq Owned(Loaded(s))
         /\ s \in Channels => Loaded(s) = stores[s]
<1>1. /\ stores[s] \in States /\ stores["LIVE"] \in States
      /\ stores["HOTFIX"] \in States /\ stores[Linked] \in States
  BY DEF StoresTyped, Scopes, Channels
<1>2. s \in Channels => s # Linked
  BY DEF Channels, Linked
<1>3. CASE s # Linked
  BY <1>2, <1>3 DEF Loaded, Keeps, EntryKept
<1>4. CASE s = Linked
  <2> DEFINE one == Merge(stores[Linked], stores["LIVE"])
             two == Merge(one, stores["HOTFIX"])
  <2>1. one \in States /\ two \in States
    BY <1>1, MergeTyped
  <2>2. Keeps(stores[Linked], one) /\ stores[Linked].decided \subseteq one.decided
    BY <1>1, MergeKeeps
  <2>3. Keeps(one, two) /\ one.decided \subseteq two.decided
    BY <1>1, <2>1, MergeKeeps
  <2> HIDE DEF one, two
  <2>4. Keeps(stores[Linked], two) /\ stores[Linked].decided \subseteq two.decided
    BY <2>2, <2>3, KeepsTransitive
  <2>5. Loaded(s) = two
    BY <1>4 DEF Loaded, one, two
  <2> QED  BY <1>1, <1>2, <1>4, <2>1, <2>4, <2>5, OwnedGrows
<1> QED  BY <1>3, <1>4

LEMMA ReconciledKeeps ==
  ASSUME NEW cat \in Catalogs, NEW st \in States
  PROVE  /\ Keeps(st, Reconciled(cat, st))
         /\ \A e \in Events : Reconciled(cat, st).ev[e].known <=> st.ev[e].known
<1>1. ASSUME NEW e \in Events
      PROVE  Reconciled(cat, st).ev[e] =
               IF st.ev[e].known /\ st.ev[e].bp = Unresolved
               THEN Entry(Found(cat, e), st.ev[e].file) ELSE st.ev[e]
  BY DEF Reconciled, States
<1>2. ASSUME NEW e \in Events
      PROVE  EntryKept(st.ev[e], Reconciled(cat, st).ev[e])
             /\ (Reconciled(cat, st).ev[e].known <=> st.ev[e].known)
  <2>1. CASE st.ev[e].known /\ st.ev[e].bp = Unresolved
    <3>1. Reconciled(cat, st).ev[e].known
      BY <1>1, <2>1, EntryFields
    <3> QED  BY <2>1, <3>1 DEF EntryKept, Unresolved
  <2>2. CASE ~(st.ev[e].known /\ st.ev[e].bp = Unresolved)
    BY <1>1, <2>2 DEF EntryKept
  <2> QED  BY <2>1, <2>2
<1> QED  BY <1>2 DEF Keeps

\* A decision adds its blueprint to what is owned, or takes only it away.
LEMMA DecidedOwned ==
  ASSUME EvidenceAssumption, NEW d, PlanTyped(d), NEW st \in States, StillTrue(d, st)
  PROVE  Owned(Decided(d, st)) =
           IF d.op = "unowned" THEN Owned(st) \ {d.bp} ELSE Owned(st) \union {d.bp}
<1>1. /\ st.ev \in [Events -> Entries] /\ d.bp # None
      /\ d.op \in AllOps
  BY NoneApart DEF States, PlanTyped
<1>2. CASE d.op \in {"owned", "import"}
  BY <1>1, <1>2 DEF Decided, Owned, States
<1>3. CASE d.op = "unowned"
  <2>1. /\ Decided(d, st).decided = st.decided \ {d.bp}
        /\ \A e \in Events : Decided(d, st).ev[e] =
             IF st.ev[e].bp = d.bp THEN Absent ELSE st.ev[e]
    BY <1>3 DEF Decided, States
  <2>2. \A e \in Events : Decided(d, st).ev[e].bp =
             IF st.ev[e].bp = d.bp THEN None ELSE st.ev[e].bp
    BY <2>1 DEF Absent
  <2> QED  BY <1>3, <2>1, <2>2 DEF Owned
<1>4. CASE d.op = "resolve"
  <2>1. Decided(d, st).decided = st.decided
    BY <1>4 DEF Decided, States
  <2>2. d.event \in Events /\ st.ev[d.event] \in Entries /\ st.ev[d.event].bp = None
    BY <1>1, <1>4 DEF StillTrue, Unresolved, PlanTyped
  <2>3. Decided(d, st).ev = [st.ev EXCEPT ![d.event] = [st.ev[d.event] EXCEPT !.bp = d.bp]]
    BY <1>4 DEF Decided, States
  <2>4. [st.ev[d.event] EXCEPT !.bp = d.bp].bp = d.bp
    <3>1. ASSUME NEW x \in Entries
          PROVE  [x EXCEPT !.bp = d.bp].bp = d.bp
      BY <3>1 DEF Entries, Entry, Absent
    <3> QED  BY <2>2, <3>1
  <2>5. \A e \in Events : Decided(d, st).ev[e].bp =
             IF e = d.event THEN d.bp ELSE st.ev[e].bp
    BY <1>1, <2>2, <2>3, <2>4
  <2> QED  BY <1>1, <1>4, <2>1, <2>2, <2>5 DEF Owned
<1> QED  BY <1>1, <1>2, <1>3, <1>4 DEF AllOps

LEMMA DecidedKnown ==
  ASSUME EvidenceAssumption, NEW d, PlanTyped(d), NEW st \in States, StillTrue(d, st),
         NEW e \in Events
  PROVE  /\ Decided(d, st).ev[e].known => st.ev[e].known
         /\ \/ EntryKept(st.ev[e], Decided(d, st).ev[e])
            \/ d.op = "unowned" /\ e \in Evidence(st, d.bp)
<1>1. st.ev \in [Events -> Entries] /\ d.op \in AllOps
  BY DEF States, PlanTyped
<1>2. CASE d.op \in {"owned", "import"}
  <2>1. Decided(d, st).ev = st.ev
    BY <1>2 DEF Decided, States
  <2> QED  BY <2>1 DEF EntryKept
<1>3. CASE d.op = "unowned"
  <2>1. Decided(d, st).ev[e] = IF st.ev[e].bp = d.bp THEN Absent ELSE st.ev[e]
    BY <1>3 DEF Decided, States
  <2>2. ~Absent.known
    BY DEF Absent
  <2> QED  BY <1>3, <2>1, <2>2 DEF Evidence, EntryKept
<1>4. CASE d.op = "resolve"
  <2>1. d.event \in Events /\ st.ev[d.event].known /\ st.ev[d.event].bp = None
    BY <1>4 DEF StillTrue, Unresolved, PlanTyped
  <2>2. Decided(d, st).ev = [st.ev EXCEPT ![d.event] = [st.ev[d.event] EXCEPT !.bp = d.bp]]
    BY <1>4 DEF Decided, States
  <2>3. [st.ev[d.event] EXCEPT !.bp = d.bp].known
    <3>1. st.ev[d.event] \in Entries
      BY <1>1, <2>1
    <3>2. st.ev[d.event] = Entry(st.ev[d.event].bp, st.ev[d.event].file)
      BY <2>1, <3>1, EntryFacts
    <3>3. [st.ev[d.event] EXCEPT !.bp = d.bp] = Entry(d.bp, st.ev[d.event].file)
      BY <3>2, ResolvedEntry
    <3>4. ASSUME NEW x, x = Entry(d.bp, st.ev[d.event].file)
          PROVE  x.known
      BY <3>4, EntryFields
    <3> QED  BY <3>3, <3>4
  <2>4. CASE e = d.event
    BY <1>1, <2>1, <2>2, <2>3, <2>4 DEF EntryKept
  <2>5. CASE e # d.event
    BY <1>1, <2>2, <2>5 DEF EntryKept
  <2> QED  BY <2>4, <2>5
<1> QED  BY <1>1, <1>2, <1>3, <1>4 DEF AllOps

-----------------------------------------------------------------------------
(* Lemmas: cursors stay behind the evidence.                               *)

\* Of two states with the same cursors.
LEMMA SoundOver ==
  ASSUME GameTyped, NEW s, NEW st \in States, NEW new \in States, new.cur = st.cur,
         NEW excused, NEW others,
         \A e \in Events : new.ev[e].known => st.ev[e].known,
         \A e \in Events : st.ev[e].known \/ e \in dismissed \union excused
                             => new.ev[e].known \/ e \in dismissed \union others,
         Sound(s, st, excused)
  PROVE  Sound(s, new, others)
<1>1. FromLogs(s, new)
  BY DEF Sound, FromLogs
<1>2. ASSUME NEW f \in Files
      PROVE  CursorSound(f, new.cur[f], new.ev, others)
  <2>1. st.cur[f] \in Cursors /\ CursorSound(f, st.cur[f], st.ev, excused)
    BY DEF States, Sound
  <2> QED  BY <2>1, CursorSoundOver
<1> QED  BY <1>1, <1>2 DEF Sound

LEMMA MergeSound ==
  ASSUME GameTyped, NEW a \in States, NEW b \in States, NEW s,
         Sound(Linked, a, {}), Sound(s, b, {})
  PROVE  Sound(Linked, Merge(a, b), {})
<1>1. Linked \notin Channels
  BY DEF Linked, Channels
<1>2. FromLogs(Linked, Merge(a, b))
  BY <1>1, MergedKnown DEF Sound, FromLogs
<1>3. ASSUME NEW f \in Files
      PROVE  CursorSound(f, Merge(a, b).cur[f], Merge(a, b).ev, {})
  <2>1. /\ a.cur[f] \in Cursors /\ b.cur[f] \in Cursors
        /\ CursorSound(f, a.cur[f], a.ev, {}) /\ CursorSound(f, b.cur[f], b.ev, {})
    BY DEF States, Sound
  <2>2. \A e \in Events : a.ev[e].known \/ b.ev[e].known => Merge(a, b).ev[e].known
    BY MergedKnown
  <2>3. /\ CursorSound(f, a.cur[f], Merge(a, b).ev, {})
        /\ CursorSound(f, b.cur[f], Merge(a, b).ev, {})
    BY <2>1, <2>2, CursorSoundOver
  <2>4. CursorSound(f, NoCursor, Merge(a, b).ev, {})
    BY DEF CursorSound
  <2>5. Merge(a, b).cur[f] \in {a.cur[f], b.cur[f], NoCursor}
    BY <2>1, MergedCursorTyped DEF Merge
  <2> QED  BY <2>3, <2>4, <2>5
<1> QED  BY <1>2, <1>3 DEF Sound

LEMMA LoadedSound ==
  ASSUME GameTyped, StoresTyped, StoresSound, NEW s \in Scopes
  PROVE  Sound(s, Loaded(s), {})
<1>1. /\ stores[Linked] \in States /\ stores["LIVE"] \in States
      /\ stores["HOTFIX"] \in States
      /\ Sound(Linked, stores[Linked], {}) /\ Sound("LIVE", stores["LIVE"], {})
      /\ Sound("HOTFIX", stores["HOTFIX"], {})
  BY DEF StoresTyped, StoresSound, Scopes, Channels
<1>2. CASE s = Linked
  <2>1. Merge(stores[Linked], stores["LIVE"]) \in States
        /\ Sound(Linked, Merge(stores[Linked], stores["LIVE"]), {})
    BY <1>1, MergeTyped, MergeSound
  <2> QED  BY <1>1, <1>2, <2>1, MergeSound DEF Loaded
<1>3. CASE s # Linked
  BY <1>3 DEF Loaded, StoresSound
<1> QED  BY <1>2, <1>3

\* Cursors stay behind the evidence while the logs grow.
Grows ==
  /\ UNCHANGED home
  /\ next <= next' /\ raced \subseteq raced' /\ dismissed \subseteq dismissed'
  /\ \A f \in Files : logs[f].channel # None =>
       /\ logs'[f].channel = logs[f].channel
       /\ \/ logs'[f].text > logs[f].text
          \/ /\ logs'[f].text = logs[f].text
             /\ Len(logs[f].lines) <= Len(logs'[f].lines)
             /\ \A i \in 1 .. Len(logs[f].lines) : logs'[f].lines[i] = logs[f].lines[i]

LEMMA ReadStays ==
  ASSUME GameTyped, GameTyped', Grows, NEW f \in Files, logs[f].channel # None,
         logs'[f].text = logs[f].text,
         NEW offset \in Nat, NEW ev, NEW excused, ReadTo(f, offset, ev, excused)
  PROVE  ReadTo(f, offset, ev, excused)'
<1>1. /\ Len(logs[f].lines) \in Nat /\ Len(logs'[f].lines) \in Nat
      /\ Len(logs[f].lines) <= Len(logs'[f].lines)
      /\ \A i \in 1 .. Len(logs[f].lines) : logs'[f].lines[i] = logs[f].lines[i]
  BY DEF GameTyped, Logs, Grows
<1>2. ASSUME NEW i \in 1 .. offset \div 2
      PROVE  i \in 1 .. Len(logs[f].lines)
  BY <1>1 DEF ReadTo
<1> QED  BY <1>1, <1>2 DEF ReadTo, Grows

LEMMA CursorStays ==
  ASSUME GameTyped, GameTyped', Grows, NEW f \in Files, NEW c \in Cursors, NEW ev,
         NEW excused, CursorSound(f, c, ev, excused)
  PROVE  CursorSound(f, c, ev, excused)'
<1>1. SUFFICES ASSUME c # NoCursor
               PROVE  CursorSound(f, c, ev, excused)'
  BY DEF CursorSound
<1>2. /\ logs[f].channel # None /\ c.prefix # << >>
      /\ c.prefix[1] \in Nat /\ c.prefix[2] \in Nat /\ c.offset \in Nat
      /\ c.prefix[1] <= logs[f].text /\ c.prefix[2] > 0
  BY <1>1, CursorFacts DEF CursorSound
<1>3. /\ logs[f].text \in Nat /\ logs'[f].text \in Nat
      /\ logs[f].text <= logs'[f].text /\ logs'[f].channel # None
  <2>1. logs[f].text \in Nat /\ logs'[f].text \in Nat
    BY DEF GameTyped, Logs
  <2> QED  BY <1>2, <2>1 DEF Grows
<1>4. ASSUME c.prefix[1] = logs'[f].text, f \notin raced'
      PROVE  ReadTo(f, c.offset, ev, excused)'
  <2>1. logs'[f].text = logs[f].text /\ f \notin raced
    BY <1>2, <1>3, <1>4 DEF Grows
  <2>2. ReadTo(f, c.offset, ev, excused)
    BY <1>1, <1>2, <1>4, <2>1 DEF CursorSound
  <2> QED  BY <1>2, <2>1, <2>2, ReadStays
<1> QED  BY <1>2, <1>3, <1>4 DEF CursorSound

LEMMA SoundStays ==
  ASSUME GameTyped, GameTyped', Grows, NEW s, NEW st \in States, NEW excused,
         Sound(s, st, excused)
  PROVE  Sound(s, st, excused)'
<1>1. FromLogs(s, st)'
  BY DEF Sound, FromLogs, GameTyped, Grows, Events, EvidenceAssumption
<1>2. ASSUME NEW f \in Files
      PROVE  CursorSound(f, st.cur[f], st.ev, excused)'
  <2>1. st.cur[f] \in Cursors /\ CursorSound(f, st.cur[f], st.ev, excused)
    BY DEF States, Sound
  <2> QED  BY <2>1, CursorStays
<1> QED  BY <1>1, <1>2 DEF Sound

-----------------------------------------------------------------------------
(* Steps of the game.                                                      *)

\* What a step of the game leaves to the windows.
Undisturbed(w) ==
  job[w] # None /\ job[w].open # None =>
    LET f == job[w].open.file
    IN  logs[f].channel # None /\ f \notin raced' => logs'[f].text = logs[f].text

GameGoesOn ==
  /\ GameTyped' /\ LogsSound' /\ Grows
  /\ \A c \in Channels : gamelog[c] # None => gamelog'[c] # None
  /\ \A w \in Windows : Undisturbed(w)
  /\ UNCHANGED << stores, job, dismissed >>

\* One log changes.
LogsButOne(f, log) ==
  /\ logs' \in [Files -> Logs]
  /\ logs'[f] = log
  /\ \A g \in Files \ {f} : logs'[g] = logs[g]

LEMMA StartGameGoesOn ==
  ASSUME EvidenceAssumption, GameTyped, LogsSound, NEW c \in Played, StartGame(c)
  PROVE  GameGoesOn
<1>1. c \in Channels /\ c # None
  BY NoneApart DEF EvidenceAssumption
<1>2. PICK f \in Files :
        /\ logs[f].channel = None
        /\ logs' = [logs EXCEPT ![f].channel = c]
        /\ gamelog' = [gamelog EXCEPT ![c] = f]
  BY DEF StartGame
<1>3. /\ logs'[f].channel = c /\ logs'[f].lines = << >> /\ logs'[f].text = logs[f].text
      /\ \A g \in Files \ {f} : logs'[g] = logs[g]
      /\ logs' \in [Files -> Logs]
  BY <1>1, <1>2 DEF GameTyped, Logs, LogsSound
<1>4. GameTyped'
  BY <1>1, <1>2, <1>3 DEF GameTyped, StartGame
<1>5. LogsSound'
  <2>1. ASSUME NEW d \in Channels, gamelog'[d] # None
        PROVE  logs'[gamelog'[d]].channel = d
    <3>1. CASE d = c
      BY <1>2, <1>3, <3>1 DEF GameTyped
    <3>2. CASE d # c
      <4>1. gamelog'[d] = gamelog[d] /\ gamelog[d] \in Files /\ logs[gamelog[d]].channel = d
        BY <1>2, <2>1, <3>2 DEF GameTyped, LogsSound
      <4>2. d # None
        BY NoneApart
      <4> QED  BY <1>2, <1>3, <4>1, <4>2
    <3> QED  BY <3>1, <3>2
  <2>2. UNCHANGED << next, home >>
    BY DEF StartGame
  <2> QED  BY <1>1, <1>3, <2>1, <2>2 DEF LogsSound
<1>6. Grows
  BY <1>2, <1>3 DEF Grows, StartGame, GameTyped, Logs
<1>7. \A d \in Channels : gamelog[d] # None => gamelog'[d] # None
  <2>1. f # None
    BY NoneApart
  <2> QED  BY <1>2, <2>1 DEF GameTyped
<1>8. \A w \in Windows : Undisturbed(w)
  BY <1>2 DEF Undisturbed, GameTyped, Logs
<1> QED  BY <1>4, <1>5, <1>6, <1>7, <1>8 DEF GameGoesOn, StartGame

\* The lines of the game log grow, or it starts over; the rest stays.
LEMMA GameLogGoesOn ==
  ASSUME EvidenceAssumption, GameTyped, LogsSound, NEW c \in Channels,
         gamelog[c] # None, UNCHANGED << gamelog, home, stores, job, dismissed >>,
         NEW log \in Logs, logs' = [logs EXCEPT ![gamelog[c]] = log],
         log.channel = logs[gamelog[c]].channel,
         next' \in 1 .. LastEvent + 1, next <= next',
         raced' \subseteq Files, raced \subseteq raced',
         \A i \in 1 .. Len(log.lines) : log.lines[i] < next' /\ home[log.lines[i]] = c,
         \/ /\ log.text > logs[gamelog[c]].text
            /\ \A w \in Windows :
                 job[w] # None /\ job[w].open # None /\ job[w].open.file = gamelog[c]
                   => gamelog[c] \in raced'
         \/ /\ log.text = logs[gamelog[c]].text
            /\ Len(logs[gamelog[c]].lines) <= Len(log.lines)
            /\ \A i \in 1 .. Len(logs[gamelog[c]].lines) :
                 log.lines[i] = logs[gamelog[c]].lines[i]
  PROVE  GameGoesOn
<1> DEFINE f == gamelog[c]
<1>1. f \in Files /\ logs[f].channel = c /\ c # None /\ logs \in [Files -> Logs]
  BY NoneApart DEF GameTyped, LogsSound
<1>2. logs'[f] = log /\ \A g \in Files \ {f} : logs'[g] = logs[g]
  BY <1>1
<1>3. logs' \in [Files -> Logs]
  BY <1>1
<1>4. GameTyped'
  BY <1>3 DEF GameTyped
<1>5. \A g \in Files : logs'[g].channel = logs[g].channel
  BY <1>2
<1>6. ASSUME NEW g \in Files \ {f}, NEW i \in 1 .. Len(logs[g].lines)
      PROVE  logs[g].lines[i] < next'
  <2>1. logs[g].lines[i] < next /\ logs[g].lines[i] \in Nat /\ next \in Nat /\ next' \in Nat
    BY LineTyped DEF LogsSound, GameTyped, Events
  <2> QED  BY <2>1
<1>7. LogsSound'
  <2>1. \A d \in Channels : gamelog'[d] # None => logs'[gamelog'[d]].channel = d
    BY <1>5 DEF LogsSound, GameTyped
  <2>2. ASSUME NEW g \in Files
        PROVE  /\ logs'[g].channel = None => logs'[g].lines = << >>
               /\ \A i \in 1 .. Len(logs'[g].lines) :
                    logs'[g].lines[i] < next' /\ home'[logs'[g].lines[i]] = logs'[g].channel
    <3>1. CASE g = f
      BY <1>1, <1>2, <1>5, <3>1
    <3>2. CASE g # f
      BY <1>2, <1>6, <3>2 DEF LogsSound
    <3> QED  BY <3>1, <3>2
  <2> QED  BY <2>1, <2>2 DEF LogsSound
<1>8. Grows
  <2>1. \A g \in Files \ {f} : Len(logs[g].lines) \in Nat
    BY <1>1 DEF Logs
  <2> QED  BY <1>2, <1>5, <2>1 DEF Grows
<1>9. \A w \in Windows : Undisturbed(w)
  <2>1. ASSUME NEW w \in Windows, job[w] # None, job[w].open # None,
               logs[job[w].open.file].channel # None, job[w].open.file \notin raced'
        PROVE  logs'[job[w].open.file].text = logs[job[w].open.file].text
    <3>1. CASE job[w].open.file = f
      BY <1>1, <1>2, <2>1, <3>1 DEF Logs
    <3>2. CASE job[w].open.file # f
      BY <3>2
    <3> QED  BY <3>1, <3>2
  <2> QED  BY <2>1 DEF Undisturbed
<1> QED  BY <1>4, <1>7, <1>8, <1>9 DEF GameGoesOn

LEMMA FinishedLog ==
  ASSUME NEW x \in Logs, NEW lines \in Seq(Events), NEW log,
         log = [x EXCEPT !.half = FALSE, !.lines = lines]
  PROVE  log \in Logs /\ log.channel = x.channel /\ log.text = x.text /\ log.lines = lines
BY DEF Logs

LEMMA BeginLineGoesOn ==
  ASSUME EvidenceAssumption, GameTyped, LogsSound, NEW c \in Played, BeginLine(c)
  PROVE  GameGoesOn
<1> DEFINE f == gamelog[c]
           log == [logs[f] EXCEPT !.half = TRUE]
<1>1. c \in Channels /\ f \in Files /\ f # None /\ logs[f] \in Logs /\ logs[f].channel = c
  BY DEF EvidenceAssumption, BeginLine, GameTyped, LogsSound
<1>2. /\ log \in Logs /\ log.channel = logs[f].channel /\ log.text = logs[f].text
      /\ log.lines = logs[f].lines
  BY <1>1 DEF Logs
<1>3. \A i \in 1 .. Len(log.lines) : log.lines[i] < next' /\ home[log.lines[i]] = c
  BY <1>1, <1>2 DEF LogsSound, BeginLine
<1>4. logs' = [logs EXCEPT ![f] = log]
  BY <1>1 DEF BeginLine, GameTyped
<1>5. next' \in 1 .. LastEvent + 1 /\ next <= next' /\ raced \subseteq Files
      /\ raced' = raced
  BY DEF GameTyped, EvidenceAssumption, BeginLine
<1>6. /\ Len(logs[f].lines) <= Len(log.lines)
      /\ \A i \in 1 .. Len(logs[f].lines) : log.lines[i] = logs[f].lines[i]
  <2>1. Len(logs[f].lines) \in Nat
    BY <1>1 DEF Logs
  <2> QED  BY <1>2, <2>1
<1> HIDE DEF log
<1> QED  BY <1>1, <1>2, <1>3, <1>4, <1>5, <1>6, GameLogGoesOn DEF BeginLine

LEMMA FinishLineGoesOn ==
  ASSUME EvidenceAssumption, GameTyped, LogsSound, NEW c \in Played, FinishLine(c)
  PROVE  GameGoesOn
<1> DEFINE f == gamelog[c]
           log == [logs[f] EXCEPT !.half = FALSE, !.lines = Append(logs[f].lines, next)]
<1>1. c \in Channels /\ f \in Files /\ f # None /\ logs[f] \in Logs /\ logs[f].channel = c
  BY DEF EvidenceAssumption, FinishLine, GameTyped, LogsSound
<1>2. /\ LastEvent \in Nat /\ next \in Events /\ home[next] = c /\ next' = next + 1
      /\ logs[f].lines \in Seq(Events)
  BY <1>1 DEF FinishLine, GameTyped, Events, EvidenceAssumption, Logs
<1>3. /\ log \in Logs /\ log.channel = logs[f].channel /\ log.text = logs[f].text
      /\ log.lines = Append(logs[f].lines, next)
  <2>1. Append(logs[f].lines, next) \in Seq(Events)
    BY <1>2
  <2> QED  BY <1>1, <2>1, FinishedLog
<1>4. \A i \in 1 .. Len(logs[f].lines) :
        /\ logs[f].lines[i] \in Nat /\ logs[f].lines[i] < next
        /\ home[logs[f].lines[i]] = c
  BY <1>1, LineTyped DEF LogsSound, Events
<1>5. /\ Len(log.lines) = Len(logs[f].lines) + 1 /\ Len(logs[f].lines) \in Nat
      /\ \A i \in 1 .. Len(logs[f].lines) : log.lines[i] = logs[f].lines[i]
      /\ log.lines[Len(logs[f].lines) + 1] = next
  BY <1>2, <1>3
<1>6. logs' = [logs EXCEPT ![f] = log]
  BY <1>1 DEF FinishLine, GameTyped
<1>7. next' \in 1 .. LastEvent + 1 /\ next <= next' /\ raced \subseteq Files
      /\ raced' = raced
  BY <1>2 DEF GameTyped, Events, FinishLine
<1> HIDE DEF log
<1>8. ASSUME NEW i \in 1 .. Len(log.lines)
      PROVE  log.lines[i] < next' /\ home[log.lines[i]] = c
  <2>1. CASE i = Len(logs[f].lines) + 1
    BY <1>2, <1>5, <2>1 DEF Events
  <2>2. CASE i # Len(logs[f].lines) + 1
    <3>1. i \in 1 .. Len(logs[f].lines)
      BY <1>5, <2>2
    <3>2. log.lines[i] = logs[f].lines[i]
      BY <1>5, <3>1
    <3>3. logs[f].lines[i] \in Nat /\ logs[f].lines[i] < next /\ home[logs[f].lines[i]] = c
      BY <1>4, <3>1
    <3> QED  BY <1>2, <3>2, <3>3 DEF Events
  <2> QED  BY <2>1, <2>2
<1>9. Len(logs[f].lines) <= Len(log.lines)
  BY <1>5
<1> QED  BY <1>1, <1>3, <1>5, <1>6, <1>7, <1>8, <1>9, GameLogGoesOn DEF FinishLine

\* A log that starts over while a scan has it open is remembered as raced.
LEMMA RewriteGoesOn ==
  ASSUME EvidenceAssumption, GameTyped, LogsSound, NEW c \in Played, Rewrite(c)
  PROVE  GameGoesOn
<1> DEFINE f == gamelog[c]
           log == [logs[f] EXCEPT !.text = logs[f].text + 1, !.lines = << >>, !.half = FALSE]
<1>1. c \in Channels /\ f \in Files /\ f # None /\ logs[f] \in Logs /\ logs[f].channel = c
  BY DEF EvidenceAssumption, Rewrite, GameTyped, LogsSound
<1>2. /\ log \in Logs /\ log.channel = logs[f].channel /\ log.text = logs[f].text + 1
      /\ log.lines = << >>
  <2>1. logs[f].text + 1 \in Nat /\ << >> \in Seq(Events)
    BY <1>1 DEF Logs
  <2> QED  BY <1>1, <2>1 DEF Logs
<1>3. \A i \in 1 .. Len(log.lines) : log.lines[i] < next' /\ home[log.lines[i]] = c
  BY <1>2
<1>4. logs' = [logs EXCEPT ![f] = log]
  BY <1>1 DEF Rewrite, GameTyped
<1>5. next' \in 1 .. LastEvent + 1 /\ next <= next' /\ log.text > logs[f].text
  BY <1>1, <1>2 DEF GameTyped, Logs, EvidenceAssumption, Rewrite
<1>6. raced' \subseteq Files /\ raced \subseteq raced'
      /\ \A w \in Windows : job[w] # None /\ job[w].open # None /\ job[w].open.file = f
                              => f \in raced'
  BY <1>1 DEF Rewrite, GameTyped
<1> HIDE DEF log
<1> QED  BY <1>1, <1>2, <1>3, <1>4, <1>5, <1>6, GameLogGoesOn DEF Rewrite

LEMMA CopyLogGoesOn ==
  ASSUME EvidenceAssumption, GameTyped, LogsSound, CopyLog
  PROVE  GameGoesOn
<1>1. PICK f \in Files, g \in Files :
        /\ logs[f].channel # None /\ logs[g].channel = None
        /\ logs' = [logs EXCEPT ![g] = logs[f]]
  BY DEF CopyLog
<1>2. /\ logs' \in [Files -> Logs] /\ logs'[g] = logs[f]
      /\ \A h \in Files \ {g} : logs'[h] = logs[h]
  BY <1>1 DEF GameTyped
<1>3. UNCHANGED << gamelog, home, next, raced, stores, job, dismissed >>
  BY DEF CopyLog
<1>4. GameTyped'
  BY <1>2, <1>3 DEF GameTyped
<1>5. LogsSound'
  <2>1. \A c \in Channels : gamelog[c] # None => gamelog[c] \in Files \ {g}
    BY <1>1, NoneApart DEF LogsSound, GameTyped
  <2>2. \A c \in Channels : gamelog'[c] # None => logs'[gamelog'[c]].channel = c
    BY <1>2, <1>3, <2>1 DEF LogsSound
  <2>3. ASSUME NEW h \in Files
        PROVE  /\ logs'[h].channel = None => logs'[h].lines = << >>
               /\ \A i \in 1 .. Len(logs'[h].lines) :
                    logs'[h].lines[i] < next' /\ home'[logs'[h].lines[i]] = logs'[h].channel
    <3>1. CASE h = g
      BY <1>1, <1>2, <1>3, <3>1 DEF LogsSound
    <3>2. CASE h # g
      BY <1>2, <1>3, <3>2 DEF LogsSound
    <3> QED  BY <3>1, <3>2
  <2> QED  BY <2>2, <2>3 DEF LogsSound
<1>6. Grows
  <2>1. ASSUME NEW h \in Files, logs[h].channel # None
        PROVE  logs'[h] = logs[h] /\ Len(logs[h].lines) \in Nat
    BY <1>1, <1>2, <2>1 DEF GameTyped, Logs
  <2>2. next <= next
    BY DEF GameTyped
  <2> QED  BY <1>3, <2>1, <2>2 DEF Grows
<1>7. \A w \in Windows : Undisturbed(w)
  BY <1>1 DEF Undisturbed
<1> QED  BY <1>3, <1>4, <1>5, <1>6, <1>7 DEF GameGoesOn

LEMMA GameSteps ==
  ASSUME EvidenceAssumption, GameTyped, LogsSound,
         \/ \E c \in Played : StartGame(c) \/ BeginLine(c) \/ FinishLine(c) \/ Rewrite(c)
         \/ CopyLog
  PROVE  GameGoesOn
BY StartGameGoesOn, BeginLineGoesOn, FinishLineGoesOn, RewriteGoesOn, CopyLogGoesOn

\* What is excused depends on the stores and the job alone.
LEMMA ScanStays ==
  ASSUME EvidenceAssumption, GameTyped, StoresTyped, GameGoesOn,
         NEW w \in Windows, job[w] # None,
         job[w].stage = "scan", job[w] \in ScanJobs, ScanSound(job[w])
  PROVE  ScanSound(job[w])'
<1>1. GameTyped' /\ Grows /\ UNCHANGED << stores, job >> /\ Undisturbed(w)
  BY DEF GameGoesOn
<1>2. ASSUME NEW p \in job[w].todo
      PROVE  PathSound(job[w].scope, p)'
  <2>1. PathSound(job[w].scope, p) /\ p \in Paths /\ job[w].scope \in Scopes
    BY <1>2 DEF ScanSound, ScanJobs
  <2>2. CASE p[2] = None
    <3>1. p[1] \in Channels /\ gamelog[p[1]] # None
      BY <2>1, <2>2 DEF PathSound, Paths
    <3> QED  BY <1>1, <2>1, <2>2, <3>1 DEF GameGoesOn, PathSound, Roots
  <2>3. CASE p[2] # None
    <3>1. p[2] \in Files /\ logs[p[2]].channel = p[1] /\ p[1] # None
      BY <2>1, <2>3, NoneApart DEF PathSound, Paths, Channels
    <3> QED  BY <1>1, <2>1, <2>3, <3>1 DEF Grows, PathSound, Roots
  <2> QED  BY <2>2, <2>3
<1>3. ASSUME job[w].state.rev = stores[job[w].scope].rev
      PROVE  /\ Sound(job[w].scope, job[w].state, {})'
             /\ OpenSound(job[w])'
  <2>1. /\ Sound(job[w].scope, job[w].state, {}) /\ OpenSound(job[w])
        /\ job[w].state \in States
    BY <1>3 DEF ScanSound, ScanJobs
  <2>2. Sound(job[w].scope, job[w].state, {})'
    BY <1>1, <2>1, SoundStays
  <2>3. ASSUME job[w].open # None
        PROVE  /\ logs'[job[w].open.file].channel # None
               /\ job[w].open.file \notin raced' =>
                    ReadTo(job[w].open.file, job[w].open.committed, job[w].state.ev, {})'
    <3>1. /\ job[w].open.file \in Files /\ job[w].open.committed \in Nat
          /\ logs[job[w].open.file].channel # None
      BY <2>1, <2>3 DEF OpenSound, ScanJobs, Opened
    <3>2. ASSUME job[w].open.file \notin raced'
          PROVE  ReadTo(job[w].open.file, job[w].open.committed, job[w].state.ev, {})'
      <4>1. job[w].open.file \notin raced
            /\ logs'[job[w].open.file].text = logs[job[w].open.file].text
        BY <1>1, <2>3, <3>1, <3>2 DEF Grows, Undisturbed
      <4>2. ReadTo(job[w].open.file, job[w].open.committed, job[w].state.ev, {})
        BY <2>1, <2>3, <4>1 DEF OpenSound
      <4> QED  BY <1>1, <3>1, <4>1, <4>2, ReadStays
    <3> QED  BY <1>1, <3>1, <3>2 DEF Grows
  <2> QED  BY <1>1, <2>1, <2>2, <2>3 DEF OpenSound
<1> QED  BY <1>1, <1>2, <1>3 DEF ScanSound, Keeps

LEMMA SaveStays ==
  ASSUME EvidenceAssumption, GameTyped, StoresTyped, GameGoesOn,
         NEW w \in Windows, job[w] # None,
         job[w].stage = "save", JobTyped(job[w]), SaveSound(job[w])
  PROVE  SaveSound(job[w])'
<1>1. GameTyped' /\ Grows /\ UNCHANGED << stores, job, dismissed >>
  BY DEF GameGoesOn
<1>2. Excused(job[w])' = Excused(job[w])
  BY <1>1 DEF Excused, Loaded, Evidence, Dismisses
<1>3. ASSUME job[w].state.rev = stores[job[w].scope].rev
      PROVE  /\ Sound(job[w].scope, job[w].state, Excused(job[w]))'
             /\ SaveKeeps(job[w])'
             /\ job[w].plan # None => PlanSound(job[w].plan, job[w].scope, job[w].state)'
  <2>1. /\ Sound(job[w].scope, job[w].state, Excused(job[w])) /\ SaveKeeps(job[w])
        /\ job[w].plan # None => PlanSound(job[w].plan, job[w].scope, job[w].state)
        /\ job[w].state \in States
    BY <1>3 DEF SaveSound, JobTyped
  <2>2. Sound(job[w].scope, job[w].state, Excused(job[w]))'
    BY <1>1, <1>2, <2>1, SoundStays
  <2>3. SaveKeeps(job[w])'
    BY <1>1, <1>2, <2>1 DEF SaveKeeps, Dismisses
  <2>4. job[w].plan # None => PlanSound(job[w].plan, job[w].scope, job[w].state)'
    BY <1>1, <2>1 DEF PlanSound
  <2> QED  BY <2>2, <2>3, <2>4
<1> QED  BY <1>1, <1>3 DEF SaveSound

LEMMA GameKeeps ==
  ASSUME EvidenceAssumption, IInv, GameGoesOn
  PROVE  IInv'
<1>1. GameTyped /\ StoresTyped /\ LogsSound /\ StoresSound /\ JobsSound /\ RevisionsBounded
  BY DEF IInv, Typed
<1>2. GameTyped' /\ LogsSound' /\ Grows /\ UNCHANGED << stores, job, dismissed >>
  BY DEF GameGoesOn
<1>3. StoresTyped' /\ RevisionsBounded'
  BY <1>1, <1>2 DEF StoresTyped, RevisionsBounded
<1>4. ASSUME NEW s \in Scopes
      PROVE  Sound(s, stores[s], {})'
  <2>1. stores[s] \in States /\ Sound(s, stores[s], {})
    BY <1>1 DEF StoresTyped, StoresSound
  <2> QED  BY <1>1, <1>2, <2>1, SoundStays
<1>5. ASSUME NEW w \in Windows, job[w] # None
      PROVE  JobSound(job[w])'
  <2>1. JobSound(job[w])
    BY <1>1, <1>5 DEF JobsSound
  <2>2. JobTyped(job[w])
    BY <2>1 DEF JobSound
  <2>3. job[w].stage = "scan" => ScanSound(job[w])'
    BY <1>1, <1>5, <2>1, ScanStays DEF JobSound, JobTyped
  <2>4. job[w].stage = "save" => SaveSound(job[w])'
    BY <1>1, <1>5, <2>1, SaveStays DEF JobSound
  <2>5. job[w].stage = "review" => ReviewSound(job[w].plan)'
    BY <1>2, <2>1 DEF JobSound, ReviewSound
  <2>6. JobTyped(job[w])'
    BY <1>2, <2>2 DEF JobTyped, PlanTyped
  <2>7. job[w].stage \in {"scan", "save"} => job'[w].state.rev <= stores'[job'[w].scope].rev
    BY <1>2, <2>1 DEF JobSound
  <2> QED  BY <1>2, <2>3, <2>4, <2>5, <2>6, <2>7 DEF JobSound
<1>6. JobsSound'
  BY <1>1, <1>2, <1>5 DEF JobsSound
<1> QED  BY <1>2, <1>3, <1>4, <1>6 DEF IInv, Typed, StoresSound

-----------------------------------------------------------------------------
(* Steps of the windows.                                                   *)

\* A step of one window that saves nothing.
JobBecomes(w, j) == job' = [job EXCEPT ![w] = j] /\ UNCHANGED << game, stores, dismissed >>

LEMMA JobStays ==
  ASSUME UNCHANGED << game, stores, dismissed >>, NEW j, JobSound(j)
  PROVE  JobSound(j)'
<1>1. UNCHANGED << logs, gamelog, home, next, raced, stores, dismissed >>
  BY DEF game
<1>2. Excused(j)' = Excused(j)
  BY <1>1 DEF Excused, Loaded, Evidence, Dismisses
<1>3. ASSUME NEW s, NEW st, NEW excused, Sound(s, st, excused)
      PROVE  Sound(s, st, excused)'
  BY <1>1, <1>3 DEF Sound, FromLogs, CursorSound, ReadTo
<1>4. ASSUME ScanSound(j)
      PROVE  ScanSound(j)'
  <2>1. \A p \in j.todo : PathSound(j.scope, p)'
    BY <1>1, <1>4 DEF ScanSound, PathSound, Roots
  <2>2. OpenSound(j) => OpenSound(j)'
    BY <1>1 DEF OpenSound, ReadTo
  <2> QED  BY <1>1, <1>3, <1>4, <2>1, <2>2 DEF ScanSound, Keeps
<1>5. ASSUME SaveSound(j)
      PROVE  SaveSound(j)'
  <2>1. SaveKeeps(j) => SaveKeeps(j)'
    BY <1>1, <1>2 DEF SaveKeeps, Dismisses
  <2>2. PlanSound(j.plan, j.scope, j.state) => PlanSound(j.plan, j.scope, j.state)'
    BY <1>1 DEF PlanSound
  <2> QED  BY <1>1, <1>2, <1>3, <1>5, <2>1, <2>2 DEF SaveSound
<1>6. ReviewSound(j.plan) => ReviewSound(j.plan)'
  BY <1>1 DEF ReviewSound
<1> QED  BY <1>1, <1>4, <1>5, <1>6 DEF JobSound, JobTyped, PlanTyped

LEMMA JobKeeps ==
  ASSUME IInv, NEW w \in Windows, NEW j, JobBecomes(w, j), j # None => JobSound(j)
  PROVE  IInv'
<1>1. GameTyped /\ StoresTyped /\ LogsSound /\ StoresSound /\ JobsSound /\ RevisionsBounded
  BY DEF IInv, Typed
<1>2. UNCHANGED << logs, gamelog, home, next, raced, stores, dismissed >>
  BY DEF JobBecomes, game
<1>3. GameTyped' /\ StoresTyped' /\ RevisionsBounded'
  BY <1>1, <1>2 DEF GameTyped, StoresTyped, RevisionsBounded
<1>4. LogsSound'
  BY <1>1, <1>2 DEF LogsSound
<1>5. StoresSound'
  BY <1>1, <1>2 DEF StoresSound, Sound, FromLogs, CursorSound, ReadTo
<1>6. ASSUME NEW x \in Windows, job'[x] # None
      PROVE  JobSound(job[x])'
  <2>1. DOMAIN job = Windows
    BY <1>1 DEF JobsSound
  <2>2. CASE x = w
    <3>1. job'[x] = j
      BY <2>1, <2>2 DEF JobBecomes
    <3>2. JobSound(j)'
      BY <1>6, <3>1, JobStays DEF JobBecomes
    <3> QED  BY <3>1, <3>2
  <2>3. CASE x # w
    <3>1. job'[x] = job[x] /\ JobSound(job[x])
      BY <1>1, <1>6, <2>1, <2>3 DEF JobBecomes, JobsSound
    <3>2. ASSUME NEW k, k = job[x]
          PROVE  JobSound(k)'
      BY <3>1, <3>2, JobStays DEF JobBecomes
    <3> QED  BY <3>1, <3>2
  <2> QED  BY <2>2, <2>3
<1>7. DOMAIN job' = Windows
  BY <1>1 DEF JobsSound, JobBecomes
<1> QED  BY <1>3, <1>4, <1>5, <1>6, <1>7 DEF IInv, Typed, JobsSound

LEMMA StopKeeps ==
  ASSUME IInv, NEW w \in Windows, Stop(w)
  PROVE  IInv'
<1>1. JobBecomes(w, None)
  BY DEF Stop, SetJob, JobBecomes
<1> QED  BY <1>1, JobKeeps

LEMMA RootsTyped ==
  ASSUME NEW s \in Scopes
  PROVE  Roots(s) \subseteq Channels /\ (s \in Channels => Roots(s) = {s})
BY NoneApart DEF Roots, Scopes, Channels, Linked

LEMMA DiscoveredSound ==
  ASSUME EvidenceAssumption, GameTyped, NEW s \in Scopes
  PROVE  /\ Discovered(s) \subseteq Paths
         /\ \A p \in Discovered(s) : PathSound(s, p)
<1>1. Roots(s) \subseteq Channels
  BY RootsTyped
<1>2. ASSUME NEW p \in Discovered(s)
      PROVE  p \in Paths /\ PathSound(s, p)
  <2>1. CASE \E c \in Roots(s) : \E f \in Backups(c) : p = << c, f >>
    <3>1. PICK c \in Roots(s) : \E f \in Backups(c) : p = << c, f >>
      BY <2>1
    <3>2. PICK f \in Backups(c) : p = << c, f >>
      BY <3>1
    <3>3. f \in Files /\ logs[f].channel = c /\ f # None
      BY NoneApart DEF Backups
    <3> QED  BY <1>1, <3>2, <3>3 DEF PathSound, Paths
  <2>2. CASE \E c \in {d \in Roots(s) : gamelog[d] # None} : p = << c, None >>
    BY <1>1, <2>2 DEF PathSound, Paths
  <2>3. \/ \E c \in Roots(s) : p \in {<< c, f >> : f \in Backups(c)}
        \/ p \in {<< c, None >> : c \in {d \in Roots(s) : gamelog[d] # None}}
    BY <1>2, Zenon DEF Discovered
  <2> QED  BY <2>1, <2>2, <2>3
<1> QED  BY <1>2

LEMMA ScanLogsKeeps ==
  ASSUME EvidenceAssumption, IInv, NEW w \in Windows, ScanLogs(w)
  PROVE  IInv'
<1>1. PICK s \in Offered, cat \in Catalogs, full \in BOOLEAN :
        SetJob(w, [stage |-> "scan", scope |-> s, full |-> full, catalog |-> cat,
                   state |-> Reconciled(cat, Loaded(s)), todo |-> Discovered(s),
                   open |-> None])
  BY DEF ScanLogs
<1> DEFINE st == Reconciled(cat, Loaded(s))
           j == [stage |-> "scan", scope |-> s, full |-> full, catalog |-> cat,
                 state |-> st, todo |-> Discovered(s), open |-> None]
<1>2. GameTyped /\ StoresTyped /\ StoresSound /\ s \in Scopes
  BY DEF IInv, Typed, Offered, Scopes, EvidenceAssumption
<1>3. /\ Loaded(s) \in States /\ Loaded(s).rev = stores[s].rev
      /\ Keeps(stores[s], Loaded(s)) /\ Sound(s, Loaded(s), {})
  BY <1>2, LoadedTyped, LoadedKeeps, LoadedSound
<1>4. /\ st \in States /\ st.rev = stores[s].rev /\ st.cur = Loaded(s).cur
      /\ Keeps(stores[s], st)
      /\ \A e \in Events : st.ev[e].known <=> Loaded(s).ev[e].known
  <2>1. Keeps(Loaded(s), st)
    BY <1>3, ReconciledKeeps
  <2> QED  BY <1>3, <2>1, ReconciledTyped, ReconciledKeeps, KeepsTransitive
<1>5. Sound(s, st, {})
  BY <1>2, <1>3, <1>4, SoundOver
<1>6. stores[s].rev \in Nat
  BY <1>2 DEF StoresTyped, States
<1> HIDE DEF st
<1>7. j \in ScanJobs
  BY <1>2, <1>4, DiscoveredSound DEF ScanJobs
<1>8. ScanSound(j)
  BY <1>2, <1>4, <1>5, DiscoveredSound DEF ScanSound, OpenSound
<1>9. JobSound(j)
  BY <1>4, <1>6, <1>7, <1>8 DEF JobSound, JobTyped
<1> HIDE DEF j
<1>10. JobBecomes(w, j)
  BY <1>1 DEF ScanLogs, SetJob, JobBecomes, j, st
<1> QED  BY <1>9, <1>10, JobKeeps

\* What a window scanning has in hand.
LEMMA ScanningHas ==
  ASSUME IInv, NEW w \in Windows, Running(w, "scan")
  PROVE  /\ GameTyped /\ StoresTyped /\ LogsSound
         /\ job[w] \in ScanJobs /\ ScanSound(job[w])
         /\ job[w].state.rev <= stores[job[w].scope].rev
BY DEF IInv, Typed, JobsSound, JobSound, JobTyped, Running

LEMMA Halved ==
  ASSUME NEW n \in Nat
  PROVE  (2 * n) \div 2 = n /\ (2 * n + 1) \div 2 = n
OBVIOUS

LEMMA SizeTyped ==
  ASSUME GameTyped, NEW f \in Files
  PROVE  /\ Len(logs[f].lines) \in Nat /\ Size(f) \in Nat
         /\ Size(f) >= 2 * Len(logs[f].lines)
         /\ Committed(f) \in Nat /\ Committed(f) = 2 * Len(logs[f].lines)
         /\ Committed(f) \div 2 = Len(logs[f].lines)
         /\ Size(f) \div 2 = Len(logs[f].lines)
<1>1. Len(logs[f].lines) \in Nat
  BY DEF GameTyped, Logs
<1>2. ASSUME NEW n \in Nat, n = Len(logs[f].lines)
      PROVE  /\ Size(f) \in Nat /\ Size(f) >= 2 * n /\ Committed(f) \in Nat
             /\ Committed(f) = 2 * n /\ Committed(f) \div 2 = n /\ Size(f) \div 2 = n
  <2>1. Committed(f) = 2 * n /\ (Size(f) = 2 * n \/ Size(f) = 2 * n + 1)
    <3>1. Committed(f) = 2 * n
      BY <1>2, Zenon DEF Committed
    <3>2. CASE logs[f].half
      <4>1. Size(f) = 2 * n + 1
        BY <1>2, <3>2, Zenon DEF Size
      <4> QED  BY <3>1, <4>1
    <3>3. CASE ~logs[f].half
      <4>1. Size(f) = 2 * n + 0
        BY <1>2, <3>3, Zenon DEF Size
      <4> QED  BY <3>1, <4>1
    <3> QED  BY <3>2, <3>3
  <2> QED  BY <2>1, Halved
<1> QED  BY <1>1, <1>2

LEMMA NotedKeeps ==
  ASSUME EvidenceAssumption, GameTyped, NEW w \in Windows, NEW f \in Files, NEW start,
         job[w] \in ScanJobs
  PROVE  /\ Noted(w, f, start) \in [Events -> Entries]
         /\ \A e \in Events :
              LET read == {logs[f].lines[i] : i \in (start \div 2) + 1 .. Len(logs[f].lines)}
              IN  /\ Noted(w, f, start)[e].known <=> job[w].state.ev[e].known \/ e \in read
                  /\ job[w].state.ev[e].known
                       => Noted(w, f, start)[e] = job[w].state.ev[e]
<1> DEFINE read == {logs[f].lines[i] : i \in (start \div 2) + 1 .. Len(logs[f].lines)}
<1>1. /\ job[w].state.ev \in [Events -> Entries] /\ job[w].catalog \in Catalogs
  BY DEF ScanJobs, States
<1>2. ASSUME NEW e \in Events
      PROVE  /\ Noted(w, f, start)[e] \in Entries
             /\ Noted(w, f, start)[e].known <=> job[w].state.ev[e].known \/ e \in read
             /\ job[w].state.ev[e].known => Noted(w, f, start)[e] = job[w].state.ev[e]
  <2>1. Noted(w, f, start)[e] =
          IF e \in read /\ ~job[w].state.ev[e].known
          THEN Entry(Found(job[w].catalog, e), f) ELSE job[w].state.ev[e]
    BY DEF Noted
  <2>2. Entry(Found(job[w].catalog, e), f) \in Entries
        /\ Entry(Found(job[w].catalog, e), f).known
    BY <1>1, FoundTyped, EntryTyped, EntryFields
  <2> HIDE DEF read
  <2>3. CASE e \in read /\ ~job[w].state.ev[e].known
    BY <2>1, <2>2, <2>3
  <2>4. CASE ~(e \in read /\ ~job[w].state.ev[e].known)
    BY <1>1, <2>1, <2>4
  <2> QED  BY <2>3, <2>4
<1>3. Noted(w, f, start) \in [Events -> Entries]
  BY <1>2 DEF Noted
<1> QED  BY <1>2, <1>3

\* A scan starts at the end of what the evidence already has of a file.
LEMMA StartSound ==
  ASSUME EvidenceAssumption, GameTyped, NEW w \in Windows, NEW f \in Files,
         job[w] \in ScanJobs, Start(w, f) # Size(f)
  PROVE  /\ Start(w, f) \in Nat /\ Size(f) \in Nat /\ Size(f) > 0
         /\ Sound(job[w].scope, job[w].state, {}) /\ f \notin raced
              => ReadTo(f, Start(w, f), job[w].state.ev, {})
<1> DEFINE c == job[w].state.cur[f]
<1>1. c \in Cursors /\ Len(logs[f].lines) \in Nat
  BY DEF ScanJobs, States, GameTyped, Logs
<1>2. Size(f) \in Nat /\ Size(f) \div 2 = Len(logs[f].lines) /\ Size(f) >= 2 * Len(logs[f].lines)
  BY SizeTyped
<1> HIDE DEF c
<1>3. CASE Start(w, f) = 0
  BY <1>1, <1>2, <1>3 DEF ReadTo
<1>4. CASE Start(w, f) # 0
  <2>1. Start(w, f) = c.offset /\ c # NoCursor /\ ~Changed(f, c)
    BY <1>4 DEF Start, c
  <2>2. c.offset \in Nat /\ Size(f) >= c.offset /\ Size(f) > 0
    BY <1>1, <1>2, <1>4, <2>1, CursorFacts DEF Changed
  <2>3. ASSUME Sound(job[w].scope, job[w].state, {}), f \notin raced
        PROVE  ReadTo(f, c.offset, job[w].state.ev, {})
    <3>1. CursorSound(f, c, job[w].state.ev, {})
      BY <2>3 DEF Sound, c
    <3>2. c.prefix # << >> /\ c.prefix[2] > 0 /\ PrefixLength(c) = c.prefix[2]
          /\ PrefixLength(c) \in Nat
      BY <1>1, <2>1, <3>1, CursorFacts DEF CursorSound
    <3>3. c.prefix = << logs[f].text, PrefixLength(c) >>
      BY <2>1, <3>2 DEF Changed, Prefix
    <3> QED  BY <2>1, <2>3, <3>1, <3>3 DEF CursorSound
  <2> QED  BY <1>2, <2>1, <2>2, <2>3
<1> QED  BY <1>3, <1>4

LEMMA ScanUpdated ==
  ASSUME NEW x \in ScanJobs, NEW todo, NEW ev, NEW opened
  PROVE  [x EXCEPT !.todo = todo, !.state.ev = ev, !.open = opened]
           = [x EXCEPT !.todo = todo, !.state = [x.state EXCEPT !.ev = ev], !.open = opened]
BY DEF ScanJobs

LEMMA ReadLogKeeps ==
  ASSUME EvidenceAssumption, IInv, NEW w \in Windows, ReadLog(w)
  PROVE  IInv'
<1>1. /\ GameTyped /\ StoresTyped /\ LogsSound
      /\ job[w] \in ScanJobs /\ ScanSound(job[w]) /\ job[w].open = None
      /\ job[w].state.rev <= stores[job[w].scope].rev
  BY ScanningHas DEF ReadLog
<1>2. PICK p \in job[w].todo :
        SetJob(w, IF Start(w, Named(p)) = Size(Named(p))
                  THEN [job[w] EXCEPT !.todo = @ \ {p}]
                  ELSE [job[w] EXCEPT !.todo = @ \ {p},
                          !.state.ev = Noted(w, Named(p), Start(w, Named(p))),
                          !.open = [file |-> Named(p), size |-> Size(Named(p)),
                                    committed |-> Committed(Named(p))]])
  BY DEF ReadLog
<1> DEFINE f == Named(p)
           s == job[w].scope
           start == Start(w, f)
           ev == Noted(w, f, start)
           st == [job[w].state EXCEPT !.ev = ev]
           opened == [file |-> f, size |-> Size(f), committed |-> Committed(f)]
           rest == [job[w] EXCEPT !.todo = job[w].todo \ {p}]
           more == [job[w] EXCEPT !.todo = job[w].todo \ {p}, !.state = st, !.open = opened]
<1>3. /\ PathSound(s, p) /\ p \in Paths /\ s \in Scopes
      /\ job[w].state \in States /\ stores[s].rev \in Nat
  BY <1>1 DEF ScanSound, ScanJobs, StoresTyped, States
<1>4. f \in Files /\ logs[f].channel = p[1] /\ p[1] # None /\ p[1] \in Roots(s)
      /\ p[1] \in Channels
  <2>1. p[1] \in Channels /\ p[2] \in Files \union {None} /\ p[1] # None /\ None \notin Files
    BY <1>3, NoneApart DEF Paths
  <2>2. CASE p[2] = None
    BY <1>1, <1>3, <2>1, <2>2 DEF Named, PathSound, LogsSound, GameTyped
  <2>3. CASE p[2] # None
    BY <1>3, <2>1, <2>3 DEF Named, PathSound
  <2> QED  BY <2>2, <2>3
<1>5. CASE start = Size(f)
  <2>1. rest \in ScanJobs /\ rest.todo \subseteq job[w].todo
        /\ rest.scope = s /\ rest.state = job[w].state /\ rest.open = None
        /\ rest.stage = "scan"
    BY <1>1 DEF ScanJobs
  <2> HIDE DEF rest
  <2>2. JobSound(rest)
    BY <1>1, <2>1 DEF JobSound, JobTyped, ScanSound, OpenSound
  <2>3. JobBecomes(w, rest)
    BY <1>2, <1>5 DEF ReadLog, SetJob, JobBecomes, rest
  <2> QED  BY <2>2, <2>3, JobKeeps
<1>6. CASE start # Size(f)
  <2>1. /\ ev \in [Events -> Entries]
        /\ \A e \in Events :
             /\ ev[e].known <=> \/ job[w].state.ev[e].known
                                \/ e \in {logs[f].lines[i] :
                                            i \in (start \div 2) + 1 .. Len(logs[f].lines)}
             /\ job[w].state.ev[e].known => ev[e] = job[w].state.ev[e]
    BY <1>1, <1>4, NotedKeeps
  <2>2. start \in Nat /\ Size(f) \in Nat /\ Size(f) > 0 /\ Len(logs[f].lines) \in Nat
    BY <1>1, <1>4, <1>6, StartSound DEF GameTyped, Logs
  <2> HIDE DEF ev, f, start, s
  <2>3. /\ st \in States /\ st.rev = job[w].state.rev /\ st.cur = job[w].state.cur
        /\ st.ev = ev
    BY <1>3, <2>1 DEF States
  <2>4. opened \in Opened
    BY <1>4, <2>2 DEF Opened, Committed
  <2> HIDE DEF st
  <2>5. /\ more \in ScanJobs /\ more.todo \subseteq job[w].todo
        /\ more.scope = job[w].scope /\ more.state = st /\ more.open = opened
        /\ more.stage = "scan"
    BY <1>1, <2>3, <2>4 DEF ScanJobs
  <2>6. Keeps(job[w].state, st)
    BY <2>1, <2>3 DEF Keeps, EntryKept
  <2>7. ASSUME job[w].state.rev = stores[s].rev
        PROVE  /\ Sound(s, st, {}) /\ Keeps(stores[s], st)
               /\ f \notin raced => ReadTo(f, Committed(f), st.ev, {})
    <3>1. Sound(s, job[w].state, {}) /\ Keeps(stores[s], job[w].state)
      BY <1>1, <2>7 DEF ScanSound, s
    <3>2. FromLogs(s, st)
      <4>1. ASSUME NEW e \in Events, st.ev[e].known
            PROVE  e < next /\ (s \in Channels => home[e] = s)
        <5>1. CASE job[w].state.ev[e].known
          BY <3>1, <5>1 DEF Sound, FromLogs
        <5>2. CASE ~job[w].state.ev[e].known
          <6>1. PICK i \in (start \div 2) + 1 .. Len(logs[f].lines) : e = logs[f].lines[i]
            BY <2>1, <2>3, <4>1, <5>2
          <6>2. i \in 1 .. Len(logs[f].lines)
            BY <2>2
          <6>3. e < next /\ home[e] = p[1]
            BY <1>1, <1>4, <6>1, <6>2 DEF LogsSound
          <6> QED  BY <1>3, <1>4, <6>3, RootsTyped DEF s
        <5> QED  BY <5>1, <5>2
      <4> QED  BY <4>1 DEF FromLogs
    <3>3. ASSUME NEW g \in Files
          PROVE  CursorSound(g, st.cur[g], st.ev, {})
      <4>1. st.cur[g] \in Cursors /\ CursorSound(g, st.cur[g], job[w].state.ev, {})
        BY <2>3, <3>1 DEF States, Sound
      <4>2. \A e \in Events : job[w].state.ev[e].known => st.ev[e].known
        BY <2>1, <2>3
      <4> QED  BY <1>1, <4>1, <4>2, CursorSoundOver
    <3>4. ASSUME f \notin raced
          PROVE  ReadTo(f, Committed(f), st.ev, {})
      <4>1. ReadTo(f, start, job[w].state.ev, {})
        BY <1>1, <1>4, <1>6, <3>1, <3>4, StartSound DEF f, start, s
      <4>2. ASSUME NEW i \in 1 .. Len(logs[f].lines)
            PROVE  st.ev[logs[f].lines[i]].known \/ logs[f].lines[i] \in dismissed
        <5>1. logs[f].lines[i] \in Events
          BY <1>1, <1>4, LineTyped
        <5>2. CASE i \in 1 .. start \div 2
          BY <2>1, <2>3, <4>1, <5>1, <5>2 DEF ReadTo
        <5>3. CASE i \notin 1 .. start \div 2
          <6>1. i \in (start \div 2) + 1 .. Len(logs[f].lines)
            BY <2>2, <5>3
          <6> QED  BY <2>1, <2>3, <5>1, <6>1
        <5> QED  BY <5>2, <5>3
      <4>3. Committed(f) <= 2 * Len(logs[f].lines) /\ Committed(f) \div 2 = Len(logs[f].lines)
        BY <1>1, <1>4, SizeTyped
      <4> QED  BY <4>2, <4>3 DEF ReadTo
    <3>5. Sound(s, st, {})
      BY <3>2, <3>3 DEF Sound
    <3> QED  BY <2>6, <3>1, <3>4, <3>5, KeepsTransitive
  <2> HIDE DEF more
  <2>8. OpenSound(more) \/ job[w].state.rev # stores[s].rev
    BY <1>4, <2>2, <2>5, <2>7 DEF OpenSound
  <2>9. ScanSound(more)
    BY <1>1, <2>3, <2>5, <2>7, <2>8 DEF ScanSound, s
  <2>10. JobSound(more)
    BY <1>1, <2>3, <2>5, <2>9 DEF JobSound, JobTyped
  <2>11. JobBecomes(w, more)
    <3>1. more = [job[w] EXCEPT !.todo = job[w].todo \ {p}, !.state.ev = ev, !.open = opened]
      BY <1>1, ScanUpdated DEF more, st
    <3> QED  BY <1>2, <1>6, <3>1 DEF ReadLog, SetJob, JobBecomes, ev, f, start
  <2> QED  BY <2>10, <2>11, JobKeeps
<1> QED  BY <1>5, <1>6

LEMMA CursorTyped ==
  ASSUME EvidenceAssumption, GameTyped, NEW o \in Opened
  PROVE  /\ CursorFor(o) \in Cursors /\ CursorFor(o).offset = o.committed
         /\ o.size > 0 =>
              /\ CursorFor(o).prefix # << >> /\ CursorFor(o).prefix[1] = logs[o.file].text
              /\ CursorFor(o).prefix[2] > 0
<1> DEFINE n == LessOf(o.size, PrefixLimit)
<1>1. n \in Nat /\ (o.size > 0 => n > 0)
  BY DEF EvidenceAssumption, LessOf, Opened
<1>2. o.file \in Files /\ o.committed \in Nat /\ logs[o.file].text \in Nat
  BY DEF Opened, GameTyped, Logs
<1> HIDE DEF n
<1>3. Prefix(o.file, n) \in Prefixes
      /\ (o.size > 0 => Prefix(o.file, n) = << logs[o.file].text, n >>)
  BY <1>1, <1>2 DEF Prefix, Prefixes
<1>4. CursorFor(o) = [offset |-> o.committed, prefix |-> Prefix(o.file, n)]
  BY DEF CursorFor, n
<1> QED  BY <1>1, <1>2, <1>3, <1>4 DEF Cursors

LEMMA CursorUpdated ==
  ASSUME NEW x \in ScanJobs, NEW f, NEW c
  PROVE  [x EXCEPT !.open = None, !.state.cur[f] = c]
           = [x EXCEPT !.open = None,
                       !.state = [x.state EXCEPT !.cur = [x.state.cur EXCEPT ![f] = c]]]
BY DEF ScanJobs

\* The cursor is behind what was read, and remembers the text it was read in.
LEMMA AdvanceCursorKeeps ==
  ASSUME EvidenceAssumption, IInv, NEW w \in Windows, AdvanceCursor(w)
  PROVE  IInv'
<1>1. /\ GameTyped /\ StoresTyped /\ job[w] \in ScanJobs /\ ScanSound(job[w])
      /\ job[w].open # None /\ job[w].state.rev <= stores[job[w].scope].rev
  BY ScanningHas DEF AdvanceCursor
<1> DEFINE o == job[w].open
           s == job[w].scope
           cur == [job[w].state.cur EXCEPT ![o.file] = CursorFor(o)]
           st == [job[w].state EXCEPT !.cur = cur]
           closed == [job[w] EXCEPT !.open = None]
           more == [job[w] EXCEPT !.open = None, !.state = st]
<1>2. SetJob(w, IF Size(o.file) < o.size THEN closed
                ELSE [job[w] EXCEPT !.open = None, !.state.cur[o.file] = CursorFor(o)])
  BY DEF AdvanceCursor
<1>3. /\ s \in Scopes /\ job[w].state \in States /\ stores[s].rev \in Nat
      /\ o \in Opened /\ o.file \in Files /\ o.committed \in Nat
  BY <1>1 DEF ScanJobs, StoresTyped, States, Opened
<1>4. CASE Size(o.file) < o.size
  <2>1. closed \in ScanJobs /\ closed.todo = job[w].todo
        /\ closed.scope = s /\ closed.state = job[w].state /\ closed.open = None
        /\ closed.stage = "scan"
    BY <1>1 DEF ScanJobs
  <2> HIDE DEF closed
  <2>2. JobSound(closed)
    BY <1>1, <2>1 DEF JobSound, JobTyped, ScanSound, OpenSound
  <2>3. JobBecomes(w, closed)
    BY <1>2, <1>4 DEF AdvanceCursor, SetJob, JobBecomes
  <2> QED  BY <2>2, <2>3, JobKeeps
<1>5. CASE ~(Size(o.file) < o.size)
  <2>1. CASE job[w].state.rev = stores[s].rev
    <3>1. /\ Sound(s, job[w].state, {}) /\ Keeps(stores[s], job[w].state)
          /\ o.size > 0 /\ logs[o.file].channel # None
          /\ o.file \notin raced => ReadTo(o.file, o.committed, job[w].state.ev, {})
      BY <1>1, <2>1 DEF ScanSound, OpenSound
    <3>2. /\ CursorFor(o) \in Cursors /\ CursorFor(o).offset = o.committed
          /\ CursorFor(o).prefix # << >> /\ CursorFor(o).prefix[1] = logs[o.file].text
          /\ CursorFor(o).prefix[2] > 0
      BY <1>1, <1>3, <3>1, CursorTyped
    <3>3. logs[o.file].text \in Nat
      BY <1>1, <1>3 DEF GameTyped, Logs
    <3>4. CursorSound(o.file, CursorFor(o), job[w].state.ev, {})
      BY <3>1, <3>2, <3>3 DEF CursorSound
    <3>5. /\ cur \in [Files -> Cursors] /\ cur[o.file] = CursorFor(o)
          /\ \A g \in Files \ {o.file} : cur[g] = job[w].state.cur[g]
      BY <1>3, <3>2 DEF States
    <3> HIDE DEF cur
    <3>6. /\ st \in States /\ st.ev = job[w].state.ev /\ st.cur = cur
          /\ st.rev = job[w].state.rev
      BY <1>3, <3>5 DEF States
    <3> HIDE DEF st
    <3>7. /\ more \in ScanJobs /\ more.todo = job[w].todo /\ more.stage = "scan"
          /\ more.scope = s /\ more.state = st /\ more.open = None
      BY <1>1, <3>6 DEF ScanJobs
    <3> HIDE DEF more, o
    <3>8. Sound(s, st, {})
      <4>1. ASSUME NEW g \in Files
            PROVE  CursorSound(g, st.cur[g], st.ev, {})
        BY <3>1, <3>4, <3>5, <3>6 DEF Sound
      <4>2. FromLogs(s, st)
        BY <3>1, <3>6 DEF Sound, FromLogs
      <4> QED  BY <4>1, <4>2 DEF Sound
    <3>9. Keeps(stores[s], st)
      BY <3>1, <3>6 DEF Keeps
    <3>10. ScanSound(more)
      BY <1>1, <3>7, <3>8, <3>9 DEF ScanSound, OpenSound
    <3>11. JobSound(more)
      BY <1>1, <3>6, <3>7, <3>10 DEF JobSound, JobTyped
    <3>12. JobBecomes(w, more)
      <4>1. more = [job[w] EXCEPT !.open = None, !.state.cur[o.file] = CursorFor(o)]
        BY <1>1, CursorUpdated DEF more, st, cur
      <4> QED  BY <1>2, <1>5, <4>1 DEF AdvanceCursor, SetJob, JobBecomes, o
    <3> QED  BY <3>11, <3>12, JobKeeps
  <2>2. CASE job[w].state.rev # stores[s].rev
    <3>1. CursorFor(o) \in Cursors
      BY <1>1, <1>3, CursorTyped
    <3>2. cur \in [Files -> Cursors]
      BY <1>3, <3>1 DEF States
    <3> HIDE DEF cur
    <3>3. st \in States /\ st.rev = job[w].state.rev
      BY <1>3, <3>2 DEF States
    <3> HIDE DEF st
    <3>4. /\ more \in ScanJobs /\ more.todo = job[w].todo /\ more.stage = "scan"
          /\ more.scope = s /\ more.state = st /\ more.open = None
      BY <1>1, <3>3 DEF ScanJobs
    <3> HIDE DEF more, o
    <3>5. JobSound(more)
      BY <1>1, <2>2, <3>3, <3>4 DEF JobSound, JobTyped, ScanSound
    <3>6. JobBecomes(w, more)
      <4>1. more = [job[w] EXCEPT !.open = None, !.state.cur[o.file] = CursorFor(o)]
        BY <1>1, CursorUpdated DEF more, st, cur
      <4> QED  BY <1>2, <1>5, <4>1 DEF AdvanceCursor, SetJob, JobBecomes, o
    <3> QED  BY <3>5, <3>6, JobKeeps
  <2> QED  BY <2>1, <2>2
<1> QED  BY <1>4, <1>5

LEMMA ScanPreviewKeeps ==
  ASSUME EvidenceAssumption, IInv, NEW w \in Windows, ScanPreview(w)
  PROVE  IInv'
<1> DEFINE s == job[w].scope
           st == job[w].state
           j == Saving(s, None, st)
<1>1. /\ GameTyped /\ StoresTyped /\ job[w] \in ScanJobs /\ ScanSound(job[w])
      /\ st.rev <= stores[s].rev
  BY ScanningHas DEF ScanPreview
<1>2. s \in Scopes /\ st \in States
  BY <1>1 DEF ScanJobs
<1>3. st.rev = stores[s].rev => Sound(s, st, {}) /\ Keeps(stores[s], st)
  BY <1>1 DEF ScanSound
<1> HIDE DEF s, st
<1>4. j.stage = "save" /\ j.scope = s /\ j.plan = None /\ j.state = st
  BY DEF Saving
<1> HIDE DEF j
<1>5. ~Dismisses(j) /\ Excused(j) = {}
  BY <1>4 DEF Dismisses, Excused
<1>6. SaveSound(j)
  BY <1>3, <1>4, <1>5 DEF SaveSound, SaveKeeps, Keeps
<1>7. JobSound(j)
  BY <1>1, <1>2, <1>4, <1>6 DEF JobSound, JobTyped
<1>8. JobBecomes(w, j)
  BY DEF ScanPreview, SetJob, JobBecomes, j, s, st
<1> QED  BY <1>7, <1>8, JobKeeps

LEMMA OwnedTyped ==
  ASSUME NEW st \in States
  PROVE  Owned(st) \subseteq Blueprints
<1>1. \A e \in Events : st.ev[e].bp \in Blueprints \union {None}
  BY EntryFacts DEF States
<1> QED  BY <1>1 DEF Owned, States

LEMMA DecisionTyped ==
  ASSUME EvidenceAssumption, NEW cat \in Catalogs, NEW s \in Scopes, NEW st \in States,
         NEW d \in Decisions(cat, s, st)
  PROVE  /\ d # None /\ PlanTyped(d)
         /\ d.rev = st.rev /\ d.scope = s /\ d.owned = Owned(st)
<1> DEFINE All == [op : AllOps, scope : Scopes, rev : Nat, bp : Blueprints,
                   event : Events \union {None}, owned : SUBSET Blueprints]
<1>1. None \notin All
  BY DEF EvidenceAssumption, AllOps
<1>2. ASSUME NEW op \in AllOps, NEW b \in Blueprints, NEW e \in Events \union {None},
             op = "resolve" => e \in Events, d = Decision(op, s, st, b, e)
      PROVE  /\ d # None /\ PlanTyped(d)
             /\ d.rev = st.rev /\ d.scope = s /\ d.owned = Owned(st)
  <2>1. st.rev \in Nat /\ Owned(st) \in SUBSET Blueprints
    BY OwnedTyped DEF States
  <2>2. d \in All
    BY <1>2, <2>1 DEF Decision
  <2> QED  BY <1>1, <1>2, <2>2 DEF Decision, PlanTyped
<1>3. Owned(st) \subseteq Blueprints
  BY OwnedTyped
<1>4. CASE \E op \in {"owned", "import"} : \E b \in Blueprints \ Owned(st) :
             d = Decision(op, s, st, b, None)
  BY <1>2, <1>4 DEF AllOps
<1>5. CASE \E b \in Owned(st) : d = Decision("unowned", s, st, b, None)
  BY <1>2, <1>3, <1>5 DEF AllOps
<1>6. CASE \E y \in Events \X Blueprints :
             /\ y[2] \in Candidates(cat, y[1])
             /\ d = Decision("resolve", s, st, y[2], y[1])
  <2>1. PICK y \in Events \X Blueprints : d = Decision("resolve", s, st, y[2], y[1])
    BY <1>6
  <2>2. y[1] \in Events /\ y[2] \in Blueprints
    OBVIOUS
  <2> QED  BY <1>2, <2>1, <2>2 DEF AllOps
<1> QED  BY <1>4, <1>5, <1>6 DEF Decisions

LEMMA ReviewKeeps ==
  ASSUME EvidenceAssumption, IInv, NEW w \in Windows, Review(w)
  PROVE  IInv'
<1>1. PICK s \in Offered, cat \in Catalogs :
        \E d \in {x \in Decisions(cat, s, Loaded(s)) : x.op \in Ops} :
          SetJob(w, [stage |-> "review", plan |-> d, open |-> None])
  BY DEF Review
<1>2. PICK d \in Decisions(cat, s, Loaded(s)) :
        SetJob(w, [stage |-> "review", plan |-> d, open |-> None])
  BY <1>1
<1>3. StoresTyped /\ s \in Scopes
  BY DEF IInv, Typed, Offered, Scopes, EvidenceAssumption
<1>4. /\ Loaded(s) \in States /\ Loaded(s).rev = stores[s].rev
      /\ s \in Channels => Loaded(s) = stores[s]
  BY <1>3, LoadedTyped, LoadedKeeps
<1>5. /\ d # None /\ PlanTyped(d) /\ d.rev = stores[s].rev /\ d.scope = s
      /\ d.owned = Owned(Loaded(s))
  BY <1>3, <1>4, DecisionTyped
<1>6. d.rev \in Nat
  BY <1>3, <1>5 DEF StoresTyped, States
<1>7. ReviewSound(d)
  BY <1>4, <1>5, <1>6 DEF ReviewSound
<1> DEFINE j == [stage |-> "review", plan |-> d, open |-> None]
<1>8. j.stage = "review" /\ j.plan = d
  OBVIOUS
<1>9. JobBecomes(w, j)
  BY <1>2 DEF Review, SetJob, JobBecomes
<1> HIDE DEF j
<1>10. JobSound(j)
  BY <1>5, <1>6, <1>7, <1>8 DEF JobSound, JobTyped
<1> QED  BY <1>9, <1>10, JobKeeps

\* A decision over what is loaded again changes what was reviewed.
LEMMA DecidedSound ==
  ASSUME EvidenceAssumption, GameTyped, StoresTyped, StoresSound, NEW s \in Scopes,
         NEW d, d # None, PlanTyped(d), ReviewSound(d), d.scope = s,
         d.rev = stores[s].rev, StillTrue(d, Loaded(s))
  PROVE  SaveSound(Saving(s, d, Decided(d, Loaded(s))))
<1> DEFINE old == Loaded(s)
           st == Decided(d, old)
           j == Saving(s, d, st)
<1>1. /\ old \in States /\ Sound(s, old, {}) /\ Keeps(stores[s], old)
      /\ Owned(stores[s]) \subseteq Owned(old)
      /\ s \in Channels => old = stores[s]
  BY LoadedTyped, LoadedSound, LoadedKeeps
<1>2. StillTrue(d, old)
  OBVIOUS
<1>3. j.stage = "save" /\ j.scope = s /\ j.plan = d /\ j.state = st
  BY DEF Saving
<1>4. Dismisses(j) <=> d.op = "unowned"
  BY <1>3 DEF Dismisses
<1>5. Excused(j) = IF d.op = "unowned" THEN Evidence(old, d.bp) ELSE {}
  BY <1>3, <1>4 DEF Excused
<1> HIDE DEF j, old
<1>6. st \in States /\ st.cur = old.cur
  BY <1>1, <1>2, DecidedTyped
<1>7. \A e \in Events : /\ st.ev[e].known => old.ev[e].known
                        /\ \/ EntryKept(old.ev[e], st.ev[e])
                           \/ d.op = "unowned" /\ e \in Evidence(old, d.bp)
  BY <1>1, <1>2, DecidedKnown
<1>8. Owned(st) = IF d.op = "unowned" THEN Owned(old) \ {d.bp} ELSE Owned(old) \union {d.bp}
  BY <1>1, <1>2, DecidedOwned
<1> HIDE DEF st
<1>9. Sound(s, st, Excused(j))
  <2>1. \A e \in Events : old.ev[e].known \/ e \in dismissed \union {}
                            => st.ev[e].known \/ e \in dismissed \union Excused(j)
    BY <1>5, <1>7 DEF EntryKept
  <2> QED  BY <1>1, <1>6, <1>7, <2>1, SoundOver
<1>10. SaveKeeps(j)
  <2>1. ASSUME NEW e \in Events
        PROVE  \/ EntryKept(stores[s].ev[e], st.ev[e])
               \/ /\ d.op = "unowned"
                  /\ \/ stores[s].ev[e].bp = d.bp
                     \/ stores[s].ev[e].bp = None /\ e \in Excused(j)
    <3>1. EntryKept(stores[s].ev[e], old.ev[e])
      BY <1>1 DEF Keeps
    <3>2. CASE EntryKept(old.ev[e], st.ev[e])
      BY <3>1, <3>2 DEF EntryKept
    <3>3. CASE d.op = "unowned" /\ e \in Evidence(old, d.bp)
      <4>1. old.ev[e].bp = d.bp /\ e \in Excused(j)
        BY <1>5, <3>3 DEF Evidence
      <4> QED  BY <3>1, <3>3, <4>1 DEF EntryKept
    <3> QED  BY <1>7, <3>2, <3>3
  <2> QED  BY <1>3, <1>4, <2>1 DEF SaveKeeps
<1>11. PlanSound(d, s, st)
  BY <1>1, <1>8 DEF PlanSound, ReviewSound, Reviewed
<1> QED  BY <1>3, <1>9, <1>10, <1>11 DEF SaveSound, j, st, old

LEMMA ApplyPlanKeeps ==
  ASSUME EvidenceAssumption, IInv, NEW w \in Windows, ApplyPlan(w)
  PROVE  IInv'
<1> DEFINE d == job[w].plan
<1>1. PICK s \in Offered :
        SetJob(w, IF Loadable(s) /\ SameRevision(d, s, Loaded(s)) /\ StillTrue(d, Loaded(s))
                  THEN Saving(s, d, Decided(d, Loaded(s))) ELSE None)
  BY DEF ApplyPlan
<1>2. /\ GameTyped /\ StoresTyped /\ StoresSound /\ s \in Scopes
  BY DEF IInv, Typed, Offered, Scopes, EvidenceAssumption
<1>3. d # None /\ PlanTyped(d) /\ ReviewSound(d)
  BY DEF IInv, JobsSound, JobSound, JobTyped, ApplyPlan, Running
<1>4. Loaded(s) \in States /\ Loaded(s).rev = stores[s].rev /\ stores[s].rev \in Nat
  BY <1>2, LoadedTyped DEF StoresTyped, States
<1> DEFINE go == Loadable(s) /\ SameRevision(d, s, Loaded(s)) /\ StillTrue(d, Loaded(s))
           st == Decided(d, Loaded(s))
           j == Saving(s, d, st)
<1>5. CASE go
  <2>1. d.scope = s /\ d.rev = stores[s].rev /\ StillTrue(d, Loaded(s))
    BY <1>4, <1>5 DEF SameRevision
  <2>2. SaveSound(j)
    BY <1>2, <1>3, <2>1, DecidedSound
  <2>3. st \in States /\ st.rev = stores[s].rev
    BY <1>3, <1>4, <2>1, DecidedTyped
  <2> HIDE DEF st
  <2>4. j.stage = "save" /\ j.scope = s /\ j.plan = d /\ j.state = st
    BY DEF Saving
  <2> HIDE DEF j, d
  <2>5. JobSound(j)
    BY <1>2, <1>3, <1>4, <2>1, <2>2, <2>3, <2>4 DEF JobSound, JobTyped
  <2>6. JobBecomes(w, j)
    BY <1>1, <1>5 DEF ApplyPlan, SetJob, JobBecomes, j, st
  <2> QED  BY <2>5, <2>6, JobKeeps
<1>6. CASE ~go
  <2>1. JobBecomes(w, None)
    BY <1>1, <1>6 DEF ApplyPlan, SetJob, JobBecomes
  <2> QED  BY <2>1, JobKeeps
<1> QED  BY <1>5, <1>6

-----------------------------------------------------------------------------
(* Saving.                                                                 *)

\* What was excused is dismissed, or still excused.
LEMMA SoundOnceDismissed ==
  ASSUME UNCHANGED << logs, home, next, raced >>, NEW s, NEW st, NEW new,
         new.ev = st.ev, new.cur = st.cur, NEW excused, NEW others,
         dismissed \union excused \subseteq dismissed' \union others,
         Sound(s, st, excused)
  PROVE  Sound(s, new, others)'
<1>1. FromLogs(s, new)'
  BY DEF Sound, FromLogs
<1>2. ASSUME NEW f \in Files
      PROVE  CursorSound(f, new.cur[f], new.ev, others)'
  <2>1. CursorSound(f, new.cur[f], new.ev, excused)
    BY DEF Sound
  <2> QED  BY <2>1 DEF CursorSound, ReadTo
<1> QED  BY <1>1, <1>2 DEF Sound

\* A save that is not outdated.
Saved(w) ==
  /\ Running(w, "save") /\ Current(w)
  /\ stores["LIVE"].rev + stores["HOTFIX"].rev + stores[Linked].rev < MaxSaves
  /\ stores' = [stores EXCEPT ![job[w].scope] = [job[w].state EXCEPT !.rev = @ + 1]]
  /\ dismissed' = dismissed \union Excused(job[w])
  /\ job' = [job EXCEPT ![w] = None]
  /\ UNCHANGED << logs, gamelog, home, next, raced >>

LEMMA SaveOutcomes ==
  ASSUME EvidenceAssumption, IInv, NEW w \in Windows, Save(w)
  PROVE  Saved(w) \/ JobBecomes(w, None)
<1>1. CASE Current(w)
  <2>1. Excused(job[w]) = {e \in Events : job[w].plan # None /\ job[w].plan.op = "unowned"
                                          /\ Loaded(job[w].scope).ev[e].bp = job[w].plan.bp}
    BY DEF Excused, Dismisses, Evidence
  <2> QED  BY <1>1, <2>1 DEF Save, Saved, SetJob, game
<1>2. CASE ~Current(w)
  BY <1>2 DEF Save, SetJob, JobBecomes
<1> QED  BY <1>1, <1>2

\* What a window has in hand when it saves.
LEMMA SavingHas ==
  ASSUME IInv, NEW w \in Windows, Saved(w)
  PROVE  /\ GameTyped /\ StoresTyped /\ LogsSound /\ StoresSound /\ JobsSound
         /\ RevisionsBounded
         /\ job[w] # None /\ job[w].scope \in Scopes /\ job[w].state \in States
         /\ job[w].state.rev = stores[job[w].scope].rev
         /\ Sound(job[w].scope, job[w].state, Excused(job[w])) /\ SaveKeeps(job[w])
         /\ job[w].plan # None =>
              /\ PlanTyped(job[w].plan) /\ job[w].plan.scope = job[w].scope
              /\ PlanSound(job[w].plan, job[w].scope, job[w].state)
<1>1. JobSound(job[w]) /\ job[w].stage = "save" /\ job[w] # None
  BY DEF IInv, JobsSound, Saved, Running
<1>2. job[w].state.rev = stores[job[w].scope].rev
  BY DEF Saved, Current
<1>3. SaveSound(job[w]) /\ JobTyped(job[w])
  BY <1>1 DEF JobSound
<1> QED  BY <1>1, <1>2, <1>3 DEF IInv, Typed, SaveSound, JobTyped

LEMMA SavedStores ==
  ASSUME EvidenceAssumption, IInv, NEW w \in Windows, Saved(w)
  PROVE  /\ StoresTyped' /\ RevisionsBounded'
         /\ \A s \in Scopes : s # job[w].scope => stores'[s] = stores[s]
         /\ stores'[job[w].scope].rev = stores[job[w].scope].rev + 1
         /\ stores'[job[w].scope].ev = job[w].state.ev
         /\ stores'[job[w].scope].cur = job[w].state.cur
         /\ stores'[job[w].scope].decided = job[w].state.decided
         /\ stores[job[w].scope].rev \in Nat
<1> DEFINE s == job[w].scope
           new == [job[w].state EXCEPT !.rev = job[w].state.rev + 1]
<1>1. /\ StoresTyped /\ RevisionsBounded /\ s \in Scopes /\ job[w].state \in States
      /\ job[w].state.rev = stores[s].rev
  BY SavingHas
<1>2. /\ new \in States /\ new.rev = stores[s].rev + 1 /\ new.ev = job[w].state.ev
      /\ new.cur = job[w].state.cur /\ new.decided = job[w].state.decided
  BY <1>1 DEF States
<1>3. stores' = [stores EXCEPT ![s] = new]
  BY DEF Saved
<1>4. /\ stores["LIVE"].rev \in Nat /\ stores["HOTFIX"].rev \in Nat
      /\ stores[Linked].rev \in Nat
      /\ \A x \in Scopes : stores[x].rev \in Nat
  BY <1>1 DEF StoresTyped, States, Scopes, Channels
<1>5. s \in {"LIVE", "HOTFIX", Linked}
  BY <1>1 DEF Scopes, Channels
<1>6. stores[s].rev < MaxSaves /\ MaxSaves \in Int
  <2>1. stores["LIVE"].rev + stores["HOTFIX"].rev + stores[Linked].rev < MaxSaves
    BY DEF Saved
  <2> QED  BY <1>4, <1>5, <2>1 DEF EvidenceAssumption
<1> HIDE DEF new, s
<1>7. /\ \A x \in Scopes : stores'[x] = IF x = s THEN new ELSE stores[x]
      /\ stores' \in [Scopes -> States]
  BY <1>1, <1>2, <1>3 DEF StoresTyped
<1>8. RevisionsBounded'
  BY <1>1, <1>2, <1>4, <1>6, <1>7 DEF RevisionsBounded
<1> QED  BY <1>1, <1>2, <1>4, <1>7, <1>8 DEF StoresTyped, s

LEMMA SavedStoresSound ==
  ASSUME EvidenceAssumption, IInv, NEW w \in Windows, Saved(w)
  PROVE  StoresSound'
<1>1. /\ job[w].scope \in Scopes /\ StoresSound
      /\ Sound(job[w].scope, job[w].state, Excused(job[w]))
  BY SavingHas
<1>2. UNCHANGED << logs, home, next, raced >> /\ dismissed' = dismissed \union Excused(job[w])
  BY DEF Saved
<1>3. ASSUME NEW s \in Scopes
      PROVE  Sound(s, stores[s], {})'
  <2>1. CASE s = job[w].scope
    <3>1. stores'[s].ev = job[w].state.ev /\ stores'[s].cur = job[w].state.cur
      BY <2>1, SavedStores
    <3>2. dismissed \union Excused(job[w]) \subseteq dismissed' \union {}
      BY <1>2
    <3> QED  BY <1>1, <1>2, <2>1, <3>1, <3>2, SoundOnceDismissed
  <2>2. CASE s # job[w].scope
    <3>1. stores'[s] = stores[s] /\ Sound(s, stores[s], {})
      BY <1>1, <2>2, SavedStores DEF StoresSound
    <3>2. dismissed \union {} \subseteq dismissed' \union {}
      BY <1>2
    <3> QED  BY <1>2, <3>1, <3>2, SoundOnceDismissed
  <2> QED  BY <2>1, <2>2
<1> QED  BY <1>3 DEF StoresSound

\* Which store the entry of a merged state is from, when of two channels at
\* most one knows the event.
LEMMA LinkedEntry ==
  ASSUME NEW l \in States, NEW x \in States, NEW y \in States, NEW e \in Events,
         NEW b \in Blueprints, None \notin Blueprints,
         ~(x.ev[e].known /\ y.ev[e].known)
  PROVE  Merge(Merge(l, x), y).ev[e].bp = b <=>
           \/ l.ev[e].bp = b
           \/ l.ev[e].bp = None /\ (x.ev[e].bp = b \/ y.ev[e].bp = b)
<1>1. /\ ~x.ev[e].known => x.ev[e].bp = None
      /\ ~y.ev[e].known => y.ev[e].bp = None
  <2>1. x.ev[e] \in Entries /\ y.ev[e] \in Entries
    BY DEF States
  <2> QED  BY <2>1, EntryFacts
<1>2. Merge(l, x) \in States /\ Merge(l, x).ev[e] = MergedEntry(l.ev[e], x.ev[e])
  BY MergeTyped, MergedKnown
<1>3. Merge(Merge(l, x), y).ev[e] = MergedEntry(MergedEntry(l.ev[e], x.ev[e]), y.ev[e])
  BY <1>2, MergedKnown
<1> QED  BY <1>1, <1>3 DEF MergedEntry

LEMMA LinkedHas ==
  ASSUME StoresTyped, StoresSound
  PROVE  /\ stores["LIVE"] \in States /\ stores["HOTFIX"] \in States
         /\ stores[Linked] \in States
         /\ \A e \in Events : ~(stores["LIVE"].ev[e].known /\ stores["HOTFIX"].ev[e].known)
<1>1. FromLogs("LIVE", stores["LIVE"]) /\ FromLogs("HOTFIX", stores["HOTFIX"])
  BY DEF StoresSound, Sound, Scopes, Channels
<1>2. /\ stores["LIVE"] \in States /\ stores["HOTFIX"] \in States
      /\ stores[Linked] \in States
  BY DEF StoresTyped, Scopes, Channels
<1> QED  BY <1>1, <1>2 DEF FromLogs, Channels

\* What a waiting decision takes out, saves of other scopes leave to it, or
\* the player has dismissed it there.
LEMMA ExcusedStays ==
  ASSUME EvidenceAssumption, IInv, NEW w \in Windows, Saved(w), StoresTyped', StoresSound',
         NEW j, j.scope \in Scopes, j.scope # job[w].scope,
         j.plan # None => PlanTyped(j.plan)
  PROVE  dismissed \union Excused(j) \subseteq dismissed' \union Excused(j)'
<1>1. /\ StoresTyped /\ StoresSound /\ job[w].scope \in Scopes /\ SaveKeeps(job[w])
      /\ job[w].plan # None => PlanTyped(job[w].plan)
  BY SavingHas
<1>2. /\ dismissed' = dismissed \union Excused(job[w])
      /\ \A s \in Scopes : s # job[w].scope => stores'[s] = stores[s]
      /\ stores'[job[w].scope].ev = job[w].state.ev
  BY SavedStores DEF Saved
<1>3. CASE ~Dismisses(j)
  BY <1>2, <1>3 DEF Excused
<1>4. CASE Dismisses(j) /\ j.scope # Linked
  <2>1. Loaded(j.scope)' = Loaded(j.scope)
    BY <1>2, <1>4 DEF Loaded
  <2> QED  BY <1>2, <1>4, <2>1 DEF Excused, Dismisses, Evidence
<1>5. CASE Dismisses(j) /\ j.scope = Linked
  <2> DEFINE c == job[w].scope
             b == j.plan.bp
  <2>1. c \in Channels /\ c # Linked /\ b \in Blueprints /\ None \notin Blueprints
    BY <1>1, <1>5, NoneApart DEF Scopes, Dismisses, PlanTyped
  <2>2. ASSUME NEW e \in Events, e \in Excused(j), e \notin dismissed'
        PROVE  e \in Excused(j)'
    <3>1. Loaded(Linked).ev[e].bp = b
      BY <1>5, <2>2 DEF Excused, Evidence
    <3>2. stores'[Linked] = stores[Linked]
      BY <1>2, <2>1 DEF Scopes
    <3>3. stores[c].ev[e].bp = b => stores'[c].ev[e].bp = b
      <4>1. SUFFICES ASSUME stores[c].ev[e].bp = b
                     PROVE  stores'[c].ev[e].bp = b
        OBVIOUS
      <4>2. stores[c].ev[e].known
        BY <1>1, <2>1, <4>1, EntryFacts DEF StoresTyped, States
      <4>3. CASE EntryKept(stores[c].ev[e], job[w].state.ev[e])
        BY <1>2, <2>1, <4>1, <4>2, <4>3 DEF EntryKept
      <4>4. CASE Dismisses(job[w]) /\ stores[c].ev[e].bp = job[w].plan.bp
        <5>1. Loaded(c) = stores[c]
          BY <2>1 DEF Loaded
        <5>2. e \in Excused(job[w])
          BY <4>4, <5>1 DEF Excused, Evidence
        <5> QED  BY <1>2, <2>2, <5>2
      <4> QED  BY <1>1, <2>1, <4>1, <4>3, <4>4 DEF SaveKeeps
    <3>4. \A x \in Channels : stores[x].ev[e].bp = b => stores'[x].ev[e].bp = b
      BY <1>2, <3>3 DEF Scopes
    <3>5. Loaded(Linked) = Merge(Merge(stores[Linked], stores["LIVE"]), stores["HOTFIX"])
      BY DEF Loaded
    <3>6. \/ stores[Linked].ev[e].bp = b
          \/ /\ stores[Linked].ev[e].bp = None
             /\ stores["LIVE"].ev[e].bp = b \/ stores["HOTFIX"].ev[e].bp = b
      BY <1>1, <2>1, <3>1, <3>5, LinkedHas, LinkedEntry
    <3>7. \/ stores'[Linked].ev[e].bp = b
          \/ /\ stores'[Linked].ev[e].bp = None
             /\ stores'["LIVE"].ev[e].bp = b \/ stores'["HOTFIX"].ev[e].bp = b
      BY <3>2, <3>4, <3>6 DEF Channels
    <3>8. /\ stores'["LIVE"] \in States /\ stores'["HOTFIX"] \in States
          /\ stores'[Linked] \in States
          /\ ~(stores'["LIVE"].ev[e].known /\ stores'["HOTFIX"].ev[e].known)
      <4>1. FromLogs("LIVE", stores["LIVE"])' /\ FromLogs("HOTFIX", stores["HOTFIX"])'
        BY DEF StoresSound, Sound, Scopes, Channels
      <4>2. /\ stores'["LIVE"] \in States /\ stores'["HOTFIX"] \in States
            /\ stores'[Linked] \in States
        BY DEF StoresTyped, Scopes, Channels
      <4> QED  BY <4>1, <4>2 DEF FromLogs, Channels
    <3>9. Loaded(Linked)' = Merge(Merge(stores'[Linked], stores'["LIVE"]), stores'["HOTFIX"])
      BY DEF Loaded
    <3>10. Loaded(Linked)'.ev[e].bp = b
      BY <2>1, <3>7, <3>8, <3>9, LinkedEntry
    <3> QED  BY <1>5, <3>10 DEF Excused, Evidence, Dismisses
  <2>3. Excused(j) \subseteq Events
    BY DEF Excused, Evidence
  <2> QED  BY <1>2, <2>2, <2>3
<1> QED  BY <1>3, <1>4, <1>5

\* The job of another window: one of the same scope is outdated now, one of
\* another scope is as it was.
LEMMA OtherJobStays ==
  ASSUME EvidenceAssumption, IInv, NEW w \in Windows, Saved(w), StoresSound',
         NEW j, JobSound(j)
  PROVE  JobSound(j)'
<1>1. /\ GameTyped /\ StoresTyped /\ job[w].scope \in Scopes
      /\ UNCHANGED << logs, gamelog, home, next, raced >>
      /\ dismissed' = dismissed \union Excused(job[w])
  BY SavingHas DEF Saved
<1>2. /\ StoresTyped'
      /\ \A s \in Scopes : s # job[w].scope => stores'[s] = stores[s]
      /\ stores'[job[w].scope].rev = stores[job[w].scope].rev + 1
      /\ stores[job[w].scope].rev \in Nat
  BY SavedStores
<1>3. JobTyped(j) /\ JobTyped(j)'
  BY <1>1 DEF JobSound, JobTyped, PlanTyped
<1>4. ASSUME j.stage = "scan"
      PROVE  j.state.rev <= stores'[j.scope].rev /\ ScanSound(j)'
  <2>1. ScanSound(j) /\ j.state.rev <= stores[j.scope].rev /\ j.scope \in Scopes
        /\ j.state \in States /\ j.state.rev \in Nat
    BY <1>3, <1>4 DEF JobSound, JobTyped, ScanJobs, States
  <2>2. \A p \in j.todo : PathSound(j.scope, p)'
    BY <1>1, <2>1 DEF ScanSound, PathSound, Roots
  <2>3. CASE j.scope = job[w].scope
    BY <1>2, <2>1, <2>2, <2>3 DEF ScanSound
  <2>4. CASE j.scope # job[w].scope
    <3>1. stores'[j.scope] = stores[j.scope]
      BY <1>2, <2>1, <2>4
    <3>2. ASSUME j.state.rev = stores[j.scope].rev
          PROVE  Sound(j.scope, j.state, {})' /\ Keeps(stores[j.scope], j.state)' /\ OpenSound(j)'
      <4>1. Sound(j.scope, j.state, {}) /\ Keeps(stores[j.scope], j.state) /\ OpenSound(j)
        BY <2>1, <3>2 DEF ScanSound
      <4>2. dismissed \union {} \subseteq dismissed' \union {}
        BY <1>1
      <4>3. Sound(j.scope, j.state, {})'
        BY <1>1, <4>1, <4>2, SoundOnceDismissed
      <4>4. OpenSound(j)'
        BY <1>1, <4>1 DEF OpenSound, ReadTo
      <4> QED  BY <3>1, <4>1, <4>3, <4>4 DEF Keeps
    <3> QED  BY <2>1, <2>2, <3>1, <3>2 DEF ScanSound
  <2> QED  BY <2>3, <2>4
<1>5. ASSUME j.stage = "save"
      PROVE  j.state.rev <= stores'[j.scope].rev /\ SaveSound(j)'
  <2>1. /\ SaveSound(j) /\ j.state.rev <= stores[j.scope].rev /\ j.scope \in Scopes
        /\ j.state \in States /\ j.state.rev \in Nat
        /\ j.plan # None => PlanTyped(j.plan)
    BY <1>3, <1>5 DEF JobSound, JobTyped, States
  <2>2. CASE j.scope = job[w].scope
    BY <1>2, <2>1, <2>2 DEF SaveSound
  <2>3. CASE j.scope # job[w].scope
    <3>1. stores'[j.scope] = stores[j.scope]
      BY <1>2, <2>1, <2>3
    <3>2. dismissed \union Excused(j) \subseteq dismissed' \union Excused(j)'
      BY <1>2, <2>1, <2>3, ExcusedStays
    <3>3. ASSUME j.state.rev = stores[j.scope].rev
          PROVE  /\ Sound(j.scope, j.state, Excused(j))' /\ SaveKeeps(j)'
                 /\ j.plan # None => PlanSound(j.plan, j.scope, j.state)'
      <4>1. /\ Sound(j.scope, j.state, Excused(j)) /\ SaveKeeps(j)
            /\ j.plan # None => PlanSound(j.plan, j.scope, j.state)
        BY <2>1, <3>3 DEF SaveSound
      <4>2. Sound(j.scope, j.state, Excused(j))'
        BY <1>1, <3>2, <4>1, SoundOnceDismissed
      <4>3. SaveKeeps(j)'
        BY <3>1, <3>2, <4>1 DEF SaveKeeps, Dismisses
      <4>4. PlanSound(j.plan, j.scope, j.state) => PlanSound(j.plan, j.scope, j.state)'
        BY <3>1 DEF PlanSound
      <4> QED  BY <4>1, <4>2, <4>3, <4>4
    <3> QED  BY <2>1, <3>1, <3>3 DEF SaveSound
  <2> QED  BY <2>2, <2>3
<1>6. ASSUME j.stage = "review"
      PROVE  ReviewSound(j.plan)'
  <2>1. ReviewSound(j.plan) /\ j.plan.scope \in Scopes /\ j.plan.rev \in Nat
    BY <1>3, <1>6 DEF JobSound, JobTyped, PlanTyped
  <2>2. CASE j.plan.scope = job[w].scope
    BY <1>2, <2>1, <2>2 DEF ReviewSound
  <2>3. CASE j.plan.scope # job[w].scope
    BY <1>2, <2>1, <2>3 DEF ReviewSound
  <2> QED  BY <2>2, <2>3
<1> QED  BY <1>3, <1>4, <1>5, <1>6 DEF JobSound

LEMMA SavedKeeps ==
  ASSUME EvidenceAssumption, IInv, NEW w \in Windows, Saved(w)
  PROVE  IInv'
<1>1. GameTyped /\ LogsSound /\ JobsSound
  BY SavingHas
<1>2. StoresTyped' /\ RevisionsBounded' /\ StoresSound'
  BY SavedStores, SavedStoresSound
<1>3. GameTyped'
  <2>1. Excused(job[w]) \subseteq Events
    BY DEF Excused, Evidence
  <2> QED  BY <1>1, <2>1 DEF GameTyped, Saved
<1>4. LogsSound'
  BY <1>1 DEF LogsSound, Saved
<1>5. DOMAIN job = Windows /\ job' = [job EXCEPT ![w] = None]
  BY <1>1 DEF JobsSound, Saved
<1>6. ASSUME NEW x \in Windows, job'[x] # None
      PROVE  JobSound(job[x])'
  <2>1. job'[x] = job[x] /\ JobSound(job[x])
    BY <1>1, <1>5, <1>6 DEF JobsSound
  <2>2. ASSUME NEW k, k = job[x]
        PROVE  JobSound(k)'
    BY <1>2, <2>1, <2>2, OtherJobStays
  <2> QED  BY <2>1, <2>2
<1>7. JobsSound'
  BY <1>5, <1>6 DEF JobsSound
<1> QED  BY <1>2, <1>3, <1>4, <1>7 DEF IInv, Typed

-----------------------------------------------------------------------------
(* The inductive invariant.                                                *)

LEMMA InitKeeps ==
  ASSUME EvidenceAssumption, Init
  PROVE  IInv
<1>1. GameTyped
  <2>1. 1 \in 1 .. LastEvent + 1 /\ << >> \in Seq(Events)
    BY DEF EvidenceAssumption
  <2>2. [channel |-> None, lines |-> << >>, half |-> FALSE, text |-> 0] \in Logs
    BY <2>1 DEF Logs
  <2> QED  BY <2>1, <2>2 DEF Init, GameTyped, EvidenceAssumption
<1>2. StoresTyped
  BY NewStoreTyped DEF Init, StoresTyped
<1>3. LogsSound
  BY DEF Init, LogsSound
<1>4. ASSUME NEW s \in Scopes
      PROVE  Sound(s, stores[s], {}) /\ stores[s].rev = 0
  <2>1. stores[s] = NewStore
    BY DEF Init
  <2>2. /\ \A e \in Events : ~NewStore.ev[e].known
        /\ \A f \in Files : NewStore.cur[f] = NoCursor
        /\ NewStore.rev = 0
    BY DEF NewStore, Absent
  <2> QED  BY <2>1, <2>2 DEF Sound, FromLogs, CursorSound
<1>5. JobsSound
  BY DEF Init, JobsSound
<1>6. RevisionsBounded
  BY <1>4 DEF RevisionsBounded, EvidenceAssumption
<1> QED  BY <1>1, <1>2, <1>3, <1>4, <1>5, <1>6 DEF IInv, Typed, StoresSound

LEMMA StepKeeps ==
  ASSUME EvidenceAssumption, IInv, [Next]_vars
  PROVE  IInv'
<1>1. CASE \/ \E c \in Played : StartGame(c) \/ BeginLine(c) \/ FinishLine(c) \/ Rewrite(c)
           \/ CopyLog
  BY <1>1, GameSteps, GameKeeps DEF IInv, Typed
<1>2. ASSUME NEW w \in Windows,
             \/ ScanLogs(w) \/ ReadLog(w) \/ AdvanceCursor(w) \/ ScanPreview(w)
             \/ Review(w) \/ ApplyPlan(w) \/ Stop(w)
      PROVE  IInv'
  BY <1>2, ScanLogsKeeps, ReadLogKeeps, AdvanceCursorKeeps, ScanPreviewKeeps, ReviewKeeps,
     ApplyPlanKeeps, StopKeeps
<1>3. ASSUME NEW w \in Windows, Save(w)
      PROVE  IInv'
  <2>1. CASE Saved(w)
    BY <2>1, SavedKeeps
  <2>2. CASE JobBecomes(w, None)
    BY <2>2, JobKeeps
  <2> QED  BY <1>3, <2>1, <2>2, SaveOutcomes
<1>4. CASE UNCHANGED vars
  <2>1. GameGoesOn
    <3>1. /\ GameTyped /\ LogsSound
          /\ UNCHANGED << logs, gamelog, home, next, raced, stores, job, dismissed >>
      BY <1>4 DEF IInv, Typed, vars, game
    <3>2. Grows
      <4>1. next \in Int /\ \A f \in Files : Len(logs[f].lines) \in Nat
        BY <3>1 DEF GameTyped, Logs
      <4> QED  BY <3>1, <4>1 DEF Grows
    <3> QED  BY <3>1, <3>2 DEF GameGoesOn, GameTyped, LogsSound, Undisturbed
  <2> QED  BY <2>1, GameKeeps
<1> QED  BY <1>1, <1>2, <1>3, <1>4 DEF Next

LEMMA Invariant == ASSUME EvidenceAssumption PROVE Spec => []IInv
<1>1. Init => IInv
  BY InitKeeps
<1>2. IInv /\ [Next]_vars => IInv'
  BY StepKeeps
<1> QED  BY <1>1, <1>2, PTL DEF Spec

-----------------------------------------------------------------------------
(* The theorems.                                                           *)

\* Evidence is of events that have happened, from files there are, and a
\* window's state is never newer than the store it is to replace.
THEOREM TypeCorrect == ASSUME EvidenceAssumption PROVE Spec => []TypeOK
<1>1. IInv => TypeOK
  <2> SUFFICES ASSUME IInv PROVE TypeOK
    OBVIOUS
  <2>1. next \in 1 .. LastEvent + 1
    BY DEF IInv, Typed, GameTyped
  <2>2. ASSUME NEW s \in Scopes
        PROVE  /\ stores[s].rev \in 0 .. MaxSaves
               /\ stores[s].decided \subseteq Blueprints
               /\ \A e \in Events : stores[s].ev[e] \in Entries
               /\ \A e \in Events : stores[s].ev[e].known => e < next
    <3>1. stores[s] \in States /\ stores[s].rev <= MaxSaves /\ MaxSaves \in Nat
      BY DEF IInv, Typed, StoresTyped, RevisionsBounded, EvidenceAssumption
    <3>2. FromLogs(s, stores[s])
      BY DEF IInv, StoresSound, Sound
    <3> QED  BY <3>1, <3>2 DEF States, FromLogs
  <2>3. \A w \in Windows : job[w] # None /\ job[w].stage \in {"scan", "save"}
                             => job[w].state.rev <= stores[job[w].scope].rev
    BY DEF IInv, JobsSound, JobSound
  <2> QED  BY <2>1, <2>2, <2>3 DEF TypeOK, Entries
<1> QED  BY <1>1, Invariant, PTL

\* No complete line before the cursor of a store is missing from its evidence,
\* unless the player has marked its blueprint as not owned.
THEOREM CursorsAreBehind == ASSUME EvidenceAssumption PROVE Spec => []CursorsStayBehindEvidence
<1>1. IInv => CursorsStayBehindEvidence
  <2> SUFFICES ASSUME IInv, NEW s \in Scopes, NEW f \in Files,
                      stores[s].cur[f] # NoCursor, ~Changed(f, stores[s].cur[f]),
                      f \notin raced
               PROVE  \A i \in 1 .. stores[s].cur[f].offset \div 2 :
                        \/ stores[s].ev[logs[f].lines[i]].known
                        \/ logs[f].lines[i] \in dismissed
    BY DEF CursorsStayBehindEvidence
  <2> DEFINE c == stores[s].cur[f]
  <2>1. c \in Cursors /\ CursorSound(f, c, stores[s].ev, {})
    BY DEF IInv, Typed, StoresTyped, States, StoresSound, Sound
  <2> HIDE DEF c
  <2>2. /\ c # NoCursor /\ ~Changed(f, c)
    BY DEF c
  <2>3. c.prefix # << >> /\ c.prefix[2] > 0 /\ PrefixLength(c) = c.prefix[2]
        /\ PrefixLength(c) \in Nat
    BY <2>1, <2>2, CursorFacts DEF CursorSound
  <2>4. c.prefix = << logs[f].text, PrefixLength(c) >>
    BY <2>2, <2>3 DEF Changed, Prefix
  <2>5. ReadTo(f, c.offset, stores[s].ev, {})
    BY <2>1, <2>2, <2>4 DEF CursorSound
  <2> QED  BY <2>5 DEF ReadTo, c
<1> QED  BY <1>1, Invariant, PTL

\* The stores of LIVE and HOTFIX hold only what their own logs say.
THEOREM ChannelsAreApart == ASSUME EvidenceAssumption PROVE Spec => []ChannelsStayApart
<1>1. IInv => ChannelsStayApart
  BY DEF IInv, StoresSound, Sound, FromLogs, ChannelsStayApart, Scopes
<1> QED  BY <1>1, Invariant, PTL

LEMMA OnlySavesChangeStores ==
  ASSUME EvidenceAssumption, IInv, [Next]_vars
  PROVE  UNCHANGED stores \/ \E w \in Windows : Saved(w)
<1>1. CASE \E w \in Windows : Save(w)
  BY <1>1, SaveOutcomes DEF JobBecomes
<1>2. CASE UNCHANGED vars
  BY <1>2 DEF vars
<1>3. CASE \E w \in Windows : ScanLogs(w) \/ ReadLog(w) \/ AdvanceCursor(w) \/ ScanPreview(w)
                              \/ Review(w) \/ ApplyPlan(w) \/ Stop(w)
  BY <1>3 DEF ScanLogs, ReadLog, AdvanceCursor, ScanPreview, Review, ApplyPlan, Stop
<1>4. CASE \/ \E c \in Played : StartGame(c) \/ BeginLine(c) \/ FinishLine(c) \/ Rewrite(c)
           \/ CopyLog
  BY <1>4 DEF StartGame, BeginLine, FinishLine, Rewrite, CopyLog
<1> QED  BY <1>1, <1>2, <1>3, <1>4 DEF Next

\* Evidence leaves a store, or changes its blueprint, only when the player
\* marks that blueprint as not owned.
THEOREM EvidenceKept == ASSUME EvidenceAssumption PROVE Spec => EvidenceIsKept
<1>1. IInv /\ [Next]_vars => [EvidenceStaysUnlessDismissed]_vars
  <2> SUFFICES ASSUME IInv, [Next]_vars
               PROVE  EvidenceStaysUnlessDismissed
    OBVIOUS
  <2>1. CASE UNCHANGED stores
    BY <2>1 DEF EvidenceStaysUnlessDismissed
  <2>2. ASSUME NEW w \in Windows, Saved(w)
        PROVE  EvidenceStaysUnlessDismissed
    <3>1. /\ \A s \in Scopes : s # job[w].scope => stores'[s] = stores[s]
          /\ stores'[job[w].scope].ev = job[w].state.ev
          /\ Running(w, "save") /\ SaveKeeps(job[w])
          /\ dismissed' = dismissed \union Excused(job[w])
      BY <2>2, SavedStores, SavingHas DEF Saved
    <3>2. ASSUME NEW s \in Scopes, NEW e \in Events, stores[s].ev[e].known
          PROVE  \/ /\ stores'[s].ev[e].known
                    /\ stores[s].ev[e].bp # None => stores'[s].ev[e].bp = stores[s].ev[e].bp
                 \/ \E x \in Windows :
                      /\ Running(x, "save") /\ job[x].scope = s
                      /\ job[x].plan # None /\ job[x].plan.op = "unowned"
                      /\ \/ stores[s].ev[e].bp = job[x].plan.bp
                         \/ stores[s].ev[e].bp = None /\ e \in dismissed'
      <4>1. CASE s # job[w].scope
        BY <3>1, <3>2, <4>1
      <4>2. CASE s = job[w].scope
        <5>1. CASE EntryKept(stores[s].ev[e], job[w].state.ev[e])
          BY <3>1, <3>2, <4>2, <5>1 DEF EntryKept
        <5>2. CASE ~EntryKept(stores[s].ev[e], job[w].state.ev[e])
          <6>1. /\ Dismisses(job[w])
                /\ \/ stores[s].ev[e].bp = job[w].plan.bp
                   \/ stores[s].ev[e].bp = None /\ e \in dismissed'
            BY <3>1, <4>2, <5>2 DEF SaveKeeps
          <6> QED  BY <3>1, <4>2, <6>1 DEF Dismisses
        <5> QED  BY <5>1, <5>2
      <4> QED  BY <4>1, <4>2
    <3> QED  BY <3>2 DEF EvidenceStaysUnlessDismissed
  <2> QED  BY <2>1, <2>2, OnlySavesChangeStores
<1> QED  BY <1>1, Invariant, PTL DEF Spec, EvidenceIsKept

\* A decision changes the scope the player reviewed, and nothing else there.
THEOREM DecisionIsReviewed == ASSUME EvidenceAssumption PROVE Spec => DecisionIsTheReviewedOne
<1>1. IInv /\ [Next]_vars => [AsReviewed]_vars
  <2> SUFFICES ASSUME IInv, [Next]_vars, NEW w \in Windows,
                      Running(w, "save"), job'[w] = None, job[w].plan # None,
                      stores' # stores
               PROVE  LET d == job[w].plan
                          reviewed == IF d.op = "unowned" THEN d.owned \ {d.bp}
                                      ELSE d.owned \union {d.bp}
                      IN  /\ \A s \in Scopes \ {d.scope} : stores'[s] = stores[s]
                          /\ IF d.scope \in Channels THEN Owned(stores'[d.scope]) = reviewed
                             ELSE /\ reviewed \intersect Owned(stores[Linked])
                                       \subseteq Owned(stores'[Linked])
                                  /\ d.op = "unowned" <=> d.bp \notin Owned(stores'[Linked])
    BY DEF AsReviewed
  <2>1. PICK x \in Windows : Saved(x)
    BY OnlySavesChangeStores
  <2>2. x = w
    BY <2>1 DEF Saved, IInv, JobsSound, Running
  <2>3. /\ \A s \in Scopes : s # job[w].scope => stores'[s] = stores[s]
        /\ stores'[job[w].scope].ev = job[w].state.ev
        /\ stores'[job[w].scope].decided = job[w].state.decided
        /\ job[w].plan.scope = job[w].scope /\ job[w].scope \in Scopes
        /\ PlanSound(job[w].plan, job[w].scope, job[w].state)
    BY <2>1, <2>2, SavedStores, SavingHas
  <2>4. Owned(stores'[job[w].scope]) = Owned(job[w].state)
    BY <2>3 DEF Owned
  <2>5. job[w].scope \in Channels \/ job[w].scope = Linked
    BY <2>3 DEF Scopes
  <2> QED  BY <2>3, <2>4, <2>5 DEF PlanSound, Reviewed
<1> QED  BY <1>1, Invariant, PTL DEF Spec, DecisionIsTheReviewedOne
=============================================================================
