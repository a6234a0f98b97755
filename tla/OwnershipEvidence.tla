------------------------- MODULE OwnershipEvidence -------------------------
(***************************************************************************)
(* What the ownership stores hold: blueprint acquisitions found in the     *)
(* game's logs, cursors that say how far each log was read, and decisions  *)
(* of the player (src/starcompanion/ownership.py, driven by                *)
(* gui/tabs/blueprints.py and the blueprints commands).  LIVE and HOTFIX   *)
(* have stores of their own and may be shown as one linked scope, whose    *)
(* store is a third one, merged with the other two at each load.           *)
(*                                                                         *)
(* OwnershipStore and StoreLock model how one store is written; here a     *)
(* save is one step.  A log is a sequence of complete lines, each an       *)
(* acquisition event, and maybe half a line; sizes and offsets count half  *)
(* lines.  Multi-select decisions are single ones, and other channels,     *)
(* which are never linked, are like LIVE without its linked scope.         *)
(***************************************************************************)
EXTENDS Integers, Sequences, FiniteSets

CONSTANTS Windows,
          Played,        \* the channels that are installed
          Files,         \* file identities: device and inode
          Blueprints,
          Ops,           \* decisions the player makes
          LastEvent,     \* events are 1..LastEvent, in the order they happen
          Homes,         \* possible assignments of events to channels
          NameOf,        \* event -> the blueprint name the game logs
          Catalogs,      \* a catalog: name -> blueprints of that name
          PrefixLimit,   \* the bytes of a log a cursor remembers
          None,
          HalfLines,     \* whether a line may be seen half written
          MaxRewrites, MaxSaves   \* bounds

Channels == {"LIVE", "HOTFIX"}
Linked   == "LIVE-HOTFIX"
Scopes   == Channels \union {Linked}
Offered  == Played \union {Linked}
Events   == 1 .. LastEvent
Unresolved == None

VARIABLES logs,     \* file -> channel directory, complete lines, half a line
          gamelog,  \* channel -> the file Game.log names
          home,     \* event -> the channel it happens in
          next,     \* the event that happens next
          stores,   \* scope -> revision, evidence, decisions, cursors
          job,      \* window -> what it is about: one job at a time
          raced,    \* files rewritten while a scan had them open
          dismissed \* events of blueprints the player marked as not owned

game == << logs, gamelog, home, next, raced >>
vars == << game, stores, job, dismissed >>

LessOf(a, b) == IF a < b THEN a ELSE b

Absent == [bp |-> None, file |-> None, known |-> FALSE]
Entry(b, f) == [bp |-> b, file |-> f, known |-> TRUE]
NoCursor == [offset |-> 0, prefix |-> << >>]
NewStore == [rev |-> 0, ev |-> [e \in Events |-> Absent], decided |-> {},
             cur |-> [f \in Files |-> NoCursor]]

\* The keys of OwnershipState.records.
Owned(st) == st.decided \union ({st.ev[e].bp : e \in Events} \ {None})

Size(f) == 2 * Len(logs[f].lines) + (IF logs[f].half THEN 1 ELSE 0)

\* A file that is written anew starts differently.
Prefix(f, n) == IF n = 0 THEN << >> ELSE << logs[f].text, n >>
PrefixLength(c) == IF c.prefix = << >> THEN 0 ELSE c.prefix[2]

Backups(c) == {f \in Files : logs[f].channel = c /\ gamelog[c] # f}

Init ==
  /\ logs = [f \in Files |-> [channel |-> None, lines |-> << >>, half |-> FALSE, text |-> 0]]
  /\ gamelog = [c \in Channels |-> None]
  /\ home \in Homes
  /\ next = 1
  /\ stores = [s \in Scopes |-> NewStore]
  /\ job = [w \in Windows |-> None]
  /\ raced = {}
  /\ dismissed = {}

-----------------------------------------------------------------------------
(* The game.                                                               *)

\* The last log becomes a backup and keeps its identity.
StartGame(c) ==
  /\ \E f \in Files :
       /\ logs[f].channel = None
       /\ logs' = [logs EXCEPT ![f].channel = c]
       /\ gamelog' = [gamelog EXCEPT ![c] = f]
  /\ UNCHANGED << home, next, raced, stores, job, dismissed >>

BeginLine(c) ==
  /\ HalfLines
  /\ gamelog[c] # None
  /\ ~logs[gamelog[c]].half
  /\ next <= LastEvent /\ home[next] = c
  /\ logs' = [logs EXCEPT ![gamelog[c]].half = TRUE]
  /\ UNCHANGED << gamelog, home, next, raced, stores, job, dismissed >>

FinishLine(c) ==
  /\ gamelog[c] # None
  /\ next <= LastEvent /\ home[next] = c
  /\ logs' = [logs EXCEPT ![gamelog[c]].half = FALSE,
                          ![gamelog[c]].lines = Append(@, next)]
  /\ next' = next + 1
  /\ UNCHANGED << gamelog, home, raced, stores, job, dismissed >>

\* The log starts over in the same file.
Rewrite(c) ==
  /\ gamelog[c] # None
  /\ logs[gamelog[c]].text < MaxRewrites
  /\ logs' = [logs EXCEPT ![gamelog[c]].text = @ + 1,
                          ![gamelog[c]].lines = << >>, ![gamelog[c]].half = FALSE]
  /\ raced' = IF \E w \in Windows : job[w] # None /\ job[w].open # None
                                      /\ job[w].open.file = gamelog[c]
              THEN raced \union {gamelog[c]} ELSE raced
  /\ UNCHANGED << gamelog, home, next, stores, job, dismissed >>

\* A copy of a log appears among the backups.
CopyLog ==
  /\ \E f, g \in Files :
       /\ logs[f].channel # None /\ logs[f].lines # << >>
       /\ logs[g].channel = None
       /\ logs' = [logs EXCEPT ![g] = logs[f]]
  /\ UNCHANGED << gamelog, home, next, raced, stores, job, dismissed >>

-----------------------------------------------------------------------------
(* load_details: the linked scope is merged from all three stores.         *)

Conflict(a, b) ==
  \E e \in Events :
    /\ a.ev[e].known /\ b.ev[e].known
    /\ \/ a.ev[e].bp # None /\ b.ev[e].bp # None /\ a.ev[e] # b.ev[e]
       \/ a.ev[e].bp = None /\ a.ev[e].file # b.ev[e].file

MergedEntry(x, y) == IF x.bp = None /\ y.known THEN y ELSE x

MergedCursor(x, y) ==
  IF x = NoCursor THEN y
  ELSE IF y = NoCursor THEN x
  ELSE IF x.prefix # y.prefix THEN NoCursor
  ELSE IF x.offset >= y.offset THEN x ELSE y

\* Mutant of Merge: the revision is the newest store's.
MergeByRevision(a, b) ==
  [rev     |-> IF a.rev < b.rev THEN b.rev ELSE a.rev,
   ev      |-> [e \in Events |-> MergedEntry(a.ev[e], b.ev[e])],
   decided |-> a.decided \union b.decided,
   cur     |-> [f \in Files |-> MergedCursor(a.cur[f], b.cur[f])]]

Merge(a, b) ==
  [rev     |-> a.rev,
   ev      |-> [e \in Events |-> MergedEntry(a.ev[e], b.ev[e])],
   decided |-> a.decided \union b.decided,
   cur     |-> [f \in Files |-> MergedCursor(a.cur[f], b.cur[f])]]

Loadable(s) ==
  s = Linked =>
    LET with == Merge(stores[Linked], stores["LIVE"])
    IN  ~Conflict(stores[Linked], stores["LIVE"]) /\ ~Conflict(with, stores["HOTFIX"])

Loaded(s) ==
  IF s = Linked THEN Merge(Merge(stores[Linked], stores["LIVE"]), stores["HOTFIX"])
                ELSE stores[s]

-----------------------------------------------------------------------------
(* The Blueprints tab and the blueprints commands.  The player may choose  *)
(* another channel, or toggle the link, at any time: an operation starts   *)
(* with any scope, and its preview is dropped if the scope is another one  *)
(* then.  What a window shows it has loaded some time before; that is an   *)
(* operation that was planned, and waited.                                 *)

SetJob(w, j) == job' = [job EXCEPT ![w] = j]

Running(w, stage) == job[w] # None /\ job[w].stage = stage

\* The window is closed, the job cancelled, its preview declined or dropped.
Stop(w) ==
  /\ job[w] # None
  /\ SetJob(w, None)
  /\ UNCHANGED << game, stores, dismissed >>

-----------------------------------------------------------------------------
(* Scanning.                                                               *)

\* Mutant of Roots: LIVE and HOTFIX are always scanned together.
RootsOfBoth(s) == IF s \in Scopes THEN Channels ELSE {s}

Roots(s) == IF s = Linked THEN Channels ELSE {s}

\* Paths: a backup's, or the Game.log of a channel, whatever it names then.
Discovered(s) ==
  (UNION {{<< c, f >> : f \in Backups(c)} : c \in Roots(s)})
  \union {<< c, None >> : c \in {d \in Roots(s) : gamelog[d] # None}}

Named(p) == IF p[2] = None THEN gamelog[p[1]] ELSE p[2]

Candidates(cat, e) == cat[NameOf[e]]

Found(cat, e) == IF Cardinality(Candidates(cat, e)) = 1
                 THEN CHOOSE b \in Candidates(cat, e) : TRUE ELSE Unresolved

EvidenceAssumption ==
  /\ Played \subseteq Channels
  /\ Homes \subseteq [Events -> Channels]
  /\ None \notin Files \union Blueprints \union Channels
  /\ None \notin [op : {"owned", "unowned", "resolve", "import"}, scope : Scopes, rev : Nat,
                  bp : Blueprints, event : Events \union {None}, owned : SUBSET Blueprints]
  /\ LastEvent \in Nat /\ MaxSaves \in Nat /\ PrefixLimit \in Nat \ {0}
  /\ \A cat \in Catalogs, e \in Events :
       Candidates(cat, e) \subseteq Blueprints /\ IsFiniteSet(Candidates(cat, e))

Reconciled(cat, st) ==
  [st EXCEPT !.ev = [e \in Events |->
     IF st.ev[e].known /\ st.ev[e].bp = Unresolved
     THEN Entry(Found(cat, e), st.ev[e].file) ELSE st.ev[e]]]

ScanLogs(w) ==
  /\ job[w] = None
  /\ \E s \in Offered, cat \in Catalogs, full \in BOOLEAN :
       /\ Loadable(s)
       /\ full => \E f \in Files : Loaded(s).cur[f] # NoCursor
       /\ SetJob(w, [stage |-> "scan", scope |-> s, full |-> full, catalog |-> cat,
                     state |-> Reconciled(cat, Loaded(s)), todo |-> Discovered(s),
                     open |-> None])
  /\ UNCHANGED << game, stores, dismissed >>

Changed(f, c) ==
  \/ Size(f) < c.offset
  \/ Size(f) < PrefixLength(c)
  \/ Prefix(f, PrefixLength(c)) # c.prefix

Start(w, f) ==
  LET c == job[w].state.cur[f]
  IN  IF job[w].full \/ c = NoCursor \/ Changed(f, c) THEN 0 ELSE c.offset

\* Mutant of Committed: half a line counts as read.
CommittedHalf(f) == 2 * Len(logs[f].lines) + (IF logs[f].half THEN 2 ELSE 0)

\* A line that is not complete is not committed.
Committed(f) == 2 * Len(logs[f].lines)

\* The first mention of an event is the one that is kept.
Noted(w, f, start) ==
  LET read == {logs[f].lines[i] : i \in (start \div 2) + 1 .. Len(logs[f].lines)}
  IN  [e \in Events |-> IF e \in read /\ ~job[w].state.ev[e].known
                        THEN Entry(Found(job[w].catalog, e), f) ELSE job[w].state.ev[e]]

ReadLog(w) ==
  /\ Running(w, "scan")
  /\ job[w].open = None
  /\ \E p \in job[w].todo :
       LET f == Named(p)
           start == Start(w, f)
           rest == [job[w] EXCEPT !.todo = @ \ {p}]
       IN  SetJob(w, IF start = Size(f) THEN rest
                     ELSE [rest EXCEPT !.state.ev = Noted(w, f, start),
                                       !.open = [file |-> f, size |-> Size(f),
                                                 committed |-> Committed(f)]])
  /\ UNCHANGED << game, stores, dismissed >>

CursorFor(o) == [offset |-> o.committed, prefix |-> Prefix(o.file, LessOf(o.size, PrefixLimit))]

\* A file that has shrunk meanwhile keeps its old cursor.
AdvanceCursor(w) ==
  /\ Running(w, "scan")
  /\ job[w].open # None
  /\ LET o == job[w].open
         closed == [job[w] EXCEPT !.open = None]
     IN  SetJob(w, IF Size(o.file) < o.size THEN closed
                   ELSE [closed EXCEPT !.state.cur[o.file] = CursorFor(o)])
  /\ UNCHANGED << game, stores, dismissed >>

Saving(s, d, st) == [stage |-> "save", scope |-> s, plan |-> d, state |-> st, open |-> None]

\* The player accepts the preview; there is none if there is nothing new.
ScanPreview(w) ==
  /\ Running(w, "scan")
  /\ job[w].open = None /\ job[w].todo = {}
  /\ job[w].state # stores[job[w].scope]
  /\ SetJob(w, Saving(job[w].scope, None, job[w].state))
  /\ UNCHANGED << game, stores, dismissed >>

-----------------------------------------------------------------------------
(* Decisions: owned, not owned, which blueprint an ambiguous name means,   *)
(* and imports of a list.                                                  *)

Decision(op, s, st, b, e) ==
  [op |-> op, scope |-> s, rev |-> st.rev, bp |-> b, event |-> e, owned |-> Owned(st)]

Decisions(cat, s, st) ==
  {Decision(op, s, st, b, None) : op \in {"owned", "import"}, b \in Blueprints \ Owned(st)}
  \union {Decision("unowned", s, st, b, None) : b \in Owned(st)}
  \union {Decision("resolve", s, st, x[2], x[1]) :
            x \in {y \in Events \X Blueprints :
                     st.ev[y[1]].known /\ st.ev[y[1]].bp = Unresolved
                     /\ y[2] \in Candidates(cat, y[1])}}

Review(w) ==
  /\ job[w] = None
  /\ \E s \in Offered, cat \in Catalogs :
       /\ Loadable(s)
       /\ \E d \in {x \in Decisions(cat, s, Loaded(s)) : x.op \in Ops} :
            SetJob(w, [stage |-> "review", plan |-> d, open |-> None])
  /\ UNCHANGED << game, stores, dismissed >>

\* Mutant of SameRevision: the scope is not compared.
SameNumber(d, s, st) == s \in Scopes /\ d.rev = st.rev

\* apply_manual_ownership, apply_resolution and apply_import refuse unless
\* the scope and revision are the reviewed ones.
SameRevision(d, s, st) == d.scope = s /\ d.rev = st.rev

StillTrue(d, st) ==
  CASE d.op = "owned"   -> d.bp \notin Owned(st)
    [] d.op = "unowned" -> d.bp \in Owned(st)
    [] d.op = "resolve" -> st.ev[d.event].known /\ st.ev[d.event].bp = Unresolved
    [] d.op = "import"  -> TRUE

Decided(d, st) ==
  CASE d.op \in {"owned", "import"} -> [st EXCEPT !.decided = @ \union {d.bp}]
    [] d.op = "unowned" ->
         [st EXCEPT !.decided = @ \ {d.bp},
                    !.ev = [e \in Events |-> IF @[e].bp = d.bp THEN Absent ELSE @[e]]]
    [] d.op = "resolve" -> [st EXCEPT !.ev[d.event].bp = d.bp]

\* The channel is read again when the dialog is answered.
ApplyPlan(w) ==
  /\ Running(w, "review")
  /\ \E s \in Offered :
       LET d == job[w].plan IN
       SetJob(w, IF Loadable(s) /\ SameRevision(d, s, Loaded(s)) /\ StillTrue(d, Loaded(s))
                 THEN Saving(s, d, Decided(d, Loaded(s))) ELSE None)
  /\ UNCHANGED << game, stores, dismissed >>

-----------------------------------------------------------------------------

\* Mutant of Current: the last save wins.
AlwaysCurrent(w) == job[w].state.rev \in Nat

\* OwnershipStore.save compares the revision and writes the next one.
Current(w) == stores[job[w].scope].rev = job[w].state.rev

Save(w) ==
  /\ Running(w, "save")
  /\ stores["LIVE"].rev + stores["HOTFIX"].rev + stores[Linked].rev < MaxSaves
  /\ LET s == job[w].scope  d == job[w].plan IN
     IF Current(w)
     THEN /\ stores' = [stores EXCEPT ![s] = [job[w].state EXCEPT !.rev = @ + 1]]
          /\ dismissed' = dismissed \union
               {e \in Events : d # None /\ d.op = "unowned" /\ Loaded(s).ev[e].bp = d.bp}
     ELSE UNCHANGED << stores, dismissed >>
  /\ SetJob(w, None)
  /\ UNCHANGED game

Next ==
  \/ \E c \in Played : StartGame(c) \/ BeginLine(c) \/ FinishLine(c) \/ Rewrite(c)
  \/ CopyLog
  \/ \E w \in Windows :
       \/ ScanLogs(w) \/ ReadLog(w) \/ AdvanceCursor(w) \/ ScanPreview(w)
       \/ Review(w) \/ ApplyPlan(w) \/ Save(w) \/ Stop(w)

Spec == Init /\ [][Next]_vars

-----------------------------------------------------------------------------

\* Evidence is of events that have happened, from files there are; a job's
\* state is never newer than the store it is to replace.
TypeOK ==
  /\ next \in 1 .. LastEvent + 1
  /\ \A s \in Scopes :
       /\ stores[s].rev \in 0 .. MaxSaves
       /\ stores[s].decided \subseteq Blueprints
       /\ \A e \in Events : stores[s].ev[e] \in
            {Absent} \union {Entry(b, f) : b \in Blueprints \union {None}, f \in Files}
       /\ \A e \in Events : stores[s].ev[e].known => e < next
  /\ \A w \in Windows : job[w] # None /\ job[w].stage \in {"scan", "save"}
                          => job[w].state.rev <= stores[job[w].scope].rev

\* No acquisition is passed over: every complete line before a cursor, in
\* the file as it is now, is in the evidence of the store that holds the
\* cursor, whatever was appended, rotated, rewritten, copied, cancelled,
\* refused or merged.  Excepted are events whose blueprint the player has
\* marked as not owned, and a file rewritten under an open scan, which
\* scan_logs notices only when the file is still shorter at the end.
CursorsStayBehindEvidence ==
  \A s \in Scopes, f \in Files :
    LET c == stores[s].cur[f]
    IN  c # NoCursor /\ ~Changed(f, c) /\ f \notin raced
          => \A i \in 1 .. c.offset \div 2 :
               \/ stores[s].ev[logs[f].lines[i]].known
               \/ logs[f].lines[i] \in dismissed

\* The stores of LIVE and HOTFIX hold only what their own logs say, though
\* the player switches scopes while scans and decisions are under way.
ChannelsStayApart ==
  \A c \in Channels, e \in Events : stores[c].ev[e].known => home[e] = c

EvidenceStaysUnlessDismissed ==
  \A s \in Scopes, e \in Events :
    stores[s].ev[e].known =>
      \/ /\ stores'[s].ev[e].known
         /\ stores[s].ev[e].bp # None => stores'[s].ev[e].bp = stores[s].ev[e].bp
      \/ \E w \in Windows :
           /\ Running(w, "save") /\ job[w].scope = s
           /\ job[w].plan # None /\ job[w].plan.op = "unowned"
           /\ \/ stores[s].ev[e].bp = job[w].plan.bp
              \/ stores[s].ev[e].bp = None /\ e \in dismissed'

\* Evidence leaves a store, or changes its blueprint, only when the player
\* marks that blueprint as not owned: neither a scan that began earlier nor
\* a catalog that no longer knows a name undoes it.  In the linked scope the
\* blueprint may be one that only a channel's store has resolved the name to.
EvidenceIsKept == [][EvidenceStaysUnlessDismissed]_vars

AsReviewed ==
  \A w \in Windows :
    Running(w, "save") /\ job'[w] = None /\ job[w].plan # None /\ stores' # stores =>
      LET d == job[w].plan
          reviewed == IF d.op = "unowned" THEN d.owned \ {d.bp} ELSE d.owned \union {d.bp}
      IN  /\ \A s \in Scopes \ {d.scope} : stores'[s] = stores[s]
          /\ IF d.scope \in Channels THEN Owned(stores'[d.scope]) = reviewed
             ELSE /\ reviewed \intersect Owned(stores[Linked]) \subseteq Owned(stores'[Linked])
                  /\ d.op = "unowned" <=> d.bp \notin Owned(stores'[Linked])

\* A decision changes the scope the player reviewed, and nothing else there
\* (in the linked scope, what the channel stores add or no longer add may
\* differ from what the window showed).
DecisionIsTheReviewedOne == [][AsReviewed]_vars
=============================================================================
