----------------------------- MODULE UserEdits -----------------------------
(***************************************************************************)
(* The personal strings of one channel and language (user_edits.py):      *)
(* user.ini, its authorship metadata (origins.json), its undo history      *)
(* (history.json) and its snapshots, changed by command-line edits, by the *)
(* String editor's save jobs and by "channel apply", which share nothing   *)
(* but these files.  Each save is one action per file read or written.     *)
(*                                                                         *)
(* A digest is the content it was taken of.  A session is one EditSession: *)
(* no caller keeps one for more than one command.                          *)
(***************************************************************************)
EXTENDS Naturals, Sequences, SequencesExt

CONSTANTS Editors,
          Keys,
          Texts,       \* Texts[k]: the texts of key k
          NoText,      \* a key without an override
          Missing,     \* a file that does not exist
          Retention,   \* snapshot_retention
          MaxHistory,  \* MAX_HISTORY
          MaxEdits     \* bound: commands begun and writes by another program

VARIABLES userIni,     \* Contents or Missing
          origins,     \* [digest, kinds] or Missing
          history,     \* [digest, commands, cursor] or Missing
          snapshots,   \* newest first
          editor,      \* what each session is doing
          pack,        \* the delta pack last written, or Missing
          edits,       \* commands begun and writes by another program
          alone,       \* ghost: sessions since whose save began nobody else
                       \* has written user.ini
          held,        \* ghost: contents user.ini has held
          authored     \* ghost: <<key, text>> pairs set by an authored edit

files == << userIni, origins, history, snapshots, pack >>
ghosts == << alone, held, authored >>
vars == << files, editor, edits, ghosts >>

Contents ==
  {c \in [Keys -> (UNION {Texts[k] : k \in Keys}) \union {NoText}] :
     \A k \in Keys : c[k] \in Texts[k] \union {NoText}}
Empty    == [k \in Keys |-> NoText]
Kinds    == {"authored", "imported", "derived", "unknown"}

\* What the theorems assume of the constants: a missing file is no content, and
\* a history can hold a command.
EditAssumption ==
  /\ Missing \notin Contents
  /\ Retention \in Nat
  /\ MaxHistory \in Nat \ {0}
  /\ MaxEdits \in Nat

\* A missing user.ini reads as no override at all.
Text(file) == IF file = Missing THEN Empty ELSE file

-----------------------------------------------------------------------------
\* Commands: the changed keys, each with the text before and after.

Changed(before, after) ==
  [k \in {k \in Keys : before[k] # after[k]} |->
     [before |-> before[k], after |-> after[k]]]

Applies(command, content) ==
  \A k \in DOMAIN command : content[k] = command[k].before

Apply(command, content) ==
  [k \in Keys |-> IF k \in DOMAIN command THEN command[k].after ELSE content[k]]

Reversed(command) ==
  [k \in DOMAIN command |->
     [before |-> command[k].after, after |-> command[k].before]]

\* The content a command leads to, Missing when the command does not fit.
Led(command, content) ==
  IF content # Missing /\ Applies(command, content)
    THEN Apply(command, content) ELSE Missing

\* The content before a sequence of commands, undone from the last one on.
Unwind(commands, content) ==
  LET before[n \in 0..Len(commands)] ==
        IF n = Len(commands) THEN content
        ELSE Led(Reversed(commands[n + 1]), before[n + 1])
  IN  before[0]

\* The content after a sequence of commands.
Replay(commands, content) ==
  LET after[n \in 0..Len(commands)] ==
        IF n = 0 THEN content ELSE Led(commands[n], after[n - 1])
  IN  after[Len(commands)]

\* Mutant: the digest is not compared.
DigestIgnored(file, content) == TRUE

\* A history is used only for the content it was written with, and only if
\* both its undo and its redo branch replay.
DigestFits(file, content) == file.digest = content

Coherent(file, content) ==
  LET done == SubSeq(file.commands, 1, file.cursor)
      base == Unwind(done, content)
  IN  base # Missing /\ Replay(file.commands, base) # Missing

HistoryFits(content) ==
  /\ history # Missing
  /\ DigestFits(history, content)
  /\ Coherent(history, content)

\* Mutant: authorship is believed whatever content it was written for.
KindsOfAny(content) ==
  [k \in {k \in Keys : content[k] # NoText} |->
     IF origins # Missing /\ k \in DOMAIN origins.kinds
       THEN origins.kinds[k] ELSE "unknown"]

\* load_origins: the metadata of another content counts for nothing.
KindsOf(content) ==
  [k \in {k \in Keys : content[k] # NoText} |->
     IF origins # Missing /\ origins.digest = content
       THEN origins.kinds[k] ELSE "unknown"]

-----------------------------------------------------------------------------
Idle == [stage |-> "idle"]

Init ==
  /\ userIni = Missing
  /\ origins = Missing
  /\ history = Missing
  /\ snapshots = << >>
  /\ editor = [e \in Editors |-> Idle]
  /\ pack = Missing
  /\ edits = 0
  /\ alone = {}
  /\ held = {Empty}
  /\ authored = {}

Become(e, session) == editor' = [editor EXCEPT ![e] = session]
Goto(e, stage)     == editor' = [editor EXCEPT ![e].stage = stage]
Quit(e)            == Become(e, Idle)

\* EditSession: the values are read first, then the metadata bound to them.
Open(e) ==
  /\ editor[e].stage = "idle"
  /\ edits < MaxEdits
  /\ edits' = edits + 1
  /\ Become(e, [stage |-> "opening", values |-> Text(userIni)])
  /\ UNCHANGED << files, ghosts >>

Recall(e) ==
  /\ editor[e].stage = "opening"
  /\ LET values == editor[e].values IN
     Become(e, [stage    |-> "open",
                values   |-> values,
                kinds    |-> KindsOf(values),
                commands |-> IF HistoryFits(values) THEN history.commands ELSE << >>,
                cursor   |-> IF HistoryFits(values) THEN history.cursor ELSE 0])
  /\ UNCHANGED << files, edits, ghosts >>

\* The session has decided what user.ini, origins and history shall become.
Decide(e, values, kinds, commands, cursor) ==
  Become(e, [stage    |-> "comparing",
             values   |-> editor[e].values,
             next     |-> values,
             kinds    |-> kinds,
             commands |-> commands,
             cursor   |-> cursor])

\* A new command cuts off the redo branch; the oldest of too many is dropped.
Execute(e, values, kindOf) ==
  LET session  == editor[e]
      command  == Changed(session.values, values)
      branch   == Append(SubSeq(session.commands, 1, session.cursor), command)
      excess   == IF Len(branch) > MaxHistory THEN Len(branch) - MaxHistory ELSE 0
      commands == SubSeq(branch, excess + 1, Len(branch))
      kinds    == [k \in {k \in Keys : values[k] # NoText} |->
                     IF k \in DOMAIN command THEN kindOf[k] ELSE session.kinds[k]]
  IN  /\ Decide(e, values, kinds, commands, Len(commands))
      /\ authored' = authored \union
           {<<k, values[k]>> : k \in {k \in DOMAIN kinds :
                                        k \in DOMAIN command /\ kindOf[k] = "authored"}}
      /\ UNCHANGED << files, edits, alone, held >>

\* Mutant: an undone or redone text is called authored.
RestoredKindAuthored == "authored"

RestoredKind == "unknown"

Restored(session, values, command) ==
  [k \in {k \in Keys : values[k] # NoText} |->
     IF k \in DOMAIN command THEN RestoredKind ELSE session.kinds[k]]

Undo(e) ==
  LET session == editor[e]
      command == session.commands[session.cursor]
      values  == Apply(Reversed(command), session.values)
  IN  /\ session.stage = "open"
      /\ session.cursor > 0
      /\ Decide(e, values, Restored(session, values, command),
                session.commands, session.cursor - 1)
      /\ UNCHANGED << files, edits, ghosts >>

Redo(e) ==
  LET session == editor[e]
      command == session.commands[session.cursor + 1]
      values  == Apply(command, session.values)
  IN  /\ session.stage = "open"
      /\ session.cursor < Len(session.commands)
      /\ Decide(e, values, Restored(session, values, command),
                session.commands, session.cursor + 1)
      /\ UNCHANGED << files, edits, ghosts >>

\* Set or remove one key, or save the String editor's changes as one command.
Edit(e) ==
  /\ editor[e].stage = "open"
  /\ \E values \in Contents \ {editor[e].values} :
       Execute(e, values, [k \in Keys |-> "authored"])

\* plan_import: what each conflicting key may become, and who then wrote it.
\* A joined text and a custom one are any text.
Resolved(k, current, incoming, choice) ==
  CASE choice = "keep"   -> {[text |-> current, kind |-> "unknown"]}
    [] choice = "import" -> {[text |-> incoming, kind |-> "imported"]}
    [] choice = "append" \/ choice = "prepend" ->
         {[text |-> t, kind |-> "derived"] : t \in Texts[k]}
    [] choice = "custom" -> {[text |-> t, kind |-> "authored"] : t \in Texts[k]}

Resolutions == {"keep", "import", "append", "prepend", "custom"}

\* The results of importing a file; every conflict has been resolved.
Outcomes(current, incoming) ==
  LET Outcome(k) ==
        IF incoming[k] = NoText \/ incoming[k] = current[k]
          THEN {[text |-> current[k], kind |-> "unknown"]}
        ELSE IF current[k] = NoText
          THEN {[text |-> incoming[k], kind |-> "imported"]}
        ELSE UNION {Resolved(k, current[k], incoming[k], c) : c \in Resolutions}
      All == UNION {Outcome(k) : k \in Keys}
  IN  {f \in [Keys -> All] : \A k \in Keys : f[k] \in Outcome(k)}

Import(e) ==
  /\ editor[e].stage = "open"
  /\ \E incoming \in Contents : \E f \in Outcomes(editor[e].values, incoming) :
       LET values == [k \in Keys |-> f[k].text] IN
       /\ values # editor[e].values
       /\ Execute(e, values, [k \in Keys |-> f[k].kind])

\* "channel apply" loads user.ini, if it exists, and saves what it has read.
Normalize(e) ==
  /\ editor[e].stage = "idle"
  /\ edits < MaxEdits
  /\ userIni # Missing
  /\ edits' = edits + 1
  /\ Become(e, [stage |-> "reading", values |-> userIni, next |-> userIni])
  /\ UNCHANGED << files, ghosts >>

Journals(session) == "commands" \in DOMAIN session

-----------------------------------------------------------------------------
\* _commit and save.

Compare(e) ==
  /\ editor[e].stage = "comparing"
  /\ IF Text(userIni) = editor[e].values THEN Goto(e, "reading") ELSE Quit(e)
  /\ UNCHANGED << files, edits, ghosts >>

\* An unchanged file is not written, only its authorship.
ReadCurrent(e) ==
  /\ editor[e].stage = "reading"
  /\ LET next == editor[e].next IN
     Goto(e, CASE userIni = next    -> "unchanged"
               [] userIni = Missing -> "staging"
               [] OTHER             -> "copying")
  /\ alone' = alone \union {e}
  /\ UNCHANGED << files, edits, held, authored >>

\* Mutant: the snapshot is of the new content.
SnapshotOfNext(e) ==
  /\ editor[e].stage = "copying"
  /\ Goto(e, "staging")
  /\ snapshots' = IF Retention = 0 THEN snapshots ELSE << editor[e].next >> \o snapshots
  /\ UNCHANGED << userIni, origins, history, pack, edits, ghosts >>

\* The file is read once more for its copy.
Snapshot(e) ==
  /\ editor[e].stage = "copying"
  /\ Goto(e, "staging")
  /\ snapshots' = IF Retention = 0 THEN snapshots ELSE << Text(userIni) >> \o snapshots
  /\ UNCHANGED << userIni, origins, history, pack, edits, ghosts >>

\* Authorship is staged before the values it belongs to.
StageOrigins(e) ==
  /\ editor[e].stage \in {"staging", "unchanged"}
  /\ IF Journals(editor[e])
       THEN origins' = [digest |-> editor[e].next, kinds |-> editor[e].kinds]
       ELSE UNCHANGED origins
  /\ IF editor[e].stage = "staging" THEN Goto(e, "replacing")
     ELSE IF Journals(editor[e]) THEN Goto(e, "journaling") ELSE Quit(e)
  /\ UNCHANGED << userIni, history, snapshots, pack, edits, ghosts >>

Replace(e) ==
  /\ editor[e].stage = "replacing"
  /\ userIni' = editor[e].next
  /\ held' = held \union {userIni'}
  /\ alone' = {}
  /\ Goto(e, "pruning")
  /\ UNCHANGED << origins, history, snapshots, pack, edits, authored >>

\* A failed removal is only a warning.
Prune(e) ==
  /\ editor[e].stage = "pruning"
  /\ \E kept \in {Len(snapshots)} \union
                 {IF Len(snapshots) > Retention THEN Retention ELSE Len(snapshots)} :
       snapshots' = SubSeq(snapshots, 1, kept)
  /\ IF Journals(editor[e]) THEN Goto(e, "journaling") ELSE Quit(e)
  /\ UNCHANGED << userIni, origins, history, pack, edits, ghosts >>

\* A history too large for its file loses its oldest commands, or, when none
\* is done, its newest: n of them.
Shrunk(commands, cursor, n) ==
  IF n <= cursor
    THEN [commands |-> SubSeq(commands, n + 1, Len(commands)), cursor |-> cursor - n]
    ELSE [commands |-> SubSeq(commands, cursor + 1, Len(commands) - (n - cursor)),
          cursor   |-> 0]

WriteHistory(e) ==
  LET session == editor[e] IN
  /\ session.stage = "journaling"
  /\ \E n \in 0..Len(session.commands) :
       LET kept == Shrunk(session.commands, session.cursor, n) IN
       history' = [digest   |-> session.next,
                   commands |-> kept.commands,
                   cursor   |-> kept.cursor]
  /\ Quit(e)
  /\ UNCHANGED << userIni, origins, snapshots, pack, edits, ghosts >>

\* A refusal before anything is written, a failed write, or the end of the
\* process: what has been written stays.
Stop(e) ==
  /\ editor[e].stage # "idle"
  /\ Quit(e)
  /\ UNCHANGED << files, edits, ghosts >>

-----------------------------------------------------------------------------
\* The delta pack of sharing.py: only authored values, reviewed, then checked
\* again before they are written.

AuthoredPart(content) ==
  [k \in {k \in DOMAIN KindsOf(content) : KindsOf(content)[k] = "authored"} |->
     content[k]]

PlanPack(e) ==
  LET values == Text(userIni) IN
  /\ editor[e].stage = "idle"
  /\ edits < MaxEdits
  /\ DOMAIN AuthoredPart(values) # {}
  /\ edits' = edits + 1
  /\ Become(e, [stage |-> "packing", values |-> values, kinds |-> KindsOf(values)])
  /\ UNCHANGED << files, ghosts >>

\* The digests of the values and of their authorship are those reviewed.
StillReviewed(session) ==
  /\ Text(userIni) = session.values
  /\ KindsOf(session.values) = session.kinds

WritePack(e) ==
  LET session == editor[e] IN
  /\ session.stage = "packing"
  /\ StillReviewed(session)
  /\ pack' = AuthoredPart(session.values)
  /\ Quit(e)
  /\ UNCHANGED << userIni, origins, history, snapshots, edits, ghosts >>

-----------------------------------------------------------------------------
\* Another program writes user.ini.
OutsideWrite ==
  /\ edits < MaxEdits
  /\ edits' = edits + 1
  /\ alone' = {}
  /\ userIni' \in Contents \ {userIni}
  /\ held' = held \union {userIni'}
  /\ UNCHANGED << origins, history, snapshots, pack, editor, authored >>

Step(e) ==
  \/ Open(e) \/ Recall(e) \/ Edit(e) \/ Import(e) \/ Undo(e) \/ Redo(e) \/ Normalize(e)
  \/ Compare(e) \/ ReadCurrent(e) \/ Snapshot(e) \/ StageOrigins(e)
  \/ Replace(e) \/ Prune(e) \/ WriteHistory(e) \/ Stop(e)
  \/ PlanPack(e) \/ WritePack(e)

Next == (\E e \in Editors : Step(e)) \/ OutsideWrite

Spec == Init /\ [][Next]_vars

-----------------------------------------------------------------------------
\* Properties.

Files == Contents \union {Missing}

\* Type invariant.  Beyond the types: a recorded cursor lies within its
\* commands, and authorship is recorded for exactly the keys that have a text.
TypeOK ==
  /\ userIni \in Files
  /\ origins # Missing =>
       /\ origins.digest \in Contents
       /\ origins.kinds \in [{k \in Keys : origins.digest[k] # NoText} -> Kinds]
  /\ history # Missing =>
       /\ history.digest \in Contents
       /\ Len(history.commands) <= MaxHistory
       /\ history.cursor \in 0..Len(history.commands)
  /\ \A i \in DOMAIN snapshots : snapshots[i] \in Contents
  /\ edits \in 0..MaxEdits
  /\ alone \subseteq Editors

\* user_edits.py says a stale or damaged journal "can never replay over newer
\* user data".  Whatever was interrupted, raced or written by another program:
\* an undo offered for the user.ini on disk, and every earlier undo and later
\* redo behind it, leads to a content user.ini really held.
UndoReturnsToThePast ==
  HistoryFits(Text(userIni)) =>
    LET done == SubSeq(history.commands, 1, history.cursor)
        base == Unwind(done, Text(userIni))
    IN  \A n \in 0..Len(history.commands) :
          Replay(SubSeq(history.commands, 1, n), base) \in held

\* Authorship decides what may leave the machine in a delta pack: a text is
\* called authored only if somebody set that key to that text by hand, and a
\* written pack holds nothing else.
AuthoredMeansAuthored ==
  /\ LET kinds == KindsOf(Text(userIni)) IN
     \A k \in DOMAIN kinds :
       kinds[k] = "authored" => <<k, Text(userIni)[k]>> \in authored
  /\ pack # Missing =>
       \A k \in DOMAIN pack : <<k, pack[k]>> \in authored

\* As long as nobody else writes user.ini while a save is under way, the save
\* never destroys a text: what it replaces is in a snapshot, whatever other
\* saves have read, copied and pruned meanwhile.
SnapshotBeforeReplace ==
  [][\A e \in Editors :
       /\ editor[e].stage = "replacing"
       /\ editor'[e].stage = "pruning"
       /\ e \in alone
       /\ userIni # Missing
       /\ Retention > 0
       => userIni \in ToSet(snapshots)]_vars
=============================================================================
