----------------------------- MODULE EditorTab -----------------------------
(***************************************************************************)
(* The String editor (gui/tabs/editor.py, gui/string_editor.py), its       *)
(* background jobs, its timers, the user-edit layer it publishes to the    *)
(* rest of the window (gui/state.py) and the closing of the window         *)
(* (gui/app.py).  Everything but the work of a job happens on the GUI      *)
(* thread, one handler at a time, in any order the user and the timers     *)
(* choose.                                                                 *)
(*                                                                         *)
(* A text stands for the values of one whole user.ini.  How a save writes  *)
(* the files is module UserEdits; here a job reads, or compares and        *)
(* writes, in one step.                                                    *)
(***************************************************************************)
EXTENDS Naturals, Sequences, TLC

CONSTANTS Scopes,     \* channel and language
          NoScope,    \* no target file is chosen
          Texts,
          NoOverride, \* the text of an empty user.ini
          Nothing,    \* no job, nothing typed, no promise
          MaxUndo,    \* MAX_HISTORY, also a bound
          MaxOutside  \* bound: saves by other windows and commands

VARIABLES chosen,     \* the scope of the window's target
          attached,   \* _scope_key
          overlay,    \* user_override_scope and user_overrides_ready
          doc,        \* the document: baseline, the texts of its commands
          typed,      \* text the debounce has not applied yet, or Nothing
          scopeDue,   \* scope_timer is running
          task,       \* the job in _jobs, or Nothing
          store,      \* the saved text of every scope
          window,     \* "open", "saving" (will close after a save), "closed"
          outsideSaves,
          promise     \* ghost: what the user asked to save on closing

tabVars == << chosen, attached, overlay, doc, typed, scopeDue, task >>
editorVars == << tabVars, store, window, outsideSaves, promise >>

AllTexts == Texts \union {NoOverride}

EditorAssumption == MaxUndo \in Nat

\* The texts before, at and after the cursor of the command list.
Document(text) == [baseline |-> text, line |-> << text >>, at |-> 1]

Value(d) == d.line[d.at]
Dirty    == Value(doc) # doc.baseline

Init ==
  /\ chosen = NoScope
  /\ attached = NoScope
  /\ overlay = [scope |-> NoScope, ready |-> TRUE]
  /\ doc = Document(NoOverride)
  /\ typed = Nothing
  /\ scopeDue = FALSE
  /\ task = Nothing
  /\ store = [s \in Scopes |-> NoOverride]
  /\ window = "open"
  /\ outsideSaves = 0
  /\ promise = Nothing

Open    == window # "closed"
Modal   == task # Nothing /\ task.stage = "review"
Free    == Open /\ ~Modal   \* the user can reach the tab

-----------------------------------------------------------------------------
\* Scope changes.

\* begin_user_override_scope.
Begun(scope) == [scope |-> scope, ready |-> scope = NoScope]

\* _scope_changed; the document's dirtiness is that of the next state.
ScopeChanged(scope, dirty) ==
  IF scope = attached
    THEN UNCHANGED << overlay, attached, scopeDue >>
    ELSE /\ overlay' = Begun(scope)
         /\ attached' = IF dirty THEN attached ELSE scope
         /\ scopeDue' = (scopeDue \/ (~dirty /\ scope # NoScope))

Choose(scope) ==
  /\ Free
  /\ chosen' = scope
  /\ ScopeChanged(scope, Dirty)
  /\ UNCHANGED << doc, typed, task, store, window, outsideSaves, promise >>

\* A job: what it works on, the text a save was made from (baseline) and
\* writes (text), what it answers (result); shown and discards are ghosts: what
\* the document held when the job began, and may the job's answer replace it.
Job(kind, scope) ==
  [kind |-> kind, stage |-> "running", scope |-> scope, baseline |-> NoOverride,
   text |-> NoOverride, result |-> NoOverride, shown |-> Value(doc),
   discards |-> FALSE]

Load(scope, discards) == [Job("load", scope) EXCEPT !.discards = discards]

\* Mutant: a load starts over unsaved edits without asking.
LoadsOverEdits == chosen # NoScope /\ task = Nothing

\* load_user_edits when nobody asked for it: not over unsaved edits.
MayLoad == chosen # NoScope /\ task = Nothing /\ ~Dirty

ScopeTimerFires ==
  /\ Open
  /\ scopeDue
  /\ scopeDue' = FALSE
  /\ task' = IF MayLoad THEN Load(chosen, FALSE) ELSE task
  /\ UNCHANGED << chosen, attached, overlay, doc, typed, store, window,
                  outsideSaves, promise >>

\* The Reload button; with unsaved edits the user has agreed to lose them.
Reload ==
  /\ Free
  /\ chosen # NoScope
  /\ task = Nothing
  /\ task' = Load(chosen, Dirty)
  /\ UNCHANGED << chosen, attached, overlay, doc, typed, scopeDue, store, window,
                  outsideSaves, promise >>

-----------------------------------------------------------------------------
\* Editing in memory.

Type(text) ==
  /\ Free
  /\ typed' = text
  /\ UNCHANGED << chosen, attached, overlay, doc, scopeDue, task, store, window,
                  outsideSaves, promise >>

\* Selecting another row, or rebuilding the table, stops the debounce.
SelectAnother ==
  /\ Free
  /\ typed # Nothing
  /\ typed' = Nothing
  /\ UNCHANGED << chosen, attached, overlay, doc, scopeDue, task, store, window,
                  outsideSaves, promise >>

\* Mutant: the command list is never cut.
EditedWithoutLimit(d, text) ==
  IF text = Value(d) THEN d
  ELSE LET line == Append(SubSeq(d.line, 1, d.at), text)
       IN  [d EXCEPT !.line = line, !.at = Len(line)]

\* A command cuts off the redo branch; too many of them lose the oldest.
Edited(d, text) ==
  IF text = Value(d) THEN d
  ELSE LET line == Append(SubSeq(d.line, 1, d.at), text)
           kept == IF Len(line) > MaxUndo + 1 THEN Tail(line) ELSE line
       IN  [d EXCEPT !.line = kept, !.at = Len(kept)]

Flushed == IF typed = Nothing THEN doc ELSE Edited(doc, typed)

EditTimerFires ==
  /\ Open
  /\ typed # Nothing
  /\ doc' = Flushed
  /\ typed' = Nothing
  /\ UNCHANGED << chosen, attached, overlay, scopeDue, task, store, window,
                  outsideSaves, promise >>

\* Reset to source, ship favorites and ASOP order: one command each.
EditCommand(text) ==
  /\ Free
  /\ doc' = Edited(doc, text)
  /\ typed' = Nothing
  /\ UNCHANGED << chosen, attached, overlay, scopeDue, task, store, window,
                  outsideSaves, promise >>

\* An undo that leaves nothing unsaved follows a scope change made meanwhile.
UndoEdit ==
  /\ Free
  /\ doc.at > 1
  /\ doc' = [doc EXCEPT !.at = doc.at - 1]
  /\ typed' = Nothing
  /\ IF Value(doc') = doc.baseline
       THEN ScopeChanged(chosen, FALSE)
       ELSE UNCHANGED << overlay, attached, scopeDue >>
  /\ UNCHANGED << chosen, task, store, window, outsideSaves, promise >>

RedoEdit ==
  /\ Free
  /\ doc.at < Len(doc.line)
  /\ doc' = [doc EXCEPT !.at = doc.at + 1]
  /\ typed' = Nothing
  /\ UNCHANGED << chosen, attached, overlay, scopeDue, task, store, window,
                  outsideSaves, promise >>

-----------------------------------------------------------------------------
\* Background jobs: one at a time.

SaveOf(d) ==
  [Job("save", chosen) EXCEPT !.baseline = d.baseline, !.text = Value(d),
                              !.shown = Value(d)]

CanSave(d) == chosen # NoScope /\ Value(d) # d.baseline /\ task = Nothing

\* save_user_edits: the pending keystroke is folded in first.  Invalid merged
\* values, or no contracts to merge with, refuse the save.
SaveUserEdits ==
  /\ doc' = Flushed
  /\ typed' = Nothing
  /\ task' \in {task} \union IF CanSave(doc') THEN {SaveOf(doc')} ELSE {}

\* The Save button works only while the document belongs to the scope.
SaveButton ==
  /\ Free
  /\ chosen = attached
  /\ CanSave(doc)
  /\ SaveUserEdits
  /\ UNCHANGED << chosen, attached, overlay, scopeDue, store, window,
                  outsideSaves, promise >>

\* Imports (a file, or a delta pack) and the export of a delta pack.
StartTransfer(kind) ==
  /\ Free
  /\ chosen # NoScope
  /\ chosen = attached
  /\ ~Dirty
  /\ task = Nothing
  /\ task' = Job(kind, chosen)
  /\ UNCHANGED << chosen, attached, overlay, doc, typed, scopeDue, store, window,
                  outsideSaves, promise >>

StartImport == StartTransfer("preview")
StartExport == StartTransfer("export")

\* The worker's part of a job.  A save runs only over the text its author saw.
WorkerRuns ==
  /\ task # Nothing
  /\ task.stage = "running"
  /\ IF task.kind # "save"
       THEN /\ task' = [task EXCEPT !.stage = "ended", !.result = store[task.scope]]
            /\ UNCHANGED << store, promise >>
     ELSE IF store[task.scope] # task.baseline
       THEN /\ task' = [task EXCEPT !.stage = "failed"]
            /\ UNCHANGED << store, promise >>
     ELSE /\ store' = [store EXCEPT ![task.scope] = task.text]
          /\ task' = [task EXCEPT !.stage = "ended", !.result = task.text]
          /\ promise' = IF promise # Nothing /\ promise.scope = task.scope
                                             /\ promise.text = task.text
                          THEN [promise EXCEPT !.kept = TRUE] ELSE promise
  /\ UNCHANGED << chosen, attached, overlay, doc, typed, scopeDue, window, outsideSaves >>

\* Disk trouble, or the token of a closing window.  A save may have written
\* user.ini by then.
WorkerFails ==
  /\ task # Nothing
  /\ task.stage = "running"
  /\ task' = [task EXCEPT !.stage = "failed"]
  /\ \/ UNCHANGED store
     \/ /\ task.kind = "save"
        /\ store[task.scope] = task.baseline
        /\ store' = [store EXCEPT ![task.scope] = task.text]
  /\ UNCHANGED << chosen, attached, overlay, doc, typed, scopeDue, window,
                  outsideSaves, promise >>

\* Mutant: the layer takes the values of whatever scope they are of.
AwaitsAnything(scope) == TRUE

\* set_user_overrides: only the layer that was begun for the scope.
Awaits(scope) == overlay.scope = scope

\* _loaded: dropped unless its scope is still the chosen one.
Loaded(result) ==
  IF task.scope # chosen
    THEN UNCHANGED << attached, overlay, doc, typed >>
    ELSE /\ attached' = task.scope
         /\ doc' = Document(result)
         /\ typed' = Nothing
         /\ overlay' = [overlay EXCEPT !.ready = @ \/ Awaits(task.scope)]

Delivering(kinds) ==
  /\ Open
  /\ task # Nothing
  /\ task.stage = "ended"
  /\ task.kind \in kinds

DeliverLoad ==
  /\ Delivering({"load", "save"})
  /\ Loaded(task.result)
  /\ task' = Nothing
  /\ UNCHANGED << chosen, scopeDue, store, window, outsideSaves, promise >>

DropTask ==
  /\ task' = Nothing
  /\ UNCHANGED << chosen, attached, overlay, doc, typed, scopeDue, store, window,
                  outsideSaves, promise >>

DeliverFailure ==
  /\ Open
  /\ task # Nothing
  /\ task.stage = "failed"
  /\ DropTask

DeliverExport == Delivering({"export"}) /\ DropTask

\* An import is reviewed only against the text it was planned for.
StillPlanned == task.scope = chosen /\ ~Dirty /\ doc.baseline = task.result

DeliverPreview ==
  /\ Delivering({"preview"})
  /\ IF StillPlanned
       THEN /\ task' = [task EXCEPT !.stage = "review", !.baseline = task.result,
                                  !.shown = Value(doc)]
            /\ UNCHANGED << chosen, attached, overlay, doc, typed, scopeDue, store,
                            window, outsideSaves, promise >>
       ELSE DropTask

CancelReview == Open /\ Modal /\ DropTask

AcceptReview(text) ==
  /\ Open
  /\ Modal
  /\ text # task.baseline
  /\ task' = [task EXCEPT !.kind = "save", !.stage = "running", !.text = text]
  /\ UNCHANGED << chosen, attached, overlay, doc, typed, scopeDue, store, window,
                  outsideSaves, promise >>

-----------------------------------------------------------------------------
\* Closing the window.

\* The timers are stopped and the tab goes with its window.  Jobs are
\* cancelled; a worker that is still running goes on.
Closed ==
  /\ window' = "closed"
  /\ chosen' = NoScope
  /\ attached' = NoScope
  /\ overlay' = Begun(NoScope)
  /\ doc' = Document(NoOverride)
  /\ typed' = Nothing
  /\ scopeDue' = FALSE
  /\ task' = IF task # Nothing /\ task.stage = "running" THEN task ELSE Nothing

\* Nothing unsaved, or the user discards it.
Close ==
  /\ Free
  /\ Closed
  /\ promise' = Nothing
  /\ UNCHANGED << store, outsideSaves >>

\* The user answers Save.  Without a job afterwards the window stays open.
\* Edits made without a target belong to the first one chosen; edits the user
\* has agreed to discard are not promised.
CloseSave ==
  /\ Free
  /\ Dirty
  /\ SaveUserEdits
  /\ IF task' = Nothing
       THEN UNCHANGED << window, promise >>
       ELSE /\ window' = "saving"
            /\ promise' = IF task'.discards THEN Nothing
                 ELSE [scope |-> IF attached = NoScope THEN chosen ELSE attached,
                       text  |-> Value(doc'), kept |-> FALSE]
  /\ UNCHANGED << chosen, attached, overlay, scopeDue, store, outsideSaves >>

CloseWaits == task # Nothing

\* _finish_close_after_save, polled every 50 ms.
FinishClose ==
  /\ window = "saving"
  /\ ~CloseWaits
  /\ IF Dirty
       THEN /\ window' = "open"
            /\ promise' = Nothing
            /\ UNCHANGED tabVars
       ELSE Closed /\ UNCHANGED promise
  /\ UNCHANGED << store, outsideSaves >>

OutsideSave(scope) ==
  /\ outsideSaves < MaxOutside
  /\ outsideSaves' = outsideSaves + 1
  /\ \E text \in AllTexts \ {store[scope]} :
       store' = [store EXCEPT ![scope] = text]
  /\ UNCHANGED << tabVars, window, promise >>

-----------------------------------------------------------------------------
User ==
  \/ \E s \in Scopes \union {NoScope} : Choose(s)
  \/ Reload \/ SelectAnother \/ UndoEdit \/ RedoEdit
  \/ \E t \in AllTexts : Type(t) \/ EditCommand(t) \/ AcceptReview(t)
  \/ SaveButton \/ StartImport \/ StartExport \/ CancelReview
  \/ Close \/ CloseSave

Delivery == DeliverLoad \/ DeliverFailure \/ DeliverExport \/ DeliverPreview

Next ==
  \/ User
  \/ ScopeTimerFires \/ EditTimerFires \/ FinishClose
  \/ WorkerRuns \/ WorkerFails \/ Delivery
  \/ \E s \in Scopes : OutsideSave(s)

Spec == Init /\ [][Next]_editorVars

-----------------------------------------------------------------------------
\* Properties.

TypeOK ==
  /\ chosen \in Scopes \union {NoScope}
  /\ attached \in Scopes \union {NoScope}
  /\ overlay \in [scope : Scopes \union {NoScope}, ready : BOOLEAN]
  /\ doc.at \in 1..Len(doc.line) /\ Len(doc.line) <= MaxUndo + 1
  /\ typed \in AllTexts \union {Nothing}
  /\ store \in [Scopes -> AllTexts]
  /\ window \in {"open", "saving", "closed"}

\* "Save flushes pending debounced text before starting the existing C3
\* background persistence operation; a failed save leaves the window open":
\* a window that closed after the answer Save has saved what it showed then,
\* in the scope the edits were made in if they were made in one.
SaveOnCloseSaves ==
  window = "closed" /\ promise # Nothing =>
    promise.kept \/ store[promise.scope] = promise.text

\* An update waits for the layer of the channel, which "prevents edits from
\* another channel being omitted or mixed": whatever was chosen and loaded in
\* what order, the layer that is ready is never another channel's.
NoOtherChannelsLayer == overlay.ready => overlay.scope \in {NoScope, chosen}

\* A delivered load or save takes nothing from the user but what was edited
\* after the job had started (an import: after its review had opened, when a
\* text typed just before may still be applied): the document it replaces is a
\* later one, or was saved, or the user agreed to lose it.
DeliveryLosesOnlyLaterEdits ==
  [][ Delivering({"load", "save"}) /\ DeliverLoad /\ doc' # doc
        => \/ task.discards
           \/ Value(doc) # task.shown
           \/ Value(doc) \in {doc.baseline, task.result}
     ]_editorVars
=============================================================================
