--------------------------- MODULE SettingsRestore ---------------------------
(***************************************************************************)
(* Restoring exported settings (src/starcompanion/portability.py): several *)
(* files are replaced under one lock, with a copy of each in a recovery    *)
(* tree and a journal beside it, so that a restore that stops anywhere can *)
(* be undone.  Saves of the same files by other tabs and windows take no   *)
(* part in the lock.                                                       *)
(*                                                                         *)
(* The archive is one that passed plan_settings_import and holds a new     *)
(* content for every target; a step reads or writes one file.  Deleting    *)
(* the recovery tree is one step: what is left of it when it fails is      *)
(* deleted by whoever comes next.                                          *)
(***************************************************************************)
EXTENDS Naturals

CONSTANTS Sessions,
          LastTarget,  \* targets are 1..LastTarget, in the order of their paths
          Old, Own,    \* what was there, what the player saves meanwhile
          New,         \* what the archive holds
          Missing, NoJournal, NoSession

VARIABLES files,     \* target -> content
          recovery,  \* target -> its copy in .settings-restore-recovery
          journal,   \* .settings-restore-journal.json
          guard,     \* holder of .settings-restore.lock
          at,        \* where each session is
          expected,  \* session -> what its plan saw of each target
          todo,      \* session -> targets its loop has not reached
          had        \* session -> targets that existed when backed up

vars == << files, recovery, journal, guard, at, expected, todo, had >>

Targets == 1 .. LastTarget

RestoreAssumption ==
  /\ LastTarget \in Nat
  /\ New \notin {Old, Own, Missing} /\ Missing \notin {Old, Own} /\ Old # Own
  /\ NoSession \notin Sessions
  /\ NoJournal \notin [stage : {"applying", "complete"},
                      items : SUBSET Targets, had : SUBSET Targets]

NoFiles == [t \in Targets |-> Missing]

Changed(s) == {t \in Targets : expected[s][t] # New}
Journal(stage, items, existed) == [stage |-> stage, items |-> items, had |-> existed]

First(s, t) == t \in todo[s] /\ \A u \in todo[s] : t <= u
Last(s, t)  == t \in todo[s] /\ \A u \in todo[s] : t >= u

Go(s, place) == at' = [at EXCEPT ![s] = place]
Done(s, t)   == todo' = [todo EXCEPT ![s] = @ \ {t}]

\* The operation is over; what its loops remember goes out of scope.
Leave(s) ==
  /\ Go(s, "idle")
  /\ guard' = NoSession
  /\ todo' = [todo EXCEPT ![s] = {}]
  /\ had' = [had EXCEPT ![s] = {}]

Init ==
  /\ files \in [Targets -> {Old, Missing}]
  /\ recovery = NoFiles
  /\ journal = NoJournal
  /\ guard = NoSession
  /\ at = [s \in Sessions |-> "idle"]
  /\ expected = [s \in Sessions |-> NoFiles]
  /\ todo = [s \in Sessions |-> {}]
  /\ had = [s \in Sessions |-> {}]

\* UserEditStore.save, LanguagePackStore.save or PreferencesStore.save.
SaveOutside ==
  /\ \E t \in Targets : files' = [files EXCEPT ![t] = Own]
  /\ UNCHANGED << recovery, journal, guard, at, expected, todo, had >>

PlanRestore(s) ==
  /\ at[s] = "idle"
  /\ expected' = [expected EXCEPT ![s] = files]
  /\ UNCHANGED << files, recovery, journal, guard, at, todo, had >>

-----------------------------------------------------------------------------
(* apply_settings_import, replacement authorized                           *)

\* Mutant of Enter: the lock is not waited for.
EnterAnyway(s, place) ==
  /\ at[s] = "idle"
  /\ guard' = s
  /\ Go(s, place)
  /\ UNCHANGED << files, recovery, journal, expected, todo, had >>

Enter(s, place) ==
  /\ at[s] = "idle"
  /\ guard = NoSession
  /\ guard' = s
  /\ Go(s, place)
  /\ UNCHANGED << files, recovery, journal, expected, todo, had >>

BeginRestore(s) == Enter(s, "entered")

\* Mutant of MayStart: an interrupted restore is simply tried again.
MayAlwaysStart == TRUE

MayStart == journal = NoJournal

DropLeftovers(s) ==
  /\ at[s] = "entered"
  /\ IF MayStart
     THEN Go(s, "checking") /\ recovery' = NoFiles /\ UNCHANGED << guard, todo, had >>
     ELSE Leave(s) /\ UNCHANGED recovery
  /\ UNCHANGED << files, journal, expected >>

CheckTargets(s) ==
  /\ at[s] = "checking"
  /\ IF files = expected[s]
     THEN /\ Go(s, "backing")
          /\ todo' = [todo EXCEPT ![s] = Changed(s)]
          /\ UNCHANGED << guard, had >>
     ELSE Leave(s)
  /\ UNCHANGED << files, recovery, journal, expected >>

\* The target is read again here, and not compared.
BackUp(s) ==
  /\ at[s] = "backing"
  /\ \E t \in todo[s] :
       /\ First(s, t)
       /\ recovery' = [recovery EXCEPT ![t] = files[t]]
       /\ had' = [had EXCEPT ![s] = IF files[t] = Missing THEN @ ELSE @ \union {t}]
       /\ Done(s, t)
  /\ UNCHANGED << files, journal, guard, at, expected >>

\* Mutant of WriteJournal: targets that did not exist are not listed.
WriteJournalOfExisting(s) ==
  /\ at[s] = "backing"
  /\ todo[s] = {}
  /\ journal' = Journal("applying", had[s], had[s])
  /\ todo' = [todo EXCEPT ![s] = Changed(s)]
  /\ Go(s, "replacing")
  /\ UNCHANGED << files, recovery, guard, expected, had >>

WriteJournal(s) ==
  /\ at[s] = "backing"
  /\ todo[s] = {}
  /\ journal' = Journal("applying", Changed(s), had[s])
  /\ todo' = [todo EXCEPT ![s] = Changed(s)]
  /\ Go(s, "replacing")
  /\ UNCHANGED << files, recovery, guard, expected, had >>

Replace(s) ==
  /\ at[s] = "replacing"
  /\ \E t \in todo[s] :
       /\ First(s, t)
       /\ files' = [files EXCEPT ![t] = New]
       /\ Done(s, t)
  /\ UNCHANGED << recovery, journal, guard, at, expected, had >>

Complete(s) ==
  /\ at[s] = "replacing"
  /\ todo[s] = {}
  /\ journal' = Journal("complete", Changed(s), had[s])
  /\ Go(s, "cleaning")
  /\ UNCHANGED << files, recovery, guard, expected, todo, had >>

CleanTree(s) ==
  /\ at[s] = "cleaning"
  /\ recovery' = NoFiles
  /\ Go(s, "cleaned")
  /\ UNCHANGED << files, journal, guard, expected, todo, had >>

RemoveJournal(s) ==
  /\ at[s] = "cleaned"
  /\ journal' = NoJournal
  /\ Leave(s)
  /\ UNCHANGED << files, recovery, expected >>

-----------------------------------------------------------------------------
(* Undoing: the handler of a failed restore, or recover_settings_restore.  *)

BeginRecovery(s) == Enter(s, "recovering")

ReadJournal(s) ==
  /\ at[s] = "recovering"
  /\ IF journal = NoJournal
     THEN Leave(s)
     ELSE /\ Go(s, IF journal.stage = "applying" THEN "undoing" ELSE "cleaning")
          /\ todo' = [todo EXCEPT ![s] = journal.items]
          /\ had' = [had EXCEPT ![s] = journal.had]
          /\ UNCHANGED guard
  /\ UNCHANGED << files, recovery, journal, expected >>

Undo(s) ==
  /\ at[s] = "undoing"
  /\ \E t \in todo[s] :
       /\ Last(s, t)
       /\ IF t \in had[s] /\ recovery[t] = Missing
          THEN Leave(s) /\ UNCHANGED files
          ELSE /\ files' = [files EXCEPT ![t] = IF t \in had[s] THEN recovery[t] ELSE Missing]
               /\ Done(s, t)
               /\ UNCHANGED << guard, at, had >>
  /\ UNCHANGED << recovery, journal, expected >>

Undone(s) ==
  /\ at[s] = "undoing"
  /\ todo[s] = {}
  /\ journal' = Journal("complete", journal.items, journal.had)
  /\ Go(s, "cleaning")
  /\ UNCHANGED << files, recovery, guard, expected, todo, had >>

\* A file operation raises.  Only the body of the restore has a handler.
Fail(s) ==
  /\ at[s] \notin {"idle", "entered", "checking"}
  /\ IF at[s] \in {"backing", "replacing"} /\ ~(at[s] = "replacing" /\ todo[s] = {})
     THEN IF journal # NoJournal
          THEN Go(s, "recovering") /\ UNCHANGED << recovery, guard, todo, had >>
          ELSE recovery' = NoFiles /\ Leave(s)
     ELSE Leave(s) /\ UNCHANGED recovery
  /\ UNCHANGED << files, journal, expected >>

\* The process dies; its lock is reaped.
Crash(s) ==
  /\ at[s] # "idle"
  /\ Leave(s)
  /\ expected' = [expected EXCEPT ![s] = NoFiles]
  /\ UNCHANGED << files, recovery, journal >>

Next ==
  \/ SaveOutside
  \/ \E s \in Sessions :
       \/ PlanRestore(s) \/ BeginRestore(s) \/ DropLeftovers(s) \/ CheckTargets(s)
       \/ BackUp(s) \/ WriteJournal(s) \/ Replace(s) \/ Complete(s)
       \/ CleanTree(s) \/ RemoveJournal(s)
       \/ BeginRecovery(s) \/ ReadJournal(s) \/ Undo(s) \/ Undone(s)
       \/ Fail(s) \/ Crash(s)

Spec == Init /\ [][Next]_vars

-----------------------------------------------------------------------------

Contents == {Old, Own, New, Missing}

\* Every variable has its type and only the holder of the lock is at work.
TypeOK ==
  /\ files \in [Targets -> Contents]
  /\ recovery \in [Targets -> Contents]
  /\ journal = NoJournal \/
     /\ journal.stage \in {"applying", "complete"}
     /\ journal.had \subseteq journal.items /\ journal.items \subseteq Targets
  /\ \A s \in Sessions :
       /\ todo[s] \subseteq Targets /\ had[s] \subseteq Targets
       /\ at[s] # "idle" <=> guard = s

\* As long as the journal says that a restore may have to be undone, what
\* it replaced is in the recovery tree: an original, or a save the restore
\* found, and never a content of the archive, whatever restore, failure or
\* recovery came in between.
OriginalsAreKept ==
  journal # NoJournal /\ journal.stage = "applying"
    => \A t \in journal.had : recovery[t] \in {Old, Own}

\* When nothing is left to recover, the archive's files and the ones they
\* were to replace are not mixed: the restore happened or it did not.
AllOrNothing ==
  guard = NoSession /\ (journal = NoJournal \/ journal.stage = "complete")
    => ~\E t, u \in Targets : files[t] = New /\ files[u] \in {Old, Missing}

\* An interrupted restore can be undone, and nothing else is left of it.
RestoreIsUndoable == OriginalsAreKept /\ AllOrNothing
=============================================================================
