--------------------------- MODULE OwnershipStore ---------------------------
(***************************************************************************)
(* One ownership store of src/starcompanion/ownership.py (OwnershipStore): *)
(* ownership.json, its last-known-good copy ownership.json.bak, the store  *)
(* lock, and the sessions (GUI windows of gui/tabs/blueprints.py and       *)
(* "blueprints ..." commands of __main__.py) that load it, let the user    *)
(* review an edit and save it, or recover the copy after damage.           *)
(*                                                                         *)
(* Every file operation of a save or a recovery is an action of its own,   *)
(* so that other sessions, crashes, write errors and outside damage fall   *)
(* between any two of them.  The store lock is the mutex that module       *)
(* StoreLock implements; a crash gives it back, as the reaper does.        *)
(*                                                                         *)
(* An ownership state is abstracted to the set of edits it incorporates    *)
(* (a decision that removes a record is an edit too) and its revision.     *)
(***************************************************************************)
EXTENDS Naturals, FiniteSets

CONSTANTS Sessions, Edits,
          MaxRevision,        \* bound: no save or recovery goes past it
          NoSession

ASSUME StoreAssumption ==
  /\ MaxRevision \in Nat
  /\ NoSession \notin Sessions

VARIABLES primary,    \* ownership.json
          backup,     \* ownership.json.bak
          lock,       \* the session inside _store_lock, or NoSession
          phase,      \* where each session is in the code
          view,       \* the state each session last showed its user
          base,       \* the state (with its revision) a session will save over
          candidate   \* the data a session will save

vars == << primary, backup, lock, phase, view, base, candidate >>

-----------------------------------------------------------------------------
\* States and files.  A damaged file keeps, as history only, the revision and
\* the data it held: no action of the program looks at them.

States == [revision : Nat, data : SUBSET Edits]
Files  == [kind : {"missing", "valid", "damaged"},
           revision : Nat, data : SUBSET Edits]

EmptyState  == [revision |-> 0, data |-> {}]
MissingFile == [kind |-> "missing", revision |-> 0, data |-> {}]

ValidFile(revision, data) ==
  [kind |-> "valid", revision |-> revision, data |-> data]

\* A missing store loads as a fresh state with revision 0.
Loadable(file) == file.kind # "damaged"
StateOf(file)  == [revision |-> file.revision, data |-> file.data]

Phases == {"idle", "reviewing", "saving", "checking", "backing", "replacing",
           "offered", "requested", "loading", "restoring"}
LockedPhases == {"checking", "backing", "replacing", "loading", "restoring"}

Goto(s, p) == phase' = [phase EXCEPT ![s] = p]

\* Mutant: the release of the lock is forgotten.
LeaveLockHeld(s, p) == Goto(s, p) /\ lock' = lock

\* Leaving the "with _store_lock" block, by its end or by an exception.
LeaveLock(s, p) == Goto(s, p) /\ lock' = NoSession

Init ==
  /\ primary = MissingFile
  /\ backup = MissingFile
  /\ lock = NoSession
  /\ phase = [s \in Sessions |-> "idle"]
  /\ view = [s \in Sessions |-> EmptyState]
  /\ base = [s \in Sessions |-> EmptyState]
  /\ candidate = [s \in Sessions |-> {}]

-----------------------------------------------------------------------------
\* Loading and reviewing.

\* load_details: the state the user is shown.
Review(s) ==
  /\ phase[s] \in {"idle", "reviewing"}
  /\ Loadable(primary)
  /\ view' = [view EXCEPT ![s] = StateOf(primary)]
  /\ Goto(s, "reviewing")
  /\ UNCHANGED << primary, backup, lock, base, candidate >>

\* The damaged primary is refused; a valid copy makes the GUI offer recovery.
OfferRecovery(s) ==
  /\ phase[s] \in {"idle", "reviewing"}
  /\ ~Loadable(primary)
  /\ backup.kind = "valid"
  /\ Goto(s, "offered")
  /\ UNCHANGED << primary, backup, lock, view, base, candidate >>

\* "blueprints recover" only looks at the copy.
RequestRecovery(s) ==
  /\ phase[s] = "idle"
  /\ backup.kind = "valid"
  /\ Goto(s, "requested")
  /\ UNCHANGED << primary, backup, lock, view, base, candidate >>

Dismiss(s) ==
  /\ phase[s] \in {"reviewing", "offered", "requested"}
  /\ Goto(s, "idle")
  /\ UNCHANGED << primary, backup, lock, view, base, candidate >>

\* The confirmed edit e is applied to the state "from" that will be saved.
Prepare(s, from, e) ==
  /\ phase[s] = "reviewing"
  /\ base' = [base EXCEPT ![s] = from]
  /\ candidate' = [candidate EXCEPT ![s] = from.data \union {e}]
  /\ Goto(s, "saving")
  /\ UNCHANGED << primary, backup, lock, view >>

\* A command edits the state it loaded for the preview.
PrepareFromReview(s, e) ==
  /\ e \in Edits \ view[s].data
  /\ Prepare(s, view[s], e)

\* A GUI job loads the store again and refuses a plan of another revision.
PrepareFromReload(s, e) ==
  /\ Loadable(primary)
  /\ primary.revision = view[s].revision
  /\ e \in Edits \ primary.data
  /\ Prepare(s, StateOf(primary), e)

-----------------------------------------------------------------------------
\* The store lock.

AcquireLock(s) ==
  /\ lock = NoSession
  /\ lock' = s
  /\ \/ phase[s] = "saving" /\ Goto(s, "checking")
     \/ phase[s] \in {"offered", "requested"} /\ Goto(s, "loading")
  /\ UNCHANGED << primary, backup, view, base, candidate >>

\* Five seconds without the lock: OwnershipConflictError.
LockTimeout(s) ==
  /\ lock # NoSession
  /\ \/ phase[s] = "saving" /\ Goto(s, "reviewing")
     \/ phase[s] \in {"offered", "requested"} /\ Goto(s, "idle")
  /\ UNCHANGED << primary, backup, lock, view, base, candidate >>

-----------------------------------------------------------------------------
\* save, inside the lock.

\* Mutant: save only checks that the primary can be read.
RevisionIgnored(s) == Loadable(primary)

RevisionMatches(s) ==
  /\ Loadable(primary)
  /\ primary.revision = base[s].revision

CheckRevision(s) ==
  /\ phase[s] = "checking"
  /\ RevisionMatches(s)
  /\ base[s].revision < MaxRevision
  /\ Goto(s, IF primary.kind = "missing" THEN "replacing" ELSE "backing")
  /\ UNCHANGED << primary, backup, lock, view, base, candidate >>

\* A stale state, or a primary damaged meanwhile: nothing is written.
RefuseSave(s) ==
  /\ phase[s] = "checking"
  /\ ~RevisionMatches(s) \/ base[s].revision >= MaxRevision
  /\ LeaveLock(s, "reviewing")
  /\ UNCHANGED << primary, backup, view, base, candidate >>

\* Mutant: an existing copy is kept instead of being refreshed.
CopyBackupOnce(s) ==
  /\ phase[s] = "backing"
  /\ backup' = IF backup.kind = "missing" THEN primary ELSE backup
  /\ Goto(s, "replacing")
  /\ UNCHANGED << primary, lock, view, base, candidate >>

\* The bytes are read again and copied as they are, without validation.
CopyBackup(s) ==
  /\ phase[s] = "backing"
  /\ backup' = primary
  /\ Goto(s, "replacing")
  /\ UNCHANGED << primary, lock, view, base, candidate >>

\* The in-memory state takes the new revision once the replace succeeded.
ReplacePrimary(s) ==
  /\ phase[s] = "replacing"
  /\ primary' = ValidFile(base[s].revision + 1, candidate[s])
  /\ view' = [view EXCEPT ![s] = StateOf(primary')]
  /\ LeaveLock(s, "reviewing")
  /\ UNCHANGED << backup, base, candidate >>

\* An OSError from either atomic write leaves both files as they were.
WriteFails(s) ==
  /\ phase[s] \in {"backing", "replacing", "restoring"}
  /\ LeaveLock(s, IF phase[s] = "restoring" THEN "idle" ELSE "reviewing")
  /\ UNCHANGED << primary, backup, view, base, candidate >>

-----------------------------------------------------------------------------
\* recover, inside the lock.

\* Mutant: recovery takes the next revision, as a save does.
RecoveredRevisionNext(state) == state.revision + 1

\* The damaged primary was normally one revision newer than its copy: skip
\* past it, so that snapshots from before the damage stay stale.
RecoveredRevision(state) == state.revision + 2

LoadBackup(s) ==
  /\ phase[s] = "loading"
  /\ backup.kind = "valid"
  /\ RecoveredRevision(backup) <= MaxRevision
  /\ base' = [base EXCEPT ![s] = StateOf(backup)]
  /\ Goto(s, "restoring")
  /\ UNCHANGED << primary, backup, lock, view, candidate >>

RefuseRecovery(s) ==
  /\ phase[s] = "loading"
  /\ backup.kind # "valid" \/ RecoveredRevision(backup) > MaxRevision
  /\ LeaveLock(s, "idle")
  /\ UNCHANGED << primary, backup, view, base, candidate >>

ReplaceFromBackup(s) ==
  /\ phase[s] = "restoring"
  /\ primary' = ValidFile(RecoveredRevision(base[s]), base[s].data)
  /\ LeaveLock(s, "idle")
  /\ UNCHANGED << backup, view, base, candidate >>

-----------------------------------------------------------------------------
\* The environment.

\* The primary becomes unreadable (a torn disk write, another program).
DamagePrimary ==
  /\ primary.kind = "valid"
  /\ primary' = [primary EXCEPT !.kind = "damaged"]
  /\ UNCHANGED << backup, lock, phase, view, base, candidate >>

\* A process dies; its lock file is orphaned and later reaped.
Crash(s) ==
  /\ phase[s] # "idle"
  /\ Goto(s, "idle")
  /\ lock' = IF lock = s THEN NoSession ELSE lock
  /\ UNCHANGED << primary, backup, view, base, candidate >>

Save(s) ==
  \/ CheckRevision(s) \/ RefuseSave(s) \/ CopyBackup(s) \/ ReplacePrimary(s)
  \/ WriteFails(s)

Recover(s) == LoadBackup(s) \/ RefuseRecovery(s) \/ ReplaceFromBackup(s)

Next ==
  \/ \E s \in Sessions :
       \/ Review(s) \/ OfferRecovery(s) \/ RequestRecovery(s) \/ Dismiss(s)
       \/ \E e \in Edits : PrepareFromReview(s, e) \/ PrepareFromReload(s, e)
       \/ AcquireLock(s) \/ LockTimeout(s)
       \/ Save(s) \/ Recover(s)
       \/ Crash(s)
  \/ DamagePrimary

Spec == Init /\ [][Next]_vars

-----------------------------------------------------------------------------
\* Properties.

\* Type invariant: files, snapshots and phases have the shapes the code gives
\* them, and exactly the session inside the "with _store_lock" block of save or
\* recover holds the lock.
TypeOK ==
  /\ primary \in Files
  /\ backup \in Files
  /\ lock \in Sessions \union {NoSession}
  /\ phase \in [Sessions -> Phases]
  /\ view \in [Sessions -> States]
  /\ base \in [Sessions -> States]
  /\ candidate \in [Sessions -> SUBSET Edits]
  /\ \A s \in Sessions : lock = s <=> phase[s] \in LockedPhases

\* A revision number names one content: a session whose snapshot carries the
\* revision now in the primary reviewed exactly that content, whatever saves,
\* crashes, damage and recoveries happened since.  Both optimistic checks (the
\* GUI's reload and the comparison inside save) rest on this, and it is why
\* recover skips a revision.
RevisionNamesContent ==
  \A s \in Sessions :
    /\ view[s].revision = primary.revision => view[s].data = primary.data
    /\ base[s].revision = primary.revision => base[s].data = primary.data

\* From the second save on there is a last-known-good copy at most one edit
\* behind the primary, so damage costs at most the newest edit.  The one
\* exception is a copy that was itself made from damaged bytes: save copies
\* what it reads after the validation.
OneEditFromRecovery ==
  primary.revision > 1 =>
    \/ backup.kind = "damaged"
    \/ /\ backup.kind = "valid"
       /\ backup.data \subseteq primary.data
       /\ Cardinality(primary.data \ backup.data) <= 1

\* The store implements OwnershipRegister: however the steps of several
\* sessions interleave, an edit lands on exactly the content its author
\* reviewed, so no save silently overwrites another one.
Register ==
  INSTANCE OwnershipRegister WITH
    value <- [ok |-> Loadable(primary), data |-> primary.data],
    fallback <- [ok |-> backup.kind = "valid", data |-> backup.data],
    reviewed <- [s \in Sessions |-> view[s].data]

ImplementsRegister == Register!Spec

\* The dialog of blueprints.py says that recovery replaces "the damaged"
\* store: a session that was offered recovery finds the primary still damaged
\* when it has the lock.
OfferedRecoveryReplacesDamaged ==
  [][\A s \in Sessions :
       phase[s] = "offered" /\ phase'[s] = "loading"
         => ~Loadable(primary)]_vars
=============================================================================
