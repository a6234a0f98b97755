------------------------- MODULE PersonalDataProofs -------------------------
(***************************************************************************)
(* Theorems about the protocols over the player's own data, for every      *)
(* value of the constants.                                                 *)
(*                                                                         *)
(* The ownership store: the type invariant, that a revision number names   *)
(* one content, that the store implements OwnershipRegister, and that the  *)
(* copy is at most one edit behind.  RevisionNamesContent is not           *)
(* inductive: it says nothing of revisions that are yet to be written.     *)
(* The inductive invariant adds that no snapshot is newer than the primary *)
(* (so the next revision is fresh), that the primary is at most two        *)
(* revisions ahead of the copy and equals it when it is exactly two ahead  *)
(* (so the revision a recovery writes is fresh or names the same content), *)
(* and what a session inside the lock has established.                     *)
(*                                                                         *)
(* The String editor: that the layer that is ready is the chosen one, and  *)
(* that a job's answer takes only later edits from the user.               *)
(*                                                                         *)
(* The user edits are proved about in UserEditsProofs; here the theorems   *)
(* are carried over to the specification that runs all three.              *)
(***************************************************************************)
EXTENDS MCPersonalData, FiniteSetTheorems, SequenceTheorems, TLAPS

\* The state x is a snapshot of the file f or of one of its predecessors.
Precedes(x, f) ==
  /\ x.revision <= f.revision
  /\ x.revision = f.revision => x.data = f.data

SnapshotsPrecede ==
  \A s \in Sessions : Precedes(view[s], primary) /\ Precedes(base[s], primary)

BackupPrecedes ==
  /\ Precedes(backup, primary)
  /\ primary.revision <= RecoveredRevision(backup)
  /\ primary.revision = RecoveredRevision(backup) => primary.data = backup.data

SaveInProgress(s) ==
  phase[s] \in {"saving", "checking", "backing", "replacing"} =>
    /\ base[s] = view[s]
    /\ \E e \in Edits \ base[s].data : candidate[s] = base[s].data \union {e}

RevisionChecked(s) ==
  /\ phase[s] \in {"backing", "replacing"} => base[s].revision = primary.revision
  /\ phase[s] = "backing" => primary.kind # "missing"

BackupCopied(s) ==
  phase[s] = "replacing" => StateOf(backup) = StateOf(primary)

BackupLoaded(s) ==
  phase[s] = "restoring" => base[s] = StateOf(backup) /\ backup.kind = "valid"

SessionInv ==
  \A s \in Sessions :
    SaveInProgress(s) /\ RevisionChecked(s) /\ BackupCopied(s) /\ BackupLoaded(s)

MissingInv ==
  primary.kind = "missing" => primary = MissingFile /\ backup = MissingFile

IInv == TypeOK /\ SnapshotsPrecede /\ BackupPrecedes /\ MissingInv /\ SessionInv

-----------------------------------------------------------------------------
(***************************************************************************)
(* Type correctness.                                                       *)
(***************************************************************************)

LEMMA TypeInit == Init => TypeOK
BY StoreAssumption
   DEF Init, TypeOK, Files, States, MissingFile, EmptyState, Phases,
       LockedPhases, StoreAssumption

LEMMA TypeStep ==
  ASSUME TypeOK, [Next]_vars
  PROVE  TypeOK'
<1> USE StoreAssumption DEF StoreAssumption, TypeOK, Files, States, Phases,
        LockedPhases, Goto
<1>1. ASSUME NEW s \in Sessions, Review(s)
      PROVE  TypeOK'
  BY <1>1 DEF Review, StateOf
<1>2. ASSUME NEW s \in Sessions, OfferRecovery(s)
      PROVE  TypeOK'
  BY <1>2 DEF OfferRecovery
<1>3. ASSUME NEW s \in Sessions, RequestRecovery(s)
      PROVE  TypeOK'
  BY <1>3 DEF RequestRecovery
<1>4. ASSUME NEW s \in Sessions, Dismiss(s)
      PROVE  TypeOK'
  BY <1>4 DEF Dismiss
<1>5. ASSUME NEW s \in Sessions, NEW e \in Edits, PrepareFromReview(s, e)
      PROVE  TypeOK'
  BY <1>5 DEF PrepareFromReview, Prepare
<1>6. ASSUME NEW s \in Sessions, NEW e \in Edits, PrepareFromReload(s, e)
      PROVE  TypeOK'
  BY <1>6 DEF PrepareFromReload, Prepare, StateOf
<1>7. ASSUME NEW s \in Sessions, AcquireLock(s)
      PROVE  TypeOK'
  BY <1>7 DEF AcquireLock
<1>8. ASSUME NEW s \in Sessions, LockTimeout(s)
      PROVE  TypeOK'
  BY <1>8 DEF LockTimeout
<1>9. ASSUME NEW s \in Sessions, CheckRevision(s)
      PROVE  TypeOK'
  BY <1>9 DEF CheckRevision
<1>10. ASSUME NEW s \in Sessions, RefuseSave(s)
      PROVE  TypeOK'
  BY <1>10 DEF RefuseSave, LeaveLock
<1>11. ASSUME NEW s \in Sessions, CopyBackup(s)
      PROVE  TypeOK'
  BY <1>11 DEF CopyBackup
<1>12. ASSUME NEW s \in Sessions, ReplacePrimary(s)
      PROVE  TypeOK'
  BY <1>12 DEF ReplacePrimary, LeaveLock, ValidFile, StateOf
<1>13. ASSUME NEW s \in Sessions, WriteFails(s)
      PROVE  TypeOK'
  BY <1>13 DEF WriteFails, LeaveLock
<1>14. ASSUME NEW s \in Sessions, LoadBackup(s)
      PROVE  TypeOK'
  BY <1>14 DEF LoadBackup, StateOf
<1>15. ASSUME NEW s \in Sessions, RefuseRecovery(s)
      PROVE  TypeOK'
  BY <1>15 DEF RefuseRecovery, LeaveLock
<1>16. ASSUME NEW s \in Sessions, ReplaceFromBackup(s)
      PROVE  TypeOK'
  BY <1>16 DEF ReplaceFromBackup, LeaveLock, ValidFile, RecoveredRevision
<1>17. ASSUME NEW s \in Sessions, Crash(s)
      PROVE  TypeOK'
  BY <1>17 DEF Crash
<1>18. CASE DamagePrimary
  BY <1>18 DEF DamagePrimary
<1>19. CASE UNCHANGED vars
  BY <1>19 DEF vars
<1>20. QED
  BY <1>1, <1>2, <1>3, <1>4, <1>5, <1>6, <1>7, <1>8, <1>9, <1>10, <1>11, <1>12, <1>13, <1>14, <1>15, <1>16, <1>17, <1>18, <1>19 DEF Next, Save, Recover

\* Every reachable state of the store is well formed, and the lock is held by
\* exactly the session inside save or recover.
THEOREM TypeCorrect == Spec => []TypeOK
BY TypeInit, TypeStep, PTL DEF Spec

-----------------------------------------------------------------------------
(***************************************************************************)
(* Snapshots stay snapshots when the file moves on.                        *)
(***************************************************************************)

LEMMA PrecedesTransitive ==
  ASSUME NEW x, NEW f, NEW g,
         x.revision \in Nat, f.revision \in Nat, g.revision \in Nat,
         Precedes(x, f), Precedes(f, g)
  PROVE  Precedes(x, g)
BY DEF Precedes

-----------------------------------------------------------------------------
(***************************************************************************)
(* The inductive invariant.                                                *)
(***************************************************************************)

LEMMA InvInit == Init => IInv
BY TypeInit
   DEF Init, IInv, SnapshotsPrecede, Precedes, BackupPrecedes, MissingInv,
       SessionInv, SaveInProgress, RevisionChecked, BackupCopied, BackupLoaded,
       MissingFile, EmptyState, RecoveredRevision

LEMMA InvStep ==
  ASSUME IInv, [Next]_vars
  PROVE  IInv'
<1> USE StoreAssumption DEF StoreAssumption, Goto, LeaveLock, StateOf,
        RecoveredRevision
<1> DEFINE Rest == SnapshotsPrecede /\ BackupPrecedes /\ MissingInv /\ SessionInv
<1>t. TypeOK /\ TypeOK'
  BY TypeStep DEF IInv
<1>r. Rest
  BY DEF IInv
<1> SUFFICES Rest'
  BY <1>t DEF IInv
<1> USE <1>t, <1>r DEF TypeOK, Files, States, Phases, LockedPhases
<1> USE DEF SnapshotsPrecede, Precedes, BackupPrecedes, MissingInv, SessionInv,
            SaveInProgress, RevisionChecked, BackupCopied, BackupLoaded
<1>1. ASSUME NEW s \in Sessions, Review(s)
      PROVE  Rest'
  BY <1>1 DEF Review
<1>2. ASSUME NEW s \in Sessions, OfferRecovery(s)
      PROVE  Rest'
  BY <1>2 DEF OfferRecovery
<1>3. ASSUME NEW s \in Sessions, RequestRecovery(s)
      PROVE  Rest'
  BY <1>3 DEF RequestRecovery
<1>4. ASSUME NEW s \in Sessions, Dismiss(s)
      PROVE  Rest'
  BY <1>4 DEF Dismiss
<1>5. ASSUME NEW s \in Sessions, NEW e \in Edits, PrepareFromReview(s, e)
      PROVE  Rest'
  BY <1>5 DEF PrepareFromReview, Prepare
<1>6. ASSUME NEW s \in Sessions, NEW e \in Edits, PrepareFromReload(s, e)
      PROVE  Rest'
  BY <1>6 DEF PrepareFromReload, Prepare
<1>7. ASSUME NEW s \in Sessions, AcquireLock(s)
      PROVE  Rest'
  BY <1>7 DEF AcquireLock
<1>8. ASSUME NEW s \in Sessions, LockTimeout(s)
      PROVE  Rest'
  BY <1>8 DEF LockTimeout
<1>9. ASSUME NEW s \in Sessions, CheckRevision(s)
      PROVE  Rest'
  BY <1>9 DEF CheckRevision, RevisionMatches
<1>10. ASSUME NEW s \in Sessions, RefuseSave(s)
      PROVE  Rest'
  BY <1>10 DEF RefuseSave
<1>11. ASSUME NEW s \in Sessions, CopyBackup(s)
      PROVE  Rest'
  BY <1>11 DEF CopyBackup
<1>12. ASSUME NEW s \in Sessions, ReplacePrimary(s)
      PROVE  Rest'
  BY <1>12 DEF ReplacePrimary, ValidFile, MissingFile
<1>13. ASSUME NEW s \in Sessions, WriteFails(s)
      PROVE  Rest'
  BY <1>13 DEF WriteFails
<1>14. ASSUME NEW s \in Sessions, LoadBackup(s)
      PROVE  Rest'
  BY <1>14 DEF LoadBackup
<1>15. ASSUME NEW s \in Sessions, RefuseRecovery(s)
      PROVE  Rest'
  BY <1>15 DEF RefuseRecovery
<1>16. ASSUME NEW s \in Sessions, ReplaceFromBackup(s)
      PROVE  Rest'
  \* The revision written is at least the one replaced, and equal to it only
  \* when the damaged content came from this very copy.
  <2>1. base[s] = StateOf(backup) /\ primary'.revision = backup.revision + 2
        /\ primary'.data = backup.data /\ primary'.kind = "valid"
    BY <1>16 DEF ReplaceFromBackup, ValidFile
  <2>2. /\ primary.revision <= primary'.revision
        /\ primary.revision = primary'.revision => primary.data = primary'.data
    BY <2>1
  <2>3. SnapshotsPrecede' /\ BackupPrecedes' /\ MissingInv'
    <3>1. UNCHANGED << backup, view, base >>
      BY <1>16 DEF ReplaceFromBackup
    <3>2. ASSUME NEW r \in Sessions
          PROVE  Precedes(view[r], primary') /\ Precedes(base[r], primary')
      <4>1. /\ view[r].revision \in Nat /\ base[r].revision \in Nat
            /\ primary.revision \in Nat /\ primary'.revision \in Nat
        OBVIOUS
      <4>2. Precedes(view[r], primary) /\ Precedes(base[r], primary)
        OBVIOUS
      <4>3. Precedes(primary, primary')
        BY <2>2
      <4> QED
        BY ONLY <4>1, <4>2, <4>3, PrecedesTransitive
    <3>3. BackupPrecedes'
      BY <2>1, <3>1
    <3> QED
      BY <2>1, <3>1, <3>2, <3>3
  <2>4. \A r \in Sessions \ {s} : phase[r] \notin LockedPhases
    BY <1>16 DEF ReplaceFromBackup
  <2>5. \A r \in Sessions : phase'[r] \notin LockedPhases
    BY <1>16, <2>4 DEF ReplaceFromBackup
  <2>6. SessionInv'
    <3> SUFFICES ASSUME NEW r \in Sessions
                 PROVE  SaveInProgress(r)'
      BY <2>5
    <3>1. base'[r] = base[r] /\ view'[r] = view[r] /\ candidate'[r] = candidate[r]
      BY <1>16 DEF ReplaceFromBackup
    <3> QED
      BY <1>16, <3>1, <2>5 DEF ReplaceFromBackup
  <2> QED
    BY <2>3, <2>6
<1>17. ASSUME NEW s \in Sessions, Crash(s)
      PROVE  Rest'
  BY <1>17 DEF Crash
<1>18. CASE DamagePrimary
  <2>1. StateOf(primary') = StateOf(primary) /\ primary'.kind = "damaged"
    BY <1>18 DEF DamagePrimary
  <2> QED
    BY <1>18, <2>1 DEF DamagePrimary
<1>19. CASE UNCHANGED vars
  BY <1>19 DEF vars
<1>20. QED
  BY <1>1, <1>2, <1>3, <1>4, <1>5, <1>6, <1>7, <1>8, <1>9, <1>10, <1>11, <1>12, <1>13, <1>14, <1>15, <1>16, <1>17, <1>18, <1>19 DEF Next, Save, Recover

LEMMA Invariance == Spec => []IInv
BY InvInit, InvStep, PTL DEF Spec

\* A session whose snapshot carries the primary's revision number reviewed
\* exactly the primary's content, across saves, crashes, damage and recovery.
THEOREM RevisionsNameContent == Spec => []RevisionNamesContent
<1>1. IInv => RevisionNamesContent
  BY DEF IInv, SnapshotsPrecede, Precedes, RevisionNamesContent
<1> QED
  BY <1>1, Invariance, PTL

-----------------------------------------------------------------------------
(***************************************************************************)
(* The store implements the abstract register.                             *)
(***************************************************************************)

LEMMA RegisterInit == Init => Register!Init
<1> SUFFICES ASSUME Init
             PROVE  Register!Init
  OBVIOUS
<1>1. /\ primary.kind = "missing" /\ backup.kind = "missing"
      /\ primary.data = {} /\ backup.data = {}
  BY DEF Init, MissingFile
<1>2. Loadable(primary) = TRUE /\ (backup.kind = "valid") = FALSE
  BY <1>1 DEF Loadable
<1>3. [s \in Sessions |-> view[s].data] = [s \in Sessions |-> {}]
  BY DEF Init, EmptyState
<1> QED
  BY <1>1, <1>2, <1>3, Zenon DEF Register!Init

\* The abstract register moves only when a file or a reviewed state does.
LEMMA RegisterStutter ==
  ASSUME UNCHANGED << primary, backup, view >>
  PROVE  UNCHANGED Register!vars
<1>1. primary' = primary /\ backup' = backup /\ view' = view
  OBVIOUS
<1>2. /\ Loadable(primary)' = Loadable(primary)
      /\ (backup.kind = "valid")' = (backup.kind = "valid")
  BY <1>1 DEF Loadable
<1> QED
  BY <1>1, <1>2, Zenon DEF Register!vars

LEMMA RegisterStep ==
  ASSUME IInv, [Next]_vars
  PROVE  [Register!Next]_Register!vars
<1> USE StoreAssumption DEF StoreAssumption, Goto, LeaveLock, StateOf
<1>t. TypeOK
  BY DEF IInv
<1> USE <1>t DEF TypeOK, Files, States, Phases, LockedPhases
<1>1. ASSUME NEW s \in Sessions, Review(s)
      PROVE  Register!Review(s)
  BY <1>1 DEF Review, Register!Review, Loadable
<1>2. ASSUME NEW s \in Sessions, CopyBackup(s)
      PROVE  Register!Keep
  <2>1. /\ backup' = primary /\ primary' = primary /\ view' = view
        /\ primary.kind # "missing"
    BY <1>2 DEF CopyBackup, IInv, SessionInv, RevisionChecked
  <2>2. (backup.kind = "valid")' = Loadable(primary)
    BY <2>1 DEF Loadable
  <2> QED
    BY <2>1, <2>2, Zenon DEF Register!Keep
<1>3. ASSUME NEW s \in Sessions, ReplacePrimary(s)
      PROVE  Register!Commit(s)
  <2>1. PICK e \in Edits \ base[s].data : candidate[s] = base[s].data \union {e}
    BY <1>3 DEF ReplacePrimary, IInv, SessionInv, SaveInProgress
  <2>2. /\ view[s].data = primary.data /\ backup.data = primary.data
        /\ base[s].data = primary.data
    BY <1>3 DEF ReplacePrimary, IInv, SessionInv, SaveInProgress,
                RevisionChecked, BackupCopied, SnapshotsPrecede, Precedes
  <2>3. /\ primary'.kind = "valid" /\ primary'.data = primary.data \union {e}
        /\ backup' = backup
        /\ view' = [view EXCEPT ![s] = StateOf(primary')]
    BY <1>3, <2>1, <2>2 DEF ReplacePrimary, ValidFile
  <2>4. Loadable(primary)' = TRUE
    BY <2>3 DEF Loadable
  <2>5. [r \in Sessions |-> view[r].data]'
          = [[r \in Sessions |-> view[r].data] EXCEPT ![s] = primary'.data]
    BY <2>3
  <2> QED
    BY <2>1, <2>2, <2>3, <2>4, <2>5 DEF Register!Commit
<1>4. ASSUME NEW s \in Sessions, ReplaceFromBackup(s)
      PROVE  Register!Restore
  <2>1. /\ primary'.kind = "valid" /\ primary'.data = backup.data
        /\ backup.kind = "valid" /\ backup' = backup /\ view' = view
    BY <1>4 DEF ReplaceFromBackup, ValidFile, IInv, SessionInv, BackupLoaded
  <2>2. Loadable(primary)' = (backup.kind = "valid")
    BY <2>1 DEF Loadable
  <2> QED
    BY <2>1, <2>2, Zenon DEF Register!Restore
<1>5. ASSUME DamagePrimary
      PROVE  Register!Damage
  <2>1. /\ primary'.kind = "damaged" /\ primary'.data = primary.data
        /\ backup' = backup /\ view' = view
    BY <1>5 DEF DamagePrimary
  <2>2. Loadable(primary)' = FALSE
    BY <2>1 DEF Loadable
  <2>3. [ok |-> Loadable(primary), data |-> primary.data].data = primary.data
    OBVIOUS
  <2> QED
    BY <2>1, <2>2, <2>3, Zenon DEF Register!Damage
<1>6. ASSUME NEW s \in Sessions,
             \/ OfferRecovery(s) \/ RequestRecovery(s) \/ Dismiss(s)
             \/ \E e \in Edits : PrepareFromReview(s, e) \/ PrepareFromReload(s, e)
             \/ AcquireLock(s) \/ LockTimeout(s)
             \/ CheckRevision(s) \/ RefuseSave(s) \/ WriteFails(s)
             \/ LoadBackup(s) \/ RefuseRecovery(s) \/ Crash(s)
      PROVE  UNCHANGED << primary, backup, view >>
  BY <1>6 DEF OfferRecovery, RequestRecovery, Dismiss, PrepareFromReview,
              PrepareFromReload, Prepare, AcquireLock, LockTimeout,
              CheckRevision, RefuseSave, WriteFails, LoadBackup,
              RefuseRecovery, Crash
<1>7. CASE UNCHANGED vars
  BY <1>7, RegisterStutter DEF vars
<1> QED
  BY <1>1, <1>2, <1>3, <1>4, <1>5, <1>6, <1>7, RegisterStutter
     DEF Next, Save, Recover, Register!Next

\* Every behaviour of the store is one of the register: an edit is committed in
\* effect at once, onto the very content its author reviewed, and while the
\* copy holds that content.
THEOREM StoreImplementsRegister == Spec => ImplementsRegister
<1>1. Init => Register!Init
  BY RegisterInit
<1>2. IInv /\ [Next]_vars => [Register!Next]_Register!vars
  BY RegisterStep
<1> QED
  BY <1>1, <1>2, Invariance, PTL DEF Spec, ImplementsRegister, Register!Spec

-----------------------------------------------------------------------------
(***************************************************************************)
(* The copy is at most one edit behind.                                    *)
(***************************************************************************)

\* A file differs from its copy by at most one edit.
OneEditAhead(file, copy) ==
  \/ file.data = copy.data
  \/ \E e \in Edits : file.data = copy.data \union {e}

CopyInv ==
  /\ backup.kind = "missing" => backup = MissingFile /\ primary.revision <= 1
  /\ backup.kind = "valid" => OneEditAhead(primary, backup)

LEMMA CopyInit == Init => CopyInv
BY DEF Init, CopyInv, MissingFile

LEMMA CopyStep ==
  ASSUME IInv, CopyInv, [Next]_vars
  PROVE  CopyInv'
<1>t. TypeOK
  BY DEF IInv
<1>1. ASSUME NEW s \in Sessions, CopyBackup(s)
      PROVE  CopyInv'
  <2>1. backup' = primary /\ primary' = primary /\ primary.kind # "missing"
    BY <1>1 DEF CopyBackup, IInv, SessionInv, RevisionChecked
  <2> QED
    BY <2>1 DEF CopyInv, OneEditAhead
<1>2. ASSUME NEW s \in Sessions, ReplacePrimary(s)
      PROVE  CopyInv'
  <2>1. PICK e \in Edits \ base[s].data : candidate[s] = base[s].data \union {e}
    BY <1>2 DEF ReplacePrimary, IInv, SessionInv, SaveInProgress
  <2>2. /\ base[s].revision = primary.revision
        /\ base[s].data = primary.data
        /\ backup.data = primary.data /\ backup.revision = primary.revision
    BY <1>2 DEF ReplacePrimary, IInv, SessionInv, RevisionChecked,
                BackupCopied, SnapshotsPrecede, Precedes, StateOf
  <2>3. /\ primary'.revision = backup.revision + 1
        /\ primary'.data = backup.data \union {e}
        /\ backup' = backup
    BY <1>2, <2>1, <2>2 DEF ReplacePrimary, ValidFile
  <2>4. backup'.kind = "missing" => primary'.revision <= 1
    BY <2>3 DEF CopyInv, MissingFile
  <2> QED
    BY <2>3, <2>4 DEF CopyInv, OneEditAhead
<1>3. ASSUME NEW s \in Sessions, ReplaceFromBackup(s)
      PROVE  CopyInv'
  <2>1. /\ primary'.data = backup.data
        /\ backup.kind = "valid" /\ backup' = backup
    BY <1>3 DEF ReplaceFromBackup, ValidFile, IInv, SessionInv, BackupLoaded,
                StateOf
  <2> QED
    BY <2>1 DEF CopyInv, OneEditAhead
<1>4. ASSUME DamagePrimary
      PROVE  CopyInv'
  <2>1. /\ primary'.data = primary.data /\ primary'.revision = primary.revision
        /\ backup' = backup
    BY <1>4, <1>t DEF DamagePrimary, TypeOK, Files
  <2> QED
    BY <2>1 DEF CopyInv, OneEditAhead
<1>5. ASSUME UNCHANGED << primary, backup >>
      PROVE  CopyInv'
  BY <1>5 DEF CopyInv, OneEditAhead
<1>6. ASSUME NEW s \in Sessions,
             \/ Review(s) \/ OfferRecovery(s) \/ RequestRecovery(s) \/ Dismiss(s)
             \/ \E e \in Edits : PrepareFromReview(s, e) \/ PrepareFromReload(s, e)
             \/ AcquireLock(s) \/ LockTimeout(s)
             \/ CheckRevision(s) \/ RefuseSave(s) \/ WriteFails(s)
             \/ LoadBackup(s) \/ RefuseRecovery(s) \/ Crash(s)
      PROVE  UNCHANGED << primary, backup >>
  BY <1>6 DEF Review, OfferRecovery, RequestRecovery, Dismiss,
              PrepareFromReview, PrepareFromReload, Prepare, AcquireLock,
              LockTimeout, CheckRevision, RefuseSave, WriteFails, LoadBackup,
              RefuseRecovery, Crash
<1>7. CASE UNCHANGED vars
  BY <1>5, <1>7 DEF vars
<1> QED
  BY <1>1, <1>2, <1>3, <1>4, <1>5, <1>6, <1>7 DEF Next, Save, Recover

LEMMA CopyBehind == TypeOK /\ CopyInv => OneEditFromRecovery
<1> SUFFICES ASSUME TypeOK, CopyInv, primary.revision > 1, backup.kind # "damaged"
             PROVE  /\ backup.kind = "valid"
                    /\ backup.data \subseteq primary.data
                    /\ Cardinality(primary.data \ backup.data) <= 1
  BY DEF OneEditFromRecovery
<1>1. primary.revision \in Nat /\ backup.kind \in {"missing", "valid", "damaged"}
  BY DEF TypeOK, Files
<1>2. backup.kind = "valid"
  BY <1>1 DEF CopyInv
<1>3. OneEditAhead(primary, backup)
  BY <1>2 DEF CopyInv
<1>4. backup.data \subseteq primary.data
  BY <1>3 DEF OneEditAhead
<1>5. \/ primary.data \ backup.data = {}
      \/ \E e : primary.data \ backup.data = {e}
  BY <1>3 DEF OneEditAhead
<1>6. Cardinality(primary.data \ backup.data) \in {0, 1}
  BY <1>5, FS_EmptySet, FS_Singleton
<1> QED
  BY <1>2, <1>4, <1>6

\* From the second save on the copy is at most one edit behind the primary,
\* unless it was itself made from damaged bytes.
THEOREM CopyOneEditBehind == Spec => []OneEditFromRecovery
<1>1. IInv => TypeOK
  BY DEF IInv
<1> QED
  BY <1>1, CopyInit, CopyStep, CopyBehind, Invariance, PTL DEF Spec

-----------------------------------------------------------------------------
(***************************************************************************)
(* The String editor, for every set of scopes and of texts.  Its two       *)
(* properties are about jobs that end after the user has gone on, so the   *)
(* inductive invariant says what the tab still has in common with the      *)
(* state the job was started in.                                           *)
(***************************************************************************)
EditorScope == EditorScopes \union {NoScope}
EditorText  == EditorTexts \union {NoText}

Documents ==
  {d \in [baseline : EditorText, line : Seq(EditorText), at : Nat] :
     /\ d.at \in 1..Len(d.line)
     /\ Len(d.line) <= MaxUndo + 1}

EditorJobs ==
  [kind : {"load", "save", "preview", "export"},
   stage : {"running", "ended", "failed", "review"},
   scope : EditorScope, baseline : EditorText, text : EditorText,
   result : EditorText, shown : EditorText, discards : BOOLEAN]

EditorTyped ==
  /\ Editor!TypeOK
  /\ doc \in Documents
  /\ task # Nothing => task \in EditorJobs /\ task.scope # NoScope

\* A layer that is ready was read for the scope that is chosen now, and the
\* document has been attached to that scope since.
LayerIsChosen ==
  overlay.ready =>
    \/ overlay.scope = NoScope
    \/ overlay.scope = chosen /\ overlay.scope = attached

\* What a job was shown when it began: the saved text of the document, unless
\* the user agreed to lose more, or the text the job saves.
JobShowsDocument ==
  Editor!Open /\ task # Nothing =>
    /\ task.kind = "load" /\ ~task.discards => task.shown = doc.baseline
    /\ task.kind = "save" => task.shown \in {task.text, doc.baseline}
    /\ task.kind = "save" /\ task.stage = "ended" => task.result = task.text
    /\ task.stage = "review" => task.shown = doc.baseline

EditorInv == EditorTyped /\ LayerIsChosen /\ JobShowsDocument

LEMMA ValueTyped ==
  ASSUME NEW d \in Documents
  PROVE  Editor!Value(d) \in EditorText
BY DEF Editor!Value, Documents

LEMMA DocumentTyped ==
  ASSUME NEW text \in EditorText
  PROVE  Editor!Document(text) \in Documents
<1>1. << text >> \in Seq(EditorText) /\ Len(<< text >>) = 1
  OBVIOUS
<1>2. MaxUndo + 1 >= 1
  BY EditorConstants DEF Editor!EditorAssumption
<1>3. 1 \in 1..Len(<< text >>)
  BY <1>1
<1> DEFINE d == [baseline |-> text, line |-> << text >>, at |-> 1]
<1>4. d \in [baseline : EditorText, line : Seq(EditorText), at : Nat]
  BY <1>1
<1>5. d.at \in 1..Len(d.line) /\ Len(d.line) <= MaxUndo + 1
  BY <1>1, <1>2, <1>3, EditorConstants DEF Editor!EditorAssumption
<1>6. d \in Documents
  BY <1>4, <1>5 DEF Documents
<1> QED  BY <1>6 DEF Editor!Document

LEMMA RelinedTyped ==
  ASSUME NEW d \in Documents, NEW kept \in Seq(EditorText),
         Len(kept) \in 1..(MaxUndo + 1), MaxUndo \in Nat
  PROVE  [d EXCEPT !.line = kept, !.at = Len(kept)] \in Documents
<1> DEFINE Records == [baseline : EditorText, line : Seq(EditorText), at : Nat]
<1>1. d \in Records
  BY DEF Documents
<1>2. Len(kept) \in Nat
  OBVIOUS
<1>3. ASSUME NEW n \in Nat, n = Len(kept)
      PROVE  [d EXCEPT !.line = kept, !.at = n] \in Documents
  <2>1. [d EXCEPT !.line = kept, !.at = n] \in Records
    BY <1>1
  <2>2. /\ [d EXCEPT !.line = kept, !.at = n].line = kept
        /\ [d EXCEPT !.line = kept, !.at = n].at = n
    BY <1>1
  <2>3. n \in 1..Len(kept) /\ Len(kept) <= MaxUndo + 1
    BY <1>3
  <2> HIDE DEF Records
  <2>4. ASSUME NEW e \in Records, e.line = kept, e.at = n
        PROVE  e \in Documents
    BY <2>3, <2>4 DEF Documents, Records
  <2> QED  BY <2>1, <2>2, <2>4
<1> QED  BY <1>2, <1>3

LEMMA EditedTyped ==
  ASSUME NEW d \in Documents, NEW text \in EditorText
  PROVE  /\ Editor!Edited(d, text) \in Documents
         /\ Editor!Edited(d, text).baseline = d.baseline
<1> DEFINE line == Append(SubSeq(d.line, 1, d.at), text)
           kept == IF Len(line) > MaxUndo + 1 THEN Tail(line) ELSE line
<1>1. d.line \in Seq(EditorText) /\ d.at \in 1..Len(d.line)
      /\ Len(d.line) <= MaxUndo + 1 /\ MaxUndo \in Nat
  BY EditorConstants DEF Documents, Editor!EditorAssumption
<1>2. line \in Seq(EditorText) /\ Len(line) = d.at + 1
  BY <1>1
<1>3. kept \in Seq(EditorText) /\ Len(kept) \in 1..(MaxUndo + 1)
  <2>1. CASE Len(line) > MaxUndo + 1
    <3>1. Tail(line) \in Seq(EditorText) /\ Len(Tail(line)) = d.at
      BY <1>1, <1>2
    <3> QED  BY <2>1, <3>1, <1>1
  <2>2. CASE ~(Len(line) > MaxUndo + 1)
    BY <2>2, <1>1, <1>2
  <2> QED  BY <2>1, <2>2
<1> HIDE DEF line, kept
<1>4. [d EXCEPT !.line = kept, !.at = Len(kept)] \in Documents
  BY <1>1, <1>3, RelinedTyped
<1>5. Editor!Edited(d, text) =
        IF text = Editor!Value(d) THEN d
        ELSE [d EXCEPT !.line = kept, !.at = Len(kept)]
  BY DEF Editor!Edited, line, kept
<1> QED  BY <1>4, <1>5 DEF Documents

LEMMA FlushedTyped ==
  ASSUME EditorTyped
  PROVE  /\ Editor!Flushed \in Documents
         /\ Editor!Flushed.baseline = doc.baseline
BY EditedTyped DEF EditorTyped, Editor!TypeOK, Editor!Flushed, Editor!AllTexts, EditorText

LEMMA SavingTyped ==
  ASSUME EditorTyped, Editor!SaveUserEdits
  PROVE  /\ doc' \in Documents
         /\ doc'.baseline = doc.baseline
         /\ typed' = Nothing
         /\ \/ task' = task
            \/ /\ task' \in EditorJobs /\ task'.scope = chosen /\ chosen # NoScope
               /\ task'.kind = "save" /\ task'.stage = "running"
               /\ task'.text = task'.shown
<1>1. doc' = Editor!Flushed /\ doc' \in Documents /\ doc'.baseline = doc.baseline
  BY FlushedTyped DEF Editor!SaveUserEdits
<1>2. Editor!Value(doc') \in EditorText
  BY <1>1, ValueTyped
<1>3. CASE task' = task
  BY <1>1, <1>3 DEF Editor!SaveUserEdits
<1>4. CASE chosen # NoScope /\ task' = Editor!SaveOf(doc')
  BY <1>1, <1>2, <1>4, ValueTyped
     DEF Editor!SaveUserEdits, Editor!SaveOf, Editor!Job, EditorJobs, EditorTyped,
         Editor!TypeOK, EditorScope, Documents, EditorText
<1> QED  BY <1>3, <1>4 DEF Editor!SaveUserEdits, Editor!CanSave

LEMMA EditorTypedInit == Editor!Init => EditorTyped
BY DocumentTyped
   DEF Editor!Init, EditorTyped, Editor!TypeOK, Editor!AllTexts, EditorText,
       Documents

\* The document, the jobs and the scopes stay well formed.
LEMMA EditorTypedStep ==
  ASSUME EditorTyped, [Editor!Next]_(Editor!editorVars)
  PROVE  EditorTyped'
<1> USE DEF EditorTyped, Editor!TypeOK, Editor!AllTexts, EditorText, EditorScope,
            Editor!Open, Editor!Modal, Editor!Free
<1>1. Documents' = Documents /\ EditorJobs' = EditorJobs
  BY DEF Documents, EditorJobs
<1>2. ASSUME doc' \in Documents,
             task' # Nothing => task' \in EditorJobs /\ task'.scope # NoScope,
             chosen' \in EditorScope, attached' \in EditorScope,
             overlay' \in [scope : EditorScope, ready : BOOLEAN],
             typed' \in EditorText \union {Nothing},
             store' \in [EditorScopes -> EditorText],
             window' \in {"open", "saving", "closed"}
      PROVE  EditorTyped'
  BY <1>2 DEF Documents, EditorJobs
<1>3. ASSUME NEW scope \in EditorScope, NEW dirty \in BOOLEAN,
             Editor!ScopeChanged(scope, dirty)
      PROVE  /\ attached' \in EditorScope
             /\ overlay' \in [scope : EditorScope, ready : BOOLEAN]
  <2>1. Editor!Begun(scope) \in [scope : EditorScope, ready : BOOLEAN]
    <3>1. (scope = NoScope) \in BOOLEAN
      OBVIOUS
    <3> QED  BY <3>1, Zenon DEF Editor!Begun
  <2> QED  BY <1>3, <2>1 DEF Editor!ScopeChanged
<1>4. Editor!Dirty \in BOOLEAN
  BY DEF Editor!Dirty
<1>5. ASSUME NEW kind \in {"load", "preview", "export"},
             NEW scope \in EditorScopes, scope # NoScope
      PROVE  /\ Editor!Job(kind, scope) \in EditorJobs
             /\ Editor!Job(kind, scope).scope # NoScope
  BY <1>5, ValueTyped DEF Editor!Job, EditorJobs
<1>6. ASSUME NEW scope \in EditorScopes \union {NoScope}, Editor!Choose(scope)
      PROVE  EditorTyped'
  BY <1>2, <1>3, <1>4, <1>6 DEF Editor!Choose
<1>7. ASSUME NEW scope \in EditorScopes, scope # NoScope, NEW discards \in BOOLEAN
      PROVE  /\ Editor!Load(scope, discards) \in EditorJobs
             /\ Editor!Load(scope, discards).scope # NoScope
  BY <1>5, <1>7 DEF Editor!Load, EditorJobs
<1>8. CASE Editor!ScopeTimerFires
  BY <1>2, <1>7, <1>8 DEF Editor!ScopeTimerFires, Editor!MayLoad
<1>9. CASE Editor!Reload
  BY <1>2, <1>4, <1>7, <1>9 DEF Editor!Reload
<1>10. CASE Editor!SelectAnother
  BY <1>2, <1>10 DEF Editor!SelectAnother
<1>11. ASSUME NEW text \in EditorText, Editor!Type(text)
       PROVE  EditorTyped'
  BY <1>2, <1>11 DEF Editor!Type
<1>12. CASE Editor!EditTimerFires
  BY <1>2, <1>12, FlushedTyped DEF Editor!EditTimerFires
<1>13. ASSUME NEW text \in EditorText, Editor!EditCommand(text)
       PROVE  EditorTyped'
  BY <1>2, <1>13, EditedTyped DEF Editor!EditCommand
<1>14. CASE Editor!UndoEdit
  <2>1. doc' \in Documents
    <3>1. doc.at - 1 \in 1..Len(doc.line) /\ doc.at - 1 \in Nat
      BY <1>14 DEF Editor!UndoEdit, Documents
    <3> QED  BY <1>14, <3>1 DEF Editor!UndoEdit, Documents
  <2>2. /\ attached' \in EditorScope
        /\ overlay' \in [scope : EditorScope, ready : BOOLEAN]
    BY <1>3, <1>14 DEF Editor!UndoEdit
  <2> QED  BY <2>1, <2>2, <1>2, <1>14 DEF Editor!UndoEdit
<1>15. CASE Editor!RedoEdit
  <2>1. doc' \in Documents
    <3>1. doc.at + 1 \in 1..Len(doc.line) /\ doc.at + 1 \in Nat
      BY <1>15 DEF Editor!RedoEdit, Documents
    <3> QED  BY <1>15, <3>1 DEF Editor!RedoEdit, Documents
  <2> QED  BY <2>1, <1>2, <1>15 DEF Editor!RedoEdit
<1>16. CASE Editor!SaveButton
  BY <1>2, <1>16, SavingTyped DEF Editor!SaveButton
<1>17. CASE Editor!StartImport \/ Editor!StartExport
  BY <1>2, <1>5, <1>17
     DEF Editor!StartImport, Editor!StartExport, Editor!StartTransfer
<1>18. CASE Editor!WorkerRuns
  <2>1. /\ task \in EditorJobs /\ task.scope \in EditorScopes
        /\ task.scope # NoScope /\ task.text \in EditorText
    BY <1>18 DEF Editor!WorkerRuns, EditorJobs
  <2>2. store[task.scope] \in EditorText
    BY <2>1
  <2>3. task' \in EditorJobs /\ task'.scope # NoScope
    BY <2>1, <2>2, <1>18 DEF Editor!WorkerRuns, EditorJobs
  <2>4. store' \in [EditorScopes -> EditorText]
    BY <2>1, <1>18 DEF Editor!WorkerRuns
  <2> QED  BY <2>3, <2>4, <1>2, <1>18 DEF Editor!WorkerRuns
<1>19. CASE Editor!WorkerFails
  BY <1>2, <1>19 DEF Editor!WorkerFails, EditorJobs
<1>20. CASE Editor!DeliverLoad
  <2>1. task \in EditorJobs /\ task.scope \in EditorScope /\ task.result \in EditorText
    BY <1>20 DEF Editor!DeliverLoad, Editor!Delivering, EditorJobs
  <2> QED  BY <2>1, <1>2, <1>20, DocumentTyped
              DEF Editor!DeliverLoad, Editor!Loaded, Editor!Awaits
<1>21. CASE Editor!DeliverFailure \/ Editor!DeliverExport \/ Editor!CancelReview
  BY <1>2, <1>21
     DEF Editor!DeliverFailure, Editor!DeliverExport, Editor!CancelReview,
         Editor!DropTask
<1>22. CASE Editor!DeliverPreview
  <2>1. CASE Editor!DropTask
    BY <1>2, <1>22, <2>1 DEF Editor!DropTask
  <2>2. CASE ~Editor!DropTask
    BY <1>2, <1>22, <2>2, ValueTyped
       DEF Editor!DeliverPreview, Editor!Delivering, EditorJobs
  <2> QED  BY <2>1, <2>2
<1>23. ASSUME NEW text \in EditorText, Editor!AcceptReview(text)
       PROVE  EditorTyped'
  BY <1>2, <1>23 DEF Editor!AcceptReview, EditorJobs
<1>24. ASSUME Editor!Closed, UNCHANGED store
       PROVE  EditorTyped'
  BY <1>2, <1>24, DocumentTyped DEF Editor!Closed, Editor!Begun
<1>25. CASE Editor!Close
  BY <1>24, <1>25 DEF Editor!Close
<1>26. CASE Editor!CloseSave
  BY <1>2, <1>26, SavingTyped DEF Editor!CloseSave
<1>27. CASE Editor!FinishClose
  BY <1>2, <1>24, <1>27 DEF Editor!FinishClose, Editor!tabVars
<1>28. ASSUME NEW scope \in EditorScopes, Editor!OutsideSave(scope)
       PROVE  EditorTyped'
  BY <1>2, <1>28 DEF Editor!OutsideSave, Editor!tabVars
<1>29. CASE UNCHANGED Editor!editorVars
  BY <1>2, <1>29 DEF Editor!editorVars, Editor!tabVars
<1> QED
  BY <1>6, <1>8, <1>9, <1>10, <1>11, <1>12, <1>13, <1>14, <1>15, <1>16, <1>17,
     <1>18, <1>19, <1>20, <1>21, <1>22, <1>23, <1>25, <1>26, <1>27, <1>28, <1>29
     DEF Editor!Next, Editor!User, Editor!Delivery

LEMMA LayerStep ==
  ASSUME EditorTyped, LayerIsChosen, [Editor!Next]_(Editor!editorVars)
  PROVE  LayerIsChosen'
<1> USE DEF LayerIsChosen
<1> DEFINE layer == << chosen, attached, overlay >>
<1>1. ASSUME UNCHANGED layer
      PROVE  LayerIsChosen'
  BY <1>1
<1>2. overlay \in [scope : EditorScope, ready : BOOLEAN]
  BY DEF EditorTyped, Editor!TypeOK, EditorScope
<1>3. ASSUME NEW scope, Editor!Begun(scope).ready
      PROVE  Editor!Begun(scope).scope = NoScope
  BY <1>3 DEF Editor!Begun
\* A change of scope begins a layer that is not ready, or returns to the scope
\* the document is attached to.
<1>4. ASSUME NEW scope, NEW dirty, Editor!ScopeChanged(scope, dirty),
             chosen' = scope
      PROVE  LayerIsChosen'
  BY <1>3, <1>4 DEF Editor!ScopeChanged
<1>5. ASSUME NEW scope \in EditorScopes \union {NoScope}, Editor!Choose(scope)
      PROVE  LayerIsChosen'
  BY <1>4, <1>5 DEF Editor!Choose
<1>6. CASE Editor!ScopeTimerFires \/ Editor!Reload \/ Editor!SelectAnother
           \/ Editor!EditTimerFires \/ Editor!RedoEdit \/ Editor!SaveButton
           \/ Editor!StartImport \/ Editor!StartExport
  BY <1>1, <1>6
     DEF Editor!ScopeTimerFires, Editor!Reload, Editor!SelectAnother,
         Editor!EditTimerFires, Editor!RedoEdit, Editor!SaveButton,
         Editor!StartImport, Editor!StartExport, Editor!StartTransfer
<1>7. ASSUME NEW text \in Editor!AllTexts,
             Editor!Type(text) \/ Editor!EditCommand(text)
             \/ Editor!AcceptReview(text)
      PROVE  LayerIsChosen'
  BY <1>1, <1>7 DEF Editor!Type, Editor!EditCommand, Editor!AcceptReview
<1>8. CASE Editor!UndoEdit
  <2>1. CASE Editor!ScopeChanged(chosen, FALSE)
    BY <1>4, <1>8, <2>1 DEF Editor!UndoEdit
  <2> QED  BY <1>1, <1>8, <2>1 DEF Editor!UndoEdit
<1>9. CASE Editor!WorkerRuns \/ Editor!WorkerFails
  BY <1>1, <1>9 DEF Editor!WorkerRuns, Editor!WorkerFails
\* A job's answer makes the layer ready only if it was begun for the job's
\* scope, is dropped unless that is the chosen one, and attaches the document.
<1>10. CASE Editor!DeliverLoad
  BY <1>1, <1>2, <1>10 DEF Editor!DeliverLoad, Editor!Loaded, Editor!Awaits
<1>11. CASE Editor!DeliverFailure \/ Editor!DeliverExport
            \/ Editor!DeliverPreview \/ Editor!CancelReview
  BY <1>1, <1>11
     DEF Editor!DeliverFailure, Editor!DeliverExport, Editor!DeliverPreview,
         Editor!CancelReview, Editor!DropTask
<1>12. ASSUME Editor!Closed
       PROVE  LayerIsChosen'
  BY <1>3, <1>12 DEF Editor!Closed
<1>13. CASE Editor!Close
  BY <1>12, <1>13 DEF Editor!Close
<1>14. CASE Editor!CloseSave
  BY <1>1, <1>14 DEF Editor!CloseSave
<1>15. CASE Editor!FinishClose
  BY <1>1, <1>12, <1>15 DEF Editor!FinishClose, Editor!tabVars
<1>16. ASSUME NEW scope \in EditorScopes, Editor!OutsideSave(scope)
       PROVE  LayerIsChosen'
  BY <1>1, <1>16 DEF Editor!OutsideSave, Editor!tabVars
<1>17. CASE UNCHANGED Editor!editorVars
  BY <1>1, <1>17 DEF Editor!editorVars, Editor!tabVars
<1> QED
  BY <1>5, <1>6, <1>7, <1>8, <1>9, <1>10, <1>11, <1>13, <1>14, <1>15, <1>16, <1>17
     DEF Editor!Next, Editor!User, Editor!Delivery

LEMMA JobsStep ==
  ASSUME EditorTyped, JobShowsDocument, [Editor!Next]_(Editor!editorVars)
  PROVE  JobShowsDocument'
<1> USE DEF JobShowsDocument, Editor!Open
\* Edits leave the baseline of the document alone.
<1>1. ASSUME doc'.baseline = doc.baseline, UNCHANGED << task, window >>
      PROVE  JobShowsDocument'
  BY <1>1
<1>2. ASSUME task' = Nothing
      PROVE  JobShowsDocument'
  BY <1>2
<1>3. ASSUME NEW discards, Editor!Dirty => discards,
             doc' = doc, task' = Editor!Load(chosen, discards)
      PROVE  JobShowsDocument'
  BY <1>3 DEF Editor!Load, Editor!Job, Editor!Dirty
<1>4. ASSUME NEW scope \in EditorScopes \union {NoScope}, Editor!Choose(scope)
      PROVE  JobShowsDocument'
  BY <1>1, <1>4 DEF Editor!Choose
<1>5. CASE Editor!ScopeTimerFires
  <2>1. CASE Editor!MayLoad
    BY <1>3, <1>5, <2>1 DEF Editor!ScopeTimerFires, Editor!MayLoad
  <2> QED  BY <1>1, <1>5, <2>1 DEF Editor!ScopeTimerFires
<1>6. CASE Editor!Reload
  BY <1>3, <1>6 DEF Editor!Reload
<1>7. CASE Editor!SelectAnother
  BY <1>1, <1>7 DEF Editor!SelectAnother
<1>8. ASSUME NEW text \in Editor!AllTexts, Editor!Type(text)
      PROVE  JobShowsDocument'
  BY <1>1, <1>8 DEF Editor!Type
<1>9. CASE Editor!EditTimerFires
  BY <1>1, <1>9, FlushedTyped DEF Editor!EditTimerFires
<1>10. ASSUME NEW text \in Editor!AllTexts, Editor!EditCommand(text)
       PROVE  JobShowsDocument'
  BY <1>1, <1>10, EditedTyped
     DEF Editor!EditCommand, EditorTyped, Editor!AllTexts, EditorText
<1>11. CASE Editor!UndoEdit
  BY <1>1, <1>11 DEF Editor!UndoEdit, EditorTyped, Documents
<1>12. CASE Editor!RedoEdit
  BY <1>1, <1>12 DEF Editor!RedoEdit, EditorTyped, Documents
<1>13. ASSUME Editor!SaveUserEdits, window' = window \/ window' = "saving",
              Editor!Free
       PROVE  JobShowsDocument'
  BY <1>13, SavingTyped DEF Editor!Free, EditorJobs
<1>14. CASE Editor!SaveButton
  BY <1>13, <1>14 DEF Editor!SaveButton
<1>15. CASE Editor!StartImport \/ Editor!StartExport
  BY <1>15
     DEF Editor!StartImport, Editor!StartExport, Editor!StartTransfer, Editor!Job
<1>16. CASE Editor!WorkerRuns
  <2>1. task \in EditorJobs
    BY <1>16 DEF Editor!WorkerRuns, EditorTyped
  <2> QED  BY <1>16, <2>1 DEF Editor!WorkerRuns, EditorJobs
<1>17. CASE Editor!WorkerFails
  <2>1. task \in EditorJobs
    BY <1>17 DEF Editor!WorkerFails, EditorTyped
  <2> QED  BY <1>17, <2>1 DEF Editor!WorkerFails, EditorJobs
<1>18. CASE Editor!DeliverLoad
  BY <1>2, <1>18 DEF Editor!DeliverLoad
<1>19. CASE Editor!DeliverFailure \/ Editor!DeliverExport \/ Editor!CancelReview
  BY <1>2, <1>19
     DEF Editor!DeliverFailure, Editor!DeliverExport, Editor!CancelReview,
         Editor!DropTask
<1>20. CASE Editor!DeliverPreview
  <2>1. task \in EditorJobs /\ task.kind = "preview"
    BY <1>20 DEF Editor!DeliverPreview, Editor!Delivering, EditorTyped
  <2>2. CASE Editor!StillPlanned
    BY <1>20, <2>1, <2>2
       DEF Editor!DeliverPreview, Editor!StillPlanned, Editor!Dirty, EditorJobs
  <2> QED  BY <1>2, <1>20, <2>2 DEF Editor!DeliverPreview, Editor!DropTask
\* The review showed the text the document was loaded with.
<1>21. ASSUME NEW text \in Editor!AllTexts, Editor!AcceptReview(text)
       PROVE  JobShowsDocument'
  <2>1. task \in EditorJobs /\ task.stage = "review"
    BY <1>21 DEF Editor!AcceptReview, Editor!Modal, EditorTyped
  <2> QED  BY <1>21, <2>1 DEF Editor!AcceptReview, Editor!Modal, EditorJobs
<1>22. CASE Editor!Close
  BY <1>22 DEF Editor!Close, Editor!Closed
<1>23. CASE Editor!CloseSave
  BY <1>13, <1>23 DEF Editor!CloseSave
<1>24. CASE Editor!FinishClose
  BY <1>24 DEF Editor!FinishClose, Editor!Closed, Editor!tabVars
<1>25. ASSUME NEW scope \in EditorScopes, Editor!OutsideSave(scope)
       PROVE  JobShowsDocument'
  BY <1>1, <1>25 DEF Editor!OutsideSave, Editor!tabVars
<1>26. CASE UNCHANGED Editor!editorVars
  BY <1>1, <1>26 DEF Editor!editorVars, Editor!tabVars
<1> QED
  BY <1>4, <1>5, <1>6, <1>7, <1>8, <1>9, <1>10, <1>11, <1>12, <1>14, <1>15, <1>16,
     <1>17, <1>18, <1>19, <1>20, <1>21, <1>22, <1>23, <1>24, <1>25, <1>26
     DEF Editor!Next, Editor!User, Editor!Delivery

LEMMA EditorInvInit == Editor!Init => EditorInv
<1>1. ASSUME Editor!Init
      PROVE  LayerIsChosen /\ JobShowsDocument
  BY <1>1 DEF Editor!Init, LayerIsChosen, JobShowsDocument
<1> QED  BY <1>1, EditorTypedInit DEF EditorInv

LEMMA EditorInvStep == EditorInv /\ [Editor!Next]_(Editor!editorVars) => EditorInv'
BY EditorTypedStep, LayerStep, JobsStep DEF EditorInv

\* What a delivery replaces: DeliveryLosesOnlyLaterEdits' formula.
LEMMA DeliveryStep ==
  ASSUME EditorInv, Editor!Delivering({"load", "save"}), Editor!DeliverLoad,
         Editor!Value(doc) = task.shown
  PROVE  task.discards \/ Editor!Value(doc) \in {doc.baseline, task.result}
BY DEF EditorInv, JobShowsDocument, Editor!Delivering

THEOREM EditorTypeCorrect == Editor!Spec => []Editor!TypeOK
<1>1. EditorInv => Editor!TypeOK
  BY DEF EditorInv, EditorTyped
<1> QED  BY <1>1, EditorInvInit, EditorInvStep, PTL DEF Editor!Spec

-----------------------------------------------------------------------------
(***************************************************************************)
(* The run's own specification: each of its protocols behaves as if it     *)
(* were alone.                                                             *)
(***************************************************************************)
LEMMA DataRunsEach == DataSpec => Spec /\ Personal!Spec /\ Editor!Spec
<1>1. DataInit => Init /\ Personal!Init /\ Editor!Init
  BY DEF DataInit
<1>2. ASSUME [DataNext]_<< vars, editVars, tabVars, subject >>
      PROVE  /\ [Next]_vars
             /\ [Personal!Next]_(Personal!vars)
             /\ [Editor!Next]_(Editor!editorVars)
  BY <1>2
     DEF DataNext, editVars, tabVars, Personal!vars, Personal!files, Personal!ghosts,
         Editor!editorVars, Editor!tabVars
<1> QED  BY <1>1, <1>2, PTL DEF DataSpec, Spec, Personal!Spec, Editor!Spec

\* Whatever is undone or redone, user.ini returns to values it has held: the
\* run's property of the user edits, for every player's keys and texts.
THEOREM EditsUndoToThePast == DataSpec => []UndoReturnsToThePast
<1>1. Personal!Spec => []Personal!UndoReturnsToThePast
  BY Personal!UndoLeadsToThePast, EditConstants
<1> QED  BY <1>1, DataRunsEach, PTL DEF UndoReturnsToThePast

\* Only a value the player wrote himself is called authored.
THEOREM EditsNameTheirAuthor == DataSpec => []AuthoredMeansAuthored
<1>1. Personal!Spec => []Personal!AuthoredMeansAuthored
  BY Personal!OnlyTheAuthoredIsAuthored, EditConstants
<1> QED  BY <1>1, DataRunsEach, PTL DEF AuthoredMeansAuthored

\* A save copies user.ini before it replaces it.
THEOREM EditsCopyBeforeReplacing == DataSpec => SnapshotBeforeReplace
<1>1. Personal!Spec => Personal!SnapshotBeforeReplace
  BY Personal!ReplacedIsCopied, EditConstants
<1> QED  BY <1>1, DataRunsEach, PTL DEF SnapshotBeforeReplace

\* The layer of edits that is ready for an update is never another channel's.
THEOREM ReadyLayerIsChosen == DataSpec => []NoOtherChannelsLayer
<1>1. EditorInv => NoOtherChannelsLayer
  BY DEF EditorInv, LayerIsChosen, NoOtherChannelsLayer, Editor!NoOtherChannelsLayer
<1> QED  BY <1>1, EditorInvInit, EditorInvStep, DataRunsEach, PTL DEF Editor!Spec

\* The answer of a job takes nothing from the user but later edits.
THEOREM LosesOnlyLaterEdits == DataSpec => DeliveryLosesOnlyLaterEdits
<1>1. EditorInv =>
        (Editor!Delivering({"load", "save"}) /\ Editor!DeliverLoad /\ doc' # doc
           => \/ task.discards
              \/ Editor!Value(doc) # task.shown
              \/ Editor!Value(doc) \in {doc.baseline, task.result})
  BY DeliveryStep
<1> QED  BY <1>1, EditorInvInit, EditorInvStep, DataRunsEach, PTL
            DEF Editor!Spec, DeliveryLosesOnlyLaterEdits,
                Editor!DeliveryLosesOnlyLaterEdits
=============================================================================
