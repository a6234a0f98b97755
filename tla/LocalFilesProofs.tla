-------------------------- MODULE LocalFilesProofs --------------------------
(***************************************************************************)
(* Theorems about the files that others may be using while they are        *)
(* replaced: ApplyTransaction, for any sessions, contents, retention and   *)
(* bounds, whoever writes the file in between; and the run's properties of *)
(* the data directory's move and of a restore of exported settings.        *)
(*                                                                         *)
(* If nobody resolves the journal while a transaction is under way         *)
(* (ResolveInFlight), the file is replaced only under the transaction's    *)
(* own journal, and what was replaced can be brought back.                 *)
(*                                                                         *)
(* The copy is made before the second fingerprint, of a file that others   *)
(* may have written in between.  The invariant says that it is good if the *)
(* file still is what was reviewed (no fingerprint comes back), and the    *)
(* second fingerprint makes it good for the rest of the transaction.       *)
(***************************************************************************)
EXTENDS MCLocalFiles, TLAPS

\* A session has a journal of its own, and a copy, from one phase to another.
JournalPhases == {"copying", "recording", "rechecking", "replacing", "noting",
                  "verifying", "completing"}
CopyPhases    == {"replacing", "noting", "verifying", "completing", "closing",
                  "pruning"}

\* No fingerprint is newer than the last write.
StampsArePast ==
  /\ target.stamp <= writes
  /\ \A s \in Sessions : plan[s].before.stamp <= writes

\* Nobody resolves the journal of a transaction under way.
ResolversAreAlone == lock # NoSession => \A s \in Sessions : ~Resolving(s)

NothingMade(s) ==
  phase[s] \in OutsidePhases \union {"checking", "copying"} => made[s] = NoBackup

OwnJournal(s) ==
  /\ phase[s] \in JournalPhases =>
       /\ ~NoJournal
       /\ journal.before = plan[s].before
       /\ journal.after = plan[s].after
  /\ phase[s] = "copying" => journal.backup = NoBackup
  /\ phase[s] \in {"rechecking", "replacing", "noting", "verifying", "completing"}
       => journal.backup = made[s]
  /\ phase[s] \in {"closing", "pruning"} =>
       /\ lastOp.before = plan[s].before
       /\ lastOp.backup = made[s]
  /\ phase[s] = "pruning" => NoJournal

JournalsAreOwn == \A s \in Sessions : NothingMade(s) /\ OwnJournal(s)

Copied(s) == Exists(plan[s].before) => Holds(made[s], plan[s].before.content)

\* Until it is replaced, the file is what was reviewed or what others wrote.
NotYetReplaced ==
  \A s \in Sessions :
    phase[s] \in {"copying", "recording", "rechecking", "replacing"}
      => target = plan[s].before \/ target.content # plan[s].after

CopiesAreGood ==
  \A s \in Sessions :
    /\ phase[s] \in {"recording", "rechecking"} /\ target = plan[s].before
         => Copied(s)
    /\ phase[s] \in CopyPhases => Copied(s)

\* Who found the operation applied completes it as it was, whatever is written
\* to the file meanwhile.
FinishersKeepUndo ==
  \A s \in Sessions : phase[s] = "finishing" /\ ~NoJournal /\ Exists(journal.before)
    => Holds(journal.backup, journal.before.content)

\* Without outside writes in the gap, what is replaced is what was reviewed.
NobodyInTheGap ==
  \A s \in Sessions : phase[s] = "replacing" => target = plan[s].before

IInv ==
  /\ TypeOK
  /\ StampsArePast
  /\ ResolversAreAlone
  /\ JournalsAreOwn
  /\ NotYetReplaced
  /\ CopiesAreGood
  /\ FinishersKeepUndo
  /\ UndoIsKept

-----------------------------------------------------------------------------
(* The parts of the invariant.                                             *)

\* A plan whose fingerprint is taken again is a plan.
LEMMA PlanAgain ==
  ASSUME NEW p \in Plans, NEW fp \in Fingerprints
  PROVE  [p EXCEPT !.before = fp] \in Plans
BY DEF Plans

LEMMA TypeStep ==
  ASSUME TypeOK, [Next]_vars
  PROVE  TypeOK'
<1> USE TransactionAssumption DEF TransactionAssumption, TypeOK, Fingerprints,
    Records, Plans, Stages, Kinds, Contents, NoTarget, NoRecord, NoPlan,
    OutsidePhases, LockedPhases, Names, NoBackup
<1>1. ASSUME NEW s \in Sessions, PreviewApply(s)
      PROVE  TypeOK'
  BY <1>1 DEF PreviewApply, Preview, Advance, Goto
<1>2. ASSUME NEW s \in Sessions, PreviewRollback(s)
      PROVE  TypeOK'
  <2>1. PICK n \in Names : Preview(s, "rollback", backups[n], n)
    BY <1>2 DEF PreviewRollback, Saved
  <2>2. [kind |-> "rollback", before |-> target, after |-> backups[n], source |-> n]
          \in Plans
    OBVIOUS
  <2> QED
    BY <2>1, <2>2 DEF Preview, Advance, Goto
<1>3. ASSUME NEW s \in Sessions, PreviewControl(s)
      PROVE  TypeOK'
  BY <1>3 DEF PreviewControl, Preview, Advance, Goto
<1>4. ASSUME NEW s \in Sessions, Inspect(s)
      PROVE  TypeOK'
  <2>1. /\ phase[s] = "reviewed"
        /\ \E p \in {"cleared", "discarding", "finishing"} :
             phase' = [phase EXCEPT ![s] = p]
        /\ UNCHANGED << target, writes, journal, lastOp, backups, lock, plan,
                        made >>
    BY <1>4 DEF Inspect, Advance, Goto
  <2> QED
    BY <2>1
<1>5. ASSUME NEW s \in Sessions, FinishOther(s)
      PROVE  TypeOK'
  BY <1>5 DEF FinishOther, Finish, Advance, Goto
<1>6. ASSUME NEW s \in Sessions, DiscardOther(s)
      PROVE  TypeOK'
  BY <1>6 DEF DiscardOther, Discard, Advance, Goto
<1>7. ASSUME NEW s \in Sessions, TakeFingerprint(s)
      PROVE  TypeOK'
  <2>1. [plan[s] EXCEPT !.before = target] \in Plans
    <3> HIDE DEF Plans, Fingerprints
    <3> QED
      BY PlanAgain
  <2>2. plan' = [plan EXCEPT ![s] = [plan[s] EXCEPT !.before = target]]
    BY <1>7 DEF TakeFingerprint
  <2> QED
    BY <1>7, <2>1, <2>2 DEF TakeFingerprint, Advance, Goto
<1>8. ASSUME NEW s \in Sessions, KeepReviewed(s)
      PROVE  TypeOK'
  BY <1>8 DEF KeepReviewed, Advance, Goto
<1>9. ASSUME NEW s \in Sessions, Acquire(s)
      PROVE  TypeOK'
  BY <1>9 DEF Acquire, Advance, Goto
<1>10. ASSUME NEW s \in Sessions, Begin(s)
      PROVE  TypeOK'
  BY <1>10 DEF Begin, AsReviewed, Advance, Goto
<1>11. ASSUME NEW s \in Sessions, CopyBackup(s)
      PROVE  TypeOK'
  <2>1. /\ phase[s] = "copying"
        /\ \E p \in {"recording", "rechecking"} : phase' = [phase EXCEPT ![s] = p]
        /\ UNCHANGED << target, writes, journal, lastOp, lock, plan >>
    BY <1>11 DEF CopyBackup, Advance, Goto
  <2>2. backups' \in [Names -> Contents \union {Missing}]
        /\ made' \in [Sessions -> Names \union {NoBackup}]
    <3>1. CASE UNCHANGED << backups, made >>
      BY <3>1
    <3>2. ASSUME NEW n \in Names, NEW content \in Contents \union {Missing},
                 SaveAs(s, n, content)
          PROVE  /\ backups' \in [Names -> Contents \union {Missing}]
                 /\ made' \in [Sessions -> Names \union {NoBackup}]
      BY <3>2 DEF SaveAs
    <3>3. \/ UNCHANGED << backups, made >>
          \/ \E n \in Names, content \in Contents \union {Missing} :
               SaveAs(s, n, content)
      <4>1. (IF Exists(target) THEN target.content ELSE Stock)
              \in Contents \union {Missing}
        OBVIOUS
      <4> QED
        BY <1>11, <4>1 DEF CopyBackup, FreeNames
    <3> QED
      BY <3>1, <3>2, <3>3
  <2>3. /\ phase' \in [Sessions -> OutsidePhases \union LockedPhases]
        /\ \A q \in Sessions : lock' = q <=> phase'[q] \in LockedPhases
    BY <2>1
  <2> QED
    BY <2>1, <2>2, <2>3
<1>12. ASSUME NEW s \in Sessions, RecordBackup(s)
      PROVE  TypeOK'
  BY <1>12 DEF RecordBackup, Record, Advance, Goto
<1>13. ASSUME NEW s \in Sessions, Recheck(s)
      PROVE  TypeOK'
  BY <1>13 DEF Recheck, AsReviewed, Advance, Goto
<1>14. ASSUME NEW s \in Sessions, Replace(s)
      PROVE  TypeOK'
  BY <1>14 DEF Replace, WriteTarget, Advance, Goto
<1>15. ASSUME NEW s \in Sessions, RecordReplaced(s)
      PROVE  TypeOK'
  BY <1>15 DEF RecordReplaced, Record, Advance, Goto
<1>16. ASSUME NEW s \in Sessions, Verify(s)
      PROVE  TypeOK'
  BY <1>16 DEF Verify, Advance, Goto
<1>17. ASSUME NEW s \in Sessions, Complete(s)
      PROVE  TypeOK'
  BY <1>17 DEF Complete, Finish, Advance, Goto
<1>18. ASSUME NEW s \in Sessions, Close(s)
      PROVE  TypeOK'
  BY <1>18 DEF Close, Discard, Advance, Goto
<1>19. ASSUME NEW s \in Sessions, Prune(s)
      PROVE  TypeOK'
  BY <1>19 DEF Prune, Forget, Advance, Goto
<1>20. ASSUME NEW s \in Sessions, Stop(s)
      PROVE  TypeOK'
  BY <1>20 DEF Stop, Forget, Goto
<1>21. ASSUME NEW content \in Foreign \union {Stock, Missing}, OutsideWrite(content)
      PROVE  TypeOK'
  BY <1>21 DEF OutsideWrite, WriteTarget
<1>22. CASE UNCHANGED vars
  BY <1>22 DEF vars
<1> QED
  BY <1>1, <1>2, <1>3, <1>4, <1>5, <1>6, <1>7, <1>8, <1>9, <1>10, <1>11, <1>12,
     <1>13, <1>14, <1>15, <1>16, <1>17, <1>18, <1>19, <1>20, <1>21, <1>22
     DEF Next, Step

LEMMA StampsStep ==
  ASSUME TypeOK, StampsArePast, [Next]_vars
  PROVE  StampsArePast'
<1> USE TransactionAssumption DEF TransactionAssumption, TypeOK, Fingerprints,
    Records, Plans, Stages, Kinds, Contents, NoTarget, NoRecord, NoPlan,
    OutsidePhases, LockedPhases, Names, NoBackup, StampsArePast
<1>1. ASSUME NEW s \in Sessions, PreviewApply(s)
      PROVE  StampsArePast'
  BY <1>1 DEF PreviewApply, Preview, Advance, Goto
<1>2. ASSUME NEW s \in Sessions, PreviewRollback(s)
      PROVE  StampsArePast'
  BY <1>2 DEF PreviewRollback, Preview, Saved, Advance, Goto
<1>3. ASSUME NEW s \in Sessions, PreviewControl(s)
      PROVE  StampsArePast'
  BY <1>3 DEF PreviewControl, Preview, Advance, Goto
<1>4. ASSUME NEW s \in Sessions, Inspect(s)
      PROVE  StampsArePast'
  BY <1>4 DEF Inspect, Advance, Goto
<1>5. ASSUME NEW s \in Sessions, FinishOther(s)
      PROVE  StampsArePast'
  BY <1>5 DEF FinishOther, Finish, Advance, Goto
<1>6. ASSUME NEW s \in Sessions, DiscardOther(s)
      PROVE  StampsArePast'
  BY <1>6 DEF DiscardOther, Discard, Advance, Goto
<1>7. ASSUME NEW s \in Sessions, TakeFingerprint(s)
      PROVE  StampsArePast'
  BY <1>7 DEF TakeFingerprint, Advance, Goto
<1>8. ASSUME NEW s \in Sessions, KeepReviewed(s)
      PROVE  StampsArePast'
  BY <1>8 DEF KeepReviewed, Advance, Goto
<1>9. ASSUME NEW s \in Sessions, Acquire(s)
      PROVE  StampsArePast'
  BY <1>9 DEF Acquire, Advance, Goto
<1>10. ASSUME NEW s \in Sessions, Begin(s)
      PROVE  StampsArePast'
  BY <1>10 DEF Begin, AsReviewed, Advance, Goto
<1>11. ASSUME NEW s \in Sessions, CopyBackup(s)
      PROVE  StampsArePast'
  BY <1>11 DEF CopyBackup, SaveAs, FreeNames, Saved, Advance, Goto
<1>12. ASSUME NEW s \in Sessions, RecordBackup(s)
      PROVE  StampsArePast'
  BY <1>12 DEF RecordBackup, Record, Advance, Goto
<1>13. ASSUME NEW s \in Sessions, Recheck(s)
      PROVE  StampsArePast'
  BY <1>13 DEF Recheck, AsReviewed, Advance, Goto
<1>14. ASSUME NEW s \in Sessions, Replace(s)
      PROVE  StampsArePast'
  BY <1>14 DEF Replace, WriteTarget, Advance, Goto
<1>15. ASSUME NEW s \in Sessions, RecordReplaced(s)
      PROVE  StampsArePast'
  BY <1>15 DEF RecordReplaced, Record, Advance, Goto
<1>16. ASSUME NEW s \in Sessions, Verify(s)
      PROVE  StampsArePast'
  BY <1>16 DEF Verify, Advance, Goto
<1>17. ASSUME NEW s \in Sessions, Complete(s)
      PROVE  StampsArePast'
  BY <1>17 DEF Complete, Finish, Advance, Goto
<1>18. ASSUME NEW s \in Sessions, Close(s)
      PROVE  StampsArePast'
  BY <1>18 DEF Close, Discard, Advance, Goto
<1>19. ASSUME NEW s \in Sessions, Prune(s)
      PROVE  StampsArePast'
  BY <1>19 DEF Prune, Forget, Advance, Goto
<1>20. ASSUME NEW s \in Sessions, Stop(s)
      PROVE  StampsArePast'
  BY <1>20 DEF Stop, Forget, Goto
<1>21. ASSUME NEW content \in Foreign \union {Stock, Missing}, OutsideWrite(content)
      PROVE  StampsArePast'
  BY <1>21 DEF OutsideWrite, WriteTarget
<1>22. CASE UNCHANGED vars
  BY <1>22 DEF vars
<1> QED
  BY <1>1, <1>2, <1>3, <1>4, <1>5, <1>6, <1>7, <1>8, <1>9, <1>10, <1>11, <1>12,
     <1>13, <1>14, <1>15, <1>16, <1>17, <1>18, <1>19, <1>20, <1>21, <1>22
     DEF Next, Step

\* Resolving and a transaction exclude each other.
LEMMA ResolversStep ==
  ASSUME ~ResolveInFlight, TypeOK, ResolversAreAlone, [Next]_vars
  PROVE  ResolversAreAlone'
<1> USE TransactionAssumption DEF TransactionAssumption, TypeOK, OutsidePhases,
    LockedPhases, ResolversAreAlone, Resolving
<1>1. ASSUME NEW s \in Sessions, PreviewApply(s)
      PROVE  ResolversAreAlone'
  BY <1>1 DEF PreviewApply, Preview, Advance, Goto
<1>2. ASSUME NEW s \in Sessions, PreviewRollback(s)
      PROVE  ResolversAreAlone'
  BY <1>2 DEF PreviewRollback, Preview, Saved, Advance, Goto
<1>3. ASSUME NEW s \in Sessions, PreviewControl(s)
      PROVE  ResolversAreAlone'
  BY <1>3 DEF PreviewControl, Preview, Advance, Goto
<1>4. ASSUME NEW s \in Sessions, Inspect(s)
      PROVE  ResolversAreAlone'
  <2>1. /\ lock = NoSession
        /\ phase[s] = "reviewed"
        /\ \E p \in {"cleared", "discarding", "finishing"} :
             phase' = [phase EXCEPT ![s] = p]
        /\ UNCHANGED << target, writes, journal, lastOp, backups, lock, plan,
                        made >>
    BY <1>4 DEF Inspect, MayResolve, Advance, Goto
  <2> QED
    BY <2>1
<1>5. ASSUME NEW s \in Sessions, FinishOther(s)
      PROVE  ResolversAreAlone'
  BY <1>5 DEF FinishOther, Finish, Advance, Goto
<1>6. ASSUME NEW s \in Sessions, DiscardOther(s)
      PROVE  ResolversAreAlone'
  BY <1>6 DEF DiscardOther, Discard, Advance, Goto
<1>7. ASSUME NEW s \in Sessions, TakeFingerprint(s)
      PROVE  ResolversAreAlone'
  BY <1>7 DEF TakeFingerprint, Advance, Goto
<1>8. ASSUME NEW s \in Sessions, KeepReviewed(s)
      PROVE  ResolversAreAlone'
  BY <1>8 DEF KeepReviewed, Advance, Goto
<1>9. ASSUME NEW s \in Sessions, Acquire(s)
      PROVE  ResolversAreAlone'
  BY <1>9 DEF Acquire, Advance, Goto
<1>10. ASSUME NEW s \in Sessions, Begin(s)
      PROVE  ResolversAreAlone'
  BY <1>10 DEF Begin, AsReviewed, Advance, Goto
<1>11. ASSUME NEW s \in Sessions, CopyBackup(s)
      PROVE  ResolversAreAlone'
  BY <1>11 DEF CopyBackup, SaveAs, FreeNames, Saved, Advance, Goto
<1>12. ASSUME NEW s \in Sessions, RecordBackup(s)
      PROVE  ResolversAreAlone'
  BY <1>12 DEF RecordBackup, Record, Advance, Goto
<1>13. ASSUME NEW s \in Sessions, Recheck(s)
      PROVE  ResolversAreAlone'
  BY <1>13 DEF Recheck, AsReviewed, Advance, Goto
<1>14. ASSUME NEW s \in Sessions, Replace(s)
      PROVE  ResolversAreAlone'
  BY <1>14 DEF Replace, WriteTarget, Advance, Goto
<1>15. ASSUME NEW s \in Sessions, RecordReplaced(s)
      PROVE  ResolversAreAlone'
  BY <1>15 DEF RecordReplaced, Record, Advance, Goto
<1>16. ASSUME NEW s \in Sessions, Verify(s)
      PROVE  ResolversAreAlone'
  BY <1>16 DEF Verify, Advance, Goto
<1>17. ASSUME NEW s \in Sessions, Complete(s)
      PROVE  ResolversAreAlone'
  BY <1>17 DEF Complete, Finish, Advance, Goto
<1>18. ASSUME NEW s \in Sessions, Close(s)
      PROVE  ResolversAreAlone'
  BY <1>18 DEF Close, Discard, Advance, Goto
<1>19. ASSUME NEW s \in Sessions, Prune(s)
      PROVE  ResolversAreAlone'
  BY <1>19 DEF Prune, Forget, Advance, Goto
<1>20. ASSUME NEW s \in Sessions, Stop(s)
      PROVE  ResolversAreAlone'
  BY <1>20 DEF Stop, Forget, Goto
<1>21. ASSUME NEW content \in Foreign \union {Stock, Missing}, OutsideWrite(content)
      PROVE  ResolversAreAlone'
  BY <1>21 DEF OutsideWrite, WriteTarget
<1>22. CASE UNCHANGED vars
  BY <1>22 DEF vars
<1> QED
  BY <1>1, <1>2, <1>3, <1>4, <1>5, <1>6, <1>7, <1>8, <1>9, <1>10, <1>11, <1>12,
     <1>13, <1>14, <1>15, <1>16, <1>17, <1>18, <1>19, <1>20, <1>21, <1>22
     DEF Next, Step

\* Nobody but the holder of the lock writes the journal meanwhile.
LEMMA JournalsStep ==
  ASSUME TypeOK, ResolversAreAlone, JournalsAreOwn, [Next]_vars
  PROVE  JournalsAreOwn'
<1> USE TransactionAssumption DEF TransactionAssumption, TypeOK, Fingerprints,
    Records, Plans, Stages, Kinds, Contents, NoTarget, NoRecord, NoPlan,
    OutsidePhases, LockedPhases, Names, NoBackup, ResolversAreAlone, Resolving,
    JournalsAreOwn, NothingMade, OwnJournal, JournalPhases, NoJournal
<1>1. ASSUME NEW s \in Sessions, PreviewApply(s)
      PROVE  JournalsAreOwn'
  BY <1>1 DEF PreviewApply, Preview, Advance, Goto
<1>2. ASSUME NEW s \in Sessions, PreviewRollback(s)
      PROVE  JournalsAreOwn'
  BY <1>2 DEF PreviewRollback, Preview, Saved, Advance, Goto
<1>3. ASSUME NEW s \in Sessions, PreviewControl(s)
      PROVE  JournalsAreOwn'
  BY <1>3 DEF PreviewControl, Preview, Advance, Goto
<1>4. ASSUME NEW s \in Sessions, Inspect(s)
      PROVE  JournalsAreOwn'
  BY <1>4 DEF Inspect, Advance, Goto
<1>5. ASSUME NEW s \in Sessions, FinishOther(s)
      PROVE  JournalsAreOwn'
  BY <1>5 DEF FinishOther, Finish, Advance, Goto
<1>6. ASSUME NEW s \in Sessions, DiscardOther(s)
      PROVE  JournalsAreOwn'
  BY <1>6 DEF DiscardOther, Discard, Advance, Goto
<1>7. ASSUME NEW s \in Sessions, TakeFingerprint(s)
      PROVE  JournalsAreOwn'
  BY <1>7 DEF TakeFingerprint, Advance, Goto
<1>8. ASSUME NEW s \in Sessions, KeepReviewed(s)
      PROVE  JournalsAreOwn'
  BY <1>8 DEF KeepReviewed, Advance, Goto
<1>9. ASSUME NEW s \in Sessions, Acquire(s)
      PROVE  JournalsAreOwn'
  BY <1>9 DEF Acquire, Advance, Goto
<1>10. ASSUME NEW s \in Sessions, Begin(s)
      PROVE  JournalsAreOwn'
  BY <1>10 DEF Begin, AsReviewed, Advance, Goto
<1>11. ASSUME NEW s \in Sessions, CopyBackup(s)
      PROVE  JournalsAreOwn'
  BY <1>11 DEF CopyBackup, SaveAs, FreeNames, Saved, Advance, Goto
<1>12. ASSUME NEW s \in Sessions, RecordBackup(s)
      PROVE  JournalsAreOwn'
  BY <1>12 DEF RecordBackup, Record, Advance, Goto
<1>13. ASSUME NEW s \in Sessions, Recheck(s)
      PROVE  JournalsAreOwn'
  BY <1>13 DEF Recheck, AsReviewed, Advance, Goto
<1>14. ASSUME NEW s \in Sessions, Replace(s)
      PROVE  JournalsAreOwn'
  BY <1>14 DEF Replace, WriteTarget, Advance, Goto
<1>15. ASSUME NEW s \in Sessions, RecordReplaced(s)
      PROVE  JournalsAreOwn'
  BY <1>15 DEF RecordReplaced, Record, Advance, Goto
<1>16. ASSUME NEW s \in Sessions, Verify(s)
      PROVE  JournalsAreOwn'
  BY <1>16 DEF Verify, Advance, Goto
<1>17. ASSUME NEW s \in Sessions, Complete(s)
      PROVE  JournalsAreOwn'
  BY <1>17 DEF Complete, Finish, Advance, Goto
<1>18. ASSUME NEW s \in Sessions, Close(s)
      PROVE  JournalsAreOwn'
  BY <1>18 DEF Close, Discard, Advance, Goto
<1>19. ASSUME NEW s \in Sessions, Prune(s)
      PROVE  JournalsAreOwn'
  BY <1>19 DEF Prune, Forget, Advance, Goto
<1>20. ASSUME NEW s \in Sessions, Stop(s)
      PROVE  JournalsAreOwn'
  BY <1>20 DEF Stop, Forget, Goto
<1>21. ASSUME NEW content \in Foreign \union {Stock, Missing}, OutsideWrite(content)
      PROVE  JournalsAreOwn'
  BY <1>21 DEF OutsideWrite, WriteTarget
<1>22. CASE UNCHANGED vars
  BY <1>22 DEF vars
<1> QED
  BY <1>1, <1>2, <1>3, <1>4, <1>5, <1>6, <1>7, <1>8, <1>9, <1>10, <1>11, <1>12,
     <1>13, <1>14, <1>15, <1>16, <1>17, <1>18, <1>19, <1>20, <1>21, <1>22
     DEF Next, Step

\* An outside writer never writes what is about to be written.
LEMMA NotYetStep ==
  ASSUME TypeOK, JournalsAreOwn, NotYetReplaced, [Next]_vars
  PROVE  NotYetReplaced'
<1> USE TransactionAssumption DEF TransactionAssumption, TypeOK, Fingerprints,
    Records, Plans, Stages, Kinds, Contents, NoTarget, NoRecord, NoPlan,
    OutsidePhases, LockedPhases, Names, NoBackup, JournalsAreOwn, OwnJournal,
    JournalPhases, NoJournal, NotYetReplaced
<1>1. ASSUME NEW s \in Sessions, PreviewApply(s)
      PROVE  NotYetReplaced'
  BY <1>1 DEF PreviewApply, Preview, Advance, Goto
<1>2. ASSUME NEW s \in Sessions, PreviewRollback(s)
      PROVE  NotYetReplaced'
  BY <1>2 DEF PreviewRollback, Preview, Saved, Advance, Goto
<1>3. ASSUME NEW s \in Sessions, PreviewControl(s)
      PROVE  NotYetReplaced'
  BY <1>3 DEF PreviewControl, Preview, Advance, Goto
<1>4. ASSUME NEW s \in Sessions, Inspect(s)
      PROVE  NotYetReplaced'
  BY <1>4 DEF Inspect, Advance, Goto
<1>5. ASSUME NEW s \in Sessions, FinishOther(s)
      PROVE  NotYetReplaced'
  BY <1>5 DEF FinishOther, Finish, Advance, Goto
<1>6. ASSUME NEW s \in Sessions, DiscardOther(s)
      PROVE  NotYetReplaced'
  BY <1>6 DEF DiscardOther, Discard, Advance, Goto
<1>7. ASSUME NEW s \in Sessions, TakeFingerprint(s)
      PROVE  NotYetReplaced'
  BY <1>7 DEF TakeFingerprint, Advance, Goto
<1>8. ASSUME NEW s \in Sessions, KeepReviewed(s)
      PROVE  NotYetReplaced'
  BY <1>8 DEF KeepReviewed, Advance, Goto
<1>9. ASSUME NEW s \in Sessions, Acquire(s)
      PROVE  NotYetReplaced'
  BY <1>9 DEF Acquire, Advance, Goto
<1>10. ASSUME NEW s \in Sessions, Begin(s)
      PROVE  NotYetReplaced'
  BY <1>10 DEF Begin, AsReviewed, Advance, Goto
<1>11. ASSUME NEW s \in Sessions, CopyBackup(s)
      PROVE  NotYetReplaced'
  BY <1>11 DEF CopyBackup, SaveAs, FreeNames, Saved, Advance, Goto
<1>12. ASSUME NEW s \in Sessions, RecordBackup(s)
      PROVE  NotYetReplaced'
  BY <1>12 DEF RecordBackup, Record, Advance, Goto
<1>13. ASSUME NEW s \in Sessions, Recheck(s)
      PROVE  NotYetReplaced'
  BY <1>13 DEF Recheck, AsReviewed, Advance, Goto
<1>14. ASSUME NEW s \in Sessions, Replace(s)
      PROVE  NotYetReplaced'
  BY <1>14 DEF Replace, WriteTarget, Advance, Goto
<1>15. ASSUME NEW s \in Sessions, RecordReplaced(s)
      PROVE  NotYetReplaced'
  BY <1>15 DEF RecordReplaced, Record, Advance, Goto
<1>16. ASSUME NEW s \in Sessions, Verify(s)
      PROVE  NotYetReplaced'
  BY <1>16 DEF Verify, Advance, Goto
<1>17. ASSUME NEW s \in Sessions, Complete(s)
      PROVE  NotYetReplaced'
  BY <1>17 DEF Complete, Finish, Advance, Goto
<1>18. ASSUME NEW s \in Sessions, Close(s)
      PROVE  NotYetReplaced'
  BY <1>18 DEF Close, Discard, Advance, Goto
<1>19. ASSUME NEW s \in Sessions, Prune(s)
      PROVE  NotYetReplaced'
  BY <1>19 DEF Prune, Forget, Advance, Goto
<1>20. ASSUME NEW s \in Sessions, Stop(s)
      PROVE  NotYetReplaced'
  BY <1>20 DEF Stop, Forget, Goto
<1>21. ASSUME NEW content \in Foreign \union {Stock, Missing}, OutsideWrite(content)
      PROVE  NotYetReplaced'
  BY <1>21 DEF OutsideWrite, WriteTarget
<1>22. CASE UNCHANGED vars
  BY <1>22 DEF vars
<1> QED
  BY <1>1, <1>2, <1>3, <1>4, <1>5, <1>6, <1>7, <1>8, <1>9, <1>10, <1>11, <1>12,
     <1>13, <1>14, <1>15, <1>16, <1>17, <1>18, <1>19, <1>20, <1>21, <1>22
     DEF Next, Step

\* Fingerprints do not come back, so an equal one means an equal copy.
LEMMA CopiesStep ==
  ASSUME TypeOK, StampsArePast, JournalsAreOwn, CopiesAreGood, [Next]_vars
  PROVE  CopiesAreGood'
<1> USE TransactionAssumption DEF TransactionAssumption, TypeOK, Fingerprints,
    Records, Plans, Stages, Kinds, Contents, NoTarget, NoRecord, NoPlan,
    OutsidePhases, LockedPhases, Names, NoBackup, StampsArePast, CopiesAreGood,
    CopyPhases, Copied, Exists, Holds
<1>1. ASSUME NEW s \in Sessions, PreviewApply(s)
      PROVE  CopiesAreGood'
  BY <1>1 DEF PreviewApply, Preview, Advance, Goto
<1>2. ASSUME NEW s \in Sessions, PreviewRollback(s)
      PROVE  CopiesAreGood'
  BY <1>2 DEF PreviewRollback, Preview, Saved, Advance, Goto
<1>3. ASSUME NEW s \in Sessions, PreviewControl(s)
      PROVE  CopiesAreGood'
  BY <1>3 DEF PreviewControl, Preview, Advance, Goto
<1>4. ASSUME NEW s \in Sessions, Inspect(s)
      PROVE  CopiesAreGood'
  BY <1>4 DEF Inspect, Advance, Goto
<1>5. ASSUME NEW s \in Sessions, FinishOther(s)
      PROVE  CopiesAreGood'
  BY <1>5 DEF FinishOther, Finish, Advance, Goto
<1>6. ASSUME NEW s \in Sessions, DiscardOther(s)
      PROVE  CopiesAreGood'
  BY <1>6 DEF DiscardOther, Discard, Advance, Goto
<1>7. ASSUME NEW s \in Sessions, TakeFingerprint(s)
      PROVE  CopiesAreGood'
  BY <1>7 DEF TakeFingerprint, Advance, Goto
<1>8. ASSUME NEW s \in Sessions, KeepReviewed(s)
      PROVE  CopiesAreGood'
  BY <1>8 DEF KeepReviewed, Advance, Goto
<1>9. ASSUME NEW s \in Sessions, Acquire(s)
      PROVE  CopiesAreGood'
  BY <1>9 DEF Acquire, Advance, Goto
<1>10. ASSUME NEW s \in Sessions, Begin(s)
      PROVE  CopiesAreGood'
  BY <1>10 DEF Begin, AsReviewed, Advance, Goto
<1>11. ASSUME NEW s \in Sessions, CopyBackup(s)
      PROVE  CopiesAreGood'
  <2>1. /\ phase[s] = "copying" /\ UNCHANGED << target, lock, plan >>
        /\ lock = s
    BY <1>11 DEF CopyBackup, Advance
  <2>2. CASE UNCHANGED << backups, made >> /\ Advance(s, "copying", "rechecking")
             /\ ~Exists(plan[s].before)
    BY <2>1, <2>2 DEF Advance, Goto
  <2>3. ASSUME NEW n \in Names, Advance(s, "copying", "recording"),
               SaveAs(s, n, IF Exists(target) THEN target.content ELSE Stock)
        PROVE  CopiesAreGood'
    BY <2>1, <2>3 DEF SaveAs, Advance, Goto
  <2> QED
    BY <1>11, <2>2, <2>3 DEF CopyBackup, FreeNames
<1>12. ASSUME NEW s \in Sessions, RecordBackup(s)
      PROVE  CopiesAreGood'
  BY <1>12 DEF RecordBackup, Record, Advance, Goto
<1>13. ASSUME NEW s \in Sessions, Recheck(s)
      PROVE  CopiesAreGood'
  BY <1>13 DEF Recheck, AsReviewed, Advance, Goto
<1>14. ASSUME NEW s \in Sessions, Replace(s)
      PROVE  CopiesAreGood'
  BY <1>14 DEF Replace, WriteTarget, Advance, Goto
<1>15. ASSUME NEW s \in Sessions, RecordReplaced(s)
      PROVE  CopiesAreGood'
  BY <1>15 DEF RecordReplaced, Record, Advance, Goto
<1>16. ASSUME NEW s \in Sessions, Verify(s)
      PROVE  CopiesAreGood'
  BY <1>16 DEF Verify, Advance, Goto
<1>17. ASSUME NEW s \in Sessions, Complete(s)
      PROVE  CopiesAreGood'
  BY <1>17 DEF Complete, Finish, Advance, Goto
<1>18. ASSUME NEW s \in Sessions, Close(s)
      PROVE  CopiesAreGood'
  BY <1>18 DEF Close, Discard, Advance, Goto
<1>19. ASSUME NEW s \in Sessions, Prune(s)
      PROVE  CopiesAreGood'
  BY <1>19 DEF Prune, Forget, Advance, Goto
<1>20. ASSUME NEW s \in Sessions, Stop(s)
      PROVE  CopiesAreGood'
  BY <1>20 DEF Stop, Forget, Goto
<1>21. ASSUME NEW content \in Foreign \union {Stock, Missing}, OutsideWrite(content)
      PROVE  CopiesAreGood'
  BY <1>21 DEF OutsideWrite, WriteTarget
<1>22. CASE UNCHANGED vars
  BY <1>22 DEF vars
<1> QED
  BY <1>1, <1>2, <1>3, <1>4, <1>5, <1>6, <1>7, <1>8, <1>9, <1>10, <1>11, <1>12,
     <1>13, <1>14, <1>15, <1>16, <1>17, <1>18, <1>19, <1>20, <1>21, <1>22
     DEF Next, Step

LEMMA FinishersStep ==
  ASSUME TypeOK, ResolversAreAlone, FinishersKeepUndo, UndoIsKept, [Next]_vars
  PROVE  FinishersKeepUndo'
<1> USE TransactionAssumption DEF TransactionAssumption, TypeOK, Fingerprints,
    Records, Plans, Stages, Kinds, Contents, NoTarget, NoRecord, NoPlan,
    OutsidePhases, LockedPhases, Names, NoBackup, ResolversAreAlone, Resolving,
    FinishersKeepUndo, UndoIsKept, JournalNamesUndo, Status, Reached, NoJournal,
    Exists, Holds
<1>1. ASSUME NEW s \in Sessions, PreviewApply(s)
      PROVE  FinishersKeepUndo'
  BY <1>1 DEF PreviewApply, Preview, Advance, Goto
<1>2. ASSUME NEW s \in Sessions, PreviewRollback(s)
      PROVE  FinishersKeepUndo'
  BY <1>2 DEF PreviewRollback, Preview, Saved, Advance, Goto
<1>3. ASSUME NEW s \in Sessions, PreviewControl(s)
      PROVE  FinishersKeepUndo'
  BY <1>3 DEF PreviewControl, Preview, Advance, Goto
<1>4. ASSUME NEW s \in Sessions, Inspect(s)
      PROVE  FinishersKeepUndo'
  BY <1>4 DEF Inspect, Advance, Goto
<1>5. ASSUME NEW s \in Sessions, FinishOther(s)
      PROVE  FinishersKeepUndo'
  BY <1>5 DEF FinishOther, Finish, Advance, Goto
<1>6. ASSUME NEW s \in Sessions, DiscardOther(s)
      PROVE  FinishersKeepUndo'
  BY <1>6 DEF DiscardOther, Discard, Advance, Goto
<1>7. ASSUME NEW s \in Sessions, TakeFingerprint(s)
      PROVE  FinishersKeepUndo'
  BY <1>7 DEF TakeFingerprint, Advance, Goto
<1>8. ASSUME NEW s \in Sessions, KeepReviewed(s)
      PROVE  FinishersKeepUndo'
  BY <1>8 DEF KeepReviewed, Advance, Goto
<1>9. ASSUME NEW s \in Sessions, Acquire(s)
      PROVE  FinishersKeepUndo'
  BY <1>9 DEF Acquire, Advance, Goto
<1>10. ASSUME NEW s \in Sessions, Begin(s)
      PROVE  FinishersKeepUndo'
  BY <1>10 DEF Begin, AsReviewed, Advance, Goto
<1>11. ASSUME NEW s \in Sessions, CopyBackup(s)
      PROVE  FinishersKeepUndo'
  BY <1>11 DEF CopyBackup, SaveAs, FreeNames, Saved, Advance, Goto
<1>12. ASSUME NEW s \in Sessions, RecordBackup(s)
      PROVE  FinishersKeepUndo'
  BY <1>12 DEF RecordBackup, Record, Advance, Goto
<1>13. ASSUME NEW s \in Sessions, Recheck(s)
      PROVE  FinishersKeepUndo'
  BY <1>13 DEF Recheck, AsReviewed, Advance, Goto
<1>14. ASSUME NEW s \in Sessions, Replace(s)
      PROVE  FinishersKeepUndo'
  BY <1>14 DEF Replace, WriteTarget, Advance, Goto
<1>15. ASSUME NEW s \in Sessions, RecordReplaced(s)
      PROVE  FinishersKeepUndo'
  BY <1>15 DEF RecordReplaced, Record, Advance, Goto
<1>16. ASSUME NEW s \in Sessions, Verify(s)
      PROVE  FinishersKeepUndo'
  BY <1>16 DEF Verify, Advance, Goto
<1>17. ASSUME NEW s \in Sessions, Complete(s)
      PROVE  FinishersKeepUndo'
  BY <1>17 DEF Complete, Finish, Advance, Goto
<1>18. ASSUME NEW s \in Sessions, Close(s)
      PROVE  FinishersKeepUndo'
  BY <1>18 DEF Close, Discard, Advance, Goto
<1>19. ASSUME NEW s \in Sessions, Prune(s)
      PROVE  FinishersKeepUndo'
  BY <1>19 DEF Prune, Forget, Advance, Goto
<1>20. ASSUME NEW s \in Sessions, Stop(s)
      PROVE  FinishersKeepUndo'
  BY <1>20 DEF Stop, Forget, Goto
<1>21. ASSUME NEW content \in Foreign \union {Stock, Missing}, OutsideWrite(content)
      PROVE  FinishersKeepUndo'
  BY <1>21 DEF OutsideWrite, WriteTarget
<1>22. CASE UNCHANGED vars
  BY <1>22 DEF vars
<1> QED
  BY <1>1, <1>2, <1>3, <1>4, <1>5, <1>6, <1>7, <1>8, <1>9, <1>10, <1>11, <1>12,
     <1>13, <1>14, <1>15, <1>16, <1>17, <1>18, <1>19, <1>20, <1>21, <1>22
     DEF Next, Step

\* The journal is applied only by Replace, which has a good copy.
LEMMA JournalUndoStep ==
  ASSUME IInv, [Next]_vars
  PROVE  JournalNamesUndo'
<1> USE TransactionAssumption DEF TransactionAssumption, TypeOK, Fingerprints,
    Records, Plans, Stages, Kinds, Contents, NoTarget, NoRecord, NoPlan,
    OutsidePhases, LockedPhases, Names, NoBackup, IInv, ResolversAreAlone,
    Resolving, JournalsAreOwn, NothingMade, OwnJournal, JournalPhases, NoJournal,
    NotYetReplaced, CopiesAreGood, CopyPhases, Copied, Exists, Holds, Status,
    Reached, UndoIsKept, JournalNamesUndo
<1>1. ASSUME NEW s \in Sessions, PreviewApply(s)
      PROVE  JournalNamesUndo'
  BY <1>1 DEF PreviewApply, Preview, Advance, Goto
<1>2. ASSUME NEW s \in Sessions, PreviewRollback(s)
      PROVE  JournalNamesUndo'
  BY <1>2 DEF PreviewRollback, Preview, Saved, Advance, Goto
<1>3. ASSUME NEW s \in Sessions, PreviewControl(s)
      PROVE  JournalNamesUndo'
  BY <1>3 DEF PreviewControl, Preview, Advance, Goto
<1>4. ASSUME NEW s \in Sessions, Inspect(s)
      PROVE  JournalNamesUndo'
  BY <1>4 DEF Inspect, Advance, Goto
<1>5. ASSUME NEW s \in Sessions, FinishOther(s)
      PROVE  JournalNamesUndo'
  BY <1>5 DEF FinishOther, Finish, Advance, Goto
<1>6. ASSUME NEW s \in Sessions, DiscardOther(s)
      PROVE  JournalNamesUndo'
  BY <1>6 DEF DiscardOther, Discard, Advance, Goto
<1>7. ASSUME NEW s \in Sessions, TakeFingerprint(s)
      PROVE  JournalNamesUndo'
  BY <1>7 DEF TakeFingerprint, Advance, Goto
<1>8. ASSUME NEW s \in Sessions, KeepReviewed(s)
      PROVE  JournalNamesUndo'
  BY <1>8 DEF KeepReviewed, Advance, Goto
<1>9. ASSUME NEW s \in Sessions, Acquire(s)
      PROVE  JournalNamesUndo'
  BY <1>9 DEF Acquire, Advance, Goto
<1>10. ASSUME NEW s \in Sessions, Begin(s)
      PROVE  JournalNamesUndo'
  BY <1>10 DEF Begin, AsReviewed, Advance, Goto
<1>11. ASSUME NEW s \in Sessions, CopyBackup(s)
      PROVE  JournalNamesUndo'
  BY <1>11 DEF CopyBackup, SaveAs, FreeNames, Saved, Advance, Goto
<1>12. ASSUME NEW s \in Sessions, RecordBackup(s)
      PROVE  JournalNamesUndo'
  BY <1>12 DEF RecordBackup, Record, Advance, Goto
<1>13. ASSUME NEW s \in Sessions, Recheck(s)
      PROVE  JournalNamesUndo'
  BY <1>13 DEF Recheck, AsReviewed, Advance, Goto
<1>14. ASSUME NEW s \in Sessions, Replace(s)
      PROVE  JournalNamesUndo'
  BY <1>14 DEF Replace, WriteTarget, Advance, Goto
<1>15. ASSUME NEW s \in Sessions, RecordReplaced(s)
      PROVE  JournalNamesUndo'
  BY <1>15 DEF RecordReplaced, Record, Advance, Goto
<1>16. ASSUME NEW s \in Sessions, Verify(s)
      PROVE  JournalNamesUndo'
  BY <1>16 DEF Verify, Advance, Goto
<1>17. ASSUME NEW s \in Sessions, Complete(s)
      PROVE  JournalNamesUndo'
  BY <1>17 DEF Complete, Finish, Advance, Goto
<1>18. ASSUME NEW s \in Sessions, Close(s)
      PROVE  JournalNamesUndo'
  BY <1>18 DEF Close, Discard, Advance, Goto
<1>19. ASSUME NEW s \in Sessions, Prune(s)
      PROVE  JournalNamesUndo'
  BY <1>19 DEF Prune, Forget, Advance, Goto
<1>20. ASSUME NEW s \in Sessions, Stop(s)
      PROVE  JournalNamesUndo'
  BY <1>20 DEF Stop, Forget, Goto
<1>21. ASSUME NEW content \in Foreign \union {Stock, Missing}, OutsideWrite(content)
      PROVE  JournalNamesUndo'
  BY <1>21 DEF OutsideWrite, WriteTarget
<1>22. CASE UNCHANGED vars
  BY <1>22 DEF vars
<1> QED
  BY <1>1, <1>2, <1>3, <1>4, <1>5, <1>6, <1>7, <1>8, <1>9, <1>10, <1>11, <1>12,
     <1>13, <1>14, <1>15, <1>16, <1>17, <1>18, <1>19, <1>20, <1>21, <1>22
     DEF Next, Step

\* Pruning protects the copy of the operation just completed.
LEMMA LastUndoStep ==
  ASSUME IInv, [Next]_vars
  PROVE  LastUndoKept'
<1> USE TransactionAssumption DEF TransactionAssumption, TypeOK, Fingerprints,
    Records, Plans, Stages, Kinds, Contents, NoTarget, NoRecord, NoPlan,
    OutsidePhases, LockedPhases, Names, NoBackup, IInv, ResolversAreAlone,
    Resolving, JournalsAreOwn, NothingMade, OwnJournal, JournalPhases, NoJournal,
    NotYetReplaced, CopiesAreGood, CopyPhases, Copied, Exists, Holds, Status,
    Reached, UndoIsKept, JournalNamesUndo, LastUndoKept, FinishersKeepUndo
<1>1. ASSUME NEW s \in Sessions, PreviewApply(s)
      PROVE  LastUndoKept'
  BY <1>1 DEF PreviewApply, Preview, Advance, Goto
<1>2. ASSUME NEW s \in Sessions, PreviewRollback(s)
      PROVE  LastUndoKept'
  BY <1>2 DEF PreviewRollback, Preview, Saved, Advance, Goto
<1>3. ASSUME NEW s \in Sessions, PreviewControl(s)
      PROVE  LastUndoKept'
  BY <1>3 DEF PreviewControl, Preview, Advance, Goto
<1>4. ASSUME NEW s \in Sessions, Inspect(s)
      PROVE  LastUndoKept'
  BY <1>4 DEF Inspect, Advance, Goto
<1>5. ASSUME NEW s \in Sessions, FinishOther(s)
      PROVE  LastUndoKept'
  BY <1>5 DEF FinishOther, Finish, Advance, Goto
<1>6. ASSUME NEW s \in Sessions, DiscardOther(s)
      PROVE  LastUndoKept'
  BY <1>6 DEF DiscardOther, Discard, Advance, Goto
<1>7. ASSUME NEW s \in Sessions, TakeFingerprint(s)
      PROVE  LastUndoKept'
  BY <1>7 DEF TakeFingerprint, Advance, Goto
<1>8. ASSUME NEW s \in Sessions, KeepReviewed(s)
      PROVE  LastUndoKept'
  BY <1>8 DEF KeepReviewed, Advance, Goto
<1>9. ASSUME NEW s \in Sessions, Acquire(s)
      PROVE  LastUndoKept'
  BY <1>9 DEF Acquire, Advance, Goto
<1>10. ASSUME NEW s \in Sessions, Begin(s)
      PROVE  LastUndoKept'
  BY <1>10 DEF Begin, AsReviewed, Advance, Goto
<1>11. ASSUME NEW s \in Sessions, CopyBackup(s)
      PROVE  LastUndoKept'
  BY <1>11 DEF CopyBackup, SaveAs, FreeNames, Saved, Advance, Goto
<1>12. ASSUME NEW s \in Sessions, RecordBackup(s)
      PROVE  LastUndoKept'
  BY <1>12 DEF RecordBackup, Record, Advance, Goto
<1>13. ASSUME NEW s \in Sessions, Recheck(s)
      PROVE  LastUndoKept'
  BY <1>13 DEF Recheck, AsReviewed, Advance, Goto
<1>14. ASSUME NEW s \in Sessions, Replace(s)
      PROVE  LastUndoKept'
  BY <1>14 DEF Replace, WriteTarget, Advance, Goto
<1>15. ASSUME NEW s \in Sessions, RecordReplaced(s)
      PROVE  LastUndoKept'
  BY <1>15 DEF RecordReplaced, Record, Advance, Goto
<1>16. ASSUME NEW s \in Sessions, Verify(s)
      PROVE  LastUndoKept'
  BY <1>16 DEF Verify, Advance, Goto
<1>17. ASSUME NEW s \in Sessions, Complete(s)
      PROVE  LastUndoKept'
  BY <1>17 DEF Complete, Finish, Advance, Goto
<1>18. ASSUME NEW s \in Sessions, Close(s)
      PROVE  LastUndoKept'
  BY <1>18 DEF Close, Discard, Advance, Goto
<1>19. ASSUME NEW s \in Sessions, Prune(s)
      PROVE  LastUndoKept'
  <2>1. phase[s] = "pruning" /\ lock = s /\ lastOp' = lastOp
    BY <1>19 DEF Prune, Advance
  <2>2. SUFFICES ASSUME Exists(lastOp.before)
                 PROVE  Holds(lastOp.backup, lastOp.before.content)'
    BY <2>1
  <2>3. made[s] = lastOp.backup /\ Holds(made[s], lastOp.before.content)
    BY <2>1, <2>2
  <2>4. made[s] \in Protected(s) \intersect Saved
    BY <2>2, <2>3 DEF Protected, Saved
  <2>5. made[s] \notin Victims(s)
    BY <2>4 DEF Victims, Retained
  <2>6. backups'[made[s]] = backups[made[s]]
    BY <1>19, <2>3, <2>5 DEF Prune
  <2> QED
    BY <2>1, <2>3, <2>6
<1>20. ASSUME NEW s \in Sessions, Stop(s)
      PROVE  LastUndoKept'
  BY <1>20 DEF Stop, Forget, Goto
<1>21. ASSUME NEW content \in Foreign \union {Stock, Missing}, OutsideWrite(content)
      PROVE  LastUndoKept'
  BY <1>21 DEF OutsideWrite, WriteTarget
<1>22. CASE UNCHANGED vars
  BY <1>22 DEF vars
<1> QED
  BY <1>1, <1>2, <1>3, <1>4, <1>5, <1>6, <1>7, <1>8, <1>9, <1>10, <1>11, <1>12,
     <1>13, <1>14, <1>15, <1>16, <1>17, <1>18, <1>19, <1>20, <1>21, <1>22
     DEF Next, Step

LEMMA GapStep ==
  ASSUME ~GapWrites, TypeOK, NobodyInTheGap, [Next]_vars
  PROVE  NobodyInTheGap'
<1> USE TransactionAssumption DEF TransactionAssumption, TypeOK, OutsidePhases,
    LockedPhases, NobodyInTheGap
<1>1. ASSUME NEW s \in Sessions, PreviewApply(s)
      PROVE  NobodyInTheGap'
  BY <1>1 DEF PreviewApply, Preview, Advance, Goto
<1>2. ASSUME NEW s \in Sessions, PreviewRollback(s)
      PROVE  NobodyInTheGap'
  BY <1>2 DEF PreviewRollback, Preview, Saved, Advance, Goto
<1>3. ASSUME NEW s \in Sessions, PreviewControl(s)
      PROVE  NobodyInTheGap'
  BY <1>3 DEF PreviewControl, Preview, Advance, Goto
<1>4. ASSUME NEW s \in Sessions, Inspect(s)
      PROVE  NobodyInTheGap'
  BY <1>4 DEF Inspect, Advance, Goto
<1>5. ASSUME NEW s \in Sessions, FinishOther(s)
      PROVE  NobodyInTheGap'
  BY <1>5 DEF FinishOther, Finish, Advance, Goto
<1>6. ASSUME NEW s \in Sessions, DiscardOther(s)
      PROVE  NobodyInTheGap'
  BY <1>6 DEF DiscardOther, Discard, Advance, Goto
<1>7. ASSUME NEW s \in Sessions, TakeFingerprint(s)
      PROVE  NobodyInTheGap'
  BY <1>7 DEF TakeFingerprint, Advance, Goto
<1>8. ASSUME NEW s \in Sessions, KeepReviewed(s)
      PROVE  NobodyInTheGap'
  BY <1>8 DEF KeepReviewed, Advance, Goto
<1>9. ASSUME NEW s \in Sessions, Acquire(s)
      PROVE  NobodyInTheGap'
  BY <1>9 DEF Acquire, Advance, Goto
<1>10. ASSUME NEW s \in Sessions, Begin(s)
      PROVE  NobodyInTheGap'
  BY <1>10 DEF Begin, AsReviewed, Advance, Goto
<1>11. ASSUME NEW s \in Sessions, CopyBackup(s)
      PROVE  NobodyInTheGap'
  BY <1>11 DEF CopyBackup, SaveAs, FreeNames, Saved, Advance, Goto
<1>12. ASSUME NEW s \in Sessions, RecordBackup(s)
      PROVE  NobodyInTheGap'
  BY <1>12 DEF RecordBackup, Record, Advance, Goto
<1>13. ASSUME NEW s \in Sessions, Recheck(s)
      PROVE  NobodyInTheGap'
  BY <1>13 DEF Recheck, AsReviewed, Advance, Goto
<1>14. ASSUME NEW s \in Sessions, Replace(s)
      PROVE  NobodyInTheGap'
  BY <1>14 DEF Replace, WriteTarget, Advance, Goto
<1>15. ASSUME NEW s \in Sessions, RecordReplaced(s)
      PROVE  NobodyInTheGap'
  BY <1>15 DEF RecordReplaced, Record, Advance, Goto
<1>16. ASSUME NEW s \in Sessions, Verify(s)
      PROVE  NobodyInTheGap'
  BY <1>16 DEF Verify, Advance, Goto
<1>17. ASSUME NEW s \in Sessions, Complete(s)
      PROVE  NobodyInTheGap'
  BY <1>17 DEF Complete, Finish, Advance, Goto
<1>18. ASSUME NEW s \in Sessions, Close(s)
      PROVE  NobodyInTheGap'
  BY <1>18 DEF Close, Discard, Advance, Goto
<1>19. ASSUME NEW s \in Sessions, Prune(s)
      PROVE  NobodyInTheGap'
  BY <1>19 DEF Prune, Forget, Advance, Goto
<1>20. ASSUME NEW s \in Sessions, Stop(s)
      PROVE  NobodyInTheGap'
  BY <1>20 DEF Stop, Forget, Goto
<1>21. ASSUME NEW content \in Foreign \union {Stock, Missing}, OutsideWrite(content)
      PROVE  NobodyInTheGap'
  BY <1>21 DEF OutsideWrite, WriteTarget
<1>22. CASE UNCHANGED vars
  BY <1>22 DEF vars
<1> QED
  BY <1>1, <1>2, <1>3, <1>4, <1>5, <1>6, <1>7, <1>8, <1>9, <1>10, <1>11, <1>12,
     <1>13, <1>14, <1>15, <1>16, <1>17, <1>18, <1>19, <1>20, <1>21, <1>22
     DEF Next, Step

-----------------------------------------------------------------------------
(* The invariant, and what it implies.                                     *)

LEMMA InvInit ==
  ASSUME Init
  PROVE  IInv /\ NobodyInTheGap
<1> USE TransactionAssumption
    DEF TransactionAssumption, Init, NoRecord, NoPlan, NoTarget, NoBackup
<1>1. TypeOK
  BY DEF TypeOK, Fingerprints, Records, Plans, Stages, Kinds, Contents, Names,
         OutsidePhases, LockedPhases
<1>2. StampsArePast /\ ResolversAreAlone /\ JournalsAreOwn
  BY DEF StampsArePast, ResolversAreAlone, JournalsAreOwn, NothingMade,
         OwnJournal, JournalPhases
<1>3. NotYetReplaced /\ CopiesAreGood /\ FinishersKeepUndo /\ NobodyInTheGap
  BY DEF NotYetReplaced, CopiesAreGood, CopyPhases, FinishersKeepUndo,
         NobodyInTheGap
<1>4. UndoIsKept
  <2>1. NoJournal
    BY DEF NoJournal
  <2>2. Status = "clean"
    BY <2>1 DEF Status
  <2> QED
    BY <2>2 DEF UndoIsKept, JournalNamesUndo, LastUndoKept, Exists
<1> QED
  BY <1>1, <1>2, <1>3, <1>4 DEF IInv

LEMMA InvStep ==
  ASSUME ~ResolveInFlight, IInv, [Next]_vars
  PROVE  IInv'
<1>1. TypeOK' /\ StampsArePast' /\ ResolversAreAlone' /\ JournalsAreOwn'
  BY TypeStep, StampsStep, ResolversStep, JournalsStep DEF IInv
<1>2. NotYetReplaced' /\ CopiesAreGood' /\ FinishersKeepUndo'
  BY NotYetStep, CopiesStep, FinishersStep DEF IInv
<1>3. UndoIsKept'
  BY JournalUndoStep, LastUndoStep DEF UndoIsKept
<1> QED
  BY <1>1, <1>2, <1>3 DEF IInv

\* What the theorems below rest on.
THEOREM Invariance ==
  ASSUME ~ResolveInFlight
  PROVE  Spec => []IInv
BY InvInit, InvStep, PTL DEF Spec

\* Every reachable state is well typed, and the session inside
\* _backup_scope_lock, nobody else, holds the lock.
THEOREM TypeCorrect == Spec => []TypeOK
<1>1. Init => TypeOK
  BY InvInit DEF IInv
<1> QED
  BY <1>1, TypeStep, PTL DEF Spec

\* Wherever operations stop, whatever others write to the file and whatever
\* retention deletes: what the interrupted and what the last completed operation
\* replaced is in the backup the journal and last-operation.json name.
THEOREM UndoSurvives ==
  ASSUME ~ResolveInFlight
  PROVE  Spec => []UndoIsKept
<1>1. IInv => UndoIsKept
  BY DEF IInv
<1> QED
  BY <1>1, Invariance, PTL

\* The file is replaced only while the journal on disk is the transaction's.
THEOREM OwnJournalCovers ==
  ASSUME ~ResolveInFlight
  PROVE  Spec => JournalCoversReplacement
<1>1. ASSUME IInv, NEW s \in Sessions, Replaces(s)
      PROVE  /\ journal.before = plan[s].before
             /\ journal.after = plan[s].after
             /\ journal.backup = made[s]
  BY <1>1 DEF IInv, JournalsAreOwn, OwnJournal, JournalPhases, Replaces
<1>2. IInv => [\A s \in Sessions :
                 Replaces(s) =>
                   /\ journal.before = plan[s].before
                   /\ journal.after = plan[s].after
                   /\ journal.backup = made[s]]_vars
  BY <1>1
<1> QED
  BY <1>2, Invariance, PTL DEF JournalCoversReplacement

\* If nobody writes between the last fingerprint and the replacement, what is
\* destroyed is what was reviewed, and a copy of it exists by then.
THEOREM ReviewedIsReplaced ==
  ASSUME ~ResolveInFlight, ~GapWrites
  PROVE  Spec => ReplacesWhatWasReviewed
<1>1. Spec => []NobodyInTheGap
  <2>1. ASSUME TypeOK, NobodyInTheGap, [Next]_vars
        PROVE  NobodyInTheGap'
    BY <2>1, GapStep
  <2> QED
    BY InvInit, <2>1, TypeCorrect, PTL DEF Spec
<1>2. ASSUME IInv, NobodyInTheGap, NEW s \in Sessions
      PROVE  ReviewedBy(s)
  BY <1>2 DEF IInv, NobodyInTheGap, CopiesAreGood, CopyPhases, Copied, Holds,
              ReviewedBy, Replaces
<1>3. IInv /\ NobodyInTheGap => [\A s \in Sessions : ReviewedBy(s)]_vars
  BY <1>2
<1> QED
  BY <1>1, <1>3, Invariance, PTL DEF ReplacesWhatWasReviewed

-----------------------------------------------------------------------------
(***************************************************************************)
(* Moving the data directory, for any windows, contents and roots in any   *)
(* directories, and any number of files.  A lock keeps out only the moves  *)
(* of its own directory; a move beside which none ran under another lock   *)
(* was alone: what its plan lists is there, saved over, or still to be     *)
(* copied.                                                                 *)
(***************************************************************************)
FileNames == 1 .. LastMoved
Trees     == [FileNames -> FileContents \union {Missing}]
MovePlans == [dest : DataRoots, entries : Trees, copies : SUBSET FileNames,
              before : BOOLEAN \union DataRoots \union {Nowhere}]
MoveSteps == {"idle", "locked", "copying", "checked"}

AtWindow  == [root : DataRoots \union {Nowhere}, plan : MovePlans \union {Nothing},
              at : MoveSteps, todo : SUBSET FileNames]

MoveLocks == [{Parents[r] : r \in DataRoots} -> Sessions \union {NoSession}]

MoveTyped ==
  /\ disk \in [DataRoots -> Trees]
  /\ bootstrap \in (DataRoots \ {Beside}) \union {Nowhere}
  /\ marker \in BOOLEAN
  /\ window \in [Sessions -> AtWindow]
  /\ moveLock \in MoveLocks

LockOf(w) == Parents[window[w].root]

\* Who moves holds the lock of the directory its root is in, and has a plan.
MoversHoldTheLock ==
  \A w \in Sessions :
    /\ window[w].root = Nowhere => window[w].at = "idle" /\ window[w].plan = Nothing
    /\ window[w].at # "idle" =>
         /\ window[w].plan # Nothing
         /\ moveLock[LockOf(w)] = w

\* Two moves at a time are under two locks, and are known to be.
MovesAreApart ==
  \A v, w \in Sessions :
    window[v].at # "idle" /\ window[w].at # "idle" /\ v # w => w \in crossed

\* What the reviewed plan lists is there, saved over, or still to be copied.
PlannedIsThere(w) ==
  \A f \in FileNames :
    window[w].plan.entries[f] # Missing =>
      \/ f \in window[w].todo
      \/ disk[window[w].plan.dest][f] = window[w].plan.entries[f]
      \/ << window[w].plan.dest, f >> \in saved

MoveIsReviewed ==
  \A w \in Sessions :
    /\ window[w].at \in {"copying", "checked"} /\ w \notin crossed => PlannedIsThere(w)
    /\ window[w].at = "checked" =>
         /\ window[w].todo = {}
         /\ w \notin crossed => Move!Activation(window[w].plan.dest) = window[w].plan.before

MoveInv == MoveTyped /\ MoversHoldTheLock /\ MovesAreApart /\ MoveIsReviewed

LEMMA MoveFacts ==
  /\ Home \in DataRoots /\ Beside \in DataRoots /\ Home # Beside
  /\ Nowhere \notin DataRoots
  /\ NoSession \notin Sessions
BY MoveConstants DEF Move!MoveAssumption

LEMMA MoveInit == Move!Init => MoveInv
<1> SUFFICES ASSUME Move!Init PROVE MoveInv
  OBVIOUS
<1> USE MoveFacts DEF Move!Init, Move!Closed, Move!Files, FileNames, Trees
<1>1. disk \in [DataRoots -> Trees]
  OBVIOUS
<1>2. \A w \in Sessions :
        window[w].root = Nowhere /\ window[w].plan = Nothing /\ window[w].at = "idle"
  OBVIOUS
<1>3. MoveTyped
  BY <1>1 DEF MoveTyped, AtWindow, MoveLocks, MoveSteps
<1>4. MoversHoldTheLock
  BY ONLY <1>2 DEF MoversHoldTheLock
<1>5. MovesAreApart /\ MoveIsReviewed
  BY ONLY <1>2 DEF MovesAreApart, MoveIsReviewed
<1> QED  BY <1>3, <1>4, <1>5 DEF MoveInv

\* A move that none ran beside is the only one.
LEMMA OneMoves ==
  ASSUME MoveInv, NEW w \in Sessions, NEW v \in Sessions,
         w \notin crossed, window[w].at # "idle", window[v].at # "idle"
  PROVE  w = v
BY DEF MoveInv, MovesAreApart

LEMMA PlanIsPlan ==
  ASSUME MoveTyped, NEW r \in DataRoots, NEW d \in DataRoots
  PROVE  Move!Plan(r, d) \in MovePlans
<1>1. /\ disk[r] \in Trees
      /\ {f \in Move!Files : disk[r][f] # Missing /\ disk[d][f] = Missing} \in SUBSET FileNames
  BY DEF MoveTyped, Move!Files, FileNames
<1>2. Move!Activation(d) \in BOOLEAN \union DataRoots \union {Nowhere}
  BY DEF MoveTyped, Move!Activation
<1> QED  BY <1>1, <1>2 DEF Move!Plan, MovePlans

\* A refused move leaves its window as it was.
LEMMA RefusedIsTyped ==
  ASSUME MoveTyped, NEW w \in Sessions, Move!Refuse(w)
  PROVE  /\ window' = [window EXCEPT ![w] = [window[w] EXCEPT !.at = "idle", !.todo = {}]]
         /\ window' \in [Sessions -> AtWindow]
         /\ window'[w].at = "idle" /\ window'[w].root = window[w].root
         /\ window'[w].plan = window[w].plan
         /\ \A v \in Sessions \ {w} : window'[v] = window[v]
         /\ moveLock' \in MoveLocks
<1>1. window' = [window EXCEPT ![w] = [window[w] EXCEPT !.at = "idle", !.todo = {}]]
  BY DEF Move!Refuse
<1>2. [window[w] EXCEPT !.at = "idle", !.todo = {}] \in AtWindow
  BY DEF MoveTyped, AtWindow, MoveSteps
<1>3. window' \in [Sessions -> AtWindow]
  BY <1>1, <1>2 DEF MoveTyped
<1>4. moveLock' \in MoveLocks
  BY DEF Move!Refuse, Move!Release, MoveTyped, MoveLocks
<1>5. /\ window'[w] = [window[w] EXCEPT !.at = "idle", !.todo = {}]
      /\ \A v \in Sessions \ {w} : window'[v] = window[v]
  BY <1>1 DEF MoveTyped
<1>6. window'[w].at = "idle" /\ window'[w].root = window[w].root /\ window'[w].plan = window[w].plan
  <2>1. window[w] \in AtWindow
    BY DEF MoveTyped
  <2> QED  BY <1>5, <2>1 DEF AtWindow
<1> QED  BY <1>1, <1>3, <1>4, <1>5, <1>6

LEMMA MoveTypedStep == MoveInv /\ [Move!Next]_(Move!vars) => MoveTyped'
<1> SUFFICES ASSUME MoveInv, [Move!Next]_(Move!vars) PROVE MoveTyped'
  OBVIOUS
<1> USE MoveFacts DEF MoveInv, MoveTyped, AtWindow, MoveLocks, MoveSteps, Move!LockDirectory
<1>1. CASE UNCHANGED Move!vars
  BY <1>1 DEF Move!vars
<1>2. ASSUME NEW w \in Sessions, Move!Launch(w) PROVE MoveTyped'
  BY <1>2 DEF Move!Launch, Move!Resolved
<1>3. ASSUME NEW w \in Sessions, Move!Save(w) PROVE MoveTyped'
  <2>1. PICK f \in FileNames, c \in FileContents :
          disk' = [disk EXCEPT ![window[w].root][f] = c]
    BY <1>3 DEF Move!Save, Move!Files, FileNames
  <2>2. window[w].root \in DataRoots
    BY <1>3 DEF Move!Save
  <2>3. [disk[window[w].root] EXCEPT ![f] = c] \in Trees
    BY <2>1, <2>2 DEF Trees
  <2>4. disk' = [disk EXCEPT ![window[w].root] = [disk[window[w].root] EXCEPT ![f] = c]]
    BY <2>1
  <2>5. disk' \in [DataRoots -> Trees]
    BY <2>2, <2>3, <2>4
  <2> QED  BY <1>3, <2>5 DEF Move!Save
<1>4. ASSUME NEW w \in Sessions, Move!PlanMove(w) PROVE MoveTyped'
  BY <1>4, PlanIsPlan DEF Move!PlanMove
<1>5. ASSUME NEW w \in Sessions, Move!Begin(w) PROVE MoveTyped'
  BY <1>5 DEF Move!Begin
<1>6. ASSUME NEW w \in Sessions, Move!Replan(w) PROVE MoveTyped'
  <2>1. CASE Move!StillReviewed(w)
    <3>1. window[w].plan \in MovePlans
      BY <1>6 DEF Move!Replan, MoversHoldTheLock
    <3>2. window[w].plan.copies \in SUBSET FileNames
      BY <3>1 DEF MovePlans
    <3> QED  BY <1>6, <2>1, <3>2 DEF Move!Replan
  <2>2. CASE ~Move!StillReviewed(w)
    <3>1. Move!Refuse(w) /\ UNCHANGED << disk, bootstrap, marker, saved >>
      BY <1>6, <2>2 DEF Move!Replan
    <3> QED  BY <3>1, RefusedIsTyped DEF MoveTyped
  <2> QED  BY <2>1, <2>2
<1>7. ASSUME NEW w \in Sessions, Move!Copy(w) PROVE MoveTyped'
  <2>1. PICK f \in window[w].todo :
          IF Move!SourceMatches(w, f)
          THEN /\ disk' = [disk EXCEPT ![window[w].plan.dest][f] = disk[window[w].root][f]]
               /\ window' = [window EXCEPT ![w].todo = @ \ {f}]
               /\ UNCHANGED moveLock
          ELSE Move!Refuse(w) /\ UNCHANGED disk
    BY <1>7 DEF Move!Copy
  <2>2. /\ window[w].root \in DataRoots
        /\ window[w].plan \in MovePlans
    BY <1>7 DEF Move!Copy, MoversHoldTheLock
  <2>3. CASE Move!SourceMatches(w, f)
    <3> DEFINE d == window[w].plan.dest
               c == disk[window[w].root][f]
    <3>1. d \in DataRoots /\ c \in FileContents \union {Missing}
      BY <2>2 DEF MovePlans, Trees
    <3>2. disk' = [disk EXCEPT ![d] = [disk[d] EXCEPT ![f] = c]]
      BY <2>1, <2>3
    <3> HIDE DEF d, c
    <3>3. [disk[d] EXCEPT ![f] = c] \in Trees
      BY <3>1 DEF Trees
    <3>4. disk' \in [DataRoots -> Trees]
      BY <3>1, <3>2, <3>3
    <3> QED  BY <1>7, <2>1, <2>3, <3>4 DEF Move!Copy
  <2>4. CASE ~Move!SourceMatches(w, f)
    BY <1>7, <2>1, <2>4 DEF Move!Copy, Move!Refuse, Move!Release
  <2> QED  BY <2>3, <2>4
<1>8. ASSUME NEW w \in Sessions, Move!CheckActivation(w) PROVE MoveTyped'
  <2>1. CASE Move!Activation(window[w].plan.dest) = window[w].plan.before
    BY <1>8, <2>1 DEF Move!CheckActivation
  <2>2. CASE Move!Activation(window[w].plan.dest) # window[w].plan.before
    <3>1. Move!Refuse(w) /\ UNCHANGED << disk, bootstrap, marker, saved >>
      BY <1>8, <2>2 DEF Move!CheckActivation
    <3> QED  BY <3>1, RefusedIsTyped DEF MoveTyped
  <2> QED  BY <2>1, <2>2
<1>9. ASSUME NEW w \in Sessions, Move!Activate(w) PROVE MoveTyped'
  <2>1. window[w].plan.dest \in DataRoots
    BY <1>9 DEF Move!Activate, MoversHoldTheLock, MovePlans
  <2> QED  BY <1>9, <2>1 DEF Move!Activate, Move!Release
<1>10. ASSUME NEW w \in Sessions, Move!Quit(w) PROVE MoveTyped'
  BY <1>10 DEF Move!Quit, Move!Closed
<1> QED  BY <1>1, <1>2, <1>3, <1>4, <1>5, <1>6, <1>7, <1>8, <1>9, <1>10 DEF Move!Next

LEMMA LockIsOf ==
  ASSUME MoveTyped, NEW w \in Sessions, window[w].root # Nowhere
  PROVE  /\ Move!LockDirectory(w) = LockOf(w)
         /\ LockOf(w) \in {Parents[r] : r \in DataRoots}
<1>1. window[w].root \in DataRoots
  BY DEF MoveTyped, AtWindow
<1> QED  BY <1>1 DEF Move!LockDirectory, LockOf

\* Who lets go of a lock was the only one to hold it.
LEMMA ReleasedIsFree ==
  ASSUME MoveInv, NEW w \in Sessions, window[w].at # "idle", Move!Release(w),
         window' \in [Sessions -> AtWindow],
         window'[w].at = "idle", window'[w].root = window[w].root,
         window'[w].plan \in {window[w].plan, Nothing},
         \A v \in Sessions \ {w} : window'[v] = window[v]
  PROVE  MoversHoldTheLock'
<1>2. window[w].root # Nowhere /\ moveLock[LockOf(w)] = w
  BY DEF MoveInv, MoversHoldTheLock
<1>3. moveLock' = [moveLock EXCEPT ![LockOf(w)] = NoSession]
  BY <1>2, LockIsOf DEF MoveInv, Move!Release
<1>4. ASSUME NEW v \in Sessions, v # w, window'[v].at # "idle"
      PROVE  window'[v].plan # Nothing /\ moveLock'[LockOf(v)'] = v
  <2>1. window[v].plan # Nothing /\ moveLock[LockOf(v)] = v /\ window[v].root # Nowhere
    BY <1>4 DEF MoveInv, MoversHoldTheLock
  <2>2. LockOf(v)' = LockOf(v)
    BY <1>4 DEF LockOf
  <2> QED  BY <1>2, <1>3, <1>4, <2>1, <2>2, LockIsOf DEF MoveInv, MoveTyped, MoveLocks
<1>5. ASSUME NEW v \in Sessions, window'[v].root = Nowhere
      PROVE  window'[v].at = "idle" /\ window'[v].plan = Nothing
  BY <1>2, <1>5 DEF MoveInv, MoversHoldTheLock
<1> QED  BY <1>4, <1>5 DEF MoversHoldTheLock

LEMMA MoversStep == MoveInv /\ [Move!Next]_(Move!vars) => MoversHoldTheLock'
<1> SUFFICES ASSUME MoveInv, [Move!Next]_(Move!vars) PROVE MoversHoldTheLock'
  OBVIOUS
<1> DEFINE Goal == MoversHoldTheLock'
<1>0. MoveTyped
  BY DEF MoveInv
<1>1. CASE UNCHANGED Move!vars
  BY <1>1 DEF Move!vars, MoveInv, MoversHoldTheLock, LockOf
<1>2. ASSUME NEW w \in Sessions, Move!Launch(w) PROVE Goal
  <2>1. \A v \in Sessions \ {w} : window'[v] = window[v]
    BY <1>0, <1>2 DEF MoveTyped, Move!Launch
  <2>2. /\ window'[w].at = "idle" /\ window'[w].plan = Nothing
        /\ window'[w].root = Move!Resolved
    BY <1>0, <1>2 DEF MoveTyped, AtWindow, Move!Launch, MoveInv, MoversHoldTheLock
  <2>3. Move!Resolved # Nowhere /\ UNCHANGED moveLock
    BY <1>0, <1>2, MoveFacts DEF MoveTyped, Move!Resolved, Move!Launch
  <2> QED  BY <2>1, <2>2, <2>3 DEF MoveInv, MoversHoldTheLock, LockOf
<1>3. ASSUME NEW w \in Sessions, Move!Save(w) PROVE Goal
  BY <1>3 DEF Move!Save, MoveInv, MoversHoldTheLock, LockOf
<1>4. ASSUME NEW w \in Sessions, Move!PlanMove(w) PROVE Goal
  <2>1. \A v \in Sessions \ {w} : window'[v] = window[v]
    BY <1>0, <1>4 DEF MoveTyped, Move!PlanMove
  <2>2. /\ window'[w].at = "idle" /\ window'[w].root = window[w].root
        /\ window[w].root # Nowhere /\ UNCHANGED moveLock
    BY <1>0, <1>4 DEF MoveTyped, AtWindow, Move!PlanMove
  <2> QED  BY <2>1, <2>2 DEF MoveInv, MoversHoldTheLock, LockOf
<1>5. ASSUME NEW w \in Sessions, Move!Begin(w) PROVE Goal
  <2>1. window[w].root # Nowhere /\ window[w].plan # Nothing
    BY <1>5 DEF Move!Begin, MoveInv, MoversHoldTheLock
  <2>2. /\ moveLock[LockOf(w)] = NoSession
        /\ moveLock' = [moveLock EXCEPT ![LockOf(w)] = w]
    BY <1>0, <1>5, <2>1, LockIsOf DEF Move!Begin
  <2>3. /\ \A v \in Sessions \ {w} : window'[v] = window[v]
        /\ window'[w].root = window[w].root /\ window'[w].plan = window[w].plan
    BY <1>0, <1>5 DEF MoveTyped, AtWindow, Move!Begin
  <2>4. \A v \in Sessions : LockOf(v)' = LockOf(v)
    BY <2>3 DEF LockOf
  <2>5. \A v \in Sessions \ {w} : window[v].at # "idle" => LockOf(v) # LockOf(w)
    BY <2>2, MoveFacts DEF MoveInv, MoversHoldTheLock
  <2>6. LockOf(w) \in DOMAIN moveLock
    BY <1>0, <2>1, LockIsOf DEF MoveTyped, MoveLocks
  <2> QED  BY <2>1, <2>2, <2>3, <2>4, <2>5, <2>6 DEF MoveInv, MoversHoldTheLock
<1>6. ASSUME NEW w \in Sessions, window[w].at # "idle", Move!Refuse(w) PROVE Goal
  <2>1. /\ window'[w].at = "idle" /\ window'[w].root = window[w].root
        /\ window'[w].plan = window[w].plan
        /\ \A v \in Sessions \ {w} : window'[v] = window[v]
        /\ window' \in [Sessions -> AtWindow]
    BY <1>0, <1>6, RefusedIsTyped
  <2> QED  BY <1>6, <2>1, ReleasedIsFree DEF Move!Refuse
\* A step of a move that keeps its lock.
<1>7. ASSUME NEW w \in Sessions, window[w].at # "idle", UNCHANGED moveLock,
             window'[w].root = window[w].root, window'[w].plan = window[w].plan,
             \A v \in Sessions \ {w} : window'[v] = window[v]
      PROVE  Goal
  BY <1>7 DEF MoveInv, MoversHoldTheLock, LockOf
<1>8. ASSUME NEW w \in Sessions, Move!Replan(w) PROVE Goal
  <2>1. window[w].at # "idle"
    BY <1>8 DEF Move!Replan
  <2>2. CASE ~Move!StillReviewed(w)
    BY <1>6, <1>8, <2>1, <2>2 DEF Move!Replan
  <2>3. CASE Move!StillReviewed(w)
    <3>1. /\ window' = [window EXCEPT ![w].at = "copying", ![w].todo = window[w].plan.copies]
          /\ UNCHANGED moveLock
      BY <1>8, <2>3 DEF Move!Replan
    <3> QED  BY <1>0, <1>7, <2>1, <3>1 DEF MoveTyped, AtWindow
  <2> QED  BY <2>2, <2>3
<1>9. ASSUME NEW w \in Sessions, Move!Copy(w) PROVE Goal
  <2>1. PICK f \in window[w].todo :
          IF Move!SourceMatches(w, f)
          THEN /\ window' = [window EXCEPT ![w].todo = @ \ {f}]
               /\ UNCHANGED moveLock
          ELSE Move!Refuse(w)
    BY <1>9 DEF Move!Copy
  <2>2. window[w].at # "idle"
    BY <1>9 DEF Move!Copy
  <2>3. CASE Move!SourceMatches(w, f)
    BY <1>0, <1>7, <2>1, <2>2, <2>3 DEF MoveTyped, AtWindow
  <2>4. CASE ~Move!SourceMatches(w, f)
    BY <1>6, <2>1, <2>2, <2>4
  <2> QED  BY <2>3, <2>4
<1>10. ASSUME NEW w \in Sessions, Move!CheckActivation(w) PROVE Goal
  <2>1. window[w].at # "idle"
    BY <1>10 DEF Move!CheckActivation
  <2>2. CASE Move!Activation(window[w].plan.dest) # window[w].plan.before
    BY <1>6, <1>10, <2>1, <2>2 DEF Move!CheckActivation
  <2>3. CASE Move!Activation(window[w].plan.dest) = window[w].plan.before
    <3>1. window' = [window EXCEPT ![w].at = "checked"] /\ UNCHANGED moveLock
      BY <1>10, <2>3 DEF Move!CheckActivation
    <3> QED  BY <1>0, <1>7, <2>1, <3>1 DEF MoveTyped, AtWindow
  <2> QED  BY <2>2, <2>3
<1>11. ASSUME NEW w \in Sessions, Move!Activate(w) PROVE Goal
  <2>1. /\ window[w].at # "idle" /\ Move!Release(w)
        /\ window' = [window EXCEPT ![w].at = "idle", ![w].plan = Nothing]
    BY <1>11 DEF Move!Activate
  <2>2. /\ window'[w].at = "idle" /\ window'[w].root = window[w].root
        /\ window'[w].plan = Nothing
        /\ \A v \in Sessions \ {w} : window'[v] = window[v]
    BY <1>0, <2>1 DEF MoveTyped, AtWindow
  <2> QED  BY <2>1, <2>2, MoveTypedStep, ReleasedIsFree DEF MoveTyped
<1>12. ASSUME NEW w \in Sessions, Move!Quit(w) PROVE Goal
  <2>1. /\ \A v \in Sessions \ {w} : window'[v] = window[v]
        /\ window'[w].at = "idle" /\ window'[w].plan = Nothing /\ window'[w].root = Nowhere
        /\ \A p \in DOMAIN moveLock : moveLock[p] # w => moveLock'[p] = moveLock[p]
    BY <1>0, <1>12 DEF MoveTyped, Move!Quit, Move!Closed
  <2>3. ASSUME NEW v \in Sessions, v # w, window[v].at # "idle"
        PROVE  moveLock'[LockOf(v)'] = v
    <3>1. moveLock[LockOf(v)] = v /\ window[v].root # Nowhere
      BY <2>3 DEF MoveInv, MoversHoldTheLock
    <3>2. LockOf(v) \in DOMAIN moveLock
      BY <1>0, <3>1, LockIsOf DEF MoveTyped, MoveLocks
    <3>3. LockOf(v)' = LockOf(v)
      BY <2>1, <2>3 DEF LockOf
    <3> QED  BY <2>1, <2>3, <3>1, <3>2, <3>3
  <2> QED  BY <2>1, <2>3 DEF MoveInv, MoversHoldTheLock
<1> QED  BY <1>1, <1>2, <1>3, <1>4, <1>5, <1>8, <1>9, <1>10, <1>11, <1>12 DEF Move!Next

LEMMA ApartStep == MoveInv /\ [Move!Next]_(Move!vars) => MovesAreApart'
<1> SUFFICES ASSUME MoveInv, [Move!Next]_(Move!vars) PROVE MovesAreApart'
  OBVIOUS
<1>0. MoveTyped /\ MoversHoldTheLock /\ MovesAreApart
  BY DEF MoveInv
\* A step after which no other window is at work than before.
<1>1. ASSUME \A v \in Sessions : window'[v].at = "idle" \/ window[v].at # "idle",
             UNCHANGED crossed
      PROVE  MovesAreApart'
  BY <1>0, <1>1 DEF MovesAreApart
<1>2. ASSUME NEW w \in Sessions, Move!Begin(w) PROVE MovesAreApart'
  <2>1. /\ \A v \in Sessions \ {w} : window'[v] = window[v]
        /\ window[w].at = "idle" /\ window[w].root # Nowhere
    BY <1>0, <1>2 DEF MoveTyped, Move!Begin, MoversHoldTheLock
  <2>2. moveLock[LockOf(w)] = NoSession /\ Move!LockDirectory(w) = LockOf(w)
    BY <1>0, <1>2, <2>1, LockIsOf DEF Move!Begin
  <2>3. ASSUME NEW v \in Sessions, window[v].at # "idle"
        PROVE  v \in Move!UnderAnotherLock(w)
    <3>1. moveLock[LockOf(v)] = v /\ window[v].root # Nowhere
      BY <1>0, <2>3 DEF MoversHoldTheLock
    <3>2. LockOf(v) # LockOf(w)
      BY <2>2, <3>1, MoveFacts
    <3> QED  BY <1>0, <2>2, <2>3, <3>1, <3>2, LockIsOf DEF Move!UnderAnotherLock
  <2>4. Move!Crosses(w)
    BY <1>2 DEF Move!Begin
  <2>5. ASSUME NEW v \in Sessions, NEW u \in Sessions, v # u,
               window'[v].at # "idle", window'[u].at # "idle"
        PROVE  u \in crossed'
    <3>1. CASE u = w
      <4>1. v \in Move!UnderAnotherLock(w)
        BY <2>1, <2>3, <2>5, <3>1
      <4> QED  BY <2>4, <3>1, <4>1 DEF Move!Crosses
    <3>2. CASE u # w
      <4>1. u \in Move!UnderAnotherLock(w)
        BY <2>1, <2>3, <2>5, <3>2
      <4> QED  BY <2>4, <4>1 DEF Move!Crosses
    <3> QED  BY <3>1, <3>2
  <2> QED  BY <2>5 DEF MovesAreApart
<1>3. CASE UNCHANGED Move!vars
  BY <1>1, <1>3 DEF Move!vars
<1>4. ASSUME NEW w \in Sessions,
             \/ Move!Launch(w) \/ Move!Save(w) \/ Move!PlanMove(w) \/ Move!Replan(w)
             \/ Move!Copy(w) \/ Move!CheckActivation(w) \/ Move!Activate(w) \/ Move!Quit(w)
      PROVE  MovesAreApart'
  <2>1. UNCHANGED crossed
    BY <1>4 DEF Move!Launch, Move!Save, Move!PlanMove, Move!Replan, Move!Copy,
                Move!CheckActivation, Move!Activate, Move!Quit
  <2>2. \A v \in Sessions \ {w} : window'[v] = window[v]
    BY <1>0, <1>4 DEF MoveTyped, Move!Launch, Move!Save, Move!PlanMove, Move!Replan, Move!Copy,
                      Move!CheckActivation, Move!Activate, Move!Quit, Move!Refuse
  <2>3. window'[w].at = "idle" \/ window[w].at # "idle"
    BY <1>0, <1>4 DEF MoveTyped, AtWindow, MoversHoldTheLock, Move!Launch, Move!Save,
                      Move!PlanMove, Move!Replan, Move!Copy, Move!CheckActivation,
                      Move!Activate, Move!Quit, Move!Closed
  <2> QED  BY <1>1, <2>1, <2>2, <2>3
<1> QED  BY <1>2, <1>3, <1>4 DEF Move!Next

LEMMA ReviewedStep == MoveInv /\ [Move!Next]_(Move!vars) => MoveIsReviewed'
<1> SUFFICES ASSUME MoveInv, [Move!Next]_(Move!vars), NEW w \in Sessions
             PROVE  /\ window'[w].at \in {"copying", "checked"} /\ w \notin crossed' => PlannedIsThere(w)'
                    /\ window'[w].at = "checked" =>
                         /\ window'[w].todo = {}
                         /\ w \notin crossed' =>
                              Move!Activation(window[w].plan.dest)' = window'[w].plan.before
  BY DEF MoveIsReviewed
<1> DEFINE Goal == /\ window'[w].at \in {"copying", "checked"} /\ w \notin crossed' => PlannedIsThere(w)'
                   /\ window'[w].at = "checked" =>
                        /\ window'[w].todo = {}
                        /\ w \notin crossed' =>
                             Move!Activation(window[w].plan.dest)' = window'[w].plan.before
<1>0. /\ MoveTyped /\ MoversHoldTheLock
      /\ window[w].at \in {"copying", "checked"} /\ w \notin crossed => PlannedIsThere(w)
      /\ window[w].at = "checked" =>
           /\ window[w].todo = {}
           /\ w \notin crossed => Move!Activation(window[w].plan.dest) = window[w].plan.before
  BY DEF MoveInv, MoveIsReviewed
\* Of a window that is not at work nothing is said.
<1>1. ASSUME window'[w].at \in {"idle", "locked"} PROVE Goal
  BY <1>1
\* A step that leaves the window and the activation files.
<1>2. ASSUME window'[w] = window[w], UNCHANGED << disk, bootstrap, marker, saved >>,
             w \notin crossed' => w \notin crossed
      PROVE  Goal
  BY <1>0, <1>2 DEF PlannedIsThere, Move!Activation
<1>3. CASE UNCHANGED Move!vars
  BY <1>2, <1>3 DEF Move!vars
<1>4. ASSUME NEW v \in Sessions, Move!Launch(v) \/ Move!PlanMove(v) \/ Move!Begin(v) \/ Move!Quit(v)
      PROVE  Goal
  <2>1. UNCHANGED << disk, bootstrap, marker, saved >>
    BY <1>4 DEF Move!Launch, Move!PlanMove, Move!Begin, Move!Quit
  <2>2. CASE v # w
    <3>1. window'[w] = window[w] /\ (w \notin crossed' => w \notin crossed)
      BY <1>0, <1>4, <2>2 DEF MoveTyped, Move!Launch, Move!PlanMove, Move!Begin, Move!Quit,
                              Move!Crosses
    <3> QED  BY <1>2, <2>1, <3>1
  <2>3. CASE v = w
    <3>1. window'[w].at \in {"idle", "locked"}
      BY <1>0, <1>4, <2>3
         DEF MoveTyped, AtWindow, MoversHoldTheLock, Move!Launch, Move!PlanMove, Move!Begin,
             Move!Quit, Move!Closed
    <3> QED  BY <1>1, <3>1
  <2> QED  BY <2>2, <2>3
<1>5. ASSUME NEW v \in Sessions, Move!Save(v) PROVE Goal
  <2>1. PICK f \in FileNames, c \in FileContents :
          /\ disk' = [disk EXCEPT ![window[v].root][f] = c]
          /\ saved' = saved \union {<< window[v].root, f >>}
    BY <1>5 DEF Move!Save, Move!Files, FileNames
  <2>2. UNCHANGED << bootstrap, marker, window, crossed >>
    BY <1>5 DEF Move!Save
  <2>3. ASSUME NEW r \in DataRoots, NEW g \in FileNames
        PROVE  disk'[r][g] = disk[r][g] \/ << r, g >> \in saved'
    BY <1>0, <2>1 DEF MoveTyped, Trees
  <2>4. window[w].at # "idle" => window[w].plan \in MovePlans
    BY <1>0 DEF MoveTyped, AtWindow, MoversHoldTheLock
  <2>5. ASSUME window[w].at \in {"copying", "checked"}, w \notin crossed PROVE PlannedIsThere(w)'
    <3>1. window[w].plan.dest \in DataRoots
      BY <2>4, <2>5 DEF MovePlans
    <3> QED  BY <1>0, <2>1, <2>2, <2>3, <2>5, <3>1 DEF PlannedIsThere
  <2> QED  BY <1>0, <2>2, <2>5 DEF Move!Activation
<1>6. ASSUME NEW v \in Sessions, Move!Replan(v) PROVE Goal
  <2>1. UNCHANGED << disk, bootstrap, marker, saved, crossed >>
    BY <1>6 DEF Move!Replan
  <2>2. CASE v # w
    <3>1. window'[w] = window[w]
      BY <1>0, <1>6, <2>2 DEF MoveTyped, Move!Replan, Move!Refuse
    <3> QED  BY <1>2, <2>1, <3>1
  <2>3. CASE v = w /\ ~Move!StillReviewed(w)
    <3>1. window'[w].at = "idle"
      <4>1. Move!Refuse(w)
        BY <1>6, <2>3 DEF Move!Replan
      <4> QED  BY <1>0, <4>1, RefusedIsTyped
    <3> QED  BY <1>1, <3>1
  <2>4. CASE v = w /\ Move!StillReviewed(w)
    <3> DEFINE p == window[w].plan
               r == window[w].root
    <3>1. window' = [window EXCEPT ![w].at = "copying", ![w].todo = p.copies]
      BY <1>6, <2>4 DEF Move!Replan
    <3>2. window'[w].at = "copying" /\ window'[w].todo = p.copies /\ window'[w].plan = p
      BY <1>0, <3>1 DEF MoveTyped, AtWindow
    <3>3. /\ Move!Movable(r, p.dest)
          /\ p.entries = disk[r]
          /\ p.copies = {f \in Move!Files : disk[r][f] # Missing /\ disk[p.dest][f] = Missing}
      BY <2>4 DEF Move!StillReviewed, Move!Plan
    <3>4. PlannedIsThere(w)'
      <4> HIDE DEF p, r
      <4>1. ASSUME NEW f \in FileNames, p.entries[f] # Missing
            PROVE  f \in p.copies \/ disk[p.dest][f] = p.entries[f]
        BY <3>3, <4>1 DEF Move!Movable, Move!Files, FileNames
      <4> QED  BY <2>1, <3>2, <4>1 DEF PlannedIsThere
    <3> QED  BY <3>2, <3>4
  <2> QED  BY <2>2, <2>3, <2>4
<1>7. ASSUME NEW v \in Sessions, Move!Copy(v) PROVE Goal
  <2>1. PICK f \in window[v].todo :
          IF Move!SourceMatches(v, f)
          THEN /\ disk' = [disk EXCEPT ![window[v].plan.dest][f] = disk[window[v].root][f]]
               /\ window' = [window EXCEPT ![v].todo = @ \ {f}]
          ELSE Move!Refuse(v) /\ UNCHANGED disk
    BY <1>7 DEF Move!Copy
  <2>2. UNCHANGED << bootstrap, marker, saved, crossed >> /\ window[v].at = "copying"
    BY <1>7 DEF Move!Copy
  <2>3. CASE ~Move!SourceMatches(v, f)
    <3>1. window' = [window EXCEPT ![v] = [window[v] EXCEPT !.at = "idle", !.todo = {}]]
          /\ UNCHANGED disk
      BY <1>0, <2>1, <2>3, RefusedIsTyped
    <3>2. window'[w] = window[w] \/ window'[w].at = "idle"
      BY <1>0, <3>1 DEF MoveTyped, AtWindow
    <3> QED  BY <1>1, <1>2, <2>2, <3>1, <3>2
  <2>4. CASE Move!SourceMatches(v, f) /\ v # w
    <3>1. window'[w] = window[w]
      BY <1>0, <2>1, <2>4 DEF MoveTyped
    <3>2. window[w].at \in {"copying", "checked"} => w \in crossed
      BY <2>2, <2>4, OneMoves
    <3> QED  BY <1>0, <2>2, <3>1, <3>2
  <2>5. CASE Move!SourceMatches(v, f) /\ v = w
    <3> DEFINE p == window[w].plan
    <3>1. window'[w].at = "copying" /\ window'[w].todo = window[w].todo \ {f}
          /\ window'[w].plan = p
      BY <1>0, <2>1, <2>2, <2>5 DEF MoveTyped, AtWindow
    <3>2. p.dest \in DataRoots /\ f \in FileNames
      BY <1>0, <2>2, <2>5 DEF MoveTyped, AtWindow, MovePlans, MoversHoldTheLock
    <3>3. disk' = [disk EXCEPT ![p.dest] = [disk[p.dest] EXCEPT ![f] = p.entries[f]]]
      BY <2>1, <2>5 DEF Move!SourceMatches
    <3>4. disk[p.dest] \in Trees
      BY <1>0, <3>2 DEF MoveTyped
    <3> HIDE DEF p
    <3>5. disk'[p.dest][f] = p.entries[f]
          /\ \A g \in FileNames \ {f} : disk'[p.dest][g] = disk[p.dest][g]
      BY <1>0, <3>2, <3>3, <3>4 DEF MoveTyped, Trees
    <3>6. w \notin crossed => PlannedIsThere(w)'
      BY <1>0, <2>2, <2>5, <3>1, <3>5 DEF PlannedIsThere, p
    <3> QED  BY <2>2, <3>1, <3>6
  <2> QED  BY <2>3, <2>4, <2>5
<1>8. ASSUME NEW v \in Sessions, Move!CheckActivation(v) PROVE Goal
  <2>1. UNCHANGED << disk, bootstrap, marker, saved, crossed >>
    BY <1>8 DEF Move!CheckActivation
  <2>2. CASE v # w
    <3>1. window'[w] = window[w]
      BY <1>0, <1>8, <2>2 DEF MoveTyped, Move!CheckActivation, Move!Refuse
    <3> QED  BY <1>2, <2>1, <3>1
  <2>3. CASE v = w /\ Move!Activation(window[w].plan.dest) # window[w].plan.before
    <3>1. window'[w].at = "idle"
      <4>1. Move!Refuse(w)
        BY <1>8, <2>3 DEF Move!CheckActivation
      <4> QED  BY <1>0, <4>1, RefusedIsTyped
    <3> QED  BY <1>1, <3>1
  <2>4. CASE v = w /\ Move!Activation(window[w].plan.dest) = window[w].plan.before
    <3>1. window' = [window EXCEPT ![w].at = "checked"]
          /\ window[w].at = "copying" /\ window[w].todo = {}
      BY <1>8, <2>4 DEF Move!CheckActivation
    <3>2. /\ window'[w].at = "checked" /\ window'[w].todo = {}
          /\ window'[w].plan = window[w].plan /\ window'[w].todo = window[w].todo
      BY <1>0, <3>1 DEF MoveTyped, AtWindow
    <3> QED  BY <1>0, <2>1, <2>4, <3>1, <3>2 DEF PlannedIsThere, Move!Activation
  <2> QED  BY <2>2, <2>3, <2>4
<1>9. ASSUME NEW v \in Sessions, Move!Activate(v) PROVE Goal
  <2>1. /\ window[v].at = "checked" /\ UNCHANGED << disk, saved, crossed >>
        /\ window' = [window EXCEPT ![v].at = "idle", ![v].plan = Nothing]
    BY <1>9 DEF Move!Activate
  <2>2. CASE v = w
    <3>1. window'[w].at = "idle"
      BY <1>0, <2>1, <2>2 DEF MoveTyped, AtWindow
    <3> QED  BY <1>1, <3>1
  <2>3. CASE v # w
    <3>1. window'[w] = window[w]
      BY <1>0, <2>1, <2>3 DEF MoveTyped
    <3>2. window[w].at \in {"copying", "checked"} => w \in crossed
      BY <2>1, <2>3, OneMoves
    <3> QED  BY <1>0, <2>1, <3>1, <3>2
  <2> QED  BY <2>2, <2>3
<1> QED  BY <1>3, <1>4, <1>5, <1>6, <1>7, <1>8, <1>9 DEF Move!Next

LEMMA MoveInvStep == MoveInv /\ [Move!Next]_(Move!vars) => MoveInv'
BY MoveTypedStep, MoversStep, ApartStep, ReviewedStep DEF MoveInv

LEMMA SwitchIsReviewed ==
  ASSUME MoveInv, NEW w \in Sessions, Move!Activated(w), w \notin crossed
  PROVE  Move!SwitchedAsReviewed(w)
<1>1. /\ window[w].at = "checked"
      /\ window[w].todo = {} /\ PlannedIsThere(w)
  BY DEF MoveInv, MoveIsReviewed, Move!Activated
<1> QED  BY <1>1 DEF MoveInv, MoveIsReviewed, PlannedIsThere, Move!SwitchedAsReviewed,
                     Move!HoldsPlan, Move!Files, FileNames

-----------------------------------------------------------------------------
(***************************************************************************)
(* The run's own specification.  Its subjects share no state, so each of   *)
(* them behaves as it does alone, and what is proved of it holds there.    *)
(***************************************************************************)
localVars == << subject, replaceVars, moveVars, restoreVars >>

LEMMA LocalRunsReplace == LocalSpec => Spec \/ []inTurn
<1>1. LocalInit /\ ~inTurn => Init
  BY DEF LocalInit, EitherInit
<1>2. [LocalNext]_localVars /\ ~inTurn => [Next]_vars
  BY DEF LocalNext, localVars, replaceVars, EitherNext, vars
<1>3. [LocalNext]_localVars => inTurn' = inTurn
  BY DEF LocalNext, localVars, replaceVars, EitherNext
<1>4. LocalInit => inTurn \in BOOLEAN
  BY DEF LocalInit, EitherInit
<1>5. [LocalNext]_localVars /\ inTurn => inTurn'
  BY <1>3
<1>6. [LocalNext]_localVars /\ ~inTurn => ~inTurn'
  BY <1>3
<1> QED  BY <1>1, <1>2, <1>5, <1>6, PTL DEF LocalSpec, localVars, Spec

\* What apply, rollback and a control plan destroy is exactly what was reviewed,
\* in the run's own behaviours in which nobody writes in the gap.
THEOREM ReviewedIsReplacedInTheRun ==
  ASSUME ~ResolveInFlight, ~GapWrites
  PROVE  LocalSpec => SharedReplacesWhatWasReviewed
<1>1. Spec => ReplacesWhatWasReviewed
  BY ReviewedIsReplaced
<1>2. [\A s \in Sessions : ReviewedBy(s)]_vars
        => [~inTurn => \A s \in Sessions : ReviewedBy(s)]_<< vars, inTurn >>
  BY DEF vars, ReviewedBy, Replaces
<1>3. inTurn => [~inTurn => \A s \in Sessions : ReviewedBy(s)]_<< vars, inTurn >>
  OBVIOUS
<1> QED  BY <1>1, <1>2, <1>3, LocalRunsReplace, PTL
            DEF SharedReplacesWhatWasReviewed, ReplacesWhatWasReviewed

LEMMA LocalRunsMove == LocalSpec => Move!Spec
<1>1. LocalInit => Move!Init
  BY DEF LocalInit
<1>2. [LocalNext]_localVars => [Move!Next]_(Move!vars)
  BY DEF LocalNext, localVars, moveVars, Move!vars
<1> QED  BY <1>1, <1>2, PTL DEF LocalSpec, localVars, Move!Spec

\* Later launches are switched to a root only when it holds every file of the
\* reviewed plan, and only from the location its user has seen, whatever the
\* directories of the roots, by every move that none under another lock ran
\* beside.
THEOREM MovesSwitchAsReviewed == LocalSpec => SwitchesAsReviewed
<1>1. MoveInv => [\A w \in Sessions :
                    Move!Activated(w) /\ w \notin crossed =>
                      Move!SwitchedAsReviewed(w)]_(Move!vars)
  BY SwitchIsReviewed
<1> QED  BY <1>1, MoveInit, MoveInvStep, LocalRunsMove, PTL
            DEF SwitchesAsReviewed, Move!SwitchesAsReviewed, Move!Spec

-----------------------------------------------------------------------------
(***************************************************************************)
(* Restoring exported settings, for every number of targets and every set  *)
(* of sessions: an interrupted restore can be undone, and no restore is    *)
(* ever half done.                                                         *)
(*                                                                         *)
(* Nothing but saves happens between the comparison of the targets and the *)
(* journal, so what is backed up is what was compared or a save made       *)
(* since.  If one target needs no change (it has the archive's content),   *)
(* then by AllOrNothing no target still has its old content, and the ones  *)
(* to change are saves; so undoing a restore either undoes all targets or  *)
(* puts saves back among contents of the archive.                          *)
(***************************************************************************)

RestoreJournals ==
  [stage : {"applying", "complete"}, items : SUBSET Restore!Targets, had : SUBSET Restore!Targets]
RestorePlaces == {"idle", "entered", "checking", "backing", "replacing", "cleaning",
           "cleaned", "recovering", "undoing"}

RestoreTyped ==
  /\ files \in [Restore!Targets -> Restore!Contents]
  /\ recovery \in [Restore!Targets -> Restore!Contents]
  /\ restoreJournal \in RestoreJournals \union {Nothing}
  /\ restoreLock \in Sessions \union {NoSession}
  /\ at \in [Sessions -> RestorePlaces]
  /\ expected \in [Sessions -> [Restore!Targets -> Restore!Contents]]
  /\ todo \in [Sessions -> SUBSET Restore!Targets]
  /\ had \in [Sessions -> SUBSET Restore!Targets]

OneRestores == \A s \in Sessions : at[s] # "idle" <=> restoreLock = s

\* The archive's contents and what they were to replace are not mixed.
Settled ==
  \/ \A t \in Restore!Targets : files[t] # NewFile
  \/ \A t \in Restore!Targets : files[t] \in {NewFile, OwnFile}

Applying == restoreJournal # Nothing /\ restoreJournal.stage = "applying"

BackingUp(s) ==
  /\ \A t \in Restore!Changed(s) : files[t] # NewFile
  /\ \A t \in Restore!Targets \ Restore!Changed(s) : files[t] \in {NewFile, OwnFile}
  /\ Restore!Changed(s) = Restore!Targets \/ \A t \in Restore!Changed(s) : files[t] = OwnFile
  /\ todo[s] \subseteq Restore!Changed(s)
  /\ had[s] \subseteq Restore!Changed(s) \ todo[s]
  /\ \A t \in had[s] : recovery[t] \in {OldFile, OwnFile}
  /\ Restore!Changed(s) = Restore!Targets
       \/ \A t \in Restore!Changed(s) \ todo[s] : t \in had[s] /\ recovery[t] = OwnFile

Replacing(s) ==
  /\ Applying
  /\ restoreJournal.items = Restore!Changed(s) /\ restoreJournal.had = had[s]
  /\ \A t \in Restore!Targets \ todo[s] : files[t] \in {NewFile, OwnFile}

Undoing(s) ==
  /\ Applying
  /\ todo[s] \subseteq restoreJournal.items /\ had[s] = restoreJournal.had
  /\ IF restoreJournal.items = Restore!Targets
       THEN \A t \in Restore!Targets \ todo[s] : files[t] # NewFile
       ELSE \A t \in restoreJournal.items \ todo[s] : files[t] = OwnFile

RestorersInv ==
  \A s \in Sessions :
    /\ at[s] \in {"checking", "backing"} => restoreJournal = Nothing
    /\ at[s] \in {"idle", "entered", "checking"} => had[s] = {}
    /\ at[s] = "backing" => BackingUp(s)
    /\ at[s] = "replacing" => Replacing(s)
    /\ at[s] = "undoing" => Undoing(s)
    /\ at[s] \in {"cleaning", "cleaned"} => restoreJournal # Nothing /\ ~Applying

RestoreJournalInv ==
  /\ restoreJournal # Nothing => restoreJournal.had \subseteq restoreJournal.items
  /\ Applying =>
       /\ \A t \in restoreJournal.had : recovery[t] \in {OldFile, OwnFile}
       /\ \/ restoreJournal.items = Restore!Targets
          \/ /\ \A t \in restoreJournal.items : t \in restoreJournal.had /\ recovery[t] = OwnFile
             /\ \A t \in Restore!Targets \ restoreJournal.items : files[t] \in {NewFile, OwnFile}
  /\ ~Applying => Settled

\* What undoing makes of a target.
Original(s, t) == IF t \in had[s] THEN recovery[t] ELSE Missing

RestoreInv == RestoreTyped /\ OneRestores /\ RestorersInv /\ RestoreJournalInv

LEMMA RestoreTypedStep ==
  ASSUME Restore!RestoreAssumption, RestoreInv, [Restore!Next]_(Restore!vars)
  PROVE  RestoreTyped'
<1> USE DEF RestoreInv, Restore!RestoreAssumption, RestoreTyped, RestoreJournals,
                RestorePlaces, Restore!Contents, Restore!Go
<1>1. CASE Restore!SaveOutside
  BY <1>1 DEF Restore!SaveOutside
<1>2. ASSUME NEW s \in Sessions, Restore!PlanRestore(s)
      PROVE  RestoreTyped'
  BY <1>2 DEF Restore!PlanRestore
<1>3. ASSUME NEW s \in Sessions, Restore!BeginRestore(s) \/ Restore!BeginRecovery(s)
      PROVE  RestoreTyped'
  BY <1>3 DEF Restore!BeginRestore, Restore!BeginRecovery, Restore!Enter
<1>4. ASSUME NEW s \in Sessions, Restore!DropLeftovers(s)
      PROVE  RestoreTyped'
  BY <1>4 DEF Restore!DropLeftovers, Restore!MayStart, Restore!Leave, Restore!NoFiles
<1>5. ASSUME NEW s \in Sessions, Restore!CheckTargets(s)
      PROVE  RestoreTyped'
  <2>1. Restore!Changed(s) \in SUBSET Restore!Targets
    BY DEF Restore!Changed
  <2>2. CASE files = expected[s]
    <3>1. /\ at' = [at EXCEPT ![s] = "backing"]
          /\ todo' = [todo EXCEPT ![s] = Restore!Changed(s)]
      BY <1>5, <2>2 DEF Restore!CheckTargets
    <3>2. UNCHANGED << files, recovery, restoreJournal, restoreLock, expected, had >>
      BY <1>5, <2>2 DEF Restore!CheckTargets
    <3> QED
      BY <2>1, <3>1, <3>2
  <2>3. CASE files # expected[s]
    BY <1>5, <2>3 DEF Restore!CheckTargets, Restore!Leave
  <2> QED
    BY <2>2, <2>3
<1>6. ASSUME NEW s \in Sessions, Restore!BackUp(s)
      PROVE  RestoreTyped'
  BY <1>6 DEF Restore!BackUp, Restore!Done, Restore!First
<1>7. ASSUME NEW s \in Sessions, Restore!WriteJournal(s)
      PROVE  RestoreTyped'
  BY <1>7 DEF Restore!WriteJournal, Restore!Journal, Restore!Changed
<1>8. ASSUME NEW s \in Sessions, Restore!Complete(s)
      PROVE  RestoreTyped'
  BY <1>8 DEF Restore!Complete, Restore!Journal, Restore!Changed
<1>9. ASSUME NEW s \in Sessions, Restore!Replace(s)
      PROVE  RestoreTyped'
  BY <1>9 DEF Restore!Replace, Restore!Done, Restore!First
<1>10. ASSUME NEW s \in Sessions, Restore!CleanTree(s)
      PROVE  RestoreTyped'
  BY <1>10 DEF Restore!CleanTree, Restore!NoFiles
<1>11. ASSUME NEW s \in Sessions, Restore!RemoveJournal(s)
      PROVE  RestoreTyped'
  BY <1>11 DEF Restore!RemoveJournal, Restore!Leave
<1>12. ASSUME NEW s \in Sessions, Restore!ReadJournal(s)
      PROVE  RestoreTyped'
  BY <1>12 DEF Restore!ReadJournal, Restore!Leave
<1>13. ASSUME NEW s \in Sessions, Restore!Undo(s)
      PROVE  RestoreTyped'
  <2>1. PICK t \in todo[s] :
          IF t \in had[s] /\ recovery[t] = Missing
          THEN Restore!Leave(s) /\ UNCHANGED files
          ELSE /\ files' = [files EXCEPT ![t] = Original(s, t)]
               /\ Restore!Done(s, t)
               /\ UNCHANGED << restoreLock, at, had >>
    BY <1>13 DEF Restore!Undo, Original
  <2>2. UNCHANGED << recovery, restoreJournal, expected >>
    BY <1>13 DEF Restore!Undo
  <2>3. CASE t \in had[s] /\ recovery[t] = Missing
    BY <2>1, <2>2, <2>3 DEF Restore!Leave
  <2>4. CASE ~(t \in had[s] /\ recovery[t] = Missing)
    <3>1. t \in Restore!Targets /\ recovery[t] \in Restore!Contents
      OBVIOUS
    <3>2. files' \in [Restore!Targets -> Restore!Contents]
      BY <2>1, <2>4, <3>1 DEF Original
    <3> QED
      BY <2>1, <2>2, <2>4, <3>2 DEF Restore!Done, Original
  <2> QED
    BY <2>3, <2>4
<1>14. ASSUME NEW s \in Sessions, Restore!Undone(s)
      PROVE  RestoreTyped'
  <2>1. restoreJournal \in RestoreJournals
    BY <1>14 DEF Restore!Undone, RestorersInv, Undoing, Applying
  <2>2. restoreJournal' \in RestoreJournals
    BY <1>14, <2>1 DEF Restore!Undone, Restore!Journal
  <2> QED
    BY <1>14, <2>2 DEF Restore!Undone
<1>15. ASSUME NEW s \in Sessions, Restore!Fail(s)
      PROVE  RestoreTyped'
  <2>1. \/ Restore!Leave(s) /\ UNCHANGED recovery
        \/ Restore!Leave(s) /\ recovery' = Restore!NoFiles
        \/ Restore!Go(s, "recovering") /\ UNCHANGED << recovery, restoreLock, todo, had >>
    BY <1>15 DEF Restore!Fail
  <2>2. UNCHANGED << files, restoreJournal, expected >>
    BY <1>15 DEF Restore!Fail
  <2> QED
    BY <2>1, <2>2 DEF Restore!Leave, Restore!NoFiles
<1>16. ASSUME NEW s \in Sessions, Restore!Crash(s)
      PROVE  RestoreTyped'
  BY <1>16 DEF Restore!Crash, Restore!Leave, Restore!NoFiles
<1>17. CASE UNCHANGED Restore!vars
  BY <1>17 DEF Restore!vars
<1> QED
  BY <1>1, <1>2, <1>3, <1>4, <1>5, <1>6, <1>7, <1>8, <1>9, <1>10, <1>11,
     <1>12, <1>13, <1>14, <1>15, <1>16, <1>17
     DEF Restore!Next

LEMMA OneRestoresStep ==
  ASSUME Restore!RestoreAssumption, RestoreInv, [Restore!Next]_(Restore!vars)
  PROVE  OneRestores'
<1> USE DEF RestoreInv, Restore!RestoreAssumption, RestoreTyped, RestoreJournals,
                RestorePlaces, Restore!Contents, Restore!Go,
        OneRestores
<1>1. CASE Restore!SaveOutside
  BY <1>1 DEF Restore!SaveOutside
<1>2. ASSUME NEW s \in Sessions, Restore!PlanRestore(s)
      PROVE  OneRestores'
  BY <1>2 DEF Restore!PlanRestore
<1>3. ASSUME NEW s \in Sessions, Restore!BeginRestore(s)
      PROVE  OneRestores'
  BY <1>3 DEF Restore!BeginRestore, Restore!Enter
<1>4. ASSUME NEW s \in Sessions, Restore!BeginRecovery(s)
      PROVE  OneRestores'
  BY <1>4 DEF Restore!BeginRecovery, Restore!Enter
<1>5. ASSUME NEW s \in Sessions, Restore!DropLeftovers(s)
      PROVE  OneRestores'
  BY <1>5 DEF Restore!DropLeftovers, Restore!MayStart, Restore!Leave, Restore!NoFiles
<1>6. ASSUME NEW s \in Sessions, Restore!CheckTargets(s)
      PROVE  OneRestores'
  BY <1>6 DEF Restore!CheckTargets, Restore!Leave, Restore!Changed
<1>7. ASSUME NEW s \in Sessions, Restore!BackUp(s)
      PROVE  OneRestores'
  BY <1>7 DEF Restore!BackUp, Restore!Done, Restore!First
<1>8. ASSUME NEW s \in Sessions, Restore!WriteJournal(s)
      PROVE  OneRestores'
  BY <1>8 DEF Restore!WriteJournal, Restore!Journal, Restore!Changed
<1>9. ASSUME NEW s \in Sessions, Restore!Replace(s)
      PROVE  OneRestores'
  BY <1>9 DEF Restore!Replace, Restore!Done, Restore!First
<1>10. ASSUME NEW s \in Sessions, Restore!Complete(s)
      PROVE  OneRestores'
  BY <1>10 DEF Restore!Complete, Restore!Journal, Restore!Changed
<1>11. ASSUME NEW s \in Sessions, Restore!CleanTree(s)
      PROVE  OneRestores'
  BY <1>11 DEF Restore!CleanTree, Restore!NoFiles
<1>12. ASSUME NEW s \in Sessions, Restore!RemoveJournal(s)
      PROVE  OneRestores'
  BY <1>12 DEF Restore!RemoveJournal, Restore!Leave
<1>13. ASSUME NEW s \in Sessions, Restore!ReadJournal(s)
      PROVE  OneRestores'
  BY <1>13 DEF Restore!ReadJournal, Restore!Leave
<1>14. ASSUME NEW s \in Sessions, Restore!Undo(s)
      PROVE  OneRestores'
  BY <1>14 DEF Restore!Undo, Restore!Leave, Restore!Done
<1>15. ASSUME NEW s \in Sessions, Restore!Undone(s)
      PROVE  OneRestores'
  BY <1>15 DEF Restore!Undone, Restore!Journal
<1>16. ASSUME NEW s \in Sessions, Restore!Fail(s)
      PROVE  OneRestores'
  BY <1>16 DEF Restore!Fail, Restore!Leave, Restore!NoFiles
<1>17. ASSUME NEW s \in Sessions, Restore!Crash(s)
      PROVE  OneRestores'
  BY <1>17 DEF Restore!Crash, Restore!Leave, Restore!NoFiles
<1>18. CASE UNCHANGED Restore!vars
  BY <1>18 DEF Restore!vars
<1> QED
  BY <1>1, <1>2, <1>3, <1>4, <1>5, <1>6, <1>7, <1>8, <1>9, <1>10, <1>11,
     <1>12, <1>13, <1>14, <1>15, <1>16, <1>17, <1>18
     DEF Restore!Next

LEMMA RestorersStep ==
  ASSUME Restore!RestoreAssumption, RestoreInv, [Restore!Next]_(Restore!vars)
  PROVE  RestorersInv'
<1> USE DEF RestoreInv, Restore!RestoreAssumption, RestoreTyped, RestoreJournals,
                RestorePlaces, Restore!Contents, Restore!Go,
        OneRestores, RestorersInv, BackingUp, Replacing, Undoing, Applying,
        RestoreJournalInv, Settled, Restore!Changed
<1>1. CASE Restore!SaveOutside
  BY <1>1 DEF Restore!SaveOutside
<1>2. ASSUME NEW s \in Sessions, Restore!PlanRestore(s)
      PROVE  RestorersInv'
  BY <1>2 DEF Restore!PlanRestore
<1>3. ASSUME NEW s \in Sessions, Restore!BeginRestore(s)
      PROVE  RestorersInv'
  BY <1>3 DEF Restore!BeginRestore, Restore!Enter
<1>4. ASSUME NEW s \in Sessions, Restore!BeginRecovery(s)
      PROVE  RestorersInv'
  BY <1>4 DEF Restore!BeginRecovery, Restore!Enter
<1>5. ASSUME NEW s \in Sessions, Restore!DropLeftovers(s)
      PROVE  RestorersInv'
  BY <1>5 DEF Restore!DropLeftovers, Restore!MayStart, Restore!Leave, Restore!NoFiles
<1>6. ASSUME NEW s \in Sessions, Restore!CheckTargets(s)
      PROVE  RestorersInv'
  <2>1. \A r \in Sessions : at'[r] # "idle" => r = s
    BY <1>6 DEF Restore!CheckTargets, Restore!Leave
  <2>2. CASE files = expected[s]
    <3>1. restoreJournal = Nothing /\ Settled
      BY <1>6 DEF Restore!CheckTargets
    <3>2. /\ at' = [at EXCEPT ![s] = "backing"] /\ todo'[s] = Restore!Changed(s)
          /\ UNCHANGED << had, files, expected, restoreJournal >>
      BY <1>6, <2>2 DEF Restore!CheckTargets
    <3>3. had[s] = {} /\ Restore!Changed(s)' = Restore!Changed(s)
      BY <1>6, <3>2 DEF Restore!CheckTargets
    <3>4. BackingUp(s)'
      BY <2>2, <3>1, <3>2, <3>3
    <3> QED
      BY <2>1, <3>1, <3>2, <3>4
  <2>3. CASE files # expected[s]
    BY <1>6, <2>1, <2>3 DEF Restore!CheckTargets, Restore!Leave
  <2> QED
    BY <2>2, <2>3
<1>7. ASSUME NEW s \in Sessions, Restore!BackUp(s)
      PROVE  RestorersInv'
  BY <1>7 DEF Restore!BackUp, Restore!Done, Restore!First
<1>8. ASSUME NEW s \in Sessions, Restore!WriteJournal(s)
      PROVE  RestorersInv'
  BY <1>8 DEF Restore!WriteJournal, Restore!Journal, Restore!Changed
<1>9. ASSUME NEW s \in Sessions, Restore!Replace(s)
      PROVE  RestorersInv'
  BY <1>9 DEF Restore!Replace, Restore!Done, Restore!First
<1>10. ASSUME NEW s \in Sessions, Restore!Complete(s)
      PROVE  RestorersInv'
  BY <1>10 DEF Restore!Complete, Restore!Journal, Restore!Changed
<1>11. ASSUME NEW s \in Sessions, Restore!CleanTree(s)
      PROVE  RestorersInv'
  BY <1>11 DEF Restore!CleanTree, Restore!NoFiles
<1>12. ASSUME NEW s \in Sessions, Restore!RemoveJournal(s)
      PROVE  RestorersInv'
  BY <1>12 DEF Restore!RemoveJournal, Restore!Leave
<1>13. ASSUME NEW s \in Sessions, Restore!ReadJournal(s)
      PROVE  RestorersInv'
  BY <1>13 DEF Restore!ReadJournal, Restore!Leave
<1>14. ASSUME NEW s \in Sessions, Restore!Undo(s)
      PROVE  RestorersInv'
  <2>1. PICK t \in todo[s] :
          IF t \in had[s] /\ recovery[t] = Missing
          THEN Restore!Leave(s) /\ UNCHANGED files
          ELSE /\ files' = [files EXCEPT ![t] = Original(s, t)]
               /\ Restore!Done(s, t)
               /\ UNCHANGED << restoreLock, at, had >>
    BY <1>14 DEF Restore!Undo, Original
  <2>2. UNCHANGED << recovery, restoreJournal, expected >>
    BY <1>14 DEF Restore!Undo
  <2>3. at[s] = "undoing" /\ Undoing(s) /\ t \in restoreJournal.items
    BY <1>14 DEF Restore!Undo
  <2>4. CASE t \in had[s] /\ recovery[t] = Missing
    BY <1>14, <2>1, <2>2, <2>4 DEF Restore!Leave
  <2>5. CASE ~(t \in had[s] /\ recovery[t] = Missing)
    <3>1. /\ files' = [files EXCEPT ![t] = Original(s, t)]
          /\ todo' = [todo EXCEPT ![s] = todo[s] \ {t}]
          /\ at' = at /\ had' = had
      BY <2>1, <2>5 DEF Restore!Done
    <3>2. files'[t] # NewFile /\ (restoreJournal.items # Restore!Targets => files'[t] = OwnFile)
      BY <2>3, <3>1 DEF Original
    <3>3. Undoing(s)'
      BY <2>2, <2>3, <3>1, <3>2
    <3> QED
      BY <1>14, <2>2, <3>1, <3>3 DEF Restore!Undo
  <2> QED
    BY <2>4, <2>5
<1>15. ASSUME NEW s \in Sessions, Restore!Undone(s)
      PROVE  RestorersInv'
  BY <1>15 DEF Restore!Undone, Restore!Journal
<1>16. ASSUME NEW s \in Sessions, Restore!Fail(s)
      PROVE  RestorersInv'
  BY <1>16 DEF Restore!Fail, Restore!Leave, Restore!NoFiles
<1>17. ASSUME NEW s \in Sessions, Restore!Crash(s)
      PROVE  RestorersInv'
  BY <1>17 DEF Restore!Crash, Restore!Leave, Restore!NoFiles
<1>18. CASE UNCHANGED Restore!vars
  BY <1>18 DEF Restore!vars
<1> QED
  BY <1>1, <1>2, <1>3, <1>4, <1>5, <1>6, <1>7, <1>8, <1>9, <1>10, <1>11,
     <1>12, <1>13, <1>14, <1>15, <1>16, <1>17, <1>18
     DEF Restore!Next

LEMMA RestoreJournalStep ==
  ASSUME Restore!RestoreAssumption, RestoreInv, [Restore!Next]_(Restore!vars)
  PROVE  RestoreJournalInv'
<1> USE DEF RestoreInv, Restore!RestoreAssumption, RestoreTyped, RestoreJournals,
                RestorePlaces, Restore!Contents, Restore!Go,
        OneRestores, RestorersInv, BackingUp, Replacing, Undoing, Applying,
        RestoreJournalInv, Settled, Restore!Changed
<1>1. CASE Restore!SaveOutside
  BY <1>1 DEF Restore!SaveOutside
<1>2. ASSUME NEW s \in Sessions, Restore!PlanRestore(s)
      PROVE  RestoreJournalInv'
  BY <1>2 DEF Restore!PlanRestore
<1>3. ASSUME NEW s \in Sessions, Restore!BeginRestore(s)
      PROVE  RestoreJournalInv'
  BY <1>3 DEF Restore!BeginRestore, Restore!Enter
<1>4. ASSUME NEW s \in Sessions, Restore!BeginRecovery(s)
      PROVE  RestoreJournalInv'
  BY <1>4 DEF Restore!BeginRecovery, Restore!Enter
<1>5. ASSUME NEW s \in Sessions, Restore!DropLeftovers(s)
      PROVE  RestoreJournalInv'
  BY <1>5 DEF Restore!DropLeftovers, Restore!MayStart, Restore!Leave, Restore!NoFiles
<1>6. ASSUME NEW s \in Sessions, Restore!CheckTargets(s)
      PROVE  RestoreJournalInv'
  BY <1>6 DEF Restore!CheckTargets, Restore!Leave, Restore!Changed
<1>7. ASSUME NEW s \in Sessions, Restore!BackUp(s)
      PROVE  RestoreJournalInv'
  BY <1>7 DEF Restore!BackUp, Restore!Done, Restore!First
<1>8. ASSUME NEW s \in Sessions, Restore!WriteJournal(s)
      PROVE  RestoreJournalInv'
  BY <1>8 DEF Restore!WriteJournal, Restore!Journal, Restore!Changed
<1>9. ASSUME NEW s \in Sessions, Restore!Replace(s)
      PROVE  RestoreJournalInv'
  BY <1>9 DEF Restore!Replace, Restore!Done, Restore!First
<1>10. ASSUME NEW s \in Sessions, Restore!Complete(s)
      PROVE  RestoreJournalInv'
  BY <1>10 DEF Restore!Complete, Restore!Journal, Restore!Changed
<1>11. ASSUME NEW s \in Sessions, Restore!CleanTree(s)
      PROVE  RestoreJournalInv'
  BY <1>11 DEF Restore!CleanTree, Restore!NoFiles
<1>12. ASSUME NEW s \in Sessions, Restore!RemoveJournal(s)
      PROVE  RestoreJournalInv'
  BY <1>12 DEF Restore!RemoveJournal, Restore!Leave
<1>13. ASSUME NEW s \in Sessions, Restore!ReadJournal(s)
      PROVE  RestoreJournalInv'
  BY <1>13 DEF Restore!ReadJournal, Restore!Leave
<1>14. ASSUME NEW s \in Sessions, Restore!Undo(s)
      PROVE  RestoreJournalInv'
  <2>1. PICK t \in todo[s] :
          IF t \in had[s] /\ recovery[t] = Missing
          THEN Restore!Leave(s) /\ UNCHANGED files
          ELSE /\ files' = [files EXCEPT ![t] = Original(s, t)]
               /\ Restore!Done(s, t)
               /\ UNCHANGED << restoreLock, at, had >>
    BY <1>14 DEF Restore!Undo, Original
  <2>2. UNCHANGED << recovery, restoreJournal, expected >>
    BY <1>14 DEF Restore!Undo
  <2>3. at[s] = "undoing" /\ Undoing(s) /\ t \in restoreJournal.items
    BY <1>14 DEF Restore!Undo
  <2>4. CASE t \in had[s] /\ recovery[t] = Missing
    BY <1>14, <2>1, <2>2, <2>4 DEF Restore!Leave
  <2>5. CASE ~(t \in had[s] /\ recovery[t] = Missing)
    <3>1. files' = [files EXCEPT ![t] = Original(s, t)]
      BY <2>1, <2>5
    <3> QED
      BY <2>2, <2>3, <3>1 DEF Original
  <2> QED
    BY <2>4, <2>5
<1>15. ASSUME NEW s \in Sessions, Restore!Undone(s)
      PROVE  RestoreJournalInv'
  BY <1>15 DEF Restore!Undone, Restore!Journal
<1>16. ASSUME NEW s \in Sessions, Restore!Fail(s)
      PROVE  RestoreJournalInv'
  BY <1>16 DEF Restore!Fail, Restore!Leave, Restore!NoFiles
<1>17. ASSUME NEW s \in Sessions, Restore!Crash(s)
      PROVE  RestoreJournalInv'
  BY <1>17 DEF Restore!Crash, Restore!Leave, Restore!NoFiles
<1>18. CASE UNCHANGED Restore!vars
  BY <1>18 DEF Restore!vars
<1> QED
  BY <1>1, <1>2, <1>3, <1>4, <1>5, <1>6, <1>7, <1>8, <1>9, <1>10, <1>11,
     <1>12, <1>13, <1>14, <1>15, <1>16, <1>17, <1>18
     DEF Restore!Next

LEMMA RestoreInit ==
  ASSUME Restore!RestoreAssumption, Restore!Init
  PROVE  RestoreInv
<1> USE DEF Restore!RestoreAssumption, Restore!Init, Restore!NoFiles, Restore!Contents,
                RestoreJournals, RestorePlaces
<1>1. RestoreTyped /\ OneRestores
  BY DEF RestoreTyped, OneRestores
<1>2. RestorersInv /\ RestoreJournalInv
  BY DEF RestorersInv, RestoreJournalInv, Applying, Settled
<1> QED
  BY <1>1, <1>2 DEF RestoreInv

LEMMA RestoreInvStep ==
  ASSUME Restore!RestoreAssumption, RestoreInv, [Restore!Next]_(Restore!vars)
  PROVE  RestoreInv'
BY RestoreTypedStep, OneRestoresStep, RestorersStep, RestoreJournalStep DEF RestoreInv

LEMMA RestoreTypes ==
  ASSUME Restore!RestoreAssumption, RestoreInv
  PROVE  Restore!TypeOK
BY DEF RestoreInv, RestoreTyped, RestoreJournals, RestoreJournalInv, OneRestores,
       Restore!TypeOK

LEMMA RestoreInvImplies ==
  ASSUME Restore!RestoreAssumption, RestoreInv
  PROVE  Restore!RestoreIsUndoable
<1>1. Restore!OriginalsAreKept
  BY DEF RestoreInv, RestoreJournalInv, Applying, Restore!OriginalsAreKept
<1>2. Restore!AllOrNothing
  BY DEF Restore!RestoreAssumption, RestoreInv, RestoreTyped, RestoreJournals,
         RestoreJournalInv, Applying, Settled,
         Restore!AllOrNothing
<1> QED
  BY <1>1, <1>2 DEF Restore!RestoreIsUndoable

LEMMA RestoreInvariance == Restore!Spec => []RestoreInv
<1>1. Restore!Init => RestoreInv
  BY RestoreInit, RestoreConstants
<1>2. RestoreInv /\ [Restore!Next]_(Restore!vars) => RestoreInv'
  BY RestoreInvStep, RestoreConstants
<1> QED
  BY <1>1, <1>2, PTL DEF Restore!Spec

\* Every variable has its type, and only the holder of the lock is at work.
THEOREM RestoreTypeCorrect == Restore!Spec => []Restore!TypeOK
<1>1. RestoreInv => Restore!TypeOK
  BY RestoreTypes, RestoreConstants
<1> QED
  BY <1>1, RestoreInvariance, PTL

\* As long as a restore may have to be undone the originals are there, and when
\* it is over it happened to every file or to none, wherever it was interrupted
\* and whatever is saved meanwhile.
THEOREM InterruptedRestoreIsUndoable == Restore!Spec => []Restore!RestoreIsUndoable
<1>1. RestoreInv => Restore!RestoreIsUndoable
  BY RestoreInvImplies, RestoreConstants
<1> QED
  BY <1>1, RestoreInvariance, PTL

LEMMA LocalRunsRestore == LocalSpec => Restore!Spec
<1>1. LocalInit => Restore!Init
  BY DEF LocalInit
<1>2. [LocalNext]_localVars => [Restore!Next]_(Restore!vars)
  BY DEF LocalNext, localVars, restoreVars, Restore!vars
<1> QED  BY <1>1, <1>2, PTL DEF LocalSpec, localVars, Restore!Spec

\* An interrupted restore can be undone, and no restore is ever half done, in
\* the run's own behaviours.
THEOREM RestoreCanBeUndone == LocalSpec => []RestoreIsUndoable
<1>1. Restore!Spec => []Restore!RestoreIsUndoable
  BY InterruptedRestoreIsUndoable
<1> QED  BY <1>1, LocalRunsRestore, PTL DEF RestoreIsUndoable
=============================================================================
