-------------------------- MODULE ApplyTransaction --------------------------
(***************************************************************************)
(* Changing one game file (global.ini or USER.cfg): inject.py (apply,      *)
(* rollback), game_files.py (apply_game_file_plan) and the recovery        *)
(* journal of transactions.py, run by sessions (the GUI and the command    *)
(* line) over one backup directory.                                        *)
(*                                                                         *)
(* A session previews an operation, inspects the journal (resolving what   *)
(* an interrupted operation left there), takes the backup-scope lock,      *)
(* begins a journal, copies a backup, replaces the file, completes the     *)
(* journal and prunes old backups.  Each file operation is an action, so   *)
(* that other sessions, outside writers, crashes and I/O errors fall       *)
(* between any two.  The lock is an OS lock: it goes away with its owner.  *)
(*                                                                         *)
(* A fingerprint (size, mtime_ns, SHA-256) is a content and a stamp: every *)
(* write gives the file a new modification time.                           *)
(***************************************************************************)
EXTENDS Naturals, FiniteSets

CONSTANTS Sessions, NoSession,
          Prepared,         \* contents StarCompanion renders
          Foreign,          \* contents that come from elsewhere
          Stock,            \* the pristine baseline
          Missing,          \* no file
          Keep,             \* backup_retention
          MaxWrites,        \* bound: writes to the target
          MaxBackups,       \* bound: distinct backup names
          GapWrites,        \* may an outside write fall between the last
                            \* fingerprint and the replace?
          ResolveInFlight   \* may one session resolve the journal while
                            \* another has a transaction under way?

Contents == Prepared \union Foreign \union {Stock}

ASSUME TransactionAssumption ==
  /\ NoSession \notin Sessions
  /\ Missing \notin Contents
  /\ {Keep, MaxWrites, MaxBackups} \subseteq Nat \ {0}
  /\ {GapWrites, ResolveInFlight} \subseteq BOOLEAN

VARIABLES target,   \* fingerprint of the game file
          writes,   \* how often it was written; the next stamp
          journal,  \* .apply-journal.json
          lastOp,   \* last-operation.json
          backups,  \* contents of the timestamped backups, by name
          lock,     \* the session inside _backup_scope_lock
          phase, plan,
          made      \* the backup a session made, or NoBackup

vars == << target, writes, journal, lastOp, backups, lock, phase, plan, made >>

-----------------------------------------------------------------------------
\* Data.

Fingerprints == [content : Contents \union {Missing}, stamp : 0..MaxWrites]
NoTarget == [content |-> Missing, stamp |-> 0]

Exists(fp) == fp.content # Missing

\* Names carry the local time, which may jump back: a new backup need not
\* have the greatest name.
Names    == 1..MaxBackups
NoBackup == 0
Saved    == {n \in Names : backups[n] # Missing}
FreeNames == Names \ Saved

Stages == {"none", "started", "backup-created", "target-replaced", "complete"}

Records == [stage : Stages, before : Fingerprints,
            after : Contents \union {Missing}, backup : Names \union {NoBackup}]

NoRecord ==
  [stage |-> "none", before |-> NoTarget, after |-> Missing, backup |-> NoBackup]

NoJournal == journal.stage = "none"

\* plan_language_activation and plan_restore_stock make a "control" plan.
Kinds == {"apply", "rollback", "control"}

Plans == [kind : Kinds, before : Fingerprints,
          after : Contents \union {Missing}, source : Names \union {NoBackup}]

NoPlan ==
  [kind |-> "apply", before |-> NoTarget, after |-> Missing, source |-> NoBackup]

OutsidePhases == {"idle", "reviewed", "finishing", "discarding", "cleared", "waiting"}
LockedPhases  == {"checking", "copying", "recording", "rechecking", "replacing",
                  "noting", "verifying", "completing", "closing", "pruning"}

Resolving(s) == phase[s] \in {"finishing", "discarding"}

Init ==
  /\ target \in {NoTarget, [content |-> Stock, stamp |-> 1]}
  /\ writes = 1
  /\ journal = NoRecord
  /\ lastOp = NoRecord
  /\ backups = [n \in Names |-> Missing]
  /\ lock = NoSession
  /\ phase = [s \in Sessions |-> "idle"]
  /\ plan = [s \in Sessions |-> NoPlan]
  /\ made = [s \in Sessions |-> NoBackup]

Goto(s, p) == phase' = [phase EXCEPT ![s] = p]

Advance(s, from, to) == phase[s] = from /\ Goto(s, to)

\* The operation is over; what it remembered goes out of scope.
Forget(s) ==
  /\ plan' = [plan EXCEPT ![s] = NoPlan]
  /\ made' = [made EXCEPT ![s] = NoBackup]

\* A new content under a new modification time.
WriteTarget(content) ==
  /\ writes < MaxWrites
  /\ writes' = writes + 1
  /\ target' = IF content = Missing
                 THEN NoTarget ELSE [content |-> content, stamp |-> writes + 1]

-----------------------------------------------------------------------------
\* Preview: what will be written, over which state of the file.

Preview(s, kind, after, source) ==
  /\ Advance(s, "idle", "reviewed")
  /\ plan' = [plan EXCEPT ![s] =
       [kind |-> kind, before |-> target, after |-> after, source |-> source]]
  /\ UNCHANGED << target, writes, journal, lastOp, backups, lock, made >>

PreviewApply(s) ==
  \E c \in Prepared \ {target.content} : Preview(s, "apply", c, NoBackup)

PreviewRollback(s) == \E n \in Saved : Preview(s, "rollback", backups[n], n)

\* Restore to stock removes the file; activation rewrites it.
PreviewControl(s) ==
  \E c \in (Prepared \union {Missing}) \ {target.content} :
    Preview(s, "control", c, NoBackup)

-----------------------------------------------------------------------------
\* TransactionJournal.inspect.

Reached(record, fp) == fp.content = record.after

Status ==
  CASE NoJournal                  -> "clean"
    [] ~NoJournal /\ target = journal.before -> "not-applied"
    [] ~NoJournal /\ target # journal.before /\ Reached(journal, target) -> "applied"
    [] OTHER                      -> "attention"

\* Nobody else is between begin and complete.
MayResolve == ResolveInFlight \/ lock = NoSession

\* Confirmed commands and control plans resolve a known state; the windows
\* only go on with a clean one and leave resolving to a button of their own.
Inspect(s) ==
  /\ MayResolve
  /\ plan[s].kind = "control" => target = plan[s].before
  /\ \/ Status = "clean"       /\ Advance(s, "reviewed", "cleared")
     \/ Status = "not-applied" /\ Advance(s, "reviewed", "discarding")
     \/ Status = "applied"     /\ Advance(s, "reviewed", "finishing")
  /\ UNCHANGED << target, writes, journal, lastOp, backups, lock, plan, made >>

\* complete, first half: the journal as it is now becomes the last operation.
Finish(s, from, to) ==
  /\ ~NoJournal
  /\ Advance(s, from, to)
  /\ lastOp' = [journal EXCEPT !.stage = "complete"]
  /\ UNCHANGED << target, writes, journal, backups, lock, plan, made >>

FinishOther(s) == Finish(s, "finishing", "discarding")

\* The unlink accepts a journal that is already gone.
Discard(s, from, to) ==
  /\ Advance(s, from, to)
  /\ journal' = NoRecord
  /\ UNCHANGED << target, writes, lastOp, backups, lock, plan, made >>

DiscardOther(s) == Discard(s, "discarding", "cleared")

\* apply and rollback take or compare a fingerprint once more before the lock
\* (the commands "apply", "restore" and "rollback" take it only now); a control
\* plan insists that no journal is left.
TakeFingerprint(s) ==
  /\ plan[s].kind # "control"
  /\ Advance(s, "cleared", "waiting")
  /\ target.content # plan[s].after \/ plan[s].kind = "rollback"
  /\ plan' = [plan EXCEPT ![s].before = target]
  /\ UNCHANGED << target, writes, journal, lastOp, backups, lock, made >>

KeepReviewed(s) ==
  /\ plan[s].kind = "control" => NoJournal
  /\ plan[s].kind # "control" => target = plan[s].before
  /\ Advance(s, "cleared", "waiting")
  /\ UNCHANGED << target, writes, journal, lastOp, backups, lock, plan, made >>

-----------------------------------------------------------------------------
\* The transaction, under the backup-scope lock.

\* Mutant: the lock excludes nobody.
AcquireAnyway(s) ==
  /\ Advance(s, "waiting", "checking")
  /\ lock' = s
  /\ UNCHANGED << target, writes, journal, lastOp, backups, plan, made >>

Acquire(s) ==
  /\ lock = NoSession
  /\ ResolveInFlight \/ \A q \in Sessions : ~Resolving(q)
  /\ Advance(s, "waiting", "checking")
  /\ lock' = s
  /\ UNCHANGED << target, writes, journal, lastOp, backups, plan, made >>

\* The backup to be restored is still the reviewed one.
SourceIntact(s) ==
  plan[s].kind = "rollback" => backups[plan[s].source] = plan[s].after

AsReviewed(s) == target = plan[s].before /\ SourceIntact(s)

\* Mutant: a journal that is there already is left alone.
BeginOnlyIfClean(s) ==
  /\ AsReviewed(s)
  /\ Advance(s, "checking", "copying")
  /\ journal' = IF NoJournal
       THEN [stage |-> "started", before |-> plan[s].before,
             after |-> plan[s].after, backup |-> NoBackup]
       ELSE journal
  /\ UNCHANGED << target, writes, lastOp, backups, lock, plan, made >>

Begin(s) ==
  /\ AsReviewed(s)
  /\ Advance(s, "checking", "copying")
  /\ journal' = [stage |-> "started", before |-> plan[s].before,
                 after |-> plan[s].after, backup |-> NoBackup]
  /\ UNCHANGED << target, writes, lastOp, backups, lock, plan, made >>

SaveAs(s, n, content) ==
  /\ backups' = [backups EXCEPT ![n] = content]
  /\ made' = [made EXCEPT ![s] = n]

\* The file that is there now is copied.  A first apply saves the baseline;
\* without a file the other operations have nothing to save.
CopyBackup(s) ==
  /\ IF plan[s].kind = "apply" \/ Exists(plan[s].before)
       THEN /\ Advance(s, "copying", "recording")
            /\ Exists(target) \/ plan[s].kind = "apply"
            /\ \E n \in FreeNames :
                 SaveAs(s, n, IF Exists(target) THEN target.content ELSE Stock)
       ELSE /\ Advance(s, "copying", "rechecking")
            /\ UNCHANGED << backups, made >>
  /\ UNCHANGED << target, writes, journal, lastOp, lock, plan >>

\* record_backup and record_replaced update the journal that is there.
Record(s, from, to, record) ==
  /\ ~NoJournal
  /\ Advance(s, from, to)
  /\ journal' = record
  /\ UNCHANGED << target, writes, lastOp, backups, lock, plan, made >>

\* Mutant: the stage is recorded without the name of the backup.
RecordStageOnly(s) ==
  Record(s, "recording", "rechecking", [journal EXCEPT !.stage = "backup-created"])

RecordBackup(s) ==
  Record(s, "recording", "rechecking",
         [journal EXCEPT !.stage = "backup-created", !.backup = made[s]])

\* Mutant: the file is not fingerprinted again after the backup.
RecheckSkipped(s) ==
  /\ Advance(s, "rechecking", "replacing")
  /\ UNCHANGED << target, writes, journal, lastOp, backups, lock, plan, made >>

Recheck(s) ==
  /\ AsReviewed(s)
  /\ Advance(s, "rechecking", "replacing")
  /\ UNCHANGED << target, writes, journal, lastOp, backups, lock, plan, made >>

Replace(s) ==
  /\ Advance(s, "replacing", "noting")
  /\ WriteTarget(plan[s].after)
  /\ UNCHANGED << journal, lastOp, backups, lock, plan, made >>

RecordReplaced(s) ==
  Record(s, "noting", "verifying", [journal EXCEPT !.stage = "target-replaced"])

Verify(s) ==
  /\ target.content = plan[s].after
  /\ Advance(s, "verifying", "completing")
  /\ UNCHANGED << target, writes, journal, lastOp, backups, lock, plan, made >>

Complete(s) == Finish(s, "completing", "closing")
Close(s)    == Discard(s, "closing", "pruning")

\* The backup just made (or just restored) first, then the newest names.
Protected(s) ==
  IF made[s] # NoBackup THEN {made[s]}
  ELSE IF plan[s].kind = "rollback" THEN {plan[s].source} ELSE {}

\* Mutant: retention goes by the names alone.
RetainedByName(s) ==
  {n \in Saved : Cardinality({m \in Saved : m > n}) < Keep}

Retained(s) ==
  LET first == Protected(s) \intersect Saved
      rest  == Saved \ first
  IN  first \union
      {n \in rest : Cardinality(first) + Cardinality({m \in rest : m > n}) < Keep}

Victims(s) == Saved \ Retained(s)

\* Whatever cannot be deleted is skipped.
Prune(s) ==
  /\ Advance(s, "pruning", "idle")
  /\ \E gone \in SUBSET Victims(s) :
       backups' = [n \in Names |-> IF n \in gone THEN Missing ELSE backups[n]]
  /\ lock' = NoSession
  /\ Forget(s)
  /\ UNCHANGED << target, writes, journal, lastOp >>

-----------------------------------------------------------------------------
\* Stopping.

\* The user cancels, a check refuses (attention, a changed target or backup, a
\* journal that is gone), a lock or file operation fails, the process dies: the
\* files stay as they are and the lock is free.
Stop(s) ==
  /\ phase[s] # "idle"
  /\ Goto(s, "idle")
  /\ lock' = IF lock = s THEN NoSession ELSE lock
  /\ Forget(s)
  /\ UNCHANGED << target, writes, journal, lastOp, backups >>

\* The game or its launcher, an editor, another tool.  Nobody else produces
\* the very content a pending transaction is about to write.
OutsideWrite(content) ==
  /\ ~NoJournal => content # journal.after
  /\ GapWrites \/ \A s \in Sessions : phase[s] # "replacing"
  /\ Exists(target) \/ content # Missing
  /\ WriteTarget(content)
  /\ UNCHANGED << journal, lastOp, backups, lock, phase, plan, made >>

Step(s) ==
  \/ PreviewApply(s) \/ PreviewRollback(s) \/ PreviewControl(s)
  \/ Inspect(s) \/ FinishOther(s) \/ DiscardOther(s)
  \/ TakeFingerprint(s) \/ KeepReviewed(s)
  \/ Acquire(s) \/ Begin(s) \/ CopyBackup(s) \/ RecordBackup(s) \/ Recheck(s)
  \/ Replace(s) \/ RecordReplaced(s) \/ Verify(s) \/ Complete(s) \/ Close(s)
  \/ Prune(s)
  \/ Stop(s)

Next ==
  \/ \E s \in Sessions : Step(s)
  \/ \E content \in Foreign \union {Stock, Missing} : OutsideWrite(content)

Spec == Init /\ [][Next]_vars

-----------------------------------------------------------------------------
\* Properties.

\* Type invariant: files, records and plans have the shapes the code gives
\* them, and exactly the session inside _backup_scope_lock holds the lock.
TypeOK ==
  /\ target \in Fingerprints
  /\ writes \in 1..MaxWrites
  /\ journal \in Records
  /\ lastOp \in Records
  /\ backups \in [Names -> Contents \union {Missing}]
  /\ lock \in Sessions \union {NoSession}
  /\ phase \in [Sessions -> OutsidePhases \union LockedPhases]
  /\ plan \in [Sessions -> Plans]
  /\ made \in [Sessions -> Names \union {NoBackup}]
  /\ \A s \in Sessions : lock = s <=> phase[s] \in LockedPhases

Replaces(s) == phase[s] = "replacing" /\ phase'[s] = "noting"

\* What apply, rollback and a control plan destroy is exactly what was reviewed,
\* and a backup of it exists by then, whatever other sessions and outside
\* writers did since the preview.
ReviewedBy(s) ==
  Replaces(s) =>
    /\ target = plan[s].before
    /\ Exists(target) => backups[made[s]] = target.content

ReplacesWhatWasReviewed == [][\A s \in Sessions : ReviewedBy(s)]_vars

\* "Serialize target backup, replace, journal, and retention operations": the
\* file is replaced only while the journal on disk is the transaction's own, so
\* that a crash right after the replacement is recognized.
JournalCoversReplacement ==
  [][\A s \in Sessions :
       Replaces(s) =>
         /\ journal.before = plan[s].before
         /\ journal.after = plan[s].after
         /\ journal.backup = made[s]]_vars

Holds(name, content) == name # NoBackup /\ backups[name] = content

\* At whatever step a transaction stops, once the file was replaced the journal
\* says so ("applied") and names a backup that still holds what was replaced.
JournalNamesUndo ==
  Status = "applied" /\ Exists(journal.before)
    => Holds(journal.backup, journal.before.content)

\* The undo of the last completed operation is there: retention never deletes
\* it, even when the clock gave newer names to older backups, and a transaction
\* that fails later does not cost it.
LastUndoKept ==
  Exists(lastOp.before) => Holds(lastOp.backup, lastOp.before.content)

\* What the last operation replaced can be brought back, whether it stopped on
\* the way or was completed.
UndoIsKept == JournalNamesUndo /\ LastUndoKept
=============================================================================
