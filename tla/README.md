# StarCompanion: TLA+ models, checks and proofs

StarCompanion (`src/src/starcompanion`, Python) reads a Star Citizen
installation, renders an enhanced `global.ini` and installs it, and keeps the
player's own data: blueprint ownership scanned from game logs, string edits,
settings.  Several GUI windows and command-line commands may run at once over
the same files; there is no server and no database, so everything rests on
file-level protocols: lock files, revision numbers, fingerprints, journals,
last-known-good copies, atomic replaces.  Those protocols are what this
directory models.  Paths below are relative to `src/src/starcompanion`.

## Inventory

| Component | State | Operations | Hard behaviour |
|---|---|---|---|
| Ownership store (`ownership.py` `OwnershipStore`; `gui/tabs/blueprints.py`; `__main__.py` `blueprints ...`) | `ownership.json` (revision, records), `ownership.json.bak`, snapshots held by windows and commands | load, scan, import, mark, resolve, save, recover | two sessions over one revision; a crash between the two writes of a save; damage; recovery after damage; stale snapshots |
| Ownership store lock (`_store_lock`) | `ownership.lock`, `ownership.lock.reap` | acquire, judge stale, reap, break an abandoned reap, release | owner dies, reaper dies, two reapers, a half-written lock, age against pid |
| Log scan, evidence and decisions (`ownership.py`, `gui/tabs/blueprints.py`) | acquisitions, file cursors with prefixes, manual records, unresolved evidence | discover, scan, reconcile, mark, resolve, import | logs rewritten, rotated and copied during a scan; a decision reviewed against another state |
| Linked ownership scopes (`ownership.py:943`) | three stores, merged at each load | the same, on LIVE-HOTFIX | the merge changes what a revision names; evidence of one channel must not reach another |
| Game-file transactions (`inject.py`, `game_files.py`, `transactions.py`, `gui/tabs/apply.py`) | `global.ini` / `USER.cfg`, timestamped backups, `.apply-journal.json`, `last-operation.json`, OS lock | preview, inspect, apply, rollback, activate language, restore stock, resolve, prune | outside writers, crash at any step, journal resolved by somebody else, retention, clock jumps |
| User edits and history (`user_edits.py`, `sharing.py`) | `user.ini`, origins, snapshots, undo history, delta pack | set, import, undo, redo, restore a snapshot, export a pack | compare-then-save without a lock; crash between values, authorship and history |
| String editor (`gui/tabs/editor.py`, `gui/state.py`, `gui/app.py`) | document, pending text, timers, one job, the layer it publishes | type, undo, load, save, import, change scope, close | late deliveries; scope changed under unsaved edits; closing during a job |
| Archive helper (`helper_process.py`, `helper_artifacts.py`, `tasks.py`) | child process, pipe, cancel event, artifact directory | start, progress, ready/error, cancel, terminate, cleanup | cancellation against the answer, grace deadline, who deletes the artifacts |
| Archive reader (`extract/p4k.py`) | the open archive: directory, header, data | locate, walk or search the directory, read, decrypt, decompress, extract | the launcher patches the file while it is read |
| Record graph and its facts (`extract/dataforge.py`, `extract/mission_tactical.py`) | index of records by GUID | resolve references, rewards, blueprint pools, items, tactical values | duplicate GUIDs, missing targets, cycles and diamonds, a limit of hops |
| Contracts from strings and facts (`sources/`, `enhancements.py`, `fallbacks.py`, `operations.py`) | contracts, enhancements | group keys, join facts, suppress conflicts | order of the facts; keys in other cases |
| Rendering (`render/`, `entity_presentation.py`, `route_presentation.py`, `legacy_pack.py`) | texts with their evidence | tags, titles, routes, rules for one build | what is shown must be agreed and fit |
| Update preparation (`prepare.py`, `source_graph.py`, `inject.py`, `ini.py`) | layers, baseline, plan, table | merge, plan, compare, edit | the plan shown and the text written are made by different code |
| Blueprint catalog (`blueprints.py`) | entries by identity and by name | build, filter, mark owned | two ways to look an item up |
| Contract cache and selection (`cache.py`, `store.py`) | cache file, manifest, selection | load, read, save, clear | a build replaced while its contracts are read |
| GUI jobs (`gui/jobs.py` `QtOperationJob`) | worker thread, outcome, token | start, cancel, shutdown, deliver | order of outcome, end of the thread and delivery |
| Overview tab (`gui/tabs/start.py` `StartTab`) | selected channel and language, contracts shown, running job, pending update and its due timer | select, read, discover, update, confirm, commit, cancel, close | late deliveries, a continuation that is due while a job runs, who removes a prepared update, closing in the middle |
| Command line (`__main__.py`) | every file above | some thirty commands, confirmed or not | what was reviewed in one command is applied by another |
| Data location (`data_location.py`) | pointer file, source and destination trees, lock | plan, copy, switch | files saved during the copy, failure half way, two moves |
| Settings export/restore (`portability.py`) | ZIP, recovery tree, restore journal | export, preview, restore, recover | crash between files, saves meanwhile |
| DataCore and CryXml decoding, entity catalog, profiles, other widgets, packaging | files read whole | conversion | not modelled, see the end |

The components meet at the files: a GUI job runs an ownership save, an apply or
the helper on a worker thread; the helper's result is the plan a transaction
applies; windows and commands share only the disk.

What makes each modelled part correct:

* store: a revision number names one content; an edit lands only on what its
  author reviewed; one readable copy is at most one edit behind;
* lock: two live processes are never inside; nobody unlinks a lock that is in
  use; an orphaned lock goes away;
* evidence: a cursor never passes an event the store does not hold; evidence
  disappears only when the player dismisses it; channels stay apart;
* transactions: what is destroyed is what was reviewed, a backup of it exists,
  the journal on disk says so after a crash at any step; the last undo is never
  pruned; an unknown state stops everything;
* user edits: an undo leads only to a text `user.ini` has held; only what was
  set by hand is called authored; a replaced text is in a snapshot;
* String editor: a delivery loses nothing but what was typed after its job
  began; the layer used by updates is that of the chosen channel;
* helper: a cancelled call ends, returns nothing, and no call leaves a live
  child or files besides the baseline of a prepared update;
* readers: what is read of an archive is of one build; a fact is stated only
  from references that name one record, and only when all of them agree;
* text: a tag, route or title shows what its evidence agrees on; the text that
  is written differs from the baseline by the reviewed plan;
* Overview: one worker of the tab at a time; what is shown and what is written
  belong to one channel and language; a confirmed update is settled and its
  files removed; closing waits for the tab's worker and ends;
* commands: only a confirmed one changes a store of the user, in its last step
  and with success, but for `user.ini`, which `channel apply` may put back before
  a commit that fails; a plan reviewed earlier is applied only if its text is
  what would be written now;
* data location and settings: later launches see a whole copy of what was
  reviewed; an interrupted restore can be undone and is never half done.

## Modules

| Module | Models |
|---|---|
| `OwnershipRegister` | abstract: a compare-and-swap register with one fallback copy |
| `OwnershipStore` | `OwnershipStore.load/save/recover` and its sessions; implements `OwnershipRegister` |
| `PersonalDataProofs` | the theorems about `OwnershipStore`, `EditorTab` and their run |
| `StoreMutex` | abstract: a mutex whose owner may die |
| `StoreLock` | `_store_lock` system call by system call; implements `StoreMutex` |
| `SharedFilesProofs` | the theorems about `StoreLock`, `ContractCodec`, `ContractCache` and their run |
| `OwnershipEvidence` | logs, scans, cursors, decisions, linked scopes |
| `OwnershipEvidenceProofs` | the theorems about `OwnershipEvidence` |
| `ApplyTransaction` | `apply`, `rollback`, `apply_game_file_plan`, `TransactionJournal`, backups, retention |
| `LocalFilesProofs` | the theorems about `ApplyTransaction`, `DataLocation`, `SettingsRestore` and their run |
| `UserEdits` | `EditSession`, origins, history, snapshots, delta packs |
| `UserEditsProofs` | the theorems about `UserEdits` |
| `EditorTab` | the String editor, its jobs and timers, the published layer, closing |
| `DataLocation` | moving the data directory and switching launches |
| `SettingsRestore` | restoring and recovering exported settings |
| `HelperProcess` | `run_helper`: parent thread, spawned helper, pipe, workspace |
| `BackgroundWorkProofs` | the theorems about `HelperProcess`, and what its run composes |
| `ArchiveReader` | `P4KArchive` over a file that may be patched cell by cell |
| `ArchiveReaderProofs` | the theorems about `ArchiveReader` |
| `RecordGraph` | `DataForgeIndex`: references, conversions, diagnostics |
| `MissionFacts` | `extract_mission_facts` |
| `MissionTactical` | `MissionTacticalProvider.extract` |
| `ContractReading` | contracts from strings and records, facts joined to them |
| `Presentation` | tags, routes, titles, rules for one build, `render_all` |
| `UpdateText` | layers, baseline, plan and the edited table |
| `BlueprintCatalog` | the catalog, its list and the marks in the text |
| `ContractCodec`, `ContractCache` | the cache's line codec; cache and selection under a launcher that patches |
| `OverviewJobs` | `QtOperationJob` and the jobs, continuation and shutdown of `StartTab` |
| `CommandLine` | the commands of `__main__.py` in several terminals |
| `UpdateWorkProofs` | the theorems about `OverviewJobs`, `CommandLine`, `ContractReading`, `Presentation`, `UpdateText`, `BlueprintCatalog` and their run |
| `MCGameData` | small archives and record graphs for the readers |
| `MC...` | instances for TLC |

An MC module extends one specification and instantiates those that share no
state with it.  A variable `subject` is chosen in the initial state: a
behaviour runs that one specification and the variables of the others keep one
initial value.  So one run explores the sum, not the product, of their states.
Pure functions are checked the same way: `sample` is any of the bounded inputs,
and the property compares the function's value with a definition stated
independently of how the code computes it.

| Instance | Subjects |
|---|---|
| `MCOwnershipStore`, `MCPersonalData` | the ownership store; user edits; the String editor |
| `MCStoreLock`, `MCSharedFiles` | the store lock; the contract cache; its codec |
| `MCApplyTransaction`, `MCLocalFiles` | game-file transactions; data location; settings restore |
| `MCBackgroundWork` | the helper; ownership evidence in three profiles; the archive reader; mission facts; tactical facts |
| `MCOverviewJobs`, `MCUpdateWork` | the Overview tab; contracts; details; names; titles; text; blueprints; terminals |

### OwnershipStore

`primary` and `backup` are the two files, missing, valid or damaged; `lock` is
the session inside `with _store_lock`.  A session walks through phases:
`reviewing` (it has shown `view`, the state `load_details` returned) -
`saving` (it has applied an edit to `base`, giving `candidate`) - `checking`,
`backing`, `replacing` (the three steps of `save` under the lock).  A command
edits the state it has shown (`PrepareFromReview`); a GUI job loads again and
refuses a plan of another revision (`PrepareFromReload`).  Recovery is
`offered` by the GUI after a failed load or `requested` by `blueprints
recover`, then `loading` and `restoring` under the lock.  `WriteFails` is an
`OSError` from `_atomic_bytes`, `Crash` the death of the process,
`DamagePrimary` the environment.  An ownership state is the set of edits it
incorporates: scans, imports, marks and resolutions are edits, and a mark that
removes a record is one too.  `save` and `recover` write a new state or leave
the file alone (`_atomic_bytes` replaces atomically), so no half-written file
exists besides damage.

The lock is used as the mutex that `StoreLock` is shown to implement.
Deleting `ownership.json` by hand (which restarts revisions at 0) is outside
the model; linked LIVE-HOTFIX scopes are in `OwnershipEvidence`.

### StoreLock

`pc` has one label per system call of `_store_lock`.  `seen` is what the last
read of the lock or reap file returned: a pid, nothing, or nothing in a file
older than 30 seconds.  A failed read and the look at the file's age are one
action: a file created or written in between would be too young, and 30
seconds do not pass between two neighbouring statements.  Processes die
(`Die`) or fail to write a file they created (`WriteFails`), together at most
`MaxIncidents` times.  pids are not reused.

### ApplyTransaction

One target, one backup directory.  `target` is a fingerprint (content and
modification stamp), `plan[s].before` the fingerprint a session reviewed.  The
phases of a session are: `reviewed`, the inspection of the journal
(`finishing`, `discarding` when it resolves one), `cleared`, `waiting` for the
lock, and then `checking`, `copying`, `recording`, `rechecking`, `replacing`,
`noting`, `verifying`, `completing`, `closing`, `pruning`, one per file
operation.  The three operations differ in what they back up (a first apply
saves the baseline; a rollback or a control plan without a file saves nothing),
in what they check (a rollback also its source backup), when they fingerprint
(`TakeFingerprint` after the inspection for the plain commands, `KeepReviewed`
for windows, `channel apply` and control plans) and in what retention protects.
`Stop` stands for a refusal, a failed file operation, a cancelled dialog and
the death of the process: all leave the files as they are and free the OS lock.

Two constants name assumptions about the environment.  `GapWrites` lets an
outside write fall between the last fingerprint and `os.replace`, a gap no
program can close.  `ResolveInFlight` lets a session resolve the journal while
another has a transaction under way; the code does not prevent it, and the run
`apply_resolve` shows what follows.  Path, symlink and reparse-point checks are
left out: they decide whether an operation may start, not its protocol.
Nobody else is assumed to write the very content a pending transaction is about
to write.

### HelperProcess

`parent` is where `run_helper` is, `child` where `_child_main` is, `pipe` the
messages on their way, `files` what exists of the workspace.  The parent's loop
is one action per look at something another actor changes: the token
(`CheckToken`), the pipe (`Receive`, `ReceiveNothing`, `PollFails`), the child's
life (`CheckAlive`), the answer (`FinishReady`, then `DiscardReady` or
`AcceptReady`), and the `finally` block (`ClosePipe`, `ReapChild`, `CleanUp`).
The helper may crash or hang between any two of its steps.  At the end of the
pipe `Connection.poll` returns true on POSIX (and `recv` raises `EOFError`,
which the loop catches) and raises on Windows; `pollAtEof`, chosen once, says
which.  The content of the files and of the progress messages is left out.

### OverviewJobs

`job[j]` is what a slot holds: a job of the Overview tab (`cache`, `read`,
`discover`, `prepare`, `commit`) or `other`, a job of another tab.  It is
`running`, `ended` when the worker thread has recorded its outcome
(`WorkerEnds`), `stopped` when its thread has (`ThreadStops`), and is then
delivered on the GUI thread together with `_operation_finished` (`Finish`, used
by every delivery).  A slot is free again after that, or, for a prepared update
that was confirmed, when its files are gone.  `selection` is the selected
channel and language, `contracts` the scope of those shown, `pending`, `after`
and `timer` the continuation (`TimerFires`).  A job remembers the scope of its
values, of its target and of the journal it keeps, because the code takes them
from the selection at three different moments.  `closing` follows the close
event: the Overview tab waits for its worker (`OverviewJoined`), the others give
up after five seconds (`OthersJoined`).

A modal dialog keeps the user from clicking, so its answer is part of the
delivery (`Confirm`, `Decline`).  `inputOvertakesTimer`, chosen once, says
whether a click may be handled between a confirmation and its zero-delay timer;
Qt promises no order between the two.  Such a click can start another job whose
delivery takes the place of the confirmed update, so the properties of a
confirmed update suppose that there is none.  Language activation, restore to
stock and reading a contract list from a file use the same job machinery and are
left out, as is what the other tabs' jobs do.

### OwnershipEvidence

`logs` are files by identity with complete lines, each an event, and maybe half
a line; `gamelog` says which of them is Game.log.  The game appends, rotates and
rewrites, a player copies.  `stores` has a record per scope: revision, evidence,
decisions and cursors with the prefix of the log they were made of; a load of
the linked scope merges the other two.  `job[w]` is the one job of a window: a
scan goes file by file (`ReadLog`, `AdvanceCursor`), a decision is reviewed
(`Review`), checked against a new load (`ApplyPlan`) and saved if the revision
is still that of its load (`Save`).  How a store is written is `OwnershipStore`.
`raced` remembers files rewritten while a scan had them open, `dismissed` the
evidence a player decided against.

### UserEdits

Each save is one action per file: compare (`ReadCurrent`, `Compare`), snapshot,
authorship, the values (`Replace`), pruning, history; `Stop` is an error or the
death of a session between any two.  A digest is the content it was taken of.
`held` and `authored` remember what `user.ini` has held and which texts were set
by hand.  `PlanPack` and `WritePack` are the delta pack, reviewed and written.

### EditorTab

One handler of the GUI thread is one action, in any order the user and the
timers choose; only `WorkerRuns` and `WorkerFails` happen elsewhere.  `doc` is
the document with its command list, `typed` what the debounce has not applied,
`overlay` the layer `gui/state.py` hands to updates.  `promise` remembers what
the user asked to save on closing.

### DataLocation and SettingsRestore

A window works on the root it was launched with.  Planning reads a tree in one
step; copying is a step per file, between which windows save.  A move takes the
lock in the directory that holds its root (`LockDirectory`); `crossed` remembers
the windows beside whose move another one ran under another lock.  A restore backs
up, journals and replaces file by file; recovery undoes in the same steps, and a
session may fail or die between any two.  Saves by others take no part in the
lock.

### ArchiveReader

The file is a sequence of cells (a record, or a unit of data), the reader reads
one in a step, and `Patch` replaces any cell in which the two builds differ at
any time.  A CRC is the content itself, except for CIG-aligned entries, whose
field is advisory in the code.  Records cut off in the middle and the reader's
own buffer are left out.

### RecordGraph, MissionFacts, MissionTactical

A source is a function from record numbers, in the order of paths, to records
with a GUID that several may share.  The nested fields of a record are reduced
to what is read of them: reward lists, references, amounts, names, fields.
Evidence is the set of records a fact comes from, or the chain of references
that led to a value.

### ContractReading, Presentation, UpdateText, BlueprintCatalog

Texts, keys and names are opaque but for what the code tells apart: the case of
a key, its kind and variant, a `,P` suffix, text that does not validate, the
width of a part.  `Read` is the whole of `_read_contracts_local`, `RenderAll`
that of `render_all`, `OperationPlan` and `Applied` the two sides of an update:
what is shown for review and what is written.  The evidence of a title is
computed beside its text, by `MissionEvidence` with checks of its own, as in the
code; the prefixes and tags of `title.j2` that are outside the width, and the
limits on the number and length of tokens, are left out.  Both make the edits of
a plan one after the other (`Edits`, `Edit`): each finds the table as the ones
before it left it, and while the plan that is shown passes over an addition that
collides or a removal that finds nothing, the write fails on it, and reads what
it is about to write once more (`Verified`).

### ContractCodec, ContractCache

`RoundTrip` is `dump` followed by `load`.  In `ContractCache` windows load, read,
save and clear while the launcher replaces the archive and its manifest in two
steps; what an archive is called is derived from the manifest at the moment the
cache is named.

### CommandLine

A command reads (one step, or two for `channel preview` and `channel apply`,
which render first and plan then), and writes in another; between them
`channel apply` saves the `user.ini` it has loaded (`SaveUser`), which puts that
text back if another program has saved meanwhile.  Contents are version
numbers; a rendered text is the record of the versions it is made of
(`Renders`, `Texts`, `Overrides`, `Plans`).  `Outside`
is everything other programs do: patch the game, write a file, leave a journal.
Print-only commands, `blueprints recover` (in `OwnershipStore`), `user export`,
`fallbacks template` and the journal of `USER.cfg` are left out.

## Runs

| Run | Bounds | Shows |
|---|---|---|
| `personal_data` | ownership: 2 sessions, 3 edits, damage anywhere; edits: 2 sessions, 2 keys, 3 commands, history of 2, crashes between files; editor: 2 scopes, 1 text besides none, 1 undo, 1 outside save | `RevisionNamesContent`, `OneEditFromRecovery`, `ImplementsRegister`, `UndoReturnsToThePast`, `AuthoredMeansAuthored`, `SnapshotBeforeReplace`, `NoOtherChannelsLayer`, `DeliveryLosesOnlyLaterEdits` |
| `ownership_offer` | 2 sessions | violated: a window replaces a healthy store it had offered to recover |
| `editor_close` | the editor | violated: closing with Save loses the edits |
| `shared` | lock: 3 processes, 1 or 2 incidents, fair; cache: 2 windows, 2 languages, 2 builds, 2 reads; codec: 37,400 sets of up to two items | `ImplementsMutex`, `NewLockSurvivesOneIncident`, `OrphanedLockIsReaped`, `LoadedIsWhatWasAsked`, `WrittenIsReadAgain` |
| `cache_stale` | the cache, as in `shared` | violated: a load returns the contracts of the archive before |
| `lock_two` | 3 processes, 2 incidents | violated: a newly acquired lock is unlinked |
| `local_files` | game file: 2 sessions, 3 writes, retention 1, or one after another with 4 writes, retention 2, outside writes in the last gap, clock jumps; data: 2 windows, 3 roots in 2 directories, 2 files, 1 save; settings: 2 sessions, 2 targets | `UndoIsKept`, `SharedReplacesWhatWasReviewed`, `JournalCoversReplacement`, `SwitchesAsReviewed`, `RestoreIsUndoable` |
| `apply_resolve` | 2 sessions, outside writes, resolving in flight | violated: the file is replaced without a journal |
| `background` | helper: both platforms, pipe of 2, 3 progress messages, fair; scanned: 1 window, LIVE and linked, 2 logs, 2 events, 1 rewrite, 2 saves, half lines; decided: 2 windows, 1 log, 1 event, every decision, 2 catalogs, 2 saves; shared: both channels, 3 logs, 2 events, 3 saves; archive: 2 entries, every method, patched between two builds; 3,312 and 36,000 record graphs | `NothingLeftBehind`, `StoppedRunReturnsNothing`, `RunEnds`, `CursorsStayBehindEvidence`, `ChannelsStayApart`, `EvidenceIsKept`, `DecisionIsTheReviewedOne`, `ReadsAreFaithful`, `RewardsAreTraced`, `StatedIsAgreed` |
| `helper_dead` | the helper | violated: on POSIX a call outlives its dead helper |
| `jobs` | Overview: 2 channels, 2 languages, 3 slots, clicks may overtake the timer, fair, no symmetry; some 137,000 samples of the pure functions; terminals: one previews or applies twice, one runs any command, 2 outside steps | `OneWorkerAtATime`, `ContractsMatchSelection`, `WritesKeepToChannel`, `ConfirmedIsSettled`, `CloseEnds`, `FactsStayTogether`, `DetailsAgree`, `OnlyAgreedIsShown`, `ReviewedIsWritten`, `MarkedIsOwned`, `OnlySuccessChanges`, `ExpectedPlanIsWritten` |
| `jobs_language` | 2 channels, 2 languages, 3 slots | violated: a write mixes two languages |

Why these bounds are enough.  A reused revision needs a save, damage and a
recovery, which fit in four revisions, and six allow two recoveries; a lost
update needs two sessions, and the theorems cover any number of them.  A wrong
reap needs an owner, a reaper and a third process.  Two transactions and one
outside write fit in three writes, and with a retention of one the second
completed transaction already prunes; which undo the journal and the record
name depends on histories of transactions, crashes and clock jumps, not on a
second session, which the lock keeps out.  Three commands over two keys give an
undo, a redo and a foreign write between any of their files, and a history of
two drops its oldest entry.  Two events in two logs are the shortest history in
which a cursor can pass one of them; a scan that is refused, one that succeeds
and a merge need two or three saves.  A pipe of two with three progress
messages blocks the helper on each kind of message.  An archive of two entries
has one before and one behind the cells that change; three units of data leave
one in the middle.  Record graphs have up to two records of one GUID, a missing
target, a cycle, and two ways of different length to one record, one of them
just past the limit of hops.  Three slots hold a job whose delivery is late, the
one a click started meanwhile and a continuation or a job of another tab; two
channels are enough for a load of the wrong one.  A widths' limit leaves room
for none, one, two or all parts.  A plan previewed, something changed outside, a
plan applied and something changed between its two reads need two terminals and
two outside steps.

Deadlock is not checked: sessions may stop for good at the bounds, a call that
has returned and a window that is closed do nothing more, samples have no steps,
and a store damaged before its second save, with no copy yet, really stops.
Liveness is stated where something must happen.

Fairness.  `shared`: a process that runs takes its next step, and a file gets
old; nobody is obliged to call `_store_lock`, the property supposes one process
that keeps calling.  `background`: the parent's thread runs and the grace period
passes; nothing is assumed of the child, which may hang (`RunEnds`: a call that
was cancelled ends, and so does one whose pipe raises at its end).  `jobs`: the
event loop runs, the user answers dialogs, and an operation ends once it was
cancelled or when it is a commit: `RunEnds` shows it of a cancelled call, and a
commit writes files and waits for nothing but a lock, with a deadline.  Any
other operation may run for ever.

## Findings

Seven runs are violated on purpose; each refutes a sentence of the docs, a
comment or a dialog, quoted in `PROJECT.json`:

* `ownership_offer`: `recover` does not look at the primary again under the
  lock, so a late confirmation replaces a healthy store (and can drop the saves
  made since) although the dialog speaks of a damaged one;
* `lock_two`: the `.reap` guard does not keep a slow reaper from unlinking a new
  lock, since the pid test and the unlink are not atomic with the owner's
  release and end, nor the removal of an abandoned reap file with its
  replacement; with a single incident (`shared`) the guard works;
* `cache_stale`: a cache is named after the archive present when it is saved, not
  the one that was read (`store.py:83`), so a patch during a read leaves the old
  contracts under the new build's name; `LoadedIsWhatWasAsked` says that nothing
  else is ever loaded for a scope than what was read for it;
* `apply_resolve`: journals are inspected and resolved outside the lock, so a
  transaction in flight may lose its journal; elsewhere `JournalCoversReplacement`
  is about transactions whose journal nobody resolves in flight;
* `helper_dead`: the pipe of a dead helper polls as readable on POSIX, so the
  branch for an unexpected exit is never reached and the call spins until it is
  cancelled; on Windows (`background`, `RunEnds`) it ends;
* `jobs_language`: `update_game` prepares an update without passing the selected
  language, so its contract values are written to the default language's file;
* `editor_close`: closing with Save while a load runs takes the load for the
  save, and the window closes with the edits unsaved.

The models have these steps too, without a run of their own:

* `save` copies bytes it reads again after validation (`ownership.py:993`):
  damage in between becomes the last-known-good copy, the exception
  `OneEditFromRecovery` names;
* `begin` does not look at the journal that is there (`inject.py:799`), so a
  transaction may begin over one that has come to need attention;
* the blueprints, editor and support tabs wait five seconds for a job and then
  let the window go (`gui/tabs/blueprints.py:1292`);
* a channel is chosen under unsaved edits, which begins its user-edit layer but
  no load (`gui/tabs/editor.py:962`); when the edits are undone no load follows
  either, so the layer is not ready and updates stay refused until an explicit
  reload or another change of scope;
* `channel apply` saves the `user.ini` it has loaded (`__main__.py:729`), without
  a lock and before its commit: an edit saved by another program in between is
  reverted, also when the commit then fails, the exception `OnlySuccessChanges`
  names;
* the lock of a move of the data is in the directory that holds its root
  (`data_location.py:353`), so windows on roots in different directories do not
  exclude each other, although the docs say "concurrent migrations fail closed"
  (`docs/G7_EXPERIENCE_PARITY.md:44`), and the comparison of the activation file
  is a step before its write, so one may overwrite the switch of another;
  `SwitchesAsReviewed` is about moves beside which none ran under another lock;
* a prepared update delivered while the window closes is dropped with its
  workspace (`gui/tabs/start.py:1093`), and a click handled between a
  confirmation and its timer can replace the queued update
  (`gui/tabs/start.py:619`), which the properties of a confirmed update
  exclude.

Differences between code and words met while modelling, without a run:

Ownership
* a file rewritten and grown past its old size while a scan has it open is not
  noticed: the cursor's prefix is of the new file (`ownership.py:1516`, the
  exception `raced`);
* an UNOWNED decision in the linked scope is undone by its next load when a
  channel's store owns the item, although the dialog says it can be reversed;
* two stores that resolved one acquisition differently make the linked scope
  unloadable ("conflicting acquisition identity across ownership scopes");
* on Windows a contender that reads the lock file makes the owner's unlink fail
  (`ownership.py:480`).

Edits and settings
* edits typed while an editor job runs are lost with its delivery, the
  exception `DeliveryLosesOnlyLaterEdits` names.  An import asks whether the
  document is dirty before its modal review opens (`gui/tabs/editor.py:1161`)
  and not again: a text typed just before may be applied by the debounce during
  the review and is lost with the import, so of an import the property counts as
  later what was applied since the review opened;
* closing with Save can write one channel's edits into another's store when
  both texts are equal (`gui/tabs/editor.py:1388`);
* with the portable marker present a move to another root is reported as
  applied but the marker wins at the next launch; files saved in the old root
  between copy and switch stay there;
* recovery of settings overwrites saves made after the interrupted restore,
  although the window speaks of an unfinished import only
  (`gui/tabs/support.py:333`).

Commands
* `channel apply` "normalizes" `user.ini` in the docs
  (`docs/SMART_CITIZEN_CATCHUP.md:489`), but an equal model writes nothing;
* `scmdb` writes a cache that names no channel, after which a plain `render`
  leaves out ownership, language pack and user edits without a word;
* `languages import` replaces the pack without comparing it with what it showed.

Reading and text
* an encrypted, compressed entry whose stream ends in a zero byte is refused
  (`extract/p4k.py:779`); CIG-aligned entries, which the game ships, have no
  checksum that is compared, so one patched during the read may be a mixture;
  the search by exact names does not find a name with mixed slashes or another
  case, which the walk does find;
* a reward whose record states no amount is left out of the total, which is
  still stated with high confidence; of two broker entries with one GUID the
  first counts (`extract/dataforge.py:1684`), while the index says callers
  cannot inherit "first wins" (`extract/dataforge.py:327`);
* spawn limits that are unbounded or incomplete are left out of a total that is
  still stated with high confidence (`extract/mission_tactical.py:568`);
* keys that facts name are compared without case, others are not
  (`sources/game_strings.py:217`);
* an override may keep an old `key` beside a generated `key,P`, and the text
  then alternates between updates;
* a reviewed update that is valid can be refused when it is written: if one key
  to add is the other spelling of one to remove, or of one that is there, the
  plan says both can be done, since it looks at the table before any edit, and
  the write finds the second undone ("collided", "disappeared",
  `inject.py:782`, `inject.py:785`); and a removal of a key of which both
  spellings are there leaves the other one, which is taken for the removed key
  (`inject.py:1119`).  Of such requests `ReviewedIsWritten` only says that what
  is written is what was shown (`OneNameEach`);
* an item without an id, whose name one entry of the game has, belongs to that
  entry of the list (`blueprints.py:165`), but the marks look for entries by all
  names they have (`blueprints.py:337`): if another entry was once offered under
  that name, none is found, and an item of which nothing listed is owned is
  marked when a record is kept for its bare name.  `MarkedIsOwned` has this case;
* the length of a signature is not counted when a route replaces a title;
* the variables of a route expansion are told apart by case when it is made
  (`route_presentation.py:60`), and not when it is read (`sources/cache.py:644`):
  contracts whose description spells one variable two ways are written to a
  cache that no load accepts, and are read from the archive every time.
  `WrittenIsReadAgain` speaks of contracts without such a pair (`AnItem`).

## Proofs

Eight modules hold theorems.  Each is proved for every value of the constants,
from the assumption the component's module names; TLC evaluates the assumption
for the instances it checks.  A theorem about a component speaks of its own
`Spec`.  A run composes components that share no state, so for its properties it
is proved that a behaviour of the run is a behaviour of the component while
`subject` names it, and the theorem is carried over.  The run's constants are
free there too (sessions, windows, terminals, texts, bounds), but for the small
literal profiles of `MCBackgroundWork`.

**Ownership store** (`PersonalDataProofs`, from `StoreAssumption`): `TypeCorrect`,
`RevisionsNameContent`, `StoreImplementsRegister` (the refinement),
`CopyOneEditBehind`.

`RevisionNamesContent` is not inductive: it says nothing of revisions that are
yet to be written.  `IInv` adds that no snapshot is newer than the primary, so
the next revision is fresh; that the primary is at most two revisions ahead of
the copy, and equals it when exactly two ahead, so the revision a recovery
writes is fresh or names the same content; and what a session under the lock
has established (its base is the primary, the copy equals the primary).  The
refinement step uses the same invariant: `ReplacePrimary` maps to `Commit`
because equal revisions mean equal content, and every other step maps to an
abstract step or stutters.  `CopyOneEditBehind` adds `CopyInv`: a missing copy
means at most one save, a readable one differs from the primary by at most one
edit; each replacement needs what `IInv` says of its session.

**User edits** (`UserEditsProofs`, from `EditAssumption`; carried over in
`PersonalDataProofs`): `TypeCorrect`, `UndoLeadsToThePast`
(`UndoReturnsToThePast`), `OnlyTheAuthoredIsAuthored` (`AuthoredMeansAuthored`),
`ReplacedIsCopied` (`SnapshotBeforeReplace`).

That an undo leads to the past rests on a trail (`Trail`): for the commands of a
session, or of the history on disk, there are contents `user.ini` has held, one
between each two neighbouring commands, and each command is the change from one
to the next.  No step of a save breaks a trail, and replaying commands walks
along it: `Unwind` and `Replay` are recursive functions of the number of
commands, and the induction over it is by the well-foundedness of `<`.
`OfSessions` says which contents a session between two files of a save stands
for (`PastOf`) and who set its texts (`AuthorOf`), `OfFiles` the same of the
files, each with the digest it carries, and `Copied` that the text a session
saving alone will replace is the newest snapshot.

**String editor** (`PersonalDataProofs`, from `EditorAssumption`):
`EditorTypeCorrect`, `ReadyLayerIsChosen` (`NoOtherChannelsLayer`),
`LosesOnlyLaterEdits` (`DeliveryLosesOnlyLaterEdits`).  Both properties are about
a job delivered after the user has gone on.  `LayerIsChosen` says that a layer
that is ready is of the chosen scope and the document has been attached to it;
`JobShowsDocument` what a job still has in common with the document: the saved
text, or the text it saves.

**Store lock** (`SharedFilesProofs`, from `LockAssumption`): `TypeCorrect`,
`ReapersSpareNewLocks`, `LockImplementsMutex` (the refinement), `LockIsSound`.

Both properties suppose one incident (a death or a failed write) at most, and
the invariant says why one is harmless: until it happens nothing on disk is
stale, so nobody reaps (`NothingStaleYet`); afterwards nobody else can die, so
the reap file admits one reaper at a time (`OneReaper`) and what that reaper
has read of the lock stays true until it removes it (`JudgementHolds`).
Whoever is inside the guarded block owns the lock file (`HolderOwnsLock`), which
makes each entry an acquisition of the free mutex.  After two incidents a new
lock can be reaped, as the run `lock_two` shows.

**Contract cache** (`SharedFilesProofs`, from `CacheConstants`):
`LoadsAreOfTheirScope` (`LoadedIsWhatWasAsked`), `WrittenIsRead`,
`WrittenIsReadInTheRun` (`WrittenIsReadAgain`).  A file is opened by a name that
was computed a step earlier, and saved under one computed after the read.
`NamesAreKept` says that who opens, saves or writes has the name its scope
gives, and that the archive it read is not a later one than the name says
(`ReadsOfThePast`).  So a file holds what a read for the language and version in
its name returns, of the archive in its name, or of an earlier one if that was
replaced during the read (`FilesAreNamed`), and so does what was loaded
(`LoadedIsAsked`).  That the second case occurs is shown by the run `cache_stale`.

That the codec returns what was written is proved of every well-formed set of
contracts (`ContractSet`, which says what the code guarantees of ids, keys and
parts).  The writer numbers evidence in a table and the lines name it by number;
so the table must hold each mention once (`TableIsWhole`), a number be read back
as the same evidence (`EvidenceIsRead`), a text equal to its base be left out
and filled in again (`ItemIsRead`), and the fold over the lines stay valid to
the end while it collects exactly the items before it (`LinesAreLoaded`).
`CacheConstants` asks of an archive only that it gives such sets.

**Game-file transactions** (`LocalFilesProofs`, from `TransactionAssumption`):
`TypeCorrect`; `UndoSurvives` and `OwnJournalCovers`, if `~ResolveInFlight`;
`ReviewedIsReplaced`, if also `~GapWrites`; `ReviewedIsReplacedInTheRun` the same
for the run's two profiles (`SharedReplacesWhatWasReviewed`).

Without `~ResolveInFlight` the first two are false (run `apply_resolve`).
`UndoIsKept` does not say why the copy is the file that was destroyed: the copy
is made of whatever is there, which others may have written since the first
fingerprint.  `StampsArePast` says that no fingerprint comes back, so that if
the second one agrees, the copy does too (`CopiesAreGood`); `JournalsAreOwn` that
the journal, and after `complete` last-operation.json, name that copy;
`NotYetReplaced` that no outside write makes an operation look applied;
`FinishersKeepUndo` that a session that found it applied completes it as it was.
Retention is the last step: the operation just completed is the one it protects.

**Data location** (`LocalFilesProofs`, from `MoveAssumption`):
`MovesSwitchAsReviewed` (`SwitchesAsReviewed`), for any roots in any directories.
Launches are switched several steps after the plan was reviewed, and windows save
files in between.  Whoever moves holds the lock in the directory of its root
(`MoversHoldTheLock`), so of two moves at once each is in `crossed`
(`MovesAreApart`), and a mover that is not in it is alone; then what its plan
lists is at the destination, still to be copied, or was saved over there
(`MoveIsReviewed`).

**Settings restore** (`LocalFilesProofs`, from `RestoreAssumption`):
`InterruptedRestoreIsUndoable` and, in the run, `RestoreCanBeUndone`
(`RestoreIsUndoable`).  The property speaks of a journal that is "applying";
`JournalInv` says what each backup under it holds and which targets have none,
`SessionInv` what the one session at work (`OneAtWork`) has compared, backed up,
replaced or undone.  A target that already had the archive's content is not
backed up; that is safe because such a restore can only replace what a save put
there (`BackingUp`).

**Helper** (`BackgroundWorkProofs`, from `HelperAssumption`): `TypeCorrect`,
`CallLeavesNothingBehind`, `StoppedCallReturnsNothing`, `CallsAreClean`, for both
platforms, every pipe capacity and every number of progress messages.  Both
properties look at the end of a call; the invariant `SafetyInv` follows it
there: no child before the spawn, no outcome before the way out, the workspace
present until then, no child alive once "ready" was acted on (so nobody writes
a file after the clean-up), and a stop request only after a cancellation, which
is looked at again between "ready" and loading (so a result that is loaded was
never asked to stop).

**Archive reading** (`ArchiveReaderProofs`, from `ArchiveAssumption`; carried over
in `BackgroundWorkProofs` as `ArchiveReads`): `ArchiveReadsFaithfully`
(`ReadsAreFaithful`), for any builds whose files have one length, any request and
any moment of the patch.  Where an entry lies is the sum of what precedes it, so
a directory found before the patch may point into another entry afterwards.
`ReaderInv` says that every cell is of one of the builds, that a record the
reader keeps is one that a build states, and that the reader stays within the
file.  `ReadsInv` rests on it: the checks at the end compare what was put
together from the cells with that record, so what is delivered is that build's
entry (but for CIG-aligned ones, whose checksum is not compared, `p4k.py:710`).
`SoundInv` is for an archive nobody patches: it follows the reader through the
whole file (`OnTheWay`), until the units read are those of the entry and decode
to its content, so nothing is refused.  Layouts are recursive functions of the
number of entries; the induction over them is by the set of the numbers for
which the claim holds.

**Ownership evidence** (`OwnershipEvidenceProofs`, from `EvidenceAssumption`;
carried over in `BackgroundWorkProofs` to its three profiles): `TypeCorrect`,
`CursorsAreBehind` (`CursorsStayBehindEvidence`), `ChannelsAreApart`
(`ChannelsStayApart`), `EvidenceKept` (`EvidenceIsKept`), `DecisionIsReviewed`
(`DecisionIsTheReviewedOne`).  The properties speak of the stores; what makes
them inductive is what the windows have in hand.  A job's state may be outdated,
so `JobsSound` says that it keeps its store's evidence, and that its cursors are
behind its own, only while it has its store's revision, and that is when a save
succeeds.  `LogsSound` says that a file's events are of the file's channel,
`StoresSound` what the stores must satisfy in every state.  In between, logs
grow, are rewritten and are copied, and the linked scope is merged anew.

**Overview tab** (`UpdateWorkProofs`, from `JobsAssumption`): `TypeCorrect`,
`OneWorker`, `ContractsAreOfSelection`, `UpdatesKeepToChannel`, `FilesHaveHolder`
(`LeaseHeld`), `TabIsConsistent`.

A write takes its values from the contracts shown when the update was prepared,
its file from the selection of that moment and its journal from the selection
of the moment it starts.  `IInv` follows the update on its way: every live worker
is in the tab's list, which has one entry at most (`JobsListed`); while an update
is prepared or confirmed the selection is still its channel
(`PreparedForSelection`), because between the confirmation and its timer only a
load of the cache may run (`TimerWaitsForCache`); and files on disk are those of
a prepared update (`FilesOfPrepared`) with a holder (`FilesHeld`).  The last three
parts, and the theorems that rest on them, hold on the condition the properties
have, that no click overtakes the timer.

**Command line** (`UpdateWorkProofs`, from `CommandAssumption`):
`StoresChangeWithSuccess` (`OnlySuccessChanges`), `PromisesAreKept`
(`ExpectedPlanIsWritten`).  The first is about every step of a command: the one
that changes a store is its last and ends with success, but for the step in
which `channel apply` puts `user.ini` back.  The saved plan is compared a step
before the write, when another preview may already have replaced it.
`CommandInv` says that the plan file holds a plan that was promised
(`PromisesKept`); that a command about to commit was confirmed and, if it was
told to expect a plan, has a promised one of its own (`CommitsAllowed`); and
that what commands have read has the shape of the files it was read from
(`Holds`, `RunsTyped`).  The file the plan was made for is still there because
the commit compares it.

**Contracts from strings and records** (`UpdateWorkProofs`, from
`ReadingAssumption`: a placeholder is no name of the game): `RecordsStayTogether`
(`KeptTogether`) for every build and all authored strings, `DetailsAgreeAlways`
(`AgreedIsShown`) for any contract and whatever providers return; in the run,
`RecordsAreKeptTogether` (`FactsStayTogether`) and `ShownDetailsAgree`
(`DetailsAgree`).  Both are results of folds, so each has an invariant along one.
From record to record: no two groups share a key, and each record seen so far
has its keys in one (`RecordsAreJoined`); a string then has one alias, the same
for all strings of the record.  From detail to detail: what is shown and what is
blocked account for all details seen so far (`Accounts`) - a blocked name is one
of which two values were stated, a shown one has the only value, the least
confidence and all evidence.  `DetailsOfContract` says which details come by: the
facts that meet the contract are spread over several providers, and those whose
mission type the build cannot name are left out on the way.  `JoinedFold` and
`DetailFold` are the step from the library's FoldLeft, which chooses its
recursive function, to what a loop has after each element; a lemma cannot take
the operation as a parameter, so there is one for each.

**Blueprint marks and list** (`UpdateWorkProofs`): `MarksAndListAgree`
(`MarksAreOwned`) for every way to compare names, any offers and any records; in
the run, `MarksAgreeWithList` (`MarkedIsOwned`).  The list folds an entry known
by name only into the one entry the game calls so, while the marks look the item
up by its name.  The invariant of the fold over the offers (`Tells`,
`NamedByName`) is that each offer so far has left its name and its source in the
entry of its id, and that an entry known by name only has the name its id is made
of.  So the entry that took it over is among the candidates, and is the answer
if it is the only one.

**Update text** (`UpdateWorkProofs`, from `UpdateAssumption`: the marks for
"absent" and "refused" are no keys and no tables): `UpdatesAreWrittenAsReviewed`
(`WrittenAsReviewed`) for every stock text, override, generated and user text,
rules and mode; in the run, `ReviewedUpdatesAreWritten` (`ReviewedIsWritten`).
The plan is made from the table before any edit, and the edits are applied to
what the earlier ones left.  `Done` says what the table has after the first n of
them, in terms of the table before all; it needs that no two edits are in each
other's way (`Clear`), which clear names give (`ClearPlan`), so each finds what
the plan saw (`StillThere`).  `Finds` is what a reader then has under each name,
and from it follow the rest: the verification passes, and the plan made of the
written text has nothing to do (`AgainIdle`).

**Tags, routes and titles** (`UpdateWorkProofs`): `OnlyTheAgreedIsRendered`
(`OnlyAgreedIsShown` of `Presentation`) for every build and all options; in the
run, `AgreedTextsAreShown` (`OnlyAgreedIsShown`).  Both suppose that a rendered
part has at least one character (`PartsAreWide`): values that are empty are
refused before they become parts, routes and signatures are not empty, and tags
have brackets.  The separator is put where the width so far is not 0, so without
this the width would not tell whether there is a part.  The invariant of the
fold over parts (`AreTags`) is that tags are as wide as their parts and their
separators, no wider than the limit, and have the evidence of exactly these
parts; what follows the tags in a title is counted from their width, so it fits
beside them (`SuffixFits`), and `MissionEvidence`, which looks for the route and
the signature in what follows and measures a replacing route once more, finds
exactly the shown parts (`TitleIs`); so a title is such tags, or has its route
after them (`IsTitle`).  For
places, `PlacesAgreed` goes back from the route to the descriptions: a token all
groups name is one that each description says itself or through a string all of
whose texts say it (`SaidByAll`).  For names, `EntitiesAre` finds that an
attribute is taken from exactly the records that give something this name
(`NamedBy`).  A contract whose text is left out because its stock text does not
validate is not replaced by a tag: the tag has the same stock text.

Proof attempts corrected five properties that held only at a bound of the runs:
`ReviewedIsWritten` and `MarkedIsOwned` as told under the findings (the model
had also left out what the write checks again); `SnapshotBeforeReplace` now
supposes that nobody else writes `user.ini` while a save is under way;
`DeliveryLosesOnlyLaterEdits` has the case of the import review told above;
`EvidenceIsKept` says that an UNOWNED decision in the linked scope may take
along evidence whose own entry is unresolved there.

Only model-checked:

* liveness (`OrphanedLockIsReaped`, `RunEnds`, `ConfirmedIsSettled`, `CloseEnds`)
  and ENABLED, which are beyond the prover;
* two properties of pure functions (`RewardsAreTraced`, `StatedIsAgreed`): walks
  through graphs of records.  Induction over numbers is within reach (see the
  codec, the archive reader, the contracts and the texts), but these would need
  it for every fold on the way.

## Not modelled

* `extract/datacore.py` and `extract/cryxml.py`: decoding of binary formats,
  sequential and without a choice a property here would tell apart;
* `extract/entities.py`: the entity catalog, a long list of field readers; what
  is made of it is in `Presentation`;
* `sources/scmdb.py`, `sources/contracts_ini.py`: readers of community files;
* Jinja templates of profiles, wording, colours, widgets of the remaining tabs,
  the Fragment and Formatting pages;
* packaging, diagnostics and benchmark scripts.

## Plan

Done: the protocols over files, the windows that drive them, the functions from
game data to text, and the commands; every safety property of a state machine
is a theorem, and so is the codec's.  Left, in this order:

1. proofs: the properties of the remaining pure functions (what is stated is
   agreed, rewards are traced);
2. `extract/entities.py`, with the join of names in `Presentation` as its user;
3. `CommandLine` composed with `ApplyTransaction` instead of one-step writes.
