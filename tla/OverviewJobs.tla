---------------------------- MODULE OverviewJobs ----------------------------
(***************************************************************************)
(* The background jobs of the window: QtOperationJob (gui/jobs.py), the    *)
(* Overview tab that runs one at a time and chains them (gui/tabs/         *)
(* start.py), and the joining of workers when the window closes.  The tabs *)
(* that share _start_job and a bounded join (blueprints, editor, support)  *)
(* are one "other" job.                                                    *)
(*                                                                         *)
(* A worker thread runs its operation ("running"), records the outcome     *)
(* ("ended"), and stops once quit() reached its thread ("stopped"); the    *)
(* GUI thread then delivers outcome and `finished` in one slot.  The       *)
(* operations themselves are known by their results only: a prepared       *)
(* update comes with a workspace on disk that its holder must remove (see  *)
(* HelperProcess).  A modal dialog blocks the user's other input, not a    *)
(* close by the program itself (_finish_close_after_save) or the session.  *)
(***************************************************************************)
EXTENDS Naturals, FiniteSets

CONSTANTS Installs, Languages,
          DefaultLanguage,       \* install.DEFAULT_LANGUAGE
          Slots,                 \* bound: jobs and prepared updates at once
          None

ASSUME JobsAssumption ==
  /\ DefaultLanguage \in Languages
  /\ None \notin Slots

Scopes == [install : Installs, language : Languages]

VARIABLES job,           \* every job, by slot
          overview,      \* the Overview tab's _jobs
          selection,     \* install and selected_language
          contracts,     \* the scope the published contracts came from
          pendingCache,  \* _pending_cache_install is set
          pending,       \* _pending_prepared
          after,         \* _pending_operation_after
          timer,         \* _continuation_timer is active
          closing,       \* how far closeEvent has come
          workspaces,    \* prepared updates whose files are on disk
          inputOvertakesTimer   \* a click may be handled before a due timer;
                                \* Qt's choice, made once

state == << job, overview, selection, contracts, pendingCache, pending, after,
            timer, closing, workspaces >>
vars == << state, inputOvertakesTimer >>

-----------------------------------------------------------------------------
(* Jobs.                                                                   *)

Job == [kind : {"none", "cache", "read", "discover", "prepare", "commit",
                "other"},
        phase : {"idle", "running", "ended", "stopped", "delivered"},
        cancelled : BOOLEAN,
        outcome : {"none", "success", "failure", "cancelled"},
        values : Scopes \union {None},  \* what it reads, or writes, is about
        target : Scopes \union {None},  \* the file an update is for
        journal : Scopes \union {None}, \* whose journal a commit keeps
        then : {"none", "update"},
        carries : Slots \union {None}]  \* the update a commit writes

Unused == [kind |-> "none", phase |-> "idle", cancelled |-> FALSE,
           outcome |-> "none", values |-> None, target |-> None,
           journal |-> None, then |-> "none", carries |-> None]

Running(kind, values) == [Unused EXCEPT !.kind = kind, !.phase = "running",
                                        !.values = values]

\* The slot the next of these jobs takes.
FreeSlot(jobs) == CHOOSE j \in Slots : jobs[j] = Unused
HasRoom(jobs)  == \E j \in Slots : jobs[j] = Unused

ThreadAlive(j) == job[j].phase \in {"running", "ended"}

Launch(jobs, new) == [jobs EXCEPT ![FreeSlot(jobs)] = new]

\* Every path of an operation: checkpoints raise only when cancelled; a
\* commit removes the update it carries, whatever its outcome.
OutcomesOf(j) ==
  {"success", "failure"} \union IF job[j].cancelled THEN {"cancelled"} ELSE {}

Removed(j) ==
  IF job[j].kind = "commit" THEN {job[j].carries} ELSE {}

WorkerEnds(j) ==
  /\ job[j].phase = "running"
  /\ closing # "closed"
  /\ \E outcome \in OutcomesOf(j) :
       /\ job' = [k \in Slots |->
            IF k = j THEN [job[j] EXCEPT !.phase = "ended",
                                         !.outcome = outcome]
            ELSE IF k \in Removed(j) THEN Unused ELSE job[k]]
       /\ workspaces' = (workspaces \ Removed(j)) \union
            IF job[j].kind = "prepare" /\ outcome = "success"
              THEN {j} ELSE {}
  /\ UNCHANGED << overview, selection, contracts, pendingCache, pending,
                  after, timer, closing >>

\* done -> quit is queued to the GUI thread; shutdown() calls quit itself.
ThreadStops(j) ==
  /\ job[j].phase = "ended"
  /\ closing # "closed"
  /\ job' = [job EXCEPT ![j].phase = "stopped"]
  /\ UNCHANGED << overview, selection, contracts, pendingCache, pending,
                  after, timer, closing, workspaces >>

-----------------------------------------------------------------------------
(* The Overview tab: one operation at a time.                              *)

\* Mutant: a worker that recorded its outcome no longer counts.
VacantWhenDone == \A j \in overview : job[j].phase # "running"

Vacant == overview = {}

\* A progress dialog is up for every operation but a cache load.
NoDialog == \A j \in overview : job[j].kind = "cache"

UserActs ==
  /\ closing = "open"
  /\ NoDialog
  /\ timer => inputOvertakesTimer

Begin(new) ==
  /\ Vacant
  /\ HasRoom(job)
  /\ job' = Launch(job, new)
  /\ overview' = overview \union {FreeSlot(job)}

\* update_game: the contracts first, then an update of the default language.
BeginUpdate ==
  Begin(IF contracts = None
          THEN [Running("read", selection) EXCEPT !.then = "update"]
          ELSE [Running("prepare", contracts) EXCEPT !.target =
                 [install |-> selection.install,
                  language |-> DefaultLanguage]])

ClickUpdate ==
  /\ UserActs
  /\ BeginUpdate
  /\ UNCHANGED << selection, contracts, pendingCache, pending, after, timer,
                  closing, workspaces >>

ClickRead ==
  /\ UserActs
  /\ Begin(Running("read", selection))
  /\ UNCHANGED << selection, contracts, pendingCache, pending, after, timer,
                  closing, workspaces >>

ClickDiscover ==
  /\ UserActs
  /\ Begin(Running("discover", None))
  /\ UNCHANGED << selection, contracts, pendingCache, pending, after, timer,
                  closing, workspaces >>

ClickCancel(j) ==
  /\ closing = "open"
  /\ j \in overview
  /\ job[j].kind # "cache"
  /\ job' = [job EXCEPT ![j].cancelled = TRUE]
  /\ UNCHANGED << overview, selection, contracts, pendingCache, pending,
                  after, timer, closing, workspaces >>

\* Contracts of another selection are withdrawn at once.
Retained(scope) == IF contracts = scope THEN contracts ELSE None

\* The selectors, disabled while a job runs; the cache load starts now.
SelectScope(scope) ==
  /\ UserActs
  /\ scope.install = selection.install \/ scope.language = selection.language
  /\ selection' = scope
  /\ contracts' = Retained(scope)
  /\ Begin(Running("cache", scope))
  /\ UNCHANGED << pendingCache, pending, after, timer, closing, workspaces >>

\* "Choose folder..." stays enabled during a cache load, which goes on.
ChooseFolder(install) ==
  /\ UserActs
  /\ ~Vacant
  /\ selection' = [selection EXCEPT !.install = install]
  /\ contracts' = Retained(selection')
  /\ pendingCache' = TRUE
  /\ UNCHANGED << job, overview, pending, after, timer, closing, workspaces >>

-----------------------------------------------------------------------------
(* Delivery: one slot of the GUI thread calls the handler of the outcome,  *)
(* then _operation_finished.                                               *)

Ready(j) == closing = "open" /\ j \in overview /\ job[j].phase = "stopped"

\* _operation_finished: a pending cache load starts, or the continuation is
\* (again) put on the timer.
Finish(j, retired, cacheWanted) ==
  LET jobs == [job EXCEPT ![j] = retired]
  IN  /\ IF cacheWanted /\ overview = {j}
           THEN /\ HasRoom(jobs)
                /\ job' = Launch(jobs, Running("cache", selection'))
                /\ overview' = {FreeSlot(jobs)}
                /\ pendingCache' = FALSE
           ELSE /\ job' = jobs
                /\ overview' = overview \ {j}
                /\ pendingCache' = cacheWanted
      /\ timer' = (timer \/ after' # "none")
      /\ UNCHANGED closing

\* Mutant: a finished load is published for whatever is selected now.
DeliverLateContracts(j) ==
  /\ Ready(j)
  /\ job[j].kind \in {"cache", "read"}
  /\ job[j].outcome = "success"
  /\ contracts' \in {contracts, job[j].values}
  /\ after' = IF job[j].kind = "read" THEN job[j].then ELSE after
  /\ UNCHANGED << selection, pending, workspaces >>
  /\ Finish(j, Unused, pendingCache)

\* loaded and _cache_loaded; a cache may be absent.
DeliverContracts(j) ==
  /\ Ready(j)
  /\ job[j].kind \in {"cache", "read"}
  /\ job[j].outcome = "success"
  /\ IF job[j].values # selection
       THEN UNCHANGED << contracts, after >>
       ELSE \/ /\ job[j].kind = "read"
               /\ contracts' = selection
               /\ after' = job[j].then
            \/ /\ job[j].kind = "cache"
               /\ contracts' \in {contracts, selection}
               /\ UNCHANGED after
  /\ UNCHANGED << selection, pending, workspaces >>
  /\ Finish(j, Unused, pendingCache)

\* _set_installs keeps the selection when it is found again.
DeliverDiscovery(j) ==
  /\ Ready(j)
  /\ job[j].kind = "discover"
  /\ job[j].outcome = "success"
  /\ \E install \in Installs :
       selection' = [selection EXCEPT !.install = install]
  /\ contracts' = Retained(selection')
  /\ UNCHANGED << pending, after, workspaces >>
  /\ Finish(j, Unused, TRUE)

\* Mutant: nothing is left to be done when this job is finished.
ConfirmOnly(j) ==
  /\ Ready(j)
  /\ job[j].kind = "prepare"
  /\ job[j].outcome = "success"
  /\ pending' = j
  /\ UNCHANGED << selection, contracts, after, workspaces >>
  /\ Finish(j, [job[j] EXCEPT !.phase = "delivered"], pendingCache)

\* The user confirms: the write waits until this job is finished.
Confirm(j) ==
  /\ Ready(j)
  /\ job[j].kind = "prepare"
  /\ job[j].outcome = "success"
  /\ pending' = j
  /\ after' = "commit"
  /\ UNCHANGED << selection, contracts, workspaces >>
  /\ Finish(j, [job[j] EXCEPT !.phase = "delivered"], pendingCache)

\* Mutant: a declined update is forgotten, not cleaned up.
ForgetDeclined(j) ==
  /\ Ready(j)
  /\ job[j].kind = "prepare"
  /\ job[j].outcome = "success"
  /\ UNCHANGED << selection, contracts, pending, after, workspaces >>
  /\ Finish(j, [job[j] EXCEPT !.phase = "delivered"], pendingCache)

\* Nothing to change, a journal to review first, or the user declines.
Decline(j) ==
  /\ Ready(j)
  /\ job[j].kind = "prepare"
  /\ job[j].outcome = "success"
  /\ workspaces' = workspaces \ {j}
  /\ UNCHANGED << selection, contracts, pending, after >>
  /\ Finish(j, Unused, pendingCache)

DeliverOther(j) ==
  /\ Ready(j)
  /\ job[j].kind = "commit" \/ job[j].outcome # "success"
  /\ UNCHANGED << selection, contracts, pending, after, workspaces >>
  /\ Finish(j, Unused, pendingCache)

\* _run_pending_continuation; while a job runs it only restarts the timer.
\* The commit takes the journal of what is selected by now.
TimerFires ==
  /\ closing = "open"
  /\ timer
  /\ Vacant
  /\ timer' = FALSE
  /\ after' = "none"
  /\ \/ /\ after = "commit"
        /\ pending # None
        /\ Begin([job[pending] EXCEPT !.kind = "commit", !.phase = "running",
                                      !.cancelled = FALSE, !.outcome = "none",
                                      !.journal = selection,
                                      !.carries = pending])
        /\ pending' = None
     \/ /\ after = "update"
        /\ BeginUpdate
        /\ UNCHANGED pending
     \/ /\ after = "none" \/ (after = "commit" /\ pending = None)
        /\ UNCHANGED << job, overview, pending >>
  /\ UNCHANGED << selection, contracts, pendingCache, closing, workspaces >>

-----------------------------------------------------------------------------
(* The other tabs, and the end.                                            *)

StartOther ==
  /\ UserActs
  /\ \A j \in Slots : job[j].kind # "other"
  /\ HasRoom(job)
  /\ job' = Launch(job, Running("other", None))
  /\ UNCHANGED << overview, selection, contracts, pendingCache, pending,
                  after, timer, closing, workspaces >>

OtherFinishes(j) ==
  /\ closing \in {"open", "overview"}
  /\ job[j].kind = "other"
  /\ job[j].phase = "stopped"
  /\ job' = [job EXCEPT ![j] = Unused]
  /\ UNCHANGED << overview, selection, contracts, pendingCache, pending,
                  after, timer, closing, workspaces >>

\* Mutant: the continuation timer is not stopped.
CloseTimerActive ==
  /\ closing = "open"
  /\ closing' = "overview"
  /\ job' = [j \in Slots |->
       IF j = pending THEN Unused
       ELSE IF j \in overview THEN [job[j] EXCEPT !.cancelled = TRUE]
       ELSE job[j]]
  /\ workspaces' = workspaces \ {pending}
  /\ pendingCache' = FALSE
  /\ pending' = None
  /\ after' = "none"
  /\ UNCHANGED << overview, selection, contracts, timer >>

\* Mutant: the jobs are waited for, not cancelled.
CloseWithoutCancel ==
  /\ closing = "open"
  /\ closing' = "overview"
  /\ job' = [j \in Slots |->
       IF j = pending THEN Unused
       ELSE job[j]]
  /\ workspaces' = workspaces \ {pending}
  /\ pendingCache' = FALSE
  /\ pending' = None
  /\ after' = "none"
  /\ timer' = FALSE
  /\ UNCHANGED << overview, selection, contracts >>

\* StartTab.shutdown_jobs up to its loop, whose first pass cancels every job.
Close ==
  /\ closing = "open"
  /\ closing' = "overview"
  /\ job' = [j \in Slots |->
       IF j = pending THEN Unused
       ELSE IF j \in overview THEN [job[j] EXCEPT !.cancelled = TRUE]
       ELSE job[j]]
  /\ workspaces' = workspaces \ {pending}
  /\ pendingCache' = FALSE
  /\ pending' = None
  /\ after' = "none"
  /\ timer' = FALSE
  /\ UNCHANGED << overview, selection, contracts >>

\* processEvents in the loop: the handlers see _shutting_down and drop the
\* outcome.
DropOutcome(j) ==
  /\ closing = "overview"
  /\ j \in overview
  /\ job[j].phase = "stopped"
  /\ overview' = overview \ {j}
  /\ job' = [job EXCEPT ![j] =
       IF j \in workspaces THEN [@ EXCEPT !.phase = "delivered"] ELSE Unused]
  /\ UNCHANGED << selection, contracts, pendingCache, pending, after, timer,
                  closing, workspaces >>

\* The loop ends with the last worker; the other tabs cancel theirs.
OverviewJoined ==
  /\ closing = "overview"
  /\ \A j \in overview : ~ThreadAlive(j)
  /\ closing' = "others"
  /\ overview' = {}
  /\ job' = [j \in Slots |-> IF job[j].kind = "other"
       THEN [job[j] EXCEPT !.cancelled = TRUE] ELSE job[j]]
  /\ UNCHANGED << selection, contracts, pendingCache, pending, after, timer,
                  workspaces >>

\* shutdown(5000): the worker stopped, or five seconds passed; the result of
\* the join is not looked at.
OthersJoined ==
  /\ closing = "others"
  /\ closing' = "closed"
  /\ UNCHANGED << job, overview, selection, contracts, pendingCache, pending,
                  after, timer, workspaces >>

-----------------------------------------------------------------------------
Init ==
  /\ job = [j \in Slots |-> Unused]
  /\ overview = {}
  /\ selection \in Scopes
  /\ selection.language = DefaultLanguage
  /\ contracts = None
  /\ pendingCache = FALSE
  /\ pending = None
  /\ after = "none"
  /\ timer = FALSE
  /\ closing = "open"
  /\ workspaces = {}
  /\ inputOvertakesTimer \in BOOLEAN

UserStep ==
  \/ ClickUpdate \/ ClickRead \/ ClickDiscover
  \/ \E j \in Slots : ClickCancel(j)
  \/ \E scope \in Scopes : SelectScope(scope)
  \/ \E install \in Installs : ChooseFolder(install)
  \/ StartOther \/ Close

Deliver(j) ==
  \/ DeliverContracts(j) \/ DeliverDiscovery(j) \/ Confirm(j) \/ Decline(j)
  \/ DeliverOther(j) \/ OtherFinishes(j) \/ DropOutcome(j)

GuiStep == (\E j \in Slots : Deliver(j))
           \/ TimerFires \/ OverviewJoined \/ OthersJoined

WorkerStep(j) == WorkerEnds(j) \/ ThreadStops(j)

Next ==
  /\ UserStep \/ GuiStep \/ \E j \in Slots : WorkerStep(j)
  /\ UNCHANGED inputOvertakesTimer

Spec == Init /\ [][Next]_vars

\* Nothing makes a hung helper end before it is cancelled, but a cancelled
\* operation ends (HelperProcess), and so does a write.
MustGoOn(j) ==
  /\ job[j].cancelled \/ job[j].kind = "commit" \/ job[j].phase = "ended"
  /\ WorkerStep(j)

\* The event loop runs, timers fire, and the user answers dialogs.
Fairness == /\ WF_state(TimerFires)
            /\ WF_state(OverviewJoined)
            /\ WF_state(OthersJoined)
            /\ \A j \in Slots : WF_state(Deliver(j)) /\ WF_state(MustGoOn(j))

FairSpec == Spec /\ Fairness

-----------------------------------------------------------------------------
(* Properties.                                                             *)

\* Every variable has its type; no timer is active once the window closes.
TypeOK ==
  /\ job \in [Slots -> Job]
  /\ overview \subseteq Slots
  /\ selection \in Scopes
  /\ contracts \in Scopes \union {None}
  /\ pendingCache \in BOOLEAN /\ timer \in BOOLEAN
  /\ pending \in Slots \union {None}
  /\ after \in {"none", "update", "commit"}
  /\ closing \in {"open", "overview", "others", "closed"}
  /\ workspaces \subseteq Slots
  /\ timer => closing = "open"
  /\ inputOvertakesTimer \in BOOLEAN

\* The Overview tab never has two live workers: a write starts only after
\* the thread that prepared it has fully stopped.
OneWorkerAtATime ==
  Cardinality({j \in Slots : job[j].kind # "other" /\ ThreadAlive(j)}) <= 1

\* Contracts of another channel or language are never the published ones,
\* however late a load or a read of them ends.
ContractsMatchSelection == contracts \in {None, selection}

\* The three properties of a confirmed update suppose that no click is handled
\* between the confirmation and its due timer: such a click can start another
\* job, whose delivery takes the place of the confirmed update.

\* A prepared update's files have a holder that will remove them: its job
\* until delivery, the tab after confirmation, the job that writes it.
LeaseHeld ==
  ~inputOvertakesTimer /\ closing = "open" => \A w \in workspaces :
    \/ job[w].phase \in {"ended", "stopped"}
    \/ pending = w
    \/ \E k \in Slots : job[k].carries = w /\ job[k].phase = "running"

\* A confirmed update ends written or refused, its files removed; no other
\* update has files meanwhile.
ConfirmedIsSettled ==
  ~inputOvertakesTimer /\ pending # None ~> workspaces = {}

Commits == {j \in Slots : job[j].kind = "commit"}

\* Values, file and journal of a write belong to one channel, although the
\* tab takes them from the selection at three different moments.
WritesKeepToChannel ==
  ~inputOvertakesTimer => \A j \in Commits :
    /\ job[j].values.install = job[j].target.install
    /\ job[j].journal.install = job[j].target.install

\* "Different channels/languages must never mix": they belong to one language.
WritesKeepToLanguage ==
  ~inputOvertakesTimer => \A j \in Commits :
    /\ job[j].values.language = job[j].target.language
    /\ job[j].journal.language = job[j].target.language

\* Closing the window does not hang, given that operations end.
CloseEnds == closing = "overview" ~> closing = "closed"
=============================================================================
