-------------------------- MODULE UpdateWorkProofs --------------------------
(***************************************************************************)
(* Theorems about OverviewJobs and CommandLine, for every set of channels, *)
(* languages, slots and terminals, about ContractReading, for every build  *)
(* and whatever providers return, about BlueprintCatalog and UpdateText,   *)
(* for every catalog and every table, about Presentation, for every build, *)
(* and about their run, MCUpdateWork.                                      *)
(*                                                                         *)
(* OverviewJobs: the Overview tab has one worker at a time, it publishes   *)
(* contracts of its selection only, and, if no click overtakes the due     *)
(* timer, a prepared update's files always have a holder and a write keeps *)
(* to one channel.  A commit takes its values from the contracts of the    *)
(* moment the update was prepared, its file from the selection of that     *)
(* moment and its journal from the selection of the moment it starts.  The *)
(* invariant says why they agree: the selection does not move while an     *)
(* update is prepared (its dialog is up) nor between the confirmation and  *)
(* the timer (no click is handled and only a load of the cache may run).   *)
(*                                                                         *)
(* CommandLine: a store changes with the success of a command only (or     *)
(* when `channel apply` puts user.ini back), and `channel apply            *)
(* --expect-plan` writes what a preview promised.  The comparison with the *)
(* plan file is made two steps before the write, when the file may hold    *)
(* another plan; the invariant says that a command about to write has been *)
(* confirmed and that its own plan was promised.                           *)
(*                                                                         *)
(* ContractReading: the strings that a record refers to stay together, and *)
(* what a contract is shown is what the facts that meet it agree on.  Both *)
(* are results of folds, from record to record and from detail to detail;  *)
(* each has an invariant: the groups share no key and each record seen so  *)
(* far has its keys in one; and what is shown, and what is blocked,        *)
(* accounts for all details seen so far.                                   *)
(*                                                                         *)
(* BlueprintCatalog: what is marked as owned in the text is owned in the   *)
(* list, and the other way round; the invariant of the fold over offers is *)
(* that each has left its name and its source in the entry of its id.      *)
(*                                                                         *)
(* Presentation: what is added to names and titles is agreed on and fits.  *)
(* The invariant of the fold over parts is that tags are as wide as their  *)
(* parts and have the evidence of exactly these.                           *)
(*                                                                         *)
(* UpdateText: the update that was reviewed is the one that is written;    *)
(* the invariant of the fold over edits tells the table so far from the    *)
(* table before all of them.                                               *)
(***************************************************************************)
EXTENDS MCUpdateWork, FiniteSetTheorems, SequenceTheorems, WellFoundedInduction, TLAPS

-----------------------------------------------------------------------------
(* The Overview tab.                                                       *)

\* The tab lists its live workers, and lists one job at most.
JobsListed ==
  /\ \A i, j \in overview : i = j
  /\ \A j \in Slots : job[j].kind # "other" /\ ThreadAlive(j) => j \in overview

\* The update in slot j is for the selected channel, with contracts of it.
IsForSelection(j) ==
  /\ job[j].values.install = selection.install
  /\ job[j].target.install = selection.install

PreparedForSelection ==
  closing = "open" =>
    /\ \A j \in overview : job[j].kind = "prepare" => IsForSelection(j)
    /\ pending # None => /\ job[pending].kind = "prepare"
                         /\ job[pending].phase = "delivered"
                         /\ IsForSelection(pending)

TimerWaitsForCache ==
  closing = "open" =>
    /\ pending # None => after = "commit"
    /\ after # "none" => timer
    /\ timer => NoDialog

CommitsKeepToChannel ==
  \A j \in Commits :
    /\ job[j].values.install = job[j].target.install
    /\ job[j].journal.install = job[j].target.install

FilesOfPrepared ==
  \A w \in workspaces :
    /\ job[w].kind = "prepare" /\ job[w].outcome = "success"
    /\ job[w].phase \in {"ended", "stopped", "delivered"}

FilesHeld ==
  closing = "open" => \A w \in workspaces :
    \/ job[w].phase \in {"ended", "stopped"}
    \/ pending = w
    \/ \E k \in Slots : /\ job[k].carries = w
                       /\ job[k].phase = "running" /\ job[k].kind = "commit"

UpdateInv ==
  ~inputOvertakesTimer =>
    /\ PreparedForSelection
    /\ TimerWaitsForCache
    /\ CommitsKeepToChannel
    /\ FilesHeld

IInv ==
  /\ TypeOK
  /\ JobsListed
  /\ ContractsMatchSelection
  /\ FilesOfPrepared
  /\ UpdateInv

-----------------------------------------------------------------------------
(***************************************************************************)
(* Starting and finishing a job.                                           *)
(***************************************************************************)

\* A launched job takes a slot nobody uses.
LEMMA FreeSlotIsUnused ==
  ASSUME NEW jobs, HasRoom(jobs)
  PROVE  FreeSlot(jobs) \in Slots /\ jobs[FreeSlot(jobs)] = Unused
BY DEF HasRoom, FreeSlot

\* What Begin does: the list was empty and holds the new job alone.
LEMMA BeginEffect ==
  ASSUME NEW new, Begin(new)
  PROVE  \E k \in Slots :
           /\ overview = {} /\ overview' = {k}
           /\ job[k] = Unused /\ job' = [job EXCEPT ![k] = new]
BY FreeSlotIsUnused DEF Begin, Vacant, Launch

\* What Finish does: either job j leaves the list, or a load of the cache, in
\* the same or another slot, takes its place.
Retires(j, retired) ==
  /\ overview' = overview \ {j}
  /\ job' = [job EXCEPT ![j] = retired]

Reloads(j, retired, k) ==
  /\ overview = {j} /\ overview' = {k}
  /\ [job EXCEPT ![j] = retired][k] = Unused
  /\ job' = [[job EXCEPT ![j] = retired] EXCEPT ![k] = Running("cache", selection')]

LEMMA FinishEffect ==
  ASSUME NEW j, NEW retired, NEW cacheWanted, Finish(j, retired, cacheWanted)
  PROVE  /\ timer' = (timer \/ after' # "none") /\ closing' = closing
         /\ pendingCache' \in {FALSE, cacheWanted}
         /\ Retires(j, retired) \/ \E k \in Slots : Reloads(j, retired, k)
<1> DEFINE jobs == [job EXCEPT ![j] = retired]
<1>1. CASE cacheWanted /\ overview = {j}
  <2>1. /\ HasRoom(jobs) /\ overview' = {FreeSlot(jobs)} /\ pendingCache' = FALSE
        /\ job' = [jobs EXCEPT ![FreeSlot(jobs)] = Running("cache", selection')]
    BY <1>1 DEF Finish, Launch
  <2>2. FreeSlot(jobs) \in Slots /\ jobs[FreeSlot(jobs)] = Unused
    BY <2>1, FreeSlotIsUnused
  <2>3. timer' = (timer \/ after' # "none") /\ closing' = closing
    BY DEF Finish
  <2> QED
    BY <1>1, <2>1, <2>2, <2>3 DEF Reloads
<1>2. CASE ~(cacheWanted /\ overview = {j})
  BY <1>2 DEF Finish, Retires
<1> QED
  BY <1>1, <1>2

\* The five deliveries of the Overview tab.
Delivers(j, retired) ==
  \/ retired = Unused /\ (DeliverContracts(j) \/ DeliverDiscovery(j)
                            \/ Decline(j) \/ DeliverOther(j))
  \/ retired = [job[j] EXCEPT !.phase = "delivered"] /\ Confirm(j)

LEMMA DeliveryEffect ==
  ASSUME NEW j \in Slots, NEW retired, Delivers(j, retired)
  PROVE  /\ closing = "open" /\ j \in overview /\ job[j].phase = "stopped"
         /\ timer' = (timer \/ after' # "none") /\ closing' = closing
         /\ pendingCache' \in {TRUE, FALSE, pendingCache}
         /\ Retires(j, retired) \/ \E k \in Slots : Reloads(j, retired, k)
<1>1. closing = "open" /\ j \in overview /\ job[j].phase = "stopped"
  BY DEF Delivers, DeliverContracts, DeliverDiscovery, Confirm, Decline,
     DeliverOther, Ready
<1>2. Finish(j, retired, pendingCache) \/ Finish(j, retired, TRUE)
  BY DEF Delivers, DeliverContracts, DeliverDiscovery, Confirm, Decline,
     DeliverOther
<1> QED
  BY <1>1, <1>2, FinishEffect

-----------------------------------------------------------------------------
(***************************************************************************)
(* Type correctness.                                                       *)
(***************************************************************************)
Kinds == {"none", "cache", "read", "discover", "prepare", "commit", "other"}
Phases == {"idle", "running", "ended", "stopped", "delivered"}

\* The records the actions store are jobs.
LEMMA JobTypes ==
  /\ Unused \in Job
  /\ \A kind \in Kinds, values \in Scopes \union {None} :
       Running(kind, values) \in Job
  /\ \A x \in Job : [x EXCEPT !.cancelled = TRUE] \in Job
  /\ \A x \in Job, phase \in Phases : [x EXCEPT !.phase = phase] \in Job
<1> USE DEF Job, Unused, Running, Kinds, Phases
<1>1. Unused \in Job
  OBVIOUS
<1>2. \A kind \in Kinds, values \in Scopes \union {None} :
        Running(kind, values) \in Job
  OBVIOUS
<1>3. \A x \in Job : [x EXCEPT !.cancelled = TRUE] \in Job
  OBVIOUS
<1>4. \A x \in Job, phase \in Phases : [x EXCEPT !.phase = phase] \in Job
  OBVIOUS
<1> QED
  BY <1>1, <1>2, <1>3, <1>4

LEMMA UpdateTypes ==
  /\ \A scope \in Scopes :
       [Running("read", scope) EXCEPT !.then = "update"] \in Job
  /\ \A values \in Scopes \union {None}, scope \in Scopes :
       [Running("prepare", values) EXCEPT !.target = scope] \in Job
  /\ \A x \in Job, scope \in Scopes, w \in Slots :
       [x EXCEPT !.kind = "commit", !.phase = "running", !.cancelled = FALSE,
                 !.outcome = "none", !.journal = scope, !.carries = w] \in Job
  /\ \A x \in Job, outcome \in {"success", "failure", "cancelled"} :
       [x EXCEPT !.phase = "ended", !.outcome = outcome] \in Job
<1> USE DEF Job, Unused, Running
<1>1. \A scope \in Scopes :
       [Running("read", scope) EXCEPT !.then = "update"] \in Job
  OBVIOUS
<1>2. \A values \in Scopes \union {None}, scope \in Scopes :
       [Running("prepare", values) EXCEPT !.target = scope] \in Job
  OBVIOUS
<1>3. \A x \in Job, scope \in Scopes, w \in Slots :
       [x EXCEPT !.kind = "commit", !.phase = "running", !.cancelled = FALSE,
                 !.outcome = "none", !.journal = scope, !.carries = w] \in Job
  OBVIOUS
<1>4. \A x \in Job, outcome \in {"success", "failure", "cancelled"} :
       [x EXCEPT !.phase = "ended", !.outcome = outcome] \in Job
  OBVIOUS
<1> QED
  BY <1>1, <1>2, <1>3, <1>4

\* What update_game starts has its type.
LEMMA BeginUpdateTypes ==
  ASSUME TypeOK, BeginUpdate
  PROVE  job' \in [Slots -> Job] /\ overview' \subseteq Slots
<1>1. CASE contracts = None
  <2>1. [Running("read", selection) EXCEPT !.then = "update"] \in Job
    BY UpdateTypes DEF TypeOK
  <2> QED
    BY <1>1, <2>1, BeginEffect DEF BeginUpdate, TypeOK
<1>2. CASE contracts # None
  <2>1. [install |-> selection.install, language |-> DefaultLanguage] \in Scopes
    BY JobsAssumption DEF JobsAssumption, TypeOK, Scopes
  <2>2. [Running("prepare", contracts) EXCEPT !.target =
           [install |-> selection.install, language |-> DefaultLanguage]] \in Job
    BY <2>1, UpdateTypes DEF TypeOK
  <2> QED
    BY <1>2, <2>2, BeginEffect DEF BeginUpdate, TypeOK
<1> QED
  BY <1>1, <1>2

LEMMA RetiredTypes ==
  ASSUME TypeOK, NEW j \in Slots
  PROVE  Unused \in Job /\ [job[j] EXCEPT !.phase = "delivered"] \in Job
BY JobTypes DEF TypeOK, Phases

LEMMA TypeStep ==
  ASSUME TypeOK, [Next]_vars
  PROVE  TypeOK'
<1> USE DEF TypeOK
<1>k. inputOvertakesTimer' = inputOvertakesTimer
  BY DEF Next, vars
<1> USE <1>k
<1>1. CASE ClickUpdate
  BY <1>1, BeginUpdateTypes DEF ClickUpdate, UserActs
<1>2. CASE ClickRead
  <2>1. Running("read", selection) \in Job
    BY JobTypes DEF Kinds
  <2> QED
    BY <1>2, <2>1, BeginEffect DEF ClickRead, UserActs
<1>3. CASE ClickDiscover
  <2>1. Running("discover", None) \in Job
    BY JobTypes DEF Kinds
  <2> QED
    BY <1>3, <2>1, BeginEffect DEF ClickDiscover, UserActs
<1>4. ASSUME NEW scope \in Scopes, SelectScope(scope)
      PROVE  TypeOK'
  <2>1. Running("cache", scope) \in Job
    BY JobTypes DEF Kinds
  <2> QED
    BY <1>4, <2>1, BeginEffect DEF SelectScope, UserActs, Retained
<1>5. ASSUME NEW install \in Installs, ChooseFolder(install)
      PROVE  TypeOK'
  <2>1. selection' \in Scopes
    BY <1>5 DEF ChooseFolder, Scopes
  <2> QED
    BY <1>5, <2>1 DEF ChooseFolder, UserActs, Retained
<1>6. CASE StartOther
  <2>1. Running("other", None) \in Job
    BY JobTypes DEF Kinds
  <2> QED
    BY <1>6, <2>1, FreeSlotIsUnused DEF StartOther, UserActs, Launch
<1>7. ASSUME NEW j \in Slots, ClickCancel(j)
      PROVE  TypeOK'
  BY <1>7, JobTypes DEF ClickCancel
<1>8. ASSUME NEW j \in Slots, NEW retired \in Job, Delivers(j, retired)
      PROVE  TypeOK'
  <2>1. selection' \in Scopes
    BY <1>8 DEF Delivers, DeliverContracts, DeliverDiscovery, Confirm, Decline,
                DeliverOther, Scopes
  <2>2. /\ contracts' \in Scopes \union {None} /\ pending' \in Slots \union {None}
        /\ after' \in {"none", "update", "commit"} /\ workspaces' \subseteq Slots
    BY <1>8, <2>1 DEF Delivers, DeliverContracts, DeliverDiscovery, Confirm,
       Decline,
                DeliverOther, Retained, Job
  <2>3. Running("cache", selection') \in Job
    BY <2>1, JobTypes DEF Kinds
  <2>4. job' \in [Slots -> Job] /\ overview' \subseteq Slots
    <3>1. CASE Retires(j, retired)
      BY <1>8, <3>1 DEF Retires
    <3>2. ASSUME NEW k \in Slots, Reloads(j, retired, k)
          PROVE  job' \in [Slots -> Job] /\ overview' \subseteq Slots
      BY <1>8, <2>3, <3>2 DEF Reloads
    <3> QED
      BY <1>8, <3>1, <3>2, DeliveryEffect
  <2> QED
    BY <1>8, <2>1, <2>2, <2>4, DeliveryEffect
<1>9. ASSUME NEW j \in Slots, OtherFinishes(j)
      PROVE  TypeOK'
  BY <1>9, JobTypes DEF OtherFinishes
<1>10. ASSUME NEW j \in Slots, DropOutcome(j)
      PROVE  TypeOK'
  <2>1. (IF j \in workspaces THEN [job[j] EXCEPT !.phase = "delivered"]
         ELSE Unused) \in Job
    BY RetiredTypes
  <2> QED
    BY <1>10, <2>1 DEF DropOutcome
<1>11. ASSUME NEW j \in Slots, ThreadStops(j)
      PROVE  TypeOK'
  <2>1. [job[j] EXCEPT !.phase = "stopped"] \in Job
    BY JobTypes DEF Phases
  <2> QED
    BY <1>11, <2>1 DEF ThreadStops
<1>12. CASE TimerFires
  <2>1. /\ job' \in [Slots -> Job] /\ overview' \subseteq Slots
        /\ pending' \in Slots \union {None}
    <3>1. CASE after = "commit" /\ pending # None
      <4>1. [job[pending] EXCEPT !.kind = "commit", !.phase = "running",
                                 !.cancelled = FALSE, !.outcome = "none",
                                 !.journal = selection, !.carries = pending] \in Job
        BY <3>1, UpdateTypes
      <4> QED
        BY <1>12, <3>1, <4>1, BeginEffect DEF TimerFires
    <3>2. CASE after = "update"
      BY <1>12, <3>2, BeginUpdateTypes DEF TimerFires
    <3>3. CASE after # "update" /\ ~(after = "commit" /\ pending # None)
      BY <1>12, <3>3 DEF TimerFires
    <3> QED
      BY <3>1, <3>2, <3>3
  <2> QED
    BY <1>12, <2>1 DEF TimerFires
<1>13. CASE Close
  BY <1>13, JobTypes DEF Close
<1>14. CASE OverviewJoined \/ OthersJoined
  BY <1>14, JobTypes DEF OverviewJoined, OthersJoined
<1>15. ASSUME NEW j \in Slots, WorkerEnds(j)
      PROVE  TypeOK'
  <2>1. PICK outcome \in OutcomesOf(j) :
          /\ job' = [k \in Slots |->
               IF k = j THEN [job[j] EXCEPT !.phase = "ended", !.outcome = outcome]
               ELSE IF k \in Removed(j) THEN Unused ELSE job[k]]
          /\ workspaces' = (workspaces \ Removed(j)) \union
               IF job[j].kind = "prepare" /\ outcome = "success" THEN {j} ELSE {}
    BY <1>15 DEF WorkerEnds
  <2>2. [job[j] EXCEPT !.phase = "ended", !.outcome = outcome] \in Job
    BY <2>1, UpdateTypes DEF OutcomesOf
  <2>3. job' \in [Slots -> Job] /\ workspaces' \subseteq Slots
    BY <2>1, <2>2, JobTypes
  <2> QED
    BY <1>15, <2>3 DEF WorkerEnds
<1>16. CASE UNCHANGED vars
  BY <1>16 DEF vars, state
<1>17. ASSUME NEW j \in Slots,
             \/ DeliverContracts(j) \/ DeliverDiscovery(j)
             \/ Confirm(j) \/ Decline(j) \/ DeliverOther(j)
      PROVE  TypeOK'
  BY <1>17, <1>8, RetiredTypes DEF Delivers
<1> QED
  BY <1>1, <1>2, <1>3, <1>4, <1>5, <1>6, <1>7, <1>8, <1>9, <1>10, <1>11, <1>12,
     <1>13, <1>14, <1>15, <1>16, <1>17
     DEF Next, UserStep, GuiStep, Deliver, WorkerStep

\* update_game starts a read or a preparation.
LEMMA UpdateStarts ==
  ASSUME BeginUpdate
  PROVE  \E new : /\ Begin(new) /\ new.phase = "running"
                  /\ new.kind \in {"read", "prepare"}
<1> USE DEF Running, Unused, BeginUpdate
<1>1. CASE contracts = None
  <2> DEFINE new == [Running("read", selection) EXCEPT !.then = "update"]
  <2>1. Begin(new) /\ new.phase = "running" /\ new.kind = "read"
    BY <1>1
  <2> HIDE DEF new
  <2> QED
    BY <2>1
<1>2. CASE contracts # None
  <2> DEFINE new == [Running("prepare", contracts) EXCEPT !.target =
                        [install |-> selection.install,
                         language |-> DefaultLanguage]]
  <2>1. Begin(new) /\ new.phase = "running" /\ new.kind = "prepare"
    BY <1>2
  <2> HIDE DEF new
  <2> QED
    BY <2>1
<1> QED
  BY <1>1, <1>2

LEMMA JobsStep ==
  ASSUME TypeOK, JobsListed, [Next]_vars
  PROVE  JobsListed'
<1> USE DEF TypeOK, Job, Unused, Running, JobsListed, ThreadAlive
<1>1. CASE ClickUpdate
  BY <1>1, UpdateStarts, BeginEffect DEF ClickUpdate
<1>2. CASE ClickRead \/ ClickDiscover
  BY <1>2, BeginEffect DEF ClickRead, ClickDiscover
<1>3. ASSUME NEW scope \in Scopes, SelectScope(scope)
      PROVE  JobsListed'
  BY <1>3, BeginEffect DEF SelectScope
<1>4. ASSUME NEW install \in Installs, ChooseFolder(install)
      PROVE  JobsListed'
  BY <1>4 DEF ChooseFolder
<1>5. CASE StartOther
  BY <1>5, FreeSlotIsUnused DEF StartOther, Launch
<1>6. ASSUME NEW j \in Slots, ClickCancel(j)
      PROVE  JobsListed'
  BY <1>6 DEF ClickCancel
<1>7. ASSUME NEW j \in Slots, NEW retired \in Job, Delivers(j, retired)
      PROVE  JobsListed'
  <2>r. retired.phase \in {"idle", "delivered"}
    BY <1>7 DEF Delivers
  <2>1. retired.phase \in {"idle", "delivered"} /\ j \in overview
    BY <1>7, <2>r, DeliveryEffect
  <2>2. CASE Retires(j, retired)
    BY <1>7, <2>1, <2>2 DEF Retires
  <2>3. ASSUME NEW k \in Slots, Reloads(j, retired, k)
        PROVE  JobsListed'
    BY <1>7, <2>1, <2>3 DEF Reloads
  <2> QED
    BY <1>7, <2>2, <2>3, DeliveryEffect
<1>8. ASSUME NEW j \in Slots, OtherFinishes(j)
      PROVE  JobsListed'
  BY <1>8 DEF OtherFinishes
<1>9. ASSUME NEW j \in Slots, DropOutcome(j)
      PROVE  JobsListed'
  BY <1>9 DEF DropOutcome
<1>10. ASSUME NEW j \in Slots, ThreadStops(j)
      PROVE  JobsListed'
  BY <1>10 DEF ThreadStops
<1>11. CASE TimerFires
  <2>1. CASE after = "commit" /\ pending # None
    BY <1>11, <2>1, BeginEffect DEF TimerFires
  <2>2. CASE after = "update"
    BY <1>11, <2>2, UpdateStarts, BeginEffect DEF TimerFires
  <2>3. CASE after # "update" /\ ~(after = "commit" /\ pending # None)
    BY <1>11, <2>3 DEF TimerFires
  <2> QED
    BY <2>1, <2>2, <2>3
<1>12. CASE Close
  BY <1>12 DEF Close
<1>13. CASE OverviewJoined \/ OthersJoined
  BY <1>13 DEF OverviewJoined, OthersJoined
<1>14. ASSUME NEW j \in Slots, WorkerEnds(j)
      PROVE  JobsListed'
  BY <1>14 DEF WorkerEnds
<1>15. CASE UNCHANGED vars
  BY <1>15 DEF vars, state
<1>16. ASSUME NEW j \in Slots,
             \/ DeliverContracts(j) \/ DeliverDiscovery(j)
             \/ Confirm(j) \/ Decline(j) \/ DeliverOther(j)
      PROVE  JobsListed'
  BY <1>16, <1>7, RetiredTypes DEF Delivers
<1> QED
  BY <1>1, <1>2, <1>3, <1>4, <1>5, <1>6, <1>7, <1>8, <1>9, <1>10, <1>11, <1>12,
     <1>13, <1>14, <1>15, <1>16
     DEF Next, UserStep, GuiStep, Deliver, WorkerStep

LEMMA FilesStep ==
  ASSUME TypeOK, FilesOfPrepared, [Next]_vars
  PROVE  FilesOfPrepared'
<1> USE DEF TypeOK, Job, Unused, Running, FilesOfPrepared
<1>1. CASE ClickUpdate
  BY <1>1, BeginEffect DEF ClickUpdate, BeginUpdate
<1>2. CASE ClickRead \/ ClickDiscover
  BY <1>2, BeginEffect DEF ClickRead, ClickDiscover
<1>3. ASSUME NEW scope \in Scopes, SelectScope(scope)
      PROVE  FilesOfPrepared'
  BY <1>3, BeginEffect DEF SelectScope
<1>4. ASSUME NEW install \in Installs, ChooseFolder(install)
      PROVE  FilesOfPrepared'
  BY <1>4 DEF ChooseFolder
<1>5. CASE StartOther
  BY <1>5, FreeSlotIsUnused DEF StartOther, Launch
<1>6. ASSUME NEW j \in Slots, ClickCancel(j)
      PROVE  FilesOfPrepared'
  BY <1>6 DEF ClickCancel
<1>7. ASSUME NEW j \in Slots, NEW retired \in Job, Delivers(j, retired)
      PROVE  FilesOfPrepared'
  <2>1. /\ workspaces' \subseteq workspaces
        /\ j \in workspaces' => retired = [job[j] EXCEPT !.phase = "delivered"]
    BY <1>7, DeliveryEffect DEF Delivers, DeliverContracts, DeliverDiscovery,
       Decline,
                DeliverOther, Confirm
  <2>2. CASE Retires(j, retired)
    BY <1>7, <2>1, <2>2 DEF Retires
  <2>3. ASSUME NEW k \in Slots, Reloads(j, retired, k)
        PROVE  FilesOfPrepared'
    <3>1. k \notin workspaces'
      BY <2>1, <2>3 DEF Reloads
    <3> QED
      BY <1>7, <2>1, <2>3, <3>1 DEF Reloads
  <2> QED
    BY <1>7, <2>2, <2>3, DeliveryEffect
<1>8. ASSUME NEW j \in Slots, OtherFinishes(j)
      PROVE  FilesOfPrepared'
  BY <1>8 DEF OtherFinishes
<1>9. ASSUME NEW j \in Slots, DropOutcome(j)
      PROVE  FilesOfPrepared'
  BY <1>9 DEF DropOutcome
<1>10. ASSUME NEW j \in Slots, ThreadStops(j)
      PROVE  FilesOfPrepared'
  BY <1>10 DEF ThreadStops
<1>11. CASE TimerFires
  <2>1. UNCHANGED job \/ \E new : Begin(new)
    BY <1>11 DEF TimerFires, BeginUpdate
  <2> QED
    BY <1>11, <2>1, BeginEffect DEF TimerFires
<1>12. CASE Close
  BY <1>12 DEF Close
<1>13. CASE OverviewJoined \/ OthersJoined
  BY <1>13 DEF OverviewJoined, OthersJoined
<1>14. ASSUME NEW j \in Slots, WorkerEnds(j)
      PROVE  FilesOfPrepared'
  BY <1>14 DEF WorkerEnds
<1>15. CASE UNCHANGED vars
  BY <1>15 DEF vars, state
<1>16. ASSUME NEW j \in Slots,
             \/ DeliverContracts(j) \/ DeliverDiscovery(j)
             \/ Confirm(j) \/ Decline(j) \/ DeliverOther(j)
      PROVE  FilesOfPrepared'
  BY <1>16, <1>7, RetiredTypes DEF Delivers
<1> QED
  BY <1>1, <1>2, <1>3, <1>4, <1>5, <1>6, <1>7, <1>8, <1>9, <1>10, <1>11, <1>12,
     <1>13, <1>14, <1>15, <1>16
     DEF Next, UserStep, GuiStep, Deliver, WorkerStep

\* Without overtaking clicks, the user acts only when nothing is due.
LEMMA UserActsWhenNothingIsDue ==
  ASSUME IInv, ~inputOvertakesTimer, UserActs
  PROVE  closing = "open" /\ ~timer /\ pending = None /\ NoDialog
BY DEF IInv, UpdateInv, TimerWaitsForCache, UserActs

\* BeginEffect for a job about a scope.
LEMMA BeginsRunning ==
  ASSUME TypeOK, NEW kind, NEW values, Begin(Running(kind, values))
  PROVE  \E k \in Slots :
           /\ overview = {} /\ overview' = {k}
           /\ job[k] = Unused /\ job' = [job EXCEPT ![k] = Running(kind, values)]
           /\ job'[k].kind = kind /\ job'[k].phase = "running"
<1>1. PICK k \in Slots : /\ overview = {} /\ overview' = {k} /\ job[k] = Unused
                        /\ job' = [job EXCEPT ![k] = Running(kind, values)]
  BY BeginEffect
<1>2. job'[k] = Running(kind, values)
  BY <1>1 DEF TypeOK
<1>3. Running(kind, values).kind = kind /\ Running(kind, values).phase = "running"
  BY DEF Running, Unused
<1> QED
  BY <1>1, <1>2, <1>3

\* ... and the preparation is for the selected channel, with values of it.
LEMMA UpdateIsForSelection ==
  ASSUME IInv, BeginUpdate, selection' = selection
  PROVE  \A j \in overview' : job'[j].kind = "prepare" => IsForSelection(j)'
<1> USE DEF IInv
<1>1. CASE contracts = None
  <2> DEFINE new == [Running("read", selection) EXCEPT !.then = "update"]
  <2>1. Begin(new) /\ new.kind = "read"
    BY <1>1 DEF BeginUpdate, Running, Unused
  <2> HIDE DEF new
  <2>2. PICK k \in Slots : overview' = {k} /\ job' = [job EXCEPT ![k] = new]
    BY <2>1, BeginEffect
  <2> QED
    BY <2>1, <2>2 DEF TypeOK
<1>2. CASE contracts # None
  <2> DEFINE new == [Running("prepare", contracts) EXCEPT !.target =
                      [install |-> selection.install,
                       language |-> DefaultLanguage]]
  <2>1. /\ Begin(new)
        /\ new.values = contracts
        /\ new.target.install = selection.install
    BY <1>2 DEF BeginUpdate, Running, Unused
  <2> HIDE DEF new
  <2>2. PICK k \in Slots : overview' = {k} /\ job' = [job EXCEPT ![k] = new]
    BY <2>1, BeginEffect
  <2>3. job'[k] = new
    BY <2>2 DEF TypeOK
  <2>4. contracts = selection
    BY <1>2 DEF ContractsMatchSelection
  <2> QED
    BY <2>1, <2>2, <2>3, <2>4 DEF IsForSelection
<1> QED
  BY <1>1, <1>2

LEMMA TimerStep ==
  ASSUME IInv, ~inputOvertakesTimer, [Next]_vars
  PROVE  TimerWaitsForCache'
<1> USE DEF TypeOK, Job, Unused, Running, IInv, UpdateInv, TimerWaitsForCache,
   NoDialog, JobsListed, ThreadAlive
<1>1. CASE ClickUpdate
  BY <1>1, UserActsWhenNothingIsDue, UpdateStarts, BeginEffect DEF ClickUpdate
<1>2. CASE ClickRead \/ ClickDiscover
  BY <1>2, UserActsWhenNothingIsDue, BeginsRunning DEF ClickRead, ClickDiscover
<1>3. ASSUME NEW scope \in Scopes, SelectScope(scope)
      PROVE  TimerWaitsForCache'
  BY <1>3, UserActsWhenNothingIsDue, BeginsRunning DEF SelectScope
<1>4. ASSUME NEW install \in Installs, ChooseFolder(install)
      PROVE  TimerWaitsForCache'
  BY <1>4, UserActsWhenNothingIsDue DEF ChooseFolder
<1>5. CASE StartOther
  BY <1>5, UserActsWhenNothingIsDue, FreeSlotIsUnused DEF StartOther, Launch,
     Running, Unused
<1>6. ASSUME NEW j \in Slots, ClickCancel(j)
      PROVE  TimerWaitsForCache'
  BY <1>6 DEF ClickCancel
<1>7. ASSUME NEW j \in Slots, NEW retired \in Job, Delivers(j, retired)
      PROVE  TimerWaitsForCache'
  <2>1. \/ after' = after /\ pending' = pending
        \/ after' = "commit" /\ pending' = j
        \/ after' \in {"none", "update"} /\ pending' = pending
           /\ job[j].kind = "read"
    BY <1>7 DEF Delivers, DeliverContracts, DeliverDiscovery, Confirm, Decline,
       DeliverOther
  <2>2. closing = "open" /\ j \in overview /\ timer' = (timer \/ after' # "none")
    BY <1>7, DeliveryEffect
  <2>3. pending' # None => after' = "commit"
    BY <2>1, <2>2
  <2>4. NoDialog'
    <3>1. CASE Retires(j, retired)
      BY <2>2, <3>1 DEF Retires
    <3>2. ASSUME NEW k \in Slots, Reloads(j, retired, k)
          PROVE  NoDialog'
      BY <3>2 DEF Reloads
    <3> QED
      BY <1>7, <3>1, <3>2, DeliveryEffect
  <2> QED
    BY <2>2, <2>3, <2>4
<1>8. ASSUME NEW j \in Slots, OtherFinishes(j)
      PROVE  TimerWaitsForCache'
  BY <1>8 DEF OtherFinishes, Unused
<1>9. ASSUME NEW j \in Slots, DropOutcome(j)
      PROVE  TimerWaitsForCache'
  BY <1>9 DEF DropOutcome
<1>10. ASSUME NEW j \in Slots, ThreadStops(j)
      PROVE  TimerWaitsForCache'
  BY <1>10 DEF ThreadStops
<1>11. CASE TimerFires
  <2>1. timer' = FALSE /\ after' = "none" /\ closing = "open"
    BY <1>11 DEF TimerFires
  <2>2. pending' = None
    BY <1>11, <2>1 DEF TimerFires
  <2> QED
    BY <2>1, <2>2
<1>12. CASE Close
  BY <1>12 DEF Close
<1>13. CASE OverviewJoined \/ OthersJoined
  BY <1>13 DEF OverviewJoined, OthersJoined
<1>14. ASSUME NEW j \in Slots, WorkerEnds(j)
      PROVE  TimerWaitsForCache'
  BY <1>14 DEF WorkerEnds, Removed
<1>15. CASE UNCHANGED vars
  BY <1>15 DEF vars, state
<1>16. ASSUME NEW j \in Slots,
             \/ DeliverContracts(j) \/ DeliverDiscovery(j)
             \/ Confirm(j) \/ Decline(j) \/ DeliverOther(j)
      PROVE  TimerWaitsForCache'
  BY <1>16, <1>7, RetiredTypes DEF Delivers
<1> QED
  BY <1>1, <1>2, <1>3, <1>4, <1>5, <1>6, <1>7, <1>8, <1>9, <1>10, <1>11, <1>12,
     <1>13, <1>14, <1>15, <1>16
     DEF Next, UserStep, GuiStep, Deliver, WorkerStep

LEMMA PreparedStep ==
  ASSUME IInv, ~inputOvertakesTimer, [Next]_vars
  PROVE  PreparedForSelection'
<1> USE DEF TypeOK, Job, IInv, UpdateInv, PreparedForSelection, IsForSelection,
           TimerWaitsForCache, NoDialog, JobsListed, ThreadAlive
<1>1. CASE ClickUpdate
  <2>1. pending = None /\ pending' = None /\ selection' = selection
    BY <1>1, UserActsWhenNothingIsDue DEF ClickUpdate
  <2>2. \A j \in overview' : job'[j].kind = "prepare" => IsForSelection(j)'
    BY <1>1, <2>1, UpdateIsForSelection DEF ClickUpdate
  <2> QED
    BY <2>1, <2>2
<1>2. CASE ClickRead \/ ClickDiscover
  <2>1. closing = "open" /\ ~timer /\ pending = None
    BY <1>2, UserActsWhenNothingIsDue DEF ClickRead, ClickDiscover
  <2>2. CASE ClickRead
    BY <2>1, <2>2, BeginsRunning DEF ClickRead
  <2>3. CASE ClickDiscover
    BY <2>1, <2>3, BeginsRunning DEF ClickDiscover
  <2> QED
    BY <1>2, <2>2, <2>3
<1>3. ASSUME NEW scope \in Scopes, SelectScope(scope)
      PROVE  PreparedForSelection'
  BY <1>3, UserActsWhenNothingIsDue, BeginsRunning DEF SelectScope
<1>4. ASSUME NEW install \in Installs, ChooseFolder(install)
      PROVE  PreparedForSelection'
  BY <1>4, UserActsWhenNothingIsDue DEF ChooseFolder
<1>5. CASE StartOther
  BY <1>5, UserActsWhenNothingIsDue, FreeSlotIsUnused DEF StartOther, Launch,
     Running, Unused
<1>6. ASSUME NEW j \in Slots, ClickCancel(j)
      PROVE  PreparedForSelection'
  BY <1>6 DEF ClickCancel
<1>7. ASSUME NEW j \in Slots, NEW retired \in Job, Delivers(j, retired)
      PROVE  PreparedForSelection'
  <2>1. closing = "open" /\ j \in overview /\ job[j].phase = "stopped"
    BY <1>7, DeliveryEffect
  <2>2. \A i \in overview' : job'[i].kind # "prepare"
    <3>1. CASE Retires(j, retired)
      BY <2>1, <3>1 DEF Retires
    <3>2. ASSUME NEW k \in Slots, Reloads(j, retired, k)
          PROVE  \A i \in overview' : job'[i].kind # "prepare"
      BY <3>2 DEF Reloads, Running, Unused
    <3> QED
      BY <1>7, <3>1, <3>2, DeliveryEffect
  <2>3. ASSUME pending' # None
        PROVE  /\ job[pending'].kind = "prepare" /\ IsForSelection(pending')
               /\ pending' \in Slots /\ selection' = selection
               /\ \/ pending' # j /\ job[pending'].phase = "delivered"
                  \/ pending' = j /\ retired = [job[j] EXCEPT !.phase = "delivered"]
    <3>1. CASE Confirm(j) /\ retired = [job[j] EXCEPT !.phase = "delivered"]
      BY <2>1, <3>1 DEF Confirm
    <3>2. CASE retired = Unused /\ (DeliverContracts(j) \/ DeliverDiscovery(j)
                                      \/ Decline(j) \/ DeliverOther(j))
      <4>1. pending' = pending /\ timer /\ job[j].kind = "cache"
        BY <2>1, <2>3, <3>2 DEF DeliverContracts, DeliverDiscovery, Decline,
           DeliverOther
      <4>2. selection' = selection
        BY <3>2, <4>1 DEF DeliverContracts, DeliverDiscovery, Decline,
           DeliverOther
      <4> QED
        BY <2>1, <2>3, <4>1, <4>2
    <3> QED
      BY <1>7, <3>1, <3>2 DEF Delivers
  <2>4. ASSUME pending' # None
        PROVE  job'[pending'] = [job[pending'] EXCEPT !.phase = "delivered"]
    <3>1. CASE Retires(j, retired)
      BY <2>3, <2>4, <3>1 DEF Retires
    <3>2. ASSUME NEW k \in Slots, Reloads(j, retired, k)
          PROVE  job'[pending'] = [job[pending'] EXCEPT !.phase = "delivered"]
      BY <2>3, <2>4, <3>2 DEF Reloads, Running, Unused
    <3> QED
      BY <1>7, <3>1, <3>2, DeliveryEffect
  <2> QED
    BY <2>1, <2>2, <2>3, <2>4
<1>8. ASSUME NEW j \in Slots, OtherFinishes(j)
      PROVE  PreparedForSelection'
  BY <1>8 DEF OtherFinishes, Unused
<1>9. ASSUME NEW j \in Slots, DropOutcome(j)
      PROVE  PreparedForSelection'
  BY <1>9 DEF DropOutcome
<1>10. ASSUME NEW j \in Slots, ThreadStops(j)
      PROVE  PreparedForSelection'
  BY <1>10 DEF ThreadStops
<1>11. CASE TimerFires
  <2>1. pending' = None /\ selection' = selection
    BY <1>11 DEF TimerFires
  <2>2. \A j \in overview' : job'[j].kind = "prepare" => IsForSelection(j)'
    <3>1. CASE after = "commit" /\ pending # None
      <4> DEFINE new == [job[pending] EXCEPT !.kind = "commit", !.phase = "running",
                                      !.cancelled = FALSE, !.outcome = "none",
                                      !.journal = selection,
                                      !.carries = pending]
      <4>1. Begin(new) /\ new.kind = "commit"
        BY <1>11, <3>1 DEF TimerFires
      <4> HIDE DEF new
      <4>2. PICK k \in Slots : overview' = {k} /\ job' = [job EXCEPT ![k] = new]
        BY <4>1, BeginEffect
      <4> QED
        BY <4>1, <4>2
    <3>2. CASE after = "update"
      BY <1>11, <2>1, <3>2, UpdateIsForSelection DEF TimerFires
    <3>3. CASE after # "update" /\ ~(after = "commit" /\ pending # None)
      BY <1>11, <3>3 DEF TimerFires, Vacant
    <3> QED
      BY <3>1, <3>2, <3>3
  <2> QED
    BY <2>1, <2>2
<1>12. CASE Close
  BY <1>12 DEF Close
<1>13. CASE OverviewJoined \/ OthersJoined
  BY <1>13 DEF OverviewJoined, OthersJoined
<1>14. ASSUME NEW j \in Slots, WorkerEnds(j)
      PROVE  PreparedForSelection'
  BY <1>14 DEF WorkerEnds, Removed
<1>15. CASE UNCHANGED vars
  BY <1>15 DEF vars, state
<1>16. ASSUME NEW j \in Slots,
             \/ DeliverContracts(j) \/ DeliverDiscovery(j)
             \/ Confirm(j) \/ Decline(j) \/ DeliverOther(j)
      PROVE  PreparedForSelection'
  BY <1>16, <1>7, RetiredTypes DEF Delivers
<1> QED
  BY <1>1, <1>2, <1>3, <1>4, <1>5, <1>6, <1>7, <1>8, <1>9, <1>10, <1>11, <1>12,
     <1>13, <1>14, <1>15, <1>16
     DEF Next, UserStep, GuiStep, Deliver, WorkerStep

LEMMA CommitsStep ==
  ASSUME IInv, ~inputOvertakesTimer, [Next]_vars
  PROVE  CommitsKeepToChannel'
<1> USE DEF TypeOK, Job, IInv, UpdateInv, Unused, CommitsKeepToChannel, Commits
<1>1. CASE ClickUpdate
  BY <1>1, UserActsWhenNothingIsDue, UpdateStarts, BeginEffect DEF ClickUpdate
<1>2. CASE ClickRead \/ ClickDiscover
  <2>1. closing = "open" /\ ~timer /\ pending = None
    BY <1>2, UserActsWhenNothingIsDue DEF ClickRead, ClickDiscover
  <2>2. CASE ClickRead
    BY <2>1, <2>2, BeginsRunning DEF ClickRead
  <2>3. CASE ClickDiscover
    BY <2>1, <2>3, BeginsRunning DEF ClickDiscover
  <2> QED
    BY <1>2, <2>2, <2>3
<1>3. ASSUME NEW scope \in Scopes, SelectScope(scope)
      PROVE  CommitsKeepToChannel'
  BY <1>3, UserActsWhenNothingIsDue, BeginsRunning DEF SelectScope
<1>4. ASSUME NEW install \in Installs, ChooseFolder(install)
      PROVE  CommitsKeepToChannel'
  BY <1>4, UserActsWhenNothingIsDue DEF ChooseFolder
<1>5. CASE StartOther
  BY <1>5, UserActsWhenNothingIsDue, FreeSlotIsUnused DEF StartOther, Launch,
     Running, Unused
<1>6. ASSUME NEW j \in Slots, ClickCancel(j)
      PROVE  CommitsKeepToChannel'
  BY <1>6 DEF ClickCancel
<1>7. ASSUME NEW j \in Slots, NEW retired \in Job, Delivers(j, retired)
      PROVE  CommitsKeepToChannel'
  <2>1. retired.kind # "commit"
    BY <1>7 DEF Delivers, Confirm
  <2>2. CASE Retires(j, retired)
    BY <2>1, <2>2 DEF Retires
  <2>3. ASSUME NEW k \in Slots, Reloads(j, retired, k)
        PROVE  CommitsKeepToChannel'
    BY <2>1, <2>3 DEF Reloads, Running
  <2> QED
    BY <1>7, <2>2, <2>3, DeliveryEffect
<1>8. ASSUME NEW j \in Slots, OtherFinishes(j)
      PROVE  CommitsKeepToChannel'
  BY <1>8 DEF OtherFinishes, Unused
<1>9. ASSUME NEW j \in Slots, DropOutcome(j)
      PROVE  CommitsKeepToChannel'
  BY <1>9 DEF DropOutcome
<1>10. ASSUME NEW j \in Slots, ThreadStops(j)
      PROVE  CommitsKeepToChannel'
  BY <1>10 DEF ThreadStops
<1>11. CASE TimerFires
  <2>1. CASE after = "commit" /\ pending # None
    <3> DEFINE new == [job[pending] EXCEPT !.kind = "commit", !.phase = "running",
                                    !.cancelled = FALSE, !.outcome = "none",
                                    !.journal = selection,
                                    !.carries = pending]
    <3>1. Begin(new) /\ new.values.install = new.target.install
          /\ new.journal.install = new.target.install
      BY <1>11, <2>1 DEF TimerFires, PreparedForSelection, IsForSelection
    <3> HIDE DEF new
    <3>2. PICK k \in Slots : /\ overview' = {k} /\ job[k] = Unused
                            /\ job' = [job EXCEPT ![k] = new]
      BY <3>1, BeginEffect
    <3> QED
      BY <1>11, <2>1, <3>1, <3>2 DEF Unused, TimerFires
  <2>2. CASE after = "update"
    BY <1>11, <2>2, UpdateStarts, BeginEffect DEF TimerFires
  <2>3. CASE after # "update" /\ ~(after = "commit" /\ pending # None)
    BY <1>11, <2>3 DEF TimerFires
  <2> QED
    BY <2>1, <2>2, <2>3
<1>12. CASE Close
  BY <1>12 DEF Close
<1>13. CASE OverviewJoined \/ OthersJoined
  BY <1>13 DEF OverviewJoined, OthersJoined
<1>14. ASSUME NEW j \in Slots, WorkerEnds(j)
      PROVE  CommitsKeepToChannel'
  BY <1>14 DEF WorkerEnds, Removed
<1>15. CASE UNCHANGED vars
  BY <1>15 DEF vars, state
<1>16. ASSUME NEW j \in Slots,
             \/ DeliverContracts(j) \/ DeliverDiscovery(j)
             \/ Confirm(j) \/ Decline(j) \/ DeliverOther(j)
      PROVE  CommitsKeepToChannel'
  BY <1>16, <1>7, RetiredTypes DEF Delivers
<1> QED
  BY <1>1, <1>2, <1>3, <1>4, <1>5, <1>6, <1>7, <1>8, <1>9, <1>10, <1>11, <1>12,
     <1>13, <1>14, <1>15, <1>16
     DEF Next, UserStep, GuiStep, Deliver, WorkerStep

\* A job that starts in an unused slot takes no files from their holder.
LEMMA HeldBesideOthers ==
  ASSUME IInv, FilesHeld, closing = "open", pending' = pending,
         workspaces' = workspaces,
         \A i \in Slots : job[i] # Unused => job'[i] = job[i]
  PROVE  FilesHeld'
<1> USE DEF IInv, TypeOK, Job
<1> SUFFICES ASSUME NEW w \in workspaces
             PROVE  \/ job'[w].phase \in {"ended", "stopped"}
                    \/ pending = w
                    \/ \E k \in Slots : /\ job'[k].carries = w
                                        /\ job'[k].phase = "running"
                                        /\ job'[k].kind = "commit"
  BY DEF FilesHeld
<1>1. job'[w] = job[w]
  BY DEF FilesOfPrepared, Unused
<1>2. ASSUME NEW k \in Slots, job[k].phase = "running"
      PROVE  job'[k] = job[k]
  BY <1>2 DEF Unused
<1> QED
  BY <1>1, <1>2 DEF FilesHeld

LEMMA HeldStep ==
  ASSUME IInv, ~inputOvertakesTimer, [Next]_vars
  PROVE  FilesHeld'
<1> USE DEF TypeOK, Job, IInv, UpdateInv, FilesHeld, FilesOfPrepared
<1>1. CASE ClickUpdate
  <2>1. /\ closing = "open" /\ pending' = pending /\ workspaces' = workspaces
        /\ \A i \in Slots : job[i] # Unused => job'[i] = job[i]
    BY <1>1, UpdateStarts, BeginEffect DEF UserActs, ClickUpdate
  <2> QED
    BY <2>1, HeldBesideOthers
<1>2. CASE ClickRead \/ ClickDiscover
  <2>1. /\ closing = "open" /\ pending' = pending /\ workspaces' = workspaces
        /\ \A i \in Slots : job[i] # Unused => job'[i] = job[i]
    BY <1>2, BeginEffect DEF UserActs, ClickRead, ClickDiscover
  <2> QED
    BY <2>1, HeldBesideOthers
<1>3. ASSUME NEW scope \in Scopes, SelectScope(scope)
      PROVE  FilesHeld'
  <2>1. /\ closing = "open" /\ pending' = pending /\ workspaces' = workspaces
        /\ \A i \in Slots : job[i] # Unused => job'[i] = job[i]
    BY <1>3, BeginEffect DEF UserActs, SelectScope
  <2> QED
    BY <2>1, HeldBesideOthers
<1>4. ASSUME NEW install \in Installs, ChooseFolder(install)
      PROVE  FilesHeld'
  BY <1>4, UserActsWhenNothingIsDue DEF ChooseFolder
<1>5. CASE StartOther
  <2>1. /\ closing = "open" /\ pending' = pending /\ workspaces' = workspaces
        /\ \A i \in Slots : job[i] # Unused => job'[i] = job[i]
    BY <1>5, FreeSlotIsUnused DEF UserActs, StartOther, Launch
  <2> QED
    BY <2>1, HeldBesideOthers
<1>6. ASSUME NEW j \in Slots, ClickCancel(j)
      PROVE  FilesHeld'
  BY <1>6 DEF ClickCancel
<1>7. ASSUME NEW j \in Slots, NEW retired \in Job, Delivers(j, retired)
      PROVE  FilesHeld'
  <2>1. closing = "open" /\ j \in overview /\ job[j].phase = "stopped"
    BY <1>7, DeliveryEffect
  <2>2. /\ workspaces' \subseteq workspaces
        /\ j \in workspaces' => pending' = j
        /\ \A w \in workspaces' : pending = w => pending' = w
    <3>1. CASE Confirm(j)
      <4>1. job[j].kind = "prepare" /\ pending = None
        BY <2>1, <3>1 DEF Confirm, TimerWaitsForCache, NoDialog
      <4> QED
        BY <3>1, <4>1, JobsAssumption DEF Confirm, JobsAssumption
    <3>2. CASE DeliverContracts(j) \/ DeliverDiscovery(j) \/ DeliverOther(j)
      BY <3>2 DEF DeliverContracts, DeliverDiscovery, DeliverOther
    <3>3. CASE Decline(j)
      BY <3>3 DEF Decline
    <3> QED
      BY <1>7, <3>1, <3>2, <3>3 DEF Delivers
  <2>3. ASSUME NEW i \in Slots \ {j}, job[i] # Unused
        PROVE  job'[i] = job[i]
    <3>1. CASE Retires(j, retired)
      BY <2>3, <3>1 DEF Retires
    <3>2. ASSUME NEW k \in Slots, Reloads(j, retired, k)
          PROVE  job'[i] = job[i]
      BY <2>3, <3>2 DEF Reloads
    <3> QED
      BY <1>7, <3>1, <3>2, DeliveryEffect
  <2> QED
    <3>1. ASSUME NEW w \in workspaces'
          PROVE  w # j \/ pending' = w
      BY <2>2
    <3>2. ASSUME NEW w \in workspaces', w # j
          PROVE  job'[w] = job[w]
      BY <2>2, <2>3, <3>2 DEF Unused
    <3>3. ASSUME NEW k \in Slots, job[k].phase = "running"
          PROVE  job'[k] = job[k]
      BY <2>1, <2>3, <3>3 DEF Unused
    <3> QED
      BY <2>1, <2>2, <3>1, <3>2, <3>3
<1>8. ASSUME NEW j \in Slots, OtherFinishes(j)
      PROVE  FilesHeld'
  BY <1>8 DEF OtherFinishes, Unused
<1>9. ASSUME NEW j \in Slots, DropOutcome(j)
      PROVE  FilesHeld'
  BY <1>9 DEF DropOutcome
<1>10. ASSUME NEW j \in Slots, ThreadStops(j)
      PROVE  FilesHeld'
  BY <1>10 DEF ThreadStops
<1>11. CASE TimerFires
  <2>1. CASE after = "commit" /\ pending # None
    <3> DEFINE new == [job[pending] EXCEPT !.kind = "commit", !.phase = "running",
                                    !.cancelled = FALSE, !.outcome = "none",
                                    !.journal = selection,
                                    !.carries = pending]
    <3>1. Begin(new) /\ new.kind = "commit" /\ new.phase = "running"
          /\ new.carries = pending
      BY <1>11, <2>1 DEF TimerFires
    <3> HIDE DEF new
    <3>2. PICK k \in Slots : /\ overview' = {k} /\ job[k] = Unused
                            /\ job' = [job EXCEPT ![k] = new]
      BY <3>1, BeginEffect
    <3> QED
      BY <1>11, <2>1, <3>1, <3>2 DEF Unused, TimerFires
  <2>2. CASE after = "update"
    BY <1>11, <2>2, UpdateStarts, BeginEffect, HeldBesideOthers DEF TimerFires
  <2>3. CASE after # "update" /\ ~(after = "commit" /\ pending # None)
    BY <1>11, <2>3 DEF TimerFires
  <2> QED
    BY <2>1, <2>2, <2>3
<1>12. CASE Close
  BY <1>12 DEF Close
<1>13. CASE OverviewJoined \/ OthersJoined
  BY <1>13 DEF OverviewJoined, OthersJoined
<1>14. ASSUME NEW j \in Slots, WorkerEnds(j)
      PROVE  FilesHeld'
  BY <1>14 DEF WorkerEnds, Removed, JobsListed, ThreadAlive
<1>15. CASE UNCHANGED vars
  BY <1>15 DEF vars, state
<1>16. ASSUME NEW j \in Slots,
             \/ DeliverContracts(j) \/ DeliverDiscovery(j)
             \/ Confirm(j) \/ Decline(j) \/ DeliverOther(j)
      PROVE  FilesHeld'
  BY <1>16, <1>7, RetiredTypes DEF Delivers
<1> QED
  BY <1>1, <1>2, <1>3, <1>4, <1>5, <1>6, <1>7, <1>8, <1>9, <1>10, <1>11, <1>12,
     <1>13, <1>14, <1>15, <1>16
     DEF Next, UserStep, GuiStep, Deliver, WorkerStep

LEMMA ContractsStep ==
  ASSUME ContractsMatchSelection, [Next]_vars
  PROVE  ContractsMatchSelection'
<1> USE DEF ContractsMatchSelection
<1>1. CASE ClickUpdate
  BY <1>1 DEF ClickUpdate
<1>2. CASE ClickRead \/ ClickDiscover
  BY <1>2 DEF ClickRead, ClickDiscover
<1>3. ASSUME NEW j \in Slots, ClickCancel(j)
      PROVE  ContractsMatchSelection'
  BY <1>3 DEF ClickCancel
<1>4. ASSUME NEW scope \in Scopes, SelectScope(scope)
      PROVE  ContractsMatchSelection'
  BY <1>4 DEF SelectScope, Retained
<1>5. ASSUME NEW install \in Installs, ChooseFolder(install)
      PROVE  ContractsMatchSelection'
  BY <1>5 DEF ChooseFolder, Retained
<1>6. CASE StartOther
  BY <1>6 DEF StartOther
<1>7. CASE Close
  BY <1>7 DEF Close
<1>8. ASSUME NEW j \in Slots,
             DeliverContracts(j) \/ Confirm(j) \/ Decline(j) \/ DeliverOther(j)
      PROVE  ContractsMatchSelection'
  BY <1>8 DEF DeliverContracts, Confirm, Decline, DeliverOther
<1>9. ASSUME NEW j \in Slots, DeliverDiscovery(j)
      PROVE  ContractsMatchSelection'
  BY <1>9 DEF DeliverDiscovery, Retained
<1>10. ASSUME NEW j \in Slots, OtherFinishes(j)
      PROVE  ContractsMatchSelection'
  BY <1>10 DEF OtherFinishes
<1>11. ASSUME NEW j \in Slots, DropOutcome(j)
      PROVE  ContractsMatchSelection'
  BY <1>11 DEF DropOutcome
<1>12. CASE TimerFires
  BY <1>12 DEF TimerFires
<1>13. CASE OverviewJoined \/ OthersJoined
  BY <1>13 DEF OverviewJoined, OthersJoined
<1>14. ASSUME NEW j \in Slots, WorkerStep(j)
      PROVE  ContractsMatchSelection'
  BY <1>14 DEF WorkerStep, WorkerEnds, ThreadStops
<1>15. CASE UNCHANGED vars
  BY <1>15 DEF vars, state
<1> QED
  BY <1>1, <1>2, <1>3, <1>4, <1>5, <1>6, <1>7, <1>8, <1>9, <1>10, <1>11, <1>12,
     <1>13, <1>14, <1>15
     DEF Next, UserStep, GuiStep, Deliver

-----------------------------------------------------------------------------
(* The invariant, and what it implies.                                     *)

LEMMA InvInit ==
  ASSUME Init
  PROVE  IInv
<1> USE JobsAssumption DEF Init, JobsAssumption
<1>1. TypeOK
  BY JobTypes DEF TypeOK
<1>2. JobsListed
  BY DEF JobsListed, ThreadAlive, Unused
<1>3. ContractsMatchSelection /\ FilesOfPrepared
  BY DEF ContractsMatchSelection, FilesOfPrepared
<1>4. UpdateInv
  BY DEF UpdateInv, PreparedForSelection, TimerWaitsForCache, NoDialog,
         CommitsKeepToChannel, Commits, FilesHeld, Unused
<1> QED
  BY <1>1, <1>2, <1>3, <1>4 DEF IInv

LEMMA InvStep ==
  ASSUME IInv, [Next]_vars
  PROVE  IInv'
<1>1. TypeOK' /\ JobsListed' /\ ContractsMatchSelection' /\ FilesOfPrepared'
  BY TypeStep, JobsStep, ContractsStep, FilesStep DEF IInv
<1>2. UpdateInv'
  <2>1. inputOvertakesTimer' = inputOvertakesTimer
    BY DEF Next, vars
  <2>2. CASE ~inputOvertakesTimer
    BY <2>2, PreparedStep, TimerStep, CommitsStep, HeldStep DEF UpdateInv
  <2> QED
    BY <2>1, <2>2 DEF UpdateInv
<1> QED
  BY <1>1, <1>2 DEF IInv

\* What the theorems below rest on.
THEOREM Invariance == Spec => []IInv
BY InvInit, InvStep, PTL DEF Spec

\* Every reachable state is well typed, and no timer is active once the window
\* is closing.
THEOREM TypeCorrect == Spec => []TypeOK
<1>1. IInv => TypeOK
  BY DEF IInv
<1> QED
  BY <1>1, Invariance, PTL

\* The Overview tab never has two workers alive: nothing it starts begins
\* before the thread of the last job has stopped (_set_running, Vacant).
THEOREM OneWorker == Spec => []OneWorkerAtATime
<1>1. ASSUME IInv
      PROVE  OneWorkerAtATime
  <2> DEFINE Alive == {j \in Slots : job[j].kind # "other" /\ ThreadAlive(j)}
  <2>1. \A i, j \in Alive : i = j
    BY <1>1 DEF IInv, JobsListed
  <2>2. CASE Alive = {}
    BY <2>2, FS_EmptySet DEF OneWorkerAtATime
  <2>3. CASE Alive # {}
    <3>1. PICK j : Alive = {j}
      BY <2>1, <2>3
    <3>2. Cardinality(Alive) = 1
      BY <3>1, FS_Singleton
    <3> QED
      BY <3>2 DEF OneWorkerAtATime
  <2> QED
    BY <2>2, <2>3
<1> QED
  BY <1>1, Invariance, PTL

\* However late a load or a read ends, and whatever was selected meanwhile, the
\* published contracts are those of the selection or none.
THEOREM ContractsAreOfSelection == Spec => []ContractsMatchSelection
<1>1. IInv => ContractsMatchSelection
  BY DEF IInv
<1> QED
  BY <1>1, Invariance, PTL

\* If no click overtakes the due timer, an update writes the values of the
\* channel it is written to and keeps them in that channel's journal, although
\* the three are taken from the selection at three different moments.
THEOREM UpdatesKeepToChannel == Spec => []WritesKeepToChannel
<1>1. IInv => WritesKeepToChannel
  BY DEF IInv, UpdateInv, CommitsKeepToChannel, WritesKeepToChannel
<1> QED
  BY <1>1, Invariance, PTL

\* If no click overtakes the due timer, the files of a prepared update are
\* never without a holder that removes them while the window is open.
THEOREM FilesHaveHolder == Spec => []LeaseHeld
<1>1. IInv => LeaseHeld
  BY DEF IInv, UpdateInv, FilesHeld, LeaseHeld
<1> QED
  BY <1>1, Invariance, PTL

-----------------------------------------------------------------------------
(* The command line.                                                       *)

AllTerminals == Updating \union Others

CommandAssumed == Terminal!CommandAssumption

\* What the files hold.  An exported file is never read.
FileValues ==
  [archive  |-> 1 .. 2,
   cache    |-> [build : 0 .. 2, scoped : BOOLEAN] \union {None},
   rendered |-> Terminal!Renders,
   plan     |-> Terminal!Plans \union {None},
   user     |-> Terminal!Versions,
   pack     |-> Terminal!Versions,
   owned    |-> Nat,
   override |-> Terminal!Overrides,
   backup   |-> Terminal!Texts \union {None},
   journal  |-> [before : Terminal!Overrides, after : Terminal!Texts] \union {None},
   cfg      |-> Terminal!Versions,
   settings |-> Terminal!Versions,
   writes   |-> Nat]

Holds(f) ==
  /\ f = [archive |-> f.archive, cache |-> f.cache, rendered |-> f.rendered,
          plan |-> f.plan, user |-> f.user, pack |-> f.pack, owned |-> f.owned,
          override |-> f.override, backup |-> f.backup, journal |-> f.journal,
          cfg |-> f.cfg, settings |-> f.settings, out |-> f.out, writes |-> f.writes]
  /\ \A x \in DOMAIN FileValues : f[x] \in FileValues[x]

LEMMA HoldsEach ==
  ASSUME NEW f
  PROVE  Holds(f) <=>
           /\ f = [archive |-> f.archive, cache |-> f.cache, rendered |-> f.rendered,
                   plan |-> f.plan, user |-> f.user, pack |-> f.pack, owned |-> f.owned,
                   override |-> f.override, backup |-> f.backup, journal |-> f.journal,
                   cfg |-> f.cfg, settings |-> f.settings, out |-> f.out, writes |-> f.writes]
           /\ f.archive \in 1 .. 2
           /\ f.cache \in [build : 0 .. 2, scoped : BOOLEAN] \union {None}
           /\ f.rendered \in Terminal!Renders
           /\ f.plan \in Terminal!Plans \union {None}
           /\ f.user \in Terminal!Versions
           /\ f.pack \in Terminal!Versions
           /\ f.owned \in Nat
           /\ f.override \in Terminal!Overrides
           /\ f.backup \in Terminal!Texts \union {None}
           /\ f.journal \in [before : Terminal!Overrides, after : Terminal!Texts] \union {None}
           /\ f.cfg \in Terminal!Versions
           /\ f.settings \in Terminal!Versions
           /\ f.writes \in Nat
BY DEF Holds, FileValues

LEMMA HoldsWith ==
  ASSUME NEW f, Holds(f)
  PROVE  /\ \A v \in FileValues.cache    : Holds([f EXCEPT !.cache = v])
         /\ \A v \in FileValues.rendered : Holds([f EXCEPT !.rendered = v])
         /\ \A v \in FileValues.plan     : Holds([f EXCEPT !.plan = v])
         /\ \A v \in FileValues.user     : Holds([f EXCEPT !.user = v])
         /\ \A v \in FileValues.pack     : Holds([f EXCEPT !.pack = v])
         /\ \A v \in FileValues.owned    : Holds([f EXCEPT !.owned = v])
         /\ \A v \in FileValues.cfg      : Holds([f EXCEPT !.cfg = v])
         /\ \A v \in FileValues.settings : Holds([f EXCEPT !.settings = v])
         /\ \A v \in FileValues.archive  : Holds([f EXCEPT !.archive = v])
         /\ \A v \in FileValues.journal  : Holds([f EXCEPT !.journal = v])
         /\ \A v \in FileValues.override : Holds([f EXCEPT !.override = v])
         /\ \A v \in FileValues.backup   : Holds([f EXCEPT !.backup = v])
         /\ \A v \in FileValues.writes   : Holds([f EXCEPT !.writes = v])
         /\ \A v : Holds([f EXCEPT !.out = v])
<1>1. ASSUME NEW v \in FileValues.cache
      PROVE  Holds([f EXCEPT !.cache = v])
  BY HoldsEach DEF FileValues
<1>2. ASSUME NEW v \in FileValues.rendered
      PROVE  Holds([f EXCEPT !.rendered = v])
  BY HoldsEach DEF FileValues
<1>3. ASSUME NEW v \in FileValues.plan
      PROVE  Holds([f EXCEPT !.plan = v])
  BY HoldsEach DEF FileValues
<1>4. ASSUME NEW v \in FileValues.user
      PROVE  Holds([f EXCEPT !.user = v])
  BY HoldsEach DEF FileValues
<1>5. ASSUME NEW v \in FileValues.pack
      PROVE  Holds([f EXCEPT !.pack = v])
  BY HoldsEach DEF FileValues
<1>6. ASSUME NEW v \in FileValues.owned
      PROVE  Holds([f EXCEPT !.owned = v])
  BY HoldsEach DEF FileValues
<1>7. ASSUME NEW v \in FileValues.cfg
      PROVE  Holds([f EXCEPT !.cfg = v])
  BY HoldsEach DEF FileValues
<1>8. ASSUME NEW v \in FileValues.settings
      PROVE  Holds([f EXCEPT !.settings = v])
  BY HoldsEach DEF FileValues
<1>9. ASSUME NEW v \in FileValues.archive
      PROVE  Holds([f EXCEPT !.archive = v])
  BY HoldsEach DEF FileValues
<1>10. ASSUME NEW v \in FileValues.journal
      PROVE  Holds([f EXCEPT !.journal = v])
  BY HoldsEach DEF FileValues
<1>11. ASSUME NEW v
       PROVE  Holds([f EXCEPT !.out = v])
  BY HoldsEach
<1>12. ASSUME NEW v \in FileValues.override
       PROVE  Holds([f EXCEPT !.override = v])
  BY HoldsEach DEF FileValues
<1>13. ASSUME NEW v \in FileValues.backup
       PROVE  Holds([f EXCEPT !.backup = v])
  BY HoldsEach DEF FileValues
<1>14. ASSUME NEW v \in FileValues.writes
       PROVE  Holds([f EXCEPT !.writes = v])
  BY HoldsEach DEF FileValues
<1> QED
  BY <1>1, <1>2, <1>3, <1>4, <1>5, <1>6, <1>7, <1>8, <1>9, <1>10, <1>11, <1>12,
     <1>13, <1>14

LEMMA HoldsWritten ==
  ASSUME NEW f, Holds(f), NEW text \in Terminal!Texts \union {None},
         NEW backup \in Terminal!Texts \union {None}
  PROVE  Holds(Terminal!Written(f, text, backup))
<1> DEFINE override == IF text = None THEN None ELSE [text |-> text, at |-> f.writes + 1]
           kept     == IF backup = None THEN f.backup ELSE backup
           g        == [f EXCEPT !.override = override, !.backup = kept, !.writes = f.writes + 1]
<1>1. Terminal!Written(f, text, backup) = g
  BY DEF Terminal!Written
<1>2. override \in Terminal!Overrides /\ kept \in Terminal!Texts \union {None}
  BY HoldsEach DEF Terminal!Overrides
<1> HIDE DEF override, kept
<1>3. f.writes + 1 \in Nat
  BY HoldsEach
<1>4. ASSUME NEW o \in Terminal!Overrides, NEW b \in Terminal!Texts \union {None}, NEW w \in Nat
      PROVE  Holds([f EXCEPT !.override = o, !.backup = b, !.writes = w])
  <2> DEFINE g1 == [f EXCEPT !.override = o]
             g2 == [g1 EXCEPT !.backup = b]
  <2>1. Holds(g1)
    BY HoldsWith DEF FileValues
  <2>2. Holds(g2)
    BY <2>1, HoldsWith DEF FileValues
  <2>3. Holds([g2 EXCEPT !.writes = w])
    <3> HIDE DEF g2
    <3> QED
      BY <2>2, HoldsWith DEF FileValues
  <2> QED
    BY <2>3
<1>5. Holds(g)
  BY <1>2, <1>3, <1>4
<1> QED
  BY <1>1, <1>5

LEMMA HoldsInspected ==
  ASSUME NEW f, Holds(f), NEW resolve
  PROVE  Holds(Terminal!Inspected(f, resolve))
BY HoldsEach DEF Terminal!Inspected

LEMMA TextsOf ==
  ASSUME NEW override \in Terminal!Overrides
  PROVE  Terminal!TextOf(override) \in Terminal!Texts \union {None}
BY DEF Terminal!TextOf, Terminal!Overrides

-----------------------------------------------------------------------------
Channelled == {"channel-preview", "channel-apply"}

Parts == {"name", "confirm", "flags", "step", "seen", "text", "plan", "failed"}

IsCommand(r) == r = [part \in Parts |-> r[part]]

\* A command under way: its flags are of its name, and each step has what it
\* needs of the steps before.
CommandTyped(r) ==
  /\ IsCommand(r)
  /\ r.step # "idle" => r.flags \subseteq Terminal!Flags(r.name)
  /\ r.step \in {"read", "prepare", "commit"} => r.name \in Channelled
  /\ r.step = "save" => r.name = "channel-apply" /\ r.seen.user \in Terminal!Versions
  /\ r.step = "shown" => \A f \in Terminal!Inputs(r.name) : r.seen[f] \in FileValues[f]
  /\ r.step = "prepare" => r.text \in Terminal!Values
  /\ r.step \in {"shown", "save", "commit"} /\ r.name \in Channelled => r.plan \in Terminal!Plans

\* What a command has settled before it writes.
CommitIsAllowed(r) ==
  r.step \in {"save", "commit"} => /\ r.confirm
                                   /\ "expect-plan" \in r.flags => r.plan \in promised

RunsTyped ==
  /\ run = [t \in AllTerminals |-> run[t]]
  /\ \A t \in AllTerminals : CommandTyped(run[t])

CommitsAllowed == \A t \in AllTerminals : CommitIsAllowed(run[t])

\* The plan file holds a plan that was promised.
PromisesKept == files.plan # None => files.plan \in promised

CommandInv == Holds(files) /\ RunsTyped /\ CommitsAllowed /\ PromisesKept

LEMMA IdleTyped ==
  ASSUME NEW code
  PROVE  /\ CommandTyped(Terminal!Idle(code))
         /\ Terminal!Idle(code).step = "idle"
         /\ Terminal!Idle(code).failed <=> code # "ok"
BY DEF CommandTyped, IsCommand, Parts, Terminal!Idle

LEMMA InputsAreFiles ==
  ASSUME NEW name
  PROVE  Terminal!Inputs(name) \subseteq DOMAIN FileValues
BY DEF Terminal!Inputs, FileValues

LEMMA OnlyApplyExpects ==
  ASSUME NEW name, "expect-plan" \in Terminal!Flags(name)
  PROVE  name = "channel-apply"
BY DEF Terminal!Flags

\* A terminal's command changes to r; the others stay.
LEMMA RunBecomes ==
  ASSUME RunsTyped, NEW t \in AllTerminals, NEW r, CommandTyped(r),
         run' = [run EXCEPT ![t] = r]
  PROVE  /\ RunsTyped'
         /\ run'[t] = r
         /\ \A u \in AllTerminals \ {t} : run'[u] = run[u]
BY DEF RunsTyped, CommandTyped

-----------------------------------------------------------------------------
\* What every step of a terminal must show.
SuccessChanges(t) ==
  (\E file \in Terminal!Personal : files'[file] # files[file]) =>
    run[t].confirm /\ (run'[t] = Terminal!Idle("ok") \/ Terminal!PutsBack(t))

PromiseIsKept(t) ==
  "expect-plan" \in run[t].flags /\ files'.override # files.override =>
    [before |-> files.override, desired |-> Terminal!TextOf(files'.override)] \in promised

StepIsSound(t) ==
  /\ CommandInv'
  /\ \A u \in AllTerminals \ {t} : run'[u] = run[u]
  /\ SuccessChanges(t)
  /\ PromiseIsKept(t)

\* A command that ends leaves the invariant to what it wrote.
LEMMA EndsSound ==
  ASSUME CommandInv, NEW t \in AllTerminals, NEW code, Terminal!Ends(t, code),
         Holds(files'), files'.plan = files.plan
  PROVE  /\ CommandInv'
         /\ \A u \in AllTerminals \ {t} : run'[u] = run[u]
         /\ run'[t] = Terminal!Idle(code)
<1>1. run' = [run EXCEPT ![t] = Terminal!Idle(code)] /\ promised' = promised
  BY DEF Terminal!Ends
<1>2. /\ RunsTyped' /\ run'[t] = Terminal!Idle(code)
      /\ \A u \in AllTerminals \ {t} : run'[u] = run[u]
  BY <1>1, IdleTyped, RunBecomes DEF CommandInv
<1>3. CommitsAllowed'
  BY <1>1, <1>2, IdleTyped DEF CommandInv, CommitsAllowed, CommitIsAllowed
<1>4. PromisesKept'
  BY <1>1 DEF CommandInv, PromisesKept
<1> QED
  BY <1>2, <1>3, <1>4 DEF CommandInv

\* A command that ends and leaves the stores of the user alone.
LEMMA KeepsSound ==
  ASSUME CommandInv, NEW t \in AllTerminals, NEW code, Terminal!Ends(t, code),
         Holds(files'), files'.plan = files.plan,
         \A file \in Terminal!Personal : files'[file] = files[file]
  PROVE  StepIsSound(t)
BY EndsSound DEF StepIsSound, SuccessChanges, PromiseIsKept, Terminal!Personal

LEMMA LeavesSound ==
  ASSUME CommandInv, NEW t \in AllTerminals, NEW code, Terminal!Leaves(t, code)
  PROVE  StepIsSound(t)
BY KeepsSound DEF Terminal!Leaves, CommandInv

\* A confirmed command that writes, without a promise, and succeeds.
LEMMA WriteSound ==
  ASSUME CommandInv, NEW t \in AllTerminals, Terminal!Ends(t, "ok"), run[t].confirm,
         Holds(files'), files'.plan = files.plan,
         files'.override = files.override \/ "expect-plan" \notin run[t].flags
  PROVE  StepIsSound(t)
BY EndsSound DEF StepIsSound, SuccessChanges, PromiseIsKept

\* A journal that was resolved is nothing of the user's.
LEMMA InspectedKeeps ==
  ASSUME NEW f, Holds(f), NEW resolve
  PROVE  LET g == Terminal!Inspected(f, resolve)
         IN  /\ Holds(g) /\ g.plan = f.plan
             /\ \A file \in Terminal!Personal : g[file] = f[file]
BY HoldsInspected, HoldsEach DEF Terminal!Inspected, Terminal!Personal

LEMMA InspectsSound ==
  ASSUME CommandInv, NEW t \in AllTerminals, NEW code, Terminal!Ends(t, code),
         NEW resolve, files' = Terminal!Inspected(files, resolve)
  PROVE  StepIsSound(t)
BY InspectedKeeps, KeepsSound DEF CommandInv

\* What a command was shown, by its name.
LEMMA Shown ==
  ASSUME CommandInv, NEW t \in AllTerminals, NEW name, Terminal!Doing(t, name)
  PROVE  /\ run[t].flags \subseteq Terminal!Flags(name)
         /\ \A f \in Terminal!Inputs(name) : run[t].seen[f] \in FileValues[f]
         /\ name \in Channelled => run[t].plan \in Terminal!Plans
BY DEF CommandInv, RunsTyped, CommandTyped, Terminal!Doing

-----------------------------------------------------------------------------
LEMMA ReadingSound ==
  ASSUME CommandInv, NEW t \in AllTerminals, Terminal!Reading(t)
  PROVE  StepIsSound(t)
<1>1. CASE Terminal!Import(t)
  <2> DEFINE cache == IF "contracts" \in run[t].flags THEN [build |-> 0, scoped |-> FALSE]
                      ELSE [build |-> run[t].seen.archive, scoped |-> TRUE]
  <2>1. run[t].seen.archive \in 1 .. 2
    BY <1>1, Shown DEF Terminal!Import, Terminal!Inputs, FileValues
  <2>2. cache \in FileValues.cache
    <3>1. CASE "contracts" \in run[t].flags
      <4>1. cache = [build |-> 0, scoped |-> FALSE]
        BY <3>1
      <4> QED
        BY <4>1 DEF FileValues
    <3>2. CASE "contracts" \notin run[t].flags
      <4>1. cache = [build |-> run[t].seen.archive, scoped |-> TRUE]
        BY <3>2
      <4> QED
        BY <4>1, <2>1 DEF FileValues
    <3> QED
      BY <3>1, <3>2
  <2>3. Terminal!Ends(t, "ok") /\ files' = [files EXCEPT !.cache = cache]
    BY <1>1 DEF Terminal!Import, Terminal!Writes
  <2>4. Holds(files')
    BY <2>2, <2>3, HoldsWith DEF CommandInv
  <2> HIDE DEF cache
  <2> QED
    BY <2>3, <2>4, KeepsSound, HoldsEach DEF CommandInv, Terminal!Personal
<1>2. CASE Terminal!Scmdb(t)
  <2> DEFINE cache == [run[t].seen.cache EXCEPT !.scoped = FALSE]
  <2>1. CASE \E code : Terminal!Leaves(t, code)
    BY <2>1, LeavesSound
  <2>2. CASE run[t].seen.cache # None /\ Terminal!Writes(t, "cache", cache)
    <3>1. cache \in FileValues.cache
      BY <1>2, <2>2, Shown DEF Terminal!Scmdb, Terminal!Inputs, FileValues
    <3>2. Terminal!Ends(t, "ok") /\ files' = [files EXCEPT !.cache = cache]
      BY <2>2 DEF Terminal!Writes
    <3>3. Holds(files')
      BY <3>1, <3>2, HoldsWith DEF CommandInv
    <3> HIDE DEF cache
    <3> QED
      BY <3>2, <3>3, KeepsSound, HoldsEach DEF CommandInv, Terminal!Personal
  <2> QED
    BY <1>2, <2>1, <2>2 DEF Terminal!Scmdb
<1>3. CASE Terminal!Render(t)
  <2> DEFINE seen == run[t].seen
             scoped == "channel" \in run[t].flags \/ seen.cache.scoped
             Layer(version) == IF scoped THEN version ELSE None
             text == [build |-> seen.cache.build, owned |-> Layer(seen.owned),
                      pack |-> Layer(seen.pack), user |-> Layer(seen.user)]
  <2>1. CASE \E code : Terminal!Leaves(t, code)
    BY <2>1, LeavesSound
  <2>2. ASSUME NEW code, seen.cache # None, Terminal!Ends(t, code),
               files' = [files EXCEPT !.rendered = text]
        PROVE  StepIsSound(t)
    <3>1. seen.cache \in [build : 0 .. 2, scoped : BOOLEAN] /\ seen.owned \in Nat
          /\ seen.pack \in Terminal!Versions /\ seen.user \in Terminal!Versions
      BY <1>3, <2>2, Shown DEF Terminal!Render, Terminal!Inputs, FileValues
    <3>2. text \in FileValues.rendered
      BY <3>1 DEF FileValues, Terminal!Renders, Terminal!Layers
    <3> HIDE DEF text
    <3>3. Holds(files')
      BY <2>2, <3>2, HoldsWith DEF CommandInv
    <3> QED
      BY <2>2, <3>3, KeepsSound, HoldsEach DEF CommandInv, Terminal!Personal
  <2> QED
    BY <1>3, <2>1, <2>2 DEF Terminal!Render
<1>4. CASE Terminal!Stock(t)
  <2>1. PICK v : Terminal!Ends(t, "ok") /\ files' = [files EXCEPT !.out = v]
    BY <1>4 DEF Terminal!Stock, Terminal!Writes
  <2>2. Holds(files')
    BY <2>1, HoldsWith DEF CommandInv
  <2> QED
    BY <2>1, <2>2, KeepsSound, HoldsEach DEF CommandInv, Terminal!Personal
<1> QED
  BY <1>1, <1>2, <1>3, <1>4 DEF Terminal!Reading

\* A command that was confirmed writes a store of its own.
LEMMA StoreSound ==
  ASSUME CommandInv, NEW t \in AllTerminals, Terminal!Ends(t, "ok"), run[t].confirm,
         \/ \E v \in FileValues.user : files' = [files EXCEPT !.user = v]
         \/ \E v \in FileValues.pack : files' = [files EXCEPT !.pack = v]
         \/ \E v \in FileValues.owned : files' = [files EXCEPT !.owned = v]
         \/ \E v \in FileValues.cfg : files' = [files EXCEPT !.cfg = v]
         \/ \E v \in FileValues.settings : files' = [files EXCEPT !.settings = v]
         \/ \E v : files' = [files EXCEPT !.out = v]
  PROVE  StepIsSound(t)
<1>1. Holds(files')
  BY HoldsWith DEF CommandInv
<1>2. files'.plan = files.plan /\ files'.override = files.override
  BY HoldsEach DEF CommandInv
<1> QED
  BY <1>1, <1>2, WriteSound

LEMMA StoresSound ==
  ASSUME CommandInv, NEW t \in AllTerminals, Terminal!Stores(t)
  PROVE  StepIsSound(t)
<1> USE DEF Terminal!Replaces, Terminal!Writes, Terminal!Confirmed
<1>1. CASE Terminal!UserSet(t)
  <2>1. CASE \E code : Terminal!Leaves(t, code)
    BY <2>1, LeavesSound
  <2>2. CASE run[t].confirm /\ \E version \in 0 .. 1 : Terminal!Writes(t, "user", version)
    <3>1. PICK version \in FileValues.user :
            Terminal!Ends(t, "ok") /\ files' = [files EXCEPT !.user = version]
      BY <2>2 DEF FileValues, Terminal!Versions
    <3> QED
      BY <2>2, <3>1, StoreSound
  <2> QED
    BY <1>1, <2>1, <2>2 DEF Terminal!UserSet
<1>2. ASSUME NEW name \in {"user-undo", "user-import", "delta-pack-import"},
             Terminal!Doing(t, name),
             \/ \E code : Terminal!Leaves(t, code)
             \/ run[t].confirm /\ Terminal!Writes(t, "user", Terminal!Other(run[t].seen.user))
      PROVE  StepIsSound(t)
  <2>1. CASE \E code : Terminal!Leaves(t, code)
    BY <2>1, LeavesSound
  <2>2. CASE run[t].confirm /\ Terminal!Writes(t, "user", Terminal!Other(run[t].seen.user))
    <3>1. run[t].seen.user \in 0 .. 1
      <4>1. "user" \in Terminal!Inputs(name) /\ FileValues.user = 0 .. 1
        BY <1>2 DEF Terminal!Inputs, FileValues, Terminal!Versions
      <4>2. \A f \in Terminal!Inputs(name) : run[t].seen[f] \in FileValues[f]
        BY <1>2, Shown
      <4> QED
        BY <4>1, <4>2
    <3>2. Terminal!Other(run[t].seen.user) \in FileValues.user
      <4>1. FileValues.user = 0 .. 1
        BY DEF FileValues, Terminal!Versions
      <4>2. \A v \in 0 .. 1 : Terminal!Other(v) \in 0 .. 1
        BY DEF Terminal!Other
      <4> QED
        BY <3>1, <4>1, <4>2
    <3> QED
      BY <2>2, <3>2, StoreSound
  <2> QED
    BY <1>2, <2>1, <2>2
<1>3. CASE Terminal!UserUndo(t)
  BY <1>2, <1>3 DEF Terminal!UserUndo
<1>4. CASE Terminal!UserImport(t) \/ Terminal!DeltaPackImport(t)
  BY <1>2, <1>4 DEF Terminal!UserImport, Terminal!DeltaPackImport, Terminal!ImportsEdits
<1>5. CASE Terminal!LanguagesImport(t)
  <2>1. CASE \E code : Terminal!Leaves(t, code)
    BY <2>1, LeavesSound
  <2>2. CASE run[t].confirm /\ \E version \in 0 .. 1 : Terminal!Writes(t, "pack", version)
    <3>1. PICK version \in FileValues.pack :
            Terminal!Ends(t, "ok") /\ files' = [files EXCEPT !.pack = version]
      BY <2>2 DEF FileValues, Terminal!Versions
    <3> QED
      BY <2>2, <3>1, StoreSound
  <2> QED
    BY <1>5, <2>1, <2>2 DEF Terminal!LanguagesImport
<1>6. ASSUME NEW name \in {"blueprints-mark", "blueprints-scan"},
             Terminal!Doing(t, name),
             \/ \E code : Terminal!Leaves(t, code)
             \/ run[t].confirm /\ Terminal!Writes(t, "owned", run[t].seen.owned + 1)
      PROVE  StepIsSound(t)
  <2>1. CASE \E code : Terminal!Leaves(t, code)
    BY <2>1, LeavesSound
  <2>2. CASE run[t].confirm /\ Terminal!Writes(t, "owned", run[t].seen.owned + 1)
    <3>1. run[t].seen.owned \in Nat
      <4>1. "owned" \in Terminal!Inputs(name) /\ FileValues.owned = Nat
        BY <1>6 DEF Terminal!Inputs, FileValues
      <4>2. \A f \in Terminal!Inputs(name) : run[t].seen[f] \in FileValues[f]
        BY <1>6, Shown
      <4> QED
        BY <4>1, <4>2
    <3>2. run[t].seen.owned + 1 \in FileValues.owned
      <4>1. FileValues.owned = Nat
        BY DEF FileValues
      <4>2. \A v \in Nat : v + 1 \in Nat
        OBVIOUS
      <4> QED
        BY <3>1, <4>1, <4>2
    <3> QED
      BY <2>2, <3>2, StoreSound
  <2> QED
    BY <1>6, <2>1, <2>2
<1>7. CASE Terminal!BlueprintsMark(t)
  BY <1>6, <1>7 DEF Terminal!BlueprintsMark
<1>8. CASE Terminal!BlueprintsScan(t)
  BY <1>6, <1>8 DEF Terminal!BlueprintsScan
<1>9. CASE Terminal!SettingsImport(t)
  <2>1. CASE \E code : Terminal!Leaves(t, code)
    BY <2>1, LeavesSound
  <2>2. CASE run[t].confirm /\ \E version \in 0 .. 1 : Terminal!Writes(t, "settings", version)
    <3>1. PICK version \in FileValues.settings :
            Terminal!Ends(t, "ok") /\ files' = [files EXCEPT !.settings = version]
      BY <2>2 DEF FileValues, Terminal!Versions
    <3> QED
      BY <2>2, <3>1, StoreSound
  <2> QED
    BY <1>9, <2>1, <2>2 DEF Terminal!SettingsImport
<1> QED
  BY <1>1, <1>3, <1>4, <1>5, <1>7, <1>8, <1>9 DEF Terminal!Stores

LEMMA ExportsSound ==
  ASSUME CommandInv, NEW t \in AllTerminals, Terminal!Exports(t)
  PROVE  StepIsSound(t)
<1>1. ASSUME NEW name, NEW file, NEW checksFirst, Terminal!Export(t, name, file, checksFirst)
      PROVE  StepIsSound(t)
  <2>1. CASE \E code : Terminal!Leaves(t, code)
    BY <2>1, LeavesSound
  <2>2. CASE run[t].confirm /\ \E v : Terminal!Writes(t, "out", v)
    BY <2>2, StoreSound DEF Terminal!Writes
  <2> QED
    BY <1>1, <2>1, <2>2 DEF Terminal!Export, Terminal!Confirmed
<1> QED
  BY <1>1 DEF Terminal!Exports, Terminal!DeltaPackExport, Terminal!SettingsExport,
              Terminal!DiagnosticsExport, Terminal!BlueprintsExport

LEMMA PartChanged ==
  ASSUME NEW r, IsCommand(r), NEW part \in Parts, NEW v
  PROVE  LET q == [r EXCEPT ![part] = v]
         IN  /\ IsCommand(q)
             /\ q[part] = v
             /\ \A p \in Parts \ {part} : q[p] = r[p]
BY DEF IsCommand

Advance(r, step, text) == [r EXCEPT !.step = step, !.text = text]

LEMMA Advanced ==
  ASSUME NEW r, IsCommand(r), NEW step, NEW text
  PROVE  /\ IsCommand(Advance(r, step, text))
         /\ Advance(r, step, text).name = r.name
         /\ Advance(r, step, text).flags = r.flags
         /\ Advance(r, step, text).step = step
         /\ Advance(r, step, text).text = text
<1> DEFINE q1 == [r EXCEPT !.step = step]
           q2 == [q1 EXCEPT !.text = text]
<1>1. /\ IsCommand(q1) /\ q1["step"] = step
      /\ \A p \in Parts \ {"step"} : q1[p] = r[p]
  BY PartChanged DEF Parts
<1> HIDE DEF q1
<1>2. /\ IsCommand(q2) /\ q2["text"] = text
      /\ \A p \in Parts \ {"text"} : q2[p] = q1[p]
  BY <1>1, PartChanged DEF Parts
<1>3. q2 = Advance(r, step, text)
  BY DEF q1, Advance
<1> HIDE DEF q2
<1> QED
  BY <1>1, <1>2, <1>3 DEF Parts

LEMMA PrepareSound ==
  ASSUME CommandInv, NEW t \in AllTerminals, Terminal!PrepareText(t) \/ Terminal!PreparePlan(t)
  PROVE  StepIsSound(t)
<1>1. ASSUME NEW r, CommandTyped(r), CommitIsAllowed(r), run' = [run EXCEPT ![t] = r],
             UNCHANGED << files, promised >>
      PROVE  StepIsSound(t)
  <2>1. RunsTyped' /\ run'[t] = r /\ \A u \in AllTerminals \ {t} : run'[u] = run[u]
    BY <1>1, RunBecomes DEF CommandInv
  <2>2. CommandInv'
    BY <1>1, <2>1 DEF CommandInv, CommitsAllowed, CommitIsAllowed, PromisesKept
  <2> QED
    BY <1>1, <2>1, <2>2 DEF StepIsSound, SuccessChanges, PromiseIsKept
<1>2. CommandTyped(run[t]) /\ IsCommand(run[t])
  BY DEF CommandInv, RunsTyped, CommandTyped
<1>3. CASE Terminal!PrepareText(t)
  <2> DEFINE text == [rendered |-> files.rendered,
                      user |-> IF "no-user-edits" \in run[t].flags THEN files.rendered.user
                               ELSE files.user]
             r == Advance(run[t], "prepare", text)
  <2>1. CASE \E code : Terminal!Leaves(t, code)
    BY <2>1, LeavesSound
  <2>2. CASE run' = [run EXCEPT ![t] = r] /\ UNCHANGED << files, promised >>
    <3>1. files.rendered \in Terminal!Renders /\ files.user \in Terminal!Versions
      BY HoldsEach DEF CommandInv
    <3>2. text \in Terminal!Values
      BY <3>1 DEF Terminal!Values, Terminal!Renders, Terminal!Layers
    <3> HIDE DEF text
    <3>3. IsCommand(r) /\ r.name = run[t].name /\ r.flags = run[t].flags
          /\ r.step = "prepare" /\ r.text = text
      BY <1>2, Advanced
    <3> HIDE DEF r
    <3>4. CommandTyped(r) /\ CommitIsAllowed(r)
      BY <1>2, <1>3, <3>2, <3>3 DEF CommandTyped, CommitIsAllowed, Terminal!PrepareText
    <3> QED
      BY <1>1, <2>2, <3>4
  <2> QED
    BY <1>3, <2>1, <2>2 DEF Terminal!PrepareText, Advance
<1>4. CASE Terminal!PreparePlan(t)
  <2> DEFINE before == files.override
             text   == [build |-> IF before = None THEN files.archive ELSE before.text.build,
                        values |-> run[t].text]
             plan   == [before |-> before, desired |-> text]
             q      == Advance(run[t], "shown", << >>)
             r      == [q EXCEPT !.plan = plan]
  <2>1. run' = [run EXCEPT ![t] = r] /\ UNCHANGED << files, promised >>
    BY <1>4 DEF Terminal!PreparePlan, Advance
  <2>2. before \in Terminal!Overrides /\ files.archive \in 1 .. 2
        /\ run[t].text \in Terminal!Values
    BY <1>2, <1>4, HoldsEach DEF CommandInv, CommandTyped, Terminal!PreparePlan
  <2>3. text \in Terminal!Texts
    BY <2>2 DEF Terminal!Overrides, Terminal!Texts
  <2>4. plan \in Terminal!Plans
    BY <2>2, <2>3 DEF Terminal!Plans
  <2> HIDE DEF plan
  <2>5. run[t].name \in Channelled /\ run[t].step = "prepare"
        /\ \A f \in Terminal!Inputs(run[t].name) : FALSE
    BY <1>2, <1>4 DEF CommandTyped, Terminal!PreparePlan, Channelled, Terminal!Inputs
  <2>6. IsCommand(q) /\ q.name = run[t].name /\ q.flags = run[t].flags
        /\ q.step = "shown"
    BY <1>2, Advanced
  <2> HIDE DEF q
  <2>7. IsCommand(r) /\ r.name = run[t].name /\ r.flags = run[t].flags
        /\ r.step = "shown" /\ r.plan = plan
    BY <2>6, PartChanged DEF Parts
  <2> HIDE DEF r
  <2>8. CommandTyped(r) /\ CommitIsAllowed(r)
    BY <1>2, <2>4, <2>5, <2>7 DEF CommandTyped, CommitIsAllowed
  <2> QED
    BY <1>1, <2>1, <2>8
<1> QED
  BY <1>3, <1>4

LEMMA WrittenKeeps ==
  ASSUME NEW f, Holds(f), NEW text, NEW backup
  PROVE  Terminal!Written(f, text, backup).plan = f.plan
BY HoldsEach DEF Terminal!Written

LEMMA WrittenReplaces ==
  ASSUME NEW f, Holds(f), NEW text, text # None, NEW backup
  PROVE  Terminal!Written(f, text, backup).override = [text |-> text, at |-> f.writes + 1]
BY HoldsEach DEF Terminal!Written

\* `channel preview` promises its plan.
LEMMA PreviewSound ==
  ASSUME CommandInv, NEW t \in AllTerminals, Terminal!ChannelPreview(t)
  PROVE  StepIsSound(t)
<1>1. PICK code : run' = [run EXCEPT ![t] = Terminal!Idle(code)]
  BY DEF Terminal!ChannelPreview
<1>2. /\ files' = [files EXCEPT !.plan = run[t].plan]
      /\ promised' = promised \union {run[t].plan}
  BY DEF Terminal!ChannelPreview
<1>3. run[t].plan \in Terminal!Plans
  BY Shown DEF Terminal!ChannelPreview, Channelled
<1>4. Holds(files')
  BY <1>2, <1>3, HoldsWith DEF CommandInv, FileValues
<1>5. /\ files'.plan = run[t].plan /\ files'.override = files.override
      /\ \A file \in Terminal!Personal : files'[file] = files[file]
  BY <1>2, HoldsEach DEF CommandInv, Terminal!Personal
<1>6. /\ RunsTyped' /\ run'[t] = Terminal!Idle(code)
      /\ \A u \in AllTerminals \ {t} : run'[u] = run[u]
  BY <1>1, IdleTyped, RunBecomes DEF CommandInv
<1>7. CommitsAllowed'
  BY <1>2, <1>6, IdleTyped DEF CommandInv, CommitsAllowed, CommitIsAllowed
<1>8. PromisesKept'
  BY <1>2, <1>5 DEF PromisesKept
<1> QED
  BY <1>4, <1>5, <1>6, <1>7, <1>8 DEF StepIsSound, CommandInv, SuccessChanges, PromiseIsKept

\* A command that goes on has what its next step needs, and the others stay.
LEMMA GoesOn ==
  ASSUME CommandInv, NEW t \in AllTerminals, NEW r, CommandTyped(r), CommitIsAllowed(r),
         run' = [run EXCEPT ![t] = r], promised' = promised,
         Holds(files'), files'.plan = files.plan
  PROVE  /\ CommandInv'
         /\ \A u \in AllTerminals \ {t} : run'[u] = run[u]
<1>1. RunsTyped' /\ run'[t] = r /\ \A u \in AllTerminals \ {t} : run'[u] = run[u]
  BY RunBecomes DEF CommandInv
<1>2. CommitsAllowed'
  <2> SUFFICES ASSUME NEW u \in AllTerminals
               PROVE  CommitIsAllowed(run[u])'
    BY DEF CommitsAllowed
  <2>1. CASE u = t
    <3>1. run'[u] = r
      BY <1>1, <2>1
    <3> QED
      BY <3>1 DEF CommitIsAllowed
  <2>2. CASE u # t
    <3>1. run'[u] = run[u] /\ CommitIsAllowed(run[u])
      BY <1>1, <2>2 DEF CommandInv, CommitsAllowed
    <3> QED
      BY <3>1 DEF CommitIsAllowed
  <2> QED
    BY <2>1, <2>2
<1> QED
  BY <1>1, <1>2 DEF CommandInv, PromisesKept

\* `channel apply --expect-plan` goes on to write only what was promised.
LEMMA ApplySound ==
  ASSUME CommandAssumed, CommandInv, NEW t \in AllTerminals, Terminal!ChannelApply(t)
  PROVE  StepIsSound(t)
<1>1. CASE \E code : Terminal!Leaves(t, code)
  BY <1>1, LeavesSound
<1>2. CASE \E code : Terminal!Ends(t, code) /\ files' = Terminal!Inspected(files, run[t].confirm)
  BY <1>2, InspectsSound
<1>3. ASSUME "expect-plan" \in run[t].flags => Terminal!Expected(files, run[t].plan),
             run[t].confirm, NEW step \in {"save", "commit"},
             run' = [run EXCEPT ![t].seen = [user |-> files.user], ![t].step = step],
             files' = Terminal!Inspected(files, TRUE),
             promised' = promised
      PROVE  StepIsSound(t)
  <2> DEFINE seen == [user |-> files.user]
             q == [run[t] EXCEPT !["seen"] = seen]
             r == [q EXCEPT !["step"] = step]
  <2>1. run[t].plan \in Terminal!Plans /\ run[t].name = "channel-apply"
        /\ run[t].name \in Channelled
        /\ run[t].flags \subseteq Terminal!Flags(run[t].name)
    BY Shown DEF Terminal!ChannelApply, Channelled, Terminal!Doing
  <2>2. IsCommand(run[t])
    BY DEF CommandInv, RunsTyped, CommandTyped
  <2>3. run' = [run EXCEPT ![t] = r]
    BY <1>3
  <2>4. seen.user \in Terminal!Versions
    BY HoldsEach DEF CommandInv
  <2> HIDE DEF seen
  <2>5. /\ IsCommand(q) /\ q["seen"] = seen
        /\ \A p \in Parts \ {"seen"} : q[p] = run[t][p]
    BY <2>2, PartChanged DEF Parts
  <2> HIDE DEF q
  <2>6. /\ IsCommand(r) /\ r["step"] = step
        /\ \A p \in Parts \ {"step"} : r[p] = q[p]
    BY <2>5, PartChanged DEF Parts
  <2> HIDE DEF r
  <2>7. /\ r.step = step /\ r.name = run[t].name /\ r.flags = run[t].flags
        /\ r.plan = run[t].plan /\ r.confirm = run[t].confirm /\ r.seen = seen
    BY <2>5, <2>6 DEF Parts
  <2>8. CommandTyped(r)
    BY <1>3, <2>1, <2>4, <2>6, <2>7 DEF CommandTyped
  <2>9. "expect-plan" \in run[t].flags => run[t].plan \in promised
    BY <1>3, <2>1 DEF CommandInv, PromisesKept, Terminal!Expected, CommandAssumed,
                      Terminal!CommandAssumption
  <2>10. CommitIsAllowed(r)
    BY <1>3, <2>7, <2>9 DEF CommitIsAllowed
  <2>11. Holds(files') /\ files'.plan = files.plan
         /\ \A file \in Terminal!Personal : files'[file] = files[file]
    BY <1>3, InspectedKeeps DEF CommandInv
  <2>12. CommandInv' /\ \A u \in AllTerminals \ {t} : run'[u] = run[u]
    BY <1>3, <2>3, <2>8, <2>10, <2>11, GoesOn
  <2> QED
    BY <2>11, <2>12 DEF StepIsSound, SuccessChanges, PromiseIsKept, Terminal!Personal
<1> QED
  BY <1>1, <1>2, <1>3 DEF Terminal!ChannelApply, Terminal!Confirmed

\* Then it puts user.ini back as it was loaded, and nothing else.
LEMMA SaveSound ==
  ASSUME CommandInv, NEW t \in AllTerminals, Terminal!SaveUser(t)
  PROVE  StepIsSound(t)
<1>1. CASE Terminal!Leaves(t, "error")
  BY <1>1, LeavesSound
<1>2. CASE /\ run' = [run EXCEPT ![t].step = "commit"]
           /\ files' = [files EXCEPT !.user = run[t].seen.user]
           /\ promised' = promised
  <2> DEFINE r == [run[t] EXCEPT !["step"] = "commit"]
  <2>1. /\ CommandTyped(run[t]) /\ CommitIsAllowed(run[t]) /\ IsCommand(run[t])
        /\ run[t].step = "save"
    BY DEF Terminal!SaveUser, CommandInv, RunsTyped, CommitsAllowed, CommandTyped
  <2>2. /\ run[t].name = "channel-apply" /\ run[t].seen.user \in Terminal!Versions
        /\ run[t].flags \subseteq Terminal!Flags(run[t].name)
        /\ run[t].name \in Channelled /\ run[t].plan \in Terminal!Plans
        /\ run[t].confirm
    BY <2>1 DEF CommandTyped, CommitIsAllowed, Channelled
  <2>3. run' = [run EXCEPT ![t] = r]
    BY <1>2
  <2>4. /\ IsCommand(r) /\ r["step"] = "commit"
        /\ \A p \in Parts \ {"step"} : r[p] = run[t][p]
    BY <2>1, PartChanged DEF Parts
  <2> HIDE DEF r
  <2>5. /\ r.step = "commit" /\ r.name = run[t].name /\ r.flags = run[t].flags
        /\ r.plan = run[t].plan /\ r.confirm = run[t].confirm
    BY <2>4 DEF Parts
  <2>6. CommandTyped(r) /\ CommitIsAllowed(r)
    BY <2>1, <2>2, <2>4, <2>5 DEF CommandTyped, CommitIsAllowed
  <2>7. Holds(files')
    BY <1>2, <2>2, HoldsWith DEF CommandInv, FileValues
  <2>8. files'.plan = files.plan /\ files'.override = files.override
    BY <1>2, HoldsEach DEF CommandInv
  <2>9. CommandInv' /\ \A u \in AllTerminals \ {t} : run'[u] = run[u]
    BY <1>2, <2>3, <2>6, <2>7, <2>8, GoesOn
  <2> QED
    BY <1>2, <2>2, <2>8, <2>9 DEF StepIsSound, SuccessChanges, PromiseIsKept,
                                  Terminal!PutsBack
<1> QED
  BY <1>1, <1>2 DEF Terminal!SaveUser

LEMMA CommitSound ==
  ASSUME CommandAssumed, CommandInv, NEW t \in AllTerminals, Terminal!Commit(t)
  PROVE  StepIsSound(t)
<1>1. CASE \E code : Terminal!Leaves(t, code)
  BY <1>1, LeavesSound
<1>2. CASE /\ files.override = run[t].plan.before
           /\ Terminal!Ends(t, "ok")
           /\ files' = Terminal!Written(files, run[t].plan.desired,
                                        Terminal!TextOf(files.override))
  <2> DEFINE desired == run[t].plan.desired
  <2>1. /\ run[t].plan \in Terminal!Plans
        /\ CommitIsAllowed(run[t]) /\ run[t].step = "commit"
    BY DEF Terminal!Commit, CommandInv, RunsTyped, CommandTyped, CommitsAllowed
  <2>2. /\ desired \in Terminal!Texts
        /\ run[t].plan = [before |-> files.override, desired |-> desired]
    BY <1>2, <2>1 DEF Terminal!Plans
  <2>3. files.override \in Terminal!Overrides /\ files.writes \in Nat
    BY HoldsEach DEF CommandInv
  <2> HIDE DEF desired
  <2>4. Holds(files') /\ files'.plan = files.plan
    <3>1. Terminal!TextOf(files.override) \in Terminal!Texts \union {None}
      BY <2>3, TextsOf
    <3>2. files' = Terminal!Written(files, desired, Terminal!TextOf(files.override))
      BY <1>2 DEF desired
    <3>3. Holds(files) /\ desired \in Terminal!Texts \union {None}
      BY <2>2 DEF CommandInv
    <3>4. Holds(files')
      BY <3>1, <3>2, <3>3, HoldsWritten
    <3> QED
      BY <3>2, <3>3, <3>4, WrittenKeeps
  <2>5. files'.override = [text |-> desired, at |-> files.writes + 1]
    <3>1. desired # None
      BY <2>2 DEF CommandAssumed, Terminal!CommandAssumption
    <3> QED
      BY <1>2, <3>1, WrittenReplaces DEF CommandInv, desired
  <2>6. Terminal!TextOf(files'.override) = desired
    <3>1. [text |-> desired, at |-> files.writes + 1] \in [text : Terminal!Texts, at : Nat]
      BY <2>2, <2>3
    <3>2. files'.override # None
      BY <2>5, <3>1 DEF CommandAssumed, Terminal!CommandAssumption
    <3> QED
      BY <2>5, <3>2 DEF Terminal!TextOf
  <2>7. PromiseIsKept(t)
    BY <2>1, <2>2, <2>6 DEF PromiseIsKept, CommitIsAllowed
  <2> QED
    BY <1>2, <2>1, <2>4, <2>7, EndsSound DEF StepIsSound, SuccessChanges, CommitIsAllowed
<1> QED
  BY <1>1, <1>2 DEF Terminal!Commit

\* A confirmed command without a promise writes the override.
LEMMA OverrideSound ==
  ASSUME CommandInv, NEW t \in AllTerminals, NEW name, Terminal!Doing(t, name),
         name # "channel-apply", run[t].confirm, Terminal!Ends(t, "ok"),
         NEW text \in Terminal!Texts \union {None}, NEW backup \in Terminal!Texts \union {None},
         files' = Terminal!Written(Terminal!Inspected(files, TRUE), text, backup)
  PROVE  StepIsSound(t)
<1>1. ASSUME NEW f, Holds(f), f.plan = files.plan,
             files' = Terminal!Written(f, text, backup)
      PROVE  Holds(files') /\ files'.plan = files.plan
  <2>1. Holds(files')
    BY <1>1, HoldsWritten
  <2>2. Terminal!Written(f, text, backup).plan = f.plan
    BY <1>1, WrittenKeeps
  <2> QED
    BY <1>1, <2>1, <2>2
<1>2. Holds(Terminal!Inspected(files, TRUE)) /\ Terminal!Inspected(files, TRUE).plan = files.plan
  BY InspectedKeeps DEF CommandInv
<1>3. Holds(files') /\ files'.plan = files.plan
  BY <1>1, <1>2
<1>4. "expect-plan" \notin run[t].flags
  BY Shown, OnlyApplyExpects
<1> QED
  BY <1>3, <1>4, WriteSound

LEMMA RollbackSound ==
  ASSUME CommandInv, NEW t \in AllTerminals, NEW name \in {"channel-rollback", "restore"},
         Terminal!Rollback(t, name)
  PROVE  StepIsSound(t)
<1>1. CASE \E code : Terminal!Leaves(t, code)
  BY <1>1, LeavesSound
<1>2. CASE \E code : Terminal!Ends(t, code) /\ files' = Terminal!Inspected(files, run[t].confirm)
  BY <1>2, InspectsSound
<1>3. CASE /\ run[t].confirm /\ Terminal!Ends(t, "ok")
           /\ files' = Terminal!Written(Terminal!Inspected(files, TRUE), files.backup,
                                        Terminal!TextOf(files.override))
  <2>1. /\ files.backup \in Terminal!Texts \union {None}
        /\ Terminal!TextOf(files.override) \in Terminal!Texts \union {None}
    BY HoldsEach, TextsOf DEF CommandInv
  <2>2. Terminal!Doing(t, name) /\ name # "channel-apply"
    BY DEF Terminal!Rollback
  <2> QED
    BY <1>3, <2>1, <2>2, OverrideSound
<1> QED
  BY <1>1, <1>2, <1>3 DEF Terminal!Rollback, Terminal!Confirmed

LEMMA GameFilesSound ==
  ASSUME CommandAssumed, CommandInv, NEW t \in AllTerminals, Terminal!GameFiles(t)
  PROVE  StepIsSound(t)
<1>1. CASE Terminal!Apply(t)
  <2> DEFINE text == [build |-> files.override.text.build,
                      values |-> [rendered |-> run[t].seen.rendered,
                                  user |-> run[t].seen.rendered.user]]
  <2>1. CASE \E code : Terminal!Leaves(t, code)
    BY <2>1, LeavesSound
  <2>2. CASE \E code : Terminal!Ends(t, code) /\ files' = Terminal!Inspected(files, TRUE)
    BY <2>2, InspectsSound
  <2>3. CASE /\ files.override # None /\ run[t].confirm /\ Terminal!Ends(t, "ok")
             /\ files' = Terminal!Written(Terminal!Inspected(files, TRUE), text,
                                          Terminal!TextOf(files.override))
    <3>1. Terminal!Doing(t, "apply") /\ "rendered" \in Terminal!Inputs("apply")
      BY <1>1 DEF Terminal!Apply, Terminal!Inputs
    <3>2. run[t].seen.rendered \in Terminal!Renders
      BY <3>1, Shown DEF FileValues
    <3>3. files.override \in [text : Terminal!Texts, at : Nat]
      BY <2>3, HoldsEach DEF CommandInv, Terminal!Overrides
    <3>4. text \in Terminal!Texts
      <4>1. files.override.text.build \in 0 .. 2
        BY <3>3 DEF Terminal!Texts
      <4>2. run[t].seen.rendered.user \in Terminal!Layers
        BY <3>2 DEF Terminal!Renders
      <4> QED
        BY <3>2, <4>1, <4>2 DEF Terminal!Texts, Terminal!Values
    <3> HIDE DEF text
    <3>5. Terminal!TextOf(files.override) \in Terminal!Texts \union {None}
      BY HoldsEach, TextsOf DEF CommandInv
    <3> QED
      BY <2>3, <3>1, <3>4, <3>5, OverrideSound
  <2> QED
    BY <1>1, <2>1, <2>2, <2>3 DEF Terminal!Apply, Terminal!Confirmed
<1>2. CASE Terminal!ChannelRollback(t)
  BY <1>2, RollbackSound DEF Terminal!ChannelRollback
<1>3. CASE Terminal!Restore(t)
  BY <1>3, RollbackSound, LeavesSound DEF Terminal!Restore
<1>4. CASE Terminal!RestoreStock(t)
  <2>1. CASE \E code : Terminal!Leaves(t, code)
    BY <2>1, LeavesSound
  <2>2. CASE /\ run[t].seen.override # None /\ run[t].confirm /\ Terminal!Ends(t, "ok")
             /\ files' = Terminal!Written(Terminal!Inspected(files, TRUE), None,
                                          run[t].seen.override.text)
    <3>1. Terminal!Doing(t, "languages-restore-stock")
          /\ "override" \in Terminal!Inputs("languages-restore-stock")
      BY <1>4 DEF Terminal!RestoreStock, Terminal!Inputs
    <3>2. run[t].seen.override \in Terminal!Overrides
      BY <3>1, Shown DEF FileValues
    <3>3. run[t].seen.override.text \in Terminal!Texts \union {None}
      BY <2>2, <3>2 DEF Terminal!Overrides
    <3> QED
      BY <2>2, <3>1, <3>3, OverrideSound
  <2> QED
    BY <1>4, <2>1, <2>2 DEF Terminal!RestoreStock, Terminal!Confirmed
<1>5. CASE Terminal!Activate(t)
  <2>1. PICK language \in 0 .. 1 :
          \/ \E code : Terminal!Leaves(t, code)
          \/ run[t].confirm /\ Terminal!Writes(t, "cfg", language)
    BY <1>5 DEF Terminal!Activate, Terminal!Confirmed, Terminal!Replaces
  <2>2. language \in FileValues.cfg
    BY DEF FileValues, Terminal!Versions
  <2> QED
    BY <2>1, <2>2, LeavesSound, StoreSound DEF Terminal!Writes
<1> QED
  BY <1>1, <1>2, <1>3, <1>4, <1>5, PrepareSound, PreviewSound, ApplySound,
     SaveSound, CommitSound
     DEF Terminal!GameFiles

-----------------------------------------------------------------------------
\* A command starts with what it reads.
LEMMA StartSound ==
  ASSUME CommandInv, NEW t \in AllTerminals, Terminal!Start(t)
  PROVE  CommandInv' /\ \A u \in AllTerminals \ {t} : run'[u] = run[u]
<1>1. PICK name, confirm, flags :
        /\ flags \subseteq Terminal!Flags(name)
        /\ run' = [run EXCEPT ![t] = [Terminal!Idle("ok") EXCEPT
                  !.name = name, !.confirm = confirm, !.flags = flags,
                  !.step = IF name \in Channelled THEN "read" ELSE "shown",
                  !.seen = [f \in Terminal!Inputs(name) |-> files[f]]]]
  BY DEF Terminal!Start, Channelled
<1> DEFINE step == IF name \in Channelled THEN "read" ELSE "shown"
           seen == [f \in Terminal!Inputs(name) |-> files[f]]
           q0 == Terminal!Idle("ok")
           q1 == [q0 EXCEPT !.name = name]
           q2 == [q1 EXCEPT !.confirm = confirm]
           q3 == [q2 EXCEPT !.flags = flags]
           q4 == [q3 EXCEPT !.step = step]
           r  == [q4 EXCEPT !.seen = seen]
<1>2. run' = [run EXCEPT ![t] = r]
  BY <1>1
<1>3. \A f \in Terminal!Inputs(name) : seen[f] \in FileValues[f]
  BY InputsAreFiles DEF CommandInv, Holds
<1>4. step \in {"read", "shown"} /\ (step = "read" <=> name \in Channelled)
  OBVIOUS
<1> HIDE DEF step, seen
<1>5. /\ IsCommand(r) /\ r.name = name /\ r.flags = flags /\ r.step = step
      /\ r.seen = seen
  <2>0. IsCommand(q0)
    BY IdleTyped DEF CommandTyped
  <2> HIDE DEF q0
  <2>1. IsCommand(q1) /\ q1["name"] = name
    BY <2>0, PartChanged DEF Parts
  <2> HIDE DEF q1
  <2>2. IsCommand(q2) /\ q2["name"] = name
    BY <2>1, PartChanged DEF Parts
  <2> HIDE DEF q2
  <2>3. IsCommand(q3) /\ q3["name"] = name /\ q3["flags"] = flags
    BY <2>2, PartChanged DEF Parts
  <2> HIDE DEF q3
  <2>4. IsCommand(q4) /\ q4["name"] = name /\ q4["flags"] = flags /\ q4["step"] = step
    BY <2>3, PartChanged DEF Parts
  <2> HIDE DEF q4
  <2> QED
    BY <2>4, PartChanged DEF Parts
<1> HIDE DEF r
<1>6. CommandTyped(r) /\ r.step \notin {"save", "commit"}
  BY <1>1, <1>3, <1>4, <1>5 DEF CommandTyped
<1>7. RunsTyped' /\ run'[t] = r /\ \A u \in AllTerminals \ {t} : run'[u] = run[u]
  BY <1>2, <1>6, RunBecomes DEF CommandInv
<1>8. UNCHANGED << files, promised >>
  BY DEF Terminal!Start
<1>9. CommitsAllowed'
  BY <1>6, <1>7, <1>8 DEF CommandInv, CommitsAllowed, CommitIsAllowed
<1> QED
  BY <1>7, <1>8, <1>9 DEF CommandInv, PromisesKept

\* Other programs write the game's files, and no plan.
LEMMA OutsideSound ==
  ASSUME CommandInv, Terminal!Patch \/ Terminal!OutsideWrite \/ Terminal!Interrupted
  PROVE  CommandInv' /\ run' = run
<1>1. UNCHANGED << run, promised >>
  BY DEF Terminal!Patch, Terminal!OutsideWrite, Terminal!Interrupted, Terminal!Outside
<1>2. ASSUME Holds(files'), files'.plan = files.plan
      PROVE  CommandInv'
  BY <1>1, <1>2 DEF CommandInv, RunsTyped, CommitsAllowed, CommitIsAllowed, PromisesKept
<1>3. CASE Terminal!Patch
  <2>1. files' = [files EXCEPT !.archive = 2] /\ 2 \in FileValues.archive
    BY <1>3 DEF Terminal!Patch, FileValues
  <2>2. Holds(files')
    BY <2>1, HoldsWith DEF CommandInv
  <2>3. files'.plan = files.plan
    BY <2>1, HoldsEach DEF CommandInv
  <2> QED
    BY <1>1, <1>2, <2>2, <2>3
<1>4. CASE Terminal!OutsideWrite
  <2> DEFINE text == [build |-> files.archive, values |-> None]
  <2>1. files' = Terminal!Written(files, text, None)
    BY <1>4 DEF Terminal!OutsideWrite
  <2>2. text \in Terminal!Texts
    BY HoldsEach DEF CommandInv, Terminal!Texts
  <2> HIDE DEF text
  <2>3. Holds(files')
    BY <2>1, <2>2, HoldsWritten DEF CommandInv
  <2>4. files'.plan = files.plan
    BY <2>1, WrittenKeeps DEF CommandInv
  <2> QED
    BY <1>1, <1>2, <2>3, <2>4
<1>5. CASE Terminal!Interrupted
  <2> DEFINE text  == [build |-> files.archive,
                       values |-> [rendered |-> files.rendered, user |-> files.user]]
             begun == [files EXCEPT !.journal = [before |-> files.override, after |-> text]]
  <2>1. files' \in {begun, Terminal!Written(begun, text, Terminal!TextOf(files.override))}
    BY <1>5 DEF Terminal!Interrupted
  <2>2. /\ files.archive \in 1 .. 2 /\ files.rendered \in Terminal!Renders
        /\ files.user \in Terminal!Versions /\ files.override \in Terminal!Overrides
    BY HoldsEach DEF CommandInv
  <2>3. text \in Terminal!Texts
    BY <2>2 DEF Terminal!Texts, Terminal!Values, Terminal!Layers
  <2> HIDE DEF text
  <2>4. [before |-> files.override, after |-> text] \in FileValues.journal
    BY <2>2, <2>3 DEF FileValues
  <2>5. Holds(begun)
    BY <2>4, HoldsWith DEF CommandInv
  <2>6. begun.plan = files.plan
    BY HoldsEach DEF CommandInv
  <2> HIDE DEF begun
  <2>7. CASE files' = begun
    BY <1>1, <1>2, <2>5, <2>6, <2>7
  <2>8. CASE files' = Terminal!Written(begun, text, Terminal!TextOf(files.override))
    <3>1. Terminal!TextOf(files.override) \in Terminal!Texts \union {None}
      BY <2>2, TextsOf
    <3>2. Holds(files')
      BY <2>3, <2>5, <2>8, <3>1, HoldsWritten
    <3>3. files'.plan = files.plan
      BY <2>5, <2>6, <2>8, WrittenKeeps
    <3> QED
      BY <1>1, <1>2, <3>2, <3>3
  <2> QED
    BY <2>1, <2>7, <2>8
<1> QED
  BY <1>1, <1>3, <1>4, <1>5

-----------------------------------------------------------------------------
LEMMA CommandInit == Terminal!Init => CommandInv
<1> SUFFICES ASSUME Terminal!Init
             PROVE  CommandInv
  OBVIOUS
<1>1. Holds(files)
  <2>1. files = [archive |-> 1, cache |-> [build |-> 1, scoped |-> TRUE],
                 rendered |-> [build |-> 1, owned |-> 0, pack |-> 0, user |-> 0],
                 plan |-> None, user |-> 0, pack |-> 0, owned |-> 0, override |-> None,
                 backup |-> None, journal |-> None, cfg |-> 0, settings |-> 0, out |-> None,
                 writes |-> 0]
    BY DEF Terminal!Init
  <2>2. [build |-> 1, scoped |-> TRUE] \in [build : 0 .. 2, scoped : BOOLEAN]
    OBVIOUS
  <2>3. [build |-> 1, owned |-> 0, pack |-> 0, user |-> 0] \in Terminal!Renders
    BY DEF Terminal!Renders, Terminal!Layers, Terminal!Versions
  <2>4. /\ files.archive = 1 /\ files.plan = None /\ files.user = 0 /\ files.pack = 0
        /\ files.cache = [build |-> 1, scoped |-> TRUE]
        /\ files.rendered = [build |-> 1, owned |-> 0, pack |-> 0, user |-> 0]
        /\ files.owned = 0 /\ files.override = None /\ files.backup = None
        /\ files.journal = None /\ files.cfg = 0 /\ files.settings = 0 /\ files.out = None
        /\ files.writes = 0
    BY <2>1
  <2>5. files = [archive |-> files.archive, cache |-> files.cache, rendered |-> files.rendered,
                 plan |-> files.plan, user |-> files.user, pack |-> files.pack,
                 owned |-> files.owned, override |-> files.override, backup |-> files.backup,
                 journal |-> files.journal, cfg |-> files.cfg, settings |-> files.settings,
                 out |-> files.out, writes |-> files.writes]
    BY <2>1, <2>4
  <2> QED
    <3>1. files.cache \in [build : 0 .. 2, scoped : BOOLEAN] \union {None}
      BY <2>2, <2>4
    <3>2. /\ files.plan \in Terminal!Plans \union {None}
          /\ files.override \in Terminal!Overrides
          /\ files.backup \in Terminal!Texts \union {None}
          /\ files.journal \in [before : Terminal!Overrides, after : Terminal!Texts] \union {None}
      BY <2>4 DEF Terminal!Overrides
    <3>3. /\ files.archive \in 1 .. 2 /\ files.owned \in Nat /\ files.writes \in Nat
          /\ files.user \in 0 .. 1 /\ files.pack \in 0 .. 1 /\ files.cfg \in 0 .. 1
          /\ files.settings \in 0 .. 1
      BY <2>4
    <3>4. files.rendered \in Terminal!Renders
      BY <2>3, <2>4
    <3> QED
      BY <2>5, <3>1, <3>2, <3>3, <3>4, HoldsEach DEF Terminal!Versions
<1>2. run = [t \in AllTerminals |-> Terminal!Idle("ok")] /\ files.plan = None
  BY DEF Terminal!Init, AllTerminals
<1>3. RunsTyped /\ CommitsAllowed
  BY <1>2, IdleTyped DEF RunsTyped, CommitsAllowed, CommitIsAllowed
<1> QED
  BY <1>1, <1>2, <1>3 DEF CommandInv, PromisesKept

LEMMA CommandStep ==
  ASSUME CommandAssumed, CommandInv, [Terminal!Next]_terminalVars
  PROVE  CommandInv' /\ Terminal!OnlySuccessChanges /\ Terminal!ExpectedPlanIsWritten
<1>1. ASSUME run' = run, CommandInv'
      PROVE  CommandInv' /\ Terminal!OnlySuccessChanges /\ Terminal!ExpectedPlanIsWritten
  BY <1>1 DEF Terminal!OnlySuccessChanges, Terminal!ExpectedPlanIsWritten, Terminal!Stepping
<1>2. CASE UNCHANGED terminalVars
  BY <1>1, <1>2 DEF terminalVars, CommandInv, RunsTyped, CommitsAllowed, CommitIsAllowed,
                    PromisesKept
<1>3. CASE Terminal!Patch \/ Terminal!OutsideWrite \/ Terminal!Interrupted
  BY <1>1, <1>3, OutsideSound
<1>4. ASSUME NEW t \in AllTerminals, Terminal!Start(t)
      PROVE  CommandInv' /\ Terminal!OnlySuccessChanges /\ Terminal!ExpectedPlanIsWritten
  <2>1. CommandInv' /\ \A u \in AllTerminals \ {t} : run'[u] = run[u]
    BY <1>4, StartSound
  <2>2. run[t].name = None
    BY <1>4 DEF Terminal!Start
  <2> QED
    BY <2>1, <2>2 DEF Terminal!OnlySuccessChanges, Terminal!ExpectedPlanIsWritten,
                      Terminal!Stepping, AllTerminals
<1>5. ASSUME NEW t \in AllTerminals, StepIsSound(t)
      PROVE  CommandInv' /\ Terminal!OnlySuccessChanges /\ Terminal!ExpectedPlanIsWritten
  BY <1>5 DEF StepIsSound, SuccessChanges, PromiseIsKept, Terminal!OnlySuccessChanges,
              Terminal!ExpectedPlanIsWritten, Terminal!Stepping, Terminal!Confirmed, Terminal!Changes, AllTerminals
<1>6. ASSUME NEW t \in AllTerminals,
             Terminal!Reading(t) \/ Terminal!GameFiles(t) \/ Terminal!Stores(t) \/ Terminal!Exports(t)
      PROVE  StepIsSound(t)
  BY <1>6, ReadingSound, GameFilesSound, StoresSound, ExportsSound
<1>7. CASE Terminal!Next
  BY <1>3, <1>4, <1>5, <1>6, <1>7 DEF Terminal!Next, AllTerminals
<1> QED
  BY <1>2, <1>7


updateVars == << vars, subject, sample, terminalVars >>

LEMMA TerminalVars == UNCHANGED terminalVars <=> UNCHANGED Terminal!vars
BY DEF terminalVars, Terminal!vars

\* What the commands are shown to do, as one step.
CommandsAreSound == Terminal!OnlySuccessChanges /\ Terminal!ExpectedPlanIsWritten

LEMMA CommandsKeepTheInvariant ==
  ASSUME CommandAssumed
  PROVE  UpdateSpec => [][CommandsAreSound]_terminalVars
<1>1. UpdateInit => CommandInv
  BY CommandInit DEF UpdateInit
<1>2. CommandInv /\ [UpdateNext]_updateVars => CommandInv'
  <2>1. [UpdateNext]_updateVars => [Terminal!Next]_terminalVars
    BY DEF UpdateNext, updateVars
  <2> QED
    BY <2>1, CommandStep
<1>3. CommandInv /\ [UpdateNext]_updateVars => [CommandsAreSound]_terminalVars
  <2>1. [UpdateNext]_updateVars => [Terminal!Next]_terminalVars
    BY DEF UpdateNext, updateVars
  <2> QED
    BY <2>1, CommandStep DEF CommandsAreSound
<1> QED
  BY <1>1, <1>2, <1>3, PTL DEF UpdateSpec, updateVars

LEMMA CommandsAssumed == CommandAssumed
BY CommandConstants DEF CommandAssumed

\* Only a confirmed command changes a store of the user, in its last step and
\* with success, whatever the other terminals and programs did meanwhile; so a
\* command that fails has changed no store in any of its steps, but for the
\* user.ini that `channel apply` puts back before its commit.
THEOREM StoresChangeWithSuccess == UpdateSpec => OnlySuccessChanges
<1>1. [CommandsAreSound]_terminalVars => [Terminal!OnlySuccessChanges]_terminalVars
  BY DEF CommandsAreSound
<1> QED
  BY <1>1, CommandsAssumed, CommandsKeepTheInvariant, PTL DEF OnlySuccessChanges

\* `channel apply --expect-plan` writes only a text that a preview promised,
\* over the very file the preview was made for.
THEOREM PromisesAreKept == UpdateSpec => ExpectedPlanIsWritten
<1>1. [CommandsAreSound]_terminalVars => [Terminal!ExpectedPlanIsWritten]_terminalVars
  BY DEF CommandsAreSound
<1> QED
  BY <1>1, CommandsAssumed, CommandsKeepTheInvariant, PTL DEF ExpectedPlanIsWritten

-----------------------------------------------------------------------------
\* The run's behaviours are behaviours of the Overview tab.
LEMMA UpdateRunsJobs == UpdateSpec => Spec
<1>1. UpdateInit => Init
  BY DEF UpdateInit
<1>2. [UpdateNext]_updateVars => [Next]_vars
  BY DEF UpdateNext, updateVars
<1> QED
  BY <1>1, <1>2, PTL DEF UpdateSpec, updateVars, Spec

\* One worker at a time, and contracts of the selection only, in the run's own
\* behaviours.
THEOREM TabIsConsistent == UpdateSpec => [](OneWorkerAtATime /\ ContractsMatchSelection)
BY UpdateRunsJobs, OneWorker, ContractsAreOfSelection, PTL

-----------------------------------------------------------------------------
(* Folds over sequences: the library defines FoldLeft and FlattenSeq by     *)
(* functions that are chosen; these lemmas say what they compute, by        *)
(* induction over the positions, from the fact that < is well founded on the*)
(* natural numbers.                                                         *)

\* A set of natural numbers with a member has a least one.
LEMMA SmallestNat ==
  ASSUME NEW T \in SUBSET Nat, T # {}
  PROVE  \E n \in T : \A m \in T : n <= m
<1>1. IsWellFoundedOn(OpToRel(<, Nat), Nat)
  BY NatLessThanWellFounded, Zenon
<1>2. PICK n \in T : \A m \in T : ~(<<m, n>> \in OpToRel(<, Nat))
  BY <1>1, WFMin, Zenon
<1>3. ASSUME NEW m \in T, ~(n <= m)
      PROVE  FALSE
  <2>1. m < n
    BY <1>3
  <2>2. <<m, n>> \in OpToRel(<, Nat)
    BY <2>1, Zenon DEF OpToRel
  <2> QED
    BY <2>2, <1>2, Zenon
<1> QED
  BY <1>3

\* A set with m that is closed under the next number holds all from m to n.
LEMMA FromTo ==
  ASSUME NEW T, NEW m \in Nat, NEW n \in Nat, m \in T,
         \A i \in m..n : i < n /\ i \in T => i + 1 \in T
  PROVE  m..n \subseteq T
<1> SUFFICES ASSUME (m..n) \ T # {} PROVE FALSE
  OBVIOUS
<1>1. PICK i \in (m..n) \ T : \A k \in (m..n) \ T : i <= k
  <2>1. (m..n) \ T \in SUBSET Nat
    OBVIOUS
  <2> QED
    BY <2>1, SmallestNat, Zenon
<1>2. i # m /\ i - 1 \in m..n
  BY <1>1
<1>3. i - 1 \in T
  BY <1>1, <1>2
<1> QED
  BY <1>1, <1>2, <1>3

\* A set with 0 that is closed under the next number holds all up to n.
LEMMA UpTo ==
  ASSUME NEW T, NEW n \in Nat, 0 \in T,
         \A i \in 0..n : i < n /\ i \in T => i + 1 \in T
  PROVE  0..n \subseteq T
BY FromTo

\* A finite set of numbers has a greatest one.
LEMMA MaxFact ==
  ASSUME NEW n \in Nat, NEW S \in SUBSET (0..n), S # {}
  PROVE  Max(S) \in S /\ \A y \in S : Max(S) >= y
<1> DEFINE T == {n - x : x \in S}
<1>1. T \in SUBSET Nat /\ T # {}
  <2>1. PICK x \in S : TRUE
    OBVIOUS
  <2>2. n - x \in T
    OBVIOUS
  <2>3. \A y \in S : n - y \in Nat
    OBVIOUS
  <2>4. T \in SUBSET Nat
    BY <2>3
  <2> HIDE DEF T
  <2> QED
    BY <2>2, <2>4
<1>2. PICK t \in T : \A u \in T : t <= u
  BY <1>1, SmallestNat
<1>3. PICK x \in S : t = n - x
  BY <1>2
<1>4. \A y \in S : x >= y
  <2> TAKE y \in S
  <2>1. n - y \in T
    OBVIOUS
  <2> QED
    BY <2>1, <1>2, <1>3
<1> QED
  BY <1>4 DEF Max

\* A function from 1 .. n is a sequence.
LEMMA FunctionIsSeq ==
  ASSUME NEW S, NEW n \in Nat, NEW f \in [1..n -> S]
  PROVE  f \in Seq(S) /\ Len(f) = n /\ DOMAIN f = 1..n
<1>1. f \in Seq(S)
  BY SeqDef
<1> QED
  BY <1>1, LenProperties

\* A sequence is one of its own elements.
LEMMA SeqOfItsOwn ==
  ASSUME NEW S, NEW s \in Seq(S)
  PROVE  s \in Seq(Range(s))
<1>1. Len(s) \in Nat /\ DOMAIN s = 1..Len(s)
  BY LenProperties
<1>2. s \in [1..Len(s) -> Range(s)]
  <2>1. s = [i \in 1..Len(s) |-> s[i]]
    BY SeqDef
  <2> QED
    BY <1>1, <2>1, Zenon DEF Range
<1> QED
  BY <1>1, <1>2, FunctionIsSeq, Zenon


\* f is the recursive function of FoldLeft, with a function for the operator.
IsFold(f, base, m, op, n) ==
  \A s \in SUBSET (1..n) :
    f[s] = IF s = {} THEN base ELSE op[<< f[s \ {Max(s)}], m[Max(s)] >>]

\* t is what a fold has after each element of a sequence.
IsTrail(t, base, m, op, n) ==
  t[0] = base /\ \A k \in 1..n : t[k] = op[<< t[k - 1], m[k] >>]

\* The recursive function of a fold exists.
LEMMA FoldExists ==
  ASSUME NEW V, NEW base \in V, NEW W, NEW n \in Nat, NEW m \in [1..n -> W],
         NEW op \in [V \X W -> V]
  PROVE  \E f \in [SUBSET (1..n) -> V] : IsFold(f, base, m, op, n)
<1> DEFINE FoldsTo(i, f) ==
             \A s \in SUBSET (1..i) :
               f[s] = IF s = {} THEN base ELSE op[<< f[s \ {Max(s)}], m[Max(s)] >>]
           T == {i \in 0..n : \E f \in [SUBSET (1..i) -> V] : FoldsTo(i, f)}
<1>1. 0 \in T
  <2> DEFINE f == [s \in SUBSET (1..0) |-> base]
  <2>1. \A s \in SUBSET (1..0) : s = {}
    OBVIOUS
  <2>2. f \in [SUBSET (1..0) -> V] /\ FoldsTo(0, f)
    BY <2>1
  <2>3. 0 \in 0..n
    OBVIOUS
  <2> QED
    BY <2>2, <2>3, Zenon
<1>2. ASSUME NEW i \in 0..n, i < n, i \in T
      PROVE  i + 1 \in T
  <2> DEFINE j == i + 1
  <2>1. PICK f \in [SUBSET (1..i) -> V] : FoldsTo(i, f)
    BY <1>2, Zenon
  <2> DEFINE g == [s \in SUBSET (1..j) |-> IF j \in s THEN op[<< f[s \ {j}], m[j] >>] ELSE f[s]]
  <2>2. j \in 1..n /\ j \in 0..n
    BY <1>2
  <2>3. ASSUME NEW s \in SUBSET (1..j), j \in s
        PROVE  Max(s) = j /\ s \ {j} \in SUBSET (1..i) /\ s # {}
    <3>1. \A y \in s : j >= y
      BY <1>2
    <3>2. \A x \in s : (\A y \in s : x >= y) => x = j
      BY <1>2, <2>3
    <3>3. Max(s) = j
      BY <2>3, <3>1, <3>2, Zenon DEF Max
    <3>4. s \ {j} \in SUBSET (1..i)
      BY <1>2
    <3> QED
      BY <2>3, <3>3, <3>4
  <2>4. ASSUME NEW s \in SUBSET (1..j), j \notin s
        PROVE  s \in SUBSET (1..i)
    BY <1>2, <2>4
  <2>5. ASSUME NEW s \in SUBSET (1..i)
        PROVE  s \in SUBSET (1..j) /\ j \notin s
    BY <1>2
  <2>6. ASSUME NEW s \in SUBSET (1..i), s # {}
        PROVE  s \ {Max(s)} \in SUBSET (1..i)
    BY Zenon
  <2>7. m[j] \in W
    BY <2>2
  <2> HIDE DEF j
  <2>8. \A s \in SUBSET (1..i) : g[s] = f[s]
    BY <2>5, Zenon
  <2>9. ASSUME NEW s \in SUBSET (1..j)
        PROVE  g[s] \in V /\ g[s] = IF s = {} THEN base ELSE op[<< g[s \ {Max(s)}], m[Max(s)] >>]
    <3>1. CASE j \in s
      <4>1. Max(s) = j /\ s \ {j} \in SUBSET (1..i) /\ s # {}
        BY <3>1, <2>3, Zenon
      <4>2. g[s] = op[<< f[s \ {j}], m[j] >>]
        BY <3>1, Zenon
      <4>3. f[s \ {j}] \in V /\ g[s \ {j}] = f[s \ {j}]
        BY <4>1, <2>8, Zenon
      <4>4. op[<< f[s \ {j}], m[j] >>] \in V
        BY <4>3, <2>7
      <4> QED
        BY <4>1, <4>2, <4>3, <4>4, Zenon
    <3>2. CASE j \notin s
      <4>1. s \in SUBSET (1..i)
        BY <3>2, <2>4, Zenon
      <4>2. g[s] = f[s] /\ f[s] \in V
        BY <4>1, <2>8, Zenon
      <4>3. f[s] = IF s = {} THEN base ELSE op[<< f[s \ {Max(s)}], m[Max(s)] >>]
        BY <4>1, <2>1, Zenon
      <4>4. s # {} => g[s \ {Max(s)}] = f[s \ {Max(s)}]
        BY <4>1, <2>6, <2>8, Zenon
      <4> QED
        BY <4>2, <4>3, <4>4, Zenon
    <3> QED
      BY <3>1, <3>2, Zenon
  <2>10. g \in [SUBSET (1..j) -> V]
    BY <2>9, Zenon
  <2> HIDE DEF g
  <2>11. FoldsTo(j, g)
    BY <2>9, Zenon
  <2>12. j \in T
    BY <2>2, <2>10, <2>11, Zenon
  <2> QED
    BY <2>12 DEF j
<1> HIDE DEF T
<1>3. 0..n \subseteq T
  BY <1>1, <1>2, UpTo
<1>4. n \in T
  BY <1>3
<1> QED
  BY <1>4, Zenon DEF T, IsFold

\* What a value of such a function is made of.
IsStep(f, s, base, m, op, V, W) ==
  \/ s = {} /\ f[s] = base
  \/ /\ s # {} /\ f[s \ {Max(s)}] \in V /\ m[Max(s)] \in W
     /\ f[s] = op[<< f[s \ {Max(s)}], m[Max(s)] >>]

\* A value of it is the base, or one application of the operation.
LEMMA FoldStep ==
  ASSUME NEW V, NEW base \in V, NEW W, NEW n \in Nat, NEW m \in [1..n -> W],
         NEW op \in [V \X W -> V], NEW f \in [SUBSET (1..n) -> V], IsFold(f, base, m, op, n),
         NEW s \in SUBSET (1..n)
  PROVE  IsStep(f, s, base, m, op, V, W)
<1>1. CASE s = {}
  BY <1>1, Zenon DEF IsFold, IsStep
<1>2. CASE s # {}
  <2>1. s \ {Max(s)} \in SUBSET (1..n)
    BY Zenon
  <2>2. Max(s) \in 1..n
    <3>1. s \in SUBSET (0..n)
      OBVIOUS
    <3>2. Max(s) \in s
      BY <1>2, <3>1, MaxFact, Zenon
    <3> QED
      BY <3>2
  <2> QED
    BY <1>2, <2>1, <2>2, Zenon DEF IsFold, IsStep
<1> QED
  BY <1>1, <1>2

\* Prefixes of 1 .. n.
LEMMA Runs ==
  /\ 1..0 = {}
  /\ \A n \in Nat : \A k \in 1..n :
       /\ 1..k # {} /\ (1..k) \ {k} = 1..(k - 1) /\ 1..k \in SUBSET (1..n)
       /\ k \in 0..n /\ k - 1 \in 0..n
  /\ \A n \in Nat : 0 \in 0..n /\ n \in 0..n
  /\ \A n \in Nat : \A k \in 0..n : 1..k \in SUBSET (1..n)
OBVIOUS

\* The greatest number of 1 .. k is k.
LEMMA LastOfRun == \A n \in Nat : \A k \in 1..n : Max(1..k) = k
<1> SUFFICES ASSUME NEW n \in Nat, NEW k \in 1..n PROVE Max(1..k) = k
  OBVIOUS
<1>1. k \in 1..k /\ \A y \in 1..k : k >= y
  OBVIOUS
<1>2. \A x \in 1..k : (\A y \in 1..k : x >= y) => x = k
  OBVIOUS
<1> QED
  BY <1>1, <1>2, Zenon DEF Max

\* A fold with the operation op, from its first to its last element.
LEMMA Accumulates ==
  ASSUME NEW V, NEW base \in V, NEW W, NEW n \in Nat, NEW f \in [SUBSET (1..n) -> V],
         NEW m \in [1..n -> W], NEW op \in [V \X W -> V], IsFold(f, base, m, op, n)
  PROVE  \E t \in [0..n -> V] : IsTrail(t, base, m, op, n) /\ t[n] = f[1..n]
<1> DEFINE t == [k \in 0..n |-> f[1..k]]
<1>1. t \in [0..n -> V]
  BY Runs, Zenon
<1>2. t[0] = base /\ t[n] = f[1..n]
  BY Runs, Zenon DEF IsFold
<1>3. \A k \in 1..n : t[k] = op[<< t[k - 1], m[k] >>]
  <2> TAKE k \in 1..n
  <2>1. t[k] = f[1..k] /\ t[k - 1] = f[1..(k - 1)]
    BY Runs, Zenon
  <2>2. Max(1..k) = k /\ (1..k) \ {k} = 1..(k - 1) /\ 1..k # {} /\ 1..k \in SUBSET (1..n)
    BY Runs, LastOfRun, Zenon
  <2> QED
    BY <2>1, <2>2, Zenon DEF IsFold
<1> QED
  BY <1>1, <1>2, <1>3, Zenon DEF IsTrail

\* t has what is concatenated after each of the sequences.
IsConcatenation(t, seqs, n) ==
  t[0] = << >> /\ \A k \in 1..n : t[k] = t[k - 1] \o seqs[k]

\* FlattenSeq concatenates from the first sequence to the last.
LEMMA Concatenates ==
  ASSUME NEW S, NEW n \in Nat \ {0}, NEW seqs \in [1..n -> Seq(S)]
  PROVE  \E t \in [0..n -> Seq(S)] : IsConcatenation(t, seqs, n) /\ t[n] = FlattenSeq(seqs)
<1> DEFINE V == Seq(S)
           op == [p \in V \X V |-> p[1] \o p[2]]
<1>0. n \in Nat /\ Len(seqs) = n /\ seqs[1] \in V /\ 1 \in 1..n
  <2>1. Len(seqs) = n
    BY FunctionIsSeq
  <2> QED
    BY <2>1
<1>1. op \in [V \X V -> V] /\ << >> \in V
  OBVIOUS
<1>a. \A v \in V, w \in V : op[<< v, w >>] = v \o w
  OBVIOUS
<1>b. << >> \o seqs[1] = seqs[1]
  BY <1>0
<1> HIDE DEF V, op
<1>c. seqs \in [1..n -> V]
  BY DEF V
<1>2. PICK f \in [SUBSET (1..n) -> V] : IsFold(f, << >>, seqs, op, n)
  BY <1>0, <1>1, <1>c, FoldExists, Zenon
<1>3. PICK t \in [0..n -> V] : IsTrail(t, << >>, seqs, op, n)
  BY <1>0, <1>1, <1>c, <1>2, Accumulates, Zenon
<1>d. t[0] = << >> /\ \A k \in 1..n : t[k] = op[<< t[k - 1], seqs[k] >>]
  BY <1>3, Zenon DEF IsTrail
<1>4. \A k \in 1..n : t[k] = t[k - 1] \o seqs[k]
  <2> TAKE k \in 1..n
  <2>1. t[k - 1] \in V /\ seqs[k] \in V
    BY <1>0, <1>3, <1>c, Runs, Zenon
  <2> QED
    BY <1>d, <1>a, <2>1, Zenon
<1>5. t[n] = FlattenSeq(seqs)
  <2> DEFINE Continued(g) == [i \in 1..n |-> IF i = 1 THEN seqs[i] ELSE g[i - 1] \o seqs[i]]
             flat == CHOOSE g : g = Continued(g)
             u == [i \in 1..n |-> t[i]]
  <2>1. FlattenSeq(seqs) = flat[n]
    BY <1>0 DEF FlattenSeq
  <2>2. u = Continued(u)
    <3>1. ASSUME NEW i \in 1..n
          PROVE  u[i] = IF i = 1 THEN seqs[i] ELSE u[i - 1] \o seqs[i]
      <4>1. CASE i = 1
        <5>1. t[1] = t[1 - 1] \o seqs[1] /\ 1 - 1 = 0
          BY <1>4, <1>0
        <5> QED
          BY <4>1, <5>1, <1>d, <1>b, <1>0
      <4>2. CASE i # 1
        <5>1. i - 1 \in 1..n
          BY <4>2
        <5> QED
          BY <4>2, <5>1, <1>4, Zenon
      <4> QED
        BY <4>1, <4>2
    <3> QED
      BY <3>1, Zenon
  <2>3. flat = Continued(flat)
    BY <2>2, Zenon
  <2> HIDE DEF flat, u
  <2> DEFINE T == {i \in 0..n : i # 0 => flat[i] = t[i]}
  <2>4. 0 \in T
    BY <1>0
  <2>5. ASSUME NEW i \in 0..n, i < n, i \in T
        PROVE  i + 1 \in T
    <3>1. i + 1 \in 1..n /\ i + 1 \in 0..n /\ (i + 1) - 1 = i
      BY <2>5
    <3>2. t[i + 1] = t[i] \o seqs[i + 1]
      BY <3>1, <1>4, Zenon
    <3>3. CASE i = 0
      <4>1. i + 1 = 1
        BY <3>3
      <4>2. flat[1] = seqs[1]
        BY <2>3, <1>0, Zenon
      <4>3. t[1] = seqs[1]
        BY <3>2, <3>3, <4>1, <1>d, <1>b
      <4> QED
        BY <3>1, <4>1, <4>2, <4>3
    <3>4. CASE i # 0
      <4>1. i + 1 # 1
        BY <3>4
      <4>2. flat[i + 1] = flat[i] \o seqs[i + 1]
        BY <2>3, <3>1, <4>1, Zenon
      <4>3. flat[i] = t[i]
        BY <2>5, <3>4, Zenon
      <4> QED
        BY <3>1, <3>2, <4>2, <4>3, Zenon
    <3> QED
      BY <3>3, <3>4
  <2> HIDE DEF T
  <2>6. 0..n \subseteq T
    BY <2>4, <2>5, <1>0, UpTo
  <2>7. n \in T /\ n # 0
    BY <2>6, <1>0
  <2> QED
    BY <2>1, <2>7, Zenon DEF T
<1> QED
  BY <1>3, <1>d, <1>4, <1>5, Zenon DEF V, IsConcatenation

\* FlattenSeq leaves nothing out and adds nothing.
LEMMA FlattenRange ==
  ASSUME NEW S, NEW n \in Nat, NEW seqs \in [1..n -> Seq(S)]
  PROVE  /\ FlattenSeq(seqs) \in Seq(S)
         /\ Range(FlattenSeq(seqs)) = UNION {Range(seqs[k]) : k \in 1..n}
<1>1. CASE n = 0
  <2>1. Len(seqs) = 0 /\ seqs \in Seq(Seq(S))
    BY <1>1, FunctionIsSeq
  <2>2. FlattenSeq(seqs) = << >> /\ 1..n = {}
    BY <1>1, <2>1, EmptySeq DEF FlattenSeq
  <2>3. DOMAIN << >> = {}
    OBVIOUS
  <2> QED
    BY <2>2, <2>3 DEF Range
<1>2. CASE n # 0
  <2>0. PICK t \in [0..n -> Seq(S)] : IsConcatenation(t, seqs, n) /\ t[n] = FlattenSeq(seqs)
    <3>1. n \in Nat \ {0}
      BY <1>2
    <3> QED
      BY <3>1, Concatenates, Zenon
  <2>1. t[0] = << >> /\ (\A k \in 1..n : t[k] = t[k - 1] \o seqs[k]) /\ t[n] = FlattenSeq(seqs)
    BY <2>0, Zenon DEF IsConcatenation
  <2> DEFINE Upto(k) == UNION {Range(seqs[i]) : i \in 1..k}
             T == {k \in 0..n : Range(t[k]) = Upto(k)}
  <2>2. 0 \in T
    <3>1. 0 \in 0..n /\ 1..0 = {} /\ DOMAIN << >> = {}
      OBVIOUS
    <3>2. Range(t[0]) = {}
      BY <2>1, <3>1 DEF Range
    <3> QED
      BY <3>1, <3>2
  <2>3. ASSUME NEW k \in 0..n, k < n, k \in T
        PROVE  k + 1 \in T
    <3>1. k + 1 \in 1..n /\ k + 1 \in 0..n /\ (k + 1) - 1 = k
          /\ 1..(k + 1) = 1..k \union {k + 1}
      BY <2>3
    <3>2. t[k] \in Seq(S) /\ seqs[k + 1] \in Seq(S)
      BY <3>1, Zenon
    <3>3. t[k + 1] = t[k] \o seqs[k + 1]
      BY <3>1, <2>1, Zenon
    <3>4. Range(t[k] \o seqs[k + 1]) = Range(t[k]) \union Range(seqs[k + 1])
      BY <3>2, RangeConcatenation, Zenon
    <3>5. Upto(k + 1) = Upto(k) \union Range(seqs[k + 1])
      <4> DEFINE j == k + 1
      <4>1. 1..j = 1..k \union {j}
        BY <3>1
      <4> HIDE DEF j
      <4> QED
        BY <4>1 DEF j
    <3>6. Range(t[k + 1]) = Upto(k + 1)
      BY <3>3, <3>4, <3>5, <2>3, Zenon
    <3> QED
      BY <3>1, <3>6, Zenon
  <2> HIDE DEF T
  <2>4. 0..n \subseteq T
    BY <2>2, <2>3, UpTo
  <2>5. n \in T
    BY <2>4
  <2>6. n \in 0..n
    OBVIOUS
  <2> QED
    BY <2>1, <2>5, <2>6, Zenon DEF T
<1> QED
  BY <1>1, <1>2

\* FlattenSeq as a filter.
LEMMA Filtered ==
  ASSUME NEW S, NEW s \in Seq(S), NEW P
  PROVE  /\ FlattenSeq([i \in DOMAIN s |-> IF i \in P THEN << s[i] >> ELSE << >>]) \in Seq(S)
         /\ Range(FlattenSeq([i \in DOMAIN s |-> IF i \in P THEN << s[i] >> ELSE << >>]))
              = {s[i] : i \in P \intersect DOMAIN s}
<1> DEFINE seqs == [i \in DOMAIN s |-> IF i \in P THEN << s[i] >> ELSE << >>]
           n == Len(s)
<1>1. n \in Nat /\ DOMAIN s = 1..n /\ \A i \in 1..n : s[i] \in S
  BY LenProperties, ElementOfSeq
<1>2. \A x \in S : << x >> \in Seq(S) /\ Range(<< x >>) = {x}
  BY DEF Range
<1>3. << >> \in Seq(S) /\ Range(<< >>) = {}
  BY DEF Range
<1>4. \A i \in 1..n : seqs[i] = IF i \in P THEN << s[i] >> ELSE << >>
  BY <1>1
<1>5. seqs \in [1..n -> Seq(S)]
  BY <1>1, <1>2, <1>3
<1>6. \A i \in 1..n : Range(seqs[i]) = IF i \in P THEN {s[i]} ELSE {}
  BY <1>1, <1>2, <1>3, <1>4, Zenon
<1> HIDE DEF seqs, n
<1>7. FlattenSeq(seqs) \in Seq(S) /\ Range(FlattenSeq(seqs)) = UNION {Range(seqs[k]) : k \in 1..n}
  BY <1>1, <1>5, FlattenRange, Zenon
<1>8. UNION {Range(seqs[k]) : k \in 1..n} = {s[i] : i \in P \intersect DOMAIN s}
  BY <1>1, <1>6
<1> QED
  BY <1>7, <1>8, Zenon DEF seqs

-----------------------------------------------------------------------------
(* The strings of one record are found together (ContractReading).          *)

\* Groups, from record to record.
JoinedKeeps(V, W) == \A v \in V, w \in W : Joined(v, w) \in V

JoinedRun(t, m, V) ==
  /\ t \in [0..Len(m) -> V] /\ t[0] = {}
  /\ \A k \in 1..Len(m) : t[k] = Joined(t[k - 1], m[k])
  /\ FoldLeft(Joined, {}, m) = t[Len(m)]

\* The groups after each record, for as long as they stay what they are.
LEMMA JoinedFold ==
  ASSUME NEW V, NEW W, {} \in V, JoinedKeeps(V, W), NEW m \in Seq(W)
  PROVE  \E t : JoinedRun(t, m, V)
<1> DEFINE n == Len(m)
           op == [p \in V \X W |-> Joined(p[1], p[2])]
           Def(f) == [s \in SUBSET DOMAIN m |->
                        IF s = {} THEN {} ELSE Joined(f[s \ {Max(s)}], m[Max(s)])]
           iter == CHOOSE f : f = Def(f)
<1>1. n \in Nat /\ DOMAIN m = 1..n /\ m \in [1..n -> W]
  BY LenProperties, SeqDef
<1>2. op \in [V \X W -> V] /\ \A v \in V, w \in W : op[<< v, w >>] = Joined(v, w)
  BY DEF JoinedKeeps
<1>3. FoldLeft(Joined, {}, m) = iter[1..n]
  <2>1. FoldLeft(Joined, {}, m) = iter[DOMAIN m]
    BY Zenon DEF FoldLeft, MapThenFoldSet
  <2> QED
    BY <2>1, <1>1, Zenon
<1> HIDE DEF op, n
<1>4. PICK f \in [SUBSET (1..n) -> V] : IsFold(f, {}, m, op, n)
  BY <1>1, <1>2, FoldExists, Zenon
<1>5. ASSUME NEW s \in SUBSET (1..n)
      PROVE  f[s] = IF s = {} THEN {} ELSE Joined(f[s \ {Max(s)}], m[Max(s)])
  <2>1. IsStep(f, s, {}, m, op, V, W)
    BY <1>1, <1>2, <1>4, FoldStep, Zenon
  <2> QED
    BY <2>1, <1>2, Zenon DEF IsStep
<1>6. iter = Def(iter)
  <2>1. f = Def(f)
    BY <1>1, <1>5, Zenon
  <2> QED
    BY <2>1, Zenon
<1> HIDE DEF iter
<1> DEFINE t == [k \in 0..n |-> iter[1..k]]
<1>7. t[0] = {} /\ iter[1..n] = t[n]
  <2>1. iter[{}] = {}
    BY <1>6, Zenon
  <2> QED
    BY <2>1, <1>1, Runs, Zenon
<1>8. \A k \in 1..n : t[k] = Joined(t[k - 1], m[k])
  <2> TAKE k \in 1..n
  <2>1. t[k] = iter[1..k] /\ t[k - 1] = iter[1..(k - 1)]
    BY <1>1, Runs, Zenon
  <2>2. Max(1..k) = k /\ (1..k) \ {k} = 1..(k - 1) /\ 1..k # {} /\ 1..k \in SUBSET DOMAIN m
    BY <1>1, Runs, LastOfRun, Zenon
  <2>3. iter[1..k] = Joined(iter[(1..k) \ {Max(1..k)}], m[Max(1..k)])
    BY <1>6, <2>2, Zenon
  <2> QED
    BY <2>1, <2>2, <2>3, Zenon
<1>9. t \in [0..n -> V]
  <2> DEFINE T == {k \in 0..n : t[k] \in V}
  <2>1. 0 \in T
    BY <1>1, <1>7, Runs, Zenon
  <2>2. \A i \in 0..n : i < n /\ i \in T => i + 1 \in T
    <3> TAKE i \in 0..n
    <3> HAVE i < n /\ i \in T
    <3>1. i + 1 \in 1..n /\ i + 1 \in 0..n /\ (i + 1) - 1 = i
      BY <1>1
    <3>2. t[i + 1] = Joined(t[i], m[i + 1]) /\ t[i] \in V /\ m[i + 1] \in W
      BY <3>1, <1>1, <1>8, Zenon
    <3> QED
      BY <3>1, <3>2, Zenon DEF JoinedKeeps
  <2> HIDE DEF T
  <2>3. 0..n \subseteq T
    BY <1>1, <2>1, <2>2, UpTo
  <2>4. \A k \in 0..n : t[k] \in V
    BY <2>3, Zenon DEF T
  <2> QED
    BY <2>4, Zenon
<1> QED
  BY <1>3, <1>7, <1>8, <1>9, Zenon DEF n, JoinedRun


\* No two groups share a key.
Apart(groups) == \A g, h \in groups : g \intersect h # {} => g = h

Gathers(new, old, keys) ==
  /\ Apart(new) /\ \E g \in new : keys \subseteq g
  /\ \A h \in old : \E g \in new : h \subseteq g

\* Union keeps groups apart and splits none.
LEMMA UnionGathers ==
  ASSUME NEW groups, NEW keys, Apart(groups)
  PROVE  Gathers(Union(groups, keys), groups, keys)
<1> DEFINE met == {g \in groups : g \intersect keys # {}}
           new == keys \union UNION met
<1>1. Union(groups, keys) = (groups \ met) \union {new}
  BY DEF Union
<1>2. ASSUME NEW g \in groups \ met PROVE g \intersect new = {}
  <2>1. g \intersect keys = {}
    OBVIOUS
  <2>2. \A h \in met : g \intersect h = {}
    BY DEF Apart
  <2> QED
    BY <2>1, <2>2
<1>3. Apart((groups \ met) \union {new})
  <2> DEFINE rest == groups \ met
  <2>1. \A g, h \in rest : g \intersect h # {} => g = h
    BY DEF Apart
  <2>2. \A g \in rest : g \intersect new = {} /\ new \intersect g = {}
    BY <1>2
  <2> HIDE DEF rest, new
  <2>3. ASSUME NEW g \in rest \union {new}, NEW h \in rest \union {new}, g \intersect h # {}
        PROVE  g = h
    BY <2>1, <2>2, <2>3
  <2> QED
    BY <2>3, Zenon DEF Apart, rest
<1>4. \A h \in met : h \subseteq new
  OBVIOUS
<1>5. keys \subseteq new
  OBVIOUS
<1> HIDE DEF met, new
<1> QED
  BY <1>1, <1>3, <1>4, <1>5 DEF Gathers

\* What a record says of its keys belongs together: no two groups share a key,
\* and each record's keys are in one.
LEMMA RecordsAreJoined ==
  ASSUME NEW W, NEW facts \in Seq(W)
  PROVE  /\ Apart(Components(facts))
         /\ \A i \in 1..Len(facts) : IsEvidence(facts[i]) =>
              \E g \in Components(facts) : Titles(facts[i]) \union Descs(facts[i]) \subseteq g
<1> DEFINE n == Len(facts)
           KeysIn(f) == Titles(f) \union Descs(f)
           V == SUBSET SUBSET UNION {KeysIn(f) : f \in W}
<1>1. n \in Nat /\ \A k \in 1..n : facts[k] \in W
  BY LenProperties, ElementOfSeq
<1>2. {} \in V /\ JoinedKeeps(V, W)
  <2> SUFFICES ASSUME NEW v \in V, NEW w \in W PROVE Joined(v, w) \in V
    BY DEF JoinedKeeps
  <2> DEFINE met == {g \in v : g \intersect KeysIn(w) # {}}
  <2>1. KeysIn(w) \union UNION met \in SUBSET UNION {KeysIn(f) : f \in W}
    OBVIOUS
  <2>2. Union(v, KeysIn(w)) = (v \ met) \union {KeysIn(w) \union UNION met}
    BY DEF Union
  <2> QED
    BY <2>1, <2>2 DEF Joined
<1> HIDE DEF V
<1>a. PICK t : JoinedRun(t, facts, V)
  BY <1>2, JoinedFold, Zenon
<1>3. /\ t[0] = {} /\ \A k \in 1..n : t[k] = Joined(t[k - 1], facts[k])
      /\ FoldLeft(Joined, {}, facts) = t[n]
  BY <1>a, Zenon DEF JoinedRun
<1> DEFINE Has(k, i) == \E g \in t[k] : KeysIn(facts[i]) \subseteq g
           T == {k \in 0..n : Apart(t[k]) /\ \A i \in 1..k : IsEvidence(facts[i]) => Has(k, i)}
<1>4. 0 \in T
  <2>1. 0 \in 0..n /\ \A i \in 1..0 : FALSE
    BY <1>1
  <2> QED
    BY <1>3, <2>1, Zenon DEF Apart
<1>5. ASSUME NEW k \in 0..n, k < n, k \in T
      PROVE  k + 1 \in T
  <2>1. k + 1 \in 1..n /\ k + 1 \in 0..n /\ (k + 1) - 1 = k
        /\ \A i \in 1..(k + 1) : i = k + 1 \/ i \in 1..k
    BY <1>5, <1>1
  <2>2. t[k + 1] = Joined(t[k], facts[k + 1])
    BY <2>1, <1>3, Zenon
  <2>3. CASE IsEvidence(facts[k + 1])
    <3>1. t[k + 1] = Union(t[k], KeysIn(facts[k + 1]))
      BY <2>2, <2>3, Zenon DEF Joined
    <3>2. /\ Apart(t[k + 1])
          /\ \E g \in t[k + 1] : KeysIn(facts[k + 1]) \subseteq g
          /\ \A h \in t[k] : \E g \in t[k + 1] : h \subseteq g
      <4>1. Apart(t[k])
        BY <1>5
      <4>2. Gathers(Union(t[k], KeysIn(facts[k + 1])), t[k], KeysIn(facts[k + 1]))
        BY <4>1, UnionGathers, Zenon
      <4> QED
        BY <3>1, <4>2, Zenon DEF Gathers
    <3>3. ASSUME NEW i \in 1..(k + 1), IsEvidence(facts[i])
          PROVE  Has(k + 1, i)
      <4>1. CASE i = k + 1
        BY <4>1, <3>2, Zenon
      <4>2. CASE i \in 1..k
        <5>1. PICK h \in t[k] : KeysIn(facts[i]) \subseteq h
          BY <4>2, <3>3, <1>5, Zenon
        <5>2. PICK g \in t[k + 1] : h \subseteq g
          BY <3>2, Zenon
        <5>3. KeysIn(facts[i]) \subseteq g
          BY <5>1, <5>2
        <5> QED
          BY <5>3, Zenon
      <4> QED
        BY <4>1, <4>2, <2>1
    <3> QED
      BY <3>2, <3>3, <2>1, Zenon
  <2>4. CASE ~IsEvidence(facts[k + 1])
    <3>1. t[k + 1] = t[k]
      BY <2>2, <2>4, Zenon DEF Joined
    <3>2. \A i \in 1..(k + 1) : IsEvidence(facts[i]) => Has(k + 1, i)
      BY <3>1, <2>1, <2>4, <1>5, Zenon
    <3> QED
      BY <3>1, <3>2, <2>1, <1>5, Zenon
  <2> QED
    BY <2>3, <2>4
<1> HIDE DEF T
<1>6. 0..n \subseteq T
  BY <1>1, <1>4, <1>5, UpTo
<1>7. n \in T
  BY <1>1, <1>6
<1> QED
  BY <1>3, <1>7, Zenon DEF T, Components

\* The strings of a contract.
KeysIn(c) == c.titles \union c.descs

\* The strings of one record are found in one contract, or in none.
FoundTogether(found, referred) ==
  /\ \A c, d \in found :
       KeysIn(c) \intersect referred # {} /\ KeysIn(d) \intersect referred # {} => c = d
  /\ \A c \in found : KeysIn(c) \intersect referred # {} => referred \subseteq KeysIn(c)
  /\ {"title", "desc"} \subseteq {k.kind : k \in referred} =>
       \E c \in found : KeysIn(c) \intersect referred # {}

\* The strings a record refers to.
ReferredIn(strings, f) == {k \in DOMAIN strings : Folded(k) \in Titles(f) \union Descs(f)}

\* Case changes nothing of what a name says of its kind.
LEMMA KindIsKept ==
  ASSUME NEW k, IsName(k)
  PROVE  Folded(k).kind = k.kind /\ k.kind \in {"title", "desc", Unstated}
BY ReadingAssumption DEF Folded, IsName

\* A kind that a name states is its role.
LEMMA RoleIsKind ==
  ASSUME NEW facts, NEW k, IsName(k)
  PROVE  /\ Role(facts, Folded(k)) \in {"title", "desc"}
         /\ k.kind # Unstated => Role(facts, Folded(k)) = k.kind
<1>1. Folded(k).kind = k.kind /\ k.kind \in {"title", "desc", Unstated}
  BY KindIsKept
<1> QED
  BY <1>1, Zenon DEF Role

\* The base of an alias is spelled small.
LEMMA LowerIsLow ==
  \A n : [[stem |-> n, upper |-> FALSE] EXCEPT !.upper = FALSE] = [stem |-> n, upper |-> FALSE]
<1> SUFFICES ASSUME NEW n, NEW base, base = [stem |-> n, upper |-> FALSE]
             PROVE  [base EXCEPT !.upper = FALSE] = base
  BY Zenon
<1> base = [k \in DOMAIN base |-> base[k]]
  OBVIOUS
<1> base.upper = FALSE
  OBVIOUS
<1> QED
  OBVIOUS

\* What a record refers to is found in one contract or in none.
LEMMA RecordsAreFoundWhole ==
  ASSUME NEW strings, \A k \in DOMAIN strings : IsName(k),
         NEW W, NEW facts \in Seq(W), NEW i \in 1..Len(facts), IsEvidence(facts[i])
  PROVE  FoundTogether(Parse(strings, facts), ReferredIn(strings, facts[i]))
<1> DEFINE groups == Components(facts)
           evidence == UNION groups
           GroupOf(key) == CHOOSE g \in groups : Folded(key) \in g
           IsEvidenced(key) == Folded(key) \in evidence
           entries == {k \in DOMAIN strings : LooksLikeContract(k) \/ IsEvidenced(k)}
           BaseOf(key) == IF IsEvidenced(key) THEN Alias(facts, GroupOf(key)) ELSE Base(key)
           KindOf(key) == IF IsEvidenced(key) THEN Role(facts, Folded(key)) ELSE key.kind
           Found(base) ==
             [id |-> base,
              titles |-> {k \in entries : BaseOf(k) = base /\ KindOf(k) = "title"},
              descs  |-> {k \in entries : BaseOf(k) = base /\ KindOf(k) = "desc"}]
           IsContract(c) ==
             /\ c.titles # {} /\ c.descs # {}
             /\ \/ \E k \in c.titles \union c.descs : strings[k] = "token"
                \/ \E k \in c.descs : strings[k] = "prose"
           lower(base) == [base EXCEPT !.upper = FALSE]
           IsNamed(c) ==
             /\ c.descs # {}
             /\ \E g \in groups : Alias(facts, g) = lower(c.id)
             /\ \/ c.titles # {}
                \/ \E g \in groups : Alias(facts, g) = lower(c.id) /\ DescOnly(facts, g)
           found == {c \in {Found(BaseOf(k)) : k \in entries} : IsContract(c) \/ IsNamed(c)}
           referred == ReferredIn(strings, facts[i])
<1>1. Parse(strings, facts) = found
  BY Zenon DEF Parse
<1>2. PICK g \in groups : Titles(facts[i]) \union Descs(facts[i]) \subseteq g
  BY RecordsAreJoined, Zenon
<1>3. Apart(groups)
  BY RecordsAreJoined, Zenon
<1> DEFINE base == Alias(facts, g)
<1>4. ASSUME NEW k \in referred
      PROVE  k \in entries /\ IsEvidenced(k) /\ BaseOf(k) = base
  <2>1. k \in DOMAIN strings /\ Folded(k) \in g
    BY <1>2 DEF ReferredIn
  <2>2. Folded(k) \in evidence
    BY <2>1
  <2>3. GroupOf(k) = g
    <3>1. GroupOf(k) \in groups /\ Folded(k) \in GroupOf(k)
      BY <2>1, Zenon
    <3> HIDE DEF groups, GroupOf
    <3>2. GroupOf(k) \intersect g # {}
      BY <2>1, <3>1
    <3> QED
      BY <3>1, <3>2, <1>3, Zenon DEF Apart
  <2> QED
    BY <2>1, <2>2, <2>3, Zenon
<1>5. ASSUME NEW k \in referred
      PROVE  /\ KindOf(k) \in {"title", "desc"} /\ k \in KeysIn(Found(base))
             /\ k.kind # Unstated => KindOf(k) = k.kind
  <2>1. IsName(k)
    BY DEF ReferredIn
  <2>2. KindOf(k) = Role(facts, Folded(k))
    BY <1>4, Zenon
  <2>3. KindOf(k) \in {"title", "desc"} /\ (k.kind # Unstated => KindOf(k) = k.kind)
    BY <2>1, <2>2, RoleIsKind, Zenon
  <2>4. k \in entries /\ BaseOf(k) = base
    BY <1>4, Zenon
  <2> HIDE DEF KindOf, BaseOf, entries, base
  <2>5. k \in KeysIn(Found(base))
    BY <2>3, <2>4 DEF KeysIn
  <2> QED
    BY <2>3, <2>5
<1>6. ASSUME NEW c \in found, KeysIn(c) \intersect referred # {}
      PROVE  c = Found(base)
  <2>1. PICK l \in entries : c = Found(BaseOf(l))
    BY Zenon
  <2>2. PICK k \in referred : k \in KeysIn(c)
    BY <1>6
  <2>3. BaseOf(k) = base
    BY <1>4, Zenon
  <2> HIDE DEF entries, BaseOf, KindOf, base, referred, found
  <2>4. BaseOf(k) = BaseOf(l)
    BY <2>1, <2>2 DEF KeysIn
  <2> QED
    BY <2>1, <2>3, <2>4, Zenon
<1>7. \A c \in found : KeysIn(c) \intersect referred # {} => referred \subseteq KeysIn(c)
  <2> HIDE DEF found, Found, referred, base, KindOf
  <2> QED
    BY <1>5, <1>6, Zenon
<1>8. ASSUME {"title", "desc"} \subseteq {k.kind : k \in referred}
      PROVE  \E c \in found : KeysIn(c) \intersect referred # {}
  <2>1. PICK t \in referred, d \in referred : t.kind = "title" /\ d.kind = "desc"
    BY <1>8
  <2>2. KindOf(t) = "title" /\ KindOf(d) = "desc"
    BY <2>1, <1>5, ReadingAssumption
  <2>3. t \in entries /\ d \in entries /\ BaseOf(t) = base /\ BaseOf(d) = base
    BY <1>4, Zenon
  <2>4. lower(base) = base
    BY LowerIsLow, Zenon DEF Alias
  <2> DEFINE c == Found(base)
  <2>5. c.id = base /\ t \in c.titles /\ d \in c.descs
    <3> HIDE DEF entries, BaseOf, KindOf, base
    <3> QED
      BY <2>2, <2>3
  <2>6. IsNamed(c)
    <3>1. c.titles # {} /\ c.descs # {}
      BY <2>5, Zenon
    <3>2. Alias(facts, g) = lower(c.id)
      BY <2>4, <2>5, Zenon
    <3> HIDE DEF c, lower, groups
    <3> QED
      BY <3>1, <3>2, Zenon
  <2>7. c \in found
    <3>1. c \in {Found(BaseOf(k)) : k \in entries}
      <4>1. c = Found(BaseOf(t))
        BY <2>3, Zenon
      <4> HIDE DEF c, Found, BaseOf
      <4> QED
        BY <2>3, <4>1
    <3> HIDE DEF c, Found, BaseOf, entries, IsNamed, IsContract
    <3> QED
      BY <3>1, <2>6, Zenon
  <2>8. t \in KeysIn(c) \intersect referred
    BY <2>1, <2>5, Zenon DEF KeysIn
  <2> QED
    BY <2>7, <2>8, Zenon
<1> HIDE DEF found, referred
<1>9. \A c, d \in found :
        KeysIn(c) \intersect referred # {} /\ KeysIn(d) \intersect referred # {} => c = d
  BY <1>6, Zenon
<1> QED
  BY <1>1, <1>7, <1>8, <1>9, Zenon DEF FoundTogether, referred

\* Strings that a record refers to, in whatever case, are in one contract or in
\* none, for every build and all authored strings.
THEOREM RecordsStayTogether ==
  ASSUME NEW build, NEW authored, IsBuild(build, authored)
  PROVE  KeptTogether(build, authored)
<1> SUFFICES ASSUME Read(build, authored) # Refused, build.records = "readable"
    PROVE KeptTogether(build, authored)
  BY Zenon DEF KeptTogether
<1> DEFINE facts == IF build.records = "readable" THEN build.facts ELSE << >>
           used == IF authored = << >> THEN build.strings
                   ELSE IF build.records # "readable" THEN Refused
                   ELSE WithFallbacks(build.strings, facts, authored)
           sets == IF build.records # "readable" THEN << >>
                   ELSE << MissionSet(used, facts) >>
                        \o [i \in DOMAIN build.tactical |-> TacticalSet(used, build.tactical[i])]
           strings == Joint(build.strings, authored)
           read == Read(build, authored)
<1>1. read.contracts = {Enhanced(c, sets) : c \in Parse(used, facts)}
  <2>1. read = [contracts |-> {Enhanced(c, sets) : c \in Parse(used, facts)},
                sets |-> sets,
                unmatched |-> UNION {Unmatched(Parse(used, facts), s) : s \in ToSet(sets)}]
    BY Zenon DEF Read
  <2> QED
    BY <2>1
<1>2. used # Refused
  BY Zenon DEF Read
<1>3. DOMAIN used = DOMAIN strings
  <2>1. DOMAIN strings = DOMAIN build.strings \union DOMAIN authored
    BY DEF Joint
  <2>2. CASE authored = << >>
    BY <2>1, <2>2
  <2>3. CASE authored # << >>
    <3>1. used = Joint(build.strings, authored)
      BY <1>2, <2>3, Zenon DEF WithFallbacks
    <3> QED
      BY <3>1
  <2> QED
    BY <2>2, <2>3
<1>4. \A k \in DOMAIN used : IsName(k)
  BY <1>3 DEF IsBuild, Joint
<1>5. facts = build.facts /\ facts \in Seq(ToSet(facts))
  BY DEF IsBuild
<1> HIDE DEF used, sets, facts
<1>6. ASSUME NEW f \in ToSet(facts), Descs(f) # {}
      PROVE  FoundTogether(Parse(used, facts), ReferredIn(strings, f))
  <2>1. PICK i \in 1..Len(facts) : f = facts[i]
    BY <1>5, LenProperties DEF ToSet
  <2>2. FoundTogether(Parse(used, facts), ReferredIn(used, facts[i]))
    BY <2>1, <1>4, <1>5, <1>6, RecordsAreFoundWhole, Zenon DEF IsEvidence
  <2>3. ReferredIn(used, facts[i]) = ReferredIn(strings, f)
    BY <2>1, <1>3, Zenon DEF ReferredIn
  <2> QED
    BY <2>2, <2>3, Zenon
<1>7. \A c : Enhanced(c, sets).contract = c
  BY DEF Enhanced
<1> DEFINE Holding(f) == {c \in read.contracts :
                            KeysIn(c.contract) \intersect ReferredIn(strings, f) # {}}
<1> HIDE DEF strings, read
<1>8. ASSUME NEW f \in ToSet(facts), Descs(f) # {}
      PROVE  /\ \A c, d \in Holding(f) : c = d
             /\ \A c \in Holding(f) : ReferredIn(strings, f) \subseteq KeysIn(c.contract)
             /\ {"title", "desc"} \subseteq {k.kind : k \in ReferredIn(strings, f)}
                  => Holding(f) # {}
  <2> DEFINE referred == ReferredIn(strings, f)
             found == Parse(used, facts)
  <2>1. FoundTogether(found, referred)
    BY <1>6, <1>8, Zenon
  <2> HIDE DEF referred, found
  <2>2. /\ \A c, d \in found :
             KeysIn(c) \intersect referred # {} /\ KeysIn(d) \intersect referred # {} => c = d
        /\ \A c \in found : KeysIn(c) \intersect referred # {} => referred \subseteq KeysIn(c)
        /\ {"title", "desc"} \subseteq {k.kind : k \in referred} =>
             \E c \in found : KeysIn(c) \intersect referred # {}
    BY <2>1, Zenon DEF FoundTogether
  <2>3. \A c \in Holding(f) : \E x \in found :
          c = Enhanced(x, sets) /\ c.contract = x /\ KeysIn(x) \intersect referred # {}
    BY <1>1, <1>7, Zenon DEF referred, found
  <2>4. \A x \in found : KeysIn(x) \intersect referred # {} => Enhanced(x, sets) \in Holding(f)
    BY <1>1, <1>7, Zenon DEF referred, found
  <2>5. \A c, d \in Holding(f) : c = d
    BY <2>2, <2>3, Zenon
  <2>6. \A c \in Holding(f) : referred \subseteq KeysIn(c.contract)
    BY <2>2, <2>3, Zenon
  <2>7. {"title", "desc"} \subseteq {k.kind : k \in referred} => Holding(f) # {}
    BY <2>2, <2>4, Zenon
  <2> HIDE DEF Holding
  <2> QED
    BY <2>5, <2>6, <2>7, Zenon DEF referred
<1> QED
  BY <1>5, <1>8, Zenon DEF KeptTogether, KeysIn, ReferredIn, read, strings

-----------------------------------------------------------------------------
(* A detail is shown exactly when the facts agree (ContractReading).        *)

\* Details, one after the other.
DetailKeeps(V, W) == \A v \in V, w \in W : ExtendDetail(v, w) \in V

DetailRun(t, m, V) ==
  /\ t \in [0..Len(m) -> V] /\ t[0] = NothingStated
  /\ \A k \in 1..Len(m) : t[k] = ExtendDetail(t[k - 1], m[k])
  /\ FoldLeft(ExtendDetail, NothingStated, m) = t[Len(m)]

\* What is shown after each detail.
LEMMA DetailFold ==
  ASSUME NEW V, NEW W, NothingStated \in V, DetailKeeps(V, W), NEW m \in Seq(W)
  PROVE  \E t : DetailRun(t, m, V)
<1> DEFINE n == Len(m)
           op == [p \in V \X W |-> ExtendDetail(p[1], p[2])]
           Def(f) == [s \in SUBSET DOMAIN m |->
                        IF s = {} THEN NothingStated ELSE ExtendDetail(f[s \ {Max(s)}], m[Max(s)])]
           iter == CHOOSE f : f = Def(f)
<1>1. n \in Nat /\ DOMAIN m = 1..n /\ m \in [1..n -> W]
  BY LenProperties, SeqDef
<1>2. op \in [V \X W -> V] /\ \A v \in V, w \in W : op[<< v, w >>] = ExtendDetail(v, w)
  BY DEF DetailKeeps
<1>3. FoldLeft(ExtendDetail, NothingStated, m) = iter[1..n]
  <2>1. FoldLeft(ExtendDetail, NothingStated, m) = iter[DOMAIN m]
    BY Zenon DEF FoldLeft, MapThenFoldSet
  <2> QED
    BY <2>1, <1>1, Zenon
<1> HIDE DEF op, n
<1>4. PICK f \in [SUBSET (1..n) -> V] : IsFold(f, NothingStated, m, op, n)
  BY <1>1, <1>2, FoldExists, Zenon
<1>5. ASSUME NEW s \in SUBSET (1..n)
      PROVE  f[s] = IF s = {} THEN NothingStated ELSE ExtendDetail(f[s \ {Max(s)}], m[Max(s)])
  <2>1. IsStep(f, s, NothingStated, m, op, V, W)
    BY <1>1, <1>2, <1>4, FoldStep, Zenon
  <2> QED
    BY <2>1, <1>2, Zenon DEF IsStep
<1>6. iter = Def(iter)
  <2>1. f = Def(f)
    BY <1>1, <1>5, Zenon
  <2> QED
    BY <2>1, Zenon
<1> HIDE DEF iter
<1> DEFINE t == [k \in 0..n |-> iter[1..k]]
<1>7. t[0] = NothingStated /\ iter[1..n] = t[n]
  <2>1. iter[{}] = NothingStated
    BY <1>6, Zenon
  <2> QED
    BY <2>1, <1>1, Runs, Zenon
<1>8. \A k \in 1..n : t[k] = ExtendDetail(t[k - 1], m[k])
  <2> TAKE k \in 1..n
  <2>1. t[k] = iter[1..k] /\ t[k - 1] = iter[1..(k - 1)]
    BY <1>1, Runs, Zenon
  <2>2. Max(1..k) = k /\ (1..k) \ {k} = 1..(k - 1) /\ 1..k # {} /\ 1..k \in SUBSET DOMAIN m
    BY <1>1, Runs, LastOfRun, Zenon
  <2>3. iter[1..k] = ExtendDetail(iter[(1..k) \ {Max(1..k)}], m[Max(1..k)])
    BY <1>6, <2>2, Zenon
  <2> QED
    BY <2>1, <2>2, <2>3, Zenon
<1>9. t \in [0..n -> V]
  <2> DEFINE T == {k \in 0..n : t[k] \in V}
  <2>1. 0 \in T
    BY <1>1, <1>7, Runs, Zenon
  <2>2. \A i \in 0..n : i < n /\ i \in T => i + 1 \in T
    <3> TAKE i \in 0..n
    <3> HAVE i < n /\ i \in T
    <3>1. i + 1 \in 1..n /\ i + 1 \in 0..n /\ (i + 1) - 1 = i
      BY <1>1
    <3>2. t[i + 1] = ExtendDetail(t[i], m[i + 1]) /\ t[i] \in V /\ m[i + 1] \in W
      BY <3>1, <1>1, <1>8, Zenon
    <3> QED
      BY <3>1, <3>2, Zenon DEF DetailKeeps
  <2> HIDE DEF T
  <2>3. 0..n \subseteq T
    BY <1>1, <2>1, <2>2, UpTo
  <2>4. \A k \in 0..n : t[k] \in V
    BY <2>3, Zenon DEF T
  <2> QED
    BY <2>4, Zenon
<1> QED
  BY <1>3, <1>7, <1>8, <1>9, Zenon DEF n, DetailRun


\* Min of two numbers.
LEMMA LeastOfTwo ==
  \A a, b \in Nat : Min({a, b}) \in {a, b} /\ Min({a, b}) <= a /\ Min({a, b}) <= b
<1> SUFFICES ASSUME NEW a \in Nat, NEW b \in Nat
             PROVE  Min({a, b}) \in {a, b} /\ Min({a, b}) <= a /\ Min({a, b}) <= b
  OBVIOUS
<1>1. \E x \in {a, b} : \A y \in {a, b} : x <= y
  <2>1. CASE a <= b
    BY <2>1
  <2>2. CASE b <= a
    BY <2>2
  <2> QED
    BY <2>1, <2>2
<1> QED
  BY <1>1, Zenon DEF Min

\* The details of one name.
Of(stated, n) == {d \in stated : d.name = n}

\* Two details have different values.
Disagree(stated) == \E d, e \in stated : d.value # e.value

\* What is shown of details that agree.
Sums(shown, stated) ==
  /\ \A d \in stated : shown.value = d.value /\ shown.confidence <= d.confidence
  /\ \E d \in stated : shown.confidence = d.confidence
  /\ shown.evidence = UNION {d.evidence : d \in stated}

\* What the details stated so far amount to.
Accounts(acc, stated) ==
  \A n : /\ n \in acc.blocked <=> Disagree(Of(stated, n))
         /\ n \in DOMAIN acc.shown <=> Of(stated, n) # {} /\ n \notin acc.blocked
         /\ n \in DOMAIN acc.shown => Sums(acc.shown[n], Of(stated, n))

\* A confidence is a number.
ADetail(d) == d.confidence \in Nat

\* What ExtendDetail makes of details in W.
Accounting(W) ==
  LET names == {d.name : d \in W}
      shown == [value : {d.value : d \in W}, confidence : Nat,
                evidence : SUBSET UNION {d.evidence : d \in W}]
  IN  [shown : UNION {[N -> shown] : N \in SUBSET names}, blocked : SUBSET names]

\* The effects of Showing and of Suppressed.
Adds(new, acc, name, value, confidence, evidence) ==
  /\ new.blocked = acc.blocked /\ DOMAIN new.shown = DOMAIN acc.shown \union {name}
  /\ new.shown[name].value = value /\ new.shown[name].confidence = confidence
  /\ new.shown[name].evidence = evidence
  /\ \A n \in DOMAIN acc.shown \ {name} : new.shown[n] = acc.shown[n]

Removes(new, acc, name) ==
  /\ new.blocked = acc.blocked \union {name} /\ DOMAIN new.shown = DOMAIN acc.shown \ {name}
  /\ \A n \in DOMAIN acc.shown \ {name} : new.shown[n] = acc.shown[n]

\* What Showing changes.
LEMMA ShowingEdits ==
  ASSUME NEW W, NEW acc \in Accounting(W), NEW d \in W, NEW confidence \in Nat,
         NEW evidence \in SUBSET UNION {e.evidence : e \in W}
  PROVE  /\ Showing(acc, d.name, d.value, confidence, evidence) \in Accounting(W)
         /\ Adds(Showing(acc, d.name, d.value, confidence, evidence), acc,
                 d.name, d.value, confidence, evidence)
<1> DEFINE names == {e.name : e \in W}
           R == [value : {e.value : e \in W}, confidence : Nat,
                 evidence : SUBSET UNION {e.evidence : e \in W}]
           r == [value |-> d.value, confidence |-> confidence, evidence |-> evidence]
           F == UNION {[N -> R] : N \in SUBSET names}
           new == Showing(acc, d.name, d.value, confidence, evidence)
           f == [n \in DOMAIN acc.shown \union {d.name} |-> IF n = d.name THEN r ELSE acc.shown[n]]
<1>1. acc \in [shown : F, blocked : SUBSET names]
  BY DEF Accounting
<1>2. r \in R /\ d.name \in names
  OBVIOUS
<1>3. r.value = d.value /\ r.confidence = confidence /\ r.evidence = evidence
  OBVIOUS
<1>4. acc.shown \in F /\ acc.blocked \in SUBSET names
  BY <1>1
<1> HIDE DEF R, r
<1>5. PICK N \in SUBSET names : acc.shown \in [N -> R]
  BY <1>4
<1>6. f \in [N \union {d.name} -> R] /\ N \union {d.name} \in SUBSET names
  BY <1>2, <1>5
<1>7. f \in F
  BY <1>6
<1>8. new = [acc EXCEPT !.shown = f]
  BY Zenon DEF Showing, r
<1> HIDE DEF F, names
<1>9. /\ new \in [shown : F, blocked : SUBSET names]
      /\ new.shown = f /\ new.blocked = acc.blocked
  <2> HIDE DEF f, new
  <2> QED
    BY <1>1, <1>7, <1>8
<1>10. new \in Accounting(W)
  BY <1>9, Zenon DEF Accounting, F, R, names
<1>11. /\ DOMAIN f = DOMAIN acc.shown \union {d.name} /\ f[d.name] = r
       /\ \A n \in DOMAIN acc.shown \ {d.name} : f[n] = acc.shown[n]
  OBVIOUS
<1> HIDE DEF new, f
<1> QED
  BY <1>3, <1>9, <1>10, <1>11, Zenon DEF new, Adds

\* What Suppressed changes.
LEMMA SuppressedEdits ==
  ASSUME NEW W, NEW acc \in Accounting(W), NEW d \in W
  PROVE  /\ Suppressed(acc, d.name) \in Accounting(W)
         /\ Removes(Suppressed(acc, d.name), acc, d.name)
<1> DEFINE names == {e.name : e \in W}
           R == [value : {e.value : e \in W}, confidence : Nat,
                 evidence : SUBSET UNION {e.evidence : e \in W}]
           F == UNION {[N -> R] : N \in SUBSET names}
           new == Suppressed(acc, d.name)
           f == Restrict(acc.shown, DOMAIN acc.shown \ {d.name})
           b == acc.blocked \union {d.name}
<1>1. acc \in [shown : F, blocked : SUBSET names]
  BY DEF Accounting
<1>2. d.name \in names
  OBVIOUS
<1>4. acc.shown \in F /\ acc.blocked \in SUBSET names
  BY <1>1
<1> HIDE DEF R
<1>5. PICK N \in SUBSET names : acc.shown \in [N -> R]
  BY <1>4
<1>6. f \in [N \ {d.name} -> R] /\ N \ {d.name} \in SUBSET names
  BY <1>5 DEF Restrict
<1>7. f \in F
  BY <1>6
<1>8. new = [acc EXCEPT !.shown = f, !.blocked = b]
  BY Zenon DEF Suppressed
<1>a. b \in SUBSET names
  BY <1>2, <1>4
<1>11. /\ DOMAIN f = DOMAIN acc.shown \ {d.name}
       /\ \A n \in DOMAIN acc.shown \ {d.name} : f[n] = acc.shown[n]
  BY DEF Restrict
<1> HIDE DEF F, names
<1>9. /\ new \in [shown : F, blocked : SUBSET names]
      /\ new.shown = f /\ new.blocked = b
  <2> HIDE DEF f, new, b
  <2> QED
    BY <1>1, <1>7, <1>8, <1>a
<1>10. new \in Accounting(W)
  BY <1>9, Zenon DEF Accounting, F, R, names
<1> HIDE DEF new, f
<1> QED
  BY <1>9, <1>10, <1>11, Zenon DEF new, Removes

\* One more detail: nothing changes of the others.
LEMMA OneMoreDetail ==
  ASSUME NEW W, \A d \in W : ADetail(d), NEW acc \in Accounting(W), NEW stated \in SUBSET W,
         NEW d \in W, Accounts(acc, stated)
  PROVE  /\ ExtendDetail(acc, d) \in Accounting(W)
         /\ Accounts(ExtendDetail(acc, d), stated \union {d})
<1> DEFINE new == ExtendDetail(acc, d)
           more == stated \union {d}
           n == d.name
           old == acc.shown[n]
<1>1. \A x : x # n => Of(more, x) = Of(stated, x)
  BY DEF Of
<1>2. Of(more, n) = Of(stated, n) \union {d}
  BY DEF Of
<1>3. /\ \A x : x \in acc.blocked <=> Disagree(Of(stated, x))
      /\ \A x : x \in DOMAIN acc.shown <=> Of(stated, x) # {} /\ x \notin acc.blocked
      /\ \A x \in DOMAIN acc.shown : Sums(acc.shown[x], Of(stated, x))
  BY Zenon DEF Accounts
<1> SUFFICES /\ new \in Accounting(W)
             /\ \A x : x # n => (x \in new.blocked <=> x \in acc.blocked)
                                /\ (x \in DOMAIN new.shown <=> x \in DOMAIN acc.shown)
             /\ \A x \in DOMAIN acc.shown : x # n => new.shown[x] = acc.shown[x]
             /\ n \in new.blocked <=> Disagree(Of(more, n))
             /\ n \in DOMAIN new.shown <=> n \notin new.blocked
             /\ n \in DOMAIN new.shown => Sums(new.shown[n], Of(more, n))
  <2> HIDE DEF new, more
  <2>1. Of(more, n) # {}
    BY <1>2
  <2>2. ASSUME NEW x
        PROVE  /\ x \in new.blocked <=> Disagree(Of(more, x))
               /\ x \in DOMAIN new.shown <=> Of(more, x) # {} /\ x \notin new.blocked
               /\ x \in DOMAIN new.shown => Sums(new.shown[x], Of(more, x))
    <3>1. CASE x = n
      BY <2>1, <3>1, Zenon
    <3>2. CASE x # n
      BY <1>1, <1>3, <3>2, Zenon
    <3> QED
      BY <3>1, <3>2
  <2> QED
    BY <2>2, Zenon DEF Accounts, new, more
<1>4. CASE n \in acc.blocked
  <2>1. new = acc
    BY <1>4, Zenon DEF ExtendDetail
  <2>2. Disagree(Of(more, n))
    <3>1. Disagree(Of(stated, n))
      BY <1>3, <1>4, Zenon
    <3> HIDE DEF more, n
    <3> QED
      BY <3>1, <1>2, Zenon DEF Disagree
  <2>3. n \notin DOMAIN acc.shown
    BY <1>3, <1>4, Zenon
  <2> HIDE DEF new, more
  <2> QED
    BY <1>4, <2>1, <2>2, <2>3, Zenon
<1>5. CASE n \notin acc.blocked \union DOMAIN acc.shown
  <2>1. new = Showing(acc, n, d.value, d.confidence, d.evidence)
    BY <1>5, Zenon DEF ExtendDetail
  <2>2. d.confidence \in Nat /\ d.evidence \in SUBSET UNION {e.evidence : e \in W}
    BY DEF ADetail
  <2>3. /\ new \in Accounting(W) /\ new.blocked = acc.blocked
        /\ DOMAIN new.shown = DOMAIN acc.shown \union {n}
        /\ new.shown[n].value = d.value
        /\ new.shown[n].confidence = d.confidence
        /\ new.shown[n].evidence = d.evidence
        /\ \A x \in DOMAIN acc.shown \ {n} : new.shown[x] = acc.shown[x]
    <3>1. new \in Accounting(W) /\ Adds(new, acc, n, d.value, d.confidence, d.evidence)
      <4> HIDE DEF new
      <4> QED
        BY <2>1, <2>2, ShowingEdits
    <3> QED
      BY <3>1, Zenon DEF Adds
  <2>4. Of(stated, n) = {} /\ Of(more, n) = {d}
    BY <1>2, <1>3, <1>5
  <2>5. ~Disagree(Of(more, n))
    BY <2>4 DEF Disagree
  <2> HIDE DEF new, more
  <2>6. Sums(new.shown[n], Of(more, n))
    BY <2>2, <2>3, <2>4 DEF Sums
  <2> QED
    BY <1>5, <2>3, <2>5, <2>6
<1>6. CASE n \in DOMAIN acc.shown \ acc.blocked /\ old.value # d.value
  <2>1. new = Suppressed(acc, n)
    BY <1>6, Zenon DEF ExtendDetail
  <2>2. /\ new \in Accounting(W) /\ new.blocked = acc.blocked \union {n}
        /\ DOMAIN new.shown = DOMAIN acc.shown \ {n}
        /\ \A x \in DOMAIN acc.shown \ {n} : new.shown[x] = acc.shown[x]
    <3>1. new \in Accounting(W) /\ Removes(new, acc, n)
      BY <2>1, SuppressedEdits, Zenon
    <3> QED
      BY <3>1, Zenon DEF Removes
  <2>3. PICK e \in Of(stated, n) : old.value = e.value
    BY <1>3, <1>6, Zenon DEF Sums
  <2>4. Disagree(Of(more, n))
    BY <1>2, <1>6, <2>3 DEF Disagree
  <2> HIDE DEF new, more
  <2> QED
    BY <2>2, <2>4
<1>7. CASE n \in DOMAIN acc.shown \ acc.blocked /\ old.value = d.value
  <2> DEFINE least == Min({old.confidence, d.confidence})
             all == old.evidence \union d.evidence
  <2>1. new = Showing(acc, n, d.value, least, all)
    BY <1>7, Zenon DEF ExtendDetail
  <2>2. Sums(old, Of(stated, n)) /\ ~Disagree(Of(stated, n))
    BY <1>3, <1>7, Zenon
  <2>a. Of(stated, n) \subseteq W
    BY DEF Of
  <2>3. d.confidence \in Nat /\ old.confidence \in Nat
    BY <2>2, <2>a DEF Sums, ADetail
  <2>4. /\ least \in {old.confidence, d.confidence}
        /\ least <= old.confidence /\ least <= d.confidence
    BY <2>3, LeastOfTwo, Zenon
  <2>5. old.evidence = UNION {e.evidence : e \in Of(stated, n)}
    BY <2>2, Zenon DEF Sums
  <2>6. all = UNION {e.evidence : e \in Of(more, n)} /\ all \in SUBSET UNION {e.evidence : e \in W}
    BY <1>2, <2>5, <2>a
  <2>7. least \in Nat
    BY <2>3, <2>4
  <2> HIDE DEF new, more, least, all, old
  <2>8. /\ new \in Accounting(W) /\ new.blocked = acc.blocked
        /\ DOMAIN new.shown = DOMAIN acc.shown \union {n}
        /\ new.shown[n].value = d.value
        /\ new.shown[n].confidence = least
        /\ new.shown[n].evidence = all
        /\ \A x \in DOMAIN acc.shown \ {n} : new.shown[x] = acc.shown[x]
    <3>1. new \in Accounting(W) /\ Adds(new, acc, n, d.value, least, all)
      BY <2>1, <2>6, <2>7, ShowingEdits, Zenon
    <3> QED
      BY <3>1, Zenon DEF Adds
  <2>9. /\ \A e \in Of(stated, n) : old.value = e.value /\ old.confidence <= e.confidence
        /\ \E e \in Of(stated, n) : old.confidence = e.confidence
    BY <2>2, Zenon DEF Sums
  <2>10. ~Disagree(Of(more, n))
    BY <1>2, <1>7, <2>9 DEF Disagree
  <2>11. \A e \in Of(stated, n) : e.confidence \in Nat
    BY <2>a DEF ADetail
  <2>12. \A e \in Of(more, n) : new.shown[n].value = e.value /\ new.shown[n].confidence <= e.confidence
    BY <1>2, <1>7, <2>3, <2>4, <2>7, <2>8, <2>9, <2>11
  <2>13. \E e \in Of(more, n) : new.shown[n].confidence = e.confidence
    BY <1>2, <2>4, <2>8, <2>9
  <2>14. Sums(new.shown[n], Of(more, n))
    BY <2>6, <2>8, <2>12, <2>13, Zenon DEF Sums
  <2> QED
    BY <1>7, <2>8, <2>10, <2>14
<1> QED
  BY <1>4, <1>5, <1>6, <1>7

\* ExtendDetail, from detail to detail, accounts for all of them.
LEMMA DetailsAccount ==
  ASSUME NEW W, \A d \in W : ADetail(d), NEW details \in Seq(W)
  PROVE  LET result == FoldLeft(ExtendDetail, NothingStated, details)
         IN  Accounts(result, Range(details))
<1> DEFINE n == Len(details)
           base == NothingStated
           V == Accounting(W)
<1>1. n \in Nat /\ \A k \in 1..n : details[k] \in W
  BY LenProperties, ElementOfSeq
<1>2. base \in V /\ Accounts(base, {})
  <2> DEFINE names == {d.name : d \in W}
             R == [value : {d.value : d \in W}, confidence : Nat,
                   evidence : SUBSET UNION {d.evidence : d \in W}]
  <2>1. << >> \in [{} -> R] /\ DOMAIN << >> = {}
    OBVIOUS
  <2> HIDE DEF names, R
  <2>2. << >> \in UNION {[N -> R] : N \in SUBSET names}
    BY <2>1
  <2>3. base \in [shown : UNION {[N -> R] : N \in SUBSET names}, blocked : SUBSET names]
    BY <2>2 DEF NothingStated
  <2>4. base \in V
    BY <2>3, Zenon DEF Accounting, R, names
  <2>5. base.blocked = {} /\ DOMAIN base.shown = {} /\ \A x : Of({}, x) = {}
    BY <2>1 DEF Of, NothingStated
  <2>6. ~Disagree({})
    BY DEF Disagree
  <2>7. Accounts(base, {})
    BY <2>5, <2>6 DEF Accounts
  <2> QED
    BY <2>4, <2>7
<1> DEFINE U == {v \in V : \E s \in SUBSET W : Accounts(v, s)}
<1>3. base \in U /\ DetailKeeps(U, W)
  <2>1. base \in U
    BY <1>2, Zenon
  <2>2. ASSUME NEW v \in U, NEW d \in W PROVE ExtendDetail(v, d) \in U
    <3>1. PICK s \in SUBSET W : Accounts(v, s)
      BY Zenon
    <3>2. v \in Accounting(W)
      BY Zenon
    <3>3. ExtendDetail(v, d) \in V /\ Accounts(ExtendDetail(v, d), s \union {d})
      BY <3>1, <3>2, OneMoreDetail, Zenon
    <3>4. s \union {d} \in SUBSET W
      BY <3>1
    <3> QED
      BY <3>3, <3>4, Zenon
  <2> QED
    BY <2>1, <2>2, Zenon DEF DetailKeeps
<1> HIDE DEF U
<1>4. PICK t : DetailRun(t, details, U)
  BY <1>3, DetailFold, Zenon
<1>5. /\ t \in [0..n -> U] /\ t[0] = base
      /\ \A k \in 1..n : t[k] = ExtendDetail(t[k - 1], details[k])
      /\ FoldLeft(ExtendDetail, base, details) = t[n]
  BY <1>4, Zenon DEF DetailRun
<1> DEFINE Upto(k) == {details[i] : i \in 1..k}
           T == {k \in 0..n : Accounts(t[k], Upto(k))}
<1>6. 0 \in T
  <2>1. 0 \in 0..n /\ 1..0 = {}
    BY <1>1
  <2>2. Upto(0) = {}
    BY <2>1
  <2> QED
    BY <1>2, <1>5, <2>1, <2>2, Zenon
<1>7. ASSUME NEW k \in 0..n, k < n, k \in T
      PROVE  k + 1 \in T
  <2>1. k + 1 \in 1..n /\ k + 1 \in 0..n /\ (k + 1) - 1 = k
        /\ 1..(k + 1) = 1..k \union {k + 1} /\ 1..k \subseteq 1..n
    BY <1>7, <1>1
  <2> DEFINE d == details[k + 1]
  <2>2. t[k + 1] = ExtendDetail(t[k], d) /\ t[k] \in U /\ d \in W
    BY <2>1, <1>1, <1>5, Zenon
  <2>3. t[k] \in V
    BY <2>2, Zenon DEF U
  <2>4. Upto(k) \in SUBSET W
    BY <1>1, <2>1
  <2>5. Upto(k + 1) = Upto(k) \union {d}
    <3> DEFINE j == k + 1
    <3>1. 1..j = 1..k \union {j}
      BY <2>1
    <3> HIDE DEF j
    <3> QED
      BY <3>1 DEF j
  <2> HIDE DEF d
  <2>6. Accounts(t[k + 1], Upto(k) \union {d})
    <3>1. Accounts(t[k], Upto(k))
      BY <1>7
    <3> QED
      <4> HIDE DEF Upto
      <4>1. t[k] \in Accounting(W) /\ d \in W /\ Upto(k) \in SUBSET W
        BY <2>2, <2>3, <2>4, Zenon
      <4>2. Accounts(ExtendDetail(t[k], d), Upto(k) \union {d})
        BY <4>1, <3>1, OneMoreDetail, Zenon
      <4> QED
        BY <2>2, <4>2, Zenon
  <2> QED
    BY <2>1, <2>5, <2>6, Zenon
<1> HIDE DEF T
<1>8. 0..n \subseteq T
  BY <1>1, <1>6, <1>7, UpTo
<1>9. n \in T
  BY <1>1, <1>8
<1>10. Range(details) = Upto(n)
  BY RangeEquality
<1> QED
  BY <1>5, <1>9, <1>10, Zenon DEF T

\* The library has two names for the elements of a sequence.
LEMMA RangeIsSet == \A s : Range(s) = ToSet(s)
BY DEF Range, ToSet

\* A fact's details, in text the build has.
Offered(strings, f) == {d \in Range(f.details) : d.text = Unstated \/ d.text \in DOMAIN strings}

\* An enhancement with what a fact offers.
Carries(e, f, strings) ==
  /\ e.keys = f.keys
  /\ e.details \in Seq(Range(f.details)) /\ Range(e.details) = Offered(strings, f)

\* Enhancements for the facts that offer something, and no others.
CarriesFacts(enhancements, facts, strings) ==
  /\ \A e \in Range(enhancements) : \E f \in Range(facts) : Carries(e, f, strings)
  /\ \A f \in Range(facts) : Offered(strings, f) # {} =>
       \E e \in Range(enhancements) : Carries(e, f, strings)

\* The details in text the build has.
LEMMA ShownDetails ==
  ASSUME NEW strings, NEW details, details \in Seq(Range(details))
  PROVE  /\ Only(details, LAMBDA d : d.text = Unstated \/ d.text \in DOMAIN strings) \in Seq(Range(details))
         /\ Range(Only(details, LAMBDA d : d.text = Unstated \/ d.text \in DOMAIN strings))
              = {d \in Range(details) : d.text = Unstated \/ d.text \in DOMAIN strings}
<1> DEFINE Test(d) == d.text = Unstated \/ d.text \in DOMAIN strings
           P == {i \in DOMAIN details : Test(details[i])}
           seqs == [i \in DOMAIN details |-> IF Test(details[i]) THEN << details[i] >> ELSE << >>]
<1>1. seqs = [i \in DOMAIN details |-> IF i \in P THEN << details[i] >> ELSE << >>]
  OBVIOUS
<1>2. Only(details, Test) = FlattenSeq(seqs)
  BY Zenon DEF Only
<1>3. Range(details) = {details[i] : i \in DOMAIN details}
  BY DEF Range
<1>4. {details[i] : i \in P \intersect DOMAIN details} = {d \in Range(details) : Test(d)}
  BY <1>3
<1> HIDE DEF P, seqs
<1>5. FlattenSeq(seqs) \in Seq(Range(details))
      /\ Range(FlattenSeq(seqs)) = {details[i] : i \in P \intersect DOMAIN details}
  BY <1>1, Filtered, Zenon
<1> QED
  BY <1>2, <1>4, <1>5, Zenon

\* A provider's set has the details of its facts, and of no others.
LEMMA TacticalCarries ==
  ASSUME NEW strings, NEW result, AFinding(result)
  PROVE  /\ TacticalSet(strings, result).enhancements
              \in Seq(Range(TacticalSet(strings, result).enhancements))
         /\ CarriesFacts(TacticalSet(strings, result).enhancements, result.facts, strings)
<1> DEFINE facts == result.facts
           n == Len(facts)
           shown(f) == Only(f.details, LAMBDA d : d.text = Unstated \/ d.text \in DOMAIN strings)
           its(i) == Enhancement(strings, facts[i].id, facts[i].keys, {}, shown(facts[i]))
           all == [i \in DOMAIN facts |-> its(i)]
           Test(e) == e.details # << >>
           P == {i \in DOMAIN all : Test(all[i])}
           seqs == [i \in DOMAIN all |-> IF Test(all[i]) THEN << all[i] >> ELSE << >>]
           left == Only(all, Test)
<1>1. facts \in Seq(Range(facts)) /\ n \in Nat /\ DOMAIN facts = 1..n
      /\ \A i \in 1..n : facts[i] \in Range(facts)
  BY RangeIsSet, LenProperties, ElementOfSeq DEF AFinding
<1>2. \A f \in Range(facts) : f.details \in Seq(Range(f.details))
  BY RangeIsSet, Zenon DEF AFinding
<1>3. ASSUME NEW i \in 1..n
      PROVE  Carries(all[i], facts[i], strings) /\ all[i].details = shown(facts[i])
  <2>1. all[i] = its(i)
    BY <1>1, Zenon
  <2>2. its(i).keys = facts[i].keys /\ its(i).details = shown(facts[i])
    BY DEF Enhancement
  <2>3. facts[i].details \in Seq(Range(facts[i].details))
    BY <1>1, <1>2, Zenon
  <2> HIDE DEF facts, its, all
  <2>4. shown(facts[i]) \in Seq(Range(facts[i].details))
        /\ Range(shown(facts[i])) = Offered(strings, facts[i])
    BY <2>3, ShownDetails, Zenon DEF Offered
  <2> QED
    BY <2>1, <2>2, <2>4, Zenon DEF Carries
<1>4. left = TacticalSet(strings, result).enhancements
  <2>1. TacticalSet(strings, result) = [provider |-> result.provider, enhancements |-> left]
    BY Zenon DEF TacticalSet
  <2> QED
    BY <2>1
<1>5. DOMAIN all = 1..n /\ all \in Seq(Range(all)) /\ \A i \in 1..n : all[i] \in Range(all)
  <2>1. DOMAIN all = 1..n
    BY <1>1
  <2> HIDE DEF all
  <2>3. all = [i \in 1..n |-> all[i]]
    BY <2>1 DEF all
  <2>4. \A i \in 1..n : all[i] \in Range(all)
    BY <2>1 DEF Range
  <2>5. all \in [1..n -> Range(all)]
    BY <2>3, <2>4
  <2>6. all \in Seq(Range(all))
    BY <2>5, <1>1, FunctionIsSeq, Zenon
  <2> QED
    BY <2>1, <2>4, <2>6
<1>6. left \in Seq(Range(all)) /\ Range(left) = {all[i] : i \in P \intersect DOMAIN all}
  <2>1. seqs = [i \in DOMAIN all |-> IF i \in P THEN << all[i] >> ELSE << >>]
    BY Zenon
  <2>2. left = FlattenSeq(seqs)
    BY Zenon DEF Only
  <2> HIDE DEF P, seqs, all, left
  <2>3. FlattenSeq(seqs) \in Seq(Range(all))
        /\ Range(FlattenSeq(seqs)) = {all[i] : i \in P \intersect DOMAIN all}
    BY <2>1, <1>5, Filtered, Zenon
  <2> QED
    BY <2>2, <2>3, Zenon
<1>7. left \in Seq(Range(left))
  <2> HIDE DEF left, all
  <2> QED
    BY <1>6, SeqOfItsOwn, Zenon
<1>8. ASSUME NEW e \in Range(left)
      PROVE  \E f \in Range(facts) : Carries(e, f, strings)
  <2>1. PICK i \in P \intersect DOMAIN all : e = all[i]
    <3> HIDE DEF left, all, P
    <3> QED
      BY <1>6
  <2>2. i \in 1..n
    BY <2>1, <1>5, Zenon
  <2> HIDE DEF left, all, P
  <2> QED
    BY <2>1, <2>2, <1>1, <1>3, Zenon
<1>9. ASSUME NEW f \in Range(facts), Offered(strings, f) # {}
      PROVE  \E e \in Range(left) : Carries(e, f, strings)
  <2>1. PICK i \in 1..n : f = facts[i]
    BY <1>1 DEF Range
  <2>2. Carries(all[i], f, strings)
    BY <2>1, <1>3, Zenon
  <2>3. all[i].details # << >>
    <3>1. Range(all[i].details) # {}
      BY <2>2, <1>9, Zenon DEF Carries
    <3>2. Range(<< >>) = {}
      BY DEF Range
    <3> HIDE DEF all
    <3> QED
      BY <3>1, <3>2, Zenon
  <2>4. i \in P \intersect DOMAIN all
    BY <2>3, <1>5, Zenon
  <2>5. all[i] \in Range(left)
    <3> HIDE DEF P, all, left
    <3> QED
      BY <2>4, <1>6
  <2> HIDE DEF all, left
  <2> QED
    BY <2>2, <2>5, Zenon
<1> HIDE DEF left, facts
<1> QED
  BY <1>4, <1>7, <1>8, <1>9, Zenon DEF CarriesFacts, facts

\* Sequences of one kind put one after the other.
LEMMA AllTogether ==
  ASSUME NEW n \in Nat, NEW seqs, seqs = [i \in 1..n |-> seqs[i]],
         \A i \in 1..n : seqs[i] \in Seq(Range(seqs[i]))
  PROVE  /\ FlattenSeq(seqs) \in Seq(UNION {Range(seqs[i]) : i \in 1..n})
         /\ Range(FlattenSeq(seqs)) = UNION {Range(seqs[i]) : i \in 1..n}
<1> DEFINE S == UNION {Range(seqs[i]) : i \in 1..n}
<1>1. ASSUME NEW i \in 1..n PROVE seqs[i] \in Seq(S)
  <2>1. Range(seqs[i]) \subseteq S
    OBVIOUS
  <2>2. seqs[i] \in Seq(Range(seqs[i]))
    OBVIOUS
  <2> HIDE DEF S
  <2> QED
    BY <2>1, <2>2, SeqMonotonic
<1> HIDE DEF S
<1>2. seqs \in [1..n -> Seq(S)]
  BY <1>1
<1> QED
  BY <1>2, FlattenRange, Zenon DEF S

\* The enhancements that meet a contract.
LEMMA MeetingOnes ==
  ASSUME NEW contract, NEW s, s \in Seq(Range(s))
  PROVE  /\ Only(s, LAMBDA e : Meets(contract, e)) \in Seq(Range(s))
         /\ Range(Only(s, LAMBDA e : Meets(contract, e))) = {e \in Range(s) : Meets(contract, e)}
<1> DEFINE Test(e) == Meets(contract, e)
           P == {i \in DOMAIN s : Test(s[i])}
           seqs == [i \in DOMAIN s |-> IF Test(s[i]) THEN << s[i] >> ELSE << >>]
<1>1. seqs = [i \in DOMAIN s |-> IF i \in P THEN << s[i] >> ELSE << >>]
  OBVIOUS
<1>2. Only(s, Test) = FlattenSeq(seqs)
  BY Zenon DEF Only
<1>3. Range(s) = {s[i] : i \in DOMAIN s}
  BY DEF Range
<1>4. {s[i] : i \in P \intersect DOMAIN s} = {e \in Range(s) : Test(e)}
  BY <1>3
<1> HIDE DEF P, seqs
<1>5. FlattenSeq(seqs) \in Seq(Range(s))
      /\ Range(FlattenSeq(seqs)) = {s[i] : i \in P \intersect DOMAIN s}
  BY <1>1, Filtered, Zenon
<1> QED
  BY <1>2, <1>4, <1>5, Zenon

\* The facts of several providers that meet a contract.
FactsMeeting(contract, results) ==
  {f \in UNION {Range(r.facts) : r \in Range(results)} : Meets(contract, [keys |-> f.keys])}

\* An enhancement meets a contract by its keys.
LEMMA MeetsByKeys ==
  \A contract, e, f : e.keys = f.keys => (Meets(contract, e) <=> Meets(contract, [keys |-> f.keys]))
BY DEF Meets

\* The details a contract is shown: those of the facts that meet it, of whatever
\* provider, in text the build has.
LEMMA DetailsOfContract ==
  ASSUME NEW strings, NEW contract, NEW results, AreFindings(results)
  PROVE  \E details :
           /\ details \in Seq(Range(details))
           /\ Range(details) = UNION {Offered(strings, f) : f \in FactsMeeting(contract, results)}
           /\ Enhanced(contract, [i \in DOMAIN results |-> TacticalSet(strings, results[i])]).details
                = FoldLeft(ExtendDetail, NothingStated, details).shown
<1> DEFINE n == Len(results)
           sets == [i \in DOMAIN results |-> TacticalSet(strings, results[i])]
           of(s) == Only(sets[s].enhancements, LAMBDA e : Meets(contract, e))
           parts == [s \in DOMAIN sets |-> of(s)]
           meeting == FlattenSeq(parts)
           lists == [i \in DOMAIN meeting |-> meeting[i].details]
           details == FlattenSeq(lists)
<1>1. /\ n \in Nat /\ DOMAIN results = 1..n
      /\ \A i \in 1..n : results[i] \in Range(results)
      /\ Range(results) = {results[i] : i \in 1..n}
  <2>1. results \in Seq(Range(results))
    BY RangeIsSet, Zenon DEF AreFindings
  <2>2. n \in Nat /\ DOMAIN results = 1..n
    BY <2>1, LenProperties
  <2> QED
    BY <2>2 DEF Range
<1>a. \A r \in Range(results) : \E i \in 1..n : r = results[i]
  BY <1>1 DEF Range
<1>2. \A i \in 1..n : AFinding(results[i])
  BY <1>1, RangeIsSet, Zenon DEF AreFindings
<1>3. DOMAIN sets = 1..n /\ \A i \in 1..n : sets[i] = TacticalSet(strings, results[i])
  BY <1>1
<1>4. \A i \in 1..n : /\ sets[i].enhancements \in Seq(Range(sets[i].enhancements))
                      /\ CarriesFacts(sets[i].enhancements, results[i].facts, strings)
  BY <1>2, <1>3, TacticalCarries, Zenon
<1> HIDE DEF sets, n
<1>5. \A s \in 1..n : /\ of(s) \in Seq(Range(sets[s].enhancements))
                      /\ Range(of(s)) = {e \in Range(sets[s].enhancements) : Meets(contract, e)}
  BY <1>4, MeetingOnes, Zenon
<1>6. \A s \in 1..n : of(s) \in Seq(Range(of(s)))
  BY <1>5, SeqOfItsOwn, Zenon
<1>7. /\ parts = [s \in 1..n |-> parts[s]]
      /\ \A s \in 1..n : parts[s] = of(s)
  BY <1>3, Zenon
<1> HIDE DEF parts, of
<1>8. \A s \in 1..n : parts[s] \in Seq(Range(parts[s]))
  BY <1>6, <1>7, Zenon
<1>9. /\ meeting \in Seq(UNION {Range(parts[s]) : s \in 1..n})
      /\ Range(meeting) = UNION {Range(parts[s]) : s \in 1..n}
  BY <1>1, <1>7, <1>8, AllTogether, Zenon
<1> HIDE DEF meeting
<1>10. Range(meeting) = UNION {{e \in Range(sets[s].enhancements) : Meets(contract, e)} : s \in 1..n}
  BY <1>5, <1>7, <1>9, Zenon
<1>11. /\ \A e \in Range(meeting) : \E f \in FactsMeeting(contract, results) : Carries(e, f, strings)
       /\ \A f \in FactsMeeting(contract, results) : Offered(strings, f) # {} =>
            \E e \in Range(meeting) : Carries(e, f, strings)
  <2>1. ASSUME NEW e \in Range(meeting)
        PROVE  \E f \in FactsMeeting(contract, results) : Carries(e, f, strings)
    <3>1. PICK s \in 1..n : e \in Range(sets[s].enhancements) /\ Meets(contract, e)
      BY <1>10
    <3>2. PICK f \in Range(results[s].facts) : Carries(e, f, strings)
      BY <3>1, <1>4, Zenon DEF CarriesFacts
    <3>3. Meets(contract, [keys |-> f.keys])
      BY <3>1, <3>2, MeetsByKeys, Zenon DEF Carries
    <3>4. f \in UNION {Range(r.facts) : r \in Range(results)}
      BY <3>2, <1>1
    <3> QED
      BY <3>2, <3>3, <3>4, Zenon DEF FactsMeeting
  <2>2. ASSUME NEW f \in FactsMeeting(contract, results), Offered(strings, f) # {}
        PROVE  \E e \in Range(meeting) : Carries(e, f, strings)
    <3>1. PICK s \in 1..n : f \in Range(results[s].facts)
      <4>1. f \in UNION {Range(r.facts) : r \in Range(results)}
        BY DEF FactsMeeting
      <4>2. PICK r \in Range(results) : f \in Range(r.facts)
        BY <4>1
      <4>3. \E s \in 1..n : r = results[s]
        BY <1>a, Zenon
      <4> QED
        BY <4>2, <4>3, Zenon
    <3>2. PICK e \in Range(sets[s].enhancements) : Carries(e, f, strings)
      BY <3>1, <2>2, <1>4, Zenon DEF CarriesFacts
    <3>3. Meets(contract, [keys |-> f.keys])
      BY DEF FactsMeeting
    <3>4. Meets(contract, e)
      BY <3>2, <3>3, MeetsByKeys, Zenon DEF Carries
    <3>5. e \in Range(meeting)
      BY <3>2, <3>4, <1>10
    <3> QED
      BY <3>2, <3>5, Zenon
  <2> QED
    BY <2>1, <2>2
<1> DEFINE m == Len(meeting)
<1>12. m \in Nat /\ DOMAIN meeting = 1..m /\ Range(meeting) = {meeting[i] : i \in 1..m}
  <2>1. m \in Nat /\ DOMAIN meeting = 1..m
    BY <1>9, LenProperties
  <2> QED
    BY <2>1 DEF Range
<1>13. \A i \in 1..m : meeting[i] \in Range(meeting)
  BY <1>12
<1> HIDE DEF m
<1>14. /\ lists = [i \in 1..m |-> lists[i]]
       /\ \A i \in 1..m : lists[i] = meeting[i].details
  BY <1>12, Zenon
<1>15. \A i \in 1..m : lists[i] \in Seq(Range(lists[i]))
  BY <1>11, <1>13, <1>14, SeqOfItsOwn, Zenon DEF Carries
<1> HIDE DEF lists
<1>16. /\ details \in Seq(UNION {Range(lists[i]) : i \in 1..m})
       /\ Range(details) = UNION {Range(lists[i]) : i \in 1..m}
  BY <1>12, <1>14, <1>15, AllTogether, Zenon
<1> HIDE DEF details
<1>17. details \in Seq(Range(details))
  BY <1>16, Zenon
<1>18. Range(details) = UNION {Offered(strings, f) : f \in FactsMeeting(contract, results)}
  <2> DEFINE all == UNION {Offered(strings, f) : f \in FactsMeeting(contract, results)}
  <2>1. ASSUME NEW d \in Range(details) PROVE d \in all
    <3>1. PICK i \in 1..m : d \in Range(lists[i])
      BY <1>16
    <3>2. PICK f \in FactsMeeting(contract, results) : Carries(meeting[i], f, strings)
      BY <1>11, <1>13, Zenon
    <3>3. d \in Offered(strings, f)
      BY <3>1, <3>2, <1>14, Zenon DEF Carries
    <3> QED
      BY <3>3
  <2>2. ASSUME NEW d \in all PROVE d \in Range(details)
    <3>1. PICK f \in FactsMeeting(contract, results) : d \in Offered(strings, f)
      OBVIOUS
    <3>2. PICK e \in Range(meeting) : Carries(e, f, strings)
      <4>1. Offered(strings, f) # {}
        BY <3>1
      <4> QED
        BY <4>1, <1>11, Zenon
    <3>3. PICK i \in 1..m : e = meeting[i]
      BY <1>12
    <3>4. d \in Range(lists[i])
      BY <3>1, <3>2, <3>3, <1>14, Zenon DEF Carries
    <3> QED
      BY <3>4, <1>16
  <2> HIDE DEF all
  <2>3. Range(details) = all
    BY <2>1, <2>2
  <2> QED
    BY <2>3, Zenon DEF all
<1>19. Enhanced(contract, sets).details = FoldLeft(ExtendDetail, NothingStated, details).shown
  BY DEF Enhanced, details, lists, meeting, parts, of
<1> QED
  BY <1>17, <1>18, <1>19, Zenon DEF sets

\* The confidences and the values of finitely many details.
LEMMA FewValues ==
  ASSUME NEW details, details \in Seq(Range(details)), NEW name
  PROVE  IsFiniteSet({d.value : d \in Of(Range(details), name)})
<1> DEFINE n == Len(details)
           P == {i \in 1..n : details[i].name = name}
           values == {d.value : d \in Of(Range(details), name)}
           f == [i \in P |-> details[i].value]
<1>1. n \in Nat /\ Range(details) = {details[i] : i \in 1..n}
  <2>1. n \in Nat /\ DOMAIN details = 1..n
    BY LenProperties
  <2> QED
    BY <2>1 DEF Range
<1>2. IsFiniteSet(P)
  <2>1. IsFiniteSet(1..n)
    BY <1>1, FS_Interval
  <2> QED
    BY <2>1, FS_Subset
<1>3. \A i \in P : details[i] \in Of(Range(details), name)
  BY <1>1 DEF Of
<1>4. \A d \in Of(Range(details), name) : \E i \in P : d = details[i]
  BY <1>1 DEF Of
<1> HIDE DEF P
<1>5. f \in [P -> values]
  BY <1>3
<1>6. \A v \in values : \E i \in P : f[i] = v
  BY <1>4
<1>7. f \in Surjection(P, values)
  BY <1>5, <1>6, Zenon DEF Surjection
<1> QED
  BY <1>2, <1>7, FS_Surjection, Zenon

\* The least of some numbers is their Min.
LEMMA LeastStated ==
  ASSUME NEW S \in SUBSET Nat, NEW m \in S, \A x \in S : m <= x
  PROVE  Min(S) = m
<1>1. \A x \in S : (\A y \in S : x <= y) => x = m
  OBVIOUS
<1> QED
  BY <1>1, Zenon DEF Min

\* A detail is shown exactly when all that meet the contract and state it agree,
\* whatever the providers return.
THEOREM DetailsAgreeAlways ==
  ASSUME NEW strings, NEW contract, NEW results, AreFindings(results)
  PROVE  AgreedIsShown(strings, contract, results)
<1> DEFINE sets == [i \in DOMAIN results |-> TacticalSet(strings, results[i])]
           meeting == FactsMeeting(contract, results)
           StatedOf(n) == {d \in UNION {ToSet(f.details) : f \in meeting} :
                           d.name = n /\ d.text \in {Unstated} \union DOMAIN strings}
           shown == Enhanced(contract, sets).details
<1>1. PICK details :
        /\ details \in Seq(Range(details))
        /\ Range(details) = UNION {Offered(strings, f) : f \in meeting}
        /\ shown = FoldLeft(ExtendDetail, NothingStated, details).shown
  BY DetailsOfContract, Zenon
<1> DEFINE result == FoldLeft(ExtendDetail, NothingStated, details)
<1>2. ASSUME NEW d \in Range(details) PROVE ADetail(d)
  <2>1. PICK f \in meeting : d \in Range(f.details)
    BY <1>1 DEF Offered
  <2>2. PICK r \in Range(results) : f \in Range(r.facts)
    BY DEF FactsMeeting
  <2> QED
    BY <2>1, <2>2, RangeIsSet, Zenon DEF AreFindings, AFinding, ADetail
<1>3. Accounts(result, Range(details))
  BY <1>1, <1>2, DetailsAccount, Zenon
<1>4. \A n : StatedOf(n) = Of(Range(details), n)
  <2> TAKE n
  <2>1. ASSUME NEW d \in StatedOf(n) PROVE d \in Of(Range(details), n)
    <3>1. PICK f \in meeting : d \in Range(f.details)
      BY RangeIsSet
    <3>2. d \in Offered(strings, f)
      BY <3>1 DEF Offered
    <3> QED
      BY <3>2, <1>1 DEF Of
  <2>2. ASSUME NEW d \in Of(Range(details), n) PROVE d \in StatedOf(n)
    <3>1. PICK f \in meeting : d \in Offered(strings, f)
      BY <1>1 DEF Of
    <3>2. d \in ToSet(f.details)
      BY <3>1, RangeIsSet, Zenon DEF Offered
    <3>3. d.name = n /\ d.text \in {Unstated} \union DOMAIN strings
      BY <3>1 DEF Of, Offered
    <3> QED
      BY <3>2, <3>3
  <2> QED
    BY <2>1, <2>2
<1> HIDE DEF result, shown, StatedOf, meeting, sets
<1>5. ASSUME NEW n
      PROVE  LET values == {d.value : d \in StatedOf(n)}
             IN  IF Cardinality(values) # 1 THEN n \notin DOMAIN shown
                 ELSE /\ n \in DOMAIN shown
                      /\ {shown[n].value} = values
                      /\ shown[n].confidence = Min({d.confidence : d \in StatedOf(n)})
                      /\ shown[n].evidence = UNION {d.evidence : d \in StatedOf(n)}
  <2> DEFINE stated == Of(Range(details), n)
             values == {d.value : d \in stated}
             confidences == {d.confidence : d \in stated}
  <2>1. StatedOf(n) = stated
    BY <1>4
  <2>2. shown = result.shown
    BY <1>1 DEF result
  <2>3. /\ n \in result.blocked <=> Disagree(stated)
        /\ n \in DOMAIN shown <=> stated # {} /\ n \notin result.blocked
        /\ n \in DOMAIN shown => Sums(shown[n], stated)
    BY <1>3, <2>2, Zenon DEF Accounts
  <2>4. \A d \in stated : d.confidence \in Nat
    BY <1>2 DEF Of, ADetail
  <2>5. IsFiniteSet(values)
    BY <1>1, FewValues, Zenon
  <2>6. Cardinality(values) = 1 <=> \E v : values = {v}
    BY <2>5, FS_Singleton, Zenon
  <2> HIDE DEF stated
  <2>7. (\E v : values = {v}) <=> stated # {} /\ ~Disagree(stated)
    BY DEF Disagree
  <2>8. ASSUME n \in DOMAIN shown
        PROVE  /\ {shown[n].value} = values
               /\ shown[n].confidence = Min(confidences)
               /\ shown[n].evidence = UNION {d.evidence : d \in stated}
    <3>1. /\ \A d \in stated : shown[n].value = d.value /\ shown[n].confidence <= d.confidence
          /\ \E d \in stated : shown[n].confidence = d.confidence
          /\ shown[n].evidence = UNION {d.evidence : d \in stated}
      BY <2>3, <2>8, Zenon DEF Sums
    <3>2. {shown[n].value} = values
      BY <3>1
    <3>3. /\ confidences \in SUBSET Nat /\ shown[n].confidence \in confidences
          /\ \A x \in confidences : shown[n].confidence <= x
      BY <3>1, <2>4
    <3> HIDE DEF confidences
    <3>4. shown[n].confidence = Min(confidences)
      BY <3>3, LeastStated, Zenon
    <3> QED
      BY <3>1, <3>2, <3>4
  <2> HIDE DEF values, confidences
  <2>9. Cardinality(values) = 1 <=> n \in DOMAIN shown
    BY <2>3, <2>6, <2>7, Zenon
  <2> QED
    BY <2>1, <2>8, <2>9, Zenon DEF values, confidences
<1>6. meeting = {f \in UNION {ToSet(r.facts) : r \in ToSet(results)} :
                   Meets(contract, [keys |-> f.keys])}
  BY RangeIsSet, Zenon DEF FactsMeeting, meeting
<1> QED
  BY <1>5, <1>6, Zenon DEF AgreedIsShown, StatedOf, shown, sets

-----------------------------------------------------------------------------
(* The marks in the text and the list of blueprints (BlueprintCatalog).    *)

\* Entries, offer by offer.
GatherKeeps(V, W) == \A v \in V, w \in W : Gather(v, w) \in V

GatherRun(t, m, V) ==
  /\ t \in [0..Len(m) -> V] /\ t[0] = << >>
  /\ \A k \in 1..Len(m) : t[k] = Gather(t[k - 1], m[k])
  /\ FoldLeft(Gather, << >>, m) = t[Len(m)]

\* The entries after each offer, for as long as they stay what they are.
LEMMA GatherFold ==
  ASSUME NEW V, NEW W, << >> \in V, GatherKeeps(V, W), NEW m \in Seq(W)
  PROVE  \E t : GatherRun(t, m, V)
<1> DEFINE n == Len(m)
           op == [p \in V \X W |-> Gather(p[1], p[2])]
           Def(f) == [s \in SUBSET DOMAIN m |->
                        IF s = {} THEN << >> ELSE Gather(f[s \ {Max(s)}], m[Max(s)])]
           iter == CHOOSE f : f = Def(f)
<1>1. n \in Nat /\ DOMAIN m = 1..n /\ m \in [1..n -> W]
  BY LenProperties, SeqDef
<1>2. op \in [V \X W -> V] /\ \A v \in V, w \in W : op[<< v, w >>] = Gather(v, w)
  BY DEF GatherKeeps
<1>3. FoldLeft(Gather, << >>, m) = iter[1..n]
  <2>1. FoldLeft(Gather, << >>, m) = iter[DOMAIN m]
    BY Zenon DEF FoldLeft, MapThenFoldSet
  <2> QED
    BY <2>1, <1>1, Zenon
<1> HIDE DEF op, n
<1>4. PICK f \in [SUBSET (1..n) -> V] : IsFold(f, << >>, m, op, n)
  BY <1>1, <1>2, FoldExists, Zenon
<1>5. ASSUME NEW s \in SUBSET (1..n)
      PROVE  f[s] = IF s = {} THEN << >> ELSE Gather(f[s \ {Max(s)}], m[Max(s)])
  <2>1. IsStep(f, s, << >>, m, op, V, W)
    BY <1>1, <1>2, <1>4, FoldStep, Zenon
  <2> QED
    BY <2>1, <1>2, Zenon DEF IsStep
<1>6. iter = Def(iter)
  <2>1. f = Def(f)
    BY <1>1, <1>5, Zenon
  <2> QED
    BY <2>1, Zenon
<1> HIDE DEF iter
<1> DEFINE t == [k \in 0..n |-> iter[1..k]]
<1>7. t[0] = << >> /\ iter[1..n] = t[n]
  <2>1. iter[{}] = << >>
    BY <1>6, Zenon
  <2> QED
    BY <2>1, <1>1, Runs, Zenon
<1>8. \A k \in 1..n : t[k] = Gather(t[k - 1], m[k])
  <2> TAKE k \in 1..n
  <2>1. t[k] = iter[1..k] /\ t[k - 1] = iter[1..(k - 1)]
    BY <1>1, Runs, Zenon
  <2>2. Max(1..k) = k /\ (1..k) \ {k} = 1..(k - 1) /\ 1..k # {} /\ 1..k \in SUBSET DOMAIN m
    BY <1>1, Runs, LastOfRun, Zenon
  <2>3. iter[1..k] = Gather(iter[(1..k) \ {Max(1..k)}], m[Max(1..k)])
    BY <1>6, <2>2, Zenon
  <2> QED
    BY <2>1, <2>2, <2>3, Zenon
<1>9. t \in [0..n -> V]
  <2> DEFINE T == {k \in 0..n : t[k] \in V}
  <2>1. 0 \in T
    BY <1>1, <1>7, Runs, Zenon
  <2>2. \A i \in 0..n : i < n /\ i \in T => i + 1 \in T
    <3> TAKE i \in 0..n
    <3> HAVE i < n /\ i \in T
    <3>1. i + 1 \in 1..n /\ i + 1 \in 0..n /\ (i + 1) - 1 = i
      BY <1>1
    <3>2. t[i + 1] = Gather(t[i], m[i + 1]) /\ t[i] \in V /\ m[i + 1] \in W
      BY <3>1, <1>1, <1>8, Zenon
    <3> QED
      BY <3>1, <3>2, Zenon DEF GatherKeeps
  <2> HIDE DEF T
  <2>3. 0..n \subseteq T
    BY <1>1, <2>1, <2>2, UpTo
  <2>4. \A k \in 0..n : t[k] \in V
    BY <2>3, Zenon DEF T
  <2> QED
    BY <2>4, Zenon
<1> QED
  BY <1>3, <1>7, <1>8, <1>9, Zenon DEF n, GatherRun


\* An offer of what some offers offer.
EntriesOf(W) ==
  [name : {o.name : o \in W}, aliases : SUBSET {o.name : o \in W},
   sources : SUBSET {o.source : o \in W}, attribute : {o.attribute : o \in W}]

\* Entries for some of the offers.
Gatherings(W) == UNION {[D -> EntriesOf(W)] : D \in SUBSET {StableId(o) : o \in W}}

\* A new entry is one.
LEMMA EntryIsOne ==
  ASSUME NEW W, NEW o \in W
  PROVE  Entry(o) \in EntriesOf(W)
BY DEF Entry, EntriesOf

\* An extended entry keeps its name and all it had.
LEMMA ExtendedIsOne ==
  ASSUME NEW W, NEW o \in W, NEW e \in EntriesOf(W)
  PROVE  /\ Extended(e, o) \in EntriesOf(W)
         /\ Extended(e, o).name = e.name
         /\ Extended(e, o).sources = e.sources \union {o.source}
         /\ {e.name} \union e.aliases \union {o.name}
              = {Extended(e, o).name} \union Extended(e, o).aliases
BY DEF Extended, EntriesOf

\* Gather adds an entry or extends one, and leaves the others alone.
GatheredOne(new, old, o) ==
  /\ DOMAIN new = DOMAIN old \union {StableId(o)}
  /\ \A x \in DOMAIN old : x # StableId(o) => new[x] = old[x]
  /\ StableId(o) \in DOMAIN old => new[StableId(o)] = Extended(old[StableId(o)], o)
  /\ StableId(o) \notin DOMAIN old => new[StableId(o)] = Entry(o)

\* So does Gather.
LEMMA GatherIsOne ==
  ASSUME NEW old, NEW o
  PROVE  GatheredOne(Gather(old, o), old, o)
<1> DEFINE id == StableId(o)
           new == Gather(old, o)
           val(x) == CASE x # id -> old[x]
                       [] x = id /\ id \in DOMAIN old -> Extended(old[id], o)
                       [] x = id /\ id \notin DOMAIN old -> Entry(o)
<1>1. new = [x \in DOMAIN old \union {id} |-> val(x)]
  BY DEF Gather
<1>2. \A x : x # id => val(x) = old[x]
  OBVIOUS
<1>3. id \in DOMAIN old => val(id) = Extended(old[id], o)
  OBVIOUS
<1>4. id \notin DOMAIN old => val(id) = Entry(o)
  OBVIOUS
<1> HIDE DEF val, new, id
<1>5. DOMAIN new = DOMAIN old \union {id} /\ \A x \in DOMAIN new : new[x] = val(x)
  BY <1>1, Zenon
<1>6. /\ DOMAIN new = DOMAIN old \union {id}
      /\ \A x \in DOMAIN old : x # id => new[x] = old[x]
      /\ id \in DOMAIN old => new[id] = Extended(old[id], o)
      /\ id \notin DOMAIN old => new[id] = Entry(o)
  BY <1>2, <1>3, <1>4, <1>5
<1> QED
  BY <1>6, Zenon DEF GatheredOne, new, id

\* Gather makes entries of entries.
LEMMA GatherStays ==
  ASSUME NEW W
  PROVE  << >> \in Gatherings(W) /\ GatherKeeps(Gatherings(W), W)
<1> DEFINE Ids == {StableId(o) : o \in W}
<1>1. << >> \in Gatherings(W)
  <2>1. << >> \in [{} -> EntriesOf(W)]
    OBVIOUS
  <2>2. {} \in SUBSET Ids
    OBVIOUS
  <2> QED
    BY <2>1, <2>2, Zenon DEF Gatherings
<1>2. ASSUME NEW old \in Gatherings(W), NEW o \in W
      PROVE  Gather(old, o) \in Gatherings(W)
  <2> DEFINE new == Gather(old, o)
             id == StableId(o)
  <2>1. PICK D \in SUBSET Ids : old \in [D -> EntriesOf(W)]
    BY Zenon DEF Gatherings
  <2>2. new = [x \in D \union {id} |-> new[x]]
    <3>1. DOMAIN old = D
      BY <2>1
    <3> QED
      BY <3>1 DEF Gather
  <2>3. GatheredOne(new, old, o)
    BY GatherIsOne
  <2>4. id \in Ids
    OBVIOUS
  <2> HIDE DEF new, id
  <2>5. ASSUME NEW x \in D \union {id} PROVE new[x] \in EntriesOf(W)
    <3>1. D = DOMAIN old /\ \A y \in D : old[y] \in EntriesOf(W)
      BY <2>1
    <3>2. CASE x # id
      BY <3>1, <3>2, <2>3, <2>5 DEF GatheredOne, id
    <3>3. CASE x = id /\ id \in D
      BY <3>1, <3>3, <2>3, ExtendedIsOne DEF GatheredOne, id
    <3>4. CASE x = id /\ id \notin D
      BY <3>1, <3>4, <2>3, EntryIsOne DEF GatheredOne, id
    <3> QED
      BY <3>2, <3>3, <3>4
  <2>6. new \in [D \union {id} -> EntriesOf(W)]
    BY <2>2, <2>5
  <2>7. D \union {id} \in SUBSET Ids
    BY <2>4
  <2> QED
    BY <2>6, <2>7, Zenon DEF Gatherings, new
<1> QED
  BY <1>1, <1>2, Zenon DEF GatherKeeps

\* The entries say where each offer comes from and what it is called.
Tells(entries, o) ==
  /\ StableId(o) \in DOMAIN entries
  /\ o.source \in entries[StableId(o)].sources
  /\ o.name \in {entries[StableId(o)].name} \union entries[StableId(o)].aliases

\* What is known by name only has that name.
NamedByName(entries) ==
  \A id \in DOMAIN entries : IsFallback(id) => Normal(entries[id].name) = id.id

\* They tell of one more offer.
TellsAlso(W, new, old, o) ==
  /\ Tells(new, o)
  /\ \A p \in W : Tells(old, p) => Tells(new, p)
  /\ NamedByName(old) => NamedByName(new)
  /\ DOMAIN new = DOMAIN old \union {StableId(o)}

\* And Gather makes them do so.
LEMMA TellsMore ==
  ASSUME NEW W, NEW old \in Gatherings(W), NEW o \in W
  PROVE  TellsAlso(W, Gather(old, o), old, o)
<1> DEFINE new == Gather(old, o)
           id == StableId(o)
<1>1. GatheredOne(new, old, o)
  BY GatherIsOne
<1>2. \A x \in DOMAIN old : old[x] \in EntriesOf(W)
  BY DEF Gatherings
<1> HIDE DEF new
<1>3. CASE id \in DOMAIN old
  <2> DEFINE e == old[id]
  <2>1. new[id] = Extended(e, o) /\ DOMAIN new = DOMAIN old
    BY <1>1, <1>3 DEF GatheredOne
  <2>2. /\ new[id].name = e.name
        /\ new[id].sources = e.sources \union {o.source}
        /\ {e.name} \union e.aliases \union {o.name} = {new[id].name} \union new[id].aliases
    BY <2>1, <1>2, <1>3, ExtendedIsOne
  <2>3. Tells(new, o)
    BY <2>1, <2>2, <1>3 DEF Tells
  <2>4. ASSUME NEW p \in W, Tells(old, p) PROVE Tells(new, p)
    <3>1. CASE StableId(p) = id
      BY <3>1, <2>1, <2>2, <2>4 DEF Tells
    <3>2. CASE StableId(p) # id
      BY <3>2, <2>1, <2>4, <1>1 DEF Tells, GatheredOne
    <3> QED
      BY <3>1, <3>2
  <2>5. ASSUME NamedByName(old) PROVE NamedByName(new)
    <3> HIDE DEF id
    <3> SUFFICES ASSUME NEW x \in DOMAIN new, IsFallback(x)
                 PROVE  Normal(new[x].name) = x.id
      BY Zenon DEF NamedByName
    <3>1. new[x].name = old[x].name
      BY <2>1, <2>2, <1>1 DEF GatheredOne, id
    <3> QED
      BY <3>1, <2>1, <2>5 DEF NamedByName
  <2> QED
    BY <2>1, <2>3, <2>4, <2>5, <1>3 DEF new, TellsAlso
<1>4. CASE id \notin DOMAIN old
  <2>1. new[id] = Entry(o) /\ DOMAIN new = DOMAIN old \union {id}
    BY <1>1, <1>4 DEF GatheredOne
  <2>2. new[id].name = o.name /\ new[id].sources = {o.source}
    BY <2>1 DEF Entry
  <2>3. Tells(new, o)
    BY <2>1, <2>2 DEF Tells
  <2>4. ASSUME NEW p \in W, Tells(old, p) PROVE Tells(new, p)
    <3>1. StableId(p) \in DOMAIN old /\ StableId(p) # id
      BY <2>4, <1>4 DEF Tells
    <3> QED
      BY <3>1, <2>1, <2>4, <1>1 DEF Tells, GatheredOne
  <2>5. ASSUME NamedByName(old) PROVE NamedByName(new)
    <3>1. IsFallback(id) => id.id = Normal(o.name)
      BY DEF StableId, IsFallback
    <3> HIDE DEF id
    <3> SUFFICES ASSUME NEW x \in DOMAIN new, IsFallback(x)
                 PROVE  Normal(new[x].name) = x.id
      BY Zenon DEF NamedByName
    <3>2. CASE x = id
      BY <3>1, <3>2, <2>2
    <3>3. CASE x # id
      <4>1. x \in DOMAIN old /\ new[x] = old[x]
        BY <3>3, <2>1, <1>1 DEF GatheredOne, id
      <4> QED
        BY <4>1, <2>5 DEF NamedByName
    <3> QED
      BY <3>2, <3>3
  <2> QED
    BY <2>1, <2>3, <2>4, <2>5 DEF new, TellsAlso
<1> QED
  BY <1>3, <1>4

\* The entries of the offers that are not folded, each with what it takes over.
IsCatalog(catalog, entries) ==
  /\ DOMAIN catalog = {x \in DOMAIN entries : ~Folds(entries, x)}
  /\ \A id \in DOMAIN catalog :
       /\ catalog[id].name = entries[id].name
       /\ catalog[id].aliases =
            UNION {entries[x].aliases : x \in {y \in DOMAIN entries : Home(entries, y) = id}}
       /\ catalog[id].sources =
            UNION {entries[x].sources : x \in {y \in DOMAIN entries : Home(entries, y) = id}}

\* So all offers make entries.
LEMMA GatheredStays ==
  ASSUME NEW W, NEW offers \in Seq(W)
  PROVE  Gathered(offers) \in Gatherings(W)
<1>1. PICK t : GatherRun(t, offers, Gatherings(W))
  BY GatherStays, GatherFold, Zenon
<1>2. Len(offers) \in 0..Len(offers)
  BY LenProperties
<1> QED
  BY <1>1, <1>2 DEF GatherRun, Gathered

\* The entries tell of every offer, and of nothing else.
LEMMA GatheredTells ==
  ASSUME NEW W, NEW offers \in Seq(W)
  PROVE  /\ DOMAIN Gathered(offers) = {StableId(offers[i]) : i \in 1..Len(offers)}
         /\ \A i \in 1..Len(offers) : Tells(Gathered(offers), offers[i])
         /\ NamedByName(Gathered(offers))
<1> DEFINE n == Len(offers)
           V == Gatherings(W)
<1>1. n \in Nat /\ \A k \in 1..n : offers[k] \in W
  BY LenProperties, ElementOfSeq
<1>2. << >> \in V /\ GatherKeeps(V, W)
  BY GatherStays
<1> HIDE DEF V
<1>a. PICK t : GatherRun(t, offers, V)
  BY <1>2, GatherFold, Zenon
<1>3. /\ t[0] = << >> /\ \A k \in 1..n : t[k] = Gather(t[k - 1], offers[k])
      /\ t \in [0..n -> V] /\ FoldLeft(Gather, << >>, offers) = t[n]
  BY <1>a, Zenon DEF GatherRun
<1> DEFINE Ids(k) == {StableId(offers[i]) : i \in 1..k}
           All(k) == \A i \in 1..k : Tells(t[k], offers[i])
           T == {k \in 0..n : DOMAIN t[k] = Ids(k) /\ All(k) /\ NamedByName(t[k])}
<1>4. 0 \in T
  <2>1. 0 \in 0..n /\ 1..0 = {}
    BY <1>1
  <2>2. DOMAIN t[0] = {}
    BY <1>3
  <2>3. NamedByName(t[0])
    BY <2>2 DEF NamedByName
  <2> QED
    BY <2>1, <2>2, <2>3
<1>5. ASSUME NEW k \in 0..n, k < n, k \in T
      PROVE  k + 1 \in T
  <2>1. k + 1 \in 1..n /\ k + 1 \in 0..n /\ (k + 1) - 1 = k
        /\ 1..(k + 1) = 1..k \union {k + 1}
    BY <1>5, <1>1
  <2>2. t[k + 1] = Gather(t[k], offers[k + 1]) /\ t[k] \in V /\ offers[k + 1] \in W
    BY <2>1, <1>1, <1>3, Zenon
  <2>3. /\ Tells(t[k + 1], offers[k + 1])
        /\ \A p \in W : Tells(t[k], p) => Tells(t[k + 1], p)
        /\ NamedByName(t[k]) => NamedByName(t[k + 1])
        /\ DOMAIN t[k + 1] = DOMAIN t[k] \union {StableId(offers[k + 1])}
    <3>1. TellsAlso(W, t[k + 1], t[k], offers[k + 1])
      BY <2>2, TellsMore, Zenon DEF V
    <3> QED
      BY <3>1, Zenon DEF TellsAlso
  <2>4. DOMAIN t[k] = Ids(k) /\ All(k) /\ NamedByName(t[k])
    BY <1>5
  <2>5. DOMAIN t[k + 1] = Ids(k + 1)
    BY <2>1, <2>3, <2>4
  <2>6. All(k + 1)
    <3> SUFFICES ASSUME NEW i \in 1..(k + 1) PROVE Tells(t[k + 1], offers[i])
      BY Zenon
    <3>1. CASE i = k + 1
      BY <3>1, <2>3, Zenon
    <3>2. CASE i \in 1..k
      <4>1. Tells(t[k], offers[i])
        BY <3>2, <2>4, Zenon
      <4>2. offers[i] \in W
        BY <3>2, <1>1, <1>5
      <4> QED
        BY <4>1, <4>2, <2>3, Zenon
    <3> QED
      BY <3>1, <3>2, <2>1
  <2> QED
    BY <2>1, <2>3, <2>4, <2>5, <2>6, Zenon
<1> HIDE DEF T
<1>6. 0..n \subseteq T
  BY <1>1, <1>4, <1>5, UpTo
<1>7. n \in T
  BY <1>1, <1>6
<1> QED
  BY <1>3, <1>7, Zenon DEF T, Gathered

\* What is known of an id is listed in the entry that takes it over.
LEMMA CatalogLists ==
  ASSUME NEW entries, NEW catalog, NEW id \in DOMAIN entries, NEW x \in DOMAIN entries,
         ~Folds(entries, x), Home(entries, id) = x, IsCatalog(catalog, entries)
  PROVE  /\ x \in DOMAIN catalog /\ catalog[x].name = entries[x].name
         /\ entries[id].sources \subseteq catalog[x].sources
         /\ entries[id].aliases \subseteq catalog[x].aliases
<1>1. x \in DOMAIN catalog
  BY Zenon DEF IsCatalog
<1>2. id \in {y \in DOMAIN entries : Home(entries, y) = x}
  OBVIOUS
<1> QED
  BY <1>1, <1>2 DEF IsCatalog

\* What build_catalog returns is this.
LEMMA CatalogIsCatalog ==
  ASSUME NEW W, NEW offers \in Seq(W)
  PROVE  IsCatalog(Catalog(offers), Gathered(offers))
<1> DEFINE entries == Gathered(offers)
           Taken(id) == {x \in DOMAIN entries : Home(entries, x) = id}
           listed == {x \in DOMAIN entries : ~Folds(entries, x)}
           val(id) == [entries[id] EXCEPT !.aliases = UNION {entries[x].aliases : x \in Taken(id)},
                                          !.sources = UNION {entries[x].sources : x \in Taken(id)}]
<1>1. Catalog(offers) = [id \in listed |-> val(id)]
  BY DEF Catalog
<1>2. ASSUME NEW id \in listed
      PROVE  /\ val(id).name = entries[id].name
             /\ val(id).aliases = UNION {entries[x].aliases : x \in Taken(id)}
             /\ val(id).sources = UNION {entries[x].sources : x \in Taken(id)}
  <2>1. entries \in Gatherings(W)
    BY GatheredStays
  <2>2. entries[id] \in EntriesOf(W)
    BY <2>1 DEF Gatherings
  <2> HIDE DEF entries, Taken
  <2> QED
    BY <2>2 DEF EntriesOf
<1> HIDE DEF val, listed
<1>3. DOMAIN Catalog(offers) = listed /\ \A id \in listed : Catalog(offers)[id] = val(id)
  BY <1>1, Zenon
<1> QED
  BY <1>2, <1>3 DEF IsCatalog, listed

\* The ids of finitely many offers are finite.
LEMMA ImageIsFinite ==
  ASSUME NEW n \in Nat, NEW offers
  PROVE  IsFiniteSet({StableId(offers[k]) : k \in 1..n})
<1> DEFINE S == {StableId(offers[k]) : k \in 1..n}
           f == [k \in 1..n |-> StableId(offers[k])]
<1>1. f \in Surjection(1..n, S)
  BY DEF Surjection
<1>2. IsFiniteSet(1..n)
  BY FS_Interval
<1> QED
  BY <1>1, <1>2, FS_Surjection

\* An offer is of an entry of the catalog that has its name and its source: the
\* entry of its own id, or the one that an entry known by name is folded into.
OfOne(catalog, x, o) ==
  /\ x \in Candidates(catalog, o.name)
  /\ o.source \in catalog[x].sources
  /\ StableId(o) \in DOMAIN catalog => x = StableId(o)
  /\ StableId(o) \notin DOMAIN catalog => o.id = Unknown

\* So is every offer, and only finitely many entries have a name.
LEMMA OffersAreListed ==
  ASSUME NEW W, NEW offers \in Seq(W), NEW i \in 1..Len(offers)
  PROVE  /\ \E x : OfOne(Catalog(offers), x, offers[i])
         /\ \A name : IsFiniteSet(Candidates(Catalog(offers), name))
<1> DEFINE entries == Gathered(offers)
           catalog == Catalog(offers)
           o == offers[i]
           id == StableId(o)
<1>1. /\ DOMAIN entries = {StableId(offers[k]) : k \in 1..Len(offers)}
      /\ Tells(entries, o)
      /\ NamedByName(entries)
  BY GatheredTells
<1>2. IsCatalog(catalog, entries)
  BY CatalogIsCatalog
<1> HIDE DEF entries, catalog
<1>3. IsFiniteSet(DOMAIN entries)
  <2>1. Len(offers) \in Nat
    BY LenProperties
  <2> QED
    BY <1>1, <2>1, ImageIsFinite, Zenon
<1>4. \A name : IsFiniteSet(Candidates(catalog, name))
  <2> TAKE name
  <2>1. Candidates(catalog, name) \subseteq DOMAIN entries
    BY <1>2 DEF Candidates, IsCatalog
  <2> QED
    BY <2>1, <1>3, FS_Subset
<1>5. ASSUME NEW x \in DOMAIN entries, ~Folds(entries, x), Home(entries, id) = x,
             Normal(entries[x].name) = Normal(o.name) \/ x = id
      PROVE  x \in Candidates(catalog, o.name) /\ o.source \in catalog[x].sources
  <2>1. id \in DOMAIN entries /\ o.source \in entries[id].sources
        /\ o.name \in {entries[id].name} \union entries[id].aliases
    BY <1>1 DEF Tells
  <2>2. /\ x \in DOMAIN catalog /\ catalog[x].name = entries[x].name
        /\ entries[id].sources \subseteq catalog[x].sources
        /\ entries[id].aliases \subseteq catalog[x].aliases
    BY <2>1, <1>2, <1>5, CatalogLists
  <2> DEFINE names == {catalog[x].name} \union catalog[x].aliases
  <2>3. \E alias \in names : Normal(alias) = Normal(o.name)
    <3>1. CASE x = id
      <4>1. o.name \in names
        BY <3>1, <2>1, <2>2
      <4> QED
        BY <4>1, Zenon
    <3>2. CASE Normal(entries[x].name) = Normal(o.name)
      <4>1. entries[x].name \in names
        BY <2>2
      <4> QED
        BY <3>2, <4>1, Zenon
    <3> QED
      BY <3>1, <3>2, <1>5, Zenon
  <2>4. x \in Candidates(catalog, o.name)
    BY <2>2, <2>3, Zenon DEF Candidates
  <2> QED
    BY <2>1, <2>2, <2>4
<1>6. CASE ~Folds(entries, id)
  <2>1. id \in DOMAIN entries /\ Home(entries, id) = id
    BY <1>1, <1>6 DEF Tells, Home
  <2>2. id \in Candidates(catalog, o.name) /\ o.source \in catalog[id].sources
    BY <2>1, <1>6, <1>5, Zenon
  <2>3. id \in DOMAIN catalog
    BY <2>2, Zenon DEF Candidates
  <2>4. OfOne(catalog, id, o)
    BY <2>2, <2>3, Zenon DEF OfOne
  <2> QED
    BY <2>4, <1>4, Zenon DEF catalog
<1>7. CASE Folds(entries, id)
  <2>1. IsFallback(id) /\ Cardinality(Named(entries, id)) = 1
    BY <1>7, Zenon DEF Folds
  <2>2. PICK x : Named(entries, id) = {x}
    <3>1. Named(entries, id) \subseteq DOMAIN entries
      BY DEF Named
    <3>2. IsFiniteSet(Named(entries, id))
      BY <3>1, <1>3, FS_Subset
    <3> QED
      BY <3>2, <2>1, FS_Singleton, Zenon
  <2>3. /\ x \in DOMAIN entries /\ ~IsFallback(x)
        /\ Normal(entries[x].name) = Normal(entries[id].name)
    BY <2>2 DEF Named
  <2>4. ~Folds(entries, x)
    BY <2>3, Zenon DEF Folds
  <2>5. Home(entries, id) = x
    BY <2>2, <1>7 DEF Home
  <2>6. id \in DOMAIN entries
    BY <1>1, Zenon DEF Tells
  <2>7. o.id = Unknown /\ Normal(o.name) = id.id
    BY <2>1 DEF IsFallback, StableId
  <2>8. Normal(entries[id].name) = id.id
    BY <2>6, <2>1, <1>1, Zenon DEF NamedByName
  <2>9. x \in Candidates(catalog, o.name) /\ o.source \in catalog[x].sources
    BY <2>3, <2>4, <2>5, <2>7, <2>8, <1>5, Zenon
  <2>10. id \notin DOMAIN catalog
    BY <1>2, <1>7 DEF IsCatalog
  <2>11. OfOne(catalog, x, o)
    BY <2>7, <2>9, <2>10, Zenon DEF OfOne
  <2> QED
    BY <2>11, <1>4, Zenon DEF catalog
<1> QED
  BY <1>6, <1>7

\* Whatever is offered, under whatever names, and whatever is owned, the marks in
\* the text and the list agree, except on names that several entries have.
THEOREM MarksAndListAgree ==
  ASSUME NEW records, NEW offers, offers \in Seq(ToSet(offers))
  PROVE  MarksAreOwned(offers, records)
<1> DEFINE catalog == Catalog(offers)
           Called(i) == Candidates(catalog, offers[i].name)
           Answer(o) == LET id == StableId(o)
                            found == Candidates(catalog, o.name)
                        IN  IF id \notin DOMAIN catalog /\ Cardinality(found) = 1
                            THEN CHOOSE x \in found : TRUE ELSE id
           all == [ownership |-> "all", search |-> Unknown, attribute |-> Unknown,
                   mission |-> Unknown]
           owned == {row.id : row \in {x \in Rows(catalog, records, all) : x.owned}}
           Listed(i) == {id \in Called(i) : offers[i].source \in catalog[id].sources}
<1>1. owned = DOMAIN catalog \intersect records
  <2>1. \A x \in DOMAIN catalog : Matches(catalog[x], x \in records, all)
    BY DEF Matches
  <2> HIDE DEF all, catalog
  <2>2. Rows(catalog, records, all) = {[id |-> x, owned |-> x \in records] : x \in DOMAIN catalog}
    BY <2>1, Zenon DEF Rows
  <2> DEFINE rows == Rows(catalog, records, all)
  <2>3. \A x \in DOMAIN catalog : [id |-> x, owned |-> x \in records] \in rows
    BY <2>2
  <2>4. \A row \in rows : /\ row.id \in DOMAIN catalog
                          /\ row.owned = (row.id \in records)
    BY <2>2
  <2>5. ASSUME NEW x \in DOMAIN catalog, x \in records
        PROVE  \E row \in rows : row.owned /\ row.id = x
    <3>1. [id |-> x, owned |-> x \in records].owned /\ [id |-> x, owned |-> x \in records].id = x
      BY <2>5
    <3> QED
      BY <2>3, <3>1, Zenon
  <2> HIDE DEF rows
  <2>6. owned = {row.id : row \in {x \in rows : x.owned}}
    BY Zenon DEF rows
  <2>7. \A y \in owned : y \in DOMAIN catalog /\ y \in records
    BY <2>4, <2>6
  <2>8. \A y \in DOMAIN catalog : y \in records => y \in owned
    BY <2>5, <2>6
  <2> HIDE DEF owned
  <2> QED
    BY <2>7, <2>8
<1>2. MarkedOwned(offers, records) = {i \in DOMAIN offers : Answer(offers[i]) \in records}
  BY DEF MarkedOwned
<1>3. DOMAIN offers = 1..Len(offers)
  BY LenProperties
<1>4. ASSUME NEW i \in DOMAIN offers
      PROVE  /\ Answer(offers[i]) \in records =>
                  \/ Listed(i) \intersect owned # {}
                  \/ offers[i].id = Unknown /\ Cardinality(Called(i)) > 1
             /\ Listed(i) \intersect owned # {} =>
                  Answer(offers[i]) \in records \/ Cardinality(Called(i)) > 1
  <2>1. PICK x : OfOne(catalog, x, offers[i])
    BY <1>3, OffersAreListed, Zenon
  <2>2. IsFiniteSet(Called(i))
    BY <1>3, OffersAreListed, Zenon
  <2> HIDE DEF catalog, owned
  <2>3. Called(i) \subseteq DOMAIN catalog
    BY DEF Candidates
  <2>4. x \in Called(i) /\ x \in Listed(i) /\ x \in DOMAIN catalog
    BY <2>1, <2>3 DEF OfOne
  <2>5. Cardinality(Called(i)) \in Nat /\ Cardinality(Called(i)) # 0
    BY <2>2, <2>4, FS_CardinalityType, FS_EmptySet
  <2>6. Cardinality(Called(i)) > 1 \/ Called(i) = {x}
    <3>1. Cardinality(Called(i)) = 1 => \E y : Called(i) = {y}
      BY <2>2, FS_Singleton, Zenon
    <3> QED
      BY <3>1, <2>4, <2>5
  <2>7. CASE StableId(offers[i]) \in DOMAIN catalog
    <3>1. Answer(offers[i]) = x
      BY <2>7, <2>1, Zenon DEF OfOne
    <3> HIDE DEF Answer
    <3> QED
      BY <3>1, <2>4, <2>6, <1>1
  <2>8. CASE StableId(offers[i]) \notin DOMAIN catalog
    <3>1. offers[i].id = Unknown
      BY <2>8, <2>1, Zenon DEF OfOne
    <3>2. ASSUME Called(i) = {x} PROVE Answer(offers[i]) = x
      <4>1. Cardinality(Called(i)) = 1
        BY <3>2, FS_Singleton
      <4> QED
        BY <4>1, <3>2, <2>8
    <3> HIDE DEF Answer
    <3> QED
      BY <3>1, <3>2, <2>4, <2>6, <1>1
  <2> QED
    BY <2>7, <2>8
<1> HIDE DEF catalog, Answer, owned
<1>5. /\ \A i \in DOMAIN offers :
           Answer(offers[i]) \in records <=> i \in MarkedOwned(offers, records)
  BY <1>2
<1>6. \A i \in DOMAIN offers :
        /\ i \in MarkedOwned(offers, records) =>
             \/ Listed(i) \intersect owned # {}
             \/ offers[i].id = Unknown /\ Cardinality(Called(i)) > 1
        /\ Listed(i) \intersect owned # {} =>
             i \in MarkedOwned(offers, records) \/ Cardinality(Called(i)) > 1
  BY <1>4, <1>5, Zenon
<1> QED
  BY <1>6, Zenon DEF MarksAreOwned, catalog, owned

-----------------------------------------------------------------------------
(* The text that is planned and written (UpdateText).                      *)

\* Tables, edit by edit.
EditKeeps(V, W) == \A v \in V, w \in W : Edit(v, w) \in V

EditRun(t, m, base, V) ==
  /\ t \in [0..Len(m) -> V] /\ t[0] = base
  /\ \A k \in 1..Len(m) : t[k] = Edit(t[k - 1], m[k])
  /\ FoldLeft(Edit, base, m) = t[Len(m)]

\* The table after each edit, for as long as it stays what it is.
LEMMA EditFold ==
  ASSUME NEW V, NEW W, NEW base \in V, EditKeeps(V, W), NEW m \in Seq(W)
  PROVE  \E t : EditRun(t, m, base, V)
<1> DEFINE n == Len(m)
           op == [p \in V \X W |-> Edit(p[1], p[2])]
           Def(f) == [s \in SUBSET DOMAIN m |->
                        IF s = {} THEN base ELSE Edit(f[s \ {Max(s)}], m[Max(s)])]
           iter == CHOOSE f : f = Def(f)
<1>1. n \in Nat /\ DOMAIN m = 1..n /\ m \in [1..n -> W]
  BY LenProperties, SeqDef
<1>2. op \in [V \X W -> V] /\ \A v \in V, w \in W : op[<< v, w >>] = Edit(v, w)
  BY DEF EditKeeps
<1>3. FoldLeft(Edit, base, m) = iter[1..n]
  <2>1. FoldLeft(Edit, base, m) = iter[DOMAIN m]
    BY Zenon DEF FoldLeft, MapThenFoldSet
  <2> QED
    BY <2>1, <1>1, Zenon
<1> HIDE DEF op, n
<1>4. PICK f \in [SUBSET (1..n) -> V] : IsFold(f, base, m, op, n)
  BY <1>1, <1>2, FoldExists, Zenon
<1>5. ASSUME NEW s \in SUBSET (1..n)
      PROVE  f[s] = IF s = {} THEN base ELSE Edit(f[s \ {Max(s)}], m[Max(s)])
  <2>1. IsStep(f, s, base, m, op, V, W)
    BY <1>1, <1>2, <1>4, FoldStep, Zenon
  <2> QED
    BY <2>1, <1>2, Zenon DEF IsStep
<1>6. iter = Def(iter)
  <2>1. f = Def(f)
    BY <1>1, <1>5, Zenon
  <2> QED
    BY <2>1, Zenon
<1> HIDE DEF iter
<1> DEFINE t == [k \in 0..n |-> iter[1..k]]
<1>7. t[0] = base /\ iter[1..n] = t[n]
  <2>1. iter[{}] = base
    BY <1>6, Zenon
  <2> QED
    BY <2>1, <1>1, Runs, Zenon
<1>8. \A k \in 1..n : t[k] = Edit(t[k - 1], m[k])
  <2> TAKE k \in 1..n
  <2>1. t[k] = iter[1..k] /\ t[k - 1] = iter[1..(k - 1)]
    BY <1>1, Runs, Zenon
  <2>2. Max(1..k) = k /\ (1..k) \ {k} = 1..(k - 1) /\ 1..k # {} /\ 1..k \in SUBSET DOMAIN m
    BY <1>1, Runs, LastOfRun, Zenon
  <2>3. iter[1..k] = Edit(iter[(1..k) \ {Max(1..k)}], m[Max(1..k)])
    BY <1>6, <2>2, Zenon
  <2> QED
    BY <2>1, <2>2, <2>3, Zenon
<1>9. t \in [0..n -> V]
  <2> DEFINE T == {k \in 0..n : t[k] \in V}
  <2>1. 0 \in T
    BY <1>1, <1>7, Runs, Zenon
  <2>2. \A i \in 0..n : i < n /\ i \in T => i + 1 \in T
    <3> TAKE i \in 0..n
    <3> HAVE i < n /\ i \in T
    <3>1. i + 1 \in 1..n /\ i + 1 \in 0..n /\ (i + 1) - 1 = i
      BY <1>1
    <3>2. t[i + 1] = Edit(t[i], m[i + 1]) /\ t[i] \in V /\ m[i + 1] \in W
      BY <3>1, <1>1, <1>8, Zenon
    <3> QED
      BY <3>1, <3>2, Zenon DEF EditKeeps
  <2> HIDE DEF T
  <2>3. 0..n \subseteq T
    BY <1>1, <2>1, <2>2, UpTo
  <2>4. \A k \in 0..n : t[k] \in V
    BY <2>3, Zenon DEF T
  <2> QED
    BY <2>4, Zenon
<1> QED
  BY <1>3, <1>7, <1>8, <1>9, Zenon DEF n, EditRun

\* A table without two entries of one key.
IsTable(t) == t \in Tables /\ ~ HasDuplicates(t)

Lines == [key : KeyNames, value : EntryTexts]

\* A name has two spellings, each the plural of the other.
LEMMA PluralIsOther ==
  \A k \in KeyNames : Plural(k) \in KeyNames /\ Plural(Plural(k)) = k /\ Plural(k) # k
<1> TAKE k \in KeyNames
<1>1. PICK n \in Int, p \in BOOLEAN : k = [name |-> n, plural |-> p]
  BY DEF KeyNames
<1> DEFINE plain == [name |-> n, plural |-> FALSE]
           spelled == [name |-> n, plural |-> TRUE]
<1>2. Plural(plain) = spelled /\ Plural(spelled) = plain
  BY DEF Plural
<1>3. k = plain \/ k = spelled
  BY <1>1
<1>4. plain # spelled
  <2>1. plain.plural = FALSE /\ spelled.plural = TRUE
    OBVIOUS
  <2> QED
    BY <2>1
<1>5. plain \in KeyNames /\ spelled \in KeyNames
  BY DEF KeyNames
<1> HIDE DEF plain, spelled
<1> QED
  BY <1>2, <1>3, <1>4, <1>5

\* The entries of a table.
LEMMA TableLines ==
  ASSUME NEW t \in Tables
  PROVE  /\ Len(t) \in Nat /\ DOMAIN t = 1..Len(t)
         /\ \A i \in DOMAIN t : t[i] \in Lines /\ t[i].key \in KeyNames /\ t[i].value \in EntryTexts
         /\ Keys(t) \subseteq KeyNames
<1>1. t \in Seq(Lines)
  BY DEF Tables, Lines
<1>2. Len(t) \in Nat /\ DOMAIN t = 1..Len(t) /\ \A i \in DOMAIN t : t[i] \in Lines
  BY <1>1, LenProperties, ElementOfSeq
<1> QED
  BY <1>2 DEF Lines, Keys

\* One number is the least and the greatest.
LEMMA OneNumber == \A i \in Int : Min({i}) = i /\ Max({i}) = i
BY DEF Min, Max

\* Each key has one place.
LEMMA OnePlace ==
  ASSUME NEW t, IsTable(t), NEW i \in DOMAIN t
  PROVE  /\ {j \in DOMAIN t : t[j].key = t[i].key} = {i}
         /\ Values(t)[t[i].key] = t[i].value
         /\ DOMAIN Values(t) = Keys(t)
<1>1. t \in Tables /\ \A j \in DOMAIN t : t[j].key = t[i].key => j = i
  BY DEF IsTable, HasDuplicates
<1>2. {j \in DOMAIN t : t[j].key = t[i].key} = {i}
  BY <1>1
<1>3. i \in Int
  BY <1>1, TableLines
<1>4. Max({i}) = i
  BY <1>3, OneNumber
<1>5. t[i].key \in Keys(t)
  BY DEF Keys
<1>6. Values(t)[t[i].key] = t[Max({j \in DOMAIN t : t[j].key = t[i].key})].value
  BY <1>5 DEF Values
<1>7. DOMAIN Values(t) = Keys(t)
  BY DEF Values
<1> QED
  BY <1>2, <1>4, <1>6, <1>7

\* What a table has, is what Values says.
Says(t, f) ==
  /\ f = [k \in DOMAIN f |-> f[k]] /\ DOMAIN f = Keys(t)
  /\ \A i \in DOMAIN t : f[t[i].key] = t[i].value

\* So it is known from what it has.
LEMMA ValuesAre ==
  ASSUME NEW t, IsTable(t), NEW f, Says(t, f)
  PROVE  Values(t) = f
<1> USE DEF Says
<1>1. Values(t) = [k \in Keys(t) |-> Values(t)[k]]
  BY DEF Values
<1>2. ASSUME NEW k \in Keys(t) PROVE Values(t)[k] = f[k]
  <2>1. PICK i \in DOMAIN t : t[i].key = k
    BY DEF Keys
  <2> QED
    BY <2>1, OnePlace
<1> HIDE DEF Values
<1> QED
  BY <1>1, <1>2

\* How a name is spelled depends on the keys.
LEMMA Spelling ==
  ASSUME NEW t \in Tables, NEW k \in KeyNames
  PROVE  /\ k \in Keys(t) => ResolveKey(t, k) = k
         /\ k \notin Keys(t) /\ Plural(k) \in Keys(t) => ResolveKey(t, k) = Plural(k)
         /\ k \notin Keys(t) /\ Plural(k) \notin Keys(t) => ResolveKey(t, k) = Absent
         /\ ResolveKey(t, k) # Absent => ResolveKey(t, k) \in Keys(t)
         /\ ResolveKey(t, k) # Absent <=> k \in Keys(t) \/ Plural(k) \in Keys(t)
         /\ ResolveKey(t, k) \in {k, Plural(k), Absent}
<1>1. Absent \notin Keys(t)
  BY UpdateAssumption, TableLines
<1>2. k # Absent /\ Plural(k) # Absent
  BY UpdateAssumption, PluralIsOther
<1> QED
  BY <1>1, <1>2 DEF ResolveKey

\* A name that a table has leads to its entry.
LEMMA Place ==
  ASSUME NEW t, IsTable(t), NEW k \in KeyNames, ResolveKey(t, k) # Absent
  PROVE  /\ Index(t, k) \in DOMAIN t /\ t[Index(t, k)].key = ResolveKey(t, k)
         /\ Get(t, k) = Values(t)[ResolveKey(t, k)]
<1> DEFINE r == ResolveKey(t, k)
<1>1. t \in Tables
  BY DEF IsTable
<1>2. r \in Keys(t)
  BY <1>1, Spelling
<1>3. PICK i \in DOMAIN t : t[i].key = r
  BY <1>2 DEF Keys
<1>4. {j \in DOMAIN t : t[j].key = r} = {i} /\ Values(t)[r] = t[i].value
  BY <1>3, OnePlace
<1>5. i \in Int
  BY <1>1, TableLines
<1>6. Index(t, k) = i
  BY <1>4, <1>5, OneNumber DEF Index
<1> QED
  BY <1>3, <1>4, <1>6 DEF Get

\* What an edit makes of a table: its keys, and what Values says of it.
Becomes(t, keys, f) == IsTable(t) /\ Keys(t) = keys /\ Values(t) = f

\* Setting the value of an entry.
LEMMA SetValue ==
  ASSUME NEW t, IsTable(t), NEW at \in DOMAIN t, NEW v \in EntryTexts
  PROVE  Becomes([t EXCEPT ![at].value = v], Keys(t), [Values(t) EXCEPT ![t[at].key] = v])
<1> DEFINE new == [t EXCEPT ![at].value = v]
<1>1. t \in Seq(Lines) /\ Len(t) \in Nat /\ DOMAIN t = 1..Len(t) /\ \A i \in DOMAIN t : t[i] \in Lines
  BY TableLines DEF IsTable, Tables, Lines
<1>2. /\ DOMAIN new = DOMAIN t
      /\ \A i \in DOMAIN t : i # at => new[i] = t[i]
      /\ new[at] = [t[at] EXCEPT !.value = v]
  OBVIOUS
<1>3. new[at].key = t[at].key /\ new[at].value = v /\ new[at] \in Lines
  BY <1>1, <1>2 DEF Lines
<1>4. new \in Seq(Lines)
  <2>1. new = [i \in 1..Len(t) |-> new[i]]
    BY <1>1, <1>2
  <2>2. \A i \in 1..Len(t) : new[i] \in Lines
    BY <1>1, <1>2, <1>3
  <2>3. new \in [1..Len(t) -> Lines]
    BY <2>1, <2>2
  <2> QED
    BY <1>1, <2>3, FunctionIsSeq
<1>5. \A i \in DOMAIN t : new[i].key = t[i].key
  BY <1>2, <1>3
<1>6. Keys(new) = Keys(t)
  BY <1>2, <1>5 DEF Keys
<1>7. IsTable(new)
  BY <1>2, <1>4, <1>5 DEF IsTable, HasDuplicates, Tables, Lines
<1> DEFINE f == [Values(t) EXCEPT ![t[at].key] = v]
<1>8. DOMAIN f = Keys(t) /\ t[at].key \in Keys(t) /\ DOMAIN Values(t) = Keys(t)
  BY OnePlace DEF Keys
<1>9. \A i \in DOMAIN new : f[new[i].key] = new[i].value
  <2> SUFFICES ASSUME NEW i \in DOMAIN t PROVE f[t[i].key] = new[i].value
    BY <1>2, <1>5
  <2>1. CASE i = at
    BY <2>1, <1>3, <1>8
  <2>2. CASE i # at
    <3>1. t[i].key # t[at].key
      BY <2>2 DEF IsTable, HasDuplicates
    <3>2. Values(t)[t[i].key] = t[i].value /\ t[i].key \in Keys(t)
      BY OnePlace DEF Keys
    <3> QED
      BY <2>2, <3>1, <3>2, <1>2, <1>8
  <2> QED
    BY <2>1, <2>2
<1> HIDE DEF f
<1>10. f = [k \in DOMAIN f |-> f[k]]
  BY DEF f
<1>11. Values(new) = f
  <2>1. Says(new, f)
    BY <1>6, <1>8, <1>9, <1>10 DEF Says
  <2> QED
    BY <2>1, <1>7, ValuesAre, Zenon
<1> QED
  BY <1>6, <1>7, <1>11 DEF f, Becomes

\* Adding an entry.
LEMMA AddLine ==
  ASSUME NEW t, IsTable(t), NEW k \in KeyNames, k \notin Keys(t), NEW v \in EntryTexts
  PROVE  Becomes(Append(t, [key |-> k, value |-> v]), Keys(t) \union {k},
                 [x \in Keys(t) \union {k} |-> IF x = k THEN v ELSE Values(t)[x]])
<1> DEFINE line == [key |-> k, value |-> v]
           new == Append(t, line)
<1>1. t \in Seq(Lines) /\ Len(t) \in Nat /\ DOMAIN t = 1..Len(t)
  BY TableLines DEF IsTable, Tables, Lines
<1>2. line \in Lines /\ line.key = k /\ line.value = v
  BY DEF Lines
<1>0. new = Append(t, [key |-> k, value |-> v])
  OBVIOUS
<1> HIDE DEF new, line
<1>3. /\ new \in Seq(Lines) /\ DOMAIN new = 1..Len(t) \union {Len(t) + 1}
      /\ \A i \in 1..Len(t) : new[i] = t[i]
      /\ new[Len(t) + 1] = line /\ Len(t) + 1 \notin 1..Len(t)
  <2>1. new = Append(t, line)
    BY DEF new
  <2>2. Len(new) = Len(t) + 1 /\ new \in Seq(Lines)
    BY <1>1, <1>2, <2>1, AppendProperties
  <2> QED
    BY <1>1, <1>2, <2>1, <2>2, AppendProperties, LenProperties
<1>4. Keys(new) = Keys(t) \union {k}
  BY <1>1, <1>2, <1>3 DEF Keys
<1>5. \A i \in 1..Len(t) : t[i].key # k
  BY <1>1 DEF Keys
<1>6. IsTable(new)
  <2>1. ASSUME NEW i \in DOMAIN new, NEW j \in DOMAIN new, i # j, new[i].key = new[j].key PROVE FALSE
    <3>1. CASE i \in 1..Len(t) /\ j \in 1..Len(t)
      BY <1>1, <1>3, <2>1, <3>1 DEF IsTable, HasDuplicates
    <3>2. CASE i = Len(t) + 1
      BY <1>2, <1>3, <1>5, <2>1, <3>2
    <3>3. CASE j = Len(t) + 1
      BY <1>2, <1>3, <1>5, <2>1, <3>3
    <3> QED
      BY <1>3, <3>1, <3>2, <3>3
  <2> QED
    BY <1>3, <2>1 DEF IsTable, HasDuplicates, Tables, Lines
<1> DEFINE f == [x \in Keys(t) \union {k} |-> IF x = k THEN v ELSE Values(t)[x]]
<1>7. \A i \in DOMAIN new : f[new[i].key] = new[i].value
  <2>1. ASSUME NEW i \in 1..Len(t) PROVE f[new[i].key] = new[i].value
    <3>1. Values(t)[t[i].key] = t[i].value /\ t[i].key \in Keys(t)
      BY <1>1, OnePlace DEF Keys
    <3> QED
      BY <3>1, <1>3, <1>5
  <2>2. f[new[Len(t) + 1].key] = new[Len(t) + 1].value
    BY <1>2, <1>3
  <2> QED
    BY <2>1, <2>2, <1>3
<1>8. f = [x \in DOMAIN f |-> f[x]] /\ DOMAIN f = Keys(new)
  BY <1>4
<1> HIDE DEF f
<1>9. Values(new) = f
  <2>1. Says(new, f)
    BY <1>7, <1>8 DEF Says
  <2> QED
    BY <2>1, <1>6, ValuesAre, Zenon
<1> QED
  BY <1>0, <1>4, <1>6, <1>9 DEF f, Becomes

\* Removing one.
LEMMA RemoveLine ==
  ASSUME NEW t, IsTable(t), NEW at \in DOMAIN t
  PROVE  Becomes(RemoveAt(t, at), Keys(t) \ {t[at].key},
                 [x \in Keys(t) \ {t[at].key} |-> Values(t)[x]])
<1> DEFINE new == RemoveAt(t, at)
           n == Len(t)
           place(i) == IF i < at THEN i ELSE i + 1
<1>1. t \in Seq(Lines) /\ n \in Nat /\ DOMAIN t = 1..n /\ at \in 1..n
  BY TableLines DEF IsTable, Tables, Lines
<1>2. /\ new \in Seq(Lines) /\ DOMAIN new = 1..(n - 1)
      /\ \A i \in 1..(n - 1) : new[i] = t[place(i)]
  <2> DEFINE a == SubSeq(t, 1, at - 1)
             b == SubSeq(t, at + 1, n)
  <2>1. a \in Seq(Lines) /\ Len(a) = at - 1 /\ \A i \in 1..(at - 1) : a[i] = t[i]
    BY <1>1, SubSeqProperties
  <2>2. b \in Seq(Lines) /\ Len(b) = n - at /\ \A i \in 1..(n - at) : b[i] = t[at + i]
    BY <1>1, SubSeqProperties
  <2>3. new = a \o b
    BY DEF RemoveAt
  <2> HIDE DEF a, b
  <2>4. new \in Seq(Lines) /\ Len(new) = n - 1
    <3>1. new \in Seq(Lines) /\ Len(new) = Len(a) + Len(b)
      BY <2>1, <2>2, <2>3, ConcatProperties
    <3> QED
      BY <3>1, <2>1, <2>2, <1>1
  <2>5. \A i \in 1..(n - 1) : new[i] = IF i <= at - 1 THEN a[i] ELSE b[i - (at - 1)]
    <3>1. \A i \in 1..Len(a) + Len(b) : new[i] = IF i <= Len(a) THEN a[i] ELSE b[i - Len(a)]
      BY <2>1, <2>2, <2>3, ConcatProperties
    <3> QED
      BY <3>1, <2>1, <2>2, <1>1
  <2>6. ASSUME NEW i \in 1..(n - 1) PROVE new[i] = t[place(i)]
    <3>1. CASE i < at
      BY <3>1, <2>1, <2>5, <1>1
    <3>2. CASE ~ (i < at)
      <4>1. i - (at - 1) \in 1..(n - at) /\ at + (i - (at - 1)) = i + 1 /\ ~ (i <= at - 1)
        BY <3>2, <1>1
      <4> QED
        BY <4>1, <3>2, <2>2, <2>5
    <3> QED
      BY <3>1, <3>2
  <2>7. DOMAIN new = 1..(n - 1)
    BY <2>4, LenProperties
  <2> QED
    BY <2>4, <2>6, <2>7
<1>3. \A i \in 1..(n - 1) : place(i) \in 1..n \ {at}
  BY <1>1
<1>4. \A i, j \in 1..(n - 1) : place(i) = place(j) => i = j
  BY <1>1
<1>5. \A j \in 1..n \ {at} : \E i \in 1..(n - 1) : place(i) = j
  <2> TAKE j \in 1..n \ {at}
  <2>1. CASE j < at
    <3>1. j \in 1..(n - 1) /\ place(j) = j
      BY <2>1, <1>1
    <3> QED
      BY <3>1
  <2>2. CASE ~ (j < at)
    <3>1. j - 1 \in 1..(n - 1) /\ place(j - 1) = j
      BY <2>2, <1>1
    <3> QED
      BY <3>1
  <2> QED
    BY <2>1, <2>2
<1> HIDE DEF place, n, new
<1>6. \A i, j \in 1..n : i # j => t[i].key # t[j].key
  BY <1>1 DEF IsTable, HasDuplicates
<1>7. IsTable(new)
  <2>1. ASSUME NEW i \in 1..(n - 1), NEW j \in 1..(n - 1), i # j PROVE new[i].key # new[j].key
    BY <2>1, <1>2, <1>3, <1>4, <1>6
  <2> QED
    BY <2>1, <1>2 DEF IsTable, HasDuplicates, Tables, Lines
<1>8. Keys(new) = Keys(t) \ {t[at].key}
  <2>1. \A i \in 1..(n - 1) : new[i].key \in Keys(t) \ {t[at].key}
    BY <1>1, <1>2, <1>3, <1>6 DEF Keys
  <2>2. ASSUME NEW j \in 1..n, t[j].key # t[at].key PROVE t[j].key \in Keys(new)
    <3>1. PICK i \in 1..(n - 1) : place(i) = j
      BY <2>2, <1>5
    <3> QED
      BY <3>1, <1>2 DEF Keys
  <2> QED
    BY <2>1, <2>2, <1>1, <1>2 DEF Keys
<1> DEFINE f == [x \in Keys(t) \ {t[at].key} |-> Values(t)[x]]
<1>9. \A i \in DOMAIN new : f[new[i].key] = new[i].value
  <2> SUFFICES ASSUME NEW i \in 1..(n - 1) PROVE f[new[i].key] = new[i].value
    BY <1>2
  <2>1. new[i].key \in Keys(t) \ {t[at].key}
    BY <1>2, <1>8 DEF Keys
  <2>2. place(i) \in DOMAIN t /\ new[i] = t[place(i)]
    BY <1>1, <1>2, <1>3
  <2>3. Values(t)[t[place(i)].key] = t[place(i)].value
    BY <2>2, OnePlace
  <2> QED
    BY <2>1, <2>2, <2>3
<1>10. f = [x \in DOMAIN f |-> f[x]] /\ DOMAIN f = Keys(new)
  BY <1>8
<1> HIDE DEF f
<1>11. Values(new) = f
  <2>1. Says(new, f)
    BY <1>9, <1>10 DEF Says
  <2> QED
    BY <2>1, <1>7, ValuesAre, Zenon
<1> QED
  BY <1>7, <1>8, <1>11 DEF f, new, Becomes

\* Edits of a table b.  Each finds what it needs there, a key to remove has one
\* spelling, and no two touch one name, unless b has both of its spellings.
Active(e) == e.does # "nothing"

EditSet ==
  {e \in [key : KeyNames, value : EntryTexts \union {Absent},
          does : {"set", "add", "remove", "nothing"}] :
     e.does \in {"set", "add"} => e.value \in EntryTexts}

Clear(b, edits) ==
  /\ edits \in Seq(EditSet)
  /\ \A i \in 1..Len(edits) :
       LET k == edits[i].key
       IN  /\ edits[i].does \in {"set", "remove"} => ResolveKey(b, k) # Absent
           /\ edits[i].does = "add" => ResolveKey(b, k) = Absent
           /\ edits[i].does = "remove" => ~ {k, Plural(k)} \subseteq Keys(b)
  /\ \A i, j \in 1..Len(edits) :
       i # j /\ Active(edits[i]) /\ Active(edits[j]) =>
         /\ edits[i].key # edits[j].key
         /\ edits[i].key = Plural(edits[j].key) => {edits[i].key, edits[j].key} \subseteq Keys(b)

\* What an edit is.
LEMMA EditTypes ==
  ASSUME NEW b, NEW edits, Clear(b, edits), NEW i \in 1..Len(edits)
  PROVE  /\ edits[i] \in EditSet /\ edits[i].key \in KeyNames
         /\ edits[i].does \in {"set", "add", "remove", "nothing"}
         /\ edits[i].does \in {"set", "add"} => edits[i].value \in EntryTexts
<1>1. edits[i] \in EditSet
  BY ElementOfSeq DEF Clear
<1> QED
  BY <1>1 DEF EditSet

\* The entries that the first n edits remove, add and set.
RemovedBy(b, edits, n) ==
  {ResolveKey(b, edits[i].key) : i \in {j \in 1..n : edits[j].does = "remove"}}
AddedBy(edits, n) == {edits[i].key : i \in {j \in 1..n : edits[j].does = "add"}}
SetBy(b, edits, n) ==
  {ResolveKey(b, edits[i].key) : i \in {j \in 1..n : edits[j].does = "set"}}

\* What the table has final the first n edits of b.
Done(b, edits, n, t) ==
  /\ IsTable(t)
  /\ Keys(t) = (Keys(b) \ RemovedBy(b, edits, n)) \union AddedBy(edits, n)
  /\ \A i \in 1..n :
       /\ edits[i].does = "set" => Values(t)[ResolveKey(b, edits[i].key)] = edits[i].value
       /\ edits[i].does = "add" => Values(t)[edits[i].key] = edits[i].value
  /\ \A x \in Keys(t) \ (SetBy(b, edits, n) \union AddedBy(edits, n)) : Values(t)[x] = Values(b)[x]

\* Different edits have different places.
LEMMA Targets ==
  ASSUME NEW b, IsTable(b), NEW edits, Clear(b, edits),
         NEW i \in 1..Len(edits), NEW j \in 1..Len(edits), i # j,
         Active(edits[i]), Active(edits[j])
  PROVE  /\ edits[i].does \in {"set", "remove"} /\ edits[j].does \in {"set", "remove"} =>
              ResolveKey(b, edits[i].key) # ResolveKey(b, edits[j].key)
         /\ edits[i].does = "remove" /\ edits[j].does \in {"add", "set", "remove"} =>
              edits[j].key # edits[i].key /\ edits[j].key # Plural(edits[i].key)
         /\ edits[i].does = "add" =>
              edits[j].key # edits[i].key /\ edits[j].key # Plural(edits[i].key)
<1> DEFINE k == edits[i].key
           l == edits[j].key
<1>1. b \in Tables
  BY DEF IsTable
<1>2. k \in KeyNames /\ l \in KeyNames
  BY EditTypes
<1>3. /\ k # l
      /\ k = Plural(l) => k \in Keys(b) /\ l \in Keys(b)
      /\ l = Plural(k) => k \in Keys(b) /\ l \in Keys(b)
  BY DEF Clear
<1>4. /\ edits[i].does \in {"set", "remove"} => ResolveKey(b, k) # Absent
      /\ edits[j].does \in {"set", "remove"} => ResolveKey(b, l) # Absent
      /\ edits[i].does = "add" => ResolveKey(b, k) = Absent
      /\ edits[i].does = "remove" => ~ (k \in Keys(b) /\ Plural(k) \in Keys(b))
  BY DEF Clear
<1> HIDE DEF k, l
<1>5. /\ Plural(k) # k /\ Plural(Plural(k)) = k
      /\ Plural(l) # l /\ Plural(Plural(l)) = l
  BY <1>2, PluralIsOther
<1>6. /\ ResolveKey(b, k) \in {k, Plural(k), Absent} /\ (k \in Keys(b) => ResolveKey(b, k) = k)
      /\ ResolveKey(b, l) \in {l, Plural(l), Absent} /\ (l \in Keys(b) => ResolveKey(b, l) = l)
      /\ (ResolveKey(b, k) = Absent => k \notin Keys(b))
  BY <1>1, <1>2, Spelling
<1>7. ASSUME edits[i].does \in {"set", "remove"}, edits[j].does \in {"set", "remove"},
             ResolveKey(b, k) = ResolveKey(b, l)
      PROVE  FALSE
  <2>1. k = Plural(l) \/ l = Plural(k)
    BY <1>3, <1>4, <1>5, <1>6, <1>7
  <2> QED
    BY <2>1, <1>3, <1>6, <1>7
<1>8. edits[i].does = "remove" => l # Plural(k)
  BY <1>3, <1>4
<1>9. edits[i].does = "add" => l # Plural(k)
  BY <1>3, <1>4, <1>6
<1> QED
  BY <1>3, <1>7, <1>8, <1>9 DEF k, l

\* Each edit finds in the table so far what it finds in b.
LEMMA StillThere ==
  ASSUME NEW b, IsTable(b), NEW edits, Clear(b, edits), NEW n \in 1..Len(edits),
         NEW t, Done(b, edits, n - 1, t)
  PROVE  /\ edits[n].does \in {"set", "remove"} =>
              ResolveKey(t, edits[n].key) = ResolveKey(b, edits[n].key)
         /\ edits[n].does = "add" =>
              ResolveKey(t, edits[n].key) = Absent /\ edits[n].key \notin Keys(t)
<1> DEFINE k == edits[n].key
           m == n - 1
           removed == RemovedBy(b, edits, m)
           added == AddedBy(edits, m)
<1>1. b \in Tables /\ t \in Tables
  BY DEF IsTable, Done
<1>2. k \in KeyNames /\ Plural(k) \in KeyNames
  BY EditTypes, PluralIsOther
<1>3. Len(edits) \in Nat /\ \A i \in 1..m : i \in 1..Len(edits) /\ i # n
  BY LenProperties DEF Clear
<1>4. Keys(t) = (Keys(b) \ removed) \union added
  BY DEF Done
<1>5. ASSUME Active(edits[n]), k \in added \/ Plural(k) \in added
      PROVE  FALSE
  <2>1. PICK i \in 1..m : edits[i].does = "add" /\ (edits[i].key = k \/ edits[i].key = Plural(k))
    BY <1>5 DEF AddedBy
  <2>2. Active(edits[i])
    BY <2>1 DEF Active
  <2>3. k # edits[i].key /\ k # Plural(edits[i].key)
    BY <2>1, <2>2, <1>3, <1>5, Targets
  <2> QED
    BY <2>1, <2>3, <1>2, PluralIsOther
<1>6. ASSUME edits[n].does \in {"set", "remove"}, ResolveKey(b, k) \in removed
      PROVE  FALSE
  <2>1. PICK i \in 1..m : edits[i].does = "remove" /\ ResolveKey(b, edits[i].key) = ResolveKey(b, k)
    BY <1>6 DEF RemovedBy
  <2>2. Active(edits[i]) /\ Active(edits[n])
    BY <2>1, <1>6 DEF Active
  <2> QED
    BY <2>1, <2>2, <1>3, <1>6, Targets
<1> HIDE DEF k, removed, added, m
<1>7. ASSUME edits[n].does \in {"set", "remove"}
      PROVE  ResolveKey(t, k) = ResolveKey(b, k)
  <2>1. ResolveKey(b, k) # Absent
    BY <1>7 DEF Clear, k
  <2>2. ResolveKey(b, k) \in Keys(b) /\ ResolveKey(b, k) \notin removed
    BY <2>1, <1>1, <1>2, <1>6, <1>7, Spelling
  <2>3. k \notin added /\ Plural(k) \notin added
    BY <1>5, <1>7 DEF Active
  <2>4. CASE k \in Keys(b)
    <3>1. ResolveKey(b, k) = k
      BY <2>4, <1>1, <1>2, Spelling
    <3>2. k \in Keys(t)
      BY <3>1, <2>2, <1>4
    <3> QED
      BY <3>1, <3>2, <1>1, <1>2, Spelling
  <2>5. CASE k \notin Keys(b)
    <3>1. ResolveKey(b, k) = Plural(k) /\ Plural(k) \in Keys(b)
      BY <2>5, <2>1, <1>1, <1>2, Spelling
    <3>2. k \notin Keys(t) /\ Plural(k) \in Keys(t)
      BY <3>1, <2>2, <2>3, <2>5, <1>4
    <3> QED
      BY <3>1, <3>2, <1>1, <1>2, Spelling
  <2> QED
    BY <2>4, <2>5
<1>8. ASSUME edits[n].does = "add"
      PROVE  ResolveKey(t, k) = Absent /\ k \notin Keys(t)
  <2>1. ResolveKey(b, k) = Absent
    BY <1>8 DEF Clear, k
  <2>2. k \notin Keys(b) /\ Plural(k) \notin Keys(b)
    BY <2>1, <1>1, <1>2, Spelling
  <2>3. k \notin added /\ Plural(k) \notin added
    BY <1>5, <1>8 DEF Active
  <2>4. k \notin Keys(t) /\ Plural(k) \notin Keys(t)
    BY <2>2, <2>3, <1>4
  <2> QED
    BY <2>4, <1>1, <1>2, Spelling
<1> QED
  BY <1>7, <1>8 DEF k

\* What an edit set is still there.
LEMMA SetIsThere ==
  ASSUME NEW b, IsTable(b), NEW edits, Clear(b, edits), NEW n \in 1..Len(edits) + 1,
         NEW i \in 1..(n - 1), edits[i].does = "set"
  PROVE  ResolveKey(b, edits[i].key) \in
           (Keys(b) \ RemovedBy(b, edits, n - 1)) \union AddedBy(edits, n - 1)
<1>1. b \in Tables /\ i \in 1..Len(edits) /\ \A j \in 1..(n - 1) : j \in 1..Len(edits)
  BY LenProperties DEF IsTable, Clear
<1>2. ResolveKey(b, edits[i].key) \in Keys(b)
  BY <1>1, EditTypes, Spelling DEF Clear
<1>3. ASSUME NEW j \in 1..(n - 1), edits[j].does = "remove"
      PROVE  ResolveKey(b, edits[j].key) # ResolveKey(b, edits[i].key)
  <2>1. j # i
    BY <1>3
  <2> QED
    BY <2>1, <1>1, <1>3, Targets DEF Active
<1> QED
  BY <1>2, <1>3 DEF RemovedBy

States == [table : Tables, failed : BOOLEAN]

\* Even of several entries of a key one is found.
LEMMA IndexIsPlace ==
  ASSUME NEW t \in Tables, NEW k \in KeyNames, ResolveKey(t, k) # Absent
  PROVE  Index(t, k) \in DOMAIN t
<1> DEFINE S == {i \in DOMAIN t : t[i].key = ResolveKey(t, k)}
<1>1. S # {}
  BY Spelling DEF Keys
<1>2. S \in SUBSET Nat
  BY TableLines
<1>3. PICK i \in S : \A j \in S : i <= j
  BY <1>1, <1>2, SmallestNat, Zenon
<1>4. Min(S) \in S
  BY <1>3 DEF Min
<1> QED
  BY <1>4 DEF Index

\* Edits make tables of tables.
LEMMA EditStays == EditKeeps(States, EditSet)
<1> SUFFICES ASSUME NEW s \in States, NEW e \in EditSet PROVE Edit(s, e) \in States
  BY DEF EditKeeps
<1> DEFINE t == s.table
           at == Index(t, e.key)
<1>1. t \in Tables /\ s.failed \in BOOLEAN /\ s = [table |-> t, failed |-> s.failed]
  BY DEF States
<1>2. t \in Seq(Lines) /\ Len(t) \in Nat /\ DOMAIN t = 1..Len(t) /\ \A i \in DOMAIN t : t[i] \in Lines
  BY <1>1, TableLines DEF Tables, Lines
<1>3. e.key \in KeyNames /\ (e.does \in {"set", "add"} => e.value \in EntryTexts)
  BY DEF EditSet
<1>4. ResolveKey(t, e.key) # Absent => at \in DOMAIN t
  BY <1>1, <1>3, IndexIsPlace
<1>5. ASSUME NEW u \in Seq(Lines) PROVE [s EXCEPT !.table = u] \in States
  BY <1>1, <1>5 DEF States, Tables, Lines
<1>6. [s EXCEPT !.failed = TRUE] \in States
  BY <1>1 DEF States
<1>7. ASSUME at \in DOMAIN t, e.value \in EntryTexts
      PROVE  [s EXCEPT !.table[at].value = e.value] \in States
  <2> DEFINE u == [t EXCEPT ![at].value = e.value]
  <2>1. u \in [1..Len(t) -> Lines]
    BY <1>2, <1>7 DEF Lines
  <2>2. u \in Seq(Lines)
    BY <2>1, <1>2, FunctionIsSeq
  <2>3. [s EXCEPT !.table[at].value = e.value] = [s EXCEPT !.table = u]
    BY <1>1
  <2> HIDE DEF u
  <2> QED
    BY <2>2, <2>3, <1>5
<1>8. ASSUME e.value \in EntryTexts
      PROVE  [s EXCEPT !.table = Append(@, [key |-> e.key, value |-> e.value])] \in States
  <2> DEFINE line == [key |-> e.key, value |-> e.value]
  <2>1. line \in Lines
    BY <1>3, <1>8 DEF Lines
  <2> HIDE DEF line
  <2>2. Append(t, line) \in Seq(Lines)
    BY <2>1, <1>2
  <2>3. [s EXCEPT !.table = Append(@, line)] = [s EXCEPT !.table = Append(t, line)]
    OBVIOUS
  <2> QED
    BY <2>2, <2>3, <1>5 DEF line
<1>9. ASSUME at \in DOMAIN t
      PROVE  [s EXCEPT !.table = RemoveAt(@, at)] \in States
  <2>1. SubSeq(t, 1, at - 1) \in Seq(Lines) /\ SubSeq(t, at + 1, Len(t)) \in Seq(Lines)
    BY <1>2, <1>9, SubSeqProperties
  <2>2. RemoveAt(t, at) \in Seq(Lines)
    BY <2>1, ConcatProperties DEF RemoveAt
  <2>3. [s EXCEPT !.table = RemoveAt(@, at)] = [s EXCEPT !.table = RemoveAt(t, at)]
    OBVIOUS
  <2> QED
    BY <2>2, <2>3, <1>5
<1> DEFINE there == ResolveKey(t, e.key) # Absent
<1> HIDE DEF t, at, there
<1>10. Edit(s, e) =
         CASE e.does = "set" /\ there -> [s EXCEPT !.table[at].value = e.value]
           [] e.does = "add" /\ ~there ->
                [s EXCEPT !.table = Append(@, [key |-> e.key, value |-> e.value])]
           [] e.does = "remove" /\ there -> [s EXCEPT !.table = RemoveAt(@, at)]
           [] e.does = "nothing" -> s
           [] OTHER -> [s EXCEPT !.failed = TRUE]
  BY Zenon DEF Edit, t, at, there
<1> QED
  BY <1>3, <1>4, <1>6, <1>7, <1>8, <1>9, <1>10 DEF there

\* One more edit.
LEMMA OneMoreEdit ==
  ASSUME NEW b, IsTable(b), NEW edits, Clear(b, edits), NEW n \in 1..Len(edits),
         NEW s \in States, ~ s.failed, Done(b, edits, n - 1, s.table),
         NEW new, new = Edit(s, edits[n])
  PROVE  ~ new.failed /\ Done(b, edits, n, new.table)
<1> DEFINE e == edits[n]
           t == s.table
           at == Index(t, e.key)
           r == ResolveKey(b, e.key)
           u == new.table
           m == n - 1
<1>1. /\ e.key \in KeyNames /\ e.does \in {"set", "add", "remove", "nothing"}
      /\ e.does \in {"set", "add"} => e.value \in EntryTexts
  BY EditTypes
<1>2. /\ e.does \in {"set", "remove"} => ResolveKey(t, e.key) = r /\ r # Absent
      /\ e.does = "add" => ResolveKey(t, e.key) = Absent /\ e.key \notin Keys(t)
                           /\ e.key \notin Keys(b)
  <2>1. b \in Tables
    BY DEF IsTable
  <2>2. e.does = "add" => ResolveKey(b, e.key) = Absent
    BY DEF Clear
  <2>3. e.does = "add" => e.key \notin Keys(b)
    BY <2>1, <2>2, <1>1, Spelling
  <2>4. e.does \in {"set", "remove"} => r # Absent
    BY DEF Clear
  <2>5. /\ edits[n].does \in {"set", "remove"} =>
              ResolveKey(t, edits[n].key) = ResolveKey(b, edits[n].key)
        /\ edits[n].does = "add" =>
              ResolveKey(t, edits[n].key) = Absent /\ edits[n].key \notin Keys(t)
    BY StillThere, Zenon
  <2> QED
    BY <2>3, <2>4, <2>5
<1>3. /\ IsTable(t)
      /\ Keys(t) = (Keys(b) \ RemovedBy(b, edits, m)) \union AddedBy(edits, m)
      /\ \A i \in 1..m :
           /\ edits[i].does = "set" => Values(t)[ResolveKey(b, edits[i].key)] = edits[i].value
           /\ edits[i].does = "add" => Values(t)[edits[i].key] = edits[i].value
      /\ \A x \in Keys(t) \ (SetBy(b, edits, m) \union AddedBy(edits, m)) : Values(t)[x] = Values(b)[x]
  BY DEF Done
<1>4. /\ 1..n = 1..m \union {n} /\ n \notin 1..m /\ 1..n \subseteq 1..Len(edits)
  BY LenProperties DEF Clear
<1>5. /\ RemovedBy(b, edits, n) =
           RemovedBy(b, edits, m) \union (IF e.does = "remove" THEN {r} ELSE {})
      /\ AddedBy(edits, n) = AddedBy(edits, m) \union (IF e.does = "add" THEN {e.key} ELSE {})
      /\ SetBy(b, edits, n) = SetBy(b, edits, m) \union (IF e.does = "set" THEN {r} ELSE {})
  BY <1>4 DEF RemovedBy, AddedBy, SetBy
<1>6. s = [table |-> t, failed |-> FALSE] /\ t \in Tables
  BY DEF States
<1>7. \A i \in 1..m : i \in 1..Len(edits) /\ i # n
  BY <1>4
<1>12. \A i \in 1..m : /\ edits[i].does = "set" => ResolveKey(b, edits[i].key) \in Keys(t)
                       /\ edits[i].does = "add" => edits[i].key \in Keys(t)
  <2> TAKE i \in 1..m
  <2>1. edits[i].does = "add" => edits[i].key \in AddedBy(edits, m)
    BY DEF AddedBy
  <2>2. ASSUME edits[i].does = "set"
        PROVE  ResolveKey(b, edits[i].key) \in
                 (Keys(b) \ RemovedBy(b, edits, m)) \union AddedBy(edits, m)
    <3>1. n \in 1..Len(edits) + 1
      BY LenProperties DEF Clear
    <3> QED
      BY <2>2, <3>1, SetIsThere, Zenon
  <2> QED
    BY <2>1, <2>2, <1>3
<1> HIDE DEF m
<1>8. CASE e.does = "nothing"
  <2>1. new = s
    BY <1>8 DEF Edit
  <2> QED
    BY <2>1, <1>3, <1>4, <1>5, <1>8 DEF Done
<1>9. CASE e.does = "set"
  <2>1. new = [s EXCEPT !.table[at].value = e.value]
    BY <1>2, <1>9 DEF Edit
  <2>2. u = [t EXCEPT ![at].value = e.value] /\ ~ new.failed
    BY <2>1, <1>6
  <2>3. at \in DOMAIN t /\ t[at].key = r
    BY <1>1, <1>2, <1>3, <1>9, Place
  <2> HIDE DEF u, t, at
  <2>a. Becomes([t EXCEPT ![at].value = e.value], Keys(t), [Values(t) EXCEPT ![t[at].key] = e.value])
    BY <2>3, <1>1, <1>3, <1>9, SetValue
  <2>4. IsTable(u) /\ Keys(u) = Keys(t) /\ Values(u) = [Values(t) EXCEPT ![r] = e.value]
    BY <2>a, <2>2, <2>3 DEF Becomes
  <2>5. r \in Keys(t) /\ DOMAIN Values(t) = Keys(t)
    BY <2>3, <1>3, OnePlace DEF Keys
  <2>6. /\ Values(u)[r] = e.value
        /\ \A x \in Keys(t) : x # r => Values(u)[x] = Values(t)[x]
    BY <2>4, <2>5
  <2>7. \A i \in 1..m : /\ edits[i].does = "set" => ResolveKey(b, edits[i].key) # r
                        /\ edits[i].does = "add" => edits[i].key # r
    <3> TAKE i \in 1..m
    <3>1. edits[i].does = "set" => ResolveKey(b, edits[i].key) # r
      BY <1>7, <1>9, Targets DEF Active
    <3>2. edits[i].does = "add" => edits[i].key \notin Keys(b)
      <4>1. b \in Tables
        BY DEF IsTable
      <4> QED
        BY <4>1, <1>7, EditTypes, Spelling DEF Clear
    <3>3. r \in Keys(b)
      BY <1>1, <1>2, <1>9, Spelling DEF IsTable
    <3> QED
      BY <3>1, <3>2, <3>3
  <2>9. Keys(u) = (Keys(b) \ RemovedBy(b, edits, n)) \union AddedBy(edits, n)
    BY <2>4, <1>3, <1>5, <1>9
  <2>10. \A i \in 1..n :
           /\ edits[i].does = "set" => Values(u)[ResolveKey(b, edits[i].key)] = edits[i].value
           /\ edits[i].does = "add" => Values(u)[edits[i].key] = edits[i].value
    BY <2>6, <2>7, <1>12, <1>3, <1>4, <1>9
  <2>11. \A x \in Keys(u) \ (SetBy(b, edits, n) \union AddedBy(edits, n)) : Values(u)[x] = Values(b)[x]
    BY <2>4, <2>6, <1>3, <1>5, <1>9
  <2> QED
    BY <2>2, <2>4, <2>9, <2>10, <2>11 DEF Done, u
<1>10. CASE e.does = "add"
  <2>1. new = [s EXCEPT !.table = Append(@, [key |-> e.key, value |-> e.value])]
    BY <1>2, <1>10 DEF Edit
  <2>2. u = Append(t, [key |-> e.key, value |-> e.value]) /\ ~ new.failed
    BY <2>1, <1>6
  <2> HIDE DEF u, t, at
  <2>3. /\ IsTable(u) /\ Keys(u) = Keys(t) \union {e.key}
        /\ Values(u) = [x \in Keys(t) \union {e.key} |-> IF x = e.key THEN e.value ELSE Values(t)[x]]
    <3>1. Becomes(Append(t, [key |-> e.key, value |-> e.value]), Keys(t) \union {e.key},
                  [x \in Keys(t) \union {e.key} |-> IF x = e.key THEN e.value ELSE Values(t)[x]])
      <4>1. IsTable(t) /\ e.key \in KeyNames /\ e.key \notin Keys(t) /\ e.value \in EntryTexts
        BY <1>1, <1>2, <1>3, <1>10
      <4> HIDE DEF e
      <4> QED
        BY <4>1, AddLine, Zenon
    <3> QED
      BY <3>1, <2>2 DEF Becomes
  <2>4. /\ Values(u)[e.key] = e.value
        /\ \A x \in Keys(t) : Values(u)[x] = Values(t)[x]
    BY <2>3, <1>2, <1>10
  <2>9. Keys(u) = (Keys(b) \ RemovedBy(b, edits, n)) \union AddedBy(edits, n)
    BY <2>3, <1>3, <1>5, <1>10
  <2>10. \A i \in 1..n :
           /\ edits[i].does = "set" => Values(u)[ResolveKey(b, edits[i].key)] = edits[i].value
           /\ edits[i].does = "add" => Values(u)[edits[i].key] = edits[i].value
    BY <2>4, <1>12, <1>3, <1>4, <1>10
  <2>11. \A x \in Keys(u) \ (SetBy(b, edits, n) \union AddedBy(edits, n)) : Values(u)[x] = Values(b)[x]
    BY <2>3, <2>4, <1>3, <1>5, <1>10
  <2> QED
    BY <2>2, <2>3, <2>9, <2>10, <2>11 DEF Done, u
<1>11. CASE e.does = "remove"
  <2>1. new = [s EXCEPT !.table = RemoveAt(@, at)]
    BY <1>2, <1>11 DEF Edit
  <2>2. u = RemoveAt(t, at) /\ ~ new.failed
    BY <2>1, <1>6
  <2>3. at \in DOMAIN t /\ t[at].key = r
    BY <1>1, <1>2, <1>3, <1>11, Place
  <2> HIDE DEF u, t, at
  <2>4. /\ IsTable(u) /\ Keys(u) = Keys(t) \ {r}
        /\ Values(u) = [x \in Keys(t) \ {r} |-> Values(t)[x]]
    <3>1. Becomes(RemoveAt(t, at), Keys(t) \ {t[at].key},
                  [x \in Keys(t) \ {t[at].key} |-> Values(t)[x]])
      BY <2>3, <1>3, RemoveLine
    <3> QED
      BY <3>1, <2>2, <2>3 DEF Becomes
  <2>5. \A x \in Keys(t) : x # r => Values(u)[x] = Values(t)[x]
    BY <2>4
  <2>6. r \in Keys(b) /\ r \notin AddedBy(edits, m)
    <3>1. r \in Keys(b)
      BY <1>1, <1>2, <1>11, Spelling DEF IsTable
    <3>2. ASSUME NEW i \in 1..m, edits[i].does = "add" PROVE edits[i].key \notin Keys(b)
      <4>1. b \in Tables
        BY DEF IsTable
      <4> QED
        BY <4>1, <3>2, <1>7, EditTypes, Spelling DEF Clear
    <3> QED
      BY <3>1, <3>2 DEF AddedBy
  <2>7. \A i \in 1..m : /\ edits[i].does = "set" => ResolveKey(b, edits[i].key) # r
                        /\ edits[i].does = "add" => edits[i].key # r
    <3> TAKE i \in 1..m
    <3>1. edits[i].does = "set" => ResolveKey(b, edits[i].key) # r
      BY <1>7, <1>11, Targets DEF Active
    <3>2. edits[i].does = "add" => edits[i].key \in AddedBy(edits, m)
      BY DEF AddedBy
    <3> QED
      BY <3>1, <3>2, <2>6
  <2>9. Keys(u) = (Keys(b) \ RemovedBy(b, edits, n)) \union AddedBy(edits, n)
    BY <2>4, <2>6, <1>3, <1>5, <1>11
  <2>10. \A i \in 1..n :
           /\ edits[i].does = "set" => Values(u)[ResolveKey(b, edits[i].key)] = edits[i].value
           /\ edits[i].does = "add" => Values(u)[edits[i].key] = edits[i].value
    BY <2>5, <2>7, <1>12, <1>3, <1>4, <1>11
  <2>11. \A x \in Keys(u) \ (SetBy(b, edits, n) \union AddedBy(edits, n)) : Values(u)[x] = Values(b)[x]
    BY <2>4, <2>5, <1>3, <1>5, <1>11
  <2> QED
    BY <2>2, <2>4, <2>9, <2>10, <2>11 DEF Done, u
<1> QED
  BY <1>1, <1>8, <1>9, <1>10, <1>11

\* SetToSeq has each element of a finite set once.
LEMMA SetSequence ==
  ASSUME NEW S, IsFiniteSet(S)
  PROVE  \E n \in Nat : /\ SetToSeq(S) \in [1..n -> S]
                        /\ \A i, j \in 1..n : SetToSeq(S)[i] = SetToSeq(S)[j] => i = j
                        /\ \A x \in S : \E i \in 1..n : SetToSeq(S)[i] = x
<1> DEFINE n == Cardinality(S)
           s == SetToSeq(S)
<1>1. n \in Nat /\ ExistsBijection(1..n, S)
  BY FS_CardinalityType
<1>2. PICK f : f \in Bijection(1..n, S)
  BY <1>1 DEF ExistsBijection
<1>3. f \in [1..n -> S] /\ IsInjective(f)
  BY <1>2 DEF Bijection, Injection
<1>4. s \in [1..n -> S] /\ IsInjective(s)
  BY <1>3, Zenon DEF SetToSeq
<1>5. s \in Injection(1..n, S)
  BY <1>4, Zenon DEF Injection
<1> HIDE DEF s
<1>6. Cardinality(1..n) = n
  BY <1>1, FS_Interval
<1>7. s \in Surjection(1..n, S)
  BY <1>5, <1>6, FS_Injection
<1>8. \A i, j \in 1..n : s[i] = s[j] => i = j
  BY <1>4 DEF IsInjective
<1>9. \A x \in S : \E i \in 1..n : s[i] = x
  BY <1>7 DEF Surjection
<1> QED
  BY <1>1, <1>4, <1>8, <1>9, Zenon DEF s

\* The table final all edits.
LEMMA EditsAreDone ==
  ASSUME NEW b, IsTable(b), NEW edits, Clear(b, edits),
         NEW s, s = FoldLeft(Edit, [table |-> b, failed |-> FALSE], edits)
  PROVE  ~ s.failed /\ Done(b, edits, Len(edits), s.table)
<1> DEFINE base == [table |-> b, failed |-> FALSE]
           n == Len(edits)
<1>1. n \in Nat /\ edits \in Seq(EditSet)
  BY LenProperties DEF Clear
<1>2. base \in States
  BY DEF States, IsTable
<1>3. PICK t : EditRun(t, edits, base, States)
  BY <1>1, <1>2, EditStays, EditFold, Zenon
<1> DEFINE T == {k \in 0..n : ~ t[k].failed /\ Done(b, edits, k, t[k].table)}
<1>4. 0 \in T
  <2>1. t[0].table = b /\ t[0].failed = FALSE
    BY <1>3 DEF EditRun
  <2>2. 0 \in 0..n /\ 1..0 = {}
    BY <1>1
  <2>3. Done(b, edits, 0, b)
    BY <2>2 DEF Done, RemovedBy, AddedBy, SetBy
  <2> QED
    BY <2>1, <2>2, <2>3
<1>5. ASSUME NEW k \in 0..n, k < n, k \in T PROVE k + 1 \in T
  <2>1. k + 1 \in 1..n /\ k + 1 \in 0..n /\ (k + 1) - 1 = k
    BY <1>1, <1>5
  <2>2. t[k + 1] = Edit(t[k], edits[k + 1]) /\ t[k] \in States
    BY <2>1, <1>3, Zenon DEF EditRun
  <2>3. ~ t[k].failed /\ Done(b, edits, (k + 1) - 1, t[k].table)
    BY <2>1, <1>5
  <2>4. ~ t[k + 1].failed /\ Done(b, edits, k + 1, t[k + 1].table)
    BY <2>1, <2>2, <2>3, OneMoreEdit, Zenon
  <2> QED
    BY <2>1, <2>4
<1> HIDE DEF T
<1>6. n \in T
  <2>1. 0..n \subseteq T
    BY <1>1, <1>4, <1>5, UpTo
  <2> QED
    BY <2>1, <1>1
<1>7. s = t[n]
  BY <1>3, Zenon DEF EditRun
<1> QED
  BY <1>6, <1>7 DEF T

\* A request for keys each of which is named once.
IsRequest(r) ==
  /\ r.values \in Seq(Lines)
  /\ \A i, j \in DOMAIN r.values : r.values[i].key = r.values[j].key => i = j
  /\ r.removals \in SUBSET KeyNames /\ IsFiniteSet(r.removals)

\* A plan for some of its keys.
IsPlan(r, p) ==
  /\ p.updated \subseteq Asked(r) /\ p.added \subseteq Asked(r)
  /\ p.updated \intersect p.added = {} /\ p.removed \intersect Asked(r) = {}
  /\ p.removed \subseteq r.removals

\* Edits do what a plan says, once for each key.
HasEdits(edits, r, p) ==
  /\ edits \in Seq(EditSet)
  /\ \A i \in 1..Len(edits) :
       /\ edits[i].does = "set" => edits[i].key \in p.updated
       /\ edits[i].does = "add" => edits[i].key \in p.added
       /\ edits[i].does = "remove" => edits[i].key \in p.removed
       /\ edits[i].does \in {"set", "add"} =>
            [key |-> edits[i].key, value |-> edits[i].value] \in ToSet(r.values)
  /\ \A k \in p.updated : \E i \in 1..Len(edits) : edits[i].does = "set" /\ edits[i].key = k
  /\ \A k \in p.added : \E i \in 1..Len(edits) : edits[i].does = "add" /\ edits[i].key = k
  /\ \A k \in p.removed : \E i \in 1..Len(edits) : edits[i].does = "remove" /\ edits[i].key = k
  /\ \A i, j \in 1..Len(edits) :
       i # j /\ Active(edits[i]) /\ Active(edits[j]) => edits[i].key # edits[j].key

\* One kind of edit, for some keys.
Each(r, keys, does) ==
  [i \in DOMAIN r.values |->
     [key |-> r.values[i].key, value |-> r.values[i].value,
      does |-> IF r.values[i].key \in keys THEN does ELSE "nothing"]]

\* What there is of that kind.
LEMMA EachEdits ==
  ASSUME NEW r, IsRequest(r), NEW keys \in SUBSET Asked(r), NEW does \in {"set", "add"},
         NEW e, e = Each(r, keys, does)
  PROVE  /\ e \in Seq(EditSet) /\ Len(e) = Len(r.values)
         /\ \A i \in 1..Len(e) : /\ e[i].does \in {does, "nothing"}
                                 /\ e[i].key = r.values[i].key /\ e[i].value = r.values[i].value
                                 /\ e[i].does = does <=> e[i].key \in keys
         /\ \A k \in keys : \E i \in 1..Len(e) : e[i].does = does /\ e[i].key = k
<1> DEFINE n == Len(r.values)
<1>1. n \in Nat /\ DOMAIN r.values = 1..n /\ \A i \in 1..n : r.values[i] \in Lines
  BY LenProperties, ElementOfSeq DEF IsRequest
<1>2. \A i \in 1..n : r.values[i].key \in KeyNames /\ r.values[i].value \in EntryTexts
  BY <1>1 DEF Lines
<1>3. \A i \in 1..n : e[i] = [key |-> r.values[i].key, value |-> r.values[i].value,
                              does |-> IF r.values[i].key \in keys THEN does ELSE "nothing"]
  BY <1>1 DEF Each
<1>7. \A i \in 1..n : /\ e[i].does \in {does, "nothing"}
                      /\ e[i].key = r.values[i].key /\ e[i].value = r.values[i].value
                      /\ e[i].does = does <=> e[i].key \in keys
  <2> TAKE i \in 1..n
  <2>1. CASE r.values[i].key \in keys
    <3>1. e[i] = [key |-> r.values[i].key, value |-> r.values[i].value, does |-> does]
      BY <2>1, <1>3
    <3> QED
      BY <3>1, <2>1
  <2>2. CASE r.values[i].key \notin keys
    <3>1. e[i] = [key |-> r.values[i].key, value |-> r.values[i].value, does |-> "nothing"]
      BY <2>2, <1>3
    <3> QED
      BY <3>1, <2>2
  <2> QED
    BY <2>1, <2>2
<1>4. \A i \in 1..n : e[i] \in EditSet
  <2> TAKE i \in 1..n
  <2> DEFINE k == r.values[i].key
             v == r.values[i].value
             d == IF k \in keys THEN does ELSE "nothing"
  <2>1. k \in KeyNames /\ v \in EntryTexts /\ d \in {"set", "add", "nothing"}
    BY <1>2
  <2>2. e[i] = [key |-> k, value |-> v, does |-> d]
    BY <1>3
  <2> HIDE DEF k, v, d
  <2> QED
    BY <2>1, <2>2 DEF EditSet
<1>5. e \in [1..n -> EditSet]
  <2>1. e = [i \in 1..n |-> e[i]]
    BY <1>1 DEF Each
  <2> QED
    BY <2>1, <1>4
<1>6. e \in Seq(EditSet) /\ Len(e) = n
  BY <1>1, <1>5, FunctionIsSeq, Zenon
<1> HIDE DEF n
<1>8. ASSUME NEW k \in keys PROVE \E i \in 1..n : e[i].does = does /\ e[i].key = k
  <2>1. PICK i \in 1..n : r.values[i].key = k
    BY <1>1, <1>8 DEF Asked
  <2> QED
    BY <2>1, <1>7
<1> QED
  BY <1>6, <1>7, <1>8 DEF n

\* Two sequences, one final the other.
Concats(c, s, u, m, n, S) ==
  /\ c \in Seq(S) /\ Len(c) = m + n
  /\ \A i \in 1..m : c[i] = s[i]
  /\ \A i \in 1..n : c[m + i] = u[i]

\* They are joined so.
LEMMA Concatenated ==
  ASSUME NEW S, NEW s \in Seq(S), NEW u \in Seq(S), NEW m \in Nat, NEW n \in Nat,
         Len(s) = m, Len(u) = n
  PROVE  Concats(s \o u, s, u, m, n, S)
<1>1. /\ s \o u \in Seq(S) /\ Len(s \o u) = m + n
      /\ \A i \in 1..(m + n) : (s \o u)[i] = IF i <= m THEN s[i] ELSE u[i - m]
  BY ConcatProperties
<1>2. \A i \in 1..m : (s \o u)[i] = s[i]
  BY <1>1
<1>3. \A i \in 1..n : (s \o u)[m + i] = u[i]
  <2> TAKE i \in 1..n
  <2>1. m + i \in 1..(m + n) /\ ~ (m + i <= m) /\ (m + i) - m = i
    OBVIOUS
  <2> QED
    BY <2>1, <1>1
<1> QED
  BY <1>1, <1>2, <1>3 DEF Concats

\* The edits of a plan are these.
LEMMA EditsOfPlan ==
  ASSUME NEW r, IsRequest(r), NEW p, IsPlan(r, p)
  PROVE  HasEdits(Edits(r, p), r, p)
<1> DEFINE a == Each(r, p.updated, "set")
           b == Each(r, p.added, "add")
           removed == SetToSeq(p.removed)
           c == [i \in DOMAIN removed |->
                   [key |-> removed[i], value |-> Absent, does |-> "remove"]]
           n == Len(r.values)
           e == Edits(r, p)
<1>1. e = (a \o b) \o c
  BY DEF Edits, Each
<1>2. n \in Nat /\ DOMAIN r.values = 1..n
  BY LenProperties DEF IsRequest
<1>3. /\ a \in Seq(EditSet) /\ Len(a) = n
      /\ \A i \in 1..n : /\ a[i].does \in {"set", "nothing"}
                         /\ a[i].key = r.values[i].key /\ a[i].value = r.values[i].value
                         /\ a[i].does = "set" <=> a[i].key \in p.updated
      /\ \A k \in p.updated : \E i \in 1..n : a[i].does = "set" /\ a[i].key = k
  BY EachEdits DEF IsPlan
<1>4. /\ b \in Seq(EditSet) /\ Len(b) = n
      /\ \A i \in 1..n : /\ b[i].does \in {"add", "nothing"}
                         /\ b[i].key = r.values[i].key /\ b[i].value = r.values[i].value
                         /\ b[i].does = "add" <=> b[i].key \in p.added
      /\ \A k \in p.added : \E i \in 1..n : b[i].does = "add" /\ b[i].key = k
  BY EachEdits DEF IsPlan
<1>5. p.removed \subseteq KeyNames /\ IsFiniteSet(p.removed)
  BY FS_Subset DEF IsPlan, IsRequest
<1>6. PICK m \in Nat : /\ removed \in [1..m -> p.removed]
                       /\ \A i, j \in 1..m : removed[i] = removed[j] => i = j
                       /\ \A x \in p.removed : \E i \in 1..m : removed[i] = x
  BY <1>5, SetSequence, Zenon
<1> HIDE DEF removed
<1>7. /\ c \in Seq(EditSet) /\ Len(c) = m
      /\ \A i \in 1..m : c[i].does = "remove" /\ c[i].key = removed[i] /\ c[i].key \in p.removed
      /\ \A k \in p.removed : \E i \in 1..m : c[i].does = "remove" /\ c[i].key = k
  <2>1. DOMAIN removed = 1..m
    BY <1>6
  <2>2. \A i \in 1..m : c[i] = [key |-> removed[i], value |-> Absent, does |-> "remove"]
    BY <2>1
  <2>3. \A i \in 1..m : removed[i] \in KeyNames /\ removed[i] \in p.removed
    BY <1>5, <1>6
  <2>4. c \in [1..m -> EditSet]
    BY <2>1, <2>3 DEF EditSet
  <2>5. c \in Seq(EditSet) /\ Len(c) = m
    BY <2>4, FunctionIsSeq
  <2> HIDE DEF c
  <2> QED
    BY <2>2, <2>3, <2>5, <1>6
<1> HIDE DEF a, b, c, e, n
<1>8. /\ e \in Seq(EditSet) /\ Len(e) = n + n + m
      /\ \A i \in 1..n : e[i] = a[i]
      /\ \A i \in 1..n : e[n + i] = b[i]
      /\ \A i \in 1..m : e[n + n + i] = c[i]
  <2> DEFINE ab == a \o b
  <2>1. Concats(ab, a, b, n, n, EditSet)
    BY <1>2, <1>3, <1>4, Concatenated, Zenon
  <2>2. e = ab \o c
    BY <1>1
  <2>3. n + n \in Nat
    BY <1>2
  <2> HIDE DEF ab
  <2>4. ab \in Seq(EditSet) /\ Len(ab) = n + n
    BY <2>1, Zenon DEF Concats
  <2>5. Concats(e, ab, c, n + n, m, EditSet)
    BY <2>2, <2>3, <2>4, <1>7, Concatenated, Zenon
  <2>6. \A i \in 1..n : i \in 1..(n + n) /\ n + i \in 1..(n + n)
    BY <1>2
  <2>7. /\ \A i \in 1..n : ab[i] = a[i]
        /\ \A i \in 1..n : ab[n + i] = b[i]
    BY <2>1, Zenon DEF Concats
  <2>8. /\ e \in Seq(EditSet) /\ Len(e) = (n + n) + m
        /\ \A i \in 1..(n + n) : e[i] = ab[i]
        /\ \A i \in 1..m : e[(n + n) + i] = c[i]
    BY <2>5, Zenon DEF Concats
  <2> QED
    BY <2>6, <2>7, <2>8
<1>9. ASSUME NEW i \in 1..Len(e)
      PROVE  \/ i \in 1..n
             \/ \E j \in 1..n : i = n + j
             \/ \E j \in 1..m : i = n + n + j
  <2>1. CASE i <= n
    BY <2>1, <1>2
  <2>2. CASE n < i /\ i <= n + n
    <3>1. i - n \in 1..n /\ i = n + (i - n)
      BY <2>2, <1>2
    <3> QED
      BY <3>1
  <2>3. CASE n + n < i
    <3>1. i - (n + n) \in 1..m /\ i = n + n + (i - (n + n))
      BY <2>3, <1>2, <1>8
    <3> QED
      BY <3>1
  <2> QED
    BY <2>1, <2>2, <2>3, <1>2
<1>10. ASSUME NEW i \in 1..n PROVE i \in 1..Len(e) /\ n + i \in 1..Len(e)
  BY <1>2, <1>8
<1>11. ASSUME NEW i \in 1..m PROVE n + n + i \in 1..Len(e)
  BY <1>2, <1>8
<1>12. ASSUME NEW i \in 1..Len(e)
       PROVE  /\ e[i].does = "set" => e[i].key \in p.updated
              /\ e[i].does = "add" => e[i].key \in p.added
              /\ e[i].does = "remove" => e[i].key \in p.removed
              /\ e[i].does \in {"set", "add"} =>
                   [key |-> e[i].key, value |-> e[i].value] \in ToSet(r.values)
  <2>0. \A j \in 1..n : [key |-> r.values[j].key, value |-> r.values[j].value] \in ToSet(r.values)
    <3> TAKE j \in 1..n
    <3>1. r.values[j] \in Lines
      BY <1>2, ElementOfSeq DEF IsRequest, n
    <3>2. r.values[j] = [key |-> r.values[j].key, value |-> r.values[j].value]
      BY <3>1 DEF Lines
    <3> QED
      BY <3>2, <1>2 DEF ToSet
  <2>1. CASE i \in 1..n
    <3>1. e[i] = a[i] /\ a[i].does \in {"set", "nothing"} /\ (a[i].does = "set" => a[i].key \in p.updated)
      BY <2>1, <1>3, <1>8
    <3>2. [key |-> e[i].key, value |-> e[i].value] = [key |-> r.values[i].key, value |-> r.values[i].value]
      BY <2>1, <3>1, <1>3
    <3> QED
      BY <3>1, <3>2, <2>0, <2>1
  <2>2. CASE \E j \in 1..n : i = n + j
    <3>0. PICK j \in 1..n : i = n + j
      BY <2>2
    <3>1. e[i] = b[j] /\ b[j].does \in {"add", "nothing"} /\ (b[j].does = "add" => b[j].key \in p.added)
      BY <3>0, <1>4, <1>8
    <3>2. [key |-> e[i].key, value |-> e[i].value] = [key |-> r.values[j].key, value |-> r.values[j].value]
      BY <3>1, <1>4
    <3> QED
      BY <3>1, <3>2, <2>0
  <2>3. CASE \E j \in 1..m : i = n + n + j
    BY <2>3, <1>7, <1>8
  <2> QED
    BY <2>1, <2>2, <2>3, <1>9
<1>13. /\ \A k \in p.updated : \E i \in 1..Len(e) : e[i].does = "set" /\ e[i].key = k
       /\ \A k \in p.added : \E i \in 1..Len(e) : e[i].does = "add" /\ e[i].key = k
       /\ \A k \in p.removed : \E i \in 1..Len(e) : e[i].does = "remove" /\ e[i].key = k
  <2>1. ASSUME NEW k \in p.updated PROVE \E i \in 1..Len(e) : e[i].does = "set" /\ e[i].key = k
    <3>1. PICK i \in 1..n : a[i].does = "set" /\ a[i].key = k
      BY <1>3
    <3> QED
      BY <3>1, <1>8, <1>10
  <2>2. ASSUME NEW k \in p.added PROVE \E i \in 1..Len(e) : e[i].does = "add" /\ e[i].key = k
    <3>1. PICK i \in 1..n : b[i].does = "add" /\ b[i].key = k
      BY <1>4
    <3> QED
      BY <3>1, <1>8, <1>10
  <2>3. ASSUME NEW k \in p.removed PROVE \E i \in 1..Len(e) : e[i].does = "remove" /\ e[i].key = k
    <3>1. PICK i \in 1..m : c[i].does = "remove" /\ c[i].key = k
      BY <1>7
    <3> QED
      BY <3>1, <1>8, <1>11
  <2> QED
    BY <2>1, <2>2, <2>3
<1>14. ASSUME NEW i \in 1..Len(e), NEW j \in 1..Len(e),
              Active(e[i]), Active(e[j]), e[i].key = e[j].key
       PROVE  i = j
  <2> DEFINE From(x, y) ==
               \/ x = y /\ x \in 1..n /\ e[x] = a[x] /\ a[x].does = "set"
               \/ x = n + y /\ y \in 1..n /\ e[x] = b[y] /\ b[y].does = "add"
               \/ x = n + n + y /\ y \in 1..m /\ e[x] = c[y]
  <2>1. \A x \in 1..Len(e) : Active(e[x]) => \E y : From(x, y)
    <3> SUFFICES ASSUME NEW x \in 1..Len(e), Active(e[x]) PROVE \E y : From(x, y)
      BY Zenon
    <3>1. CASE x \in 1..n
      <4>1. From(x, x)
        BY <3>1, <1>3, <1>8 DEF Active
      <4> QED
        BY <4>1, Zenon
    <3>2. CASE \E y \in 1..n : x = n + y
      <4>0. PICK y \in 1..n : x = n + y
        BY <3>2
      <4>1. From(x, y)
        BY <4>0, <1>4, <1>8 DEF Active
      <4> QED
        BY <4>1, Zenon
    <3>3. CASE \E y \in 1..m : x = n + n + y
      <4>0. PICK y \in 1..m : x = n + n + y
        BY <3>3
      <4>1. From(x, y)
        BY <4>0, <1>8
      <4> QED
        BY <4>1, Zenon
    <3> QED
      BY <3>1, <3>2, <3>3, <1>9
  <2> HIDE DEF From
  <2>2. PICK x, y : From(i, x) /\ From(j, y)
    BY <2>1, <1>14, Zenon
  <2> USE DEF From
  <2>3. p.updated \intersect p.added = {} /\ p.removed \intersect Asked(r) = {}
        /\ p.updated \subseteq Asked(r) /\ p.added \subseteq Asked(r)
    BY DEF IsPlan
  <2>4. /\ e[i].does = "set" => e[i].key \in p.updated
        /\ e[i].does = "add" => e[i].key \in p.added
        /\ e[i].does = "remove" => e[i].key \in p.removed
        /\ e[j].does = "set" => e[j].key \in p.updated
        /\ e[j].does = "add" => e[j].key \in p.added
        /\ e[j].does = "remove" => e[j].key \in p.removed
    BY <1>12
  <2>5. e[i].does \in {"set", "add", "remove"} /\ e[j].does = e[i].does
    BY <2>2, <2>3, <2>4, <1>7, <1>14
  <2>6. \A v, w \in 1..n : r.values[v].key = r.values[w].key => v = w
    BY <1>2 DEF IsRequest
  <2>7. x = y
    <3>1. CASE e[i].does = "set"
      BY <3>1, <2>2, <2>5, <2>6, <1>3, <1>4, <1>7, <1>14
    <3>2. CASE e[i].does = "add"
      BY <3>2, <2>2, <2>5, <2>6, <1>3, <1>4, <1>7, <1>14
    <3>3. CASE e[i].does = "remove"
      BY <3>3, <2>2, <2>5, <1>3, <1>4, <1>6, <1>7, <1>14
    <3> QED
      BY <2>5, <3>1, <3>2, <3>3
  <2> QED
    BY <2>2, <2>5, <2>7, <1>7
<1> QED
  BY <1>8, <1>12, <1>13, <1>14, Zenon DEF HasEdits, e

\* What a plan without errors says of the values and the removals.
PlanSays(b, r, p) ==
  LET items == ToSet(r.values)
  IN  /\ items \subseteq Lines
      /\ Asked(r) = {x.key : x \in items}
      /\ \A x, y \in items : x.key = y.key => x = y
      /\ \A x \in items : x.key \in p.updated <=>
           ResolveKey(b, x.key) # Absent /\ Get(b, x.key) # x.value
      /\ \A x \in items : x.key \in p.added <=>
           ResolveKey(b, x.key) = Absent /\ x.key \in r.mayAdd
      /\ \A x \in items : x.key \in p.skipped <=>
           ResolveKey(b, x.key) = Absent /\ x.key \notin r.mayAdd
      /\ \A x \in items : ~ Bad(b, x)
      /\ p.updated \subseteq Asked(r) /\ p.added \subseteq Asked(r) /\ p.skipped \subseteq Asked(r)
      /\ p.removed = {k \in r.removals : ResolveKey(b, k) # Absent}
      /\ r.removals \intersect Asked(r) = {}

\* So does every plan without errors.
LEMMA PlanMeans ==
  ASSUME NEW b, NEW r, IsRequest(r), NEW p, p = Plan(b, r), p.errors = {}
  PROVE  PlanSays(b, r, p) /\ IsPlan(r, p)
<1> DEFINE items == ToSet(r.values)
           New(x) == ResolveKey(b, x.key) = Absent
<1>1. items = {r.values[i] : i \in DOMAIN r.values}
  BY DEF ToSet
<1>2. items \subseteq Lines
  BY <1>1, ElementOfSeq, LenProperties DEF IsRequest
<1>3. Asked(r) = {x.key : x \in items}
  BY <1>1 DEF Asked
<1>4. \A x, y \in items : x.key = y.key => x = y
  BY <1>1 DEF IsRequest
<1>5. /\ p.errors = {x.key : x \in {y \in items : Bad(b, y)}}
                    \union (r.removals \ (r.mayRemove \ Asked(r)))
      /\ p.added = {x.key : x \in {y \in items : New(y) /\ y.key \in r.mayAdd}}
      /\ p.skipped = {x.key : x \in {y \in items : New(y) /\ y.key \notin r.mayAdd}}
      /\ p.updated = {x.key : x \in {y \in items : ~New(y) /\ Get(b, y.key) # y.value}}
      /\ p.removed = {k \in r.removals : ResolveKey(b, k) # Absent}
  BY DEF Plan
<1> HIDE DEF items
<1>6. \A x \in items : ~ Bad(b, x)
  BY <1>5
<1>7. r.removals \intersect Asked(r) = {}
  BY <1>5
<1>8. \A x \in items : x.key \in p.updated <=> ~ New(x) /\ Get(b, x.key) # x.value
  BY <1>4, <1>5
<1>9. \A x \in items : x.key \in p.added <=> New(x) /\ x.key \in r.mayAdd
  BY <1>4, <1>5
<1>10. \A x \in items : x.key \in p.skipped <=> New(x) /\ x.key \notin r.mayAdd
  BY <1>4, <1>5
<1>11. p.updated \subseteq Asked(r) /\ p.added \subseteq Asked(r) /\ p.skipped \subseteq Asked(r)
  BY <1>3, <1>5
<1>12. PlanSays(b, r, p)
  BY <1>2, <1>3, <1>4, <1>5, <1>6, <1>7, <1>8, <1>9, <1>10, <1>11 DEF PlanSays, items
<1>13. IsPlan(r, p)
  BY <1>3, <1>5, <1>7, <1>8, <1>9, <1>11 DEF IsPlan
<1> QED
  BY <1>12, <1>13

\* No edit of such a plan is in the way of another, when the names are clear.
LEMMA ClearPlan ==
  ASSUME NEW b, IsTable(b), NEW r, IsRequest(r), NEW p, PlanSays(b, r, p),
         NEW edits, HasEdits(edits, r, p),
         OneNameEach(b, r) \/ p.updated \union p.added \union p.removed = {}
  PROVE  Clear(b, edits)
<1> DEFINE L == 1..Len(edits)
<1>1. \A k \in p.updated : ResolveKey(b, k) # Absent
  BY DEF PlanSays
<1>2. \A k \in p.added : ResolveKey(b, k) = Absent
  BY DEF PlanSays
<1>3. \A k \in p.removed : ResolveKey(b, k) # Absent /\ k \in r.removals
  BY DEF PlanSays
<1>4. \A i \in L : /\ edits[i].does = "set" => edits[i].key \in p.updated
                   /\ edits[i].does = "add" => edits[i].key \in p.added
                   /\ edits[i].does = "remove" => edits[i].key \in p.removed
  BY DEF HasEdits
<1>5. edits \in Seq(EditSet)
  BY DEF HasEdits
<1>6. \A i \in L : edits[i].does \in {"set", "add", "remove", "nothing"}
                   /\ edits[i].key \in KeyNames
  <2> TAKE i \in L
  <2>1. edits[i] \in EditSet
    BY <1>5, ElementOfSeq
  <2> QED
    BY <2>1 DEF EditSet
<1>7. \A k \in p.removed : ~ {k, Plural(k)} \subseteq Keys(b)
  BY <1>3 DEF OneNameEach
<1>8. ASSUME NEW i \in L, NEW j \in L, i # j, Active(edits[i]), Active(edits[j])
      PROVE  /\ edits[i].key # edits[j].key
             /\ edits[i].key = Plural(edits[j].key) => {edits[i].key, edits[j].key} \subseteq Keys(b)
  <2>1. edits[i].key # edits[j].key
    BY <1>8 DEF HasEdits
  <2>2. \A k \in p.updated \union p.added \union p.removed : k \in Asked(r) \union r.removals
    BY <1>3 DEF PlanSays
  <2>3. /\ edits[i].key \in p.updated \union p.added \union p.removed
        /\ edits[j].key \in p.updated \union p.added \union p.removed
    BY <1>4, <1>6, <1>8 DEF Active
  <2>4. ASSUME edits[i].key = Plural(edits[j].key)
        PROVE  {edits[i].key, edits[j].key} \subseteq Keys(b)
    <3>1. {edits[j].key, Plural(edits[j].key)} \subseteq Keys(b)
      BY <2>2, <2>3, <2>4 DEF OneNameEach
    <3> QED
      BY <3>1, <2>4
  <2> QED
    BY <2>1, <2>4
<1>9. ASSUME NEW i \in L
      PROVE  /\ edits[i].does \in {"set", "remove"} => ResolveKey(b, edits[i].key) # Absent
             /\ edits[i].does = "add" => ResolveKey(b, edits[i].key) = Absent
             /\ edits[i].does = "remove" =>
                  ~ {edits[i].key, Plural(edits[i].key)} \subseteq Keys(b)
  <2>1. edits[i].does = "set" => ResolveKey(b, edits[i].key) # Absent
    BY <1>1, <1>4
  <2>2. edits[i].does = "remove" => ResolveKey(b, edits[i].key) # Absent
    BY <1>3, <1>4
  <2>3. edits[i].does = "add" => ResolveKey(b, edits[i].key) = Absent
    BY <1>2, <1>4
  <2>4. edits[i].does = "remove" => ~ {edits[i].key, Plural(edits[i].key)} \subseteq Keys(b)
    <3>1. edits[i].does = "remove" => edits[i].key \in p.removed
      BY <1>4
    <3> QED
      BY <3>1, <1>7, Zenon
  <2> QED
    BY <2>1, <2>2, <2>3, <2>4
<1> QED
  BY <1>5, <1>8, <1>9 DEF Clear

\* What the table has when the plan is done.
PlanDone(b, r, p, t) ==
  /\ IsTable(t)
  /\ Keys(t) = (Keys(b) \ {ResolveKey(b, k) : k \in p.removed}) \union p.added
  /\ \A x \in ToSet(r.values) :
       /\ x.key \in p.updated => Values(t)[ResolveKey(b, x.key)] = x.value
       /\ x.key \in p.added => Values(t)[x.key] = x.value
  /\ \A k \in Keys(t) \ ({ResolveKey(b, l) : l \in p.updated} \union p.added) :
       Values(t)[k] = Values(b)[k]

\* The edits of a plan do it.
LEMMA PlanIsDone ==
  ASSUME NEW b, IsTable(b), NEW r, IsRequest(r), NEW p, PlanSays(b, r, p), IsPlan(r, p),
         OneNameEach(b, r) \/ p.updated \union p.added \union p.removed = {}
  PROVE  ~ Edited(b, r, p).failed /\ PlanDone(b, r, p, Edited(b, r, p).table)
<1> DEFINE edits == Edits(r, p)
           s == Edited(b, r, p)
           n == Len(edits)
           t == s.table
<1>1. HasEdits(edits, r, p)
  BY EditsOfPlan
<1>2. s = FoldLeft(Edit, [table |-> b, failed |-> FALSE], edits)
  BY DEF Edited
<1> HIDE DEF edits, s
<1>3. Clear(b, edits)
  BY <1>1, ClearPlan, Zenon
<1>4. ~ s.failed /\ Done(b, edits, n, t)
  BY <1>2, <1>3, EditsAreDone, Zenon
<1>5. /\ RemovedBy(b, edits, n) = {ResolveKey(b, k) : k \in p.removed}
      /\ AddedBy(edits, n) = p.added
      /\ SetBy(b, edits, n) = {ResolveKey(b, k) : k \in p.updated}
  <2>0. /\ \A i \in 1..n : /\ edits[i].does = "set" => edits[i].key \in p.updated
                           /\ edits[i].does = "add" => edits[i].key \in p.added
                           /\ edits[i].does = "remove" => edits[i].key \in p.removed
        /\ \A k \in p.updated : \E i \in 1..n : edits[i].does = "set" /\ edits[i].key = k
        /\ \A k \in p.added : \E i \in 1..n : edits[i].does = "add" /\ edits[i].key = k
        /\ \A k \in p.removed : \E i \in 1..n : edits[i].does = "remove" /\ edits[i].key = k
    BY <1>1 DEF HasEdits
  <2> HIDE DEF n
  <2>1. {edits[i].key : i \in {j \in 1..n : edits[j].does = "remove"}} = p.removed
    BY <2>0
  <2>2. {edits[i].key : i \in {j \in 1..n : edits[j].does = "add"}} = p.added
    BY <2>0
  <2>3. {edits[i].key : i \in {j \in 1..n : edits[j].does = "set"}} = p.updated
    BY <2>0
  <2>4. /\ RemovedBy(b, edits, n) =
             {ResolveKey(b, k) : k \in {edits[i].key : i \in {j \in 1..n : edits[j].does = "remove"}}}
        /\ SetBy(b, edits, n) =
             {ResolveKey(b, k) : k \in {edits[i].key : i \in {j \in 1..n : edits[j].does = "set"}}}
    BY Zenon DEF RemovedBy, SetBy
  <2> QED
    BY <2>1, <2>2, <2>3, <2>4 DEF AddedBy
<1>6. ASSUME NEW x \in ToSet(r.values)
      PROVE  /\ x.key \in p.updated => Values(t)[ResolveKey(b, x.key)] = x.value
             /\ x.key \in p.added => Values(t)[x.key] = x.value
  <2>1. ASSUME NEW i \in 1..n, edits[i].key = x.key, edits[i].does \in {"set", "add"}
        PROVE  edits[i].value = x.value
    <3>1. [key |-> edits[i].key, value |-> edits[i].value] \in ToSet(r.values)
      BY <1>1, <2>1 DEF HasEdits
    <3>2. x = [key |-> edits[i].key, value |-> edits[i].value]
      BY <2>1, <3>1 DEF PlanSays
    <3> QED
      BY <3>2
  <2>2. ASSUME x.key \in p.updated PROVE Values(t)[ResolveKey(b, x.key)] = x.value
    <3>1. PICK i \in 1..n : edits[i].does = "set" /\ edits[i].key = x.key
      BY <1>1, <2>2 DEF HasEdits
    <3> QED
      BY <3>1, <2>1, <1>4 DEF Done
  <2>3. ASSUME x.key \in p.added PROVE Values(t)[x.key] = x.value
    <3>1. PICK i \in 1..n : edits[i].does = "add" /\ edits[i].key = x.key
      BY <1>1, <2>3 DEF HasEdits
    <3> QED
      BY <3>1, <2>1, <1>4 DEF Done
  <2> QED
    BY <2>2, <2>3
<1>7. PlanDone(b, r, p, t)
  BY <1>4, <1>5, <1>6 DEF Done, PlanDone
<1> QED
  BY <1>4, <1>7 DEF s

\* A table with the same values is as good.
LEMMA SameValues ==
  ASSUME NEW b, NEW r, NEW p, NEW t, PlanDone(b, r, p, t), NEW u, IsTable(u), Values(u) = Values(t)
  PROVE  PlanDone(b, r, p, u)
<1>1. Keys(u) = Keys(t)
  BY DEF Values
<1> QED
  BY <1>1 DEF PlanDone

\* What a reader then finds under each name that was asked for or removed.
Finds(b, r, p, t) ==
  /\ \A x \in ToSet(r.values) :
       /\ ResolveKey(b, x.key) # Absent =>
            ResolveKey(t, x.key) = ResolveKey(b, x.key) /\ Get(t, x.key) = x.value
       /\ x.key \in p.added => ResolveKey(t, x.key) = x.key /\ Get(t, x.key) = x.value
       /\ x.key \in p.skipped => ResolveKey(t, x.key) = Absent
  /\ \A k \in r.removals : ResolveKey(t, k) = Absent

\* So every reader of the table finds it.
LEMMA PlanIsFound ==
  ASSUME NEW b, IsTable(b), NEW r, IsRequest(r), NEW p, PlanSays(b, r, p),
         OneNameEach(b, r), NEW t, PlanDone(b, r, p, t)
  PROVE  Finds(b, r, p, t)
<1>1. b \in Tables /\ t \in Tables /\ IsTable(t)
  BY DEF IsTable, PlanDone
<1> DEFINE all == Asked(r) \union r.removals
<1>2. all \subseteq KeyNames
  BY DEF PlanSays, IsRequest, Lines
<1>3. \A k \in all : Plural(k) \in all => k \in Keys(b) /\ Plural(k) \in Keys(b)
  BY DEF OneNameEach
<1>4. \A k \in r.removals : ~ (k \in Keys(b) /\ Plural(k) \in Keys(b))
  BY DEF OneNameEach
<1>5. Asked(r) \subseteq all /\ r.removals \subseteq all /\ r.removals \intersect Asked(r) = {}
  BY DEF PlanSays
<1> HIDE DEF all
<1>6. p.updated \subseteq Asked(r) /\ p.added \subseteq Asked(r) /\ p.skipped \subseteq Asked(r)
      /\ \A x \in ToSet(r.values) : x.key \in Asked(r)
  BY DEF PlanSays
<1>7. \A k \in all : /\ Plural(k) \in KeyNames /\ Plural(Plural(k)) = k /\ Plural(k) # k
                     /\ k \in Keys(b) => ResolveKey(b, k) = k
                     /\ ResolveKey(b, k) \in {k, Plural(k), Absent}
                     /\ ResolveKey(b, k) # Absent <=> k \in Keys(b) \/ Plural(k) \in Keys(b)
                     /\ ResolveKey(b, k) # Absent => ResolveKey(b, k) \in Keys(b)
  BY <1>1, <1>2, Spelling, PluralIsOther
<1>8. \A k \in all : /\ k \in Keys(t) => ResolveKey(t, k) = k
                     /\ k \notin Keys(t) /\ Plural(k) \in Keys(t) => ResolveKey(t, k) = Plural(k)
                     /\ k \notin Keys(t) /\ Plural(k) \notin Keys(t) => ResolveKey(t, k) = Absent
                     /\ ResolveKey(t, k) # Absent => Get(t, k) = Values(t)[ResolveKey(t, k)]
  BY <1>1, <1>2, Spelling, Place
<1>9. \A k \in all : ResolveKey(b, k) # Absent => Get(b, k) = Values(b)[ResolveKey(b, k)]
  BY <1>1, <1>2, Place
<1>10. \A k \in p.added : ResolveKey(b, k) = Absent /\ k \notin Keys(b)
  <2>1. \A k \in p.added : ResolveKey(b, k) = Absent
    BY DEF PlanSays
  <2> QED
    BY <2>1, <1>5, <1>6, <1>7
<1>11. \A k \in p.removed : k \in r.removals
  BY DEF PlanSays
<1>12. Keys(t) = (Keys(b) \ {ResolveKey(b, k) : k \in p.removed}) \union p.added
  BY DEF PlanDone
\* Two names that were asked for have two entries.
<1>13. ASSUME NEW k \in all, NEW l \in all, ResolveKey(b, k) # Absent,
              ResolveKey(b, k) = ResolveKey(b, l), k # l
       PROVE  FALSE
  <2>1. k = Plural(l)
    BY <1>7, <1>13
  <2>2. k \in Keys(b) /\ l \in Keys(b)
    BY <2>1, <1>3, <1>13
  <2> QED
    BY <2>2, <1>7, <1>13
<1>14. ASSUME NEW x \in ToSet(r.values), ResolveKey(b, x.key) # Absent
       PROVE  ResolveKey(t, x.key) = ResolveKey(b, x.key) /\ Get(t, x.key) = x.value
  <2> DEFINE k == x.key
             e == ResolveKey(b, k)
  <2>1. k \in Asked(r) /\ k \in all /\ k \notin r.removals
    BY <1>5, <1>6
  <2>2. e \in Keys(b) /\ e \in {k, Plural(k)}
    BY <2>1, <1>7, <1>14
  <2>3. e \notin {ResolveKey(b, l) : l \in p.removed}
    BY <2>1, <1>5, <1>11, <1>13, <1>14
  <2>4. e \in Keys(t)
    BY <2>2, <2>3, <1>12
  <2>5. k \notin p.added
    BY <1>10, <1>14
  <2>6. ResolveKey(t, k) = e
    <3>1. CASE k \in Keys(b)
      BY <3>1, <2>1, <2>4, <1>7, <1>8
    <3>2. CASE k \notin Keys(b)
      <4>1. k \notin Keys(t) /\ e = Plural(k)
        BY <3>2, <2>2, <2>5, <1>12
      <4> QED
        BY <4>1, <2>1, <2>4, <1>8
    <3> QED
      BY <3>1, <3>2
  <2>7. Get(t, k) = Values(t)[e]
    BY <2>1, <2>6, <1>8, <1>14
  <2>8. CASE k \in p.updated
    BY <2>6, <2>7, <2>8 DEF PlanDone
  <2>9. CASE k \notin p.updated
    <3>1. Get(b, k) = x.value
      BY <2>9, <1>14 DEF PlanSays
    <3>2. e \notin {ResolveKey(b, l) : l \in p.updated}
      BY <2>1, <2>9, <1>5, <1>6, <1>13, <1>14
    <3>3. e \notin p.added
      BY <2>2, <1>10
    <3>4. Values(t)[e] = Values(b)[e]
      BY <2>4, <3>2, <3>3 DEF PlanDone
    <3> QED
      BY <2>1, <2>6, <2>7, <3>1, <3>4, <1>9, <1>14
  <2> QED
    BY <2>8, <2>9
<1>15. ASSUME NEW x \in ToSet(r.values), x.key \in p.added
       PROVE  ResolveKey(t, x.key) = x.key /\ Get(t, x.key) = x.value
  <2>1. x.key \in Keys(t) /\ x.key \in all
    BY <1>5, <1>6, <1>12, <1>15
  <2>2. ResolveKey(t, x.key) = x.key /\ x.key # Absent
    BY <2>1, <1>2, <1>8, UpdateAssumption
  <2>3. Values(t)[x.key] = x.value
    BY <1>15 DEF PlanDone
  <2> QED
    BY <2>1, <2>2, <2>3, <1>8
\* A name nobody has, and nobody adds.
<1>16. ASSUME NEW k \in all, k \notin p.added, ResolveKey(b, k) = Absent
       PROVE  ResolveKey(t, k) = Absent
  <2>1. k \notin Keys(b) /\ Plural(k) \notin Keys(b)
    BY <1>7, <1>16
  <2>2. Plural(k) \notin p.added
    BY <2>1, <1>3, <1>5, <1>6
  <2>3. k \notin Keys(t) /\ Plural(k) \notin Keys(t)
    BY <2>1, <2>2, <1>12, <1>16
  <2> QED
    BY <2>3, <1>8
<1>17. ASSUME NEW x \in ToSet(r.values), x.key \in p.skipped
       PROVE  ResolveKey(t, x.key) = Absent
  <2>1. ResolveKey(b, x.key) = Absent /\ x.key \notin p.added
    BY <1>17 DEF PlanSays
  <2> QED
    BY <2>1, <1>5, <1>6, <1>16
<1>18. ASSUME NEW k \in r.removals
       PROVE  ResolveKey(t, k) = Absent
  <2>1. k \in all /\ k \notin p.added
    BY <1>5, <1>6
  <2>2. CASE ResolveKey(b, k) = Absent
    BY <2>1, <2>2, <1>16
  <2>3. CASE ResolveKey(b, k) # Absent
    <3>1. k \in p.removed
      BY <2>3 DEF PlanSays
    <3>2. Plural(k) \notin p.added
      <4>1. Plural(k) \notin all
        BY <2>1, <1>3, <1>4
      <4> QED
        BY <4>1, <1>5, <1>6
    <3>3. k \in Keys(b) => ResolveKey(b, k) = k /\ Plural(k) \notin Keys(b)
      BY <2>1, <1>4, <1>7
    <3>4. k \notin Keys(b) => ResolveKey(b, k) = Plural(k)
      BY <2>1, <2>3, <1>7
    <3>5. k \notin Keys(t) /\ Plural(k) \notin Keys(t)
      BY <2>1, <3>1, <3>2, <3>3, <3>4, <1>12
    <3> QED
      BY <3>5, <2>1, <1>8
  <2> QED
    BY <2>2, <2>3
<1> QED
  BY <1>14, <1>15, <1>17, <1>18 DEF Finds

\* The values of one layer.
IsLayer(f) == IsFiniteSet(DOMAIN f) /\ DOMAIN f \subseteq KeyNames /\ f \in [DOMAIN f -> EntryTexts]

\* The user's texts are above the generated.
LEMMA Priorities == Priority("generated") = 4 /\ Priority("user") = 5
<1>1. /\ DOMAIN Precedence = 1..5
      /\ Precedence[1] = "stock" /\ Precedence[2] = "language-overlay"
      /\ Precedence[3] = "import" /\ Precedence[4] = "generated" /\ Precedence[5] = "user"
  BY DEF Precedence
<1>2. \A i \in 1..5 : i = 1 \/ i = 2 \/ i = 3 \/ i = 4 \/ i = 5
  OBVIOUS
<1>3. \A i \in 1..5 : Precedence[i] = "generated" <=> i = 4
  BY <1>1, <1>2
<1>4. \A i \in 1..5 : Precedence[i] = "user" <=> i = 5
  BY <1>1, <1>2
<1> QED
  BY <1>1, <1>3, <1>4 DEF Priority

\* Of the two layers of an update, the user's wins.
LEMMA TwoLayers ==
  ASSUME NEW generated, NEW user,
         NEW values, values = Resolve(<< [kind |-> "generated", order |-> 0, values |-> generated],
                                         [kind |-> "user", order |-> 0, values |-> user] >>)
  PROVE  /\ DOMAIN values = DOMAIN generated \union DOMAIN user
         /\ \A k \in DOMAIN values : values[k] = IF k \in DOMAIN user THEN user[k] ELSE generated[k]
<1> DEFINE g == [kind |-> "generated", order |-> 0, values |-> generated]
           u == [kind |-> "user", order |-> 0, values |-> user]
           layers == << g, u >>
<1>1. ToSet(layers) = {g, u}
  BY DEF ToSet
<1>2. g.kind = "generated" /\ u.kind = "user" /\ g.values = generated /\ u.values = user
  OBVIOUS
<1>3. values = Resolve(layers)
  OBVIOUS
<1> HIDE DEF g, u, layers
<1>4. g # u
  BY <1>2
<1>5. Before(g, u) /\ ~ Before(u, g)
  BY <1>2, Priorities DEF Before
<1>6. Layered(layers) = DOMAIN generated \union DOMAIN user
  BY <1>1, <1>2 DEF Layered
<1>7. ASSUME NEW k \in DOMAIN user PROVE values[k] = user[k]
  <2>1. u \in Having(layers, k) /\ Having(layers, k) \subseteq {g, u}
    BY <1>1, <1>2 DEF Having
  <2>2. \A l \in Having(layers, k) : (\A m \in Having(layers, k) : m = l \/ Before(m, l)) <=> l = u
    BY <2>1, <1>4, <1>5
  <2>3. (CHOOSE l \in Having(layers, k) : \A m \in Having(layers, k) : m = l \/ Before(m, l)) = u
    BY <2>1, <2>2
  <2> QED
    BY <2>3, <1>2, <1>3, <1>6 DEF Resolve
<1>8. ASSUME NEW k \in DOMAIN generated, k \notin DOMAIN user PROVE values[k] = generated[k]
  <2>1. Having(layers, k) = {g}
    BY <1>1, <1>2, <1>8 DEF Having
  <2>3. (CHOOSE l \in Having(layers, k) : \A m \in Having(layers, k) : m = l \/ Before(m, l)) = g
    BY <2>1
  <2> QED
    BY <2>3, <1>2, <1>3, <1>6 DEF Resolve
<1>9. DOMAIN values = DOMAIN generated \union DOMAIN user
  BY <1>3, <1>6 DEF Resolve
<1> QED
  BY <1>7, <1>8, <1>9

\* Each key of a finite set has a place in its order.
LEMMA InOrderHasEach ==
  ASSUME NEW S \in SUBSET KeyNames, IsFiniteSet(S), NEW n, n = Cardinality(S),
         NEW o, o = InOrder(S)
  PROVE  /\ n \in Nat /\ o \in [1..n -> S]
         /\ \A i, j \in 1..n : o[i] = o[j] => i = j
         /\ \A k \in S : \E i \in 1..n : o[i] = k
<1> DEFINE below(k) == {l \in S : Earlier(l, k)}
           rank(k) == Cardinality(below(k))
<1>1. n \in Nat
  BY FS_CardinalityType
<1>2. \A k \in S : k.name \in Int /\ k.plural \in BOOLEAN /\ k = [name |-> k.name, plural |-> k.plural]
  BY DEF KeyNames
<1>3. \A k, l, m \in S : Earlier(k, l) /\ Earlier(l, m) => Earlier(k, m)
  BY <1>2 DEF Earlier
<1>4. \A k \in S : ~ Earlier(k, k)
  BY <1>2 DEF Earlier
<1>5. \A k, l \in S : k = l \/ Earlier(k, l) \/ Earlier(l, k)
  <2> SUFFICES ASSUME NEW k \in S, NEW l \in S, ~ Earlier(k, l), ~ Earlier(l, k) PROVE k = l
    OBVIOUS
  <2>1. k.name = l.name /\ k.plural = l.plural
    BY <1>2 DEF Earlier
  <2> QED
    BY <2>1, <1>2
<1>6. \A k \in S : IsFiniteSet(below(k)) /\ rank(k) \in Nat
  <2> TAKE k \in S
  <2>1. IsFiniteSet(below(k))
    BY FS_Subset
  <2> QED
    BY <2>1, FS_CardinalityType
<1>7. ASSUME NEW k \in S, NEW l \in S, Earlier(k, l) PROVE rank(k) < rank(l)
  <2>1. below(k) \subseteq below(l) /\ k \in below(l) /\ k \notin below(k)
    BY <1>3, <1>4, <1>7
  <2>2. IsFiniteSet(below(l))
    BY <1>6
  <2> HIDE DEF below
  <2>3. Cardinality(below(k)) < Cardinality(below(l))
    <3>1. below(k) # below(l)
      BY <2>1
    <3>2. Cardinality(below(k)) <= Cardinality(below(l))
          /\ (Cardinality(below(k)) = Cardinality(below(l)) => below(k) = below(l))
      BY <2>1, <2>2, FS_Subset
    <3>3. Cardinality(below(k)) \in Nat /\ Cardinality(below(l)) \in Nat
      BY <1>6
    <3> QED
      BY <3>1, <3>2, <3>3
  <2> QED
    BY <2>3
<1>8. ASSUME NEW k \in S PROVE rank(k) \in 0..(n - 1)
  <2>1. below(k) \subseteq S /\ k \in S /\ k \notin below(k)
    BY <1>4
  <2>2. rank(k) <= n /\ (rank(k) = n => below(k) = S)
    BY <2>1, FS_Subset
  <2> HIDE DEF below
  <2>3. rank(k) \in Nat /\ below(k) # S
    BY <2>1, <1>6
  <2> HIDE DEF rank
  <2> QED
    BY <2>2, <2>3, <1>1
<1> HIDE DEF below, rank
<1>9. \A k, l \in S : rank(k) = rank(l) => k = l
  <2> SUFFICES ASSUME NEW k \in S, NEW l \in S, k # l PROVE rank(k) # rank(l)
    OBVIOUS
  <2>1. rank(k) < rank(l) \/ rank(l) < rank(k)
    BY <1>5, <1>7
  <2>2. rank(k) \in Int /\ rank(l) \in Int
    BY <1>6
  <2> QED
    BY <2>1, <2>2
<1> DEFINE ranks == [k \in S |-> rank(k)]
<1>10. \A i \in 0..(n - 1) : \E k \in S : rank(k) = i
  <2>1. ranks \in Injection(S, 0..(n - 1))
    <3>1. ranks \in [S -> 0..(n - 1)]
      BY <1>8
    <3>2. \A k, l \in S : ranks[k] = ranks[l] => k = l
      BY <1>9
    <3> HIDE DEF ranks
    <3> QED
      BY <3>1, <3>2, Zenon DEF Injection, IsInjective
  <2>2. IsFiniteSet(0..(n - 1)) /\ Cardinality(0..(n - 1)) = n
    <3>1. 0 \in Int /\ n - 1 \in Int
      BY <1>1
    <3>2. /\ IsFiniteSet(0..(n - 1))
          /\ Cardinality(0..(n - 1)) = IF 0 > n - 1 THEN 0 ELSE (n - 1) - 0 + 1
      BY <3>1, FS_Interval, Zenon
    <3> QED
      BY <3>2, <1>1
  <2> HIDE DEF ranks
  <2>3. ranks \in Surjection(S, 0..(n - 1))
    BY <2>1, <2>2, FS_Injection
  <2>4. \A i \in 0..(n - 1) : \E k \in S : ranks[k] = i
    BY <2>3 DEF Surjection
  <2> USE DEF ranks
  <2> QED
    BY <2>4
<1>11. o = [i \in 1..n |-> CHOOSE k \in S : rank(k) = i - 1]
  BY Zenon DEF InOrder, rank, below
<1>12. \A i \in 1..n : o[i] \in S /\ rank(o[i]) = i - 1
  <2> TAKE i \in 1..n
  <2>1. i - 1 \in 0..(n - 1)
    BY <1>1
  <2>2. \E k \in S : rank(k) = i - 1
    BY <2>1, <1>10
  <2>3. o[i] = CHOOSE k \in S : rank(k) = i - 1
    BY <1>11
  <2> QED
    BY <2>2, <2>3
<1>13. o \in [1..n -> S]
  BY <1>11, <1>12
<1>14. \A i, j \in 1..n : o[i] = o[j] => i = j
  <2> SUFFICES ASSUME NEW i \in 1..n, NEW j \in 1..n, o[i] = o[j] PROVE i = j
    OBVIOUS
  <2>1. i - 1 = j - 1
    BY <1>12
  <2> QED
    BY <2>1, <1>1
<1>15. ASSUME NEW k \in S PROVE \E i \in 1..n : o[i] = k
  <2>1. rank(k) + 1 \in 1..n /\ (rank(k) + 1) - 1 = rank(k)
    BY <1>1, <1>8
  <2>2. rank(o[rank(k) + 1]) = rank(k) /\ o[rank(k) + 1] \in S
    BY <2>1, <1>12
  <2>3. o[rank(k) + 1] = k
    BY <2>2, <1>9
  <2> QED
    BY <2>1, <2>3
<1> QED
  BY <1>1, <1>13, <1>14, <1>15

\* What an update asks for.
LEMMA RequestIs ==
  ASSUME NEW generated, IsLayer(generated), NEW user, IsLayer(user),
         NEW rules, rules.removals \in SUBSET KeyNames, IsFiniteSet(rules.removals),
         NEW r, r = Requested(generated, user, rules)
  PROVE  /\ IsRequest(r) /\ r.removals = rules.removals
         /\ \A x \in ToSet(r.values) :
              x.value = IF x.key \in DOMAIN user THEN user[x.key] ELSE generated[x.key]
<1> DEFINE values == Resolve(<< [kind |-> "generated", order |-> 0, values |-> generated],
                                [kind |-> "user", order |-> 0, values |-> user] >>)
           S == DOMAIN values
           n == Cardinality(S)
           o == InOrder(S)
           e == Effective(generated, user)
<1>1. /\ S = DOMAIN generated \union DOMAIN user
      /\ \A k \in S : values[k] = IF k \in DOMAIN user THEN user[k] ELSE generated[k]
  BY TwoLayers
<1>2. e = [i \in DOMAIN o |-> [key |-> o[i], value |-> values[o[i]]]]
  BY DEF Effective
<1>3. r.values = e /\ r.removals = rules.removals
  BY DEF Requested
<1> HIDE DEF values, e
<1>4. S \in SUBSET KeyNames /\ IsFiniteSet(S)
  <2>1. S \subseteq KeyNames
    BY <1>1 DEF IsLayer
  <2>2. IsFiniteSet(DOMAIN generated \union DOMAIN user)
    BY FS_Union DEF IsLayer
  <2> QED
    BY <2>1, <2>2, <1>1
<1>5. /\ n \in Nat /\ o \in [1..n -> S]
      /\ \A i, j \in 1..n : o[i] = o[j] => i = j
  BY <1>4, InOrderHasEach
<1> HIDE DEF n, o, S
<1>6. \A k \in S : values[k] \in EntryTexts
  BY <1>1 DEF IsLayer
<1>7. DOMAIN e = 1..n /\ \A i \in 1..n : e[i] = [key |-> o[i], value |-> values[o[i]]]
  BY <1>2, <1>5
<1>8. \A i \in 1..n : e[i] \in Lines /\ e[i].key = o[i] /\ o[i] \in S /\ e[i].value = values[o[i]]
  BY <1>4, <1>5, <1>6, <1>7 DEF Lines
<1>9. e \in [1..n -> Lines]
  BY <1>2, <1>7, <1>8
<1>10. e \in Seq(Lines)
  BY <1>5, <1>9, FunctionIsSeq, Zenon
<1>11. IsRequest(r)
  BY <1>3, <1>5, <1>7, <1>8, <1>10 DEF IsRequest
<1>12. ASSUME NEW x \in ToSet(r.values)
       PROVE  x.value = IF x.key \in DOMAIN user THEN user[x.key] ELSE generated[x.key]
  <2>1. PICK i \in 1..n : x = e[i]
    BY <1>3, <1>7 DEF ToSet
  <2> QED
    BY <2>1, <1>1, <1>8
<1> QED
  BY <1>3, <1>11, <1>12

\* Nothing is different.
LEMMA SameIsNothing ==
  ASSUME NEW f, NEW g
  PROVE  /\ Differences(f, f) = Nothing
         /\ Differences(f, g) = Nothing /\ f = [k \in DOMAIN f |-> f[k]] /\ g = [k \in DOMAIN g |-> g[k]]
              => f = g
<1>1. Differences(f, f) = Nothing
  BY DEF Differences, Nothing
<1>2. ASSUME Differences(f, g) = Nothing,
             f = [k \in DOMAIN f |-> f[k]], g = [k \in DOMAIN g |-> g[k]]
      PROVE  f = g
  <2>1. /\ DOMAIN g \ DOMAIN f = {} /\ DOMAIN f \ DOMAIN g = {}
        /\ {k \in DOMAIN f \intersect DOMAIN g : f[k] # g[k]} = {}
    BY <1>2 DEF Differences, Nothing
  <2>2. DOMAIN f = DOMAIN g /\ \A k \in DOMAIN f : f[k] = g[k]
    BY <2>1
  <2> QED
    BY <2>2, <1>2
<1> QED
  BY <1>1, <1>2

\* Values is a function on the keys.
LEMMA ValuesAreFunctions ==
  \A t : Values(t) = [k \in DOMAIN Values(t) |-> Values(t)[k]] /\ DOMAIN Values(t) = Keys(t)
BY DEF Values

\* A plan with nothing to do leaves the values.
LEMMA IdlePlan ==
  ASSUME NEW b, NEW r, NEW p, NEW t, PlanDone(b, r, p, t),
         p.updated = {}, p.added = {}, p.removed = {}
  PROVE  Values(t) = Values(b)
<1>1. Keys(t) = Keys(b)
  BY DEF PlanDone
<1>2. \A k \in Keys(t) : Values(t)[k] = Values(b)[k]
  BY DEF PlanDone
<1> QED
  BY <1>1, <1>2, ValuesAreFunctions

\* A table where everything is found has nothing to do.
LEMMA AgainIdle ==
  ASSUME NEW b, NEW r, IsRequest(r), NEW p, p = Plan(b, r), p.errors = {},
         NEW t, Finds(b, r, p, t), NEW q, q = Plan(t, r)
  PROVE  q.errors = {} /\ q.updated = {} /\ q.added = {} /\ q.removed = {}
<1> DEFINE items == ToSet(r.values)
           New(s, x) == ResolveKey(s, x.key) = Absent
<1>1. PlanSays(b, r, p)
  BY PlanMeans
<1>2. /\ p.errors = {x.key : x \in {y \in items : Bad(b, y)}}
                    \union (r.removals \ (r.mayRemove \ Asked(r)))
      /\ q.errors = {x.key : x \in {y \in items : Bad(t, y)}}
                    \union (r.removals \ (r.mayRemove \ Asked(r)))
      /\ q.added = {x.key : x \in {y \in items : New(t, y) /\ y.key \in r.mayAdd}}
      /\ q.updated = {x.key : x \in {y \in items : ~New(t, y) /\ Get(t, y.key) # y.value}}
      /\ q.removed = {k \in r.removals : ResolveKey(t, k) # Absent}
  BY DEF Plan
<1>3. \A x \in items : /\ ~ Bad(b, x)
                       /\ x.key \in p.added <=> New(b, x) /\ x.key \in r.mayAdd
                       /\ x.key \in p.skipped <=> New(b, x) /\ x.key \notin r.mayAdd
  BY <1>1 DEF PlanSays
<1>4. \A x \in items : /\ ~ New(b, x) => ResolveKey(t, x.key) = ResolveKey(b, x.key) /\ Get(t, x.key) = x.value
                       /\ x.key \in p.added => ResolveKey(t, x.key) = x.key /\ Get(t, x.key) = x.value
                       /\ x.key \in p.skipped => ResolveKey(t, x.key) = Absent
  BY DEF Finds
<1>5. \A x \in items : x.key # Absent
  BY <1>1, UpdateAssumption DEF PlanSays, Lines
<1> HIDE DEF items
<1>6. ASSUME NEW x \in items
      PROVE  /\ ~ Bad(t, x)
             /\ ~ (New(t, x) /\ x.key \in r.mayAdd)
             /\ ~ (~ New(t, x) /\ Get(t, x.key) # x.value)
  <2>1. CASE x.key \in p.skipped
    <3>1. New(t, x) /\ New(b, x) /\ x.key \notin r.mayAdd
      BY <2>1, <1>3, <1>4
    <3>2. x.value # Broken
      BY <3>1, <1>3 DEF Bad
    <3> QED
      BY <3>1, <3>2 DEF Bad
  <2>2. CASE x.key \notin p.skipped
    <3>1. ~ New(t, x) /\ Get(t, x.key) = x.value
      BY <2>2, <1>3, <1>4, <1>5
    <3> QED
      BY <3>1 DEF Bad
  <2> QED
    BY <2>1, <2>2
<1>7. q.removed = {}
  BY <1>2 DEF Finds
<1>8. r.removals \ (r.mayRemove \ Asked(r)) = {}
  BY <1>2
<1> QED
  BY <1>2, <1>6, <1>7, <1>8

\* A plan makes a table, whatever it is.
LEMMA EditedIsTable ==
  ASSUME NEW b \in Tables, NEW r, IsRequest(r), NEW p, IsPlan(r, p)
  PROVE  Edited(b, r, p).table \in Tables
<1> DEFINE edits == Edits(r, p)
           base == [table |-> b, failed |-> FALSE]
<1>1. edits \in Seq(EditSet) /\ Len(edits) \in Nat
  BY EditsOfPlan, LenProperties DEF HasEdits
<1>2. base \in States
  BY DEF States
<1>3. Edited(b, r, p) = FoldLeft(Edit, base, edits)
  BY DEF Edited
<1> HIDE DEF edits, base
<1>4. PICK t : EditRun(t, edits, base, States)
  BY <1>1, <1>2, EditStays, EditFold, Zenon
<1>5. Edited(b, r, p) = t[Len(edits)] /\ Len(edits) \in 0..Len(edits)
  BY <1>1, <1>3, <1>4 DEF EditRun
<1>6. Edited(b, r, p) \in States
  BY <1>4, <1>5, Zenon DEF EditRun
<1> QED
  BY <1>6 DEF States

\* What is to be written reads as it was planned.
LEMMA FoundIsVerified ==
  ASSUME NEW b, NEW r, NEW p, PlanSays(b, r, p), NEW t, Finds(b, r, p, t)
  PROVE  Verified(t, r, p)
<1>1. ASSUME NEW x \in ToSet(r.values), x.key \in p.updated \union p.added
      PROVE  ResolveKey(t, x.key) # Absent /\ Get(t, x.key) = x.value
  <2>1. x.key # Absent
    BY UpdateAssumption DEF PlanSays, Lines
  <2>2. CASE x.key \in p.updated
    BY <2>2 DEF PlanSays, Finds
  <2>3. CASE x.key \in p.added
    BY <2>1, <2>3 DEF Finds
  <2> QED
    BY <1>1, <2>2, <2>3
<1>2. \A k \in p.removed : ResolveKey(t, k) = Absent
  BY DEF PlanSays, Finds
<1> QED
  BY <1>1, <1>2 DEF Verified

\* What is found there is what was asked for, and the rest is the baseline's.
LEMMA FoundIsAsked ==
  ASSUME NEW b, NEW r, NEW p, PlanSays(b, r, p),
         NEW t, Finds(b, r, p, t), PlanDone(b, r, p, t)
  PROVE  /\ \A k \in Asked(r) \ p.skipped :
              \E x \in ToSet(r.values) : x.key = k /\ Get(t, k) = x.value
         /\ \A k \in Keys(t) \ {ResolveKey(t, l) : l \in Asked(r)} : Values(t)[k] = Values(b)[k]
<1>1. ASSUME NEW k \in Asked(r) \ p.skipped
      PROVE  \E x \in ToSet(r.values) : x.key = k /\ Get(t, k) = x.value
  <2>1. PICK x \in ToSet(r.values) : x.key = k
    BY DEF PlanSays
  <2>2. ResolveKey(b, k) # Absent \/ k \in p.added
    BY <2>1 DEF PlanSays
  <2>3. Get(t, k) = x.value
    BY <2>1, <2>2 DEF Finds
  <2> QED
    BY <2>1, <2>3
<1>2. ASSUME NEW k \in Keys(t), k \notin {ResolveKey(t, l) : l \in Asked(r)}
      PROVE  Values(t)[k] = Values(b)[k]
  <2>1. ASSUME NEW l \in p.updated PROVE ResolveKey(b, l) # k
    <3>1. PICK x \in ToSet(r.values) : x.key = l
      BY DEF PlanSays
    <3>2. ResolveKey(t, l) = ResolveKey(b, l) /\ l \in Asked(r)
      BY <3>1 DEF PlanSays, Finds
    <3> QED
      BY <3>2, <1>2
  <2>2. ASSUME NEW l \in p.added PROVE l # k
    <3>1. PICK x \in ToSet(r.values) : x.key = l
      BY DEF PlanSays
    <3>2. ResolveKey(t, l) = l /\ l \in Asked(r)
      BY <3>1 DEF PlanSays, Finds
    <3> QED
      BY <3>2, <1>2
  <2> QED
    BY <2>1, <2>2 DEF PlanDone
<1> QED
  BY <1>1, <1>2

\* The same request of what has the planned values has nothing to change.
Settled(again) == again.valid /\ again.changes = Nothing

\* So it is settled, in either mode.
LEMMA AgainSettled ==
  ASSUME NEW b, IsTable(b), NEW r, IsRequest(r), NEW p, p = Plan(b, r), p.errors = {},
         NEW d, d = Edited(b, r, p).table,
         NEW t, t # Absent, IsTable(t), Values(t) = Values(d), Finds(b, r, p, t)
  PROVE  Settled(OperationPlan(b, t, r)) /\ Settled(OperationPlan(t, t, r))
<1>1. Settled(OperationPlan(b, t, r))
  <2> DEFINE again == OperationPlan(b, t, r)
  <2>1. again.valid = (p.errors = {} /\ ~ HasDuplicates(t) /\ ~ HasDuplicates(b))
        /\ again.changes = Differences(Values(t), Values(d))
    BY DEF OperationPlan
  <2> QED
    BY <2>1, SameIsNothing DEF Settled, IsTable
<1>2. Settled(OperationPlan(t, t, r))
  <2> DEFINE again == OperationPlan(t, t, r)
             q == Plan(t, r)
             u == Edited(t, r, q).table
  <2>1. again.valid = (q.errors = {} /\ ~ HasDuplicates(t) /\ ~ HasDuplicates(t))
        /\ again.changes = Differences(Values(t), Values(u))
    BY DEF OperationPlan
  <2> HIDE DEF q
  <2>2. q.errors = {} /\ q.updated = {} /\ q.added = {} /\ q.removed = {}
    BY AgainIdle DEF q
  <2>3. PlanSays(t, r, q) /\ IsPlan(r, q)
    BY <2>2, PlanMeans DEF q
  <2>4. PlanDone(t, r, q, u)
    BY <2>2, <2>3, PlanIsDone
  <2>5. Values(u) = Values(t)
    BY <2>2, <2>4, IdlePlan
  <2> QED
    BY <2>1, <2>2, <2>5, SameIsNothing DEF Settled, IsTable
<1> QED
  BY <1>1, <1>2

\* What is written, when a reviewed update is valid.
Writes(written, override, b, r, before, changes, d) ==
  /\ d \in Tables
  /\ written # Rejected =>
       \/ written = override /\ Values(before) = Values(d) /\ changes = Nothing
       \/ written = d
  /\ OneNameEach(b, r) => written # Rejected

\* Nothing else is written.
LEMMA WrittenIsPlanned ==
  ASSUME NEW b, IsTable(b), NEW override \in Tables \union {Absent},
         NEW r, IsRequest(r), NEW p, p = Plan(b, r), p.errors = {},
         NEW before, NEW d, d = Edited(b, r, p).table,
         NEW reviewed, reviewed.changes = Differences(Values(before), Values(d)), reviewed.desired = d,
         NEW written, written = Applied(b, override, r, reviewed)
  PROVE  Writes(written, override, b, r, before, reviewed.changes, d)
<1>1. PlanSays(b, r, p) /\ IsPlan(r, p)
  BY PlanMeans
<1>2. d \in Tables
  BY <1>1, EditedIsTable DEF IsTable
<1> DEFINE idle == p.updated \union p.added \union p.removed = {} /\ reviewed.changes = Nothing
           edited == Edited(b, r, p)
<1>3. written = IF idle THEN override
                ELSE IF edited.failed \/ edited.table # reviewed.desired
                        \/ ~ Verified(edited.table, r, p)
                THEN Rejected
                ELSE edited.table
  BY DEF Applied
<1> HIDE DEF edited
<1>4. d = edited.table
  BY DEF edited
<1>5. override # Rejected /\ d # Rejected
  BY <1>2, UpdateAssumption
<1>6. ASSUME idle PROVE Values(before) = Values(d)
  BY <1>6, SameIsNothing, ValuesAreFunctions
<1>7. ASSUME OneNameEach(b, r) PROVE ~ edited.failed /\ Verified(d, r, p)
  <2>1. ~ edited.failed /\ PlanDone(b, r, p, d)
    BY <1>1, <1>4, <1>7, PlanIsDone DEF edited
  <2>2. Finds(b, r, p, d)
    BY <2>1, <1>1, <1>7, PlanIsFound
  <2> QED
    BY <2>1, <2>2, <1>1, FoundIsVerified
<1> HIDE DEF idle
<1>8. CASE idle
  <2>1. written = override /\ reviewed.changes = Nothing
    BY <1>3, <1>8 DEF idle
  <2> QED
    BY <2>1, <1>2, <1>5, <1>6, <1>8 DEF Writes
<1>9. CASE ~ idle
  <2>1. written = IF edited.failed \/ d # d \/ ~ Verified(d, r, p) THEN Rejected ELSE d
    BY <1>3, <1>4, <1>9
  <2> QED
    BY <2>1, <1>2, <1>5, <1>7 DEF Writes
<1> QED
  BY <1>8, <1>9

\* The update that was reviewed is written, for every table, every text
\* generated or entered, every rule and both modes.
THEOREM UpdatesAreWrittenAsReviewed ==
  ASSUME NEW stock \in Tables, NEW override \in Tables \union {Absent},
         NEW generated, IsLayer(generated), NEW user, IsLayer(user),
         NEW rules, rules.removals \in SUBSET KeyNames, IsFiniteSet(rules.removals),
         NEW mode
  PROVE  WrittenAsReviewed(stock, override, generated, user, rules, mode)
<1> DEFINE r == Requested(generated, user, rules)
           b == Baseline(stock, override, mode)
           reviewed == OperationPlan(b, override, r)
           written == Applied(b, override, r, reviewed)
           TableOf(table) == IF table = Absent THEN stock ELSE table
           again == OperationPlan(Baseline(stock, written, mode), written, r)
           final == TableOf(written)
           p == Plan(b, r)
           d == Edited(b, r, p).table
           before == IF override # Absent THEN override ELSE b
           Wins(k) == IF k \in DOMAIN user THEN user[k] ELSE generated[k]
<1>1. b \in Tables /\ (override = Absent \/ mode # "merge" => b = stock)
      /\ before = TableOf(override)
  BY DEF Baseline
<1>2. IsRequest(r) /\ r.removals = rules.removals
      /\ \A x \in ToSet(r.values) : x.value = Wins(x.key)
  BY RequestIs
<1>3. /\ reviewed.valid = (p.errors = {} /\ ~ HasDuplicates(before) /\ ~ HasDuplicates(b))
      /\ reviewed.changes = Differences(Values(before), Values(d))
      /\ reviewed.skipped = p.skipped /\ reviewed.desired = d
  BY DEF OperationPlan
<1> SUFFICES ASSUME reviewed.valid
    PROVE  /\ written # Rejected =>
                Differences(Values(TableOf(override)), Values(final)) = reviewed.changes
           /\ OneNameEach(b, r) =>
                /\ written # Rejected
                /\ again.valid /\ again.changes = Nothing
                /\ \A k \in Asked(r) \ reviewed.skipped : Get(final, k) = Wins(k)
                /\ \A k \in rules.removals : ResolveKey(final, k) = Absent
                /\ \A k \in Keys(final) \ {ResolveKey(final, l) : l \in Asked(r)} :
                     Values(final)[k] = Values(b)[k]
  BY DEF WrittenAsReviewed
<1>4. p.errors = {} /\ IsTable(before) /\ IsTable(b)
  BY <1>1, <1>3 DEF IsTable
<1> HIDE DEF r, b, p, d, before, reviewed, written, Wins
<1>5. /\ d \in Tables
      /\ written # Rejected =>
           \/ written = override /\ Values(before) = Values(d) /\ reviewed.changes = Nothing
           \/ written = d
      /\ OneNameEach(b, r) => written # Rejected
  <2>1. /\ IsTable(b) /\ IsRequest(r) /\ p = Plan(b, r) /\ p.errors = {}
        /\ d = Edited(b, r, p).table
        /\ reviewed.changes = Differences(Values(before), Values(d)) /\ reviewed.desired = d
        /\ written = Applied(b, override, r, reviewed)
    BY <1>2, <1>3, <1>4, Zenon DEF p, d, written
  <2>2. Writes(written, override, b, r, before, reviewed.changes, d)
    BY <2>1, WrittenIsPlanned, Zenon
  <2> QED
    BY <2>2, Zenon DEF Writes
<1>6. d # Absent
  BY <1>5, UpdateAssumption
<1>7. ASSUME written # Rejected
      PROVE  /\ Values(final) = Values(d)
             /\ Differences(Values(TableOf(override)), Values(final)) = reviewed.changes
  <2>1. CASE written = d
    BY <2>1, <1>1, <1>3, <1>6
  <2>2. CASE written = override /\ Values(before) = Values(d) /\ reviewed.changes = Nothing
    BY <2>2, <1>1, SameIsNothing
  <2> QED
    BY <2>1, <2>2, <1>5, <1>7
<1>8. ASSUME OneNameEach(b, r)
      PROVE  /\ written # Rejected
             /\ again.valid /\ again.changes = Nothing
             /\ \A k \in Asked(r) \ reviewed.skipped : Get(final, k) = Wins(k)
             /\ \A k \in rules.removals : ResolveKey(final, k) = Absent
             /\ \A k \in Keys(final) \ {ResolveKey(final, l) : l \in Asked(r)} :
                  Values(final)[k] = Values(b)[k]
  <2>1. written # Rejected /\ Values(final) = Values(d)
    BY <1>5, <1>7, <1>8
  <2>2. PlanSays(b, r, p) /\ IsPlan(r, p)
    BY <1>2, <1>4, PlanMeans DEF p
  <2>3. PlanDone(b, r, p, d)
    BY <2>2, <1>2, <1>4, <1>8, PlanIsDone DEF d
  <2>4. IsTable(final)
    <3>1. CASE written = d
      BY <3>1, <2>3, <1>6 DEF PlanDone
    <3>2. CASE written = override
      BY <3>2, <1>1, <1>4
    <3> QED
      BY <3>1, <3>2, <2>1, <1>5
  <2>5. final # Absent
    BY UpdateAssumption
  <2> HIDE DEF final
  <2>6. PlanDone(b, r, p, final)
    BY <2>1, <2>3, <2>4, SameValues
  <2>7. Finds(b, r, p, final)
    BY <2>2, <2>6, <1>2, <1>4, <1>8, PlanIsFound
  <2>8. Settled(OperationPlan(b, final, r)) /\ Settled(OperationPlan(final, final, r))
    <3>1. p = Plan(b, r) /\ d = Edited(b, r, p).table
      BY DEF p, d
    <3> QED
      BY <3>1, <2>1, <2>4, <2>5, <2>7, <1>2, <1>4, AgainSettled, Zenon
  <2>9. again.valid /\ again.changes = Nothing
    <3>1. CASE written # Absent
      <4>1. final = written
        BY <3>1 DEF final
      <4>2. Baseline(stock, written, mode) = final \/ Baseline(stock, written, mode) = b
        BY <3>1, <4>1, <1>1 DEF Baseline
      <4> QED
        BY <4>1, <4>2, <2>8 DEF Settled
    <3>2. CASE written = Absent
      <4>1. override = Absent /\ reviewed.changes = Nothing
        BY <3>2, <2>1, <1>5, <1>6
      <4>2. Baseline(stock, written, mode) = b /\ written = override
        BY <4>1, <3>2, <1>1 DEF Baseline
      <4>3. again = reviewed
        BY <4>2 DEF reviewed
      <4> QED
        BY <4>1, <4>3
    <3> QED
      BY <3>1, <3>2
  <2>10. /\ \A k \in Asked(r) \ p.skipped :
              \E x \in ToSet(r.values) : x.key = k /\ Get(final, k) = x.value
         /\ \A k \in Keys(final) \ {ResolveKey(final, l) : l \in Asked(r)} :
              Values(final)[k] = Values(b)[k]
    BY <2>2, <2>6, <2>7, FoundIsAsked
  <2>11. \A k \in Asked(r) \ reviewed.skipped : Get(final, k) = Wins(k)
    BY <2>10, <1>2, <1>3
  <2>12. \A k \in rules.removals : ResolveKey(final, k) = Absent
    BY <2>7, <1>2 DEF Finds
  <2> QED
    BY <2>1, <2>9, <2>10, <2>11, <2>12
<1> QED
  BY <1>7, <1>8

-----------------------------------------------------------------------------
(* What is added to names and titles (Presentation).                        *)

\* The library's operators are the same in the instance.
LEMMA SameLibrary ==
  /\ \A s : Text!FlattenSeq(s) = FlattenSeq(s)
  /\ \A s : Text!ToSet(s) = Range(s)
  /\ \A S : Text!Cardinality(S) = Cardinality(S)
<1>1. \A s : Text!FlattenSeq(s) = FlattenSeq(s)
  BY Zenon DEF Text!FlattenSeq, FlattenSeq
<1>2. \A s : Text!ToSet(s) = Range(s)
  BY Zenon DEF Text!ToSet, Range
<1>3. \A S : Text!Cardinality(S) = Cardinality(S)
  BY Zenon DEF Text!Cardinality, Cardinality
<1> QED
  BY <1>1, <1>2, <1>3, Zenon

IsSeq(s) == s \in Seq(Range(s))

\* The elements of s at the positions P, as Only selects them.
Selected(s, P) == Text!FlattenSeq([i \in DOMAIN s |-> IF i \in P THEN << s[i] >> ELSE << >>])

LEMMA Selects ==
  ASSUME NEW s, IsSeq(s), NEW P
  PROVE  IsSeq(Selected(s, P)) /\ Range(Selected(s, P)) = {s[i] : i \in P \intersect DOMAIN s}
<1> DEFINE f == Selected(s, P)
<1>1. f = FlattenSeq([i \in DOMAIN s |-> IF i \in P THEN << s[i] >> ELSE << >>])
  BY SameLibrary, Zenon DEF Selected
<1>0. s \in Seq(Range(s))
  BY DEF IsSeq
<1> HIDE DEF f
<1>2. f \in Seq(Range(s)) /\ Range(f) = {s[i] : i \in P \intersect DOMAIN s}
  BY <1>0, <1>1, Filtered, Zenon
<1>3. f \in Seq(Range(f))
  BY <1>2, SeqOfItsOwn, Zenon
<1> QED
  BY <1>2, <1>3, Zenon DEF f, IsSeq

\* The names of tokens.
LEMMA NamesOf == \A tokens : Text!Names(tokens) = {x.name : x \in Range(tokens)}
BY DEF Text!Names, Range

\* The tokens of one role.
LEMMA TokensOf ==
  ASSUME NEW s, IsSeq(s), NEW role
  PROVE  IsSeq(Text!Tokens(s, role)) /\ Range(Text!Tokens(s, role)) = {x \in Range(s) : x.role = role}
<1> DEFINE Test(t) == t.role = role
           P == {i \in DOMAIN s : Test(s[i])}
<1>1. Text!Tokens(s, role) = Text!FlattenSeq([i \in DOMAIN s |-> IF Test(s[i]) THEN << s[i] >> ELSE << >>])
  BY Zenon DEF Text!Tokens, Text!Only
<1>2. [i \in DOMAIN s |-> IF Test(s[i]) THEN << s[i] >> ELSE << >>]
        = [i \in DOMAIN s |-> IF i \in P THEN << s[i] >> ELSE << >>]
  OBVIOUS
<1>3. Text!Tokens(s, role) = Selected(s, P)
  BY <1>1, <1>2, Zenon DEF Selected
<1>4. {s[i] : i \in P \intersect DOMAIN s} = {x \in Range(s) : x.role = role}
  BY DEF Range
<1> HIDE DEF P
<1> QED
  BY <1>3, <1>4, Selects, Zenon

\* The endpoints of a text.
LEMMA EndpointsOnly ==
  ASSUME NEW s, IsSeq(s)
  PROVE  /\ IsSeq(Text!Only(s, Text!IsEndpoint))
         /\ Range(Text!Only(s, Text!IsEndpoint)) = {x \in Range(s) : Text!IsEndpoint(x)}
<1> DEFINE P == {i \in DOMAIN s : Text!IsEndpoint(s[i])}
<1>1. Text!Only(s, Text!IsEndpoint)
        = Text!FlattenSeq([i \in DOMAIN s |-> IF Text!IsEndpoint(s[i]) THEN << s[i] >> ELSE << >>])
  BY Zenon DEF Text!Only
<1>2. [i \in DOMAIN s |-> IF Text!IsEndpoint(s[i]) THEN << s[i] >> ELSE << >>]
        = [i \in DOMAIN s |-> IF i \in P THEN << s[i] >> ELSE << >>]
  OBVIOUS
<1>3. Text!Only(s, Text!IsEndpoint) = Selected(s, P)
  BY <1>1, <1>2, Zenon DEF Selected
<1>4. {s[i] : i \in P \intersect DOMAIN s} = {x \in Range(s) : Text!IsEndpoint(x)}
  BY DEF Range
<1> HIDE DEF P
<1> QED
  BY <1>3, <1>4, Selects, Zenon

\* What groups of tokens agree on is named in each.
NamedInAll(tokens, groups) ==
  /\ groups # << >> /\ Range(tokens) \subseteq Range(groups[1])
  /\ \A x \in Range(tokens) : \A g \in Range(groups) : x.name \in Text!Names(g)

LEMMA AgreedOnes ==
  ASSUME NEW groups, IsSeq(groups), \A g \in Range(groups) : IsSeq(g)
  PROVE  /\ IsSeq(Text!Agreed(groups))
         /\ Text!Agreed(groups) # << >> => NamedInAll(Text!Agreed(groups), groups)
<1>1. CASE groups = << >>
  <2>1. Text!Agreed(groups) = << >>
    BY <1>1, Zenon DEF Text!Agreed
  <2> QED
    BY <2>1 DEF IsSeq
<1>2. CASE groups # << >>
  <2> DEFINE s == groups[1]
             Test(t) == \A i \in DOMAIN groups : t.name \in Text!Names(groups[i])
             P == {i \in DOMAIN s : Test(s[i])}
  <2>0. 1 \in DOMAIN groups
    <3>1. Len(groups) \in Nat /\ DOMAIN groups = 1..Len(groups) /\ Len(groups) # 0
      BY <1>2, EmptySeq, LenProperties DEF IsSeq
    <3> QED
      BY <3>1
  <2>1. s \in Range(groups) /\ IsSeq(s)
    BY <2>0 DEF Range
  <2>2. Text!Agreed(groups) = Text!FlattenSeq([i \in DOMAIN s |-> IF Test(s[i]) THEN << s[i] >> ELSE << >>])
    BY <1>2, Zenon DEF Text!Agreed, Text!Only
  <2>3. [i \in DOMAIN s |-> IF Test(s[i]) THEN << s[i] >> ELSE << >>]
          = [i \in DOMAIN s |-> IF i \in P THEN << s[i] >> ELSE << >>]
    BY Zenon
  <2>4. Text!Agreed(groups) = Selected(s, P)
    BY <2>2, <2>3, Zenon DEF Selected
  <2>5. \A x \in {s[i] : i \in P \intersect DOMAIN s} : x \in Range(s) /\ Test(x)
    BY Zenon DEF Range
  <2>6. \A x : Test(x) => \A g \in Range(groups) : x.name \in Text!Names(g)
    BY Zenon DEF Range
  <2> HIDE DEF P, Test
  <2>7. IsSeq(Selected(s, P)) /\ Range(Selected(s, P)) = {s[i] : i \in P \intersect DOMAIN s}
    BY <2>1, Selects, Zenon
  <2> QED
    BY <1>2, <2>4, <2>5, <2>6, <2>7 DEF NamedInAll
<1> QED
  BY <1>1, <1>2

\* A function on the positions of a sequence is a sequence.
LEMMA SequenceOf ==
  ASSUME NEW s, IsSeq(s), NEW f, f = [i \in DOMAIN s |-> f[i]]
  PROVE  IsSeq(f) /\ DOMAIN f = DOMAIN s /\ (f # << >> => s # << >>)
<1>1. Len(s) \in Nat /\ DOMAIN s = 1..Len(s)
  BY LenProperties DEF IsSeq
<1>2. DOMAIN f = DOMAIN s
  OBVIOUS
<1>3. f \in [1..Len(s) -> Range(f)]
  BY <1>1, <1>2, Zenon DEF Range
<1>4. f \in Seq(Range(f)) /\ Len(f) = Len(s)
  BY <1>1, <1>3, FunctionIsSeq
<1>5. f # << >> => s # << >>
  BY <1>4, EmptySeq
<1> QED
  BY <1>2, <1>4, <1>5 DEF IsSeq

\* The strings a bare token stands for, by its name.
AreStrings(strings) ==
  \A n \in DOMAIN strings : IsSeq(strings[n]) /\ \A v \in Range(strings[n]) : IsSeq(v)

\* All strings of that name say x.
SaidByAll(strings, token, x) ==
  /\ token.name \in DOMAIN strings /\ strings[token.name] # << >>
  /\ \A v \in Range(strings[token.name]) : x.name \in Text!Places(v)

LEMMA ExpansionSays ==
  ASSUME NEW strings, AreStrings(strings), NEW token
  PROVE  /\ IsSeq(Text!Expansion(strings, token))
         /\ \A x \in Range(Text!Expansion(strings, token)) : SaidByAll(strings, token, x)
<1>1. CASE token.name \notin DOMAIN strings
  <2>1. Text!Expansion(strings, token) = << >>
    BY <1>1, Zenon DEF Text!Expansion
  <2> QED
    BY <2>1 DEF IsSeq, Range
<1>2. CASE token.name \in DOMAIN strings
  <2> DEFINE vs == strings[token.name]
             groups == [i \in DOMAIN vs |-> Text!Only(vs[i], Text!IsEndpoint)]
  <2>1. Text!Expansion(strings, token) = Text!Agreed(groups)
    BY <1>2, Zenon DEF Text!Expansion
  <2>2. IsSeq(vs) /\ \A v \in Range(vs) : IsSeq(v)
    BY <1>2, Zenon DEF AreStrings
  <2>3. \A i \in DOMAIN vs : vs[i] \in Range(vs) /\ IsSeq(vs[i])
    BY <2>2 DEF Range
  <2>4. \A i \in DOMAIN vs : groups[i] = Text!Only(vs[i], Text!IsEndpoint)
    OBVIOUS
  <2>5. groups = [i \in DOMAIN vs |-> groups[i]] /\ DOMAIN groups = DOMAIN vs
    OBVIOUS
  <2> HIDE DEF groups, vs
  <2>6. \A i \in DOMAIN vs : IsSeq(groups[i])
    BY <2>3, <2>4, EndpointsOnly, Zenon
  <2>7. IsSeq(groups) /\ (groups # << >> => vs # << >>)
    BY <2>2, <2>5, SequenceOf, Zenon
  <2>8. \A g \in Range(groups) : IsSeq(g)
    BY <2>5, <2>6, Zenon DEF Range
  <2>9. /\ IsSeq(Text!Agreed(groups))
        /\ Text!Agreed(groups) # << >> => NamedInAll(Text!Agreed(groups), groups)
    BY <2>7, <2>8, AgreedOnes, Zenon
  <2>10. \A v \in Range(vs) : Text!Only(v, Text!IsEndpoint) \in Range(groups)
    BY <2>4, <2>5 DEF Range
  <2>11. ASSUME NEW x \in Range(Text!Agreed(groups)) PROVE SaidByAll(strings, token, x)
    <3>1. Text!Agreed(groups) # << >>
      BY <2>11 DEF Range
    <3>2. NamedInAll(Text!Agreed(groups), groups)
      BY <3>1, <2>9, Zenon
    <3>3. \A v \in Range(vs) : x.name \in Text!Names(Text!Only(v, Text!IsEndpoint))
      BY <3>2, <2>10, <2>11, Zenon DEF NamedInAll
    <3>4. vs # << >>
      BY <3>2, <2>7, Zenon DEF NamedInAll
    <3> QED
      BY <3>3, <3>4, <1>2, Zenon DEF SaidByAll, Text!Places, vs
  <2> QED
    BY <2>1, <2>9, <2>11, Zenon
<1> QED
  BY <1>1, <1>2

\* An endpoint of a description: its own, or one of a string it refers to.
IsOwnEndpoint(x, text, role) == x \in Range(text) /\ x.role = role
IsNestedEndpoint(x, strings, text, role) ==
  \E t \in Range(text) : t.role = "nested" /\ x \in Range(Text!Expansion(strings, t)) /\ x.role = role

LEMMA EndpointsOf ==
  ASSUME NEW strings, AreStrings(strings), NEW text, IsSeq(text), NEW role
  PROVE  /\ IsSeq(Text!Endpoints(strings, text, role))
         /\ \A x \in Range(Text!Endpoints(strings, text, role)) :
              IsOwnEndpoint(x, text, role) \/ IsNestedEndpoint(x, strings, text, role)
<1> DEFINE its(t) == IF t.role = role THEN << t >>
                     ELSE IF t.role = "nested" THEN Text!Tokens(Text!Expansion(strings, t), role)
                     ELSE << >>
           seqs == [i \in DOMAIN text |-> its(text[i])]
           n == Len(text)
<1>1. n \in Nat /\ DOMAIN text = 1..n
  BY LenProperties DEF IsSeq
<1>2. Text!Endpoints(strings, text, role) = FlattenSeq(seqs)
  BY SameLibrary, Zenon DEF Text!Endpoints
<1>3. ASSUME NEW t \in Range(text)
      PROVE  /\ IsSeq(its(t))
             /\ \A x \in Range(its(t)) :
                  IsOwnEndpoint(x, text, role) \/ IsNestedEndpoint(x, strings, text, role)
  <2>1. CASE t.role = role
    <3>1. its(t) = << t >> /\ Range(<< t >>) = {t} /\ << t >> \in Seq({t})
      BY <2>1 DEF Range
    <3> QED
      BY <3>1, <2>1, Zenon DEF IsSeq, IsOwnEndpoint
  <2>2. CASE t.role # role /\ t.role = "nested"
    <3>1. its(t) = Text!Tokens(Text!Expansion(strings, t), role)
      BY <2>2, Zenon
    <3>2. IsSeq(Text!Expansion(strings, t))
      BY ExpansionSays, Zenon
    <3>3. IsSeq(Text!Tokens(Text!Expansion(strings, t), role))
          /\ Range(Text!Tokens(Text!Expansion(strings, t), role))
               = {x \in Range(Text!Expansion(strings, t)) : x.role = role}
      BY <3>2, TokensOf, Zenon
    <3>4. \A x \in {y \in Range(Text!Expansion(strings, t)) : y.role = role} :
            IsNestedEndpoint(x, strings, text, role)
      BY <2>2, Zenon DEF IsNestedEndpoint
    <3> QED
      BY <3>1, <3>3, <3>4, Zenon
  <2>3. CASE t.role # role /\ t.role # "nested"
    <3>1. its(t) = << >> /\ Range(<< >>) = {} /\ << >> \in Seq({})
      BY <2>3 DEF Range
    <3> QED
      BY <3>1, Zenon DEF IsSeq
  <2> QED
    BY <2>1, <2>2, <2>3
<1>4. \A i \in 1..n : text[i] \in Range(text) /\ seqs[i] = its(text[i])
  BY <1>1 DEF Range
<1>5. seqs = [i \in 1..n |-> seqs[i]]
  BY <1>1
<1> HIDE DEF its, seqs, n
<1>6. \A i \in 1..n : seqs[i] \in Seq(Range(seqs[i]))
  BY <1>3, <1>4, Zenon DEF IsSeq
<1>7. /\ FlattenSeq(seqs) \in Seq(UNION {Range(seqs[i]) : i \in 1..n})
      /\ Range(FlattenSeq(seqs)) = UNION {Range(seqs[i]) : i \in 1..n}
  BY <1>1, <1>5, <1>6, AllTogether, Zenon
<1>8. IsSeq(FlattenSeq(seqs))
  BY <1>7, Zenon DEF IsSeq
<1>9. \A x \in UNION {Range(seqs[i]) : i \in 1..n} :
        IsOwnEndpoint(x, text, role) \/ IsNestedEndpoint(x, strings, text, role)
  BY <1>3, <1>4
<1> QED
  BY <1>2, <1>7, <1>8, <1>9, Zenon

\* A place that the descriptions share is said by each that has an endpoint of
\* this role.
LEMMA PlacesAgreed ==
  ASSUME NEW strings, AreStrings(strings), NEW descs, IsSeq(descs),
         \A d \in Range(descs) : IsSeq(d), NEW role \in {"from", "to"},
         NEW place \in Text!Names(Text!Shared(strings, descs, role)), NEW d \in Range(descs)
  PROVE  Text!SaysPlace(strings, d, place) \/ Text!Endpoints(strings, d, role) = << >>
<1> SUFFICES ASSUME Text!Endpoints(strings, d, role) # << >>
             PROVE  Text!SaysPlace(strings, d, place)
  OBVIOUS
<1> DEFINE all == [i \in DOMAIN descs |-> Text!Endpoints(strings, descs[i], role)]
           Test(group) == group # << >>
           P == {i \in DOMAIN all : Test(all[i])}
           groups == Selected(all, P)
<1>1. Text!Shared(strings, descs, role) = Text!Agreed(groups)
  <2>1. Text!Shared(strings, descs, role)
          = Text!Agreed(Text!FlattenSeq([i \in DOMAIN all |-> IF Test(all[i]) THEN << all[i] >> ELSE << >>]))
    BY Zenon DEF Text!Shared, Text!Only
  <2>2. [i \in DOMAIN all |-> IF Test(all[i]) THEN << all[i] >> ELSE << >>]
          = [i \in DOMAIN all |-> IF i \in P THEN << all[i] >> ELSE << >>]
    BY Zenon
  <2> QED
    BY <2>1, <2>2, Zenon DEF Selected
<1>2. all = [i \in DOMAIN descs |-> all[i]] /\ DOMAIN all = DOMAIN descs
      /\ \A i \in DOMAIN descs : all[i] = Text!Endpoints(strings, descs[i], role)
  OBVIOUS
<1>3. \A i \in DOMAIN descs : descs[i] \in Range(descs)
  BY DEF Range
<1>4. P = {i \in DOMAIN all : all[i] # << >>}
  OBVIOUS
<1> HIDE DEF all, P
<1>5. IsSeq(all)
  BY <1>2, SequenceOf, Zenon
<1>6. \A g \in Range(all) : IsSeq(g)
  <2>1. \A i \in DOMAIN descs : IsSeq(descs[i])
    BY <1>3
  <2>2. \A i \in DOMAIN descs : IsSeq(Text!Endpoints(strings, descs[i], role))
    BY <2>1, EndpointsOf, Zenon
  <2> QED
    BY <1>2, <2>2 DEF Range
<1>7. IsSeq(groups) /\ Range(groups) = {all[i] : i \in P \intersect DOMAIN all}
  BY <1>5, Selects, Zenon
<1> HIDE DEF groups
<1>8. \A g \in Range(groups) : IsSeq(g)
  BY <1>6, <1>7 DEF Range
<1>9. Text!Endpoints(strings, d, role) \in Range(groups)
  <2>1. PICK i \in DOMAIN descs : d = descs[i]
    BY DEF Range
  <2> QED
    BY <2>1, <1>2, <1>4, <1>7
<1>10. PICK x \in Range(Text!Agreed(groups)) : place = x.name
  BY <1>1, NamesOf
<1>11. NamedInAll(Text!Agreed(groups), groups)
  <2>1. Text!Agreed(groups) # << >>
    BY <1>10 DEF Range
  <2> QED
    BY <2>1, <1>7, <1>8, AgreedOnes, Zenon
<1>12. place \in Text!Names(Text!Endpoints(strings, d, role))
  BY <1>9, <1>10, <1>11, Zenon DEF NamedInAll
<1>13. PICK y \in Range(Text!Endpoints(strings, d, role)) : place = y.name
  BY <1>12, NamesOf
<1>14. IsOwnEndpoint(y, d, role) \/ IsNestedEndpoint(y, strings, d, role)
  BY <1>13, EndpointsOf, Zenon
<1>15. CASE IsOwnEndpoint(y, d, role)
  <2>1. Range(Text!Only(d, Text!IsEndpoint)) = {z \in Range(d) : Text!IsEndpoint(z)}
    BY EndpointsOnly, Zenon
  <2>2. y \in Range(Text!Only(d, Text!IsEndpoint))
    BY <1>15, <2>1 DEF IsOwnEndpoint, Text!IsEndpoint
  <2>3. place \in Text!Places(d)
    BY <1>13, <2>2, NamesOf DEF Text!Places
  <2> QED
    BY <2>3, Zenon DEF Text!SaysPlace
<1>16. CASE IsNestedEndpoint(y, strings, d, role)
  <2>1. PICK t \in Range(d) : t.role = "nested" /\ y \in Range(Text!Expansion(strings, t))
    BY <1>16, Zenon DEF IsNestedEndpoint
  <2>2. SaidByAll(strings, t, y)
    BY <2>1, ExpansionSays, Zenon
  <2>3. t \in Range(Text!Tokens(d, "nested"))
    <3>1. Range(Text!Tokens(d, "nested")) = {x1 \in Range(d) : x1.role = "nested"}
      BY TokensOf, Zenon
    <3> QED
      BY <3>1, <2>1
  <2> QED
    BY <1>13, <2>2, <2>3, SameLibrary, Zenon DEF SaidByAll, Text!SaysPlace
<1> QED
  BY <1>14, <1>15, <1>16

-----------------------------------------------------------------------------
(* Tags: as wide as their parts, and no wider than the limit.               *)

\* A rendered part has at least one character: values are not empty.
PartsAreWide == \A part : Width(part) \in Nat \ {0}

\* What a fold has after each element.
LEMMA TrailExists ==
  ASSUME NEW V, NEW base \in V, NEW W, NEW n \in Nat, NEW m \in [1..n -> W],
         NEW op \in [V \X W -> V]
  PROVE  \E t \in [0..n -> V] : IsTrail(t, base, m, op, n)
<1>1. PICK f \in [SUBSET (1..n) -> V] : IsFold(f, base, m, op, n)
  BY FoldExists, Zenon
<1> QED
  BY <1>1, Accumulates, Zenon

Separator(n) == IF n > 1 THEN 1 ELSE 0

\* The width of the first n parts, for each n.
AreWidths(w, parts, n) ==
  w[0] = 0 /\ \A k \in 1..n : w[k] = w[k - 1] + Width(parts[k]) + Separator(k)

LEMMA WidthsExist ==
  ASSUME PartsAreWide, NEW parts, IsSeq(parts)
  PROVE  \E w \in [0..Len(parts) -> Nat] :
           AreWidths(w, parts, Len(parts)) /\ w[Len(parts)] = Text!WidthOf(parts)
<1> DEFINE n == Len(parts)
           W == 1..n
           m == [k \in 1..n |-> k]
           op == [p \in Nat \X W |-> p[1] + Width(parts[p[2]]) + Separator(p[2])]
           Def(f) == [k \in 0..n |->
                        IF k = 0 THEN 0
                        ELSE f[k - 1] + Width(parts[k]) + IF k > 1 THEN 1 ELSE 0]
           iter == CHOOSE f : f = Def(f)
<1>1. n \in Nat
  BY LenProperties DEF IsSeq
<1>2. Text!WidthOf(parts) = iter[n]
  BY Zenon DEF Text!WidthOf
<1>3. \A k : Width(parts[k]) \in Nat /\ Separator(k) \in Nat
  BY DEF PartsAreWide, Separator
<1>4. op \in [Nat \X W -> Nat]
  <2>1. \A p \in Nat \X W : p[1] + Width(parts[p[2]]) + Separator(p[2]) \in Nat
    BY <1>3
  <2> QED
    BY <2>1, Zenon
<1>5. m \in [1..n -> W] /\ 0 \in Nat
  OBVIOUS
<1>6. PICK t \in [0..n -> Nat] : IsTrail(t, 0, m, op, n)
  <2> HIDE DEF op, m, W, n
  <2> QED
    BY <1>1, <1>4, <1>5, TrailExists, Zenon
<1>7. AreWidths(t, parts, n)
  <2>1. t[0] = 0 /\ \A k \in 1..n : t[k] = op[<< t[k - 1], m[k] >>]
    BY <1>6, Zenon DEF IsTrail
  <2>2. ASSUME NEW k \in 1..n PROVE op[<< t[k - 1], m[k] >>] = t[k - 1] + Width(parts[k]) + Separator(k)
    <3>1. t[k - 1] \in Nat /\ m[k] = k /\ k \in W
      BY <1>1
    <3> QED
      BY <3>1
  <2> HIDE DEF op, m
  <2> QED
    BY <2>1, <2>2, Zenon DEF AreWidths
<1>8. t = Def(t)
  <2>1. \A k \in 0..n : k # 0 => k \in 1..n
    BY <1>1
  <2>2. \A k \in 0..n : t[k] = IF k = 0 THEN 0 ELSE t[k - 1] + Width(parts[k]) + Separator(k)
    BY <1>7, <2>1, Zenon DEF AreWidths
  <2>3. \A k \in 0..n : t[k] = IF k = 0 THEN 0 ELSE t[k - 1] + Width(parts[k]) + IF k > 1 THEN 1 ELSE 0
    BY <2>2, Zenon DEF Separator
  <2>4. t = [k \in 0..n |-> t[k]]
    BY <1>6
  <2> QED
    BY <2>3, <2>4, Zenon
<1>9. iter = Def(iter)
  BY <1>8, Zenon
<1> HIDE DEF iter
<1>10. \A k \in 0..n : iter[k] = t[k]
  <2> DEFINE T == {k \in 0..n : iter[k] = t[k]}
  <2>1. 0 \in T
    BY <1>1, <1>7, <1>9 DEF AreWidths
  <2>2. ASSUME NEW i \in 0..n, i < n, i \in T PROVE i + 1 \in T
    <3>1. i + 1 \in 1..n /\ i + 1 \in 0..n /\ i + 1 # 0 /\ (i + 1) - 1 = i
      BY <1>1, <2>2
    <3>2. iter[i + 1] = iter[(i + 1) - 1] + Width(parts[i + 1]) + Separator(i + 1)
      BY <3>1, <1>9, Zenon DEF Separator
    <3>3. t[i + 1] = t[(i + 1) - 1] + Width(parts[i + 1]) + Separator(i + 1)
      BY <3>1, <1>7, Zenon DEF AreWidths
    <3> QED
      BY <2>2, <3>1, <3>2, <3>3, Zenon
  <2> HIDE DEF T
  <2>3. 0..n \subseteq T
    BY <1>1, <2>1, <2>2, UpTo, Zenon
  <2> QED
    BY <2>3, Zenon DEF T
<1>11. n \in 0..n
  BY <1>1
<1> QED
  BY <1>2, <1>6, <1>7, <1>10, <1>11, Zenon

\* A sequence with one more element.
LEMMA Appended ==
  ASSUME NEW s, IsSeq(s), NEW x
  PROVE  /\ IsSeq(Append(s, x)) /\ Append(s, x) # << >> /\ Len(s) \in Nat
         /\ Range(Append(s, x)) = Range(s) \union {x} /\ Len(Append(s, x)) = Len(s) + 1
         /\ \A i \in 1..Len(s) : Append(s, x)[i] = s[i]
         /\ Append(s, x)[Len(s) + 1] = x
         /\ (s = << >> <=> Len(s) = 0)
<1> DEFINE S == Range(s) \union {x}
<1>1. s \in Seq(S) /\ x \in S /\ << x >> \in Seq(S)
  BY SeqMonotonic DEF IsSeq
<1>2. Append(s, x) \in Seq(S) /\ Append(s, x) = s \o << x >>
  BY <1>1, AppendProperties, AppendIsConcat
<1>3. Range(s \o << x >>) = Range(s) \union Range(<< x >>)
  BY <1>1, RangeConcatenation
<1>4. Range(<< x >>) = {x}
  BY DEF Range
<1>5. /\ Append(s, x) # << >> /\ Len(s) \in Nat /\ Len(Append(s, x)) = Len(s) + 1
      /\ \A i \in 1..Len(s) : Append(s, x)[i] = s[i]
      /\ Append(s, x)[Len(s) + 1] = x
  BY <1>1, AppendProperties, LenProperties
<1>6. s = << >> <=> Len(s) = 0
  BY <1>1, EmptySeq
<1> QED
  BY <1>2, <1>3, <1>4, <1>5, <1>6, Zenon DEF IsSeq

\* One more part.
LEMMA WidthAdds ==
  ASSUME PartsAreWide, NEW parts, IsSeq(parts), NEW part
  PROVE  /\ Text!WidthOf(parts) \in Nat
         /\ Text!WidthOf(Append(parts, part))
              = Text!WidthOf(parts) + Width(part) + IF parts = << >> THEN 0 ELSE 1
<1> DEFINE n == Len(parts)
           all == Append(parts, part)
<1>1. /\ IsSeq(all) /\ Len(all) = n + 1 /\ n \in Nat /\ all[n + 1] = part
      /\ (parts = << >> <=> n = 0) /\ \A i \in 1..n : all[i] = parts[i]
  BY Appended
<1>2. PICK w \in [0..n -> Nat] : AreWidths(w, parts, n) /\ w[n] = Text!WidthOf(parts)
  BY WidthsExist, Zenon
<1> HIDE DEF all
<1>3. PICK v \in [0..Len(all) -> Nat] : AreWidths(v, all, Len(all)) /\ v[Len(all)] = Text!WidthOf(all)
  BY <1>1, WidthsExist, Zenon
<1>4. \A k \in 0..n : v[k] = w[k]
  <2> DEFINE T == {k \in 0..n : v[k] = w[k]}
  <2>1. 0 \in T
    BY <1>1, <1>2, <1>3 DEF AreWidths
  <2>2. ASSUME NEW i \in 0..n, i < n, i \in T PROVE i + 1 \in T
    <3>1. i + 1 \in 1..n /\ i + 1 \in 0..n /\ (i + 1) - 1 = i /\ i + 1 \in 1..Len(all)
      BY <1>1, <2>2
    <3>2. v[i + 1] = v[(i + 1) - 1] + Width(all[i + 1]) + Separator(i + 1)
      BY <3>1, <1>3, Zenon DEF AreWidths
    <3>3. w[i + 1] = w[(i + 1) - 1] + Width(parts[i + 1]) + Separator(i + 1)
      BY <3>1, <1>2, Zenon DEF AreWidths
    <3> QED
      BY <1>1, <2>2, <3>1, <3>2, <3>3, Zenon
  <2> HIDE DEF T
  <2>3. 0..n \subseteq T
    BY <1>1, <2>1, <2>2, UpTo, Zenon
  <2> QED
    BY <2>3, Zenon DEF T
<1>5. n \in 0..n /\ n + 1 \in 1..Len(all) /\ (n + 1) - 1 = n
  BY <1>1
<1>6. v[n + 1] = v[(n + 1) - 1] + Width(all[n + 1]) + Separator(n + 1)
  BY <1>3, <1>5, Zenon DEF AreWidths
<1>7. Separator(n + 1) = IF parts = << >> THEN 0 ELSE 1
  BY <1>1 DEF Separator
<1>8. Text!WidthOf(all) = w[n] + Width(part) + IF parts = << >> THEN 0 ELSE 1
  BY <1>1, <1>3, <1>4, <1>5, <1>6, <1>7, Zenon
<1>9. w[n] \in Nat
  BY <1>5
<1> QED
  BY <1>2, <1>8, <1>9, Zenon DEF all

\* Tags account for their parts, and fit.
Account(tags) ==
  /\ IsSeq(tags.parts) /\ tags.width \in Nat /\ tags.width = Text!WidthOf(tags.parts)
  /\ tags.width = 0 <=> tags.parts = << >>
  /\ tags.evidence = UNION {p.evidence : p \in Range(tags.parts)}
FitIn(tags, limit) == tags.parts # << >> => tags.width <= limit
AreTags(tags, limit) == Account(tags) /\ FitIn(tags, limit)

LEMMA NoTags == PartsAreWide => \A limit \in Int : AreTags(Text!Tags, limit)
<1> SUFFICES ASSUME PartsAreWide PROVE \A limit \in Int : AreTags(Text!Tags, limit)
  OBVIOUS
<1>1. Text!Tags.parts = << >> /\ Text!Tags.width = 0 /\ Text!Tags.evidence = {}
  BY DEF Text!Tags
<1>2. Range(<< >>) = {} /\ IsSeq(<< >>) /\ Len(<< >>) = 0
  BY EmptySeq DEF Range, IsSeq
<1>3. Text!WidthOf(<< >>) = 0
  <2>1. PICK w \in [0..Len(<< >>) -> Nat] :
          AreWidths(w, << >>, Len(<< >>)) /\ w[Len(<< >>)] = Text!WidthOf(<< >>)
    BY <1>2, WidthsExist, Zenon
  <2> QED
    BY <2>1, <1>2, Zenon DEF AreWidths
<1> QED
  BY <1>1, <1>2, <1>3 DEF AreTags, Account, FitIn

\* One more part is taken, if it fits.
LEMMA TakingFits ==
  ASSUME PartsAreWide, NEW limit \in Int, NEW tags, AreTags(tags, limit), NEW part
  PROVE  /\ AreTags(Text!Fitted(tags, part, limit), limit)
         /\ \/ Text!Fitted(tags, part, limit) = tags
            \/ /\ Text!Fitted(tags, part, limit).parts = Append(tags.parts, part)
               /\ Text!Fitted(tags, part, limit).evidence = tags.evidence \union part.evidence
<1> DEFINE taken == Text!Taken(tags, part)
<1>1. /\ taken.parts = Append(tags.parts, part) /\ taken.evidence = tags.evidence \union part.evidence
      /\ taken.width = tags.width + (Width(part) + IF tags.width > 0 THEN 1 ELSE 0)
  BY DEF Text!Taken
<1>2. Text!Fitted(tags, part, limit) = tags
      \/ (Text!Fitted(tags, part, limit) = taken /\ ~(taken.width > limit))
  BY Zenon DEF Text!Fitted
<1> HIDE DEF taken
<1>3. ASSUME ~(taken.width > limit) PROVE AreTags(taken, limit)
  <2>1. Account(tags)
    BY DEF AreTags
  <2>2. /\ Text!WidthOf(tags.parts) \in Nat
        /\ Text!WidthOf(Append(tags.parts, part))
             = Text!WidthOf(tags.parts) + Width(part) + IF tags.parts = << >> THEN 0 ELSE 1
    BY <2>1, WidthAdds, Zenon DEF Account
  <2>3. Width(part) \in Nat \ {0} /\ tags.width \in Nat
        /\ (tags.width = 0 <=> tags.parts = << >>) /\ tags.width = Text!WidthOf(tags.parts)
    BY <2>1 DEF PartsAreWide, Account
  <2>4. taken.width = Text!WidthOf(taken.parts) /\ taken.width \in Nat \ {0} /\ taken.width <= limit
    BY <1>1, <1>3, <2>2, <2>3
  <2>5. IsSeq(taken.parts) /\ taken.parts # << >> /\ Range(taken.parts) = Range(tags.parts) \union {part}
    <3>1. IsSeq(tags.parts)
      BY <2>1 DEF Account
    <3> QED
      BY <1>1, <3>1, Appended
  <2>6. taken.evidence = UNION {p.evidence : p \in Range(taken.parts)}
    BY <1>1, <2>1, <2>5 DEF Account
  <2> QED
    BY <2>4, <2>5, <2>6 DEF AreTags, Account, FitIn
<1> QED
  BY <1>1, <1>2, <1>3, Zenon

\* All parts are tried, one after the other.
LEMMA TryingAllFits ==
  ASSUME PartsAreWide, NEW limit \in Int, NEW parts, IsSeq(parts)
  PROVE  /\ AreTags(Text!FittedAll(parts, limit), limit)
         /\ Range(Text!FittedAll(parts, limit).parts) \subseteq Range(parts)
<1> DEFINE n == Len(parts)
           S == Range(parts)
           W == 1..n
           E == UNION {p.evidence : p \in S}
           V == [parts : Seq(S), width : Nat, evidence : SUBSET E]
           m == [k \in 1..n |-> k]
           op == [p \in V \X W |-> Text!Fitted(p[1], parts[p[2]], limit)]
           Def(f) == [k \in 0..n |->
                        IF k = 0 THEN Text!Tags ELSE Text!Fitted(f[k - 1], parts[k], limit)]
           iter == CHOOSE f : f = Def(f)
<1>1. n \in Nat /\ DOMAIN parts = 1..n /\ \A k \in 1..n : parts[k] \in S
  BY LenProperties DEF IsSeq, Range
<1>2. Text!FittedAll(parts, limit) = iter[n]
  BY Zenon DEF Text!FittedAll
<1>3. Text!Tags \in V
  <2>1. << >> \in Seq(S) /\ 0 \in Nat /\ {} \in SUBSET E
    BY EmptySeq
  <2> HIDE DEF E, S
  <2> QED
    BY <2>1 DEF Text!Tags
<1>4. ASSUME NEW v \in V, NEW part \in S PROVE Text!Fitted(v, part, limit) \in V
  <2>1. v.parts \in Seq(S) /\ v.width \in Nat /\ v.evidence \in SUBSET E
    BY <1>4
  <2>2. Append(v.parts, part) \in Seq(S)
    BY <2>1, AppendProperties, Zenon
  <2>3. v.width + (Width(part) + IF v.width > 0 THEN 1 ELSE 0) \in Nat
    <3>1. Width(part) \in Nat
      BY DEF PartsAreWide
    <3> QED
      BY <2>1, <3>1
  <2>4. v.evidence \union part.evidence \in SUBSET E
    BY <2>1
  <2> DEFINE taken == Text!Taken(v, part)
  <2>5. taken \in V
    <3> HIDE DEF E, S
    <3> QED
      BY <2>2, <2>3, <2>4 DEF Text!Taken
  <2>6. Text!Fitted(v, part, limit) = v \/ Text!Fitted(v, part, limit) = taken
    BY Zenon DEF Text!Fitted
  <2> QED
    BY <2>5, <2>6, Zenon
<1>5. op \in [V \X W -> V]
  <2>1. ASSUME NEW p \in V \X W PROVE Text!Fitted(p[1], parts[p[2]], limit) \in V
    <3>1. p[1] \in V /\ p[2] \in W
      BY <2>1
    <3>2. parts[p[2]] \in S
      BY <1>1, <3>1, Zenon
    <3> HIDE DEF V, S
    <3> QED
      BY <1>4, <3>1, <3>2, Zenon
  <2> HIDE DEF V, W
  <2> QED
    BY <2>1, Zenon
<1>6. m \in [1..n -> W]
  OBVIOUS
<1>7. PICK t \in [0..n -> V] : IsTrail(t, Text!Tags, m, op, n)
  <2> HIDE DEF op, m, W, n, V
  <2> QED
    BY <1>1, <1>3, <1>5, <1>6, TrailExists, Zenon
<1>8. t[0] = Text!Tags /\ \A k \in 1..n : t[k] = Text!Fitted(t[k - 1], parts[k], limit)
  <2>1. t[0] = Text!Tags /\ \A k \in 1..n : t[k] = op[<< t[k - 1], m[k] >>]
    BY <1>7, Zenon DEF IsTrail
  <2>2. ASSUME NEW k \in 1..n PROVE op[<< t[k - 1], m[k] >>] = Text!Fitted(t[k - 1], parts[k], limit)
    <3>1. k - 1 \in 0..n /\ m[k] = k /\ k \in W
      BY <1>1
    <3> HIDE DEF V, m, W
    <3>2. t[k - 1] \in V
      BY <3>1, Zenon
    <3>3. << t[k - 1], k >> \in V \X W /\ << t[k - 1], k >>[1] = t[k - 1] /\ << t[k - 1], k >>[2] = k
      BY <3>1, <3>2
    <3> QED
      BY <3>1, <3>3, Zenon
  <2> HIDE DEF op, m
  <2> QED
    BY <2>1, <2>2, Zenon
<1> HIDE DEF V, op, m, W
<1>9. t = Def(t)
  <2>1. \A k \in 0..n : k # 0 => k \in 1..n
    BY <1>1
  <2>2. \A k \in 0..n : t[k] = IF k = 0 THEN Text!Tags ELSE Text!Fitted(t[k - 1], parts[k], limit)
    BY <1>8, <2>1, Zenon
  <2>3. t = [k \in 0..n |-> t[k]]
    BY <1>7
  <2> QED
    BY <2>2, <2>3, Zenon
<1>10. iter = Def(iter)
  BY <1>9, Zenon
<1> HIDE DEF iter
<1>11. \A k \in 0..n : iter[k] = t[k] /\ AreTags(t[k], limit)
  <2> DEFINE T == {k \in 0..n : iter[k] = t[k] /\ AreTags(t[k], limit)}
  <2>1. 0 \in T
    <3>1. AreTags(Text!Tags, limit) /\ 0 \in 0..n
      BY <1>1, NoTags
    <3>2. iter[0] = Text!Tags
      BY <3>1, <1>10, Zenon
    <3> QED
      BY <3>1, <3>2, <1>8, Zenon
  <2>2. ASSUME NEW i \in 0..n, i < n, i \in T PROVE i + 1 \in T
    <3>1. i + 1 \in 1..n /\ i + 1 \in 0..n /\ i + 1 # 0 /\ (i + 1) - 1 = i
      BY <1>1, <2>2
    <3>2. iter[i + 1] = Text!Fitted(iter[i], parts[i + 1], limit)
      BY <3>1, <1>10, Zenon
    <3>3. t[i + 1] = Text!Fitted(t[i], parts[i + 1], limit)
      BY <3>1, <1>8, Zenon
    <3>4. AreTags(t[i + 1], limit)
      <4>1. AreTags(t[i], limit)
        BY <2>2
      <4>2. AreTags(Text!Fitted(t[i], parts[i + 1], limit), limit)
        BY <4>1, TakingFits
      <4> QED
        BY <3>3, <4>2, Zenon
    <3> QED
      BY <2>2, <3>1, <3>2, <3>3, <3>4, Zenon
  <2> HIDE DEF T
  <2>3. 0..n \subseteq T
    BY <1>1, <2>1, <2>2, UpTo, Zenon
  <2> QED
    BY <2>3, Zenon DEF T
<1>12. iter[n] = t[n] /\ AreTags(t[n], limit) /\ t[n] \in V
  <2>1. n \in 0..n
    BY <1>1
  <2> QED
    BY <2>1, <1>11, Zenon
<1>13. Range(t[n].parts) \subseteq S
  <2>1. t[n].parts \in Seq(S)
    BY <1>12 DEF V
  <2> HIDE DEF S
  <2> QED
    BY <2>1, LenProperties, ElementOfSeq DEF Range
<1> QED
  BY <1>2, <1>12, <1>13, Zenon

-----------------------------------------------------------------------------
(* Titles.                                                                  *)

\* What the last part of a text leaves.
LEMMA FrontOf ==
  ASSUME NEW parts, IsSeq(parts)
  PROVE  /\ IsSeq(Text!Front(parts))
         /\ \A part : Text!Front(parts \o << part >>) = parts
         /\ parts # << >> => parts = Append(Text!Front(parts), parts[Len(parts)])
         /\ parts = << >> => Text!Front(parts) = << >>
<1> DEFINE S == Range(parts)
           n == Len(parts)
<1>1. parts \in Seq(S) /\ n \in Nat
  BY LenProperties DEF IsSeq
<1> HIDE DEF S
<1>2. Text!Front(parts) \in Seq(S)
  BY <1>1 DEF Text!Front
<1>3. IsSeq(Text!Front(parts))
  BY <1>2, SeqOfItsOwn, Zenon DEF IsSeq
<1>4. ASSUME NEW part PROVE Text!Front(parts \o << part >>) = parts
  <2> DEFINE T == S \union {part}
  <2>1. parts \in Seq(T) /\ part \in T
    BY <1>1, SeqMonotonic
  <2> HIDE DEF T
  <2> QED
    BY <2>1 DEF Text!Front
<1>5. ASSUME parts # << >> PROVE parts = Append(Text!Front(parts), parts[n])
  <2>1. n # 0 /\ parts[n] \in S
    BY <1>1, <1>5, EmptySeq, LenProperties, ElementOfSeq
  <2> QED
    BY <1>1, <2>1 DEF Text!Front
<1>6. parts = << >> => Text!Front(parts) = << >>
  BY DEF Text!Front
<1> QED
  BY <1>3, <1>4, <1>5, <1>6

\* A part less is no wider.
LEMMA FrontIsNarrower ==
  ASSUME PartsAreWide, NEW parts, IsSeq(parts)
  PROVE  Text!WidthOf(Text!Front(parts)) \in Nat /\ Text!WidthOf(parts) \in Nat
         /\ Text!WidthOf(Text!Front(parts)) <= Text!WidthOf(parts)
<1>1. IsSeq(Text!Front(parts))
  BY FrontOf, Zenon
<1>2. Text!WidthOf(Text!Front(parts)) \in Nat /\ Text!WidthOf(parts) \in Nat
  BY <1>1, WidthAdds, Zenon
<1>3. CASE parts = << >>
  BY <1>2, <1>3, FrontOf
<1>4. CASE parts # << >>
  <2> DEFINE last == parts[Len(parts)]
  <2>1. parts = Append(Text!Front(parts), last)
    BY <1>4, FrontOf, Zenon
  <2> HIDE DEF last
  <2>2. Text!WidthOf(Append(Text!Front(parts), last))
          = Text!WidthOf(Text!Front(parts)) + Width(last)
            + IF Text!Front(parts) = << >> THEN 0 ELSE 1
    BY <1>1, WidthAdds, Zenon
  <2>3. Width(last) \in Nat
    BY DEF PartsAreWide
  <2>4. Text!WidthOf(parts) = Text!WidthOf(Text!Front(parts)) + Width(last)
            + IF Text!Front(parts) = << >> THEN 0 ELSE 1
    BY <2>1, <2>2, Zenon
  <2> HIDE DEF PartsAreWide
  <2> QED
    BY <1>2, <2>3, <2>4
<1> QED
  BY <1>3, <1>4

\* The options of a profile, as far as they are sequences and numbers.
IsOptions(opts) == IsSeq(opts.titleFields) /\ IsSeq(opts.entityFields) /\ opts.limit \in Nat

\* The tags of a title.
LEMMA TitleTagsFit ==
  ASSUME PartsAreWide, NEW contract, NEW opts, IsOptions(opts)
  PROVE  AreTags(Text!TitleTags(contract, opts), opts.limit)
<1> DEFINE fields == opts.titleFields
           seqs == [i \in DOMAIN fields |-> Text!GroupParts(contract, fields[i])]
           n == Len(fields)
<1>1. n \in Nat /\ DOMAIN fields = 1..n /\ opts.limit \in Int
  BY LenProperties DEF IsSeq, IsOptions
<1>2. ASSUME NEW group PROVE IsSeq(Text!GroupParts(contract, group))
  <2>1. \/ Text!GroupParts(contract, group) = << >>
        \/ \E detail : Text!GroupParts(contract, group) = << detail >>
    BY Zenon DEF Text!GroupParts
  <2>2. IsSeq(<< >>)
    BY DEF IsSeq
  <2>3. \A detail : IsSeq(<< detail >>)
    BY DEF IsSeq, Range
  <2> QED
    BY <2>1, <2>2, <2>3, Zenon
<1>3. \A i \in 1..n : seqs[i] = Text!GroupParts(contract, fields[i])
  BY <1>1
<1>4. seqs = [i \in 1..n |-> seqs[i]]
  BY <1>1
<1>5. Text!TitleTags(contract, opts) = Text!FittedAll(FlattenSeq(seqs), opts.limit)
  BY SameLibrary, Zenon DEF Text!TitleTags
<1> HIDE DEF seqs, n
<1>6. \A i \in 1..n : seqs[i] \in Seq(Range(seqs[i]))
  BY <1>2, <1>3, Zenon DEF IsSeq
<1>7. /\ FlattenSeq(seqs) \in Seq(UNION {Range(seqs[i]) : i \in 1..n})
      /\ Range(FlattenSeq(seqs)) = UNION {Range(seqs[i]) : i \in 1..n}
  BY <1>1, <1>4, <1>6, AllTogether, Zenon
<1>8. IsSeq(FlattenSeq(seqs))
  BY <1>7, Zenon DEF IsSeq
<1> QED
  BY <1>1, <1>5, <1>8, TryingAllFits, Zenon

\* A title has the parts that fit, or is replaced by its route after them.
IsTitle(title, all, contract, base, route) ==
  \/ /\ title.base = base /\ title.parts = all.parts
     /\ title.evidence = contract.evidence \union all.evidence
  \/ /\ title.base = None /\ title.parts = all.parts \o << route >>
     /\ title.evidence = (contract.evidence \union all.evidence) \union route.evidence

\* Tags with what follows them.
Beside(tags, x) ==
  [parts |-> tags.parts \o x.parts, width |-> x.width, evidence |-> tags.evidence \union x.evidence]

\* An element after two sequences is one after the second.
IsAfter(s, t, e) == Append(s \o t, e) = s \o Append(t, e)

LEMMA AppendedAfter ==
  ASSUME NEW T, NEW s \in Seq(T), NEW t \in Seq(T), NEW e \in T
  PROVE  IsAfter(s, t, e)
<1> DEFINE last == << e >>
<1>1. last \in Seq(T) /\ s \o t \in Seq(T)
  BY ConcatProperties
<1>2. Append(s \o t, e) = (s \o t) \o last /\ Append(t, e) = t \o last
  BY <1>1, AppendIsConcat
<1> HIDE DEF last
<1>3. (s \o t) \o last = s \o (t \o last)
  BY <1>1, ConcatAssociative
<1> QED
  BY <1>2, <1>3 DEF IsAfter

\* One more part after the tags is taken as one more part of all.
LEMMA FitsBeside ==
  ASSUME PartsAreWide, NEW limit \in Int, NEW tags, IsSeq(tags.parts), NEW x, IsSeq(x.parts),
         AreTags(Beside(tags, x), limit), NEW part
  PROVE  LET y == Text!Fitted(x, part, limit)
         IN  /\ AreTags(Beside(tags, y), limit) /\ IsSeq(y.parts)
             /\ Range(y.parts) \subseteq Range(x.parts) \union {part}
<1> DEFINE y == Text!Fitted(x, part, limit)
           taken == Text!Taken(x, part)
           all == Beside(tags, x)
<1>1. /\ taken.parts = Append(x.parts, part) /\ taken.evidence = x.evidence \union part.evidence
      /\ taken.width = x.width + (Width(part) + IF x.width > 0 THEN 1 ELSE 0)
  BY DEF Text!Taken
<1>2. y = IF taken.width > limit THEN x ELSE taken
  BY Zenon DEF Text!Fitted
<1>3. Text!Taken(all, part) = [parts |-> Append(tags.parts \o x.parts, part), width |-> taken.width,
                               evidence |-> (tags.evidence \union x.evidence) \union part.evidence]
  BY <1>1 DEF Text!Taken, Beside
<1>4. Append(tags.parts \o x.parts, part) = tags.parts \o taken.parts
  <2> DEFINE T == (Range(tags.parts) \union Range(x.parts)) \union {part}
             p == tags.parts
             q == x.parts
  <2>1. p \in Seq(T) /\ q \in Seq(T) /\ part \in T
    BY SeqMonotonic DEF IsSeq
  <2> HIDE DEF T, p, q
  <2>2. IsAfter(p, q, part)
    BY <2>1, AppendedAfter, Zenon
  <2> QED
    BY <2>2, <1>1, Zenon DEF IsAfter, p, q
<1>5. Text!Taken(all, part) = Beside(tags, taken)
  <2>1. (tags.evidence \union x.evidence) \union part.evidence = tags.evidence \union taken.evidence
    BY <1>1
  <2> QED
    BY <2>1, <1>3, <1>4, Zenon DEF Beside
<1>6. Text!Fitted(all, part, limit) = Beside(tags, y)
  <2>1. Text!Taken(all, part).width = taken.width
    BY <1>3
  <2>2. Text!Fitted(all, part, limit) = IF Text!Taken(all, part).width > limit THEN all
                                         ELSE Text!Taken(all, part)
    BY Zenon DEF Text!Fitted
  <2> HIDE DEF taken
  <2>3. CASE taken.width > limit
    BY <2>1, <2>2, <2>3, <1>2, Zenon
  <2>4. CASE ~(taken.width > limit)
    BY <2>1, <2>2, <2>4, <1>2, <1>5, Zenon
  <2> QED
    BY <2>3, <2>4
<1>7. AreTags(Beside(tags, y), limit)
  BY <1>6, TakingFits, Zenon
<1>8. IsSeq(taken.parts) /\ Range(taken.parts) = Range(x.parts) \union {part}
  <2>1. IsSeq(Append(x.parts, part)) /\ Range(Append(x.parts, part)) = Range(x.parts) \union {part}
    BY Appended
  <2> HIDE DEF taken
  <2> QED
    BY <1>1, <2>1, Zenon
<1>9. IsSeq(y.parts) /\ Range(y.parts) \subseteq Range(x.parts) \union {part}
  BY <1>2, <1>8
<1> QED
  BY <1>7, <1>9

\* What follows the tags fits beside them: the route if it is appended, and the
\* signature.
LEMMA SuffixFits ==
  ASSUME PartsAreWide, NEW strings, NEW contract, NEW opts, IsOptions(opts)
  PROVE  LET tags == Text!TitleTags(contract, opts)
             suffix == Text!TitleSuffix(strings, contract, tags, opts)
         IN  /\ \E all : AreTags(all, opts.limit) /\ all.parts = tags.parts \o suffix
             /\ IsSeq(tags.parts) /\ IsSeq(suffix)
             /\ Range(suffix) \subseteq
                  (IF opts.routes = "append" /\ Text!HasRoute(strings, contract)
                   THEN {Text!Route(strings, contract)} ELSE {})
                  \union (IF Text!HasSignature(contract) THEN {Text!Signature(contract)} ELSE {})
<1> DEFINE limit == opts.limit
           tags == Text!TitleTags(contract, opts)
           route == Text!Route(strings, contract)
           mark == Text!Signature(contract)
           appends == opts.routes = "append" /\ Text!HasRoute(strings, contract)
           marks == Text!HasSignature(contract)
           start == [Text!Tags EXCEPT !.width = tags.width]
           routed == IF appends THEN Text!Fitted(start, route, limit) ELSE start
           marked == IF marks THEN Text!Fitted(routed, mark, limit) ELSE routed
<1>1. Text!TitleSuffix(strings, contract, tags, opts) = marked.parts
  BY Zenon DEF Text!TitleSuffix
<1>2. limit \in Int /\ AreTags(tags, limit) /\ IsSeq(tags.parts)
  BY TitleTagsFit DEF IsOptions, AreTags, Account
<1>3. start.parts = << >> /\ start.width = tags.width /\ start.evidence = {}
  BY DEF Text!Tags
<1> HIDE DEF tags, route, mark, limit, appends, marks, start
<1>4. IsSeq(start.parts) /\ Range(start.parts) = {}
  <2>1. IsSeq(<< >>) /\ Range(<< >>) = {}
    BY DEF Range, IsSeq
  <2> QED
    BY <2>1, <1>3, Zenon
<1>5. AreTags(Beside(tags, start), limit)
  <2>1. tags.parts \o << >> = tags.parts
    BY <1>2 DEF IsSeq
  <2>2. Beside(tags, start).parts = tags.parts /\ Beside(tags, start).width = tags.width
        /\ Beside(tags, start).evidence = tags.evidence
    BY <2>1, <1>3 DEF Beside
  <2> QED
    BY <2>2, <1>2, Zenon DEF AreTags, Account, FitIn
<1>6. /\ AreTags(Beside(tags, routed), limit) /\ IsSeq(routed.parts)
      /\ Range(routed.parts) \subseteq (IF appends THEN {route} ELSE {})
  <2>1. CASE appends
    <3>1. /\ AreTags(Beside(tags, Text!Fitted(start, route, limit)), limit)
          /\ IsSeq(Text!Fitted(start, route, limit).parts)
          /\ Range(Text!Fitted(start, route, limit).parts) \subseteq Range(start.parts) \union {route}
      BY <1>2, <1>4, <1>5, FitsBeside, Zenon
    <3> QED
      BY <3>1, <2>1, <1>4
  <2>2. CASE ~ appends
    BY <2>2, <1>4, <1>5
  <2> QED
    BY <2>1, <2>2
<1> HIDE DEF routed
<1>7. /\ AreTags(Beside(tags, marked), limit) /\ IsSeq(marked.parts)
      /\ Range(marked.parts) \subseteq
           (IF appends THEN {route} ELSE {}) \union (IF marks THEN {mark} ELSE {})
  <2>1. CASE marks
    <3>1. /\ AreTags(Beside(tags, Text!Fitted(routed, mark, limit)), limit)
          /\ IsSeq(Text!Fitted(routed, mark, limit).parts)
          /\ Range(Text!Fitted(routed, mark, limit).parts) \subseteq Range(routed.parts) \union {mark}
      BY <1>2, <1>6, FitsBeside, Zenon
    <3> QED
      BY <3>1, <2>1, <1>6
  <2>2. CASE ~ marks
    BY <2>2, <1>6
  <2> QED
    BY <2>1, <2>2
<1>8. Beside(tags, marked).parts = tags.parts \o marked.parts
  BY DEF Beside
<1> HIDE DEF marked
<1> QED
  BY <1>1, <1>2, <1>7, <1>8, Zenon DEF tags, route, mark, limit, appends, marks

LEMMA TitleIs ==
  ASSUME PartsAreWide, NEW strings, NEW contract, NEW base, NEW opts, IsOptions(opts)
  PROVE  \E all : /\ AreTags(all, opts.limit)
                  /\ IsTitle(Text!Title(strings, contract, base, opts), all, contract, base,
                             Text!Route(strings, contract))
<1> DEFINE tags == Text!TitleTags(contract, opts)
           suffix == Text!TitleSuffix(strings, contract, tags, opts)
           route == Text!Route(strings, contract)
           mark == Text!Signature(contract)
           hasRoute == Text!HasRoute(strings, contract)
           marks == Text!HasSignature(contract)
           replaced == Text!Replaces(strings, contract, tags, opts)
           parts == tags.parts \o suffix
           routeIsShown == \/ opts.routes = "append" /\ hasRoute /\ route \in Range(suffix)
                           \/ replaced
           ofMission == Text!MissionEvidence(strings, contract, tags, suffix, opts)
           replacing == IF replaced THEN << route >> ELSE << >>
           title == [base |-> IF replaced THEN None ELSE base,
                     parts |-> parts \o replacing,
                     evidence |-> contract.evidence \union ofMission]
<1>1. Text!Title(strings, contract, base, opts) = title
  BY Zenon DEF Text!Title, Text!Composed
<1>2. ofMission = UNION {tags.evidence, IF routeIsShown THEN route.evidence ELSE {},
                         IF marks /\ mark \in Range(suffix) THEN mark.evidence ELSE {}}
  BY SameLibrary, Zenon DEF Text!MissionEvidence, Text!Replaces
<1>3. PICK all : AreTags(all, opts.limit) /\ all.parts = parts
  BY SuffixFits, Zenon
<1>4. /\ IsSeq(tags.parts) /\ IsSeq(suffix)
      /\ Range(suffix) \subseteq (IF opts.routes = "append" /\ hasRoute THEN {route} ELSE {})
                                 \union (IF marks THEN {mark} ELSE {})
  BY SuffixFits, Zenon
<1>5. replaced => opts.routes = "replace"
  BY Zenon DEF Text!Replaces
<1>6. tags.evidence = UNION {p.evidence : p \in Range(tags.parts)}
  BY TitleTagsFit, Zenon DEF AreTags, Account
<1> HIDE DEF tags, suffix, route, mark, hasRoute, marks, replaced, ofMission
<1>7. IsSeq(parts) /\ Range(parts) = Range(tags.parts) \union Range(suffix)
  <2> DEFINE T == Range(tags.parts) \union Range(suffix)
  <2>1. tags.parts \in Seq(T) /\ suffix \in Seq(T)
    BY <1>4, SeqMonotonic DEF IsSeq
  <2> HIDE DEF T
  <2>2. parts \in Seq(T)
    BY <2>1, ConcatProperties
  <2>3. Range(parts) = Range(tags.parts) \union Range(suffix)
    BY <2>1, RangeConcatenation
  <2> QED
    BY <2>2, <2>3 DEF IsSeq, T
<1>8. all.evidence = tags.evidence \union UNION {p.evidence : p \in Range(suffix)}
  <2>1. all.evidence = UNION {p.evidence : p \in Range(all.parts)}
    BY <1>3, Zenon DEF AreTags, Account
  <2> QED
    BY <2>1, <1>3, <1>6, <1>7
<1>9. UNION {p.evidence : p \in Range(suffix)}
        = (IF opts.routes = "append" /\ hasRoute /\ route \in Range(suffix) THEN route.evidence ELSE {})
          \union (IF marks /\ mark \in Range(suffix) THEN mark.evidence ELSE {})
  BY <1>4
<1> HIDE DEF parts
<1>10. CASE ~ replaced
  <2>1. ofMission = all.evidence
    BY <1>10, <1>2, <1>8, <1>9
  <2>2. title.base = base /\ title.parts = parts
        /\ title.evidence = contract.evidence \union ofMission
    <3>1. parts \o << >> = parts
      BY <1>7 DEF IsSeq
    <3> QED
      BY <3>1, <1>10
  <2>3. IsTitle(title, all, contract, base, route)
    BY <2>1, <2>2, <1>3, Zenon DEF IsTitle
  <2> QED
    BY <2>3, <1>1, <1>3, Zenon DEF route
<1>11. CASE replaced
  <2>1. contract.evidence \union ofMission = (contract.evidence \union all.evidence) \union route.evidence
    BY <1>11, <1>2, <1>5, <1>8, <1>9
  <2>2. title.base = None /\ title.parts = parts \o << route >>
        /\ title.evidence = contract.evidence \union ofMission
    BY <1>11
  <2>3. IsTitle(title, all, contract, base, route)
    BY <2>1, <2>2, <1>3, Zenon DEF IsTitle
  <2> QED
    BY <2>3, <1>1, <1>3, Zenon DEF route
<1> QED
  BY <1>10, <1>11

\* What a build has, as far as it is in sequences and finite.
IsGame(game) ==
  /\ AreStrings(game.nested)
  /\ \A key \in DOMAIN game.contracts :
       /\ key.kind \in {"title", "desc"} /\ IsSeq(game.contracts[key].descs)
       /\ \A d \in Range(game.contracts[key].descs) : IsSeq(d)
  /\ IsFiniteSet(game.catalog) /\ \A f \in game.catalog : IsFiniteSet(f.path)

\* A title shows what is agreed on.
LEMMA TitleShows ==
  ASSUME PartsAreWide, NEW game, IsGame(game), NEW opts, IsOptions(opts),
         NEW key \in DOMAIN game.contracts, key.kind = "title", NEW base
  PROVE  Text!ShowsOnlyAgreed(game, opts, key,
           Text!Title(game.nested, game.contracts[key], base, opts), game.contracts[key].evidence)
<1> DEFINE contract == game.contracts[key]
           route == Text!Route(game.nested, contract)
           title == Text!Title(game.nested, contract, base, opts)
<1>1. PICK all : AreTags(all, opts.limit) /\ IsTitle(title, all, contract, base, route)
  BY TitleIs, Zenon
<1>2. /\ IsSeq(all.parts) /\ all.width \in Nat /\ all.width = Text!WidthOf(all.parts)
      /\ all.evidence = UNION {p.evidence : p \in Range(all.parts)} /\ opts.limit \in Nat
      /\ (all.parts # << >> => all.width <= opts.limit)
      /\ (all.width = 0 <=> all.parts = << >>)
  BY <1>1 DEF AreTags, Account, FitIn, IsOptions
<1>3. Text!WidthOf(all.parts) <= opts.limit
  BY <1>2
<1>4. ASSUME NEW part, Text!IsRoute(game, key, part), NEW role \in {"from", "to"},
             NEW place \in part.value[role]
      PROVE  Text!PlaceIsAgreed(game, contract, role, place)
  <2>1. part = route
    BY <1>4, Zenon DEF Text!IsRoute
  <2>2. part.value[role] = Text!Names(Text!Shared(game.nested, contract.descs, role))
    BY <2>1 DEF Text!Route
  <2>3. place \in Text!Names(Text!Shared(game.nested, contract.descs, role))
    BY <2>2
  <2>4. AreStrings(game.nested) /\ IsSeq(contract.descs) /\ \A d \in Range(contract.descs) : IsSeq(d)
    BY Zenon DEF IsGame
  <2> HIDE DEF contract
  <2>5. ASSUME NEW d \in Range(contract.descs)
        PROVE  Text!SaysPlace(game.nested, d, place) \/ Text!Endpoints(game.nested, d, role) = << >>
    BY <2>3, <2>4, PlacesAgreed, Zenon
  <2> QED
    BY <2>5, SameLibrary, Zenon DEF Text!PlaceIsAgreed
<1> HIDE DEF title, route
<1>5. title.evidence = contract.evidence \union UNION {p.evidence : p \in Range(title.parts)}
  <2>1. CASE title.parts = all.parts /\ title.evidence = contract.evidence \union all.evidence
    BY <2>1, <1>2
  <2>2. CASE /\ title.parts = all.parts \o << route >>
             /\ title.evidence = (contract.evidence \union all.evidence) \union route.evidence
    <3>1. Range(all.parts \o << route >>) = Range(all.parts) \union {route}
      <4>1. all.parts \o << route >> = Append(all.parts, route)
        <5> DEFINE T == Range(all.parts) \union {route}
        <5>1. all.parts \in Seq(T) /\ route \in T
          BY <1>2, SeqMonotonic DEF IsSeq
        <5> HIDE DEF T
        <5> QED
          BY <5>1, AppendIsConcat
      <4>2. Range(Append(all.parts, route)) = Range(all.parts) \union {route}
        BY <1>2, Appended
      <4> QED
        BY <4>1, <4>2, Zenon
    <3> QED
      BY <2>2, <3>1, <1>2
  <2> QED
    BY <1>1, <2>1, <2>2, Zenon DEF IsTitle
<1>6. Text!WidthOf(IF title.base = None THEN Text!Front(title.parts) ELSE title.parts) <= opts.limit
  <2>1. CASE title.parts = all.parts
    <3>1. Text!WidthOf(Text!Front(all.parts)) \in Nat /\ Text!WidthOf(all.parts) \in Nat
          /\ Text!WidthOf(Text!Front(all.parts)) <= Text!WidthOf(all.parts)
      BY <1>2, FrontIsNarrower, Zenon
    <3>2. Text!WidthOf(Text!Front(all.parts)) <= opts.limit
      BY <3>1, <1>2, <1>3
    <3> QED
      BY <2>1, <3>2, <1>3, Zenon
  <2>2. CASE title.base = None /\ title.parts = all.parts \o << route >>
    <3>1. Text!Front(all.parts \o << route >>) = all.parts
      BY <1>2, FrontOf, Zenon
    <3> QED
      BY <2>2, <3>1, <1>3, Zenon
  <2> QED
    BY <1>1, <2>1, <2>2, Zenon DEF IsTitle
<1>7. opts.limit - (IF key.kind = "title" THEN 0 ELSE 2) = opts.limit
  BY <1>2
<1>8. Text!ToSet(title.parts) = Range(title.parts)
  BY SameLibrary, Zenon
<1>9. \A part \in Text!ToSet(title.parts) :
        IF key.kind # "title" THEN Text!TagIsAgreed(game, key, part)
        ELSE Text!IsRoute(game, key, part) =>
               \A role \in {"from", "to"} : \A place \in part.value[role] :
                 Text!PlaceIsAgreed(game, game.contracts[key], role, place)
  BY <1>4, Zenon
<1> QED
  BY <1>5, <1>6, <1>7, <1>8, <1>9, Zenon DEF Text!ShowsOnlyAgreed, title

-----------------------------------------------------------------------------
(* Names.                                                                   *)

\* The facts that give something this name.
NamedBy(catalog, strings, key) ==
  {f \in catalog : /\ f.name # None /\ Text!ResolveKey(DOMAIN strings, f.name) = key
                   /\ Text!Kind(f) # None /\ key.family \in Text!Families(Text!Kind(f))}

\* Where there is one value, all have it.
LEMMA OneValue ==
  ASSUME NEW S, IsFiniteSet(S), Text!Cardinality(S) = 1
  PROVE  \A x \in S : x = CHOOSE v \in S : TRUE
<1>1. Cardinality(S) = 1
  BY SameLibrary, Zenon
<1>2. PICK x : S = {x}
  BY <1>1, FS_Singleton, Zenon
<1> QED
  BY <1>2, Zenon

\* Facts and the keys of their names.
LEMMA JoinsAre ==
  ASSUME NEW catalog, NEW strings
  PROVE  \A j : j \in Text!Joins(catalog, strings) <=>
           \E f \in catalog :
             /\ j = [fact |-> f, key |-> Text!ResolveKey(DOMAIN strings, f.name)]
             /\ j.key # None /\ f \in NamedBy(catalog, strings, j.key)
<1> TAKE j
<1> DEFINE joined == {[fact |-> f, key |-> Text!ResolveKey(DOMAIN strings, f.name)] :
                        f \in {x \in catalog : Text!Kind(x) # None /\ x.name # None}}
<1>1. j \in Text!Joins(catalog, strings) <=>
        j \in joined /\ j.key # None /\ j.key.family \in Text!Families(Text!Kind(j.fact))
  BY Zenon DEF Text!Joins
<1>2. \A f : [fact |-> f, key |-> Text!ResolveKey(DOMAIN strings, f.name)].fact = f
             /\ [fact |-> f, key |-> Text!ResolveKey(DOMAIN strings, f.name)].key
                  = Text!ResolveKey(DOMAIN strings, f.name)
  OBVIOUS
<1>3. j \in joined <=>
        \E f \in catalog : /\ Text!Kind(f) # None /\ f.name # None
                           /\ j = [fact |-> f, key |-> Text!ResolveKey(DOMAIN strings, f.name)]
  BY Zenon
<1> HIDE DEF joined
<1> QED
  BY <1>1, <1>2, <1>3, Zenon DEF NamedBy

\* An entity has the kind and the attributes of all that its name is given to.
IsEntity(e, catalog, strings, names) ==
  /\ e.key # None /\ strings[e.key] # None
  /\ \A f \in NamedBy(catalog, strings, e.key) : Text!Kind(f) = e.kind
  /\ e.attributes = Text!AttributesOf(NamedBy(catalog, strings, e.key), names)

LEMMA EntitiesAre ==
  ASSUME NEW catalog, IsFiniteSet(catalog), NEW strings, NEW names,
         NEW e \in Text!Entities(catalog, strings, names)
  PROVE  IsEntity(e, catalog, strings, names)
<1> DEFINE joins == Text!Joins(catalog, strings)
           OfKey(key) == {j.fact : j \in {x \in joins : x.key = key}}
           KindsOf(key) == {Text!Kind(f) : f \in OfKey(key)}
           Entity(k) == [key |-> k, kind |-> CHOOSE x \in KindsOf(k) : TRUE,
                         attributes |-> Text!AttributesOf(OfKey(k), names),
                         evidence |-> {<< f.id, "name" >> : f \in OfKey(k)}]
           Keys1 == {j.key : j \in {x \in joins : Text!Cardinality(KindsOf(x.key)) = 1
                                                  /\ strings[x.key] # None}}
<1>1. Text!Entities(catalog, strings, names) = {Entity(k) : k \in Keys1}
  BY Zenon DEF Text!Entities
<1>2. PICK k \in Keys1 : e = Entity(k)
  BY <1>1, Zenon
<1>3. PICK j \in joins : j.key = k /\ Text!Cardinality(KindsOf(k)) = 1 /\ strings[k] # None
  BY <1>2, Zenon
<1>4. k # None
  BY <1>3, JoinsAre, Zenon
<1>5. OfKey(k) = NamedBy(catalog, strings, k)
  <2>1. ASSUME NEW f \in OfKey(k) PROVE f \in NamedBy(catalog, strings, k)
    <3>1. PICK x \in joins : x.key = k /\ f = x.fact
      BY <2>1, Zenon
    <3>2. PICK g \in catalog :
            /\ x = [fact |-> g, key |-> Text!ResolveKey(DOMAIN strings, g.name)]
            /\ g \in NamedBy(catalog, strings, x.key)
      BY <3>1, JoinsAre, Zenon
    <3>3. x.fact = g
      BY <3>2
    <3> QED
      BY <3>1, <3>2, <3>3, Zenon
  <2>2. ASSUME NEW f \in NamedBy(catalog, strings, k) PROVE f \in OfKey(k)
    <3> DEFINE x == [fact |-> f, key |-> Text!ResolveKey(DOMAIN strings, f.name)]
    <3>1. f \in catalog /\ Text!ResolveKey(DOMAIN strings, f.name) = k
      BY <2>2, Zenon DEF NamedBy
    <3>2. x.fact = f /\ x.key = k
      BY <3>1
    <3>3. x \in joins
      BY <2>2, <3>1, <3>2, <1>4, JoinsAre, Zenon
    <3> HIDE DEF x
    <3> QED
      BY <3>2, <3>3, Zenon
  <2> QED
    BY <2>1, <2>2, Zenon
<1>6. IsFiniteSet(KindsOf(k))
  <2> DEFINE F == OfKey(k)
             f == [x \in F |-> Text!Kind(x)]
  <2>1. IsFiniteSet(F)
    <3>1. NamedBy(catalog, strings, k) \subseteq catalog
      BY Zenon DEF NamedBy
    <3> QED
      BY <1>5, <3>1, FS_Subset, Zenon
  <2>2. f \in Surjection(F, {Text!Kind(x) : x \in F})
    <3> HIDE DEF F
    <3> QED
      BY DEF Surjection
  <2> HIDE DEF f, F
  <2>3. IsFiniteSet({Text!Kind(x) : x \in F})
    BY <2>1, <2>2, FS_Surjection, Zenon
  <2> QED
    BY <2>3, Zenon DEF F
<1>7. \A x \in KindsOf(k) : x = CHOOSE v \in KindsOf(k) : TRUE
  <2> HIDE DEF KindsOf
  <2> QED
    BY <1>3, <1>6, OneValue, Zenon
<1>8. e.key = k /\ e.kind = (CHOOSE x \in KindsOf(k) : TRUE)
      /\ e.attributes = Text!AttributesOf(OfKey(k), names)
  <2> HIDE DEF KindsOf, OfKey
  <2> QED
    BY <1>2
<1>9. \A f \in OfKey(k) : Text!Kind(f) = e.kind
  <2>1. \A f \in OfKey(k) : Text!Kind(f) \in KindsOf(k)
    BY Zenon
  <2> HIDE DEF OfKey, KindsOf
  <2> QED
    BY <2>1, <1>7, <1>8, Zenon
<1> HIDE DEF OfKey
<1> QED
  BY <1>3, <1>4, <1>5, <1>8, <1>9, Zenon DEF IsEntity

\* What facts agree on.
LEMMA AttributeAgreed ==
  ASSUME NEW facts, IsFiniteSet(facts), NEW name, Text!Attribute(facts, name) # None
  PROVE  \A f \in facts : name \in DOMAIN f.values /\ f.values[name] = Text!Attribute(facts, name)
<1> DEFINE values == {f.values[name] : f \in facts}
           m == [f \in facts |-> f.values[name]]
<1>1. (\A f \in facts : name \in DOMAIN f.values) /\ Text!Cardinality(values) = 1
      /\ Text!Attribute(facts, name) = CHOOSE v \in values : TRUE
  BY Zenon DEF Text!Attribute
<1>2. m \in Surjection(facts, values)
  BY DEF Surjection
<1>3. \A f \in facts : f.values[name] \in values
  OBVIOUS
<1> HIDE DEF m, values
<1>4. IsFiniteSet(values)
  BY <1>2, FS_Surjection, Zenon
<1>5. \A x \in values : x = CHOOSE v \in values : TRUE
  BY <1>1, <1>4, OneValue, Zenon
<1> QED
  BY <1>1, <1>3, <1>5, Zenon

LEMMA SubtypeAgreed ==
  ASSUME NEW facts, \A f \in facts : IsFiniteSet(f.path), Text!PathSubtype(facts) # None
  PROVE  \A f \in facts : f.path = {Text!PathSubtype(facts)}
<1> TAKE f \in facts
<1> DEFINE labels == UNION {g.path : g \in facts}
<1>1. (\A g, h \in facts : Text!Cardinality(g.path) = 1 /\ g.path = h.path)
      /\ Text!PathSubtype(facts) = CHOOSE l \in labels : TRUE
  BY Zenon DEF Text!PathSubtype
<1>2. labels = f.path
  BY <1>1
<1>3. Cardinality(f.path) = 1
  BY <1>1, SameLibrary, Zenon
<1>4. PICK l : f.path = {l}
  BY <1>3, FS_Singleton, Zenon
<1> QED
  BY <1>1, <1>2, <1>4, Zenon

LEMMA AttributesAgreed ==
  ASSUME NEW facts, IsFiniteSet(facts), \A f \in facts : IsFiniteSet(f.path),
         NEW names, NEW n \in DOMAIN Text!AttributesOf(facts, names)
  PROVE  LET value == Text!AttributesOf(facts, names)[n].value
         IN  \/ \A f \in facts : f.path = {value}
             \/ \A f \in facts : n \in DOMAIN f.values /\ f.values[n] = value
<1> DEFINE value == [m \in names |-> IF m = "subtype" THEN Text!PathSubtype(facts)
                                     ELSE Text!Attribute(facts, m)]
           attributes == [m \in {x \in names : value[x] # None} |->
                            [value |-> value[m], evidence |-> {<< f.id, m >> : f \in facts}]]
<1>1. Text!AttributesOf(facts, names) = attributes
  BY Zenon DEF Text!AttributesOf
<1>2. n \in names /\ value[n] # None
  BY <1>1
<1>3. attributes[n].value = value[n]
  BY <1>2
<1>4. value[n] = IF n = "subtype" THEN Text!PathSubtype(facts) ELSE Text!Attribute(facts, n)
  BY <1>2
<1> HIDE DEF attributes, value
<1>5. CASE n = "subtype"
  <2>1. Text!PathSubtype(facts) = value[n] /\ Text!PathSubtype(facts) # None
    BY <1>2, <1>4, <1>5
  <2>2. \A f \in facts : f.path = {Text!PathSubtype(facts)}
    BY <2>1, SubtypeAgreed, Zenon
  <2> QED
    BY <1>1, <1>3, <2>1, <2>2
<1>6. CASE n # "subtype"
  <2>1. Text!Attribute(facts, n) = value[n] /\ Text!Attribute(facts, n) # None
    BY <1>2, <1>4, <1>6
  <2>2. \A f \in facts : n \in DOMAIN f.values /\ f.values[n] = Text!Attribute(facts, n)
    BY <2>1, AttributeAgreed, Zenon
  <2> QED
    BY <1>1, <1>3, <2>1, <2>2
<1> QED
  BY <1>5, <1>6

\* The parts of a tag are each stated by all that its name is given to.
LEMMA EntityPartsAgree ==
  ASSUME NEW game, IsGame(game), NEW names, NEW e, IsEntity(e, game.catalog, game.strings, names),
         NEW fields, IsSeq(fields)
  PROVE  /\ IsSeq(Text!EntityParts(e, fields))
         /\ \A part \in Range(Text!EntityParts(e, fields)) : Text!TagIsAgreed(game, e.key, part)
<1> DEFINE PartOf(field) ==
             IF field = "kind" THEN [value |-> e.kind, evidence |-> e.evidence]
             ELSE e.attributes[field]
           HasPart(field) ==
             field = "kind" \/ (field \in DOMAIN e.attributes
                                /\ (field = "subtype" => e.attributes[field].value # e.kind))
           P == {i \in DOMAIN fields : HasPart(fields[i])}
           shown == Selected(fields, P)
           parts == [i \in DOMAIN shown |-> PartOf(shown[i])]
           facts == NamedBy(game.catalog, game.strings, e.key)
<1>1. Text!EntityParts(e, fields) = parts
  <2>1. [i \in DOMAIN fields |-> IF HasPart(fields[i]) THEN << fields[i] >> ELSE << >>]
          = [i \in DOMAIN fields |-> IF i \in P THEN << fields[i] >> ELSE << >>]
    BY Zenon
  <2>2. shown = Text!Only(fields, HasPart)
    BY <2>1, Zenon DEF Text!Only, Selected
  <2> HIDE DEF P, shown
  <2> QED
    BY <2>2, Zenon DEF Text!EntityParts
<1>2. \A x \in {fields[i] : i \in P \intersect DOMAIN fields} : HasPart(x)
  BY Zenon
<1>3. parts = [i \in DOMAIN shown |-> parts[i]]
  BY Zenon
<1>4. \A i \in DOMAIN shown : parts[i] = PartOf(shown[i])
  BY Zenon
<1> HIDE DEF P, parts, HasPart, PartOf
<1>5. IsSeq(shown) /\ Range(shown) = {fields[i] : i \in P \intersect DOMAIN fields}
  BY Selects, Zenon
<1> HIDE DEF shown
<1>6. IsSeq(parts) /\ DOMAIN parts = DOMAIN shown
  BY <1>3, <1>5, SequenceOf, Zenon
<1>7. IsFiniteSet(facts) /\ \A f \in facts : IsFiniteSet(f.path)
  <2>1. facts \subseteq game.catalog
    BY Zenon DEF NamedBy
  <2> HIDE DEF facts
  <2>2. IsFiniteSet(game.catalog) /\ \A f \in game.catalog : IsFiniteSet(f.path)
    BY Zenon DEF IsGame
  <2>3. IsFiniteSet(facts)
    BY <2>1, <2>2, FS_Subset, Zenon
  <2> QED
    BY <2>1, <2>2, <2>3, Zenon
<1>8. ASSUME NEW part
      PROVE  Text!TagIsAgreed(game, e.key, part) <=>
               \/ \A f \in facts : Text!Kind(f) = part.value
               \/ \A f \in facts : f.path = {part.value}
               \/ \E n \in UNION {DOMAIN f.values : f \in facts} :
                    \A f \in facts : n \in DOMAIN f.values /\ f.values[n] = part.value
  BY Zenon DEF Text!TagIsAgreed, NamedBy
<1> HIDE DEF facts
<1>9. ASSUME NEW field, HasPart(field) PROVE Text!TagIsAgreed(game, e.key, PartOf(field))
  <2>1. CASE field = "kind"
    <3>1. PartOf(field).value = e.kind
      BY <2>1 DEF PartOf
    <3>2. \A f \in facts : Text!Kind(f) = e.kind
      BY Zenon DEF IsEntity, facts
    <3> QED
      BY <3>1, <3>2, <1>8, Zenon
  <2>2. CASE field # "kind"
    <3>1. PartOf(field) = e.attributes[field] /\ field \in DOMAIN e.attributes
      BY <1>9, <2>2 DEF PartOf, HasPart
    <3>2. e.attributes = Text!AttributesOf(facts, names)
      BY Zenon DEF IsEntity, facts
    <3>3. \/ \A f \in facts : f.path = {PartOf(field).value}
          \/ \A f \in facts : field \in DOMAIN f.values /\ f.values[field] = PartOf(field).value
      BY <1>7, <3>1, <3>2, AttributesAgreed
    <3>4. ASSUME \A f \in facts : field \in DOMAIN f.values /\ f.values[field] = PartOf(field).value
          PROVE  Text!TagIsAgreed(game, e.key, PartOf(field))
      <4>1. CASE facts = {}
        BY <4>1, <1>8, Zenon
      <4>2. CASE facts # {}
        <5>1. field \in UNION {DOMAIN f.values : f \in facts}
          BY <3>4, <4>2
        <5> QED
          BY <3>4, <5>1, <1>8, Zenon
      <4> QED
        BY <4>1, <4>2
    <3> QED
      BY <3>3, <3>4, <1>8, Zenon
  <2> QED
    BY <2>1, <2>2
<1>10. ASSUME NEW part \in Range(parts) PROVE Text!TagIsAgreed(game, e.key, part)
  <2>1. PICK i \in DOMAIN shown : part = PartOf(shown[i])
    BY <1>4, <1>6, Zenon DEF Range
  <2>2. HasPart(shown[i])
    BY <1>2, <1>5, Zenon DEF Range
  <2> QED
    BY <1>9, <2>1, <2>2, Zenon
<1> QED
  BY <1>1, <1>6, <1>10, Zenon

\* A name shows what is agreed on.
LEMMA NameShows ==
  ASSUME PartsAreWide, NEW game, IsGame(game), NEW opts, IsOptions(opts), NEW names,
         NEW e, IsEntity(e, game.catalog, game.strings, names), e.key \notin DOMAIN game.contracts,
         NEW text, text.base = game.strings[e.key],
         text.parts = Text!EntityTag(e, opts).parts, text.parts # << >>,
         text.evidence = Text!EntityTag(e, opts).evidence
  PROVE  Text!ShowsOnlyAgreed(game, opts, e.key, text, {})
<1> DEFINE parts == Text!EntityParts(e, opts.entityFields)
           limit == opts.limit - 2
           tags == Text!FittedAll(parts, limit)
<1>1. limit \in Int /\ opts.limit \in Nat /\ IsSeq(opts.entityFields)
  BY DEF IsOptions
<1>2. text.parts = tags.parts /\ text.evidence = tags.evidence
  <2>1. Text!Tags.parts = << >>
    BY DEF Text!Tags
  <2> QED
    BY <2>1, Zenon DEF Text!EntityTag
<1>3. IsSeq(parts) /\ \A part \in Range(parts) : Text!TagIsAgreed(game, e.key, part)
  BY <1>1, EntityPartsAgree, Zenon
<1> HIDE DEF parts
<1>4. AreTags(tags, limit) /\ Range(tags.parts) \subseteq Range(parts)
  BY <1>1, <1>3, TryingAllFits, Zenon
<1> HIDE DEF tags
<1>5. text.evidence = {} \union UNION {p.evidence : p \in Range(text.parts)}
  BY <1>2, <1>4 DEF AreTags, Account
<1>6. Text!WidthOf(text.parts) <= opts.limit - IF e.key.kind = "title" THEN 0 ELSE 2
  <2>1. Text!WidthOf(text.parts) \in Nat /\ Text!WidthOf(text.parts) <= limit
    BY <1>2, <1>4 DEF AreTags, Account, FitIn
  <2> QED
    BY <1>1, <2>1
<1>7. text.base # None
  BY Zenon DEF IsEntity
<1>8. Text!ToSet(text.parts) = Range(text.parts)
  BY SameLibrary, Zenon
<1>9. \A part : ~ Text!IsRoute(game, e.key, part)
  BY Zenon DEF Text!IsRoute
<1>10. \A part \in Text!ToSet(text.parts) : Text!TagIsAgreed(game, e.key, part)
  BY <1>2, <1>3, <1>4, <1>8, Zenon
<1> QED
  BY <1>5, <1>6, <1>7, <1>8, <1>9, <1>10, Zenon DEF Text!ShowsOnlyAgreed

-----------------------------------------------------------------------------
(* The rendered texts.                                                      *)

\* A text is the earlier one of its key, or a new one.
LEMMA EmittedIs ==
  ASSUME NEW result, NEW texts
  PROVE  /\ \A key \in DOMAIN Text!Emitted(result, texts).values :
              IF key \in DOMAIN result.values
              THEN Text!Emitted(result, texts).values[key] = result.values[key]
              ELSE /\ key \in DOMAIN texts /\ texts[key].base # Broken
                   /\ Text!Emitted(result, texts).values[key] = texts[key]
         /\ \A key \in DOMAIN texts :
              texts[key].base # Broken => key \in DOMAIN Text!Emitted(result, texts).values
<1> DEFINE earlier == DOMAIN result.values
           new == {key \in DOMAIN texts \ earlier : texts[key].base # Broken}
           values == [key \in earlier \union new |->
                        IF key \in earlier THEN result.values[key] ELSE texts[key]]
<1>1. Text!Emitted(result, texts).values = values
  BY DEF Text!Emitted
<1> QED
  BY <1>1

\* The texts of a build show what is agreed on.
THEOREM OnlyTheAgreedIsRendered ==
  ASSUME PartsAreWide
  PROVE  \A game, opts : IsGame(game) /\ IsOptions(opts) => Text!OnlyAgreedIsShown(game, opts)
<1> SUFFICES ASSUME NEW game, IsGame(game), NEW opts, IsOptions(opts)
             PROVE  Text!OnlyAgreedIsShown(game, opts)
  OBVIOUS
<1> DEFINE ofContracts ==
             [key \in DOMAIN game.contracts |->
                IF key.kind = "title"
                THEN Text!Title(game.nested, game.contracts[key], game.strings[key], opts)
                ELSE Text!Description(game.contracts[key], game.strings[key])]
           names == Text!ToSet(opts.entityFields) \ {"kind"}
           entities == Text!Entities(game.catalog, game.strings, names)
           tagged == {e \in entities : Text!EntityTag(e, opts).parts # << >>}
           TextOf(key, e) == [base |-> game.strings[key], parts |-> Text!EntityTag(e, opts).parts,
                              evidence |-> Text!EntityTag(e, opts).evidence]
           ofEntities == [key \in {e.key : e \in tagged} |->
                            TextOf(key, CHOOSE x \in tagged : x.key = key)]
           ofLegacy == IF opts.legacy THEN Text!LegacyTexts(game.strings, game.build, game.rules)
                       ELSE << >>
           none == [values |-> << >>, skipped |-> {}]
           first == Text!Emitted(none, ofContracts)
           second == Text!Emitted(first, ofEntities)
           last == Text!Emitted(second, ofLegacy)
           own(key) == IF key \in DOMAIN game.contracts THEN game.contracts[key].evidence ELSE {}
<1>1. Text!RenderAll(game, opts) = last
  BY Zenon DEF Text!RenderAll
<1>2. DOMAIN none.values = {}
  OBVIOUS
<1>3. \A key \in DOMAIN ofLegacy : key \in {r.key : r \in game.rules}
  <2>1. DOMAIN Text!LegacyTexts(game.strings, game.build, game.rules) \subseteq {r.key : r \in game.rules}
    BY DEF Text!LegacyTexts
  <2> QED
    BY <2>1
<1>4. DOMAIN ofContracts = DOMAIN game.contracts
      /\ \A key \in DOMAIN ofContracts : key.kind = "title" =>
           ofContracts[key] = Text!Title(game.nested, game.contracts[key], game.strings[key], opts)
  BY Zenon
<1>5. ASSUME NEW key \in DOMAIN ofEntities
      PROVE  \E e \in tagged : e.key = key /\ ofEntities[key] = TextOf(key, e)
  BY Zenon
<1>6. \A key, e : /\ TextOf(key, e).base = game.strings[key]
                  /\ TextOf(key, e).parts = Text!EntityTag(e, opts).parts
                  /\ TextOf(key, e).evidence = Text!EntityTag(e, opts).evidence
  OBVIOUS
<1>7. \A e \in tagged : IsEntity(e, game.catalog, game.strings, names)
                        /\ Text!EntityTag(e, opts).parts # << >>
  <2>1. IsFiniteSet(game.catalog)
    BY Zenon DEF IsGame
  <2> QED
    BY <2>1, EntitiesAre, Zenon
<1> HIDE DEF ofContracts, names, entities, tagged, TextOf, ofEntities, ofLegacy, none
<1>8. ASSUME NEW key \in DOMAIN last.values, key.kind # "desc", key \notin {r.key : r \in game.rules}
      PROVE  Text!ShowsOnlyAgreed(game, opts, key, last.values[key], own(key))
  <2>1. key \in DOMAIN second.values /\ last.values[key] = second.values[key]
    BY <1>3, <1>8, EmittedIs
  <2> HIDE DEF last
  <2>2. CASE key \in DOMAIN first.values
    <3>1. second.values[key] = first.values[key]
      BY <2>1, <2>2, EmittedIs
    <3> HIDE DEF second
    <3>2. key \in DOMAIN ofContracts /\ first.values[key] = ofContracts[key]
      BY <1>2, <2>2, EmittedIs
    <3> HIDE DEF first
    <3>3. key \in DOMAIN game.contracts /\ key.kind = "title"
      BY <1>4, <1>8, <3>2, Zenon DEF IsGame
    <3>4. last.values[key] = Text!Title(game.nested, game.contracts[key], game.strings[key], opts)
      BY <1>4, <2>1, <3>1, <3>2, <3>3, Zenon
    <3>5. own(key) = game.contracts[key].evidence
      BY <3>3, Zenon
    <3> QED
      BY <3>3, <3>4, <3>5, TitleShows, Zenon
  <2>3. CASE key \notin DOMAIN first.values
    <3>1. key \in DOMAIN ofEntities /\ ofEntities[key].base # Broken /\ second.values[key] = ofEntities[key]
      BY <2>1, <2>3, EmittedIs
    <3>2. PICK e \in tagged : e.key = key /\ ofEntities[key] = TextOf(key, e)
      BY <1>5, <3>1, Zenon
    <3>3. game.strings[key] # Broken
      BY <1>6, <3>1, <3>2, Zenon
    <3>4. key \notin DOMAIN game.contracts
      <4> SUFFICES ASSUME key \in DOMAIN game.contracts PROVE FALSE
        OBVIOUS
      <4>1. key.kind = "title"
        BY <1>8, Zenon DEF IsGame
      <4>2. ofContracts[key].base = Broken
        BY <1>4, <2>3, EmittedIs
      <4>3. ofContracts[key] = Text!Title(game.nested, game.contracts[key], game.strings[key], opts)
        BY <1>4, <4>1, Zenon
      <4>4. ofContracts[key].base = None \/ ofContracts[key].base = game.strings[key]
        <5> DEFINE c == game.contracts[key]
        <5> HIDE DEF c, ofContracts
        <5>1. PICK all : IsTitle(Text!Title(game.nested, c, game.strings[key], opts), all, c,
                                 game.strings[key], Text!Route(game.nested, c))
          BY TitleIs
        <5> QED
          BY <4>3, <5>1, Zenon DEF IsTitle, c
      <4> QED
        BY <3>3, <4>2, <4>4, NoTextIsBroken, Zenon
    <3>5. own(key) = {}
      BY <3>4, Zenon
    <3>6. last.values[key] = TextOf(key, e)
      BY <2>1, <3>1, <3>2, Zenon
    <3> QED
      BY <1>6, <1>7, <3>2, <3>4, <3>5, <3>6, NameShows, Zenon
  <2> QED
    BY <2>2, <2>3
<1> QED
  BY <1>1, <1>8, Zenon DEF Text!OnlyAgreedIsShown

-----------------------------------------------------------------------------
(* The run reads the samples it starts with, and no others.                *)

\* Sequences of none, one and two.
LEMMA ShortSequences ==
  /\ \A s : s = << >> => s \in Seq(ToSet(s))
  /\ \A s, f : s = << f >> => s \in Seq(ToSet(s)) /\ ToSet(s) = {f}
  /\ \A s, f, g : s = << f, g >> => s \in Seq(ToSet(s)) /\ ToSet(s) = {f, g}
<1>1. \A s : s = << >> => s \in Seq(ToSet(s))
  BY DEF ToSet
<1>2. ASSUME NEW s, NEW f, s = << f >>
      PROVE  s \in Seq(ToSet(s)) /\ ToSet(s) = {f}
  BY <1>2 DEF ToSet
<1>3. ASSUME NEW s, NEW f, NEW g, s = << f, g >>
      PROVE  s \in Seq(ToSet(s)) /\ ToSet(s) = {f, g}
  <2>1. DOMAIN s = 1..2 /\ s[1] = f /\ s[2] = g
    BY <1>3
  <2>2. ToSet(s) = {f, g}
    BY <2>1 DEF ToSet
  <2>3. s \in Seq({f, g})
    BY <1>3
  <2> QED
    BY <2>2, <2>3
<1> QED
  BY <1>1, <1>2, <1>3

\* The contracts and records of the run are some a build may have.
LEMMA ReadingsAreBuilds ==
  \A reading \in Readings : IsBuild(reading.build, reading.authored)
<1> SUFFICES ASSUME NEW reading \in Readings PROVE IsBuild(reading.build, reading.authored)
  OBVIOUS
<1> DEFINE build == reading.build
           keys == {aTitle, aDesc, aMore, bDesc, bPlain}
           authored == {<< >>, [k \in {aMore} |-> "prose"], [k \in {aMore, bDesc} |-> "prose"]}
<1>1. /\ build.strings \in StringSets /\ build.facts \in MissionSets
      /\ reading.authored \in authored
  <2>1. reading \in [build : [records : {"readable", "corrupt"}, strings : StringSets,
                              facts : MissionSets, tactical : {<< >>}],
                     authored : authored]
    BY DEF Readings
  <2> HIDE DEF authored
  <2> QED
    BY <2>1
<1>2. \A k \in keys : IsName(k)
  <2>1. \A stem \in Nat, upper \in BOOLEAN, kind \in {"title", "desc", Unstated}, n \in Nat :
          IsName(Key(stem, upper, kind, n))
    BY DEF IsName, Key
  <2>2. IsName(aTitle) /\ IsName(aDesc) /\ IsName(aMore) /\ IsName(bDesc) /\ IsName(bPlain)
    BY <2>1 DEF aTitle, aDesc, aMore, bDesc, bPlain
  <2> QED
    BY <2>2
<1>3. DOMAIN build.strings \subseteq keys
  <2>1. ASSUME NEW s \in StringSets PROVE DOMAIN s \subseteq keys
    <3>1. PICK K \in SUBSET keys : DOMAIN s = K
      BY DEF StringSets
    <3> QED
      BY <3>1
  <2> QED
    BY <1>1, <2>1
<1>4. DOMAIN reading.authored \subseteq keys
  <2>1. DOMAIN << >> = {}
    OBVIOUS
  <2>2. \A f \in authored : DOMAIN f \subseteq keys
    BY <2>1
  <2> HIDE DEF authored, keys
  <2> QED
    BY <1>1, <2>2
<1>5. build.facts \in Seq(ToSet(build.facts))
  <2>1. \/ build.facts = << >>
        \/ \E f : build.facts = << f >>
        \/ \E f, g : build.facts = << f, g >>
    <3>1. build.facts \in MissionSets
      BY <1>1
    <3> HIDE DEF build
    <3> QED
      BY <3>1, SMT DEF MissionSets
  <2> QED
    BY <2>1, ShortSequences, Zenon
<1> HIDE DEF keys, authored
<1>6. \A k \in DOMAIN build.strings \union DOMAIN reading.authored : IsName(k)
  BY <1>2, <1>3, <1>4
<1> QED
  BY <1>5, <1>6, Zenon DEF IsBuild

\* What its providers return is what providers return.
LEMMA FindingsAreFindings == \A results \in Findings : AreFindings(results)
<1> SUFFICES ASSUME NEW results \in Findings PROVE AreFindings(results)
  OBVIOUS
<1>1. ASSUME NEW id, NEW values, NEW f \in FactsOf(id, values)
      PROVE  /\ f.details \in Seq(ToSet(f.details))
             /\ \A d \in ToSet(f.details) : d.confidence \in Nat
  <2>1. PICK v \in values, c \in 1..2, t \in {Unstated, aTitle, bDesc} : f.details = << Detail(v, c, id, t) >>
    BY DEF FactsOf
  <2>2. Detail(v, c, id, t).confidence \in Nat
    BY DEF Detail
  <2> QED
    BY <2>1, <2>2, ShortSequences
<1>2. PICK f \in FactsOf(1, {1}), g \in FactsOf(2, 1..2), h \in FactsOf(3, 1..2) :
        results = << [provider |-> "one", facts |-> << f, g >>], [provider |-> "two", facts |-> << h >>] >>
  BY DEF Findings
<1> DEFINE r == [provider |-> "one", facts |-> << f, g >>]
           q == [provider |-> "two", facts |-> << h >>]
<1>3. r.facts = << f, g >> /\ q.facts = << h >>
  OBVIOUS
<1> HIDE DEF r, q
<1>4. AFinding(r) /\ AFinding(q)
  BY <1>1, <1>3, ShortSequences DEF AFinding
<1>5. results \in Seq(ToSet(results)) /\ ToSet(results) = {r, q}
  <2>1. results = << r, q >>
    BY <1>2, Zenon DEF r, q
  <2> QED
    BY <2>1, ShortSequences
<1> QED
  BY <1>4, <1>5 DEF AreFindings

\* The offers of the run are a sequence.
LEMMA OffersAreSequences ==
  \A offers \in Offers : WithSources(offers) \in Seq(ToSet(WithSources(offers)))
<1> SUFFICES ASSUME NEW offers \in Offers
             PROVE  WithSources(offers) \in Seq(ToSet(WithSources(offers)))
  OBVIOUS
<1> DEFINE Items == [id : {Unknown, game1, game2}, name : {"name", "NAME", "other"}]
           s == WithSources(offers)
           offer(i) == [id |-> offers[i].id, name |-> offers[i].name, source |-> i,
                        attribute |-> Unknown]
<1>1. PICK n \in Nat : DOMAIN offers = 1..n
  <2>1. \/ offers \in [1..3 -> Items]
        \/ \E items \in [1..3 -> Items] : offers = << [id |-> game1, name |-> "name"] >> \o items
    BY Zenon DEF Offers
  <2> HIDE DEF Items
  <2>2. CASE offers \in [1..3 -> Items]
    BY <2>2
  <2>3. ASSUME NEW items \in [1..3 -> Items], NEW first, offers = << first >> \o items
        PROVE  \E n \in Nat : DOMAIN offers = 1..n
    <3> DEFINE V == Items \union {first}
    <3>1. items \in Seq(V)
      <4>1. items \in [1..3 -> V]
        OBVIOUS
      <4> QED
        BY <4>1, FunctionIsSeq
    <3>2. << first >> \in Seq(V)
      OBVIOUS
    <3>3. offers \in Seq(V)
      BY <3>1, <3>2, <2>3, ConcatProperties
    <3> QED
      BY <3>3, LenProperties
  <2> QED
    BY <2>1, <2>2, <2>3
<1>2. s = [i \in 1..n |-> offer(i)]
  BY <1>1 DEF WithSources
<1> HIDE DEF s, offer
<1>3. s \in [1..n -> ToSet(s)]
  BY <1>2 DEF ToSet
<1> QED
  BY <1>3, FunctionIsSeq DEF s

\* The updates of the run are updates.
IsUpdate(stock, override, generated, user, rules) ==
  /\ stock \in Tables /\ override \in Tables \union {Absent}
  /\ IsLayer(generated) /\ IsLayer(user)
  /\ rules.removals \in SUBSET KeyNames /\ IsFiniteSet(rules.removals)

LEMMA UpdatesAreUpdates ==
  \A s \in Updates : IsUpdate(s.stock, s.override, s.generated, s.user, s.rules)
<1> USE DEF Line
<1>1. {one, ones, two, three} \subseteq KeyNames
  BY DEF one, ones, two, three, KeyNames
<1>2. {"stock", "other", "generated", "user", Broken} \subseteq EntryTexts
  BY SampleAssumption DEF AnyText
<1>3. \A k, l \in KeyNames, v, w \in EntryTexts :
        << Line(k, v) >> \in Tables /\ << Line(k, v), Line(l, w) >> \in Tables
  BY DEF Tables
<1>4. Stocks \subseteq Tables
  BY <1>1, <1>2, <1>3 DEF Stocks
<1>5. Overrides \subseteq Tables \union {Absent}
  <2>0. \A k \in {one, ones, two, three} : k \in KeyNames
    BY <1>1
  <2>a. \A v \in {"stock", "other", "generated", "user"} : v \in EntryTexts
    BY <1>2
  <2> HIDE DEF Line
  <2>1. \A k, l \in {one, ones, two, three}, v, w \in {"stock", "other", "generated", "user"} :
          << Line(k, v) >> \in Tables /\ << Line(k, v), Line(l, w) >> \in Tables
    BY <2>0, <2>a, <1>3, Zenon
  <2> DEFINE any == {<< Line(ones, v), Line(two, "generated") >> : v \in {"stock", "generated"}}
  <2>2. any \subseteq Tables
    BY <2>1
  <2>3. << Line(ones, "other") >> \in Tables /\ << Line(two, "other"), Line(two, "stock") >> \in Tables
        /\ << Line(two, "other"), Line(three, "other") >> \in Tables
    BY <2>1
  <2>4. Overrides =
          {Absent, << Line(ones, "other") >>, << Line(two, "other"), Line(two, "stock") >>,
           << Line(two, "other"), Line(three, "other") >>} \union any
    BY Zenon DEF Overrides
  <2> HIDE DEF any
  <2> QED
    BY <2>2, <2>3, <2>4, Zenon
<1>6. IsFiniteSet({one, ones, two, three})
  <2>1. \A S, x : IsFiniteSet(S) => IsFiniteSet(S \union {x})
    BY FS_AddElement, Zenon
  <2>2. IsFiniteSet(({one} \union {ones}) \union {two} \union {three})
    BY <2>1, FS_Singleton, Zenon
  <2>3. {one, ones, two, three} = ({one} \union {ones}) \union {two} \union {three}
    OBVIOUS
  <2> QED
    BY <2>2, <2>3
<1>7. ASSUME NEW K \in SUBSET {one, ones, two, three}, NEW f \in [K -> EntryTexts] PROVE IsLayer(f)
  <2>1. IsFiniteSet(K) /\ K \subseteq KeyNames /\ DOMAIN f = K
    BY <1>1, <1>6, FS_Subset
  <2> QED
    BY <2>1 DEF IsLayer
<1>8. ASSUME NEW f \in Generated PROVE IsLayer(f)
  <2>1. CASE \E K \in SUBSET {one, two} : f \in [K -> {"generated", "stock"}]
    <3>1. PICK K \in SUBSET {one, two} : f \in [K -> {"generated", "stock"}]
      BY <2>1
    <3>2. K \in SUBSET {one, ones, two, three} /\ f \in [K -> EntryTexts]
      BY <3>1, <1>2
    <3> QED
      BY <3>2, <1>7
  <2>2. CASE f = [k \in {ones} |-> "generated"] \/ f = [k \in {two} |-> Broken]
    <3>1. \E K \in SUBSET {one, ones, two, three} : f \in [K -> EntryTexts]
      BY <2>2, <1>2
    <3> QED
      BY <3>1, <1>7
  <2>3. f \in (UNION {[K -> {"generated", "stock"}] : K \in SUBSET {one, two}})
               \union {[k \in {ones} |-> "generated"], [k \in {two} |-> Broken]}
    BY Zenon DEF Generated
  <2> QED
    BY <2>1, <2>2, <2>3
<1>9. ASSUME NEW f \in Authored PROVE IsLayer(f)
  <2>1. PICK K \in SUBSET {one, two, three} : \E v \in {"user", "stock"} : f = [k \in K |-> v]
    BY DEF Authored
  <2>2. K \in SUBSET {one, ones, two, three} /\ f \in [K -> EntryTexts]
    BY <2>1, <1>2
  <2> QED
    BY <2>2, <1>7
<1> DEFINE R == {[mayAdd |-> {}, removals |-> {}, mayRemove |-> {}],
                 [mayAdd |-> {three}, removals |-> {}, mayRemove |-> {three}],
                 [mayAdd |-> {three}, removals |-> {three}, mayRemove |-> {three}],
                 [mayAdd |-> {}, removals |-> {two}, mayRemove |-> {}],
                 [mayAdd |-> {}, removals |-> {one}, mayRemove |-> {one}]}
<1>10. \A rules \in R : rules.removals \in SUBSET {one, ones, two, three}
  OBVIOUS
<1>11. \A s \in Updates : /\ s.stock \in Stocks /\ s.override \in Overrides
                          /\ s.generated \in Generated /\ s.user \in Authored /\ s.rules \in R
  BY DEF Updates
<1> HIDE DEF R
<1>12. \A rules \in R : rules.removals \in SUBSET KeyNames /\ IsFiniteSet(rules.removals)
  BY <1>1, <1>6, <1>10, FS_Subset
<1> QED
  BY <1>4, <1>5, <1>8, <1>9, <1>11, <1>12 DEF IsUpdate

\* The names and titles of the run are some a build may have.
LEMMA SamplesAreGames == \A s \in Names \union Titled : IsGame(s.game) /\ IsOptions(s.opts)
<1>1. /\ IsSeq(<< >>) /\ Range(<< >>) = {}
      /\ \A a : IsSeq(<< a >>) /\ Range(<< a >>) = {a}
      /\ \A a, b : IsSeq(<< a, b >>) /\ Range(<< a, b >>) = {a, b}
  <2>1. \A s : ToSet(s) = Range(s)
    BY RangeIsSet
  <2> QED
    BY <2>1, ShortSequences DEF IsSeq, Range
<1>2. ASSUME NEW limit \in Nat, NEW routes PROVE IsOptions(Options(limit, routes))
  <2>1. IsSeq(<< "kind", "size", "grade", "subtype" >>)
    BY DEF IsSeq, Range
  <2> QED
    BY <1>1, <2>1 DEF IsOptions, Options
<1>3. \A r \in RecordsOf(1) \union RecordsOf(2) : IsFiniteSet(r.path)
  <2>1. \A r \in RecordsOf(1) \union RecordsOf(2) :
          r.path = {long} \/ r.path = {short, long} \/ r.path = {}
    BY DEF RecordsOf
  <2>2. IsFiniteSet({long}) /\ IsFiniteSet({short, long}) /\ IsFiniteSet({})
    BY FS_EmptySet, FS_Singleton, FS_AddElement
  <2> QED
    BY <2>1, <2>2
<1>4. ASSUME NEW s \in Names PROVE IsGame(s.game) /\ IsOptions(s.opts)
  <2>1. PICK r \in RecordsOf(1), t \in RecordsOf(2), limit \in {7, 10} :
          /\ s.game.contracts = << >> /\ s.game.nested = << >> /\ s.game.catalog = {r, t}
          /\ s.opts = Options(limit, "off")
    BY DEF Names
  <2>2. IsOptions(s.opts)
    BY <1>2, <2>1
  <2>3. IsFiniteSet({r, t})
    <3>1. IsFiniteSet({r}) /\ {r, t} = {r} \union {t}
      BY FS_Singleton, Zenon
    <3> QED
      BY <3>1, FS_AddElement, Zenon
  <2>4. AreStrings(<< >>)
    BY DEF AreStrings
  <2> QED
    BY <1>3, <2>1, <2>2, <2>3, <2>4 DEF IsGame
<1>5. \A d \in Descriptions : IsSeq(d)
  <2>1. \A d \in Descriptions : d = << >> \/ (\E a : d = << a >>) \/ (\E a, b : d = << a, b >>)
    BY DEF Descriptions
  <2>2. IsSeq(<< >>) /\ (\A a : IsSeq(<< a >>)) /\ \A a, b : IsSeq(<< a, b >>)
    BY <1>1
  <2> QED
    BY <2>1, <2>2, Zenon
<1>6. \A r \in NestedTexts : IsSeq(r) /\ \A v \in Range(r) : IsSeq(v)
  <2>1. ASSUME NEW r \in NestedTexts
        PROVE  r = << >> \/ \E a, b \in Descriptions : r = << a >> \/ r = << a, b >>
    <3>1. << Here >> \in Descriptions
      BY DEF Descriptions
    <3> HIDE DEF Descriptions
    <3> QED
      BY <3>1 DEF NestedTexts
  <2>2. \A a, b \in Descriptions : \A v \in {a, b} : IsSeq(v)
    BY <1>5, Zenon
  <2> QED
    BY <1>1, <2>1, <2>2
<1>7. ASSUME NEW s \in Titled PROVE IsGame(s.game) /\ IsOptions(s.opts)
  <2>0. /\ << Here, There >> \in Descriptions
        /\ << >> \in TitleDetails /\ \A a \in Descriptions : << a >> \in NestedTexts
    BY DEF Descriptions, NestedTexts, TitleDetails
  <2>9. PICK d \in TitleDetails, m \in BOOLEAN, x \in Descriptions, y \in Descriptions,
             r \in NestedTexts, limit \in {4, 8, 11}, routes \in {"append", "replace"} :
          s = TitledBy(d, m, x, y, r, limit, routes)
    <3> HIDE DEF TitleDetails, Descriptions, NestedTexts
    <3>1. CASE \E scan \in BOOLEAN : \E x, y \in Descriptions : \E r \in NestedTexts :
                 \E routes \in {"append", "replace"} :
                   s = TitledBy(<< >>, scan, x, y, r, 11, routes)
      BY <2>0, <3>1
    <3>2. CASE \E d \in TitleDetails : \E scan \in BOOLEAN : \E x, y \in Descriptions :
                 \E limit \in {4, 8, 11} : \E routes \in {"append", "replace"} :
                   s = TitledBy(d, scan, x, y, << << Here, There >> >>, limit, routes)
      BY <2>0, <3>2
    <3> QED
      BY <3>1, <3>2 DEF Titled
  <2>1. s = [game |-> [contracts |-> [k \in {aName, aProse} |->
                         [details |-> d, haul |-> TRUE, scan |-> m, descs |-> << x, y >>,
                          evidence |-> {<< 0, "contract" >>}]],
                       nested |-> [n \in {"route"} |-> r],
                       catalog |-> {}, build |-> 2, rules |-> {},
                       strings |-> [k \in {aName, aProse} |-> "stock"]],
             opts |-> Options(limit, routes)]
    BY <2>9, Zenon DEF TitledBy
  <2> DEFINE contract == [details |-> d, haul |-> TRUE, scan |-> m, descs |-> << x, y >>,
                          evidence |-> {<< 0, "contract" >>}]
             titled == [k \in {aName, aProse} |-> contract]
             nested == [n \in {"route"} |-> r]
  <2>8. s.game.contracts = titled /\ s.game.nested = nested /\ s.game.catalog = {}
        /\ s.opts = Options(limit, routes)
    <3> DEFINE strings == [k \in {aName, aProse} |-> "stock"]
    <3>1. s = [game |-> [contracts |-> titled, nested |-> nested, catalog |-> {},
                         build |-> 2, rules |-> {}, strings |-> strings],
               opts |-> Options(limit, routes)]
      BY <2>1
    <3> HIDE DEF titled, nested, strings
    <3> QED
      BY <3>1
  <2>2. IsOptions(s.opts)
    BY <1>2, <2>8
  <2>3. AreStrings(s.game.nested)
    BY <1>6, <2>8 DEF AreStrings
  <2>4. DOMAIN s.game.contracts = {aName, aProse}
        /\ \A k \in {aName, aProse} : s.game.contracts[k].descs = << x, y >>
    BY <2>8
  <2>5. aName.kind = "title" /\ aProse.kind = "desc"
    BY DEF aName, aProse, Name
  <2>6. IsSeq(<< x, y >>) /\ \A v \in Range(<< x, y >>) : IsSeq(v)
    BY <1>1, <1>5
  <2>7. IsFiniteSet(s.game.catalog) /\ \A f \in s.game.catalog : IsFiniteSet(f.path)
    BY <2>8, FS_EmptySet
  <2> QED
    BY <2>2, <2>3, <2>4, <2>5, <2>6, <2>7 DEF IsGame
<1> QED
  BY <1>4, <1>7, Zenon

\* The run keeps to what it starts with.
SampleInv ==
  /\ subject = "reading" => sample \in Readings
  /\ subject = "details" => sample \in Findings
  /\ subject = "blueprints" => sample.offers \in Offers
  /\ subject = "text" => sample \in Updates
  /\ subject = "names" => sample \in Names
  /\ subject = "titles" => sample \in Titled

\* It stays with its sample.
LEMMA SamplesStay == UpdateSpec => []SampleInv
<1>1. UpdateInit => SampleInv
  BY DEF UpdateInit, SampleInv
<1>2. SampleInv /\ [UpdateNext]_updateVars => SampleInv'
  BY DEF UpdateNext, updateVars, SampleInv
<1> QED
  BY <1>1, <1>2, PTL DEF UpdateSpec, updateVars

\* Whatever a build has, the strings a record refers to are found in one
\* contract or in none.
THEOREM RecordsAreKeptTogether == UpdateSpec => []FactsStayTogether
<1>1. SampleInv => FactsStayTogether
  BY ReadingsAreBuilds, RecordsStayTogether, Zenon DEF SampleInv, FactsStayTogether
<1> QED
  BY <1>1, SamplesStay, PTL

\* Whatever providers return, a contract is shown what they agree on.
THEOREM ShownDetailsAgree == UpdateSpec => []DetailsAgree
<1>1. SampleInv => DetailsAgree
  BY FindingsAreFindings, DetailsAgreeAlways, Zenon DEF SampleInv, DetailsAgree
<1> QED
  BY <1>1, SamplesStay, PTL

\* Whatever is offered and owned, the marks and the list agree.
THEOREM MarksAgreeWithList == UpdateSpec => []MarkedIsOwned
<1>1. SampleInv => MarkedIsOwned
  <2> SUFFICES ASSUME SampleInv, subject = "blueprints"
               PROVE  MarksAreOwned(WithSources(sample.offers), sample.owned)
    BY Zenon DEF MarkedIsOwned
  <2>1. WithSources(sample.offers) \in Seq(ToSet(WithSources(sample.offers)))
    BY OffersAreSequences, Zenon DEF SampleInv
  <2> QED
    BY <2>1, MarksAndListAgree, Zenon
<1> QED
  BY <1>1, SamplesStay, PTL

\* Whatever is generated and entered, the update that is reviewed is written.
THEOREM ReviewedUpdatesAreWritten == UpdateSpec => []ReviewedIsWritten
<1>1. SampleInv => ReviewedIsWritten
  <2> SUFFICES ASSUME SampleInv, subject = "text"
               PROVE  WrittenAsReviewed(sample.stock, sample.override, sample.generated, sample.user,
                                        sample.rules, sample.mode)
    BY Zenon DEF ReviewedIsWritten
  <2>1. IsUpdate(sample.stock, sample.override, sample.generated, sample.user, sample.rules)
    BY UpdatesAreUpdates, Zenon DEF SampleInv
  <2> QED
    BY <2>1, UpdatesAreWrittenAsReviewed, Zenon DEF IsUpdate
<1> QED
  BY <1>1, SamplesStay, PTL

\* Whatever a build says and a profile asks for, names and titles show what is
\* agreed on.
THEOREM AgreedTextsAreShown ==
  ASSUME PartsAreWide
  PROVE  UpdateSpec => []OnlyAgreedIsShown
<1>1. SampleInv => OnlyAgreedIsShown
  <2> SUFFICES ASSUME SampleInv, subject \in {"names", "titles"}
               PROVE  Text!OnlyAgreedIsShown(sample.game, sample.opts)
    BY Zenon DEF OnlyAgreedIsShown
  <2>1. sample \in Names \union Titled
    BY Zenon DEF SampleInv
  <2> QED
    BY <2>1, SamplesAreGames, OnlyTheAgreedIsRendered, Zenon
<1> QED
  BY <1>1, SamplesStay, PTL
=============================================================================
