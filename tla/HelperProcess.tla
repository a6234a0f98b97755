--------------------------- MODULE HelperProcess ---------------------------
(***************************************************************************)
(* One call of run_helper (src/starcompanion/helper_process.py): a parent  *)
(* thread, the spawned archive helper, the one-way pipe between them and   *)
(* the files of the workspace (helper_artifacts.py).                       *)
(*                                                                         *)
(* The parent's loop is one action per look at something another actor     *)
(* changes: the user's token, the pipe, the life of the child.  The child  *)
(* may crash or stop making progress anywhere, so nothing is assumed of    *)
(* it.  What Connection.poll does at the end of the pipe is not the        *)
(* program's choice: POSIX calls the pipe readable, Windows raises; one    *)
(* behaviour has one platform, named by pollAtEof.                         *)
(***************************************************************************)
EXTENDS Naturals, Sequences

CONSTANTS PipeCapacity,  \* messages the pipe holds before a send blocks
          MaxProgress    \* bound: progress messages of the helper

ASSUME HelperAssumption ==
  /\ PipeCapacity \in Nat \ {0}
  /\ MaxProgress \in Nat

VARIABLES pollAtEof,  \* "readable" (POSIX) or "raises" (Windows)
          operation,  \* what the helper is asked to do
          cancelled,  \* the user's CancellationToken
          stop,       \* process_cancelled, the event the child looks at
          parent,     \* where run_helper is
          deadline,   \* cancellation_deadline
          outcome,    \* what run_helper is going to return or raise
          child,      \* where _child_main is
          pipe,       \* messages sent and not received
          receiving,  \* the parent's end of the pipe is open
          progress,   \* progress messages sent
          files       \* what exists of the workspace

vars == << pollAtEof, operation, cancelled, stop, parent, deadline, outcome,
           child, pipe, receiving, progress, files >>

request    == << pollAtEof, operation, cancelled >>
parentVars == << parent, deadline, outcome, receiving >>
childVars  == << child, progress >>
io         == << pipe, receiving >>

Prepare == "prepare-update"
Alive   == child \in {"working", "written", "sent", "closed"}

\* The write end is open in the child only (the parent closes its copy).
AtEof   == pipe = << >> /\ child \in {"closed", "exited"}

Init ==
  /\ pollAtEof \in {"readable", "raises"}
  /\ operation \in {"read-contracts", Prepare}
  /\ cancelled \in BOOLEAN
  /\ stop = FALSE
  /\ parent = "start"
  /\ deadline = "unset"
  /\ outcome = "none"
  /\ child = "none"
  /\ pipe = << >>
  /\ receiving = FALSE
  /\ progress = 0
  /\ files = {}

-----------------------------------------------------------------------------
(* The parent: setting up.                                                 *)

Refuse ==
  /\ parent = "start"
  /\ cancelled
  /\ outcome' = "cancelled"
  /\ parent' = "returned"
  /\ UNCHANGED << request, stop, deadline, io, files, childVars >>

Stage ==
  /\ parent = "start"
  /\ ~cancelled
  /\ files' = {"root"} \union (IF operation = Prepare THEN {"input"} ELSE {})
  /\ parent' = "spawn"
  /\ UNCHANGED << request, stop, deadline, outcome, io, childVars >>

Spawn ==
  /\ parent = "spawn"
  /\ child' = "working"
  /\ receiving' = TRUE
  /\ parent' = "loop"
  /\ UNCHANGED << request, stop, deadline, outcome, pipe, progress, files >>

SetupFails ==
  /\ parent = "spawn"
  /\ outcome' = "failed"
  /\ parent' = "finally"
  /\ UNCHANGED << request, stop, deadline, io, files, childVars >>

-----------------------------------------------------------------------------
(* The parent: the loop.                                                   *)

\* Mutant: Every pass computes a new deadline and compares with the new one.
RenewDeadline ==
  /\ parent = "loop"
  /\ stop' = (stop \/ cancelled)
  /\ deadline' = IF cancelled THEN "set" ELSE deadline
  /\ parent' = "poll"
  /\ UNCHANGED << request, outcome, io, files, childVars >>

CheckToken ==
  /\ parent = "loop"
  /\ \/ /\ ~cancelled
        /\ parent' = "poll"
        /\ UNCHANGED << stop, deadline, outcome, child >>
     \/ /\ cancelled
        /\ deadline # "passed"
        /\ stop' = TRUE
        /\ deadline' = "set"
        /\ parent' = "poll"
        /\ UNCHANGED << outcome, child >>
     \/ /\ cancelled
        /\ deadline = "passed"
        /\ stop' = TRUE
        /\ child' = "exited"
        /\ outcome' = "cancelled"
        /\ parent' = "finally"
        /\ UNCHANGED deadline
  /\ UNCHANGED << request, io, progress, files >>

\* Where a message takes the parent, and the outcome it settles.
NextLabel == [progress |-> "liveness", ready |-> "ready",
              cancelled |-> "finally", error |-> "finally"]
Settled   == [progress |-> "none", ready |-> "none",
              cancelled |-> "cancelled", error |-> "failed"]

Receive ==
  /\ parent = "poll"
  /\ pipe # << >>
  /\ parent' = NextLabel[Head(pipe)]
  /\ outcome' = Settled[Head(pipe)]
  /\ pipe' = Tail(pipe)
  /\ UNCHANGED << request, stop, deadline, receiving, files, childVars >>

\* Mutant: The error of a poll at the end of the pipe is swallowed.
SwallowEof == FALSE

\* At the end of a readable pipe recv raises EOFError, which the loop
\* catches: the poll found nothing.  A poll that raises ends the loop.
PollRaises == AtEof /\ pollAtEof = "raises"

ReceiveNothing ==
  /\ parent = "poll"
  /\ pipe = << >>
  /\ ~PollRaises
  /\ parent' = "liveness"
  /\ UNCHANGED << request, stop, deadline, outcome, io, files, childVars >>

PollFails ==
  /\ parent \in {"poll", "liveness"}
  /\ parent = "liveness" => child = "exited"
  /\ PollRaises
  /\ outcome' = "failed"
  /\ parent' = "finally"
  /\ UNCHANGED << request, stop, deadline, io, files, childVars >>

\* A dead child's pipe is polled once more.  It never polls as empty: it
\* holds a message or is at its end.
CheckAlive ==
  /\ parent = "liveness"
  /\ child = "exited" => ~PollRaises
  /\ parent' = "loop"
  /\ UNCHANGED << request, stop, deadline, outcome, io, files, childVars >>

-----------------------------------------------------------------------------
(* The parent: the result, and the way out.                                *)

\* _finish_ready_process: the child ends by itself or is terminated.
FinishReady ==
  /\ parent = "ready"
  /\ child' = "exited"
  /\ parent' = "decide"
  /\ UNCHANGED << request, stop, deadline, outcome, io, progress, files >>

DiscardReady ==
  /\ parent = "decide"
  /\ cancelled
  /\ outcome' = "cancelled"
  /\ parent' = "finally"
  /\ UNCHANGED << request, stop, deadline, io, files, childVars >>

\* Mutant: The token is not looked at again after "ready".
AcceptAnyReady ==
  /\ parent = "decide"
  /\ parent' = "load"
  /\ UNCHANGED << request, stop, deadline, outcome, io, files, childVars >>

AcceptReady ==
  /\ parent = "decide"
  /\ ~cancelled
  /\ parent' = "load"
  /\ UNCHANGED << request, stop, deadline, outcome, io, files, childVars >>

\* _load_result: an update keeps its baseline, contracts keep nothing.
LoadResult ==
  /\ parent = "load"
  /\ "result" \in files
  /\ \/ /\ operation = Prepare
        /\ "baseline" \in files
        /\ files' = files \ {"input", "result"}
        /\ outcome' = "lease"
     \/ /\ operation # Prepare
        /\ files' = {}
        /\ outcome' = "contracts"
  /\ parent' = "finally"
  /\ UNCHANGED << request, stop, deadline, io, childVars >>

LoadFails ==
  /\ parent = "load"
  /\ outcome' = "failed"
  /\ parent' = "finally"
  /\ UNCHANGED << request, stop, deadline, io, files, childVars >>

ClosePipe ==
  /\ parent = "finally"
  /\ receiving' = FALSE
  /\ stop' = (stop \/ Alive)
  /\ parent' = "reap"
  /\ UNCHANGED << request, deadline, outcome, pipe, files, childVars >>

\* Mutant: finally removes the files without waiting for the child.
LeaveChild ==
  /\ parent = "reap"
  /\ parent' = "clean"
  /\ UNCHANGED << request, stop, deadline, outcome, io, files, childVars >>

\* join for the grace period, then terminate.
ReapChild ==
  /\ parent = "reap"
  /\ child' = IF Alive THEN "exited" ELSE child
  /\ parent' = "clean"
  /\ UNCHANGED << request, stop, deadline, outcome, io, progress, files >>

CleanUp ==
  /\ parent = "clean"
  /\ files' = IF outcome = "lease" THEN files ELSE {}
  /\ parent' = "returned"
  /\ UNCHANGED << request, stop, deadline, outcome, io, childVars >>

ParentStep ==
  \/ Refuse \/ Stage \/ Spawn \/ SetupFails
  \/ CheckToken \/ Receive \/ ReceiveNothing \/ PollFails \/ CheckAlive
  \/ FinishReady \/ DiscardReady \/ AcceptReady \/ LoadResult \/ LoadFails
  \/ ClosePipe \/ ReapChild \/ CleanUp

-----------------------------------------------------------------------------
(* The child.                                                              *)

\* Mutant: the helper does not wait for room in the pipe.
SendAtOnce(message) ==
  IF receiving THEN pipe' = Append(pipe, message) ELSE UNCHANGED pipe

\* A send blocks while the pipe is full; nobody hears it once the parent
\* closed its end.
Send(message) ==
  IF receiving
    THEN Len(pipe) < PipeCapacity /\ pipe' = Append(pipe, message)
    ELSE UNCHANGED pipe

SendProgress ==
  /\ child = "working"
  /\ receiving
  /\ progress < MaxProgress
  /\ Send("progress")
  /\ progress' = progress + 1
  /\ UNCHANGED << request, stop, child, files, parentVars >>

WriteSideFile ==
  /\ child = "working"
  /\ files' = files \union
       {IF operation = Prepare THEN "baseline" ELSE "datacore"}
  /\ UNCHANGED << request, stop, pipe, childVars, parentVars >>

\* The last checkpoint, then the result file.
WriteResult ==
  /\ child = "working"
  /\ ~stop
  /\ operation = Prepare => "baseline" \in files
  /\ files' = files \union {"result"}
  /\ child' = "written"
  /\ UNCHANGED << request, stop, pipe, progress, parentVars >>

SendReady ==
  /\ child = "written"
  /\ Send("ready")
  /\ child' = "sent"
  /\ UNCHANGED << request, stop, progress, files, parentVars >>

\* A checkpoint finds the event set; the child removes its baseline.
StopWork ==
  /\ child = "working"
  /\ stop
  /\ Send("cancelled")
  /\ files' = files \ {"baseline"}
  /\ child' = "sent"
  /\ UNCHANGED << request, stop, progress, parentVars >>

WorkFails ==
  /\ child \in {"working", "written"}
  /\ Send("error")
  /\ files' = files \ {"baseline"}
  /\ child' = "sent"
  /\ UNCHANGED << request, stop, progress, parentVars >>

CloseConnection ==
  /\ child = "sent"
  /\ child' = "closed"
  /\ UNCHANGED << request, stop, pipe, progress, files, parentVars >>

Exit ==
  /\ child = "closed"
  /\ child' = "exited"
  /\ UNCHANGED << request, stop, pipe, progress, files, parentVars >>

Crash ==
  /\ Alive
  /\ child' = "exited"
  /\ UNCHANGED << request, stop, pipe, progress, files, parentVars >>

ChildStep ==
  \/ SendProgress \/ WriteSideFile \/ WriteResult \/ SendReady
  \/ StopWork \/ WorkFails \/ CloseConnection \/ Exit \/ Crash

-----------------------------------------------------------------------------
(* The user, and the clock.                                                *)

Cancel ==
  /\ ~cancelled
  /\ parent # "returned"
  /\ cancelled' = TRUE
  /\ UNCHANGED << pollAtEof, operation, stop, pipe, files, childVars, parentVars >>

GracePasses ==
  /\ deadline = "set"
  /\ deadline' = "passed"
  /\ UNCHANGED << request, stop, parent, outcome, io, files, childVars >>

Next == ParentStep \/ ChildStep \/ Cancel \/ GracePasses

Spec == Init /\ [][Next]_vars

\* The parent's thread runs and time passes; the child may hang.
FairSpec == Spec /\ WF_vars(ParentStep) /\ WF_vars(GracePasses)

-----------------------------------------------------------------------------
(* Properties.                                                             *)

\* Every variable has its type.
TypeOK ==
  /\ pollAtEof \in {"readable", "raises"}
  /\ operation \in {"read-contracts", Prepare}
  /\ cancelled \in BOOLEAN /\ stop \in BOOLEAN /\ receiving \in BOOLEAN
  /\ parent \in {"start", "spawn", "loop", "poll", "liveness", "ready",
                 "decide", "load", "finally", "reap", "clean", "returned"}
  /\ deadline \in {"unset", "set", "passed"}
  /\ outcome \in {"none", "contracts", "lease", "cancelled", "failed"}
  /\ child \in {"none", "working", "written", "sent", "closed", "exited"}
  /\ pipe \in Seq({"progress", "ready", "cancelled", "error"})
  /\ Len(pipe) <= PipeCapacity
  /\ progress \in 0..MaxProgress
  /\ files \subseteq {"root", "input", "baseline", "datacore", "result"}

\* However the call ends, no child is alive to write again, and of the
\* workspace only the baseline of a prepared update is left, complete.
NothingLeftBehind ==
  parent = "returned" =>
    /\ ~Alive
    /\ files = IF outcome = "lease" THEN {"root", "baseline"} ELSE {}

\* Once the helper was asked to stop, the call returns no result, even when
\* the helper finished before it saw the request.
StoppedRunReturnsNothing == stop => outcome \notin {"contracts", "lease"}

\* A cancelled call ends, whatever the helper does or fails to do: the grace
\* period of the first request is not renewed.  Where a poll at the end of the
\* pipe raises (Windows, where the game runs), the end of the helper ends the
\* call too, at whatever step of its work it comes.
RunEnds ==
  cancelled \/ (child = "exited" /\ pollAtEof = "raises") ~> parent = "returned"

\* The end of the helper ends the call, also when the helper sent nothing
\* ("archive helper exited unexpectedly").
DeadHelperEndsRun == child = "exited" ~> parent = "returned"
=============================================================================
