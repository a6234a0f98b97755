------------------------ MODULE BackgroundWorkProofs ------------------------
(***************************************************************************)
(* Theorems about the work that is done in the background: HelperProcess,  *)
(* for every pipe capacity, every number of progress messages and both     *)
(* behaviours of a poll at the end of the pipe, and, from what             *)
(* OwnershipEvidenceProofs shows for every set of windows, files and       *)
(* blueprints, the run's properties of the log scan and the stores.        *)
(*                                                                         *)
(* The invariant of a call of the helper follows the call: no child before *)
(* the spawn, no outcome before the way out, the workspace there until     *)
(* then, no child alive once "ready" was acted upon, and a stop request    *)
(* only after a cancellation, which the parent looks at again between      *)
(* "ready" and loading.                                                    *)
(***************************************************************************)
EXTENDS MCBackgroundWork, SequenceTheorems, TLAPS

Before  == {"loop", "poll", "liveness", "ready", "decide", "load"}

SafetyInv ==
  /\ parent \in {"start", "spawn"} => child = "none" /\ ~stop
  /\ parent \in {"start", "spawn"} \union Before =>
       outcome = "none" /\ (stop => cancelled)
  /\ parent = "start" => files = {}
  /\ parent \in {"spawn"} \union Before => "root" \in files
  /\ parent \in {"decide", "load", "clean", "returned"} => ~Alive
  /\ parent = "load" => ~stop
  /\ operation = Prepare => "datacore" \notin files
  /\ outcome \in {"lease", "contracts"} => ~Alive /\ ~stop
  /\ outcome = "lease" => files = {"root", "baseline"}
  /\ NothingLeftBehind

-----------------------------------------------------------------------------
(* Type correctness.                                                       *)

LEMMA TypeInit == Init => TypeOK
<1> SUFFICES ASSUME Init
             PROVE  TypeOK
  OBVIOUS
<1>1. pipe \in Seq({"progress", "ready", "cancelled", "error"})
  BY EmptySeq DEF Init
<1>2. Len(pipe) <= PipeCapacity
  BY HelperAssumption, EmptySeq DEF Init, HelperAssumption
<1>3. progress \in 0..MaxProgress
  BY HelperAssumption DEF Init, HelperAssumption
<1> QED
  BY <1>1, <1>2, <1>3 DEF Init, TypeOK, Prepare

LEMMA TypeStep ==
  ASSUME TypeOK, [Next]_vars
  PROVE  TypeOK'
<1> USE HelperAssumption DEF HelperAssumption, TypeOK, Prepare, parentVars, childVars,
        request, io
<1>1. CASE Refuse
  BY <1>1 DEF Refuse
<1>2. CASE Stage
  BY <1>2 DEF Stage
<1>3. CASE Spawn
  BY <1>3 DEF Spawn
<1>4. CASE SetupFails
  BY <1>4 DEF SetupFails
<1>5. CASE CheckToken
  BY <1>5 DEF CheckToken
<1>6. CASE Receive
  BY <1>6 DEF Receive, NextLabel, Settled
<1>7. CASE ReceiveNothing
  BY <1>7 DEF ReceiveNothing
<1>8. CASE PollFails
  BY <1>8 DEF PollFails
<1>9. CASE CheckAlive
  BY <1>9 DEF CheckAlive
<1>10. CASE FinishReady
  BY <1>10 DEF FinishReady
<1>11. CASE DiscardReady
  BY <1>11 DEF DiscardReady
<1>12. CASE AcceptReady
  BY <1>12 DEF AcceptReady
<1>13. CASE LoadResult
  BY <1>13 DEF LoadResult
<1>14. CASE LoadFails
  BY <1>14 DEF LoadFails
<1>15. CASE ClosePipe
  BY <1>15 DEF ClosePipe
<1>16. CASE ReapChild
  BY <1>16 DEF ReapChild
<1>17. CASE CleanUp
  BY <1>17 DEF CleanUp
<1>18. CASE SendProgress
  BY <1>18 DEF SendProgress, Send
<1>19. CASE WriteSideFile
  BY <1>19 DEF WriteSideFile
<1>20. CASE WriteResult
  BY <1>20 DEF WriteResult
<1>21. CASE SendReady
  BY <1>21 DEF SendReady, Send
<1>22. CASE StopWork
  BY <1>22 DEF StopWork, Send
<1>23. CASE WorkFails
  BY <1>23 DEF WorkFails, Send
<1>24. CASE CloseConnection
  BY <1>24 DEF CloseConnection
<1>25. CASE Exit
  BY <1>25 DEF Exit
<1>26. CASE Crash
  BY <1>26 DEF Crash
<1>27. CASE Cancel
  BY <1>27 DEF Cancel
<1>28. CASE GracePasses
  BY <1>28 DEF GracePasses
<1>29. CASE UNCHANGED vars
  BY <1>29 DEF vars
<1> QED
  BY <1>1, <1>2, <1>3, <1>4, <1>5, <1>6, <1>7, <1>8, <1>9, <1>10, <1>11,
     <1>12, <1>13, <1>14, <1>15, <1>16, <1>17, <1>18, <1>19, <1>20, <1>21,
     <1>22, <1>23, <1>24, <1>25, <1>26, <1>27, <1>28, <1>29
     DEF Next, ParentStep, ChildStep

\* Every reachable state is well typed, and the pipe keeps to its capacity.
THEOREM TypeCorrect == Spec => []TypeOK
BY TypeInit, TypeStep, PTL DEF Spec

-----------------------------------------------------------------------------
(* The safety invariant.                                                   *)

LEMMA SafetyInit == Init => SafetyInv
BY DEF Init, SafetyInv, Before, NothingLeftBehind, Alive, Prepare

LEMMA SafetyStep ==
  ASSUME TypeOK, TypeOK', SafetyInv, [Next]_vars
  PROVE  SafetyInv'
<1> USE DEF TypeOK, SafetyInv, Before, NothingLeftBehind, Alive, Prepare,
        parentVars, childVars, request, io
<1>1. CASE Refuse
  BY <1>1 DEF Refuse
<1>2. CASE Stage
  BY <1>2 DEF Stage
<1>3. CASE Spawn
  BY <1>3 DEF Spawn
<1>4. CASE SetupFails
  BY <1>4 DEF SetupFails
<1>5. CASE CheckToken
  BY <1>5 DEF CheckToken
<1>6. CASE Receive
  BY <1>6 DEF Receive, NextLabel, Settled
<1>7. CASE ReceiveNothing
  BY <1>7 DEF ReceiveNothing
<1>8. CASE PollFails
  BY <1>8 DEF PollFails
<1>9. CASE CheckAlive
  BY <1>9 DEF CheckAlive
<1>10. CASE FinishReady
  BY <1>10 DEF FinishReady
<1>11. CASE DiscardReady
  BY <1>11 DEF DiscardReady
<1>12. CASE AcceptReady
  BY <1>12 DEF AcceptReady
<1>13. CASE LoadResult
  BY <1>13 DEF LoadResult
<1>14. CASE LoadFails
  BY <1>14 DEF LoadFails
<1>15. CASE ClosePipe
  BY <1>15 DEF ClosePipe
<1>16. CASE ReapChild
  BY <1>16 DEF ReapChild
<1>17. CASE CleanUp
  BY <1>17 DEF CleanUp
<1>18. CASE SendProgress
  BY <1>18 DEF SendProgress, Send
<1>19. CASE WriteSideFile
  BY <1>19 DEF WriteSideFile
<1>20. CASE WriteResult
  BY <1>20 DEF WriteResult
<1>21. CASE SendReady
  BY <1>21 DEF SendReady, Send
<1>22. CASE StopWork
  BY <1>22 DEF StopWork, Send
<1>23. CASE WorkFails
  BY <1>23 DEF WorkFails, Send
<1>24. CASE CloseConnection
  BY <1>24 DEF CloseConnection
<1>25. CASE Exit
  BY <1>25 DEF Exit
<1>26. CASE Crash
  BY <1>26 DEF Crash
<1>27. CASE Cancel
  BY <1>27 DEF Cancel
<1>28. CASE GracePasses
  BY <1>28 DEF GracePasses
<1>29. CASE UNCHANGED vars
  BY <1>29 DEF vars
<1> QED
  BY <1>1, <1>2, <1>3, <1>4, <1>5, <1>6, <1>7, <1>8, <1>9, <1>10, <1>11,
     <1>12, <1>13, <1>14, <1>15, <1>16, <1>17, <1>18, <1>19, <1>20, <1>21,
     <1>22, <1>23, <1>24, <1>25, <1>26, <1>27, <1>28, <1>29
     DEF Next, ParentStep, ChildStep

LEMMA Invariance == Spec => [](TypeOK /\ SafetyInv)
BY TypeInit, TypeStep, SafetyInit, SafetyStep, PTL DEF Spec

\* However a call ends, its helper is dead and of the workspace nothing is
\* left but the complete baseline of a prepared update.
THEOREM CallLeavesNothingBehind == Spec => []NothingLeftBehind
<1>1. SafetyInv => NothingLeftBehind
  BY DEF SafetyInv
<1> QED
  BY <1>1, Invariance, PTL

LEMMA StopSettles == TypeOK /\ SafetyInv => StoppedRunReturnsNothing
BY DEF TypeOK, SafetyInv, StoppedRunReturnsNothing

\* A call that asked its helper to stop does not return a result.
THEOREM StoppedCallReturnsNothing == Spec => []StoppedRunReturnsNothing
BY StopSettles, Invariance, PTL

(***************************************************************************)
(* The run's own specification.  Its subjects share no state, so each of   *)
(* them behaves as it does alone, and what is proved of it holds there.    *)
(***************************************************************************)
backgroundVars == << subject, vars, evidenceVars, dataVars >>

LEMMA BackgroundRunsHelper == BackgroundSpec => Spec
<1>1. BackgroundInit => Init
  BY DEF BackgroundInit
<1>2. [BackgroundNext]_backgroundVars => [Next]_vars
  BY DEF BackgroundNext, backgroundVars
<1> QED  BY <1>1, <1>2, PTL DEF BackgroundSpec, backgroundVars, Spec

\* A call leaves nothing behind, and one that asked its helper to stop returns
\* no result, in the run's own behaviours.
THEOREM CallsAreClean == BackgroundSpec => [](NothingLeftBehind /\ StoppedRunReturnsNothing)
BY BackgroundRunsHelper, CallLeavesNothingBehind, StoppedCallReturnsNothing, PTL

IsScanned == subject = "scanned"
IsDecided == subject = "decided"
IsShared  == subject = "shared"
IsArchive == subject = "archive"

LEMMA EvidenceVars ==
  /\ UNCHANGED evidenceVars <=> UNCHANGED Scanned!vars
  /\ UNCHANGED evidenceVars <=> UNCHANGED Decided!vars
  /\ UNCHANGED evidenceVars <=> UNCHANGED Shared!vars
BY DEF evidenceVars, Scanned!vars, Decided!vars, Shared!vars, Scanned!game, Decided!game,
       Shared!game

LEMMA BackgroundRunsScanned ==
  BackgroundSpec => (Scanned!Spec /\ []IsScanned) \/ []~IsScanned
<1>1. BackgroundInit /\ IsScanned => Scanned!Init
  BY DEF BackgroundInit, IsScanned
<1>2. [BackgroundNext]_backgroundVars /\ IsScanned => [Scanned!Next]_(Scanned!vars)
  BY EvidenceVars DEF BackgroundNext, backgroundVars, IsScanned
<1>3. [BackgroundNext]_backgroundVars => (IsScanned' <=> IsScanned)
  BY DEF BackgroundNext, backgroundVars, IsScanned
<1> QED  BY <1>1, <1>2, <1>3, PTL DEF BackgroundSpec, backgroundVars, Scanned!Spec

LEMMA BackgroundRunsDecided ==
  BackgroundSpec => (Decided!Spec /\ []IsDecided) \/ []~IsDecided
<1>1. BackgroundInit /\ IsDecided => Decided!Init
  BY DEF BackgroundInit, IsDecided
<1>2. [BackgroundNext]_backgroundVars /\ IsDecided => [Decided!Next]_(Decided!vars)
  BY EvidenceVars DEF BackgroundNext, backgroundVars, IsDecided
<1>3. [BackgroundNext]_backgroundVars => (IsDecided' <=> IsDecided)
  BY DEF BackgroundNext, backgroundVars, IsDecided
<1> QED  BY <1>1, <1>2, <1>3, PTL DEF BackgroundSpec, backgroundVars, Decided!Spec

LEMMA BackgroundRunsShared ==
  BackgroundSpec => (Shared!Spec /\ []IsShared) \/ []~IsShared
<1>1. BackgroundInit /\ IsShared => Shared!Init
  BY DEF BackgroundInit, IsShared
<1>2. [BackgroundNext]_backgroundVars /\ IsShared => [Shared!Next]_(Shared!vars)
  BY EvidenceVars DEF BackgroundNext, backgroundVars, IsShared
<1>3. [BackgroundNext]_backgroundVars => (IsShared' <=> IsShared)
  BY DEF BackgroundNext, backgroundVars, IsShared
<1> QED  BY <1>1, <1>2, <1>3, PTL DEF BackgroundSpec, backgroundVars, Shared!Spec

\* No acquisition before a cursor is missing from the evidence: the run's
\* property of the log scan and the ownership stores.
THEOREM CursorsAreBehind == BackgroundSpec => []CursorsStayBehindEvidence
<1>1. /\ Scanned!Spec => []Scanned!CursorsStayBehindEvidence
      /\ Decided!Spec => []Decided!CursorsStayBehindEvidence
      /\ Shared!Spec => []Shared!CursorsStayBehindEvidence
  BY Scanned!CursorsAreBehind, Decided!CursorsAreBehind, Shared!CursorsAreBehind,
     EvidenceConstants
<1>2. (/\ IsScanned => Scanned!CursorsStayBehindEvidence
       /\ IsDecided => Decided!CursorsStayBehindEvidence
       /\ IsShared => Shared!CursorsStayBehindEvidence)
        => CursorsStayBehindEvidence
  BY DEF CursorsStayBehindEvidence, IsScanned, IsDecided, IsShared
<1> QED  BY <1>1, <1>2, BackgroundRunsScanned, BackgroundRunsDecided, BackgroundRunsShared, PTL

\* The stores of LIVE and HOTFIX hold only what their own logs say.
THEOREM ChannelsAreApart == BackgroundSpec => []ChannelsStayApart
<1>1. Shared!Spec => []Shared!ChannelsStayApart
  BY Shared!ChannelsAreApart, EvidenceConstants
<1>2. (IsShared => Shared!ChannelsStayApart) => ChannelsStayApart
  BY DEF ChannelsStayApart, IsShared
<1> QED  BY <1>1, <1>2, BackgroundRunsShared, PTL

\* Evidence leaves a store only when the player marks its blueprint as not owned.
THEOREM EvidenceKept == BackgroundSpec => EvidenceIsKept
<1>1. /\ Scanned!Spec => Scanned!EvidenceIsKept
      /\ Decided!Spec => Decided!EvidenceIsKept
      /\ Shared!Spec => Shared!EvidenceIsKept
  BY Scanned!EvidenceKept, Decided!EvidenceKept, Shared!EvidenceKept, EvidenceConstants
<1> DEFINE KeptInEach ==
             /\ subject = "scanned" => Scanned!EvidenceStaysUnlessDismissed
             /\ subject = "decided" => Decided!EvidenceStaysUnlessDismissed
             /\ subject = "shared" => Shared!EvidenceStaysUnlessDismissed
<1>2. (/\ IsScanned => [Scanned!EvidenceStaysUnlessDismissed]_(Scanned!vars)
       /\ IsDecided => [Decided!EvidenceStaysUnlessDismissed]_(Decided!vars)
       /\ IsShared => [Shared!EvidenceStaysUnlessDismissed]_(Shared!vars))
        => [KeptInEach]_evidenceVars
  BY EvidenceVars DEF IsScanned, IsDecided, IsShared
<1> QED  BY <1>1, <1>2, BackgroundRunsScanned, BackgroundRunsDecided, BackgroundRunsShared, PTL
            DEF EvidenceIsKept, Scanned!EvidenceIsKept, Decided!EvidenceIsKept,
                Shared!EvidenceIsKept

\* A decision changes the scope the player reviewed, and nothing else there.
THEOREM DecisionIsReviewed == BackgroundSpec => DecisionIsTheReviewedOne
<1>1. Decided!Spec => Decided!DecisionIsTheReviewedOne
  BY Decided!DecisionIsReviewed, EvidenceConstants
<1>2. (IsDecided => [Decided!AsReviewed]_(Decided!vars))
        => [subject = "decided" => Decided!AsReviewed]_evidenceVars
  BY EvidenceVars DEF IsDecided
<1> QED  BY <1>1, <1>2, BackgroundRunsDecided, PTL
            DEF DecisionIsTheReviewedOne, Decided!DecisionIsTheReviewedOne

LEMMA BackgroundRunsArchive ==
  BackgroundSpec => (Archive!ArchiveSpec /\ []IsArchive) \/ []~IsArchive
<1>1. BackgroundInit /\ IsArchive => Archive!ArchiveInit
  BY DEF BackgroundInit, IsArchive
<1>2. [BackgroundNext]_backgroundVars /\ IsArchive
      => [Archive!ArchiveNext]_(Archive!archiveVars)
  BY DEF BackgroundNext, backgroundVars, IsArchive, dataVars, Archive!archiveVars
<1>3. [BackgroundNext]_backgroundVars => (IsArchive' <=> IsArchive)
  BY DEF BackgroundNext, backgroundVars, IsArchive
<1> QED  BY <1>1, <1>2, <1>3, PTL DEF BackgroundSpec, backgroundVars, Archive!ArchiveSpec

\* What is read of an archive is an entry of one build, whatever the launcher
\* writes meanwhile; an archive nobody patches is read.
THEOREM ArchiveReads == BackgroundSpec => []ReadsAreFaithful
<1>1. Archive!ArchiveSpec => []Archive!ReadsAreFaithful
  BY Archive!ArchiveReadsFaithfully, ArchiveConstants
<1>2. (IsArchive => Archive!ReadsAreFaithful) => ReadsAreFaithful
  BY DEF ReadsAreFaithful, IsArchive
<1> QED  BY <1>1, <1>2, BackgroundRunsArchive, PTL
=============================================================================
