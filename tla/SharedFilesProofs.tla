-------------------------- MODULE SharedFilesProofs --------------------------
(***************************************************************************)
(* Theorems about the files that several processes share, and so the run's *)
(* properties of them: StoreLock, for every set of processes; the codec of *)
(* the cache (ContractCodec), for every set of contracts; and the cache    *)
(* itself (ContractCache), for every set of windows.                       *)
(*                                                                         *)
(* Until a second incident the lock implements StoreMutex, and a reaper    *)
(* removes only a lock file nobody uses.                                   *)
(* A live process between the creation and the removal of the lock file    *)
(* finds its own file in place, as long as nobody reaps it.  A reaper has  *)
(* judged the file and removes it two calls later, so the invariant must   *)
(* say why its judgement still holds then: nothing is stale before the     *)
(* first incident; that incident leaves one lock file behind, never a reap *)
(* file, since nobody reaps before it; so the reap file is its creator's   *)
(* until he removes it, he is the only reaper, and nobody but him can      *)
(* remove the file he has judged.  With a second incident a reap file may  *)
(* be abandoned, and the argument (like the property) ends there.          *)
(***************************************************************************)
EXTENDS MCSharedFiles, SequenceTheorems, WellFoundedInduction, TLAPS

Holding == {"inside", "release", "unlock"}
Reapers == {"reread", "rejudge", "reap", "unreap"}
Reaping ==
  Reapers \union {"reapCreate", "reapWrite", "readReap", "judgeReap", "breakReap"}

HolderOwnsLock ==
  \A p \in Alive :
    /\ pc[p] = "write" => lockFile = Created(p)
    /\ pc[p] \in Holding => lockFile.kind = "written" /\ lockFile.owner = p

NothingStaleYet ==
  incidents = 0 =>
    /\ dead = {}
    /\ reapFile = Absent
    /\ ~lockFile.old
    /\ lockFile.kind = "empty" =>
         lockFile.owner \in Processes /\ pc[lockFile.owner] = "write"
    /\ \A p \in Processes : pc[p] \notin Reaping /\ seen[p] # Expired

OneReaper ==
  /\ \A p \in Processes :
       /\ pc[p] = "reapWrite" => reapFile = Created(p)
       /\ pc[p] \in Reapers => reapFile.kind = "written" /\ reapFile.owner = p
       /\ pc[p] \in Reaping => p \in Alive
       /\ pc[p] = "judgeReap" => ~Stale(p)
       /\ pc[p] # "breakReap"
  /\ reapFile.kind # "absent" =>
       reapFile.owner \in Processes /\ pc[reapFile.owner] \in Reapers \union {"reapWrite"}

LeftBehind(file) ==
  \/ file.kind = "written" /\ file.owner \in dead
  \/ file.kind = "empty" /\ file.old

JudgementHolds ==
  \A p \in Processes :
    pc[p] = "reap" \/ (pc[p] = "rejudge" /\ Stale(p)) => LeftBehind(lockFile)

LockInv == HolderOwnsLock /\ NothingStaleYet /\ OneReaper /\ JudgementHolds

IInv == TypeOK /\ (OneIncident => LockInv)

-----------------------------------------------------------------------------
(***************************************************************************)
(* Type correctness.                                                       *)
(***************************************************************************)

LEMMA TypeInit == Init => TypeOK
BY LockAssumption
   DEF Init, TypeOK, LockAssumption, Files, Absent, Labels, Unreadable

LEMMA TypeStep ==
  ASSUME TypeOK, [Next]_vars
  PROVE  TypeOK'
<1> USE LockAssumption
    DEF LockAssumption, TypeOK, Files, Absent, Labels, Goto, Alive
<1>1. ASSUME NEW p \in Alive, CreateLock(p)
      PROVE  TypeOK'
  BY <1>1 DEF CreateLock, Created
<1>2. ASSUME NEW p \in Alive, WriteLock(p)
      PROVE  TypeOK'
  BY <1>2 DEF WriteLock, Write
<1>3. ASSUME NEW p \in Alive, CreateReap(p)
      PROVE  TypeOK'
  BY <1>3 DEF CreateReap, Created
<1>4. ASSUME NEW p \in Alive, WriteReap(p)
      PROVE  TypeOK'
  BY <1>4 DEF WriteReap, Write
<1>5. ASSUME NEW p \in Alive, ReapLock(p)
      PROVE  TypeOK'
  BY <1>5 DEF ReapLock
<1>6. ASSUME NEW p \in Alive, FinishReap(p)
      PROVE  TypeOK'
  BY <1>6 DEF FinishReap, Unreap
<1>7. ASSUME NEW p \in Alive, BreakReap(p)
      PROVE  TypeOK'
  BY <1>7 DEF BreakReap, Unreap
<1>8. ASSUME NEW p \in Alive, Unlock(p)
      PROVE  TypeOK'
  BY <1>8 DEF Unlock
<1>9. ASSUME NEW p \in Alive, WriteFails(p)
      PROVE  TypeOK'
  BY <1>9 DEF WriteFails
<1>10. ASSUME NEW p \in Alive, Die(p)
      PROVE  TypeOK'
  BY <1>10 DEF Die
<1>11. ASSUME NEW p \in Alive, ReadLock(p) \/ RereadLock(p) \/ ReadReap(p)
      PROVE  TypeOK'
  BY <1>11 DEF ReadLock, RereadLock, ReadReap, Read, Contents, Unreadable
<1>12. ASSUME NEW p \in Alive,
             \/ Start(p) \/ LockExists(p) \/ JudgeStale(p) \/ JudgeHeld(p)
             \/ ReapExists(p) \/ RejudgeStale(p) \/ RejudgeHeld(p) \/ JudgeAbandoned(p)
             \/ JudgeReaping(p) \/ Retry(p) \/ LeaveBlock(p) \/ CheckToken(p)
             \/ LostToken(p) \/ Timeout(p)
      PROVE  TypeOK'
  BY <1>12 DEF Start, LockExists, JudgeStale, JudgeHeld, ReapExists, RejudgeStale,
               RejudgeHeld, JudgeAbandoned, JudgeReaping, Retry, LeaveBlock,
               CheckToken, LostToken, Timeout, Jump
<1>13. CASE LockAges
  BY <1>13 DEF LockAges, MayAge
<1>14. CASE ReapAges
  BY <1>14 DEF ReapAges, MayAge
<1>15. CASE UNCHANGED vars
  BY <1>15 DEF vars
<1> QED
  BY <1>1, <1>2, <1>3, <1>4, <1>5, <1>6, <1>7, <1>8, <1>9, <1>10, <1>11, <1>12,
     <1>13, <1>14, <1>15 DEF Next, Step

\* Every variable of the lock keeps its type, and a file that does not exist
\* has neither contents nor an age.
THEOREM TypeCorrect == Spec => []TypeOK
BY TypeInit, TypeStep, PTL DEF Spec

-----------------------------------------------------------------------------
(***************************************************************************)
(* The parts of the invariant, up to and including the first incident.     *)
(***************************************************************************)

\* The steps that change the label of their process and nothing else.
Moves(p) ==
  \/ Start(p) \/ LockExists(p) \/ JudgeStale(p) \/ JudgeHeld(p)
  \/ ReapExists(p) \/ RejudgeStale(p) \/ RejudgeHeld(p) \/ JudgeAbandoned(p)
  \/ JudgeReaping(p) \/ Retry(p) \/ LeaveBlock(p) \/ CheckToken(p)
  \/ LostToken(p) \/ Timeout(p)

LEMMA StepKinds ==
  ASSUME NEW p \in Alive, Start(p) \/ Step(p) \/ Timeout(p) \/ WriteFails(p) \/ Die(p)
  PROVE  \/ CreateLock(p) \/ WriteLock(p) \/ ReapLock(p) \/ Unlock(p)
         \/ CreateReap(p) \/ WriteReap(p) \/ FinishReap(p) \/ BreakReap(p)
         \/ ReadLock(p) \/ RereadLock(p) \/ ReadReap(p)
         \/ Moves(p)
         \/ WriteFails(p) \/ Die(p)
BY DEF Step, Moves

LEMMA HolderStep ==
  ASSUME TypeOK, LockInv, OneIncident', [Next]_vars
  PROVE  HolderOwnsLock'
<1> USE LockAssumption
    DEF LockAssumption, TypeOK, Files, Labels, Goto, Alive, LockInv,
        HolderOwnsLock, Holding
<1>1. ASSUME NEW p \in Alive, CreateLock(p)
      PROVE  HolderOwnsLock'
  <2>1. \A q \in Alive : pc[q] # "write" /\ pc[q] \notin Holding
    BY <1>1 DEF CreateLock, Created
  <2> QED
    BY <1>1, <2>1 DEF CreateLock
<1>2. ASSUME NEW p \in Alive, WriteLock(p)
      PROVE  HolderOwnsLock'
  BY <1>2 DEF WriteLock, Write, Created
<1>3. ASSUME NEW p \in Alive, ReapLock(p)
      PROVE  HolderOwnsLock'
  <2>1. LeftBehind(lockFile)
    BY <1>3 DEF ReapLock, JudgementHolds
  <2>2. \A q \in Alive : pc[q] # "write" /\ pc[q] \notin Holding
    BY <2>1 DEF LeftBehind, Created
  <2> QED
    BY <1>3, <2>2 DEF ReapLock
<1>4. ASSUME NEW p \in Alive, Unlock(p)
      PROVE  HolderOwnsLock'
  BY <1>4 DEF Unlock, Created
<1>5. ASSUME NEW p \in Alive, Moves(p)
      PROVE  HolderOwnsLock'
  BY <1>5 DEF Moves, Jump, Start, LockExists, JudgeStale, JudgeHeld, ReapExists,
              RejudgeStale, RejudgeHeld, JudgeAbandoned, JudgeReaping, Retry,
              LeaveBlock, CheckToken, LostToken, Timeout
<1>6. ASSUME NEW p \in Alive,
             \/ CreateReap(p) \/ WriteReap(p) \/ FinishReap(p) \/ BreakReap(p)
             \/ ReadLock(p) \/ RereadLock(p) \/ ReadReap(p)
             \/ WriteFails(p) \/ Die(p)
      PROVE  HolderOwnsLock'
  BY <1>6 DEF CreateReap, WriteReap, FinishReap, BreakReap, Unreap,
              ReadLock, RereadLock, ReadReap, Read, WriteFails, Die
<1>7. CASE LockAges
  BY <1>7 DEF LockAges, MayAge, BeingWritten, Created
<1>8. CASE ReapAges
  BY <1>8 DEF ReapAges
<1>9. CASE UNCHANGED vars
  BY <1>9 DEF vars
<1> QED
  BY <1>1, <1>2, <1>3, <1>4, <1>5, <1>6, <1>7, <1>8, <1>9, StepKinds DEF Next

LEMMA StaleStep ==
  ASSUME TypeOK, LockInv, OneIncident', [Next]_vars
  PROVE  NothingStaleYet'
<1> USE LockAssumption
    DEF LockAssumption, TypeOK, Files, Labels, Goto, Alive, LockInv,
        NothingStaleYet,
        Reapers, Reaping, OneIncident
<1>1. ASSUME NEW p \in Alive, CreateLock(p)
      PROVE  NothingStaleYet'
  BY <1>1 DEF CreateLock, Created
<1>2. ASSUME NEW p \in Alive, WriteLock(p)
      PROVE  NothingStaleYet'
  BY <1>2 DEF WriteLock, Write
<1>3. ASSUME NEW p \in Alive, ReapLock(p) \/ Unlock(p)
      PROVE  NothingStaleYet'
  BY <1>3 DEF ReapLock, Unlock, Absent
<1>4. ASSUME NEW p \in Alive, CreateReap(p) \/ WriteReap(p) \/ FinishReap(p) \/ BreakReap(p)
      PROVE  NothingStaleYet'
  BY <1>4 DEF CreateReap, WriteReap, FinishReap, BreakReap, Unreap
<1>5. ASSUME NEW p \in Alive, ReadLock(p) \/ RereadLock(p) \/ ReadReap(p)
      PROVE  NothingStaleYet'
  BY <1>5 DEF ReadLock, RereadLock, ReadReap, Read, Contents, Unreadable
<1>6. ASSUME NEW p \in Alive, Moves(p)
      PROVE  NothingStaleYet'
  BY <1>6 DEF Stale, Moves, Jump, Start, LockExists, JudgeStale, JudgeHeld, ReapExists,
              RejudgeStale, RejudgeHeld, JudgeAbandoned, JudgeReaping, Retry,
              LeaveBlock, CheckToken, LostToken, Timeout
<1>7. ASSUME NEW p \in Alive, WriteFails(p) \/ Die(p)
      PROVE  NothingStaleYet'
  BY <1>7 DEF WriteFails, Die
<1>8. CASE LockAges
  BY <1>8 DEF LockAges, MayAge, BeingWritten
<1>9. CASE ReapAges
  BY <1>9 DEF ReapAges, MayAge, Absent
<1>10. CASE UNCHANGED vars
  BY <1>10 DEF vars
<1> QED
  BY <1>1, <1>2, <1>3, <1>4, <1>5, <1>6, <1>7, <1>8, <1>9, <1>10, StepKinds
     DEF Next

LEMMA ReaperStep ==
  ASSUME TypeOK, LockInv, OneIncident', [Next]_vars
  PROVE  OneReaper'
<1> USE LockAssumption
    DEF LockAssumption, TypeOK, Files, Labels, Goto, Alive, LockInv,
        OneReaper,
        Reapers, Reaping, OneIncident, Stale
<1>1. ASSUME NEW p \in Alive, CreateLock(p) \/ WriteLock(p) \/ ReapLock(p) \/ Unlock(p)
      PROVE  OneReaper'
  BY <1>1 DEF CreateLock, WriteLock, ReapLock, Unlock
<1>2. ASSUME NEW p \in Alive, CreateReap(p)
      PROVE  OneReaper'
  <2>1. \A q \in Processes : pc[q] # "reapWrite" /\ pc[q] \notin Reapers
    BY <1>2 DEF CreateReap, Created
  <2> QED
    BY <1>2, <2>1 DEF CreateReap, Created
<1>3. ASSUME NEW p \in Alive, WriteReap(p)
      PROVE  OneReaper'
  BY <1>3 DEF WriteReap, Write, Created
<1>4. ASSUME NEW p \in Alive, FinishReap(p) \/ BreakReap(p)
      PROVE  OneReaper'
  BY <1>4 DEF FinishReap, BreakReap, Unreap, Absent, Created
<1>5. ASSUME NEW p \in Alive, ReadLock(p) \/ RereadLock(p)
      PROVE  OneReaper'
  BY <1>5 DEF ReadLock, RereadLock, Read
<1>6. ASSUME NEW p \in Alive, ReadReap(p)
      PROVE  OneReaper'
  <2>1. Contents(reapFile) \in Alive \union {Nobody}
    BY DEF Contents, Unreadable, Created, Absent
  <2> QED
    BY <1>6, <2>1 DEF ReadReap, Read
<1>7. ASSUME NEW p \in Alive, Moves(p)
      PROVE  OneReaper'
  <2>1. Stale(p) => incidents # 0
    BY DEF NothingStaleYet
  <2> QED
    BY <1>7, <2>1 DEF Moves, Jump, Start, LockExists, JudgeStale, JudgeHeld, ReapExists,
              RejudgeStale, RejudgeHeld, JudgeAbandoned, JudgeReaping, Retry,
              LeaveBlock, CheckToken, LostToken, Timeout
<1>8. ASSUME NEW p \in Alive, WriteFails(p) \/ Die(p)
      PROVE  OneReaper'
  BY <1>8 DEF WriteFails, Die, NothingStaleYet
<1>9. CASE LockAges
  BY <1>9 DEF LockAges
<1>10. CASE ReapAges
  BY <1>10 DEF ReapAges, MayAge, BeingWritten, Created
<1>11. CASE UNCHANGED vars
  BY <1>11 DEF vars
<1> QED
  BY <1>1, <1>2, <1>3, <1>4, <1>5, <1>6, <1>7, <1>8, <1>9, <1>10, <1>11, StepKinds
     DEF Next

LEMMA JudgementStep ==
  ASSUME TypeOK, LockInv, OneIncident', [Next]_vars
  PROVE  JudgementHolds'
<1> USE LockAssumption
    DEF LockAssumption, TypeOK, Files, Labels, Goto, Alive, LockInv,
        JudgementHolds, LeftBehind, OneIncident, Stale
<1>1. ASSUME NEW p \in Alive, CreateLock(p)
      PROVE  JudgementHolds'
  BY <1>1 DEF CreateLock
<1>2. ASSUME NEW p \in Alive, WriteLock(p)
      PROVE  JudgementHolds'
  BY <1>2 DEF WriteLock, HolderOwnsLock, Created
<1>3. ASSUME NEW p \in Alive, ReapLock(p)
      PROVE  JudgementHolds'
  <2>1. \A q \in Processes \ {p} : pc[q] \notin Reapers
    BY <1>3 DEF ReapLock, OneReaper, Reapers
  <2> QED
    BY <1>3, <2>1 DEF ReapLock, Reapers
<1>4. ASSUME NEW p \in Alive, Unlock(p)
      PROVE  JudgementHolds'
  BY <1>4 DEF Unlock, HolderOwnsLock, Holding
<1>5. ASSUME NEW p \in Alive, CreateReap(p) \/ WriteReap(p) \/ FinishReap(p) \/ BreakReap(p)
      PROVE  JudgementHolds'
  BY <1>5 DEF CreateReap, WriteReap, FinishReap, BreakReap, Unreap
<1>6. ASSUME NEW p \in Alive, ReadLock(p) \/ ReadReap(p)
      PROVE  JudgementHolds'
  BY <1>6 DEF ReadLock, ReadReap, Read
<1>7. ASSUME NEW p \in Alive, RereadLock(p)
      PROVE  JudgementHolds'
  BY <1>7 DEF RereadLock, Read, Contents, Unreadable, Absent
<1>8. ASSUME NEW p \in Alive, Moves(p)
      PROVE  JudgementHolds'
  BY <1>8 DEF Moves, Jump, Start, LockExists, JudgeStale, JudgeHeld, ReapExists,
              RejudgeStale, RejudgeHeld, JudgeAbandoned, JudgeReaping, Retry,
              LeaveBlock, CheckToken, LostToken, Timeout
<1>9. ASSUME NEW p \in Alive, WriteFails(p) \/ Die(p)
      PROVE  JudgementHolds'
  BY <1>9 DEF WriteFails, Die, NothingStaleYet, Reaping, Reapers
<1>10. CASE LockAges
  BY <1>10 DEF LockAges, MayAge
<1>11. CASE ReapAges
  BY <1>11 DEF ReapAges
<1>12. CASE UNCHANGED vars
  BY <1>12 DEF vars
<1> QED
  BY <1>1, <1>2, <1>3, <1>4, <1>5, <1>6, <1>7, <1>8, <1>9, <1>10, <1>11, <1>12, StepKinds
     DEF Next

-----------------------------------------------------------------------------
(***************************************************************************)
(* The inductive invariant.                                                *)
(***************************************************************************)

LEMMA InvInit == Init => IInv
<1> SUFFICES ASSUME Init
             PROVE  LockInv
  BY TypeInit DEF IInv
<1> QED
  BY LockAssumption
     DEF LockAssumption, Init, LockInv, HolderOwnsLock, NothingStaleYet, OneReaper,
         JudgementHolds, Holding, Reapers, Reaping, Absent, Unreadable, Alive

LEMMA FirstIncidentIsLast ==
  ASSUME TypeOK, [Next]_vars, OneIncident'
  PROVE  OneIncident
<1>1. ASSUME NEW p \in Alive, CreateLock(p) \/ WriteLock(p) \/ ReapLock(p) \/ Unlock(p)
      PROVE  incidents' = incidents
  BY <1>1 DEF CreateLock, WriteLock, ReapLock, Unlock
<1>2. ASSUME NEW p \in Alive, CreateReap(p) \/ WriteReap(p) \/ FinishReap(p) \/ BreakReap(p)
      PROVE  incidents' = incidents
  BY <1>2 DEF CreateReap, WriteReap, FinishReap, BreakReap, Unreap
<1>3. ASSUME NEW p \in Alive, ReadLock(p) \/ RereadLock(p) \/ ReadReap(p) \/ Moves(p)
      PROVE  incidents' = incidents
  BY <1>3 DEF ReadLock, RereadLock, ReadReap, Read, Moves, Jump,
              Start, LockExists, JudgeStale, JudgeHeld, ReapExists,
              RejudgeStale, RejudgeHeld, JudgeAbandoned, JudgeReaping, Retry,
              LeaveBlock, CheckToken, LostToken, Timeout
<1>4. ASSUME NEW p \in Alive, WriteFails(p) \/ Die(p)
      PROVE  incidents' = incidents + 1
  BY <1>4 DEF WriteFails, Die
<1>5. CASE LockAges \/ ReapAges \/ UNCHANGED vars
  BY <1>5 DEF LockAges, ReapAges, vars, OneIncident
<1>6. incidents \in Nat
  BY LockAssumption DEF LockAssumption, TypeOK
<1> QED
  BY <1>1, <1>2, <1>3, <1>4, <1>5, <1>6, StepKinds DEF Next, OneIncident

LEMMA InvStep ==
  ASSUME IInv, [Next]_vars
  PROVE  IInv'
<1>1. TypeOK'
  BY TypeStep DEF IInv
<1>2. ASSUME OneIncident'
      PROVE  LockInv'
  <2>1. TypeOK /\ LockInv
    BY <1>2, FirstIncidentIsLast DEF IInv
  <2>2. HolderOwnsLock' /\ NothingStaleYet'
    BY <1>2, <2>1, HolderStep, StaleStep
  <2>3. OneReaper' /\ JudgementHolds'
    BY <1>2, <2>1, ReaperStep, JudgementStep
  <2> QED
    BY <2>2, <2>3 DEF LockInv
<1> QED
  BY <1>1, <1>2 DEF IInv

THEOREM Invariance == Spec => []IInv
BY InvInit, InvStep, PTL DEF Spec

-----------------------------------------------------------------------------
(***************************************************************************)
(* What the lock promises.                                                 *)
(***************************************************************************)

LEMMA ReapStep ==
  ASSUME IInv, OneIncident, NEW p \in Alive, pc[p] = "reap"
  PROVE  Orphaned(lockFile)
<1> USE LockAssumption DEF LockAssumption, IInv, TypeOK, Files, Alive, LockInv
<1>1. LeftBehind(lockFile)
  BY DEF JudgementHolds
<1>2. ASSUME lockFile.kind = "empty", lockFile.owner \in Alive
      PROVE  pc[lockFile.owner] \notin {"write", "reapWrite"}
  <2>1. pc[lockFile.owner] # "write"
    BY <1>1, <1>2 DEF HolderOwnsLock, LeftBehind, Created
  <2>2. pc[lockFile.owner] # "reapWrite"
    BY <1>2 DEF OneReaper, Reapers, Created
  <2> QED
    BY <2>1, <2>2
<1> QED
  BY <1>1, <1>2 DEF Orphaned, LeftBehind, BeingWritten

\* Up to the second incident a reaper, however slow, removes only a lock file
\* whose owner is dead or failed to write it.
THEOREM ReapersSpareNewLocks == Spec => NewLockSurvivesOneIncident
<1>1. ASSUME IInv, OneIncident
      PROVE  ReapsOrphan
  BY <1>1, ReapStep DEF ReapsOrphan
<1> QED
  BY <1>1, Invariance, PTL DEF NewLockSurvivesOneIncident

\* The processes inside, as Mutex sees them.
Seen == IF OneIncident THEN Inside ELSE {}

LEMMA AtMostOneInside ==
  ASSUME IInv, OneIncident, NEW p \in Inside
  PROVE  Inside = {p}
BY DEF IInv, LockInv, HolderOwnsLock, Holding, Inside

LEMMA MutexStep ==
  ASSUME IInv, IInv', [Next]_vars
  PROVE  \/ \E p \in Processes : Mutex!Enter(p) \/ Mutex!Leave(p)
         \/ UNCHANGED Seen
<1> USE LockAssumption DEF LockAssumption, Goto
<1>t. TypeOK /\ TypeOK'
  BY DEF IInv
<1>1. ASSUME ~OneIncident'
      PROVE  \/ \E p \in Processes : Mutex!Leave(p)
             \/ UNCHANGED Seen
  <2>1. Seen' = {}
    BY <1>1 DEF Seen
  <2>2. CASE Seen = {}
    BY <2>1, <2>2
  <2>3. CASE Seen # {}
    <3>1. PICK p \in Inside : OneIncident /\ Seen = Inside
      BY <2>3 DEF Seen
    <3>2. Seen = {p} /\ p \in Processes
      BY <3>1, AtMostOneInside DEF Inside, Alive
    <3> QED
      BY <2>1, <3>2 DEF Mutex!Leave, Seen
  <2> QED
    BY <2>2, <2>3
<1>2. ASSUME OneIncident'
      PROVE  OneIncident /\ Seen = Inside /\ Seen' = Inside'
  BY <1>2, <1>t, FirstIncidentIsLast DEF Seen
<1>3. ASSUME OneIncident', NEW p \in Alive, WriteLock(p)
      PROVE  Mutex!Enter(p)
  <2>1. Inside = {}
    BY <1>2, <1>3 DEF IInv, LockInv, HolderOwnsLock, Holding, WriteLock, Inside, Created
  <2>2. p \in Inside'
    BY <1>3, <1>t DEF WriteLock, Inside, Alive, TypeOK
  <2>3. Inside' = {p}
    BY <1>3, <2>2, AtMostOneInside, <1>2 DEF IInv, LockInv, HolderOwnsLock, Holding, Inside
  <2> QED
    BY <1>2, <1>3, <2>1, <2>3 DEF Mutex!Enter, Seen
<1>4. ASSUME OneIncident', NEW p \in Alive, Unlock(p) \/ LostToken(p) \/ Die(p)
      PROVE  Mutex!Leave(p) \/ UNCHANGED Seen
  <2>1. Inside' = Inside \ {p}
    BY <1>4, <1>t DEF Unlock, LostToken, Jump, Die, Inside, Alive, TypeOK
  <2> QED
    BY <1>2, <1>4, <2>1 DEF Mutex!Leave, Seen
<1>5. ASSUME NEW p \in Alive, CreateLock(p) \/ ReapLock(p) \/ WriteFails(p)
      PROVE  UNCHANGED Inside
  BY <1>5, <1>t DEF CreateLock, ReapLock, WriteFails, Inside, Alive, TypeOK
<1>6. ASSUME NEW p \in Alive, CreateReap(p) \/ WriteReap(p) \/ FinishReap(p) \/ BreakReap(p)
      PROVE  UNCHANGED Inside
  BY <1>6, <1>t DEF CreateReap, WriteReap, FinishReap, BreakReap, Unreap, Inside,
                   Alive, TypeOK
<1>7. ASSUME NEW p \in Alive, ReadLock(p) \/ RereadLock(p) \/ ReadReap(p)
      PROVE  UNCHANGED Inside
  BY <1>7, <1>t DEF ReadLock, RereadLock, ReadReap, Read, Inside, Alive, TypeOK
<1>8. ASSUME NEW p \in Alive, Moves(p), ~LostToken(p)
      PROVE  UNCHANGED Inside
  BY <1>8, <1>t DEF Inside, Alive, TypeOK, Moves, Jump,
              Start, LockExists, JudgeStale, JudgeHeld, ReapExists,
              RejudgeStale, RejudgeHeld, JudgeAbandoned, JudgeReaping, Retry,
              LeaveBlock, CheckToken, LostToken, Timeout
<1>9. CASE LockAges \/ ReapAges \/ UNCHANGED vars
  BY <1>9 DEF LockAges, ReapAges, vars, Inside, Alive, Seen, OneIncident
<1> QED
  BY <1>1, <1>2, <1>3, <1>4, <1>5, <1>6, <1>7, <1>8, <1>9, StepKinds DEF Next, Alive

\* _store_lock implements StoreMutex up to the second incident: the guarded
\* block of a store never holds two live processes.
THEOREM LockImplementsMutex == Spec => ImplementsMutex
<1>1. ASSUME Init
      PROVE  Mutex!Init
  <2>1. Inside = {}
    BY <1>1 DEF Init, Inside, Alive
  <2> QED
    BY <2>1 DEF Mutex!Init
<1>2. IInv /\ IInv' /\ [Next]_vars
        => [Mutex!Next]_(IF OneIncident THEN Inside ELSE {})
  BY MutexStep DEF Mutex!Next, Seen
<1> QED
  BY <1>1, <1>2, Invariance, PTL DEF Spec, ImplementsMutex, Mutex!Spec

-----------------------------------------------------------------------------
(***************************************************************************)
(* Numbers, sequences and folds, by induction in a form that needs no      *)
(* operator parameter: a set takes the place of the predicate.             *)
(***************************************************************************)
LEMMA SmallestNat ==
  ASSUME NEW T \in SUBSET Nat, T # {}
  PROVE  \E n \in T : \A m \in T : n <= m
<1>1. IsWellFoundedOn(OpToRel(<, Nat), Nat)
  BY NatLessThanWellFounded, Zenon
<1>2. PICK n \in T : \A m \in T : ~(<<m, n>> \in OpToRel(<, Nat))
  BY <1>1, WFMin, Zenon
<1>3. ASSUME NEW m \in T, ~(n <= m)
      PROVE  FALSE
  <2>1. m < n
    BY <1>3
  <2>2. <<m, n>> \in OpToRel(<, Nat)
    BY <2>1, Zenon DEF OpToRel
  <2> QED
    BY <2>2, <1>2, Zenon
<1> QED
  BY <1>3

LEMMA FromTo ==
  ASSUME NEW T, NEW m \in Nat, NEW n \in Nat, m \in T,
         \A i \in m..n : i < n /\ i \in T => i + 1 \in T
  PROVE  m..n \subseteq T
<1> SUFFICES ASSUME (m..n) \ T # {} PROVE FALSE
  OBVIOUS
<1>1. PICK i \in (m..n) \ T : \A k \in (m..n) \ T : i <= k
  <2>1. (m..n) \ T \in SUBSET Nat
    OBVIOUS
  <2> QED
    BY <2>1, SmallestNat, Zenon
<1>2. i # m /\ i - 1 \in m..n
  BY <1>1
<1>3. i - 1 \in T
  BY <1>1, <1>2
<1> QED
  BY <1>1, <1>2, <1>3

LEMMA UpTo ==
  ASSUME NEW T, NEW n \in Nat, 0 \in T,
         \A i \in 0..n : i < n /\ i \in T => i + 1 \in T
  PROVE  0..n \subseteq T
BY FromTo

LEMMA MaxFact ==
  ASSUME NEW n \in Nat, NEW S \in SUBSET (0..n), S # {}
  PROVE  Max(S) \in S /\ \A y \in S : Max(S) >= y
<1> DEFINE T == {n - x : x \in S}
<1>1. T \in SUBSET Nat /\ T # {}
  <2>1. PICK x \in S : TRUE
    OBVIOUS
  <2>2. n - x \in T
    OBVIOUS
  <2>3. \A y \in S : n - y \in Nat
    OBVIOUS
  <2>4. T \in SUBSET Nat
    BY <2>3
  <2> HIDE DEF T
  <2> QED
    BY <2>2, <2>4
<1>2. PICK t \in T : \A u \in T : t <= u
  BY <1>1, SmallestNat
<1>3. PICK x \in S : t = n - x
  BY <1>2
<1>4. \A y \in S : x >= y
  <2> TAKE y \in S
  <2>1. n - y \in T
    OBVIOUS
  <2> QED
    BY <2>1, <1>2, <1>3
<1> QED
  BY <1>4 DEF Max

LEMMA FunctionIsSeq ==
  ASSUME NEW S, NEW n \in Nat, NEW f \in [1..n -> S]
  PROVE  f \in Seq(S) /\ Len(f) = n /\ DOMAIN f = 1..n
<1>1. f \in Seq(S)
  BY SeqDef
<1> QED
  BY <1>1, LenProperties

LEMMA SeqOfItsOwn ==
  ASSUME NEW S, NEW s \in Seq(S)
  PROVE  s \in Seq(Range(s))
<1>1. Len(s) \in Nat /\ DOMAIN s = 1..Len(s)
  BY LenProperties
<1>2. s \in [1..Len(s) -> Range(s)]
  <2>1. s = [i \in 1..Len(s) |-> s[i]]
    BY SeqDef
  <2> QED
    BY <1>1, <2>1, Zenon DEF Range
<1> QED
  BY <1>1, <1>2, FunctionIsSeq, Zenon

LEMMA ConcatAt ==
  ASSUME NEW S, NEW s \in Seq(S), NEW t \in Seq(S)
  PROVE  /\ s \o t \in Seq(S) /\ Len(s \o t) = Len(s) + Len(t)
         /\ Len(s) \in Nat /\ Len(t) \in Nat
         /\ \A i \in 1 .. Len(s) : (s \o t)[i] = s[i]
         /\ \A k \in 1 .. Len(t) : (s \o t)[Len(s) + k] = t[k]
<1>1. Len(s) \in Nat /\ Len(t) \in Nat
  BY LenProperties
<1>2. \A i \in 1 .. Len(s) + Len(t) :
        (s \o t)[i] = IF i <= Len(s) THEN s[i] ELSE t[i - Len(s)]
  BY ConcatProperties, Zenon
<1>3. \A i \in 1 .. Len(s) : i \in 1 .. Len(s) + Len(t) /\ i <= Len(s)
  BY <1>1
<1>4. \A k \in 1 .. Len(t) : Len(s) + k \in 1 .. Len(s) + Len(t) /\ ~(Len(s) + k <= Len(s))
                               /\ (Len(s) + k) - Len(s) = k
  BY <1>1
<1>5. \A i \in 1 .. Len(s) : (s \o t)[i] = s[i]
  BY <1>2, <1>3, Zenon
<1>6. \A k \in 1 .. Len(t) : (s \o t)[Len(s) + k] = t[k]
  BY <1>2, <1>4, Zenon
<1> QED
  BY <1>1, <1>5, <1>6, ConcatProperties

\* f is the recursive function of FoldLeft, with a function for the operator.
IsFold(f, base, m, op, n) ==
  \A s \in SUBSET (1..n) :
    f[s] = IF s = {} THEN base ELSE op[<< f[s \ {Max(s)}], m[Max(s)] >>]

\* t is what a fold has after each element of a sequence.
IsTrail(t, base, m, op, n) ==
  t[0] = base /\ \A k \in 1..n : t[k] = op[<< t[k - 1], m[k] >>]

LEMMA FoldExists ==
  ASSUME NEW V, NEW base \in V, NEW W, NEW n \in Nat, NEW m \in [1..n -> W],
         NEW op \in [V \X W -> V]
  PROVE  \E f \in [SUBSET (1..n) -> V] : IsFold(f, base, m, op, n)
<1> DEFINE Folds(i, f) ==
             \A s \in SUBSET (1..i) :
               f[s] = IF s = {} THEN base ELSE op[<< f[s \ {Max(s)}], m[Max(s)] >>]
           T == {i \in 0..n : \E f \in [SUBSET (1..i) -> V] : Folds(i, f)}
<1>1. 0 \in T
  <2> DEFINE f == [s \in SUBSET (1..0) |-> base]
  <2>1. \A s \in SUBSET (1..0) : s = {}
    OBVIOUS
  <2>2. f \in [SUBSET (1..0) -> V] /\ Folds(0, f)
    BY <2>1
  <2>3. 0 \in 0..n
    OBVIOUS
  <2> QED
    BY <2>2, <2>3, Zenon
<1>2. ASSUME NEW i \in 0..n, i < n, i \in T
      PROVE  i + 1 \in T
  <2> DEFINE j == i + 1
  <2>1. PICK f \in [SUBSET (1..i) -> V] : Folds(i, f)
    BY <1>2, Zenon
  <2> DEFINE g == [s \in SUBSET (1..j) |-> IF j \in s THEN op[<< f[s \ {j}], m[j] >>] ELSE f[s]]
  <2>2. j \in 1..n /\ j \in 0..n
    BY <1>2
  <2>3. ASSUME NEW s \in SUBSET (1..j), j \in s
        PROVE  Max(s) = j /\ s \ {j} \in SUBSET (1..i) /\ s # {}
    <3>1. \A y \in s : j >= y
      BY <1>2
    <3>2. \A x \in s : (\A y \in s : x >= y) => x = j
      BY <1>2, <2>3
    <3>3. Max(s) = j
      BY <2>3, <3>1, <3>2, Zenon DEF Max
    <3>4. s \ {j} \in SUBSET (1..i)
      BY <1>2
    <3> QED
      BY <2>3, <3>3, <3>4
  <2>4. ASSUME NEW s \in SUBSET (1..j), j \notin s
        PROVE  s \in SUBSET (1..i)
    BY <1>2, <2>4
  <2>5. ASSUME NEW s \in SUBSET (1..i)
        PROVE  s \in SUBSET (1..j) /\ j \notin s
    BY <1>2
  <2>6. ASSUME NEW s \in SUBSET (1..i), s # {}
        PROVE  s \ {Max(s)} \in SUBSET (1..i)
    BY Zenon
  <2>7. m[j] \in W
    BY <2>2
  <2> HIDE DEF j
  <2>8. \A s \in SUBSET (1..i) : g[s] = f[s]
    BY <2>5, Zenon
  <2>9. ASSUME NEW s \in SUBSET (1..j)
        PROVE  g[s] \in V /\ g[s] = IF s = {} THEN base ELSE op[<< g[s \ {Max(s)}], m[Max(s)] >>]
    <3>1. CASE j \in s
      <4>1. Max(s) = j /\ s \ {j} \in SUBSET (1..i) /\ s # {}
        BY <3>1, <2>3, Zenon
      <4>2. g[s] = op[<< f[s \ {j}], m[j] >>]
        BY <3>1, Zenon
      <4>3. f[s \ {j}] \in V /\ g[s \ {j}] = f[s \ {j}]
        BY <4>1, <2>8, Zenon
      <4>4. op[<< f[s \ {j}], m[j] >>] \in V
        BY <4>3, <2>7
      <4> QED
        BY <4>1, <4>2, <4>3, <4>4, Zenon
    <3>2. CASE j \notin s
      <4>1. s \in SUBSET (1..i)
        BY <3>2, <2>4, Zenon
      <4>2. g[s] = f[s] /\ f[s] \in V
        BY <4>1, <2>8, Zenon
      <4>3. f[s] = IF s = {} THEN base ELSE op[<< f[s \ {Max(s)}], m[Max(s)] >>]
        BY <4>1, <2>1, Zenon
      <4>4. s # {} => g[s \ {Max(s)}] = f[s \ {Max(s)}]
        BY <4>1, <2>6, <2>8, Zenon
      <4> QED
        BY <4>2, <4>3, <4>4, Zenon
    <3> QED
      BY <3>1, <3>2, Zenon
  <2>10. g \in [SUBSET (1..j) -> V]
    BY <2>9, Zenon
  <2> HIDE DEF g
  <2>11. Folds(j, g)
    BY <2>9, Zenon
  <2>12. j \in T
    BY <2>2, <2>10, <2>11, Zenon
  <2> QED
    BY <2>12 DEF j
<1> HIDE DEF T
<1>3. 0..n \subseteq T
  BY <1>1, <1>2, UpTo
<1>4. n \in T
  BY <1>3
<1> QED
  BY <1>4, Zenon DEF T, IsFold

LEMMA Runs ==
  /\ 1..0 = {}
  /\ \A n \in Nat : \A k \in 1..n :
       /\ 1..k # {} /\ (1..k) \ {k} = 1..(k - 1) /\ 1..k \in SUBSET (1..n)
       /\ k \in 0..n /\ k - 1 \in 0..n
  /\ \A n \in Nat : 0 \in 0..n /\ n \in 0..n
  /\ \A n \in Nat : \A k \in 0..n : 1..k \in SUBSET (1..n)
OBVIOUS

LEMMA LastOfRun == \A n \in Nat : \A k \in 1..n : Max(1..k) = k
<1> SUFFICES ASSUME NEW n \in Nat, NEW k \in 1..n PROVE Max(1..k) = k
  OBVIOUS
<1>1. k \in 1..k /\ \A y \in 1..k : k >= y
  OBVIOUS
<1>2. \A x \in 1..k : (\A y \in 1..k : x >= y) => x = k
  OBVIOUS
<1> QED
  BY <1>1, <1>2, Zenon DEF Max

\* A fold with the operation op, from its first to its last element.
LEMMA Accumulates ==
  ASSUME NEW V, NEW base \in V, NEW W, NEW n \in Nat, NEW f \in [SUBSET (1..n) -> V],
         NEW m \in [1..n -> W], NEW op \in [V \X W -> V], IsFold(f, base, m, op, n)
  PROVE  \E t \in [0..n -> V] : IsTrail(t, base, m, op, n) /\ t[n] = f[1..n]
<1> DEFINE t == [k \in 0..n |-> f[1..k]]
<1>1. t \in [0..n -> V]
  BY Runs, Zenon
<1>2. t[0] = base /\ t[n] = f[1..n]
  BY Runs, Zenon DEF IsFold
<1>3. \A k \in 1..n : t[k] = op[<< t[k - 1], m[k] >>]
  <2> TAKE k \in 1..n
  <2>1. t[k] = f[1..k] /\ t[k - 1] = f[1..(k - 1)]
    BY Runs, Zenon
  <2>2. Max(1..k) = k /\ (1..k) \ {k} = 1..(k - 1) /\ 1..k # {} /\ 1..k \in SUBSET (1..n)
    BY Runs, LastOfRun, Zenon
  <2> QED
    BY <2>1, <2>2, Zenon DEF IsFold
<1> QED
  BY <1>1, <1>2, <1>3, Zenon DEF IsTrail

IsConcatenation(t, seqs, n) ==
  t[0] = << >> /\ \A k \in 1..n : t[k] = t[k - 1] \o seqs[k]

\* FlattenSeq concatenates from the first sequence to the last.
LEMMA Concatenates ==
  ASSUME NEW S, NEW n \in Nat \ {0}, NEW seqs \in [1..n -> Seq(S)]
  PROVE  \E t \in [0..n -> Seq(S)] : IsConcatenation(t, seqs, n) /\ t[n] = FlattenSeq(seqs)
<1> DEFINE V == Seq(S)
           op == [p \in V \X V |-> p[1] \o p[2]]
<1>0. n \in Nat /\ Len(seqs) = n /\ seqs[1] \in V /\ 1 \in 1..n
  <2>1. Len(seqs) = n
    BY FunctionIsSeq
  <2> QED
    BY <2>1
<1>1. op \in [V \X V -> V] /\ << >> \in V
  OBVIOUS
<1>a. \A v \in V, w \in V : op[<< v, w >>] = v \o w
  OBVIOUS
<1>b. << >> \o seqs[1] = seqs[1]
  BY <1>0
<1> HIDE DEF V, op
<1>c. seqs \in [1..n -> V]
  BY DEF V
<1>2. PICK f \in [SUBSET (1..n) -> V] : IsFold(f, << >>, seqs, op, n)
  BY <1>0, <1>1, <1>c, FoldExists, Zenon
<1>3. PICK t \in [0..n -> V] : IsTrail(t, << >>, seqs, op, n)
  BY <1>0, <1>1, <1>c, <1>2, Accumulates, Zenon
<1>d. t[0] = << >> /\ \A k \in 1..n : t[k] = op[<< t[k - 1], seqs[k] >>]
  BY <1>3, Zenon DEF IsTrail
<1>4. \A k \in 1..n : t[k] = t[k - 1] \o seqs[k]
  <2> TAKE k \in 1..n
  <2>1. t[k - 1] \in V /\ seqs[k] \in V
    BY <1>0, <1>3, <1>c, Runs, Zenon
  <2> QED
    BY <1>d, <1>a, <2>1, Zenon
<1>5. t[n] = FlattenSeq(seqs)
  <2> DEFINE Continued(g) == [i \in 1..n |-> IF i = 1 THEN seqs[i] ELSE g[i - 1] \o seqs[i]]
             flat == CHOOSE g : g = Continued(g)
             u == [i \in 1..n |-> t[i]]
  <2>1. FlattenSeq(seqs) = flat[n]
    BY <1>0 DEF FlattenSeq
  <2>2. u = Continued(u)
    <3>1. ASSUME NEW i \in 1..n
          PROVE  u[i] = IF i = 1 THEN seqs[i] ELSE u[i - 1] \o seqs[i]
      <4>1. CASE i = 1
        <5>1. t[1] = t[1 - 1] \o seqs[1] /\ 1 - 1 = 0
          BY <1>4, <1>0
        <5> QED
          BY <4>1, <5>1, <1>d, <1>b, <1>0
      <4>2. CASE i # 1
        <5>1. i - 1 \in 1..n
          BY <4>2
        <5> QED
          BY <4>2, <5>1, <1>4, Zenon
      <4> QED
        BY <4>1, <4>2
    <3> QED
      BY <3>1, Zenon
  <2>3. flat = Continued(flat)
    BY <2>2, Zenon
  <2> HIDE DEF flat, u
  <2> DEFINE T == {i \in 0..n : i # 0 => flat[i] = t[i]}
  <2>4. 0 \in T
    BY <1>0
  <2>5. ASSUME NEW i \in 0..n, i < n, i \in T
        PROVE  i + 1 \in T
    <3>1. i + 1 \in 1..n /\ i + 1 \in 0..n /\ (i + 1) - 1 = i
      BY <2>5
    <3>2. t[i + 1] = t[i] \o seqs[i + 1]
      BY <3>1, <1>4, Zenon
    <3>3. CASE i = 0
      <4>1. i + 1 = 1
        BY <3>3
      <4>2. flat[1] = seqs[1]
        BY <2>3, <1>0, Zenon
      <4>3. t[1] = seqs[1]
        BY <3>2, <3>3, <4>1, <1>d, <1>b
      <4> QED
        BY <3>1, <4>1, <4>2, <4>3
    <3>4. CASE i # 0
      <4>1. i + 1 # 1
        BY <3>4
      <4>2. flat[i + 1] = flat[i] \o seqs[i + 1]
        BY <2>3, <3>1, <4>1, Zenon
      <4>3. flat[i] = t[i]
        BY <2>5, <3>4, Zenon
      <4> QED
        BY <3>1, <3>2, <4>2, <4>3, Zenon
    <3> QED
      BY <3>3, <3>4
  <2> HIDE DEF T
  <2>6. 0..n \subseteq T
    BY <2>4, <2>5, <1>0, UpTo
  <2>7. n \in T /\ n # 0
    BY <2>6, <1>0
  <2> QED
    BY <2>1, <2>7, Zenon DEF T
<1> QED
  BY <1>3, <1>d, <1>4, <1>5, Zenon DEF V, IsConcatenation

LEMMA TableFold ==
  ASSUME NEW S, NEW m \in Seq(S)
  PROVE  \E t : /\ t[0] = << >>
                /\ \A k \in 1..Len(m) : t[k] = Enter(t[k - 1], m[k])
                /\ FoldLeft(Enter, << >>, m) = t[Len(m)]
<1> DEFINE n == Len(m)
           V == Seq(S)
           op == [p \in V \X S |-> Enter(p[1], p[2])]
           Def(f) == [s \in SUBSET DOMAIN m |->
                        IF s = {} THEN << >> ELSE Enter(f[s \ {Max(s)}], m[Max(s)])]
           iter == CHOOSE f : f = Def(f)
<1>1. n \in Nat /\ DOMAIN m = 1..n /\ m \in [1..n -> S]
  BY LenProperties, SeqDef
<1>2. op \in [V \X S -> V] /\ << >> \in V
  BY DEF Enter
<1>3. \A v \in V, w \in S : op[<< v, w >>] = Enter(v, w)
  OBVIOUS
<1>4. FoldLeft(Enter, << >>, m) = iter[1..n]
  <2>1. FoldLeft(Enter, << >>, m) = iter[DOMAIN m]
    BY Zenon DEF FoldLeft, MapThenFoldSet
  <2> QED
    BY <2>1, <1>1, Zenon
<1> HIDE DEF V, op, n
<1>5. PICK f \in [SUBSET (1..n) -> V] : IsFold(f, << >>, m, op, n)
  BY <1>1, <1>2, FoldExists, Zenon
<1>6. f = Def(f)
  <2>1. ASSUME NEW s \in SUBSET (1..n)
        PROVE  f[s] = IF s = {} THEN << >> ELSE Enter(f[s \ {Max(s)}], m[Max(s)])
    <3>1. CASE s = {}
      BY <3>1, <1>5, Zenon DEF IsFold
    <3>2. CASE s # {}
      <4>1. s \ {Max(s)} \in SUBSET (1..n)
        BY Zenon
      <4>2. f[s \ {Max(s)}] \in V
        BY <4>1, Zenon
      <4>3. Max(s) \in 1..n
        <5>1. s \in SUBSET (0..n)
          BY <1>1
        <5>2. Max(s) \in s
          BY <1>1, <3>2, <5>1, MaxFact, Zenon
        <5> QED
          BY <5>2
      <4>4. m[Max(s)] \in S
        BY <1>1, <4>3, Zenon
      <4>5. f[s] = op[<< f[s \ {Max(s)}], m[Max(s)] >>]
        BY <3>2, <1>5, Zenon DEF IsFold
      <4> QED
        BY <3>2, <4>2, <4>4, <4>5, <1>3, Zenon
    <3> QED
      BY <3>1, <3>2
  <2> QED
    BY <2>1, <1>1, Zenon
<1>7. iter = Def(iter)
  BY <1>6, Zenon
<1> HIDE DEF iter
<1> DEFINE t == [k \in 0..n |-> iter[1..k]]
<1>8. t[0] = << >> /\ iter[1..n] = t[n]
  <2>1. iter[{}] = << >>
    BY <1>7, Zenon
  <2> QED
    BY <2>1, <1>1, Runs, Zenon
<1>9. \A k \in 1..n : t[k] = Enter(t[k - 1], m[k])
  <2> TAKE k \in 1..n
  <2>1. t[k] = iter[1..k] /\ t[k - 1] = iter[1..(k - 1)]
    BY <1>1, Runs, Zenon
  <2>2. Max(1..k) = k /\ (1..k) \ {k} = 1..(k - 1) /\ 1..k # {} /\ 1..k \in SUBSET DOMAIN m
    BY <1>1, Runs, LastOfRun, Zenon
  <2>3. iter[1..k] = Enter(iter[(1..k) \ {Max(1..k)}], m[Max(1..k)])
    BY <1>7, <2>2, Zenon
  <2> QED
    BY <2>1, <2>2, <2>3, Zenon
<1> QED
  BY <1>4, <1>8, <1>9, Zenon DEF n

-----------------------------------------------------------------------------
(***************************************************************************)
(* What is written is read again, for every set of contracts: the table of *)
(* evidence holds every mention, a place in it is read back as the fact    *)
(* that has it, and a base text that is left out is the text.  The lines   *)
(* of the helper process are read by a fold: first the table is built, and *)
(* then each item is read with the whole table (BodyIsRead).               *)
(***************************************************************************)
LEMMA EnterKeeps ==
  ASSUME NEW S, NEW table \in Seq(S), NEW e \in S
  PROVE  /\ Enter(table, e) \in Seq(S)
         /\ e \in Range(Enter(table, e))
         /\ Range(table) \subseteq Range(Enter(table, e))
<1>1. CASE Contains(table, e)
  <2>1. Enter(table, e) = table
    BY <1>1 DEF Enter
  <2> QED
    BY <1>1, <2>1 DEF Contains, Range
<1>2. CASE ~Contains(table, e)
  <2>1. Enter(table, e) = Append(table, e)
    BY <1>2 DEF Enter
  <2>2. /\ Append(table, e) \in Seq(S) /\ Len(Append(table, e)) = Len(table) + 1
        /\ Append(table, e)[Len(table) + 1] = e /\ Len(table) \in Nat
        /\ \A i \in 1..Len(table) : Append(table, e)[i] = table[i]
    BY AppendProperties, LenProperties
  <2> DEFINE u == Append(table, e)
  <2>3. DOMAIN u = 1..(Len(table) + 1) /\ DOMAIN table = 1..Len(table)
    BY <2>2, LenProperties
  <2>4. Len(table) + 1 \in DOMAIN u /\ \A i \in DOMAIN table : i \in DOMAIN u /\ u[i] = table[i]
    BY <2>2, <2>3
  <2> HIDE DEF u
  <2>5. e \in Range(u) /\ Range(table) \subseteq Range(u)
    BY <2>2, <2>4, Zenon DEF Range, u
  <2> QED
    BY <2>1, <2>2, <2>5, Zenon DEF u
<1> QED
  BY <1>1, <1>2

LEMMA TableBuilt ==
  ASSUME NEW S, NEW m \in Seq(S)
  PROVE  /\ FoldLeft(Enter, << >>, m) \in Seq(S)
         /\ \A k \in 1..Len(m) : m[k] \in Range(FoldLeft(Enter, << >>, m))
<1> DEFINE n == Len(m)
           table == FoldLeft(Enter, << >>, m)
<1>1. PICK t : t[0] = << >> /\ (\A k \in 1..n : t[k] = Enter(t[k - 1], m[k])) /\ table = t[n]
  BY TableFold
<1>2. n \in Nat /\ \A k \in 1..n : m[k] \in S
  BY LenProperties, ElementOfSeq
<1> HIDE DEF n, table
<1> DEFINE T == {k \in 0..n : t[k] \in Seq(S) /\ \A i \in 1..k : m[i] \in Range(t[k])}
<1>3. 0 \in T
  <2>1. 0 \in 0..n /\ \A i \in 1..0 : FALSE
    BY <1>2
  <2>2. t[0] \in Seq(S)
    BY <1>1
  <2> QED
    BY <2>1, <2>2, Zenon
<1>4. ASSUME NEW k \in 0..n, k < n, k \in T
      PROVE  k + 1 \in T
  <2>1. k + 1 \in 1..n /\ k + 1 \in 0..n /\ (k + 1) - 1 = k
        /\ \A i \in 1..(k + 1) : i = k + 1 \/ i \in 1..k
    BY <1>4, <1>2
  <2>2. t[k + 1] = Enter(t[k], m[k + 1]) /\ t[k] \in Seq(S) /\ m[k + 1] \in S
    BY <2>1, <1>1, <1>2, <1>4, Zenon
  <2>3. /\ t[k + 1] \in Seq(S) /\ m[k + 1] \in Range(t[k + 1])
        /\ Range(t[k]) \subseteq Range(t[k + 1])
    BY <2>2, EnterKeeps, Zenon
  <2>4. \A i \in 1..(k + 1) : m[i] \in Range(t[k + 1])
    BY <2>1, <2>3, <1>4, Zenon
  <2> QED
    BY <2>1, <2>3, <2>4, Zenon
<1> HIDE DEF T
<1>5. 0..n \subseteq T
  BY <1>2, <1>3, <1>4, UpTo
<1>6. n \in T
  BY <1>2, <1>5
<1> QED
  BY <1>1, <1>6, Zenon DEF T, n, table

\* FlattenSeq leaves nothing out.
LEMMA FlattenHas ==
  ASSUME NEW S, NEW n \in Nat, NEW seqs \in [1..n -> Seq(S)]
  PROVE  /\ FlattenSeq(seqs) \in Seq(S)
         /\ \A k \in 1..n : Range(seqs[k]) \subseteq Range(FlattenSeq(seqs))
<1>1. CASE n = 0
  <2>1. Len(seqs) = 0 /\ seqs \in Seq(Seq(S))
    BY <1>1, FunctionIsSeq
  <2>2. FlattenSeq(seqs) = << >>
    BY <2>1, EmptySeq DEF FlattenSeq
  <2> QED
    BY <1>1, <2>2
<1>2. CASE n # 0
  <2>0. PICK t \in [0..n -> Seq(S)] : IsConcatenation(t, seqs, n) /\ t[n] = FlattenSeq(seqs)
    <3>1. n \in Nat \ {0}
      BY <1>2
    <3> QED
      BY <3>1, Concatenates, Zenon
  <2>1. t[0] = << >> /\ (\A k \in 1..n : t[k] = t[k - 1] \o seqs[k]) /\ t[n] = FlattenSeq(seqs)
    BY <2>0, Zenon DEF IsConcatenation
  <2> DEFINE T == {k \in 0..n : \A i \in 1..k : Range(seqs[i]) \subseteq Range(t[k])}
  <2>2. 0 \in T
    OBVIOUS
  <2>3. ASSUME NEW k \in 0..n, k < n, k \in T
        PROVE  k + 1 \in T
    <3>1. k + 1 \in 1..n /\ k + 1 \in 0..n /\ (k + 1) - 1 = k
          /\ \A i \in 1..(k + 1) : i = k + 1 \/ i \in 1..k
      BY <2>3
    <3>2. t[k] \in Seq(S) /\ seqs[k + 1] \in Seq(S)
      BY <3>1, Zenon
    <3>3. t[k + 1] = t[k] \o seqs[k + 1]
      BY <3>1, <2>1, Zenon
    <3>4. Range(t[k] \o seqs[k + 1]) = Range(t[k]) \union Range(seqs[k + 1])
      BY <3>2, RangeConcatenation, Zenon
    <3>5. \A i \in 1..(k + 1) : Range(seqs[i]) \subseteq Range(t[k + 1])
      BY <3>1, <3>3, <3>4, <2>3, Zenon
    <3> QED
      BY <3>1, <3>5, Zenon
  <2> HIDE DEF T
  <2>4. 0..n \subseteq T
    BY <2>2, <2>3, UpTo
  <2>5. n \in T
    BY <2>4
  <2>6. n \in 0..n
    OBVIOUS
  <2> QED
    BY <2>1, <2>5, <2>6, Zenon DEF T
<1> QED
  BY <1>1, <1>2

AllMentions(items) == Range(Mentioned(items))

LEMMA RangeIsFixed ==
  ASSUME NEW s, ASequence(s)
  PROVE  /\ Len(s) \in Nat /\ DOMAIN s = 1..Len(s)
         /\ s \in [1..Len(s) -> Range(s)]
         /\ \A i \in DOMAIN s : s[i] \in Range(s)
BY LenProperties, SeqDef, Zenon DEF ASequence, Range

\* Everything an item mentions is a mention.
LEMMA ItemMentions ==
  ASSUME NEW item, AnItem(item)
  PROVE  /\ Mentions(item) \in Seq(Range(Mentions(item)))
         /\ Range(item.evidence) \subseteq Range(Mentions(item))
         /\ \A i \in DOMAIN item.parts :
              Range(item.parts[i].evidence) \subseteq Range(Mentions(item))
<1> DEFINE p == item.parts
           n == Len(p)
           seqs == [i \in DOMAIN p |-> p[i].evidence]
           S == Range(item.evidence) \union UNION {Range(p[i].evidence) : i \in DOMAIN p}
<1>1. ASequence(item.evidence) /\ ASequence(p) /\ \A i \in DOMAIN p : ASequence(p[i].evidence)
  BY DEF AnItem, APart
<1>2. n \in Nat /\ DOMAIN p = 1..n
  BY <1>1, RangeIsFixed, Zenon
<1>3. \A i \in 1..n : seqs[i] \in Seq(S)
  <2> TAKE i \in 1..n
  <2>1. seqs[i] = p[i].evidence /\ p[i].evidence \in Seq(Range(p[i].evidence))
    BY <1>1, <1>2, Zenon DEF ASequence
  <2>2. Range(p[i].evidence) \subseteq S
    BY <1>2, Zenon
  <2> HIDE DEF S
  <2> QED
    BY <2>1, <2>2, SeqMonotonic, Zenon
<1>4. seqs \in [1..n -> Seq(S)]
  BY <1>2, <1>3, Zenon
<1>5. item.evidence \in Seq(S)
  <2>1. item.evidence \in Seq(Range(item.evidence)) /\ Range(item.evidence) \subseteq S
    BY <1>1, Zenon DEF ASequence
  <2> HIDE DEF S
  <2> QED
    BY <2>1, SeqMonotonic, Zenon
<1>a. Mentions(item) = item.evidence \o FlattenSeq(seqs)
  BY Zenon DEF Mentions
<1>b. \A i \in 1..n : seqs[i] = p[i].evidence
  BY <1>2, Zenon
<1> HIDE DEF S, n, seqs
<1>6. FlattenSeq(seqs) \in Seq(S) /\ \A k \in 1..n : Range(seqs[k]) \subseteq Range(FlattenSeq(seqs))
  BY <1>2, <1>4, FlattenHas, Zenon
<1>7. /\ Mentions(item) \in Seq(S)
      /\ Range(Mentions(item)) = Range(item.evidence) \union Range(FlattenSeq(seqs))
  <2> DEFINE u == FlattenSeq(seqs)
             e == item.evidence
  <2>1. u \in Seq(S) /\ e \in Seq(S)
    BY <1>5, <1>6, Zenon
  <2> HIDE DEF u, e
  <2>2. e \o u \in Seq(S)
    BY <2>1, ConcatAt, Zenon
  <2>3. Range(e \o u) = Range(e) \union Range(u)
    BY <2>1, RangeConcatenation, Zenon
  <2> QED
    BY <1>a, <2>2, <2>3, Zenon DEF u, e
<1>8. \A i \in DOMAIN p : Range(p[i].evidence) \subseteq Range(Mentions(item))
  BY <1>2, <1>6, <1>7, <1>b, Zenon
<1>9. Mentions(item) \in Seq(Range(Mentions(item)))
  BY <1>7, SeqOfRange, Zenon
<1> QED
  BY <1>7, <1>8, <1>9, Zenon

\* The table holds every fact that an item or a part mentions.
LEMMA TableIsWhole ==
  ASSUME NEW items, ContractSet(items)
  PROVE  /\ EvidenceTable(items) \in Seq(AllMentions(items))
         /\ \A i \in DOMAIN items :
              /\ Range(items[i].evidence) \subseteq Range(EvidenceTable(items))
              /\ \A k \in DOMAIN items[i].parts :
                   Range(items[i].parts[k].evidence) \subseteq Range(EvidenceTable(items))
<1> DEFINE n == Len(items)
           seqs == [i \in DOMAIN items |-> Mentions(items[i])]
           S == UNION {Range(Mentions(items[i])) : i \in DOMAIN items}
<1>1. n \in Nat /\ DOMAIN items = 1..n /\ \A i \in DOMAIN items : AnItem(items[i])
  BY RangeIsFixed, Zenon DEF ContractSet
<1>2. \A i \in DOMAIN items : seqs[i] \in Seq(S)
  <2> TAKE i \in DOMAIN items
  <2>1. seqs[i] \in Seq(Range(Mentions(items[i])))
    BY <1>1, ItemMentions, Zenon
  <2>2. Range(Mentions(items[i])) \subseteq S
    BY Zenon
  <2> HIDE DEF S, seqs
  <2> QED
    BY <2>1, <2>2, SeqMonotonic, Zenon
<1>3. seqs \in [1..n -> Seq(S)]
  BY <1>1, <1>2, Zenon
<1>4. Mentioned(items) = FlattenSeq(seqs) /\ \A i \in DOMAIN items : seqs[i] = Mentions(items[i])
  BY Zenon DEF Mentioned
<1> HIDE DEF S, n, seqs
<1>5. /\ Mentioned(items) \in Seq(S)
      /\ \A i \in DOMAIN items : Range(Mentions(items[i])) \subseteq AllMentions(items)
  BY <1>1, <1>3, <1>4, FlattenHas, Zenon DEF AllMentions
<1>6. Mentioned(items) \in Seq(AllMentions(items))
  BY <1>5, SeqOfRange, Zenon DEF AllMentions
<1>7. EvidenceTable(items) \in Seq(AllMentions(items)) /\ AllMentions(items) \subseteq Range(EvidenceTable(items))
  <2> DEFINE m == Mentioned(items)
  <2>1. DOMAIN m = 1..Len(m)
    BY <1>6, LenProperties, Zenon
  <2>2. /\ EvidenceTable(items) \in Seq(AllMentions(items))
        /\ \A k \in 1..Len(m) : m[k] \in Range(EvidenceTable(items))
    BY <1>6, TableBuilt, Zenon DEF EvidenceTable
  <2> HIDE DEF m
  <2>3. Range(m) \subseteq Range(EvidenceTable(items))
    BY <2>1, <2>2, Zenon DEF Range
  <2> QED
    BY <2>2, <2>3, Zenon DEF AllMentions, m
<1> QED
  BY <1>1, <1>5, <1>7, ItemMentions, Zenon

\* What refers to the table is read back from it.
LEMMA EvidenceIsRead ==
  ASSUME NEW S, NEW table \in Seq(S), NEW evidence, ASequence(evidence),
         Range(evidence) \subseteq Range(table)
  PROVE  /\ ValidIds(table, Ids(table, evidence))
         /\ Evidence(table, Ids(table, evidence)) = evidence
<1> DEFINE ids == Ids(table, evidence)
           at(i) == CHOOSE n \in DOMAIN table : table[n] = evidence[i]
<1>1. DOMAIN table = 1..Len(table) /\ Len(table) \in Nat
  BY LenProperties
<1>2. ASSUME NEW i \in DOMAIN evidence
      PROVE  at(i) \in DOMAIN table /\ table[at(i)] = evidence[i]
  <2>1. evidence[i] \in Range(table)
    BY Zenon DEF Range
  <2>2. \E n \in DOMAIN table : table[n] = evidence[i]
    BY <2>1, Zenon DEF Range
  <2> QED
    BY <2>2, Zenon
<1>3. DOMAIN ids = DOMAIN evidence /\ \A i \in DOMAIN evidence : ids[i] = at(i) - 1
  BY DEF Ids
<1> HIDE DEF at, ids
<1>4. ASSUME NEW i \in DOMAIN evidence
      PROVE  0 <= ids[i] /\ ids[i] < Len(table) /\ ids[i] + 1 = at(i)
  <2>1. ids[i] = at(i) - 1 /\ at(i) \in 1..Len(table)
    BY <1>1, <1>2, <1>3, Zenon
  <2> QED
    BY <1>1, <2>1
<1>5. ValidIds(table, ids)
  BY <1>3, <1>4, Zenon DEF ValidIds
<1>6. \A i \in DOMAIN evidence : table[ids[i] + 1] = evidence[i]
  BY <1>2, <1>4, Zenon
<1>7. evidence = [i \in DOMAIN evidence |-> evidence[i]]
  BY RangeIsFixed
<1>8. Evidence(table, ids) = [i \in DOMAIN evidence |-> table[ids[i] + 1]]
  BY <1>3, Zenon DEF Evidence
<1>9. Evidence(table, ids) = evidence
  BY <1>6, <1>7, <1>8, Zenon
<1> QED
  BY <1>5, <1>9 DEF ids

\* A base text that is left out is the text.
LEMMA BaseIsFilled ==
  ASSUME NEW item
  PROVE  Filled(BaseDelta(item), item.texts) = Filled(item.base, item.texts)
<1> DEFINE d == BaseDelta(item)
           b == item.base
           t == item.texts
           D == {x \in DOMAIN b : x \notin DOMAIN t \/ t[x] # b[x]}
<1>1. d = [k \in D |-> b[k]]
  BY Zenon DEF BaseDelta
<1>2. DOMAIN d = D /\ \A k \in D : d[k] = b[k]
  BY <1>1, Zenon
<1>3. DOMAIN d \union DOMAIN t = DOMAIN b \union DOMAIN t
  BY <1>2, Zenon
<1>4. ASSUME NEW k \in DOMAIN b \union DOMAIN t
      PROVE  (IF k \in DOMAIN d THEN d[k] ELSE t[k]) = (IF k \in DOMAIN b THEN b[k] ELSE t[k])
  BY <1>2, Zenon
<1> HIDE DEF d, b, t
<1>5. Filled(d, t) = Filled(b, t)
  BY <1>3, <1>4, Zenon DEF Filled
<1> QED
  BY <1>5, Zenon DEF d, b, t

AsKept(item) == [item EXCEPT !.base = Filled(@, item.texts)]

Whole(table, item) ==
  /\ Range(item.evidence) \subseteq Range(table)
  /\ \A k \in DOMAIN item.parts : Range(item.parts[k].evidence) \subseteq Range(table)

Item(kind, id, texts, base, evidence, parts) ==
  [kind |-> kind, id |-> id, texts |-> texts, base |-> base, evidence |-> evidence,
   parts |-> parts]

LEMMA BaseReplaced ==
  ASSUME NEW kind, NEW id, NEW texts, NEW base, NEW evidence, NEW parts, NEW other,
         NEW item, item = Item(kind, id, texts, base, evidence, parts)
  PROVE  [item EXCEPT !.base = other] = Item(kind, id, texts, other, evidence, parts)
BY DEF Item

\* An item is read back as it was written.
LEMMA ItemIsRead ==
  ASSUME NEW S, NEW table \in Seq(S), NEW item, AnItem(item), Whole(table, item)
  PROVE  /\ ValidItem(table, ItemToDict(table, item))
         /\ ItemFromDict(table, ItemToDict(table, item)) = AsKept(item)
<1> DEFINE raw == ItemToDict(table, item)
           p == item.parts
           q == [i \in DOMAIN p |-> [name |-> p[i].name, evidence |-> Ids(table, p[i].evidence)]]
           ids == Ids(table, item.evidence)
           delta == BaseDelta(item)
<1>1. raw = [kind |-> item.kind, id |-> item.id, texts |-> item.texts, base |-> delta,
             evidence |-> ids, parts |-> q]
  BY Zenon DEF ItemToDict
<1> HIDE DEF raw
<1>2. /\ raw.kind = item.kind /\ raw.id = item.id /\ raw.texts = item.texts
      /\ raw.base = delta /\ raw.evidence = ids /\ raw.parts = q
  BY <1>1, Zenon
<1>3. ASequence(item.evidence) /\ ASequence(p) /\ \A i \in DOMAIN p : APart(p[i])
  BY Zenon DEF AnItem
<1>4. DOMAIN q = DOMAIN p
      /\ \A i \in DOMAIN p : q[i].name = p[i].name /\ q[i].evidence = Ids(table, p[i].evidence)
  OBVIOUS
<1> HIDE DEF q
<1>5. ValidIds(table, ids) /\ Evidence(table, ids) = item.evidence
  BY <1>3, EvidenceIsRead, Zenon DEF Whole
<1>6. ASSUME NEW i \in DOMAIN p
      PROVE  /\ ValidIds(table, q[i].evidence)
             /\ Evidence(table, q[i].evidence) = p[i].evidence
  <2>1. ASequence(p[i].evidence) /\ Range(p[i].evidence) \subseteq Range(table)
    BY <1>3, Zenon DEF APart, Whole
  <2> QED
    BY <1>4, <2>1, EvidenceIsRead, Zenon
<1>7. raw.kind = "contract" => IsInjective([i \in DOMAIN raw.parts |-> raw.parts[i].name])
  <2>1. [i \in DOMAIN q |-> q[i].name] = [i \in DOMAIN p |-> p[i].name]
    BY <1>4, Zenon
  <2>2. item.kind = "contract" => IsInjective([i \in DOMAIN p |-> p[i].name])
    BY Zenon DEF AnItem
  <2> QED
    BY <1>2, <2>1, <2>2, Zenon
<1>8. ValidItem(table, raw)
  BY <1>2, <1>4, <1>5, <1>6, <1>7, Zenon DEF ValidItem
<1>9. [i \in DOMAIN q |-> [name |-> q[i].name, evidence |-> Evidence(table, q[i].evidence)]] = p
  <2>1. \A i \in DOMAIN p : [name |-> q[i].name, evidence |-> Evidence(table, q[i].evidence)] = p[i]
    BY <1>3, <1>4, <1>6, Zenon DEF APart
  <2>2. p = [i \in DOMAIN p |-> p[i]]
    BY <1>3, RangeIsFixed
  <2> QED
    BY <1>4, <2>1, <2>2, Zenon
<1>10. Filled(raw.base, raw.texts) = Filled(item.base, item.texts)
  BY <1>2, BaseIsFilled, Zenon
<1>11. ItemFromDict(table, raw)
         = [kind |-> item.kind, id |-> item.id, texts |-> item.texts,
            base |-> Filled(item.base, item.texts), evidence |-> item.evidence, parts |-> p]
  BY <1>2, <1>5, <1>9, <1>10, Zenon DEF ItemFromDict
<1>12. AsKept(item)
         = [kind |-> item.kind, id |-> item.id, texts |-> item.texts,
            base |-> Filled(item.base, item.texts), evidence |-> item.evidence, parts |-> p]
  <2>1. item = [kind |-> item.kind, id |-> item.id, texts |-> item.texts, base |-> item.base,
             evidence |-> item.evidence, parts |-> item.parts]
    BY Zenon DEF AnItem
  <2> DEFINE f == Filled(item.base, item.texts)
  <2>2. AsKept(item) = [item EXCEPT !.base = f]
    BY DEF AsKept
  <2> HIDE DEF f
  <2> DEFINE kind == item.kind
             id == item.id
             texts == item.texts
             base == item.base
             evidence == item.evidence
  <2>3. item = Item(kind, id, texts, base, evidence, p)
    BY <2>1, Zenon DEF Item
  <2> HIDE DEF kind, id, texts, base, evidence, p
  <2>4. [item EXCEPT !.base = f] = Item(kind, id, texts, f, evidence, p)
    BY <2>3, BaseReplaced
  <2> QED
    BY <2>2, <2>4, Zenon DEF Item, f, kind, id, texts, base, evidence, p
<1> QED
  BY <1>8, <1>11, <1>12, Zenon DEF raw

LEMMA DocumentIsLoaded ==
  ASSUME NEW items, ContractSet(items)
  PROVE  Loads(Document(items)) = Normalised(items)
<1> DEFINE table == EvidenceTable(items)
           doc == Document(items)
           dicts == [i \in DOMAIN items |-> ItemToDict(table, items[i])]
<1>1. doc = [version |-> Version, evidence |-> table, items |-> dicts]
  BY Zenon DEF Document
<1> HIDE DEF doc
<1>2. doc.version = Version /\ doc.evidence = table /\ doc.items = dicts
  BY <1>1, Zenon
<1>3. DOMAIN dicts = DOMAIN items /\ \A i \in DOMAIN items : dicts[i] = ItemToDict(table, items[i])
  BY Zenon
<1> HIDE DEF dicts, table
<1>4. ASSUME NEW i \in DOMAIN items
      PROVE  /\ ValidItem(table, dicts[i])
             /\ ItemFromDict(table, dicts[i]) = AsKept(items[i])
  <2>1. table \in Seq(AllMentions(items)) /\ Whole(table, items[i]) /\ AnItem(items[i])
    BY TableIsWhole, Zenon DEF Whole, ContractSet, table
  <2> QED
    BY <1>3, <2>1, ItemIsRead, Zenon
<1>5. Loads(doc) = [i \in DOMAIN items |-> ItemFromDict(table, dicts[i])]
  BY <1>2, <1>3, <1>4, Zenon DEF Loads
<1>6. Loads(doc) = [i \in DOMAIN items |-> AsKept(items[i])]
  BY <1>4, <1>5, Zenon
<1> QED
  BY <1>6, Zenon DEF Normalised, AsKept, doc

\* The lines of a helper's result, by what they hold.
Stated(d)  == [type |-> "evidence", data |-> d]
Listed(d)  == [type |-> "item", data |-> d]
Reading(e, i, f) == [evidence |-> e, items |-> i, outcome |-> f]

WithFact(read, x) == [read EXCEPT !.evidence = Append(@, x)]
WithItem(read, x) == [read EXCEPT !.items = Append(@, x)]
Failed(read)      == [read EXCEPT !.outcome = "invalid"]

LEMMA FactRead ==
  ASSUME NEW e, NEW i, NEW f, NEW x
  PROVE  WithFact(Reading(e, i, f), x) = Reading(Append(e, x), i, f)
BY DEF WithFact, Reading

LEMMA ItemRead ==
  ASSUME NEW e, NEW i, NEW f, NEW x
  PROVE  WithItem(Reading(e, i, f), x) = Reading(e, Append(i, x), f)
BY DEF WithItem, Reading

LEMMA ReadEdits ==
  ASSUME NEW e, NEW i, NEW f
  PROVE  Failed(Reading(e, i, f)) = Reading(e, i, "invalid") /\ Reading(e, i, f).evidence = e
BY DEF Failed, Reading

LEMMA LineParts ==
  ASSUME NEW d
  PROVE  /\ Stated(d).type = "evidence" /\ Stated(d).data = d
         /\ Listed(d).type = "item" /\ Listed(d).data = d
BY DEF Stated, Listed

LEMMA ReadCases ==
  ASSUME NEW read, NEW line
  PROVE  /\ line.type = "evidence" => ReadLine(read, line) = WithFact(read, line.data)
         /\ line.type = "item" /\ ValidItem(read.evidence, line.data) =>
              ReadLine(read, line) = WithItem(read, ItemFromDict(read.evidence, line.data))
         /\ line.type = "item" /\ ~ValidItem(read.evidence, line.data) =>
              ReadLine(read, line) = Failed(read)
BY DEF ReadLine, WithFact, WithItem, Failed

LEMMA StatedRead ==
  ASSUME NEW e, NEW i, NEW f, NEW d
  PROVE  ReadLine(Reading(e, i, f), Stated(d)) = Reading(Append(e, d), i, f)
<1> DEFINE line == Stated(d)
           read == Reading(e, i, f)
<1>1. line.type = "evidence" /\ line.data = d
  BY LineParts, Zenon
<1>2. read.evidence = e
  BY ReadEdits, Zenon
<1>3. WithFact(read, d) = Reading(Append(e, d), i, f)
  BY FactRead, Zenon
<1> HIDE DEF line, read
<1>4. ReadLine(read, line) = WithFact(read, line.data)
  BY <1>1, <1>2, ReadCases, Zenon
<1>5. ReadLine(read, line) = WithFact(read, d)
  BY <1>1, <1>2, <1>4, Zenon
<1> QED
  BY <1>3, <1>5, Zenon DEF line, read

LEMMA ListedRead ==
  ASSUME NEW e, NEW i, NEW f, NEW d, ValidItem(e, d)
  PROVE  ReadLine(Reading(e, i, f), Listed(d)) = Reading(e, Append(i, ItemFromDict(e, d)), f)
<1> DEFINE line == Listed(d)
           read == Reading(e, i, f)
<1>1. line.type = "item" /\ line.data = d
  BY LineParts, Zenon
<1>2. read.evidence = e
  BY ReadEdits, Zenon
<1>3. WithItem(read, ItemFromDict(e, d)) = Reading(e, Append(i, ItemFromDict(e, d)), f)
  <2> DEFINE x == ItemFromDict(e, d)
  <2> HIDE DEF x
  <2>1. WithItem(read, x) = Reading(e, Append(i, x), f)
    BY ItemRead
  <2> QED
    BY <2>1 DEF x
<1> HIDE DEF line, read
<1>4. ReadLine(read, line) = WithItem(read, ItemFromDict(read.evidence, line.data))
  BY <1>1, <1>2, ReadCases, Zenon
<1>5. ReadLine(read, line) = WithItem(read, ItemFromDict(e, d))
  BY <1>1, <1>2, <1>4, Zenon
<1> QED
  BY <1>3, <1>5, Zenon DEF line, read

LEMMA InvalidRead ==
  ASSUME NEW e, NEW i, NEW f, NEW d, ~ValidItem(e, d)
  PROVE  ReadLine(Reading(e, i, f), Listed(d)) = Reading(e, i, "invalid")
<1> DEFINE line == Listed(d)
           read == Reading(e, i, f)
<1>1. line.type = "item" /\ line.data = d
  BY LineParts, Zenon
<1>2. read.evidence = e
  BY ReadEdits, Zenon
<1>3. Failed(read) = Reading(e, i, "invalid")
  BY ReadEdits, Zenon
<1> HIDE DEF line, read
<1>4. ReadLine(read, line) = Failed(read)
  BY <1>1, <1>2, ReadCases, Zenon
<1>5. ReadLine(read, line) = Failed(read)
  BY <1>1, <1>2, <1>4, Zenon
<1> QED
  BY <1>3, <1>5, Zenon DEF line, read

Readings(F, I) == [evidence : Seq(F), items : Seq(I), outcome : {"read", "invalid"}]

LEMMA ReadingTyped ==
  ASSUME NEW F, NEW I, NEW e \in Seq(F), NEW i \in Seq(I), NEW f \in {"read", "invalid"}
  PROVE  Reading(e, i, f) \in Readings(F, I)
BY DEF Reading, Readings

LEMMA ReadTyped ==
  ASSUME NEW F, NEW R, NEW I, \A e \in Seq(F) : \A d \in R : ItemFromDict(e, d) \in I,
         NEW v \in Readings(F, I),
         NEW line \in {Stated(d) : d \in F} \union {Listed(d) : d \in R}
  PROVE  ReadLine(v, line) \in Readings(F, I)
<1>1. PICK e \in Seq(F), i \in Seq(I), f \in {"read", "invalid"} : v = Reading(e, i, f)
  <2>1. /\ v.evidence \in Seq(F) /\ v.items \in Seq(I) /\ v.outcome \in {"read", "invalid"}
        /\ v = Reading(v.evidence, v.items, v.outcome)
    BY DEF Readings, Reading
  <2> QED
    BY <2>1, Zenon
<1>2. CASE line \in {Stated(d) : d \in F}
  <2>1. PICK d \in F : line = Stated(d)
    BY <1>2
  <2>2. Append(e, d) \in Seq(F)
    BY AppendProperties, Zenon
  <2>3. ReadLine(v, line) = Reading(Append(e, d), i, f)
    BY <1>1, <2>1, StatedRead, Zenon
  <2> QED
    BY <2>2, <2>3, ReadingTyped, Zenon
<1>3. CASE line \in {Listed(d) : d \in R}
  <2>1. PICK d \in R : line = Listed(d)
    BY <1>3
  <2>2. Append(i, ItemFromDict(e, d)) \in Seq(I)
    BY AppendProperties, Zenon
  <2>3. CASE ValidItem(e, d)
    <3>1. ReadLine(v, line) = Reading(e, Append(i, ItemFromDict(e, d)), f)
      BY <1>1, <2>1, <2>3, ListedRead, Zenon
    <3> QED
      BY <2>2, <3>1, ReadingTyped, Zenon
  <2>4. CASE ~ValidItem(e, d)
    <3>1. ReadLine(v, line) = Reading(e, i, "invalid") /\ "invalid" \in {"read", "invalid"}
      BY <1>1, <2>1, <2>4, InvalidRead, Zenon
    <3> QED
      BY <3>1, ReadingTyped, Zenon
  <2> QED
    BY <2>3, <2>4
<1> QED
  BY <1>2, <1>3

LEMMA LinesFold ==
  ASSUME NEW F, NEW R, NEW m \in Seq({Stated(d) : d \in F} \union {Listed(d) : d \in R})
  PROVE  \E t : /\ t[0] = NothingRead
                /\ \A k \in 1..Len(m) : t[k] = ReadLine(t[k - 1], m[k])
                /\ FoldLeft(ReadLine, NothingRead, m) = t[Len(m)]
<1> DEFINE n == Len(m)
           W == {Stated(d) : d \in F} \union {Listed(d) : d \in R}
           I == {ItemFromDict(x[1], x[2]) : x \in Seq(F) \X R}
           V == Readings(F, I)
           op == [p \in V \X W |-> ReadLine(p[1], p[2])]
           Def(f) == [s \in SUBSET DOMAIN m |->
                        IF s = {} THEN NothingRead ELSE ReadLine(f[s \ {Max(s)}], m[Max(s)])]
           iter == CHOOSE f : f = Def(f)
<1>1. n \in Nat /\ DOMAIN m = 1..n /\ m \in [1..n -> W]
  BY LenProperties, SeqDef
<1>a. \A e \in Seq(F) : \A d \in R : ItemFromDict(e, d) \in I
  <2> SUFFICES ASSUME NEW e \in Seq(F), NEW d \in R PROVE ItemFromDict(e, d) \in I
    BY Zenon
  <2>1. << e, d >> \in Seq(F) \X R /\ << e, d >>[1] = e /\ << e, d >>[2] = d
    OBVIOUS
  <2> QED
    BY <2>1, Zenon
<1> HIDE DEF I
<1>b. ASSUME NEW v \in V, NEW w \in W
      PROVE  ReadLine(v, w) \in V
  BY <1>a, ReadTyped, Zenon
<1>c. NothingRead \in V
  <2>1. << >> \in Seq(F) /\ << >> \in Seq(I) /\ "read" \in {"read", "invalid"}
    OBVIOUS
  <2> QED
    BY <2>1, ReadingTyped, Zenon DEF NothingRead, Reading
<1> HIDE DEF V, W, n
<1>2. op \in [V \X W -> V]
  BY <1>b
<1>3. \A v \in V, w \in W : op[<< v, w >>] = ReadLine(v, w)
  OBVIOUS
<1>4. FoldLeft(ReadLine, NothingRead, m) = iter[1..n]
  <2>1. FoldLeft(ReadLine, NothingRead, m) = iter[DOMAIN m]
    BY Zenon DEF FoldLeft, MapThenFoldSet
  <2> QED
    BY <2>1, <1>1, Zenon
<1> HIDE DEF op
<1>5. PICK f \in [SUBSET (1..n) -> V] : IsFold(f, NothingRead, m, op, n)
  BY <1>1, <1>2, <1>c, FoldExists, Zenon
<1>6. f = Def(f)
  <2>1. ASSUME NEW s \in SUBSET (1..n)
        PROVE  f[s] = IF s = {} THEN NothingRead ELSE ReadLine(f[s \ {Max(s)}], m[Max(s)])
    <3>1. CASE s = {}
      BY <3>1, <1>5, Zenon DEF IsFold
    <3>2. CASE s # {}
      <4>1. s \ {Max(s)} \in SUBSET (1..n)
        BY Zenon
      <4>2. f[s \ {Max(s)}] \in V
        BY <4>1, Zenon
      <4>3. Max(s) \in 1..n
        <5>1. s \in SUBSET (0..n)
          BY <1>1
        <5>2. Max(s) \in s
          BY <1>1, <3>2, <5>1, MaxFact, Zenon
        <5> QED
          BY <5>2
      <4>4. m[Max(s)] \in W
        BY <1>1, <4>3, Zenon
      <4>5. f[s] = op[<< f[s \ {Max(s)}], m[Max(s)] >>]
        BY <3>2, <1>5, Zenon DEF IsFold
      <4> QED
        BY <3>2, <4>2, <4>4, <4>5, <1>3, Zenon
    <3> QED
      BY <3>1, <3>2
  <2> QED
    BY <2>1, <1>1, Zenon
<1>7. iter = Def(iter)
  BY <1>6, Zenon
<1> HIDE DEF iter
<1> DEFINE t == [k \in 0..n |-> iter[1..k]]
<1>8. t[0] = NothingRead /\ iter[1..n] = t[n]
  <2>1. iter[{}] = NothingRead
    BY <1>7, Zenon
  <2> QED
    BY <2>1, <1>1, Runs, Zenon
<1>9. \A k \in 1..n : t[k] = ReadLine(t[k - 1], m[k])
  <2> TAKE k \in 1..n
  <2>1. t[k] = iter[1..k] /\ t[k - 1] = iter[1..(k - 1)]
    BY <1>1, Runs, Zenon
  <2>2. Max(1..k) = k /\ (1..k) \ {k} = 1..(k - 1) /\ 1..k # {} /\ 1..k \in SUBSET DOMAIN m
    BY <1>1, Runs, LastOfRun, Zenon
  <2>3. iter[1..k] = ReadLine(iter[(1..k) \ {Max(1..k)}], m[Max(1..k)])
    BY <1>7, <2>2, Zenon
  <2> QED
    BY <2>1, <2>2, <2>3, Zenon
<1> QED
  BY <1>4, <1>8, <1>9, Zenon DEF n

First(s, k) == [i \in 1..k |-> s[i]]

LEMMA FirstGrows ==
  ASSUME NEW s, NEW k \in Nat
  PROVE  Append(First(s, k), s[k + 1]) = First(s, k + 1)
<1> DEFINE S == {s[i] : i \in 1..(k + 1)}
           a == First(s, k)
           b == First(s, k + 1)
<1>1. k + 1 \in Nat /\ k + 1 \in 1..(k + 1) /\ \A i \in 1..k : i \in 1..(k + 1)
  OBVIOUS
<1>2. s[k + 1] \in S /\ \A i \in 1..(k + 1) : s[i] \in S
  BY <1>1, Zenon
<1> HIDE DEF S
<1>3. a \in [1..k -> S] /\ b \in [1..(k + 1) -> S]
  BY <1>1, <1>2, Zenon DEF First
<1>4. a \in Seq(S) /\ Len(a) = k /\ b \in Seq(S) /\ Len(b) = k + 1
  BY <1>1, <1>3, FunctionIsSeq, Zenon
<1>5. (\A i \in 1..k : a[i] = s[i]) /\ (\A i \in 1..(k + 1) : b[i] = s[i])
  BY Zenon DEF First
<1> HIDE DEF a, b
<1> DEFINE c == Append(a, s[k + 1])
<1>6. c \in Seq(S) /\ Len(c) = k + 1 /\ c[k + 1] = s[k + 1] /\ \A i \in 1..k : c[i] = a[i]
  BY <1>2, <1>4, AppendProperties
<1> HIDE DEF c
<1>7. \A i \in 1..(k + 1) : i = k + 1 \/ i \in 1..k
  OBVIOUS
<1>8. \A i \in 1..Len(c) : c[i] = b[i]
  BY <1>1, <1>5, <1>6, <1>7, Zenon
<1>9. c = b
  BY <1>4, <1>6, <1>8, SeqEqual, Zenon
<1> QED
  BY <1>9, Zenon DEF a, b, c

LEMMA FirstIsAll ==
  ASSUME NEW S, NEW s \in Seq(S)
  PROVE  First(s, Len(s)) = s
BY LenProperties DEF First

LEMMA FirstIsNone == \A s : First(s, 0) = << >>
<1> SUFFICES ASSUME NEW s PROVE First(s, 0) = << >>
  OBVIOUS
<1>1. First(s, 0) \in Seq({s[i] : i \in {}}) /\ Len(First(s, 0)) = 0
  <2> DEFINE S == {s[i] : i \in {}}
             f == First(s, 0)
  <2>1. f \in [1..0 -> S]
    BY Runs DEF First
  <2>2. 0 \in Nat
    OBVIOUS
  <2> HIDE DEF S, f
  <2>3. f \in Seq(S) /\ Len(f) = 0
    BY <2>1, <2>2, FunctionIsSeq, Zenon
  <2> QED
    BY <2>3 DEF S, f
<1> QED
  BY <1>1, EmptySeq

\* The evidence lines build the table, and then the item lines the items.
LEMMA BodyIsRead ==
  ASSUME NEW F, NEW table \in Seq(F), NEW R, NEW raws \in Seq(R),
         \A j \in 1..Len(raws) : ValidItem(table, raws[j])
  PROVE  FoldLeft(ReadLine, NothingRead,
                  [i \in DOMAIN table |-> Stated(table[i])] \o [j \in DOMAIN raws |-> Listed(raws[j])])
           = Reading(table, [j \in DOMAIN raws |-> ItemFromDict(table, raws[j])], "read")
<1> DEFINE W == {Stated(d) : d \in F} \union {Listed(d) : d \in R}
           n == Len(table)
           p == Len(raws)
           a == [i \in DOMAIN table |-> Stated(table[i])]
           b == [j \in DOMAIN raws |-> Listed(raws[j])]
           m == a \o b
           out == [j \in DOMAIN raws |-> ItemFromDict(table, raws[j])]
<1>1. /\ n \in Nat /\ DOMAIN table = 1..n /\ (\A i \in 1..n : table[i] \in F)
      /\ p \in Nat /\ DOMAIN raws = 1..p /\ (\A j \in 1..p : raws[j] \in R)
  BY LenProperties, ElementOfSeq
<1> HIDE DEF n, p
<1>2. a \in [1..n -> W] /\ b \in [1..p -> W]
  BY <1>1, Zenon
<1>3. (\A i \in 1..n : a[i] = Stated(table[i])) /\ (\A j \in 1..p : b[j] = Listed(raws[j]))
  BY <1>1, Zenon
<1>4. \A j \in 1..p : out[j] = ItemFromDict(table, raws[j])
  BY <1>1, Zenon
<1>o. out = First(out, p)
  BY <1>1, Zenon DEF First
<1> HIDE DEF W, a, b, out
<1>5. a \in Seq(W) /\ Len(a) = n /\ b \in Seq(W) /\ Len(b) = p
  BY <1>1, <1>2, FunctionIsSeq, Zenon
<1>6. /\ m \in Seq(W) /\ Len(m) = n + p
      /\ (\A i \in 1..n : m[i] = Stated(table[i]))
      /\ (\A j \in 1..p : m[n + j] = Listed(raws[j]))
  <2>1. /\ a \o b \in Seq(W) /\ Len(a \o b) = Len(a) + Len(b)
        /\ \A i \in 1 .. Len(a) : (a \o b)[i] = a[i]
        /\ \A k \in 1 .. Len(b) : (a \o b)[Len(a) + k] = b[k]
    <3>1. a \in Seq(W) /\ b \in Seq(W)
      BY <1>5, Zenon
    <3> QED
      BY <3>1, ConcatAt
  <2> QED
    BY <2>1, <1>3, <1>5, Zenon
<1> HIDE DEF m
<1>7. PICK t : /\ t[0] = NothingRead
               /\ \A k \in 1..Len(m) : t[k] = ReadLine(t[k - 1], m[k])
               /\ FoldLeft(ReadLine, NothingRead, m) = t[Len(m)]
  BY <1>6, LinesFold, Zenon DEF W
<1>8. \A k \in 1..(n + p) : t[k] = ReadLine(t[k - 1], m[k])
  BY <1>6, <1>7, Zenon
<1> DEFINE T == {k \in 0..n : t[k] = Reading(First(table, k), << >>, "read")}
<1>9. 0 \in T
  <2>1. t[0] = Reading(First(table, 0), << >>, "read")
    BY <1>7, FirstIsNone, Zenon DEF NothingRead, Reading
  <2> QED
    BY <1>1, <2>1
<1>10. ASSUME NEW k \in 0..n, k < n, k \in T
       PROVE  k + 1 \in T
  <2>1. /\ k + 1 \in 1..n /\ k + 1 \in 0..n /\ (k + 1) - 1 = k /\ k \in Nat
        /\ k + 1 \in 1..(n + p)
    BY <1>1, <1>10
  <2>2. t[k + 1] = ReadLine(t[k], Stated(table[k + 1]))
    BY <2>1, <1>6, <1>8, Zenon
  <2>3. t[k] = Reading(First(table, k), << >>, "read")
    BY <1>10, Zenon
  <2>4. t[k + 1] = Reading(Append(First(table, k), table[k + 1]), << >>, "read")
    <3> DEFINE e == First(table, k)
               d == table[k + 1]
    <3> HIDE DEF e, d
    <3>1. ReadLine(Reading(e, << >>, "read"), Stated(d)) = Reading(Append(e, d), << >>, "read")
      BY StatedRead
    <3> QED
      BY <2>2, <2>3, <3>1, Zenon DEF e, d
  <2> QED
    BY <2>1, <2>4, FirstGrows, Zenon
<1> HIDE DEF T
<1>11. t[n] = Reading(table, << >>, "read")
  <2>1. 0..n \subseteq T
    BY <1>1, <1>9, <1>10, UpTo
  <2>2. n \in T
    BY <1>1, <2>1
  <2> QED
    BY <2>2, FirstIsAll, Zenon DEF T, n
<1> DEFINE U == {j \in 0..p : t[n + j] = Reading(table, First(out, j), "read")}
<1>12. 0 \in U
  <2>1. n + 0 = n /\ 0 \in 0..p
    BY <1>1
  <2> QED
    BY <1>11, <2>1, FirstIsNone, Zenon
<1>13. ASSUME NEW j \in 0..p, j < p, j \in U
       PROVE  j + 1 \in U
  <2>1. /\ j + 1 \in 1..p /\ j + 1 \in 0..p /\ j \in Nat
        /\ n + (j + 1) \in 1..(n + p) /\ (n + (j + 1)) - 1 = n + j
    BY <1>1, <1>13
  <2>2. t[n + (j + 1)] = ReadLine(t[n + j], Listed(raws[j + 1]))
    BY <2>1, <1>6, <1>8, Zenon
  <2>3. t[n + j] = Reading(table, First(out, j), "read")
    BY <1>13, Zenon
  <2>4. ValidItem(table, raws[j + 1])
    BY <2>1, Zenon DEF p
  <2>5. t[n + (j + 1)] = Reading(table, Append(First(out, j), ItemFromDict(table, raws[j + 1])), "read")
    <3> DEFINE i == First(out, j)
               d == raws[j + 1]
    <3>1. ValidItem(table, d)
      BY <2>4
    <3> HIDE DEF i, d
    <3>2. ReadLine(Reading(table, i, "read"), Listed(d))
            = Reading(table, Append(i, ItemFromDict(table, d)), "read")
      BY <3>1, ListedRead
    <3> QED
      BY <2>2, <2>3, <3>2, Zenon DEF i, d
  <2>6. ItemFromDict(table, raws[j + 1]) = out[j + 1]
    BY <2>1, <1>4, Zenon
  <2> QED
    BY <2>1, <2>5, <2>6, FirstGrows, Zenon
<1> HIDE DEF U
<1>14. t[n + p] = Reading(table, out, "read")
  <2>1. 0..p \subseteq U
    BY <1>1, <1>12, <1>13, UpTo
  <2>2. p \in U
    BY <1>1, <2>1
  <2> QED
    BY <2>2, <1>o, Zenon DEF U
<1>15. FoldLeft(ReadLine, NothingRead, m) = Reading(table, out, "read")
  BY <1>6, <1>7, <1>14, Zenon
<1> QED
  BY <1>15, Zenon DEF m, a, b, out

LEMMA LinesAreLoaded ==
  ASSUME NEW items, ContractSet(items)
  PROVE  LoadLines(Lines(items)) = Normalised(items)
<1> DEFINE table == EvidenceTable(items)
           doc == Document(items)
           raws == [i \in DOMAIN items |-> ItemToDict(table, items[i])]
           a == [i \in DOMAIN table |-> Stated(table[i])]
           b == [j \in DOMAIN raws |-> Listed(raws[j])]
           header == [type |-> "header", data |-> Version]
           lines == Lines(items)
           out == [j \in DOMAIN raws |-> ItemFromDict(table, raws[j])]
           R == {ItemToDict(table, items[i]) : i \in DOMAIN items}
           W == {header} \union {Stated(table[i]) : i \in DOMAIN table}
                         \union {Listed(raws[j]) : j \in DOMAIN raws}
<1>1. doc = [version |-> Version, evidence |-> table, items |-> raws]
  BY Zenon DEF Document
<1> HIDE DEF doc
<1>2. doc.version = Version /\ doc.evidence = table /\ doc.items = raws
  BY <1>1, Zenon
<1>3. lines = << header >> \o a \o b
  BY <1>2, Zenon DEF Lines, doc, Stated, Listed
<1>4. /\ Len(items) \in Nat /\ DOMAIN items = 1..Len(items)
      /\ table \in Seq(AllMentions(items))
      /\ \A i \in DOMAIN items : Whole(table, items[i]) /\ AnItem(items[i])
  BY TableIsWhole, RangeIsFixed, Zenon DEF ContractSet, Whole
<1>5. DOMAIN raws = DOMAIN items /\ \A i \in DOMAIN items : raws[i] = ItemToDict(table, items[i])
  BY Zenon
<1>6. raws \in [1..Len(items) -> R]
  BY <1>4, Zenon
<1> HIDE DEF lines, table, raws, R
<1>7. raws \in Seq(R) /\ Len(raws) = Len(items)
  BY <1>4, <1>6, FunctionIsSeq, Zenon
<1>8. \A i \in DOMAIN items :
        ValidItem(table, raws[i]) /\ ItemFromDict(table, raws[i]) = AsKept(items[i])
  BY <1>4, <1>5, ItemIsRead, Zenon
<1>9. FoldLeft(ReadLine, NothingRead, a \o b) = Reading(table, out, "read")
  <2>1. \A j \in 1..Len(raws) : ValidItem(table, raws[j])
    BY <1>4, <1>7, <1>8, Zenon
  <2> QED
    BY <1>4, <1>7, <2>1, BodyIsRead, Zenon
<1>10. out = [i \in DOMAIN items |-> AsKept(items[i])]
  BY <1>5, <1>8, Zenon
<1>11. a \in Seq(W) /\ b \in Seq(W) /\ header \in W
  <2>1. DOMAIN table = 1..Len(table) /\ Len(table) \in Nat
    BY <1>4, LenProperties
  <2>2. a \in [1..Len(table) -> W]
    BY <2>1, Zenon
  <2>3. b \in [1..Len(items) -> W]
    BY <1>4, <1>5, Zenon
  <2>4. header \in W
    BY Zenon
  <2> HIDE DEF W, a, b, header
  <2> QED
    BY <1>4, <2>1, <2>2, <2>3, <2>4, FunctionIsSeq, Zenon
<1>h. header.type = "header" /\ header.data = Version
  OBVIOUS
<1> HIDE DEF W, a, b, out, header
<1>12. lines # << >> /\ lines[1] = header /\ Tail(lines) = a \o b
  <2>1. << header >> \in Seq(W) /\ a \o b \in Seq(W)
    BY <1>11, ConcatAt
  <2>2. lines = << header >> \o (a \o b)
    <3> DEFINE h == << header >>
    <3>1. h \in Seq(W) /\ a \in Seq(W) /\ b \in Seq(W)
      BY <1>11, <2>1
    <3>2. lines = (h \o a) \o b
      BY <1>3
    <3> HIDE DEF h
    <3>3. (h \o a) \o b = h \o (a \o b)
      BY <3>1, ConcatAssociative
    <3> QED
      BY <3>2, <3>3 DEF h
  <2> DEFINE body == a \o b
  <2> HIDE DEF body
  <2>3. body \in Seq(W) /\ lines = << header >> \o body
    BY <2>1, <2>2 DEF body
  <2>4. lines \in Seq(W) /\ lines # << >> /\ lines[1] = header /\ Tail(lines) = body
    BY <1>11, <2>3
  <2> QED
    BY <2>4, Zenon DEF body
<1>13. /\ Reading(table, out, "read").outcome # "invalid"
       /\ Reading(table, out, "read").items = out
  BY DEF Reading
<1>14. LoadLines(lines) = out
  BY <1>9, <1>12, <1>13, <1>h, Zenon DEF LoadLines
<1> QED
  BY <1>10, <1>14, Zenon DEF Normalised, AsKept, lines

\* Both readers return what was written, for every set of contracts.
THEOREM WrittenIsRead == \A items : ContractSet(items) => RoundTrip(items)
BY DocumentIsLoaded, LinesAreLoaded DEF RoundTrip

-----------------------------------------------------------------------------
(***************************************************************************)
(* The cache of contracts, for any windows, languages and builds.  The     *)
(* name that an operation computed stays that of its language and of its   *)
(* window's version, and the archive that a read opened is never a later   *)
(* one than the archive it names its file after.  So a file is torn or     *)
(* holds what a read for its name's language and version returns: of the   *)
(* archive in its name or, if it was moved, of an earlier one.             *)
(***************************************************************************)
Stages    == {"open", "read", "reading", "save", "write", "deliver"}
Written(scope) == Document(ArchiveContracts[scope])
AsRead(scope)  == Normalised(ArchiveContracts[scope])
Texts     == {Nothing, Invalid} \union {Written(scope) : scope \in Cache!Scope}
CacheFiles == [text : Texts, writers : SUBSET Windows]
CacheJobs == [stage : Stages, kind : {"load", "read"}, language : Languages,
              path : Cache!Keys \union {Nothing}, from : Cache!Builds]
Results   == [scope : Cache!Scope, contracts : {AsRead(scope) : scope \in Cache!Scope},
              excepted : BOOLEAN]

CacheTyped ==
  /\ archive \in Cache!Builds /\ present \in BOOLEAN /\ manifest \in Cache!Builds
  /\ install \in [Windows -> Cache!Builds]
  /\ caches \in [Cache!Keys -> CacheFiles]
  /\ job \in [Windows -> CacheJobs \union {Nothing}]
  /\ loaded \in [Windows -> Results \union {Nothing}]

\* The scope a cache file's name stands for.
ScopeOfKey(k) == [language |-> k.language, version |-> k.version, build |-> k.fingerprint]

\* Who opens, saves or writes a file has computed its name.
NamesAreKept ==
  \A w \in Windows :
    /\ Cache!At(w, "open") /\ job[w].path # Nothing =>
         ScopeOfKey(job[w].path) = Cache!ScopeOf(w)
    /\ Cache!At(w, "save") \/ Cache!At(w, "write") =>
         /\ job[w].path # Nothing
         /\ job[w].path.language = job[w].language
         /\ job[w].path.version = install[w]
         /\ job[w].from <= job[w].path.fingerprint

\* No read is of an archive that is yet to come.
ReadsOfThePast ==
  \A w \in Windows : job[w] # Nothing => job[w].from <= archive

\* The document is of the scope's archive, or of an earlier one in a file that
\* was moved.
Held(scope, text, excepted) ==
  \E build \in 1 .. scope.build :
    /\ text = Written([scope EXCEPT !.build = build])
    /\ build = scope.build \/ excepted

NamedFile(k) ==
  caches[k].text \in {Nothing, Invalid} \/ Held(ScopeOfKey(k), caches[k].text, k \in moved)

FilesAreNamed == \A k \in Cache!Keys : NamedFile(k)

Asked(result) ==
  \E build \in 1 .. result.scope.build :
    /\ result.contracts = AsRead([result.scope EXCEPT !.build = build])
    /\ build = result.scope.build \/ result.excepted

LoadedIsAsked == \A w \in Windows : loaded[w] # Nothing => Asked(loaded[w])

CacheInv == CacheTyped /\ NamesAreKept /\ ReadsOfThePast /\ FilesAreNamed /\ LoadedIsAsked

LEMMA CodecKeeps ==
  ASSUME NEW scope \in Cache!Scope
  PROVE  /\ Written(scope) \notin {Nothing, Invalid}
         /\ Loads(Written(scope)) = AsRead(scope)
<1>1. ContractSet(ArchiveContracts[scope]) /\ Document(ArchiveContracts[scope]) \notin {Nothing, Invalid}
  BY CacheConstants
<1>2. Loads(Document(ArchiveContracts[scope])) = Normalised(ArchiveContracts[scope])
  BY <1>1, DocumentIsLoaded
<1> QED
  BY <1>1, <1>2 DEF Written, AsRead

LEMMA FirstBuild == LastBuild \in Nat /\ 1 \in Cache!Builds
BY CacheConstants DEF Cache!Builds

LEMMA CacheInit == Cache!Init => CacheInv
<1> SUFFICES ASSUME Cache!Init PROVE CacheInv
  OBVIOUS
<1>1. CacheTyped
  BY FirstBuild DEF Cache!Init, Cache!Gone, CacheTyped, CacheFiles, Texts
<1>2. NamesAreKept /\ ReadsOfThePast /\ FilesAreNamed /\ LoadedIsAsked
  BY DEF Cache!Init, Cache!Gone, NamesAreKept, ReadsOfThePast, FilesAreNamed, NamedFile,
         LoadedIsAsked, Cache!At
<1> QED  BY <1>1, <1>2 DEF CacheInv

LEMMA PathIsKey ==
  ASSUME CacheTyped, NEW w \in Windows, NEW language \in Languages
  PROVE  /\ Cache!CachePath(w, language) \in Cache!Keys \union {Nothing}
         /\ Cache!CachePath(w, language) # Nothing =>
              Cache!CachePath(w, language) =
                [language |-> language, version |-> install[w], fingerprint |-> archive]
BY DEF CacheTyped, Cache!CachePath, Cache!Keys

LEMMA ScopeIsScope ==
  ASSUME CacheTyped, NEW w \in Windows, job[w] # Nothing
  PROVE  /\ Cache!ScopeOf(w) \in Cache!Scope
         /\ Cache!ScopeOf(w) = [language |-> job[w].language, version |-> install[w],
                                build |-> job[w].from]
BY DEF CacheTyped, CacheJobs, Cache!ScopeOf, Cache!Scope

LEMMA KeyIsScope ==
  ASSUME NEW k \in Cache!Keys
  PROVE  ScopeOfKey(k) \in Cache!Scope
BY DEF Cache!Keys, Cache!Scope, ScopeOfKey

LEMMA EarlierScope ==
  ASSUME NEW scope \in Cache!Scope, NEW build \in 1 .. scope.build
  PROVE  [scope EXCEPT !.build = build] \in Cache!Scope
<1>1. scope.build \in 1..LastBuild /\ LastBuild \in Nat
  BY FirstBuild DEF Cache!Scope, Cache!Builds
<1>2. build \in 1..LastBuild
  BY <1>1
<1> QED  BY <1>2 DEF Cache!Scope, Cache!Builds

LEMMA SameScope ==
  ASSUME NEW scope \in Cache!Scope
  PROVE  /\ scope.build \in 1 .. scope.build
         /\ [scope EXCEPT !.build = scope.build] = scope
BY FirstBuild DEF Cache!Scope, Cache!Builds

\* What a load accepts is what a read for the language and version of the
\* file's name returns, of the name's archive or, if the file was moved, of an
\* earlier one.
LEMMA ReadableIsWritten ==
  ASSUME CacheTyped, FilesAreNamed, NEW k \in Cache!Keys,
         NEW cached \in Cache!Readable(k), cached # Invalid
  PROVE  \E build \in 1 .. ScopeOfKey(k).build :
           /\ cached = AsRead([ScopeOfKey(k) EXCEPT !.build = build])
           /\ build = ScopeOfKey(k).build \/ k \in moved
<1>1. CASE k = Nothing
  BY <1>1 DEF Cache!Readable
<1>2. CASE k # Nothing
  <2>1. PICK text \in {caches[k].text} \union (IF caches[k].writers = {} THEN {} ELSE {Invalid}) :
          cached = IF text \in {Nothing, Invalid} THEN Invalid ELSE Loads(text)
    BY <1>2 DEF Cache!Readable, Cache!Torn
  <2>2. text \notin {Nothing, Invalid} /\ cached = Loads(text) /\ text = caches[k].text
    BY <2>1
  <2> DEFINE scope == ScopeOfKey(k)
  <2>3. scope \in Cache!Scope
    BY KeyIsScope
  <2>4. Held(scope, text, k \in moved)
    BY <2>2 DEF FilesAreNamed, NamedFile
  <2> HIDE DEF scope
  <2>5. PICK build \in 1 .. scope.build :
          /\ text = Written([scope EXCEPT !.build = build])
          /\ build = scope.build \/ k \in moved
    BY <2>4 DEF Held
  <2>6. cached = AsRead([scope EXCEPT !.build = build])
    BY <2>2, <2>3, <2>5, EarlierScope, CodecKeeps
  <2> QED  BY <2>5, <2>6 DEF scope
<1> QED  BY <1>1, <1>2

LEMMA JobEdits ==
  ASSUME NEW j \in CacheJobs, NEW stage \in Stages
  PROVE  /\ [j EXCEPT !.stage = stage] \in CacheJobs
         /\ \A build \in Cache!Builds :
              [j EXCEPT !.stage = stage, !.from = build] \in CacheJobs
         /\ \A path \in Cache!Keys \union {Nothing} :
              [j EXCEPT !.stage = stage, !.path = path] \in CacheJobs
BY DEF CacheJobs

\* Who has a name to write to, has the name of a file.
LEMMA WriterHasKey ==
  ASSUME CacheTyped, NamesAreKept, NEW w \in Windows,
         Cache!At(w, "save") \/ Cache!At(w, "write")
  PROVE  job[w] \in CacheJobs /\ job[w].path \in Cache!Keys
BY DEF CacheTyped, NamesAreKept, Cache!At, CacheJobs

\* A file's document is always one that a read of some scope returned.
LEMMA CacheTypedStep == CacheInv /\ [Cache!Next]_(Cache!vars) => CacheTyped'
<1> SUFFICES ASSUME CacheInv, [Cache!Next]_(Cache!vars) PROVE CacheTyped'
  OBVIOUS
<1>0. CacheTyped /\ NamesAreKept /\ FilesAreNamed
  BY DEF CacheInv
<1> USE <1>0
<1>1. CASE UNCHANGED Cache!vars
  BY <1>1 DEF Cache!vars, CacheTyped
<1>2. CASE Cache!RemoveArchive
  <2>1. archive \in Cache!Builds /\ archive < LastBuild /\ archive' = archive + 1
    BY <1>2 DEF Cache!RemoveArchive, CacheTyped
  <2>2. archive' \in Cache!Builds
    BY <2>1, FirstBuild DEF Cache!Builds
  <2> QED  BY <1>2, <2>2 DEF Cache!RemoveArchive, CacheTyped
<1>3. CASE Cache!WriteArchive
  BY <1>3 DEF Cache!WriteArchive, CacheTyped
<1>4. CASE Cache!WriteManifest
  BY <1>4 DEF Cache!WriteManifest, CacheTyped
<1>5. CASE Cache!Clear
  BY <1>5 DEF Cache!Clear, CacheTyped, Cache!Gone, CacheFiles, Texts
<1>6. ASSUME NEW w \in Windows, Cache!Discover(w) PROVE CacheTyped'
  BY <1>6 DEF Cache!Discover, CacheTyped
<1>7. ASSUME NEW w \in Windows, Cache!StartOperation(w) PROVE CacheTyped'
  <2>1. PICK language \in Languages, kind \in {"load", "read"}, force \in BOOLEAN :
          job' = [job EXCEPT ![w] = [stage |-> IF force THEN "read" ELSE "open", kind |-> kind,
                     language |-> language, path |-> Cache!CachePath(w, language),
                     from |-> archive]]
    BY <1>7 DEF Cache!StartOperation, Cache!SetJob
  <2>2. [stage |-> IF force THEN "read" ELSE "open", kind |-> kind, language |-> language,
         path |-> Cache!CachePath(w, language), from |-> archive] \in CacheJobs
    BY PathIsKey DEF CacheJobs, Stages, CacheTyped
  <2> QED  BY <1>7, <2>1, <2>2 DEF Cache!StartOperation, CacheTyped
<1>8. ASSUME NEW w \in Windows, Cache!OpenCache(w) PROVE CacheTyped'
  <2>1. job[w] \in CacheJobs
    BY <1>8 DEF Cache!OpenCache, Cache!At, CacheTyped
  <2>2. UNCHANGED << archive, present, manifest, install, caches >>
    BY <1>8 DEF Cache!OpenCache
  <2>3. PICK cached \in Cache!Readable(job[w].path) :
          IF cached = Invalid
          THEN /\ job' = [job EXCEPT ![w] = IF job[w].kind = "read"
                                           THEN [job[w] EXCEPT !.stage = "read"] ELSE Nothing]
               /\ UNCHANGED loaded
          ELSE /\ job' = [job EXCEPT ![w] = Nothing]
               /\ loaded' = [loaded EXCEPT ![w] =
                    Cache!Result(Cache!ScopeOf(w), cached, job[w].path \in moved)]
    BY <1>8 DEF Cache!OpenCache, Cache!SetJob
  <2>4. CASE cached = Invalid
    <3>1. [job[w] EXCEPT !.stage = "read"] \in CacheJobs
      BY <2>1, JobEdits DEF Stages
    <3> QED  BY <2>2, <2>3, <2>4, <3>1 DEF CacheTyped
  <2>5. CASE cached # Invalid
    <3>1. job[w].path # Nothing
      BY <2>3, <2>5 DEF Cache!Readable
    <3>2. job[w].path \in Cache!Keys
      BY <2>1, <3>1 DEF CacheJobs
    <3>3. cached \in {AsRead(scope) : scope \in Cache!Scope}
      BY <2>3, <2>5, <3>2, ReadableIsWritten, KeyIsScope, EarlierScope
    <3>4. Cache!ScopeOf(w) \in Cache!Scope
      BY <1>8, ScopeIsScope DEF Cache!OpenCache, Cache!At
    <3>5. Cache!Result(Cache!ScopeOf(w), cached, job[w].path \in moved) \in Results
      BY <3>3, <3>4 DEF Cache!Result, Results
    <3> QED  BY <2>2, <2>3, <2>5, <3>5 DEF CacheTyped
  <2> QED  BY <2>4, <2>5
<1>9. ASSUME NEW w \in Windows, Cache!OpenArchive(w) PROVE CacheTyped'
  <2>1. job[w] \in CacheJobs
    BY <1>9 DEF Cache!OpenArchive, Cache!At, CacheTyped
  <2>2. [job[w] EXCEPT !.stage = "reading", !.from = archive] \in CacheJobs
    BY <2>1, JobEdits DEF Stages, CacheTyped
  <2> QED  BY <1>9, <2>2 DEF Cache!OpenArchive, Cache!SetJob, CacheTyped
<1>10. ASSUME NEW w \in Windows, Cache!StartSave(w) PROVE CacheTyped'
  <2>1. job[w] \in CacheJobs
    BY <1>10 DEF Cache!StartSave, Cache!At, CacheTyped
  <2>2. Cache!CachePath(w, job[w].language) \in Cache!Keys \union {Nothing}
    BY <2>1, PathIsKey DEF CacheJobs
  <2>3. PICK stage \in {"deliver", "save"} :
          job' = [job EXCEPT ![w] = [job[w] EXCEPT !.stage = stage,
                                       !.path = Cache!CachePath(w, job[w].language)]]
    BY <1>10 DEF Cache!StartSave, Cache!SetJob
  <2>4. [job[w] EXCEPT !.stage = stage, !.path = Cache!CachePath(w, job[w].language)]
          \in CacheJobs
    BY <2>1, <2>2, JobEdits DEF Stages
  <2> QED  BY <1>10, <2>3, <2>4 DEF Cache!StartSave, CacheTyped
<1>11. ASSUME NEW w \in Windows, Cache!Truncate(w) PROVE CacheTyped'
  <2>1. job[w] \in CacheJobs /\ job[w].path \in Cache!Keys
    BY <1>11, WriterHasKey DEF Cache!Truncate
  <2>2. [job[w] EXCEPT !.stage = "write"] \in CacheJobs
    BY <2>1, JobEdits DEF Stages
  <2>3. caches[job[w].path] \in CacheFiles
    BY <2>1 DEF CacheTyped
  <2>4. [text |-> Invalid, writers |-> caches[job[w].path].writers \union {w}] \in CacheFiles
    BY <2>3 DEF CacheFiles, Texts
  <2>5. /\ caches' = [caches EXCEPT ![job[w].path] =
                        [text |-> Invalid, writers |-> caches[job[w].path].writers \union {w}]]
        /\ job' = [job EXCEPT ![w] = [job[w] EXCEPT !.stage = "write"]]
    BY <1>11 DEF Cache!Truncate, Cache!SetJob, Cache!Torn
  <2>6. caches' \in [Cache!Keys -> CacheFiles] /\ job' \in [Windows -> CacheJobs \union {Nothing}]
    BY <2>2, <2>4, <2>5 DEF CacheTyped
  <2> QED  BY <1>11, <2>6 DEF Cache!Truncate, CacheTyped
<1>12. ASSUME NEW w \in Windows, Cache!WriteCache(w) PROVE CacheTyped'
  <2>1. job[w] \in CacheJobs /\ job[w].path \in Cache!Keys
    BY <1>12, WriterHasKey DEF Cache!WriteCache
  <2>2. [job[w] EXCEPT !.stage = "deliver"] \in CacheJobs
    BY <2>1, JobEdits DEF Stages
  <2>3. caches' \in [Cache!Keys -> CacheFiles]
    <3>1. CASE caches' = caches
      BY <3>1 DEF CacheTyped
    <3>2. ASSUME NEW written \in {Written(Cache!ScopeOf(w)), Invalid},
                 caches' = [caches EXCEPT ![job[w].path] =
                   [text |-> written, writers |-> caches[job[w].path].writers \ {w}]]
          PROVE  caches' \in [Cache!Keys -> CacheFiles]
      <4>1. written \in Texts
        BY <1>12, ScopeIsScope DEF Texts, Cache!WriteCache, Cache!At
      <4>2. [text |-> written, writers |-> caches[job[w].path].writers \ {w}] \in CacheFiles
        BY <2>1, <4>1 DEF CacheFiles, CacheTyped
      <4> QED  BY <3>2, <4>2 DEF CacheTyped
    <3> QED  BY <1>12, <3>1, <3>2 DEF Cache!WriteCache, Written, Cache!Torn
  <2> QED  BY <1>12, <2>2, <2>3 DEF Cache!WriteCache, Cache!SetJob, CacheTyped
<1>13. ASSUME NEW w \in Windows, Cache!Deliver(w) PROVE CacheTyped'
  <2>1. Cache!ScopeOf(w) \in Cache!Scope
    BY <1>13, ScopeIsScope DEF Cache!Deliver, Cache!At
  <2>2. Cache!Result(Cache!ScopeOf(w), AsRead(Cache!ScopeOf(w)), FALSE) \in Results
    BY <2>1 DEF Cache!Result, Results
  <2>3. loaded' = [loaded EXCEPT ![w] =
                     Cache!Result(Cache!ScopeOf(w), AsRead(Cache!ScopeOf(w)), FALSE)]
    BY <1>13 DEF Cache!Deliver, AsRead
  <2> QED  BY <1>13, <2>2, <2>3 DEF Cache!Deliver, Cache!SetJob, CacheTyped
<1>14. ASSUME NEW w \in Windows, Cache!Fail(w) PROVE CacheTyped'
  <2>1. PICK torn \in BOOLEAN :
          caches' = [k \in Cache!Keys |->
            IF w \notin caches[k].writers THEN caches[k]
            ELSE [text |-> IF torn THEN Invalid ELSE caches[k].text,
                  writers |-> caches[k].writers \ {w}]]
    BY <1>14 DEF Cache!Fail, Cache!Torn
  <2>2. ASSUME NEW k \in Cache!Keys PROVE caches'[k] \in CacheFiles
    <3>1. caches[k] \in CacheFiles
      BY DEF CacheTyped
    <3>2. (IF torn THEN Invalid ELSE caches[k].text) \in Texts
      BY <3>1 DEF CacheFiles, Texts
    <3>3. [text |-> IF torn THEN Invalid ELSE caches[k].text,
           writers |-> caches[k].writers \ {w}] \in CacheFiles
      BY <3>1, <3>2 DEF CacheFiles
    <3> QED  BY <2>1, <3>1, <3>3
  <2>3. caches' \in [Cache!Keys -> CacheFiles]
    BY <2>1, <2>2
  <2> QED  BY <1>14, <2>3 DEF Cache!Fail, Cache!SetJob, CacheTyped
<1> QED  BY <1>1, <1>2, <1>3, <1>4, <1>5, <1>6, <1>7, <1>8, <1>9, <1>10, <1>11, <1>12, <1>13,
            <1>14 DEF Cache!Next

\* A step of window w leaves what other windows do.
LEMMA OthersKeep ==
  ASSUME CacheTyped, NEW w \in Windows, NEW j, job' = [job EXCEPT ![w] = j],
         NEW v \in Windows \ {w}
  PROVE  job'[v] = job[v]
BY DEF CacheTyped

Named(v) ==
  /\ Cache!At(v, "open") /\ job[v].path # Nothing =>
       ScopeOfKey(job[v].path) = Cache!ScopeOf(v)
  /\ Cache!At(v, "save") \/ Cache!At(v, "write") =>
       /\ job[v].path # Nothing
       /\ job[v].path.language = job[v].language
       /\ job[v].path.version = install[v]
       /\ job[v].from <= job[v].path.fingerprint

LEMMA NamesStep == CacheInv /\ [Cache!Next]_(Cache!vars) => NamesAreKept'
<1> SUFFICES ASSUME CacheInv, [Cache!Next]_(Cache!vars), NEW v \in Windows PROVE Named(v)'
  BY DEF NamesAreKept, Named
<1>0. CacheTyped /\ Named(v) /\ ReadsOfThePast
  BY DEF CacheInv, NamesAreKept, Named
<1>1. ASSUME job'[v] = job[v], install'[v] = install[v] PROVE Named(v)'
  BY <1>0, <1>1 DEF Named, Cache!At, Cache!ScopeOf
<1>2. ASSUME job'[v] = Nothing \/ job'[v].stage \in {"read", "reading", "deliver"}
      PROVE  Named(v)'
  BY <1>2 DEF Named, Cache!At
<1>3. CASE UNCHANGED Cache!vars \/ Cache!RemoveArchive \/ Cache!WriteArchive \/ Cache!WriteManifest
             \/ Cache!Clear
  BY <1>1, <1>3 DEF Cache!vars, Cache!RemoveArchive, Cache!WriteArchive, Cache!WriteManifest,
                    Cache!Clear
<1>4. ASSUME NEW w \in Windows, Cache!Discover(w) PROVE Named(v)'
  <2>1. CASE v = w
    BY <1>2, <1>4, <2>1 DEF Cache!Discover
  <2>2. CASE v # w
    <3>1. job'[v] = job[v] /\ install'[v] = install[v]
      BY <1>0, <1>4, <2>2 DEF Cache!Discover, CacheTyped
    <3> QED  BY <1>1, <3>1
  <2> QED  BY <2>1, <2>2
\* Every other step of a window leaves the manifest versions alone.
<1>5. ASSUME NEW w \in Windows, NEW j, job' = [job EXCEPT ![w] = j], UNCHANGED install,
             v = w => Named(v)'
      PROVE  Named(v)'
  BY <1>0, <1>1, <1>5 DEF CacheTyped
<1>6. ASSUME NEW w \in Windows, NEW j, job' = [job EXCEPT ![w] = j], UNCHANGED install,
             j = Nothing \/ j.stage \in {"read", "reading", "deliver"}
      PROVE  Named(v)'
  <2>1. v = w => job'[v] = j
    BY <1>0, <1>6 DEF CacheTyped
  <2> QED  BY <1>2, <1>5, <1>6, <2>1
<1>7. ASSUME NEW w \in Windows, Cache!StartOperation(w) PROVE Named(v)'
  <2>1. PICK language \in Languages, kind \in {"load", "read"}, force \in BOOLEAN :
          job' = [job EXCEPT ![w] = [stage |-> IF force THEN "read" ELSE "open", kind |-> kind,
                     language |-> language, path |-> Cache!CachePath(w, language),
                     from |-> archive]]
    BY <1>7 DEF Cache!StartOperation, Cache!SetJob
  <2> DEFINE j == [stage |-> IF force THEN "read" ELSE "open", kind |-> kind,
                   language |-> language, path |-> Cache!CachePath(w, language), from |-> archive]
  <2>2. UNCHANGED install
    BY <1>7 DEF Cache!StartOperation
  <2>3. ASSUME v = w PROVE Named(v)'
    <3>1. job'[v] = j
      BY <1>0, <2>1, <2>3 DEF CacheTyped
    <3>2. ASSUME j.path # Nothing PROVE ScopeOfKey(j.path) = Cache!ScopeOf(v)'
      BY <1>0, <2>2, <2>3, <3>1, <3>2, PathIsKey DEF ScopeOfKey, Cache!ScopeOf
    <3>3. j.stage \in {"open", "read"}
      OBVIOUS
    <3> HIDE DEF j
    <3> QED  BY <3>1, <3>2, <3>3 DEF Named, Cache!At
  <2> HIDE DEF j
  <2>4. job' = [job EXCEPT ![w] = j]
    BY <2>1 DEF j
  <2> QED  BY <1>5, <2>2, <2>3, <2>4
<1>8. ASSUME NEW w \in Windows, Cache!OpenCache(w) PROVE Named(v)'
  <2>1. PICK cached \in Cache!Readable(job[w].path) :
          \/ job' = [job EXCEPT ![w] = [job[w] EXCEPT !.stage = "read"]]
          \/ job' = [job EXCEPT ![w] = Nothing]
    BY <1>8 DEF Cache!OpenCache, Cache!SetJob
  <2>2. UNCHANGED install
    BY <1>8 DEF Cache!OpenCache
  <2>3. job[w] \in CacheJobs
    BY <1>0, <1>8 DEF Cache!OpenCache, Cache!At, CacheTyped
  <2>4. [job[w] EXCEPT !.stage = "read"].stage = "read"
    BY <2>3 DEF CacheJobs
  <2> QED  BY <1>6, <2>1, <2>2, <2>4
<1>9. ASSUME NEW w \in Windows, Cache!OpenArchive(w) PROVE Named(v)'
  <2>1. job[w] \in CacheJobs
    BY <1>0, <1>9 DEF Cache!OpenArchive, Cache!At, CacheTyped
  <2>2. [job[w] EXCEPT !.stage = "reading", !.from = archive].stage = "reading"
    BY <2>1 DEF CacheJobs
  <2>3. /\ UNCHANGED install
        /\ \/ job' = [job EXCEPT ![w] = Nothing]
           \/ job' = [job EXCEPT ![w] = [job[w] EXCEPT !.stage = "reading", !.from = archive]]
    BY <1>9 DEF Cache!OpenArchive, Cache!SetJob
  <2> QED  BY <1>6, <2>2, <2>3
<1>10. ASSUME NEW w \in Windows, Cache!StartSave(w) PROVE Named(v)'
  <2> DEFINE path == Cache!CachePath(w, job[w].language)
             stage == IF path = Nothing THEN "deliver" ELSE "save"
             j == [job[w] EXCEPT !.stage = stage, !.path = path]
  <2>1. job[w] \in CacheJobs
    BY <1>0, <1>10 DEF Cache!StartSave, Cache!At, CacheTyped
  <2>2. UNCHANGED install /\ job' = [job EXCEPT ![w] = j]
    BY <1>10 DEF Cache!StartSave, Cache!SetJob
  <2>3. j.stage = stage /\ j.path = path /\ j.language = job[w].language /\ j.from = job[w].from
    BY <2>1 DEF CacheJobs
  <2>4. path # Nothing =>
          /\ path.language = job[w].language /\ path.version = install[w]
          /\ job[w].from <= path.fingerprint
    <3>1. job[w].language \in Languages /\ job[w].from <= archive
      BY <1>0, <1>10, <2>1 DEF CacheJobs, ReadsOfThePast, Cache!StartSave, Cache!At
    <3> DEFINE key == [language |-> job[w].language, version |-> install[w],
                       fingerprint |-> archive]
    <3>2. path # Nothing => path = key
      BY <1>0, <3>1, PathIsKey
    <3>3. key.language = job[w].language /\ key.version = install[w] /\ key.fingerprint = archive
      OBVIOUS
    <3> HIDE DEF key, path
    <3> QED  BY <3>1, <3>2, <3>3
  <2> HIDE DEF j, path
  <2>5. ASSUME v = w PROVE Named(v)'
    <3>1. job'[v] = j
      BY <1>0, <2>2, <2>5 DEF CacheTyped
    <3> QED  BY <2>2, <2>3, <2>4, <2>5, <3>1 DEF Named, Cache!At
  <2> QED  BY <1>5, <2>2, <2>5
<1>11. ASSUME NEW w \in Windows, Cache!Truncate(w) PROVE Named(v)'
  <2> DEFINE j == [job[w] EXCEPT !.stage = "write"]
  <2>1. job[w] \in CacheJobs /\ Cache!At(w, "save")
    BY <1>0, <1>11 DEF Cache!Truncate, Cache!At, CacheTyped
  <2>2. UNCHANGED install /\ job' = [job EXCEPT ![w] = j]
    BY <1>11 DEF Cache!Truncate, Cache!SetJob
  <2>3. /\ j.stage = "write" /\ j.path = job[w].path
        /\ j.language = job[w].language /\ j.from = job[w].from
    BY <2>1 DEF CacheJobs
  <2> HIDE DEF j
  <2>4. ASSUME v = w PROVE Named(v)'
    <3>1. job'[v] = j
      BY <1>0, <2>2, <2>4 DEF CacheTyped
    <3> QED  BY <1>0, <2>1, <2>2, <2>3, <2>4, <3>1 DEF Named, Cache!At
  <2> QED  BY <1>5, <2>2, <2>4
<1>12. ASSUME NEW w \in Windows, Cache!WriteCache(w) PROVE Named(v)'
  <2>1. job[w] \in CacheJobs
    BY <1>0, <1>12 DEF Cache!WriteCache, Cache!At, CacheTyped
  <2>2. [job[w] EXCEPT !.stage = "deliver"].stage = "deliver"
    BY <2>1 DEF CacheJobs
  <2>3. UNCHANGED install /\ job' = [job EXCEPT ![w] = [job[w] EXCEPT !.stage = "deliver"]]
    BY <1>12 DEF Cache!WriteCache, Cache!SetJob
  <2> QED  BY <1>6, <2>2, <2>3
<1>13. ASSUME NEW w \in Windows, Cache!Deliver(w) \/ Cache!Fail(w) PROVE Named(v)'
  <2>1. UNCHANGED install /\ job' = [job EXCEPT ![w] = Nothing]
    BY <1>13 DEF Cache!Deliver, Cache!Fail, Cache!SetJob
  <2> QED  BY <1>6, <2>1
<1> QED  BY <1>3, <1>4, <1>7, <1>8, <1>9, <1>10, <1>11, <1>12, <1>13 DEF Cache!Next

\* The archive is only replaced by a later one, and a read opens what is there.
LEMMA PastStep == CacheInv /\ [Cache!Next]_(Cache!vars) => ReadsOfThePast'
<1> SUFFICES ASSUME CacheInv, [Cache!Next]_(Cache!vars), NEW v \in Windows, job'[v] # Nothing
             PROVE  job'[v].from <= archive'
  BY DEF ReadsOfThePast
<1>0. CacheTyped /\ ReadsOfThePast
  BY DEF CacheInv
<1>1. archive \in Nat /\ archive' \in Nat /\ archive <= archive'
  <2>1. archive' = archive \/ archive' = archive + 1
    BY DEF Cache!Next, Cache!vars, Cache!RemoveArchive, Cache!WriteArchive, Cache!WriteManifest,
           Cache!Clear, Cache!Discover, Cache!StartOperation, Cache!OpenCache, Cache!OpenArchive,
           Cache!StartSave, Cache!Truncate, Cache!WriteCache, Cache!Deliver, Cache!Fail
  <2>2. archive \in Nat
    BY <1>0, FirstBuild DEF CacheTyped, Cache!Builds
  <2> QED  BY <2>1, <2>2
<1>2. ASSUME job[v] # Nothing, job'[v].from = job[v].from
      PROVE  job'[v].from <= archive'
  <2>1. job[v].from \in Nat
    BY <1>0, <1>2, FirstBuild DEF CacheTyped, CacheJobs, Cache!Builds
  <2> QED  BY <1>0, <1>1, <1>2, <2>1 DEF ReadsOfThePast
<1>3. CASE job' = job
  BY <1>2, <1>3
<1>4. ASSUME NEW w \in Windows, NEW j, job' = [job EXCEPT ![w] = j],
             j # Nothing => (job[w] # Nothing /\ j.from = job[w].from) \/ j.from = archive
      PROVE  job'[v].from <= archive'
  <2>1. CASE v # w
    <3>1. job'[v] = job[v]
      BY <1>0, <1>4, <2>1, OthersKeep
    <3> QED  BY <1>2, <3>1
  <2>2. CASE v = w
    <3>1. job'[v] = j
      BY <1>0, <1>4, <2>2 DEF CacheTyped
    <3> QED  BY <1>1, <1>2, <1>4, <2>2, <3>1
  <2> QED  BY <2>1, <2>2
<1>5. ASSUME NEW w \in Windows, NEW j, job[w] # Nothing, job' = [job EXCEPT ![w] = j],
             j = Nothing \/ j.from = job[w].from
      PROVE  job'[v].from <= archive'
  BY <1>4, <1>5
<1>6. ASSUME NEW w \in Windows, Cache!StartOperation(w) PROVE job'[v].from <= archive'
  <2>1. PICK language \in Languages, kind \in {"load", "read"}, force \in BOOLEAN :
          job' = [job EXCEPT ![w] = [stage |-> IF force THEN "read" ELSE "open", kind |-> kind,
                     language |-> language, path |-> Cache!CachePath(w, language),
                     from |-> archive]]
    BY <1>6 DEF Cache!StartOperation, Cache!SetJob
  <2> DEFINE j == [stage |-> IF force THEN "read" ELSE "open", kind |-> kind,
                   language |-> language, path |-> Cache!CachePath(w, language), from |-> archive]
  <2>2. j.from = archive
    OBVIOUS
  <2> HIDE DEF j
  <2>3. job' = [job EXCEPT ![w] = j]
    BY <2>1 DEF j
  <2> QED  BY <1>4, <2>2, <2>3
<1>7. ASSUME NEW w \in Windows, Cache!OpenArchive(w) PROVE job'[v].from <= archive'
  <2>1. job[w] \in CacheJobs
    BY <1>0, <1>7 DEF Cache!OpenArchive, Cache!At, CacheTyped
  <2> DEFINE j == [job[w] EXCEPT !.stage = "reading", !.from = archive]
  <2>2. j.from = archive
    BY <2>1 DEF CacheJobs
  <2> HIDE DEF j
  <2>3. job' = [job EXCEPT ![w] = Nothing] \/ job' = [job EXCEPT ![w] = j]
    BY <1>7 DEF Cache!OpenArchive, Cache!SetJob, j
  <2> QED  BY <1>4, <2>2, <2>3
<1>8. ASSUME NEW w \in Windows,
             \/ Cache!OpenCache(w) \/ Cache!StartSave(w) \/ Cache!Truncate(w)
             \/ Cache!WriteCache(w) \/ Cache!Deliver(w) \/ Cache!Fail(w)
      PROVE  job'[v].from <= archive'
  <2>1. job[w] # Nothing /\ job[w] \in CacheJobs
    BY <1>0, <1>8 DEF Cache!OpenCache, Cache!StartSave, Cache!Truncate, Cache!WriteCache,
                      Cache!Deliver, Cache!Fail, Cache!At, CacheTyped
  <2>2. \A stage, path :
          /\ [job[w] EXCEPT !.stage = stage].from = job[w].from
          /\ [job[w] EXCEPT !.stage = stage, !.path = path].from = job[w].from
    BY <2>1 DEF CacheJobs
  <2>3. \/ job' = [job EXCEPT ![w] = Nothing]
        \/ \E stage \in Stages : job' = [job EXCEPT ![w] = [job[w] EXCEPT !.stage = stage]]
        \/ \E stage \in Stages : \E path :
             job' = [job EXCEPT ![w] = [job[w] EXCEPT !.stage = stage, !.path = path]]
    BY <1>8 DEF Cache!OpenCache, Cache!StartSave, Cache!Truncate, Cache!WriteCache,
                Cache!Deliver, Cache!Fail, Cache!SetJob, Stages
  <2> QED  BY <1>5, <2>1, <2>2, <2>3
<1>9. CASE UNCHANGED Cache!vars \/ Cache!RemoveArchive \/ Cache!WriteArchive
             \/ Cache!WriteManifest \/ Cache!Clear \/ \E w \in Windows : Cache!Discover(w)
  BY <1>3, <1>9 DEF Cache!vars, Cache!RemoveArchive, Cache!WriteArchive, Cache!WriteManifest,
                    Cache!Clear, Cache!Discover
<1> QED  BY <1>6, <1>7, <1>8, <1>9 DEF Cache!Next

LEMMA FilesStep == CacheInv /\ [Cache!Next]_(Cache!vars) => FilesAreNamed'
<1> SUFFICES ASSUME CacheInv, [Cache!Next]_(Cache!vars), NEW k \in Cache!Keys
             PROVE  NamedFile(k)'
  BY DEF FilesAreNamed
<1>0. CacheTyped /\ NamesAreKept /\ NamedFile(k)
  BY DEF CacheInv, FilesAreNamed
<1>1. ASSUME caches'[k].text \in {caches[k].text, Nothing, Invalid}, k \in moved => k \in moved'
      PROVE  NamedFile(k)'
  BY <1>0, <1>1 DEF NamedFile, Held, ScopeOfKey
<1>2. CASE UNCHANGED Cache!vars \/ Cache!RemoveArchive \/ Cache!WriteArchive \/ Cache!WriteManifest
  BY <1>1, <1>2 DEF Cache!vars, Cache!RemoveArchive, Cache!WriteArchive, Cache!WriteManifest
<1>3. ASSUME NEW w \in Windows,
             \/ Cache!Discover(w) \/ Cache!StartOperation(w) \/ Cache!OpenCache(w)
             \/ Cache!OpenArchive(w) \/ Cache!StartSave(w) \/ Cache!Deliver(w)
      PROVE  NamedFile(k)'
  BY <1>1, <1>3 DEF Cache!Discover, Cache!StartOperation, Cache!OpenCache, Cache!OpenArchive,
                    Cache!StartSave, Cache!Deliver
<1>4. CASE Cache!Clear
  BY <1>4 DEF Cache!Clear, Cache!Gone, NamedFile
<1>5. ASSUME NEW w \in Windows, Cache!Truncate(w) PROVE NamedFile(k)'
  <2>1. job[w].path \in Cache!Keys
    BY <1>0, <1>5, WriterHasKey DEF Cache!Truncate
  <2>2. /\ UNCHANGED moved
        /\ caches' = [caches EXCEPT ![job[w].path] =
                        [text |-> Invalid, writers |-> caches[job[w].path].writers \union {w}]]
    BY <1>5 DEF Cache!Truncate, Cache!Torn
  <2>3. caches'[k].text \in {caches[k].text, Invalid}
    BY <1>0, <2>1, <2>2 DEF CacheTyped
  <2> QED  BY <1>1, <2>2, <2>3
<1>6. ASSUME NEW w \in Windows, Cache!WriteCache(w) PROVE NamedFile(k)'
  <2>1. /\ job[w] \in CacheJobs /\ job[w].path \in Cache!Keys
        /\ Cache!At(w, "write") /\ job[w] # Nothing
    BY <1>0, <1>6, WriterHasKey DEF Cache!WriteCache, Cache!At
  <2>2. CASE UNCHANGED << caches, moved >>
    BY <1>1, <2>2
  <2>3. ASSUME NEW written \in {Written(Cache!ScopeOf(w)), Invalid},
               caches' = [caches EXCEPT ![job[w].path] =
                 [text |-> written, writers |-> caches[job[w].path].writers \ {w}]],
               moved' = IF job[w].path.fingerprint = job[w].from THEN moved \ {job[w].path}
                                                                 ELSE moved \union {job[w].path}
        PROVE  NamedFile(k)'
    <3>1. CASE k # job[w].path
      <4>1. caches'[k] = caches[k] /\ (k \in moved => k \in moved')
        BY <1>0, <2>3, <3>1 DEF CacheTyped
      <4> QED  BY <1>1, <4>1
    <3>2. CASE k = job[w].path
      <4> DEFINE build == job[w].from
                 scope == ScopeOfKey(k)
      <4>1. /\ k.language = job[w].language /\ k.version = install[w]
            /\ build <= k.fingerprint
        BY <1>0, <2>1, <3>2 DEF NamesAreKept
      <4>2. scope = [language |-> k.language, version |-> k.version, build |-> k.fingerprint]
        BY DEF ScopeOfKey
      <4>3. build \in Nat /\ build >= 1 /\ k.fingerprint \in Nat
        BY <2>1, FirstBuild DEF CacheJobs, Cache!Builds, Cache!Keys
      <4>4. build \in 1 .. scope.build
        BY <4>1, <4>2, <4>3
      <4>5. Cache!ScopeOf(w) = [language |-> job[w].language, version |-> install[w],
                                build |-> build]
        BY <1>0, <2>1, ScopeIsScope
      <4>6. [scope EXCEPT !.build = build] = Cache!ScopeOf(w)
        BY <4>1, <4>2, <4>5
      <4>7. build = scope.build \/ k \in moved'
        BY <2>3, <3>2, <4>2
      <4>8. caches'[k].text = written
        BY <1>0, <2>1, <2>3, <3>2 DEF CacheTyped
      <4> HIDE DEF build, scope
      <4>9. CASE written = Written(Cache!ScopeOf(w))
        <5>1. \E b \in 1 .. scope.build :
                /\ caches'[k].text = Written([scope EXCEPT !.build = b])
                /\ b = scope.build \/ k \in moved'
          BY <4>4, <4>6, <4>7, <4>8, <4>9
        <5> QED  BY <5>1 DEF NamedFile, Held, scope, ScopeOfKey
      <4> QED  BY <2>3, <4>8, <4>9 DEF NamedFile
    <3> QED  BY <3>1, <3>2
  <2> QED  BY <1>6, <2>2, <2>3 DEF Cache!WriteCache, Written, Cache!Torn
<1>7. ASSUME NEW w \in Windows, Cache!Fail(w) PROVE NamedFile(k)'
  <2>1. UNCHANGED moved /\ caches'[k].text \in {caches[k].text, Invalid}
    BY <1>7 DEF Cache!Fail, Cache!Torn
  <2> QED  BY <1>1, <2>1
<1> QED  BY <1>2, <1>3, <1>4, <1>5, <1>6, <1>7 DEF Cache!Next

LEMMA ResultFields ==
  ASSUME NEW scope, NEW contracts, NEW excepted
  PROVE  /\ Cache!Result(scope, contracts, excepted).scope = scope
         /\ Cache!Result(scope, contracts, excepted).contracts = contracts
         /\ Cache!Result(scope, contracts, excepted).excepted = excepted
BY DEF Cache!Result

LEMMA LoadedStep == CacheInv /\ [Cache!Next]_(Cache!vars) => LoadedIsAsked'
<1> SUFFICES ASSUME CacheInv, [Cache!Next]_(Cache!vars), NEW v \in Windows,
                    loaded'[v] # Nothing
             PROVE  Asked(loaded'[v])
  BY DEF LoadedIsAsked
<1>0. CacheTyped /\ NamesAreKept /\ FilesAreNamed /\ LoadedIsAsked
  BY DEF CacheInv
<1>1. ASSUME loaded'[v] = loaded[v] PROVE Asked(loaded'[v])
  BY <1>0, <1>1 DEF LoadedIsAsked
<1>2. CASE UNCHANGED Cache!vars \/ Cache!RemoveArchive \/ Cache!WriteArchive \/ Cache!WriteManifest
             \/ Cache!Clear
  BY <1>1, <1>2 DEF Cache!vars, Cache!RemoveArchive, Cache!WriteArchive, Cache!WriteManifest,
                    Cache!Clear
<1>3. ASSUME NEW w \in Windows,
             \/ Cache!Discover(w) \/ Cache!StartOperation(w) \/ Cache!OpenArchive(w)
             \/ Cache!StartSave(w) \/ Cache!Truncate(w) \/ Cache!WriteCache(w) \/ Cache!Fail(w)
      PROVE  Asked(loaded'[v])
  BY <1>1, <1>3 DEF Cache!Discover, Cache!StartOperation, Cache!OpenArchive, Cache!StartSave,
                    Cache!Truncate, Cache!WriteCache, Cache!Fail
<1>4. ASSUME NEW w \in Windows, Cache!Deliver(w)
      PROVE  Asked(loaded'[v])
  <2>1. loaded' = [loaded EXCEPT ![w] =
                     Cache!Result(Cache!ScopeOf(w), AsRead(Cache!ScopeOf(w)), FALSE)]
    BY <1>4 DEF Cache!Deliver, AsRead
  <2>2. CASE v = w
    <3>1. loaded'[v] = Cache!Result(Cache!ScopeOf(w), AsRead(Cache!ScopeOf(w)), FALSE)
      BY <1>0, <2>1, <2>2 DEF CacheTyped
    <3>2. loaded'[v].contracts = AsRead(Cache!ScopeOf(w)) /\ loaded'[v].scope = Cache!ScopeOf(w)
      BY <3>1 DEF Cache!Result
    <3>3. Cache!ScopeOf(w) \in Cache!Scope
      BY <1>0, <1>4, ScopeIsScope DEF Cache!Deliver, Cache!At
    <3> QED  BY <3>2, <3>3, SameScope DEF Asked
  <2>3. CASE v # w
    BY <1>0, <1>1, <2>1, <2>3 DEF CacheTyped
  <2> QED  BY <2>2, <2>3
<1>5. ASSUME NEW w \in Windows, Cache!OpenCache(w)
      PROVE  Asked(loaded'[v])
  <2>1. job[w] \in CacheJobs /\ Cache!At(w, "open")
    BY <1>0, <1>5 DEF Cache!OpenCache, Cache!At, CacheTyped
  <2>2. PICK cached \in Cache!Readable(job[w].path) :
          IF cached = Invalid THEN UNCHANGED loaded
          ELSE loaded' = [loaded EXCEPT ![w] =
                 Cache!Result(Cache!ScopeOf(w), cached, job[w].path \in moved)]
    BY <1>5 DEF Cache!OpenCache
  <2>3. CASE cached = Invalid \/ v # w
    <3>1. loaded'[v] = loaded[v]
      BY <1>0, <2>2, <2>3 DEF CacheTyped
    <3> QED  BY <1>1, <3>1
  <2>4. CASE cached # Invalid /\ v = w
    <3>1. job[w].path # Nothing
      BY <2>2, <2>4 DEF Cache!Readable
    <3>2. job[w].path \in Cache!Keys
      BY <2>1, <3>1 DEF CacheJobs
    <3>3. loaded'[v] = Cache!Result(Cache!ScopeOf(w), cached, job[w].path \in moved)
      BY <1>0, <2>2, <2>4 DEF CacheTyped
    <3>4. loaded'[v].scope = Cache!ScopeOf(w) /\ loaded'[v].contracts = cached
      BY <3>3 DEF Cache!Result
    <3>5. loaded'[v].excepted = (job[w].path \in moved)
      BY <3>3, ResultFields
    <3>6. ScopeOfKey(job[w].path) = Cache!ScopeOf(w)
      BY <1>0, <2>1, <3>1 DEF NamesAreKept
    <3> DEFINE scope == Cache!ScopeOf(w)
    <3>7. \E build \in 1 .. scope.build :
            /\ cached = AsRead([scope EXCEPT !.build = build])
            /\ build = scope.build \/ job[w].path \in moved
      BY <1>0, <2>2, <2>4, <3>2, <3>6, ReadableIsWritten
    <3> HIDE DEF scope
    <3>8. loaded'[v].scope = scope
      BY <3>4 DEF scope
    <3> QED  BY <3>4, <3>5, <3>7, <3>8 DEF Asked
  <2> QED  BY <2>3, <2>4
<1> QED  BY <1>2, <1>3, <1>4, <1>5 DEF Cache!Next

LEMMA CacheInvStep == CacheInv /\ [Cache!Next]_(Cache!vars) => CacheInv'
BY CacheTypedStep, NamesStep, PastStep, FilesStep, LoadedStep DEF CacheInv

-----------------------------------------------------------------------------
(***************************************************************************)
(* The run's own specification.  Its subjects share no state, so each of   *)
(* them behaves as it does alone, and what is proved of it holds there.    *)
(***************************************************************************)
sharedVars == << subject, sample, vars, cacheVars >>

LEMMA SharedRunsLock == SharedSpec => Spec
<1>1. SharedInit => Init
  BY DEF SharedInit
<1>2. [SharedNext]_sharedVars => [Next]_vars
  BY DEF SharedNext, sharedVars
<1> QED  BY <1>1, <1>2, PTL DEF SharedSpec, sharedVars, Spec

\* In the run's own behaviours the lock is a mutual exclusion until a second
\* incident, and a reaper removes only a lock file nobody uses.
THEOREM LockIsSound == SharedSpec => ImplementsMutex /\ NewLockSurvivesOneIncident
BY SharedRunsLock, LockImplementsMutex, ReapersSpareNewLocks, PTL

LEMMA SharedRunsCache == SharedSpec => Cache!Spec
<1>1. SharedInit => Cache!Init
  BY DEF SharedInit
<1>2. [SharedNext]_sharedVars => [Cache!Next]_(Cache!vars)
  BY DEF SharedNext, sharedVars, cacheVars, Cache!vars
<1> QED  BY <1>1, <1>2, PTL DEF SharedSpec, sharedVars, Cache!Spec

\* Whatever other windows write and however the game is patched, a window that
\* gets contracts gets what a read for its language and version returns: of the
\* archive it asked for, except that a file saved after the archive had been
\* replaced holds those of an earlier one (which MCSharedFiles_stale.cfg shows).
THEOREM LoadsAreOfTheirScope == SharedSpec => []LoadedIsWhatWasAsked
<1>1. CacheInv => LoadedIsWhatWasAsked
  BY DEF CacheInv, LoadedIsAsked, Asked, AsRead, LoadedIsWhatWasAsked, Cache!LoadedIsWhatWasAsked
<1> QED  BY <1>1, CacheInit, CacheInvStep, SharedRunsCache, PTL DEF Cache!Spec

LEMMA SmallSequences ==
  /\ ASequence(<< >>)
  /\ \A a : ASequence(<< a >>)
  /\ \A a, b : ASequence(<< a, b >>)
<1>1. ASequence(<< >>)
  BY DEF ASequence
<1>2. ASSUME NEW a PROVE ASequence(<< a >>)
  <2>1. a \in Range(<< a >>)
    BY DEF Range
  <2> QED
    BY <2>1 DEF ASequence
<1>3. ASSUME NEW a, NEW b PROVE ASequence(<< a, b >>)
  <2>1. a \in Range(<< a, b >>) /\ b \in Range(<< a, b >>)
    BY DEF Range
  <2> QED
    BY <2>1 DEF ASequence
<1> QED
  BY <1>1, <1>2, <1>3, Zenon

\* The run's samples are sets of contracts.
LEMMA PartsAreParts ==
  ASSUME NEW parts \in Parts
  PROVE  /\ ASequence(parts) /\ \A i \in DOMAIN parts : APart(parts[i])
         /\ IsInjective([i \in DOMAIN parts |-> parts[i].name])
<1>1. \A e \in Facts : ASequence(e)
  BY SmallSequences DEF Facts
<1>2. ASequence(<< fact2 >>)
  BY SmallSequences
<1>3. \A n, e : ASequence(e) => APart([name |-> n, evidence |-> e])
  BY DEF APart
<1>4. CASE parts = << >>
  BY <1>4, SmallSequences DEF IsInjective
<1>5. ASSUME NEW e \in Facts, parts = << [name |-> "n", evidence |-> e] >>
      PROVE  /\ ASequence(parts) /\ \A i \in DOMAIN parts : APart(parts[i])
             /\ IsInjective([i \in DOMAIN parts |-> parts[i].name])
  <2> DEFINE x == [name |-> "n", evidence |-> e]
  <2>1. APart(x)
    BY <1>1, <1>3
  <2> HIDE DEF x
  <2>2. parts = << x >>
    BY <1>5 DEF x
  <2> QED
    BY <2>1, <2>2, SmallSequences DEF IsInjective
<1>6. ASSUME NEW e \in Facts,
             parts = << [name |-> "n", evidence |-> e], [name |-> "m", evidence |-> << fact2 >>] >>
      PROVE  /\ ASequence(parts) /\ \A i \in DOMAIN parts : APart(parts[i])
             /\ IsInjective([i \in DOMAIN parts |-> parts[i].name])
  <2> DEFINE x == [name |-> "n", evidence |-> e]
             y == [name |-> "m", evidence |-> << fact2 >>]
  <2>1. APart(x) /\ APart(y) /\ x.name = "n" /\ y.name = "m"
    BY <1>1, <1>2, <1>3
  <2> HIDE DEF x, y
  <2>2. parts = << x, y >>
    BY <1>6 DEF x, y
  <2> QED
    BY <2>1, <2>2, SmallSequences DEF IsInjective
<1> QED
  BY <1>4, <1>5, <1>6 DEF Parts

AFunction(f) == f = [k \in DOMAIN f |-> f[k]]

LEMMA SampledItems ==
  ASSUME NEW kind, NEW bases, \A b \in bases : AFunction(b), NEW parts \in SUBSET Parts,
         NEW item \in ItemsOf(kind, bases, parts)
  PROVE  AnItem(item)
<1>1. PICK b \in bases, e \in Facts, p \in parts :
        item = [kind |-> kind, id |-> 1, texts |-> [k |-> "text"], base |-> b, evidence |-> e,
                parts |-> p]
  BY DEF ItemsOf
<1>2. ASequence(e)
  BY SmallSequences DEF Facts
<1>3. /\ ASequence(p) /\ \A i \in DOMAIN p : APart(p[i])
      /\ IsInjective([i \in DOMAIN p |-> p[i].name])
  BY PartsAreParts, Zenon
<1> DEFINE text == [k |-> "text"]
<1>4. AFunction(text) /\ AFunction(b)
  BY DEF AFunction
<1> HIDE DEF text
<1>5. item = Item(kind, 1, text, b, e, p)
  BY <1>1 DEF Item, text
<1>6. /\ item.kind = kind /\ item.id = 1 /\ item.texts = text /\ item.base = b
      /\ item.evidence = e /\ item.parts = p
  BY <1>5 DEF Item
<1>7. item = [kind |-> item.kind, id |-> item.id, texts |-> item.texts, base |-> item.base,
              evidence |-> item.evidence, parts |-> item.parts]
  BY <1>5, <1>6, Zenon DEF Item
<1> QED
  BY <1>2, <1>3, <1>4, <1>6, <1>7, Zenon DEF AnItem, AFunction

LEMMA SamplesAreSets ==
  ASSUME NEW items \in Samples
  PROVE  ContractSet(items)
<1>1. AFunction(<< >>) /\ AFunction([k |-> "text"]) /\ AFunction([k |-> "stock", l |-> "stock"])
  BY DEF AFunction
<1>2. << >> \in Parts
  BY DEF Parts
<1>3. \A x \in Contracts \union Entities \union Pack : AnItem(x)
  <2>1. \A x \in Contracts : AnItem(x)
    BY <1>1, SampledItems DEF Contracts
  <2>2. \A x \in Entities : AnItem(x)
    BY <1>1, SampledItems DEF Entities
  <2>3. \A x \in Pack : AnItem(x)
    BY <1>1, <1>2, SampledItems DEF Pack
  <2> QED
    BY <2>1, <2>2, <2>3
<1>4. PICK x \in Contracts \union Entities, y \in Contracts \union Entities \union Pack :
        items = << x, y >>
  BY DEF Samples
<1>5. AnItem(x) /\ AnItem(y)
  BY <1>3, <1>4
<1> QED
  BY <1>4, <1>5, SmallSequences DEF ContractSet

LEMMA SharedSamples == SharedSpec => [](subject = "codec" => sample \in Samples)
<1>1. SharedInit => (subject = "codec" => sample \in Samples)
  BY DEF SharedInit
<1>2. (subject = "codec" => sample \in Samples) /\ [SharedNext]_sharedVars
        => (subject = "codec" => sample \in Samples)'
  BY DEF SharedNext, sharedVars
<1> QED
  BY <1>1, <1>2, PTL DEF SharedSpec, sharedVars

\* What the run writes, in the cache or for the window that asked the helper
\* process, it reads again as it was.
THEOREM WrittenIsReadInTheRun == SharedSpec => []WrittenIsReadAgain
<1>1. (subject = "codec" => sample \in Samples) => WrittenIsReadAgain
  BY SamplesAreSets, WrittenIsRead DEF WrittenIsReadAgain
<1> QED
  BY <1>1, SharedSamples, PTL
=============================================================================
