----------------------------- MODULE StoreLock -----------------------------
(***************************************************************************)
(* The file lock of src/starcompanion/ownership.py (_store_lock), one      *)
(* action per system call: exclusive creation of the lock file, the write  *)
(* of the owner's pid, the staleness test of a contender, the reaping of a *)
(* stale lock under a second exclusive file (".reap"), the removal of an   *)
(* abandoned reap file, the wait with its deadline and the release.        *)
(*                                                                         *)
(* A contender is a process: the staleness test is about pids.  A dead     *)
(* process does not come back (pids are not reused while a file names      *)
(* them).  Two kinds of incident are modelled, together at most            *)
(* MaxIncidents: the death of a process anywhere (a crash, or the normal   *)
(* end of a command) and a failed write of the lock's or the reap file's   *)
(* contents, which leaves that file behind, empty.                         *)
(*                                                                         *)
(* Time: an empty file becomes older than STALE_LOCK_SECONDS at any        *)
(* moment, but the 30 seconds do not run out between two neighbouring      *)
(* statements of a live process: it finishes the file it is writing first, *)
(* and the age it finds for a file it could not read is that file's (one   *)
(* created or written since the read would be too young), so the failed    *)
(* read and the look at the age are one action.                            *)
(***************************************************************************)
EXTENDS Naturals, FiniteSets

CONSTANTS Processes,
          Nobody,
          Expired,      \* what a read finds in an unreadable old file
          MaxIncidents  \* bound: deaths and failed writes

ASSUME LockAssumption ==
  /\ Nobody \notin Processes
  /\ Expired \notin Processes \union {Nobody}
  /\ MaxIncidents \in Nat

VARIABLES pc,        \* where each process is in _store_lock
          seen,      \* what its last read of a lock or reap file returned
          lockFile,
          reapFile,
          dead,      \* processes whose pid is not running
          incidents

vars == << pc, seen, lockFile, reapFile, dead, incidents >>

Labels == {"idle", "create", "write", "inside", "release", "unlock",
           "read", "judge", "reapCreate", "reapWrite", "reread", "rejudge",
           "reap", "unreap", "readReap", "judgeReap", "breakReap", "wait"}

\* The owner of an empty file is history: no contender can read it.
Files == [kind : {"absent", "empty", "written"},
          owner : Processes \union {Nobody}, old : BOOLEAN]

Absent     == [kind |-> "absent", owner |-> Nobody, old |-> FALSE]
Created(p) == [kind |-> "empty", owner |-> p, old |-> FALSE]

\* A write to a file that is no longer the one p created is lost.
Write(p, file) ==
  IF file.kind = "empty" /\ file.owner = p
    THEN [file EXCEPT !.kind = "written"]
    ELSE file

\* A read returns the pid in the file; without a file or contents, its age.
Unreadable == Nobody
Contents(file) ==
  IF file.kind = "written" THEN file.owner
                           ELSE IF file.old THEN Expired ELSE Unreadable

Init ==
  /\ pc = [p \in Processes |-> "idle"]
  /\ seen = [p \in Processes |-> Unreadable]
  /\ lockFile = Absent
  /\ reapFile = Absent
  /\ dead = {}
  /\ incidents = 0

Goto(p, label) == pc' = [pc EXCEPT ![p] = label]

\* p moves from one label to another and touches nothing else.
Jump(p, from, to) ==
  /\ pc[p] = from
  /\ Goto(p, to)
  /\ UNCHANGED << seen, lockFile, reapFile, dead, incidents >>

\* p reads a file; the decision on what it saw is a step of its own.
Read(p, from, to, file) ==
  /\ pc[p] = from
  /\ Goto(p, to)
  /\ seen' = [seen EXCEPT ![p] = Contents(file)]
  /\ UNCHANGED << lockFile, reapFile, dead, incidents >>

\* A pid that is not running, or an unreadable file older than 30 seconds.
Stale(p) == seen[p] \in dead \union {Expired}

-----------------------------------------------------------------------------
\* Taking the lock.

Start(p) == Jump(p, "idle", "create")

CreateLock(p) ==
  /\ pc[p] = "create"
  /\ lockFile.kind = "absent"
  /\ lockFile' = Created(p)
  /\ Goto(p, "write")
  /\ UNCHANGED << seen, reapFile, dead, incidents >>

LockExists(p) == lockFile.kind # "absent" /\ Jump(p, "create", "read")

WriteLock(p) ==
  /\ pc[p] = "write"
  /\ lockFile' = Write(p, lockFile)
  /\ Goto(p, "inside")
  /\ UNCHANGED << seen, reapFile, dead, incidents >>

-----------------------------------------------------------------------------
\* Finding it taken.

ReadLock(p)     == Read(p, "read", "judge", lockFile)
JudgeStale(p)   == Stale(p) /\ Jump(p, "judge", "reapCreate")
JudgeHeld(p)    == ~Stale(p) /\ Jump(p, "judge", "wait")

\* Mutant: the reap file is opened without O_EXCL.
CreateReapShared(p) ==
  /\ pc[p] = "reapCreate"
  /\ reapFile' = Created(p)
  /\ Goto(p, "reapWrite")
  /\ UNCHANGED << seen, lockFile, dead, incidents >>

CreateReap(p) ==
  /\ pc[p] = "reapCreate"
  /\ reapFile.kind = "absent"
  /\ reapFile' = Created(p)
  /\ Goto(p, "reapWrite")
  /\ UNCHANGED << seen, lockFile, dead, incidents >>

ReapExists(p) == reapFile.kind # "absent" /\ Jump(p, "reapCreate", "readReap")

WriteReap(p) ==
  /\ pc[p] = "reapWrite"
  /\ reapFile' = Write(p, reapFile)
  /\ Goto(p, "reread")
  /\ UNCHANGED << seen, lockFile, dead, incidents >>

\* Mutant: the reaper trusts its first look at the lock.
RejudgeSkipped(p) == Jump(p, "rejudge", "reap")

\* Under the reap file the lock is read and judged once more.
RereadLock(p)   == Read(p, "reread", "rejudge", lockFile)
RejudgeStale(p) == Stale(p) /\ Jump(p, "rejudge", "reap")
RejudgeHeld(p)  == ~Stale(p) /\ Jump(p, "rejudge", "unreap")

ReapLock(p) ==
  /\ pc[p] = "reap"
  /\ lockFile' = Absent
  /\ Goto(p, "unreap")
  /\ UNCHANGED << seen, reapFile, dead, incidents >>

Unreap(p, from) ==
  /\ pc[p] = from
  /\ reapFile' = Absent
  /\ Goto(p, "create")
  /\ UNCHANGED << seen, lockFile, dead, incidents >>

FinishReap(p)   == Unreap(p, "unreap")

\* A reap file left by a dead reaper is removed, with no second look.
ReadReap(p)       == Read(p, "readReap", "judgeReap", reapFile)
JudgeAbandoned(p) == Stale(p) /\ Jump(p, "judgeReap", "breakReap")
JudgeReaping(p)   == ~Stale(p) /\ Jump(p, "judgeReap", "wait")

\* Mutant: the abandoned reap file is noticed and left where it is.
BreakReapForgotten(p) == Jump(p, "breakReap", "create")

BreakReap(p)      == Unreap(p, "breakReap")

Retry(p)   == Jump(p, "wait", "create")
Timeout(p) == Jump(p, "wait", "idle")

-----------------------------------------------------------------------------
\* Releasing: the lock file is removed only if it is still the process's own.

LeaveBlock(p) == Jump(p, "inside", "release")

OwnLock(p) == Contents(lockFile) = p

CheckToken(p) == OwnLock(p) /\ Jump(p, "release", "unlock")
LostToken(p)  == ~OwnLock(p) /\ Jump(p, "release", "idle")

Unlock(p) ==
  /\ pc[p] = "unlock"
  /\ lockFile' = Absent
  /\ Goto(p, "idle")
  /\ UNCHANGED << seen, reapFile, dead, incidents >>

-----------------------------------------------------------------------------
\* The environment.

Alive == Processes \ dead

\* The exception escapes _store_lock; the empty file stays.
WriteFails(p) ==
  /\ incidents < MaxIncidents
  /\ incidents' = incidents + 1
  /\ pc[p] \in {"write", "reapWrite"}
  /\ Goto(p, "idle")
  /\ UNCHANGED << seen, lockFile, reapFile, dead >>

Die(p) ==
  /\ incidents < MaxIncidents
  /\ incidents' = incidents + 1
  /\ dead' = dead \union {p}
  /\ UNCHANGED << pc, seen, lockFile, reapFile >>

BeingWritten(file) ==
  /\ file.kind = "empty"
  /\ file.owner \in Alive
  /\ pc[file.owner] \in {"write", "reapWrite"}

\* Mutant: a missing file has an age too.
MayAgeMissing(file) == file.kind # "written" /\ ~file.old /\ ~BeingWritten(file)

\* The age of a readable file is never looked at.
MayAge(file) == file.kind = "empty" /\ ~file.old /\ ~BeingWritten(file)

LockAges ==
  /\ MayAge(lockFile)
  /\ lockFile' = [lockFile EXCEPT !.old = TRUE]
  /\ UNCHANGED << pc, seen, reapFile, dead, incidents >>

ReapAges ==
  /\ MayAge(reapFile)
  /\ reapFile' = [reapFile EXCEPT !.old = TRUE]
  /\ UNCHANGED << pc, seen, lockFile, dead, incidents >>

\* What the code does by itself once a call is under way.
Step(p) ==
  \/ CreateLock(p) \/ LockExists(p) \/ WriteLock(p)
  \/ ReadLock(p) \/ JudgeStale(p) \/ JudgeHeld(p)
  \/ CreateReap(p) \/ ReapExists(p) \/ WriteReap(p)
  \/ RereadLock(p) \/ RejudgeStale(p) \/ RejudgeHeld(p)
  \/ ReapLock(p) \/ FinishReap(p)
  \/ ReadReap(p) \/ JudgeAbandoned(p) \/ JudgeReaping(p) \/ BreakReap(p)
  \/ Retry(p)
  \/ LeaveBlock(p) \/ CheckToken(p) \/ LostToken(p) \/ Unlock(p)

Next ==
  \/ \E p \in Alive : Start(p) \/ Step(p) \/ Timeout(p) \/ WriteFails(p) \/ Die(p)
  \/ LockAges
  \/ ReapAges

Spec == Init /\ [][Next]_vars

\* A live process runs on and time passes.  Nothing obliges anybody to call
\* _store_lock, and the deadline may strike at every wait or never.
LiveStep(p) == p \in Alive /\ Step(p)

FairSpec ==
  /\ Spec
  /\ \A p \in Processes : WF_vars(LiveStep(p))
  /\ WF_vars(LockAges)
  /\ WF_vars(ReapAges)

-----------------------------------------------------------------------------
\* Properties.

\* Type invariant; a file that does not exist has neither contents nor an age.
TypeOK ==
  /\ pc \in [Processes -> Labels]
  /\ seen \in [Processes -> Processes \union {Unreadable, Expired}]
  /\ lockFile \in Files
  /\ reapFile \in Files
  /\ dead \subseteq Processes
  /\ incidents \in 0..MaxIncidents
  /\ \A file \in {lockFile, reapFile} : file.kind = "absent" => file = Absent

Inside == {p \in Alive : pc[p] \in {"inside", "release", "unlock"}}

\* What _store_lock is built for: the death of one owner (or one failed write).
OneIncident == incidents <= 1

\* From the second incident on, nothing is claimed about who is inside.
Mutex == INSTANCE StoreMutex
           WITH inside <- IF OneIncident THEN Inside ELSE {}

\* Up to the first incident and after it, the lock implements StoreMutex: no
\* two live processes are ever inside the guarded block of save or recover.
ImplementsMutex == Mutex!Spec

\* Nobody is using the file: its owner died, or failed to write it.
Orphaned(file) == file.kind # "absent" /\ ~BeingWritten(file)
                    /\ (file.kind = "written" => file.owner \in dead)

ReapsOrphan ==
  \A p \in Alive :
    pc[p] = "reap" /\ pc'[p] = "unreap"
      => lockFile.kind = "absent" \/ Orphaned(lockFile)

\* The comment in _store_lock: the reap file keeps "the slower one" of two
\* reapers from unlinking "a newly acquired lock"; a reaper removes the lock
\* file only while it is orphaned (or gone).
NewLockIsNeverReaped == [][ReapsOrphan]_vars

\* The part of it the code achieves: it holds until a second incident.
NewLockSurvivesOneIncident == [][OneIncident => ReapsOrphan]_vars

\* An orphaned lock or an abandoned reap file never blocks the store for good:
\* if some live process calls again and again, the orphaned lock disappears.
KeepsCalling(p) == []<>(pc[p] = "create" /\ p \in Alive)

OrphanedLockIsReaped ==
  (\E p \in Processes : KeepsCalling(p)) => (Orphaned(lockFile) ~> ~Orphaned(lockFile))
=============================================================================
