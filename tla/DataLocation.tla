---------------------------- MODULE DataLocation ----------------------------
(***************************************************************************)
(* Moving the data directory (src/starcompanion/data_location.py and the   *)
(* data page of gui/tabs/support.py).  A window works on the root it was   *)
(* launched with for as long as it lives; a move copies that root's files  *)
(* to another one and switches later launches by writing an activation     *)
(* file: the bootstrap, or beside the executable the portable marker.      *)
(*                                                                         *)
(* Planning reads the whole tree in one step; copying, which takes the     *)
(* time, is one step per file.  The lock is a mutex here: StoreLock says   *)
(* what it is made of.  STARCOMPANION_DATA, which disables the buttons, is *)
(* not set.                                                                *)
(***************************************************************************)
EXTENDS Naturals, FiniteSets

CONSTANTS Windows, Roots, Contents,
          Default,     \* default_data_root()
          Portable,    \* portable_data_root()
          Parent,      \* the directory that holds a root, and the lock
          LastFile,    \* files are 1..LastFile, in the order of their names
          Missing, NoRoot, NoWindow, NoPlan,
          MaxSaves     \* bound: files, of any root, that windows save

VARIABLES disk,       \* root -> file -> content
          bootstrap,  \* the root data-location.json names, or NoRoot
          marker,     \* the portable marker exists
          window,     \* what each window does
          guard,      \* parent directory -> holder of its migration lock
          saved,      \* << root, file >> that a window has saved
          crossed     \* windows whose move, the last or the one under way,
                      \* ran beside a move under another lock

vars == << disk, bootstrap, marker, window, guard, saved, crossed >>

Files == 1 .. LastFile

MoveAssumption ==
  /\ {Default, Portable} \subseteq Roots /\ Default # Portable
  /\ NoRoot \notin Roots
  /\ NoWindow \notin Windows

Closed == [root |-> NoRoot, plan |-> NoPlan, at |-> "idle", todo |-> {}]

\* resolve_data_location
Resolved == IF marker THEN Portable
            ELSE IF bootstrap # NoRoot THEN bootstrap ELSE Default

Activation(d) == IF d = Portable THEN marker ELSE bootstrap

Plan(r, d) ==
  [dest    |-> d,
   entries |-> disk[r],
   copies  |-> {f \in Files : disk[r][f] # Missing /\ disk[d][f] = Missing},
   before  |-> Activation(d)]

\* plan_data_migration raises unless this holds.
Movable(r, d) ==
  /\ r # d
  /\ d # Portable => bootstrap \in {NoRoot, r, d}
  /\ \A f \in Files : disk[r][f] # Missing => disk[d][f] \in {Missing, disk[r][f]}

Init ==
  /\ disk \in {[r \in Roots |-> IF r = Default THEN own ELSE [f \in Files |-> Missing]] :
                 own \in [Files -> Contents \union {Missing}]}
  /\ bootstrap = NoRoot
  /\ marker = FALSE
  /\ window = [w \in Windows |-> Closed]
  /\ guard = [p \in {Parent[r] : r \in Roots} |-> NoWindow]
  /\ saved = {} /\ crossed = {}

Launch(w) ==
  /\ window[w].root = NoRoot
  /\ window' = [window EXCEPT ![w].root = Resolved]
  /\ UNCHANGED << disk, bootstrap, marker, guard, saved, crossed >>

\* Any tab's save: the stores were opened on the window's root.
Save(w) ==
  /\ window[w].root # NoRoot
  /\ \E f \in Files, c \in Contents :
       /\ c # disk[window[w].root][f]
       /\ disk' = [disk EXCEPT ![window[w].root][f] = c]
       /\ saved' = saved \union {<< window[w].root, f >>}
  /\ Cardinality(saved') <= MaxSaves
  /\ UNCHANGED << bootstrap, marker, window, guard, crossed >>

PlanMove(w) ==
  /\ window[w].root # NoRoot
  /\ window[w].at = "idle"
  /\ \E d \in Roots :
       window' = [window EXCEPT ![w].plan =
                    IF Movable(window[w].root, d) THEN Plan(window[w].root, d) ELSE NoPlan]
  /\ UNCHANGED << disk, bootstrap, marker, guard, saved, crossed >>

-----------------------------------------------------------------------------
(* apply_data_migration                                                    *)

LockDirectory(w) == Parent[window[w].root]

\* Windows that move under another lock than w's.
UnderAnotherLock(w) ==
  {v \in Windows : window[v].at # "idle" /\ LockDirectory(v) # LockDirectory(w)}

Crosses(w) ==
  crossed' = IF UnderAnotherLock(w) = {} THEN crossed \ {w}
             ELSE crossed \union {w} \union UnderAnotherLock(w)

\* Mutant of Begin: a lock file that exists does not keep a move out.
BeginAnyway(w) ==
  /\ window[w].at = "idle"
  /\ window[w].plan # NoPlan
  /\ guard' = [guard EXCEPT ![LockDirectory(w)] = w]
  /\ window' = [window EXCEPT ![w].at = "locked"]
  /\ Crosses(w)
  /\ UNCHANGED << disk, bootstrap, marker, saved >>

Begin(w) ==
  /\ window[w].at = "idle"
  /\ window[w].plan # NoPlan
  /\ guard[LockDirectory(w)] = NoWindow
  /\ guard' = [guard EXCEPT ![LockDirectory(w)] = w]
  /\ window' = [window EXCEPT ![w].at = "locked"]
  /\ Crosses(w)
  /\ UNCHANGED << disk, bootstrap, marker, saved >>

Release(w) == guard' = [guard EXCEPT ![LockDirectory(w)] = NoWindow]

\* Mutant of Refuse: the lock file outlives a refused move.
RefuseLocked(w) ==
  /\ window' = [window EXCEPT ![w].at = "idle", ![w].todo = {}]
  /\ UNCHANGED guard

\* A refused move leaves what it has copied, and its plan.
Refuse(w) ==
  /\ window' = [window EXCEPT ![w].at = "idle", ![w].todo = {}]
  /\ Release(w)

StillReviewed(w) ==
  LET r == window[w].root  p == window[w].plan
  IN  Movable(r, p.dest) /\ Plan(r, p.dest) = p

Replan(w) ==
  /\ window[w].at = "locked"
  /\ IF StillReviewed(w)
     THEN /\ window' = [window EXCEPT ![w].at = "copying", ![w].todo = window[w].plan.copies]
          /\ UNCHANGED guard
     ELSE Refuse(w)
  /\ UNCHANGED << disk, bootstrap, marker, saved, crossed >>

\* Mutant of SourceMatches: what is copied is not compared with the plan.
SourceUnverified(w, f) == disk[window[w].root][f] # Missing

SourceMatches(w, f) == disk[window[w].root][f] = window[w].plan.entries[f]

Copy(w) ==
  /\ window[w].at = "copying"
  /\ \E f \in window[w].todo :
       /\ \A g \in window[w].todo : f <= g
       /\ IF SourceMatches(w, f)
          THEN /\ disk' = [disk EXCEPT ![window[w].plan.dest][f] = disk[window[w].root][f]]
               /\ window' = [window EXCEPT ![w].todo = @ \ {f}]
               /\ UNCHANGED guard
          ELSE /\ Refuse(w)
               /\ UNCHANGED disk
  /\ UNCHANGED << bootstrap, marker, saved, crossed >>

CheckActivation(w) ==
  /\ window[w].at = "copying"
  /\ window[w].todo = {}
  /\ IF Activation(window[w].plan.dest) = window[w].plan.before
     THEN window' = [window EXCEPT ![w].at = "checked"] /\ UNCHANGED guard
     ELSE Refuse(w)
  /\ UNCHANGED << disk, bootstrap, marker, saved, crossed >>

Activate(w) ==
  /\ window[w].at = "checked"
  /\ IF window[w].plan.dest = Portable
     THEN marker' = TRUE /\ UNCHANGED bootstrap
     ELSE bootstrap' = window[w].plan.dest /\ UNCHANGED marker
  /\ window' = [window EXCEPT ![w].at = "idle", ![w].plan = NoPlan]
  /\ Release(w)
  /\ UNCHANGED << disk, saved, crossed >>

\* The window is closed, or its process dies wherever it is.
Quit(w) ==
  /\ window[w].root # NoRoot
  /\ window' = [window EXCEPT ![w] = Closed]
  /\ guard' = [p \in DOMAIN guard |-> IF guard[p] = w THEN NoWindow ELSE guard[p]]
  /\ UNCHANGED << disk, bootstrap, marker, saved, crossed >>

Next == \E w \in Windows :
  \/ Launch(w)
  \/ Save(w)
  \/ PlanMove(w)
  \/ Begin(w)
  \/ Replan(w)
  \/ Copy(w)
  \/ CheckActivation(w)
  \/ Activate(w)
  \/ Quit(w)

Spec == Init /\ [][Next]_vars

\* The step switches later launches for w's plan.
Activated(w) ==
  /\ window[w].at = "checked"
  /\ window'[w].at = "idle" /\ window'[w].root # NoRoot

-----------------------------------------------------------------------------

\* Every variable has its type, a window at work holds its lock, and nobody
\* else does.
TypeOK ==
  /\ disk \in [Roots -> [Files -> Contents \union {Missing}]]
  /\ bootstrap \in Roots \union {NoRoot}
  /\ marker \in BOOLEAN
  /\ saved \subseteq Roots \X Files
  /\ \A w \in Windows :
       /\ window[w].root \in Roots \union {NoRoot}
       /\ window[w].at \in {"idle", "locked", "copying", "checked"}
       /\ window[w].todo \subseteq Files
  /\ \A p \in DOMAIN guard :
       {w \in Windows : window[w].at # "idle" /\ LockDirectory(w) = p} =
       {guard[p]} \ {NoWindow}

\* Later launches are switched to a root only when it holds every file of
\* the reviewed plan, as reviewed (apply_data_migration re-plans, verifies
\* each file it copies and activates last), wherever an earlier move may
\* have stopped; windows that work there already may have saved there.  And
\* only from the location its user has seen: of two moves, the one that comes
\* second to the lock is refused.  Roots with one parent directory share a
\* lock; of a move that ran beside another one, under another lock, nothing is
\* said.
HoldsPlan(plan) ==
  \A f \in Files : plan.entries[f] # Missing =>
    disk[plan.dest][f] = plan.entries[f] \/ << plan.dest, f >> \in saved

SwitchedAsReviewed(w) ==
  HoldsPlan(window[w].plan) /\ Activation(window[w].plan.dest) = window[w].plan.before

SwitchesAsReviewed ==
  [][\A w \in Windows : Activated(w) /\ w \notin crossed => SwitchedAsReviewed(w)]_vars
=============================================================================
