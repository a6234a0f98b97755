---------------------------- MODULE MCLocalFiles ----------------------------
(***************************************************************************)
(* Model-checking instance of the protocols that replace files others may  *)
(* be using: a game file under its journal (ApplyTransaction, as           *)
(* MCApplyTransaction instantiates it), the data directory and the         *)
(* exported settings.  They share no state, so a behaviour runs one of     *)
(* them, named by "subject", and the others stay in one initial state.     *)
(***************************************************************************)
EXTENDS MCApplyTransaction

CONSTANTS DataRoots, Home, Beside, Parents, FileContents, LastMoved, MaxSaves, Nowhere, Nothing,
          LastRestored, OldFile, OwnFile, NewFile

VARIABLES subject,
          disk, bootstrap, marker, window, moveLock, saved, crossed,
          files, recovery, restoreJournal, restoreLock, at, expected, todo, had

Move == INSTANCE DataLocation WITH
          Windows <- Sessions, Contents <- FileContents,
          Roots <- DataRoots, Default <- Home, Portable <- Beside,
          Parent <- Parents,
          LastFile <- LastMoved, NoRoot <- Nowhere, NoWindow <- NoSession, NoPlan <- Nothing,
          guard <- moveLock
ASSUME MoveConstants == Move!MoveAssumption

moveVars == << disk, bootstrap, marker, window, moveLock, saved, crossed >>

Restore == INSTANCE SettingsRestore WITH
             LastTarget <- LastRestored, Old <- OldFile, Own <- OwnFile, New <- NewFile,
             NoJournal <- Nothing, journal <- restoreJournal, guard <- restoreLock
ASSUME RestoreConstants == Restore!RestoreAssumption

restoreVars == << files, recovery, restoreJournal, restoreLock, at, expected, todo, had >>

replaceVars == << vars, inTurn >>

LocalInit ==
  /\ subject \in {"replace", "move", "restore"}
  /\ EitherInit
  /\ subject = "replace" \/ (inTurn /\ target = NoTarget)
  /\ Move!Init
  /\ subject = "move" \/ disk[Home] = [f \in 1 .. LastMoved |-> Missing]
  /\ Restore!Init
  /\ subject = "restore" \/ files = [t \in 1 .. LastRestored |-> Missing]

LocalNext ==
  /\ UNCHANGED subject
  /\ \/ subject = "replace" /\ EitherNext   /\ UNCHANGED << moveVars, restoreVars >>
     \/ subject = "move"    /\ Move!Next    /\ UNCHANGED << replaceVars, restoreVars >>
     \/ subject = "restore" /\ Restore!Next /\ UNCHANGED << replaceVars, moveVars >>

LocalSpec ==
  LocalInit /\ [][LocalNext]_<< subject, replaceVars, moveVars, restoreVars >>

\* Contents of the data directory are interchangeable too.
LocalSymmetry == Symmetry \union Permutations(FileContents)

SwitchesAsReviewed  == Move!SwitchesAsReviewed

\* The root beside the executable is in a directory of its own.
OnlyBesideIsApart == [r \in DataRoots |-> IF r = Beside THEN 2 ELSE 1]

RestoreIsUndoable == Restore!RestoreIsUndoable
=============================================================================
