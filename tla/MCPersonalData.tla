--------------------------- MODULE MCPersonalData ---------------------------
(***************************************************************************)
(* Model-checking instance of the protocols over the player's own data.    *)
(* They share no state with each other, so a behaviour runs one of them:   *)
(* "subject", chosen in the initial state, says which.  Sessions, which    *)
(* are the editors too, are interchangeable.                               *)
(***************************************************************************)
EXTENDS OwnershipStore, TLC

CONSTANTS Keys, Texts, NoText, Absent, Retention, MaxHistory,
          MaxEdits, MaxOutside,
          EditorScopes, EditorTexts, NoScope, Nothing, MaxUndo, AText

VARIABLES subject,
          userIni, origins, history, snapshots, editor, pack, edits, alone,
          held, authored,
          chosen, attached, overlay, doc, typed, scopeDue, task, store, window,
          outsideSaves, promise

\* One key has a second text.
OneMore == CHOOSE k \in Keys : TRUE

\* UserEdits, with what is proved about it.
Personal == INSTANCE UserEditsProofs WITH
              Editors <- Sessions, Missing <- Absent,
              Texts <- [k \in Keys |-> IF k = OneMore THEN Texts ELSE {AText}]
editVars == << userIni, origins, history, snapshots, editor, pack, edits,
               alone, held, authored >>

ASSUME EditConstants == Personal!EditAssumption

Editor == INSTANCE EditorTab WITH
            Scopes <- EditorScopes, Texts <- EditorTexts,
            NoOverride <- NoText
ASSUME EditorConstants == Editor!EditorAssumption

tabVars == << chosen, attached, overlay, doc, typed, scopeDue, task, store,
              window, outsideSaves, promise >>

DataInit ==
  /\ subject \in {"ownership", "edits", "editor"}
  /\ Init
  /\ Personal!Init
  /\ Editor!Init

DataNext ==
  /\ UNCHANGED subject
  /\ \/ subject = "ownership" /\ Next /\ UNCHANGED << editVars, tabVars >>
     \/ subject = "edits" /\ Personal!Next /\ UNCHANGED << vars, tabVars >>
     \/ subject = "editor" /\ Editor!Next /\ UNCHANGED << vars, editVars >>

DataSpec == DataInit /\ [][DataNext]_<< vars, editVars, tabVars, subject >>

Symmetry == Permutations(Sessions)

UndoReturnsToThePast == subject = "edits" => Personal!UndoReturnsToThePast
AuthoredMeansAuthored == subject = "edits" => Personal!AuthoredMeansAuthored
SnapshotBeforeReplace == Personal!SnapshotBeforeReplace

NoOtherChannelsLayer == subject = "editor" => Editor!NoOtherChannelsLayer
DeliveryLosesOnlyLaterEdits == Editor!DeliveryLosesOnlyLaterEdits
=============================================================================
