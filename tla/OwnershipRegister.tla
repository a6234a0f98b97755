------------------------- MODULE OwnershipRegister -------------------------
(***************************************************************************)
(* What one ownership store promises its users, without files, locks or    *)
(* revision numbers: a register holding the set of edits (scan results,    *)
(* imports, manual decisions, resolutions) the player's ownership state    *)
(* incorporates, and one fallback copy.                                    *)
(*                                                                         *)
(* An edit is committed in one step, and only onto the very value its      *)
(* author reviewed, while the fallback holds that same value.  The code    *)
(* compares revision numbers instead of values and takes many steps for a  *)
(* commit; module OwnershipStore implements this specification.            *)
(***************************************************************************)
EXTENDS FiniteSets

CONSTANTS Sessions,  \* the GUI windows and commands that use one store
          Edits      \* the edits they may make

VARIABLES value,     \* [ok, data]: is the register readable, what it holds
          fallback,  \* [ok, data]: the last known good copy
          reviewed   \* the data each session last showed its user

vars == << value, fallback, reviewed >>

Copies == [ok : BOOLEAN, data : SUBSET Edits]

Init ==
  /\ value = [ok |-> TRUE, data |-> {}]
  /\ fallback = [ok |-> FALSE, data |-> {}]
  /\ reviewed = [s \in Sessions |-> {}]

Review(s) ==
  /\ value.ok
  /\ reviewed' = [reviewed EXCEPT ![s] = value.data]
  /\ UNCHANGED << value, fallback >>

\* The fallback becomes a copy of the register, damage included.
Keep ==
  /\ fallback' = value
  /\ UNCHANGED << value, reviewed >>

Commit(s) ==
  /\ reviewed[s] = value.data
  /\ fallback.data = value.data
  /\ \E e \in Edits \ value.data :
       /\ value' = [ok |-> TRUE, data |-> value.data \union {e}]
       /\ reviewed' = [reviewed EXCEPT ![s] = value'.data]
  /\ UNCHANGED fallback

\* Only ever the fallback, and only a readable one, replaces the register.
Restore ==
  /\ fallback.ok
  /\ value' = fallback
  /\ UNCHANGED << fallback, reviewed >>

\* Something outside the program makes the register unreadable.  What it held
\* stays in "data" as history: nothing reads it through Review.
Damage ==
  /\ value' = [ok |-> FALSE, data |-> value.data]
  /\ UNCHANGED << fallback, reviewed >>

Next ==
  \/ \E s \in Sessions : Review(s) \/ Commit(s)
  \/ Keep
  \/ Restore
  \/ Damage

Spec == Init /\ [][Next]_vars
=============================================================================
