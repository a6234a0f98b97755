----------------------------- MODULE StoreMutex -----------------------------
(***************************************************************************)
(* What _store_lock promises: at most one process is inside the guarded    *)
(* block.  A process leaves it by its end, by an exception or by dying.    *)
(* Module OwnershipStore relies on it; module StoreLock implements it.     *)
(***************************************************************************)
CONSTANT Processes

VARIABLE inside  \* the processes inside the guarded block

Init == inside = {}

Enter(p) == inside = {} /\ inside' = {p}

Leave(p) == p \in inside /\ inside' = inside \ {p}

Next == \E p \in Processes : Enter(p) \/ Leave(p)

Spec == Init /\ [][Next]_inside
=============================================================================
