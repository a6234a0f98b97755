---------------------------- MODULE MCStoreLock ----------------------------
(***************************************************************************)
(* Model-checking instance of StoreLock: processes are interchangeable.    *)
(***************************************************************************)
EXTENDS StoreLock, TLC

Symmetry == Permutations(Processes)
=============================================================================
