--------------------------- MODULE MCOverviewJobs ---------------------------
(***************************************************************************)
(* Model-checking instance of OverviewJobs: installs are interchangeable.  *)
(* Slots are numbers, taken in order.                                      *)
(***************************************************************************)
EXTENDS OverviewJobs, TLC

Symmetry == Permutations(Installs)
=============================================================================
