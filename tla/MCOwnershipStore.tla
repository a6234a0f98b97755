-------------------------- MODULE MCOwnershipStore --------------------------
(***************************************************************************)
(* Model-checking instance of OwnershipStore: sessions and edits are       *)
(* interchangeable model values.                                           *)
(***************************************************************************)
EXTENDS OwnershipStore, TLC

Symmetry == Permutations(Sessions) \union Permutations(Edits)
=============================================================================
