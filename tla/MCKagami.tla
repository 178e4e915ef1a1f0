------------------------------ MODULE MCKagami ------------------------------
(* Small instances of Kagami for TLC. *)
EXTENDS Kagami, TLC

Symmetry == Permutations(RestThreads)
=============================================================================
