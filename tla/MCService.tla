----------------------------- MODULE MCService -----------------------------
(* Small instances of Service for TLC. *)
EXTENDS ServiceRefinement, TLC

SlotSymmetry == Permutations(Slots)
============================================================================
