---------------------------- MODULE MCControl ----------------------------
EXTENDS Control, TLC

Symmetry == Permutations(Runs) \cup Permutations(Commands)
=============================================================================
