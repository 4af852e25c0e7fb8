---------------------------- MODULE MCCheckpoint ----------------------------
(* A small instance of Checkpoint for TLC: see MCCheckpoint.cfg. *)
EXTENDS Checkpoint
=============================================================================
