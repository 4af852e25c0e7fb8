------------------------------ MODULE MCBatch ------------------------------
(* Small instances of Batch for TLC: see MCBatch.cfg, MCBatchPartial.cfg. *)
EXTENDS Batch
=============================================================================
