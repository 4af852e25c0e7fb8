----------------------------- MODULE MCClient -----------------------------
(* Small instances of Client for TLC. *)
EXTENDS Client
===========================================================================
