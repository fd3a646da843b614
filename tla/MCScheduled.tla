----------------------------- MODULE MCScheduled -----------------------------
(* Small instances of Scheduled for TLC. *)
EXTENDS Scheduled
=============================================================================
