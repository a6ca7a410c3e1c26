----------------------------- MODULE MCTaskTrail -----------------------------
(* Small instances of the workflow with its log for TLC. *)
EXTENDS TaskTrail, MCTaskWorkflow
=============================================================================
