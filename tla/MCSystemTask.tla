----------------------------- MODULE MCSystemTask -----------------------------
(* The instance of SystemTask for TLC: SystemTask_progress.cfg. *)
EXTENDS SystemTask
===============================================================================
