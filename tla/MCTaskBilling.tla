---------------------------- MODULE MCTaskBilling ----------------------------
(* Instances of TaskBilling for TLC. *)
EXTENDS TaskBilling, TLC

\* The day before legacyTaskCutoff, and a day after it.
MCSubmitTimes == {1740096000, 1771804800}

Symmetry == Permutations(Pollers)
=============================================================================
