---------------------------- MODULE MCSupervisedRun ----------------------------
(* Two calls of run_operation on one job, for TLC. *)
EXTENDS SupervisedRun

CONSTANTS c1, c2

Both == {c1, c2}
One  == {c1}
===============================================================================
