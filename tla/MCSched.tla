------------------------------ MODULE MCSched ------------------------------
(* The scheduler as kernel_main sets it up, with the task sets of the runs.  *)
EXTENDS Sched

NoTask == {}
UserTasks == {InitTask, Child}
FirstTest == {3}
=============================================================================
