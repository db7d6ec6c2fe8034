------------------------------ MODULE MCSched ------------------------------
(* Instances of Sched for TLC: the table is small and full of tasks that   *)
(* come and go.  Nothing in Sched needs a further bound: slots are not     *)
(* reused, so at most MAX_TASKS tasks are ever created.                    *)
EXTENDS Sched
============================================================================
