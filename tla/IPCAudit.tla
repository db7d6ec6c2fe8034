------------------------------ MODULE IPCAudit ------------------------------
(***************************************************************************)
(* The checks that kernal/ipc.c makes of its own lists when it reports     *)
(* their status: ipc_debug_status and ipc_log_queue_status.                *)
(***************************************************************************)
EXTENDS IPCLists, FiniteSets

(* How many structs are linked from m on, limit at most.                   *)
Linked(m, limit) ==
    LET walk[n \in 0..limit] ==
          IF n = 0 THEN m ELSE IF walk[n - 1] = NULL THEN NULL ELSE next[walk[n - 1]]
    IN Cardinality({n \in 0..(limit - 1) : walk[n] # NULL})

(* count_free_messages, which has no limit: one struct more than there are *)
(* stands for a walk without end.                                          *)
FreeCount == Linked(free_messages, MAX_MESSAGES + 1)
UsedCount == MAX_MESSAGES - FreeCount

TotalQueued ==
    LET total[n \in 0..MAX_TASKS] == IF n = 0 THEN 0 ELSE total[n - 1] + count[n - 1]
    IN total[MAX_TASKS]
ActualCount(p) == Linked(head[p], count[p] + 5)

(* The reports of any pid at any time find no "CORRUPTION" (ipc.c:349) and *)
(* no "Queue count mismatch" (ipc.c:305), provided that ipc_init got all   *)
(* its structs: those it did not get count as used.                        *)
AuditsAreQuiet ==
    /\ \A p \in Pid : ActualCount(p) = count[p]
    /\ DOMAIN next = Slot => TotalQueued = UsedCount
============================================================================
