----------------------------- MODULE MCIPCLists -----------------------------
(* A pool of at most three slots and two pids: the pool runs out, queues   *)
(* grow to three and shrink to nothing, slots come back in any order.      *)
EXTENDS IPCAudit
============================================================================
