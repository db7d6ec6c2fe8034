------------------------------- MODULE Sched -------------------------------
(***************************************************************************)
(* The cooperative round-robin scheduler of the kernel (kernal/sched.c,    *)
(* kernal/switch_riscv.s and the SYS_EXIT case of kernal/syscall.c).       *)
(*                                                                         *)
(* A "flow" is a thread of control: a program counter with a stack.        *)
(* create_task makes a flow and stores it in the context of a task slot;   *)
(* context_switch stores the flow on the CPU in one slot and loads the     *)
(* flow of another.  The flow that executes kmain exists before any task   *)
(* does: no slot was made for it, and it runs with current_task = 0.       *)
(*                                                                         *)
(* Nothing preempts: interrupts are never enabled (main.c:58-60), so what  *)
(* a flow does between two calls into the scheduler is one step.           *)
(*                                                                         *)
(* A definition whose name extends another's after an underscore and a     *)
(* lower-case description of a bug (Distance_from_zero) is a mutant of it: *)
(* it is used only to show that a property notices that bug.               *)
(***************************************************************************)
EXTENDS Integers

CONSTANTS
    MAX_TASKS,      \* size of the task table, sched.h
    IDLE_TASKS      \* the number of idle tasks that sched_init creates

ASSUME TableAssumption ==
    /\ MAX_TASKS \in Nat
    /\ IDLE_TASKS \in 1..MAX_TASKS

Pid     == 0..(MAX_TASKS - 1)
IdlePid == 0..(IDLE_TASKS - 1)
KMAIN   == -1               \* the boot flow; flow p is the one made for slot p
NONE    == -2               \* the context of a slot never given to create_task
Flow    == Pid \cup {KMAIN}

VARIABLES
    state,          \* tasks[p].state
    context,        \* tasks[p].context: the flow it would resume
    current_task,
    num_tasks,
    cpu,            \* the flow being executed
    waits           \* history: dispatches of others since p was last passed over

vars == <<state, context, current_task, num_tasks, cpu, waits>>

----------------------------------------------------------------------------
(* sched_init: an empty table, then the idle tasks, all before any yield.  *)

Init ==
    /\ state   = [p \in Pid |-> IF p \in IdlePid THEN "READY" ELSE "UNUSED"]
    /\ context = [p \in Pid |-> IF p \in IdlePid THEN p ELSE NONE]
    /\ current_task = 0
    /\ num_tasks = IDLE_TASKS
    /\ cpu = KMAIN
    /\ waits = [p \in Pid |-> 0]

create_task_unchecked ==
    /\ num_tasks <= MAX_TASKS
    /\ state'     = [state EXCEPT ![num_tasks] = "READY"]
    /\ context'   = [context EXCEPT ![num_tasks] = num_tasks]
    /\ num_tasks' = num_tasks + 1
    /\ UNCHANGED <<current_task, cpu, waits>>

(* Slots are handed out in order and never reused, exited tasks included.  *)
create_task ==
    /\ num_tasks < MAX_TASKS
    /\ state'     = [state EXCEPT ![num_tasks] = "READY"]
    /\ context'   = [context EXCEPT ![num_tasks] = num_tasks]
    /\ num_tasks' = num_tasks + 1
    /\ UNCHANGED <<current_task, cpu, waits>>

Distance_from_zero(c, p) == p

(* How many steps of the search loop of schedule lead from slot c to p.    *)
Distance(c, p) == IF p > c THEN p - c ELSE p - c + num_tasks

Ready_no_wrap(st) == {p \in 0..(num_tasks - 1) : p > current_task /\ st[p] = "READY"}
(* The slots at which that loop stops before it is back at current_task.   *)
Ready(st) == {p \in 0..(num_tasks - 1) : p # current_task /\ st[p] = "READY"}

IsNext(st, next) ==
    /\ next \in Ready(st)
    /\ \A q \in Ready(st) : Distance(current_task, next) <= Distance(current_task, q)

(* Only an old task that is still RUNNING goes back to READY.              *)
StatesAfter_revives(st, next) ==
    [p \in Pid |-> IF p = next THEN "RUNNING"
                   ELSE IF p = current_task THEN "READY" ELSE st[p]]
StatesAfter(st, next) ==
    [p \in Pid |-> IF p = next THEN "RUNNING"
                   ELSE IF p = current_task /\ st[p] = "RUNNING" THEN "READY"
                   ELSE st[p]]

(* The flow on the CPU goes to the old slot, the new slot's flow runs.     *)
context_switch_saves_to_new(old, new) ==
    /\ context' = [context EXCEPT ![new] = cpu]
    /\ cpu' = context[new]
context_switch(old, new) ==
    /\ context' = [context EXCEPT ![old] = cpu]
    /\ cpu' = context[new]

(* schedule(), called with the task states st.                             *)
schedule(st) ==
    \/ \E next \in Pid :
        /\ IsNext(st, next)
        /\ state' = StatesAfter(st, next)
        /\ current_task' = next
        /\ context_switch(current_task, next)
        /\ waits' = [p \in Pid |->
                        IF p # current_task /\ p # next /\ st[p] = "READY"
                        THEN waits[p] + 1 ELSE 0]
        /\ UNCHANGED num_tasks
    \/ /\ Ready(st) = {}
       /\ state' = st
       /\ UNCHANGED <<context, current_task, num_tasks, cpu, waits>>

task_yield == schedule(state)

(* The loops of kmain and of the idle tasks contain no exit.               *)
exit_without_yield ==
    /\ cpu \notin IdlePid \cup {KMAIN}
    /\ state' = [state EXCEPT ![current_task] = "UNUSED"]
    /\ UNCHANGED <<context, current_task, num_tasks, cpu, waits>>
exit ==
    /\ cpu \notin IdlePid \cup {KMAIN}
    /\ schedule([state EXCEPT ![current_task] = "UNUSED"])

Next == create_task \/ task_yield \/ exit

(* Every task body is a loop around a call of task_yield.                  *)
Spec     == Init /\ [][Next]_vars
FairSpec == Spec /\ WF_vars(task_yield)

----------------------------------------------------------------------------
TypeOK ==
    /\ state \in [Pid -> {"UNUSED", "READY", "RUNNING"}]
    /\ context \in [Pid -> Flow \cup {NONE}]
    /\ current_task \in Pid
    /\ num_tasks \in IDLE_TASKS..MAX_TASKS
    /\ cpu \in Flow
    /\ waits \in [Pid -> 0..MAX_TASKS]

(* Whose flow a slot holds once kmain has yielded: kmain's first switch    *)
(* saves it over the context of the first idle task, and it stays there.   *)
Owner(p) == IF p = 0 THEN KMAIN ELSE p

Waiting == {p \in Pid : p # current_task /\ state[p] = "READY"}

(* The flow on the CPU is the one current_task names, so that GET_PID and  *)
(* the sender_pid of a message identify the same flow for ever, and every  *)
(* other runnable slot would resume its own flow: no switch loses a flow   *)
(* or runs one under two pids (schedule, context_switch, create_task).     *)
FlowIdentity ==
    /\ cpu = Owner(current_task)
    /\ \A p \in Waiting : context[p] = Owner(p)

(* schedule's bookkeeping: no second task is ever marked RUNNING, and from *)
(* the first switch on the running one is; an exited task never has the    *)
(* CPU, so the SYS_EXIT case never returns to the task that called it.     *)
OneRunning ==
    /\ \A p \in Pid : state[p] = "RUNNING" => p = current_task
    /\ state[current_task] = "READY" => cpu = KMAIN /\ context[0] = 0
    /\ state[current_task] # "UNUSED"

(* Round robin: a runnable task is passed over at most once by every slot  *)
(* between two of its turns, whatever is created or exits meanwhile.  The  *)
(* conjunct that makes this inductive: waits[p], and the slots that are    *)
(* still before p in the search order of schedule, fit in the table.       *)
SlotsBefore(p) ==
    IF p > current_task THEN p - current_task ELSE p - current_task + MAX_TASKS
BoundedWait ==
    \A p \in Waiting : waits[p] + SlotsBefore(p) <= MAX_TASKS - 1

(* SYS_EXIT is final: the yield in it does not make the caller READY, and  *)
(* the slot of an exited task never becomes READY or RUNNING again nor     *)
(* does its flow get the CPU (schedule changes the state of the old task   *)
(* only if it is RUNNING).                                                 *)
ExitedStays ==
    /\ exit => state'[current_task] = "UNUSED"
    /\ \A p \in 0..(num_tasks - 1) :
        state[p] = "UNUSED" => state'[p] = "UNUSED" /\ cpu' # p
ExitIsFinal == [][ExitedStays]_vars

(* Every task that exists has the CPU again and again until it exits:      *)
(* other tasks that create tasks and exit do not starve it (schedule).     *)
NoStarvation ==
    \A p \in Pid : []<>(state[p] = "UNUSED" \/ current_task = p)
============================================================================
