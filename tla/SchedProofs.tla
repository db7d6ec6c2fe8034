---------------------------- MODULE SchedProofs ----------------------------
(* Proofs about Sched for every size of the task table.                    *)
EXTENDS Sched, TLAPS

(* What the safety properties need besides themselves: slots are handed    *)
(* out from 0 up, so those from num_tasks on are blank and current_task    *)
(* lies before them; the boot flow is never lost because slot 0, which     *)
(* receives it, is never exited; slot 0 holds the first idle task only     *)
(* until kmain's first switch.                                             *)
Slots ==
    /\ current_task < num_tasks
    /\ \A p \in Pid : p >= num_tasks => state[p] = "UNUSED" /\ waits[p] = 0
    /\ \A p \in Pid : current_task # 0 /\ p = 0 => state[p] = "READY"

IInv == TypeOK /\ Slots /\ FlowIdentity /\ OneRunning /\ BoundedWait

LEMMA InitIInv == Init => IInv
<1> SUFFICES ASSUME Init PROVE IInv
  OBVIOUS
<1> USE TableAssumption DEF Init, Pid, IdlePid, Flow, KMAIN, NONE
<1>1. TypeOK
  BY DEF TypeOK
<1>2. Slots
  BY DEF Slots
<1>3. FlowIdentity
  BY DEF FlowIdentity, Owner, Waiting
<1>4. OneRunning
  BY DEF OneRunning
<1>5. BoundedWait
  BY DEF BoundedWait, Waiting, SlotsBefore
<1> QED
  BY <1>1, <1>2, <1>3, <1>4, <1>5 DEF IInv

LEMMA CreateIInv == IInv /\ create_task => IInv'
<1> SUFFICES ASSUME IInv, create_task PROVE IInv'
  OBVIOUS
<1> USE TableAssumption DEF IInv, create_task, Pid, Flow, KMAIN, NONE, TypeOK, Slots
<1>1. TypeOK'
  BY DEF IdlePid
<1>2. Slots'
  OBVIOUS
<1>3. FlowIdentity'
  BY DEF FlowIdentity, Owner, Waiting
<1>4. OneRunning'
  BY DEF OneRunning, FlowIdentity, Owner
<1>5. BoundedWait'
  BY DEF BoundedWait, Waiting, SlotsBefore
<1> QED
  BY <1>1, <1>2, <1>3, <1>4, <1>5

(* The states schedule starts from: those task_yield passes, or those that *)
(* SYS_EXIT has changed for a current task that is not slot 0.             *)
Entry(st) ==
    /\ st \in [Pid -> {"UNUSED", "READY", "RUNNING"}]
    /\ \A p \in Pid : p # current_task => st[p] = state[p]
    /\ st[current_task] = state[current_task]
        \/ (st[current_task] = "UNUSED" /\ current_task # 0)

(* The wait bound survives a switch: the slot switched to comes before     *)
(* every other waiting slot, so a slot that is passed over has come closer *)
(* by at least the one step its count grew.                                *)
LEMMA SwitchBoundedWait ==
    ASSUME IInv, NEW st, Entry(st), NEW next \in Pid, IsNext(st, next),
           state' = StatesAfter(st, next),
           current_task' = next,
           waits' = [p \in Pid |->
                        IF p # current_task /\ p # next /\ st[p] = "READY"
                        THEN waits[p] + 1 ELSE 0]
    PROVE  BoundedWait'
<1> USE TableAssumption DEF Pid
<1> SUFFICES ASSUME NEW p \in Pid, p # next, state'[p] = "READY"
             PROVE  waits'[p] + SlotsBefore(p)' <= MAX_TASKS - 1
  BY DEF BoundedWait, Waiting
<1>1. /\ current_task \in Pid /\ num_tasks \in 1..MAX_TASKS
      /\ current_task < num_tasks
      /\ waits[p] \in 0..MAX_TASKS
  BY DEF IInv, TypeOK, Slots
<1>2. next < num_tasks /\ next # current_task
  BY <1>1 DEF IsNext, Ready
<1>3. CASE p = current_task
  BY <1>1, <1>2, <1>3 DEF SlotsBefore
<1>4. CASE p # current_task
  <2>1. st[p] = "READY" /\ state[p] = "READY"
    BY <1>4 DEF Entry, StatesAfter
  <2>2. p < num_tasks
    BY <1>1, <2>1 DEF IInv, Slots
  <2>3. Distance(current_task, next) <= Distance(current_task, p)
    BY <1>4, <2>1, <2>2, <1>1 DEF IsNext, Ready
  <2>4. waits[p] + SlotsBefore(p) <= MAX_TASKS - 1
    BY <1>4, <2>1 DEF IInv, BoundedWait, Waiting
  <2>5. waits'[p] = waits[p] + 1 \/ waits'[p] = 0
    BY <1>1
  <2>6. SlotsBefore(p)' + 1 <= SlotsBefore(p)
    BY <1>1, <1>2, <1>4, <2>2, <2>3 DEF SlotsBefore, Distance
  <2>7. SlotsBefore(p)' \in Nat /\ SlotsBefore(p) \in Nat
    BY <1>1 DEF SlotsBefore
  <2> QED
    BY <1>1, <2>4, <2>5, <2>6, <2>7
<1> QED
  BY <1>3, <1>4

LEMMA ScheduleIInv ==
    ASSUME IInv, NEW st, Entry(st), schedule(st) PROVE IInv'
<1> USE TableAssumption
<1>1. CASE Ready(st) = {} /\ state' = st
           /\ UNCHANGED <<context, current_task, num_tasks, cpu, waits>>
  <2>1. current_task \in Pid /\ 0 \in Pid /\ num_tasks \in 1..MAX_TASKS
    BY DEF IInv, TypeOK, Pid
  <2>2. st[current_task] = state[current_task]
    <3> SUFFICES ASSUME current_task # 0 PROVE FALSE
      BY DEF Entry
    <3>1. st[0] = "READY"
      BY <2>1 DEF IInv, Slots, Entry
    <3>2. 0 \in Ready(st)
      BY <2>1, <3>1 DEF Ready, Pid
    <3> QED
      BY <1>1, <3>2
  <2>3. st = state
    BY <2>2 DEF Entry, IInv, TypeOK
  <2> QED
    BY <1>1, <2>3 DEF IInv, TypeOK, Slots, FlowIdentity, OneRunning, BoundedWait,
                      Waiting, Owner, SlotsBefore
<1>2. ASSUME NEW next \in Pid,
             IsNext(st, next),
             state' = StatesAfter(st, next),
             current_task' = next,
             context_switch(current_task, next),
             waits' = [p \in Pid |->
                          IF p # current_task /\ p # next /\ st[p] = "READY"
                          THEN waits[p] + 1 ELSE 0],
             UNCHANGED num_tasks
      PROVE  IInv'
  <2>1. /\ current_task \in Pid /\ num_tasks \in IDLE_TASKS..MAX_TASKS
        /\ 0 \in Pid /\ current_task < num_tasks
        /\ next < num_tasks /\ next # current_task
        /\ st[next] = "READY" /\ state[next] = "READY"
    BY <1>2 DEF IInv, TypeOK, Slots, Pid, IsNext, Ready, Entry
  <2>2. context[next] = Owner(next) /\ cpu = Owner(current_task)
    BY <2>1 DEF IInv, FlowIdentity, Waiting
  <2>3. BoundedWait'
    BY <1>2, SwitchBoundedWait
  <2>4. ASSUME NEW p \in Pid, p # current_task, p # next
        PROVE  /\ state'[p] = state[p] /\ context'[p] = context[p]
               /\ waits'[p] = IF state[p] = "READY" THEN waits[p] + 1 ELSE 0
    BY <1>2, <2>1, <2>4 DEF StatesAfter, Entry, IInv, TypeOK, context_switch
  <2>5. /\ state'[next] = "RUNNING" /\ cpu' = Owner(next)
        /\ waits'[next] = 0 /\ waits'[current_task] = 0
        /\ context'[current_task] = Owner(current_task)
        /\ state'[current_task] \in {"READY", "UNUSED"}
        /\ current_task = 0 => state'[current_task] = "READY"
    BY <1>2, <2>1, <2>2 DEF StatesAfter, Entry, IInv, OneRunning, TypeOK, context_switch
  <2>6. TypeOK'
    <3>1. waits' \in [Pid -> 0..MAX_TASKS]
      <4> SUFFICES ASSUME NEW p \in Pid PROVE waits'[p] \in 0..MAX_TASKS
        BY <1>2
      <4>1. CASE p = current_task \/ p = next
        BY <4>1, <2>5
      <4>2. CASE p # current_task /\ p # next /\ state[p] = "READY"
        <5>1. waits[p] + SlotsBefore(p) <= MAX_TASKS - 1 /\ waits[p] \in 0..MAX_TASKS
          BY <4>2 DEF IInv, BoundedWait, Waiting, TypeOK
        <5>2. SlotsBefore(p) \in Nat
          BY <2>1 DEF SlotsBefore, Pid
        <5> QED
          BY <5>1, <5>2, <4>2, <2>4
      <4>3. CASE p # current_task /\ p # next /\ state[p] # "READY"
        BY <4>3, <2>4
      <4> QED
        BY <4>1, <4>2, <4>3
    <3>2. state' \in [Pid -> {"UNUSED", "READY", "RUNNING"}]
      BY <1>2 DEF StatesAfter, Entry
    <3>3. context' \in [Pid -> Flow \cup {NONE}] /\ cpu' \in Flow
      BY <1>2, <2>1, <2>2 DEF IInv, TypeOK, context_switch, Owner, Flow
    <3> QED
      BY <1>2, <2>1, <3>1, <3>2, <3>3 DEF TypeOK
  <2>7. Slots'
    <3>1. \A p \in Pid : p >= num_tasks => state'[p] = "UNUSED" /\ waits'[p] = 0
      BY <2>1, <2>4 DEF IInv, Slots, Pid, TypeOK
    <3>2. \A p \in Pid : next # 0 /\ p = 0 => state'[p] = "READY"
      BY <2>1, <2>4, <2>5 DEF IInv, Slots
    <3> QED
      BY <1>2, <2>1, <3>1, <3>2 DEF Slots
  <2>8. FlowIdentity'
    <3>1. ASSUME NEW p \in Pid, p # next, state'[p] = "READY"
          PROVE  context'[p] = Owner(p)
      BY <3>1, <2>4, <2>5 DEF IInv, FlowIdentity, Waiting
    <3> QED
      BY <1>2, <2>5, <3>1 DEF FlowIdentity, Waiting, Owner
  <2>9. OneRunning'
    <3>1. \A p \in Pid : state'[p] = "RUNNING" => p = next
      BY <2>1, <2>4, <2>5 DEF IInv, OneRunning
    <3> QED
      BY <1>2, <2>5, <3>1 DEF OneRunning
  <2> QED
    BY <2>3, <2>6, <2>7, <2>8, <2>9 DEF IInv
<1> QED
  BY <1>1, <1>2 DEF schedule

LEMMA StepIInv == IInv /\ [Next]_vars => IInv'
<1> SUFFICES ASSUME IInv, [Next]_vars PROVE IInv'
  OBVIOUS
<1>1. CASE create_task
  BY <1>1, CreateIInv
<1>2. CASE task_yield
  <2>1. Entry(state)
    BY DEF Entry, IInv, TypeOK
  <2> QED
    BY <1>2, <2>1, ScheduleIInv DEF task_yield
<1>3. CASE exit
  <2>1. current_task # 0
    BY <1>3 DEF exit, IInv, FlowIdentity, Owner
  <2>2. Entry([state EXCEPT ![current_task] = "UNUSED"])
    BY <2>1 DEF Entry, IInv, TypeOK
  <2> QED
    BY <1>3, <2>2, ScheduleIInv DEF exit
<1>4. CASE UNCHANGED vars
  BY <1>4 DEF vars, IInv, TypeOK, Slots, FlowIdentity, OneRunning, BoundedWait,
              Waiting, Owner, SlotsBefore
<1> QED
  BY <1>1, <1>2, <1>3, <1>4 DEF Next

LEMMA Invariance == Spec => []IInv
<1> QED
  BY InitIInv, StepIInv, PTL DEF Spec

----------------------------------------------------------------------------
(* The variables of Sched keep their types, whatever the table's size.     *)
THEOREM TypeCorrect == Spec => []TypeOK
<1>1. IInv => TypeOK
  BY DEF IInv
<1> QED
  BY <1>1, Invariance, PTL

(* No switch ever loses a flow or resumes one in another task's slot.      *)
THEOREM FlowsKeepTheirSlots == Spec => []FlowIdentity
<1>1. IInv => FlowIdentity
  BY DEF IInv
<1> QED
  BY <1>1, Invariance, PTL

(* Only the current task is RUNNING, and an exited task is never current.  *)
THEOREM OnlyCurrentRuns == Spec => []OneRunning
<1>1. IInv => OneRunning
  BY DEF IInv
<1> QED
  BY <1>1, Invariance, PTL

(* A runnable task is passed over fewer times than the table has slots.    *)
THEOREM WaitIsBounded == Spec => []BoundedWait
<1>1. IInv => BoundedWait
  BY DEF IInv
<1> QED
  BY <1>1, Invariance, PTL

(* A task that has exited never runs again, on any table.                  *)
THEOREM ExitTheorem == Spec => ExitIsFinal
<1>1. IInv /\ exit => state'[current_task] = "UNUSED"
  BY TableAssumption
  DEF exit, schedule, StatesAfter, IsNext, Ready, IInv, TypeOK
<1>2. IInv /\ IInv' /\ [Next]_vars => [ExitedStays]_vars
  <2> SUFFICES ASSUME IInv, IInv', Next,
                      NEW p \in 0..(num_tasks - 1), state[p] = "UNUSED"
               PROVE  state'[p] = "UNUSED" /\ cpu' # p
    BY <1>1 DEF ExitedStays
  <2> USE TableAssumption
  <2>1. p \in Pid /\ current_task \in Pid /\ p # current_task
    BY DEF IInv, TypeOK, OneRunning, Pid
  <2>2. state'[p] = "UNUSED"
    <3>1. CASE create_task
      BY <2>1, <3>1 DEF create_task, IInv, TypeOK, Pid
    <3>2. ASSUME NEW st, Entry(st), schedule(st) PROVE state'[p] = "UNUSED"
      BY <2>1, <3>2 DEF schedule, StatesAfter, Entry, IsNext, Ready
    <3>3. CASE task_yield
      BY <3>2, <3>3 DEF task_yield, Entry, IInv, TypeOK
    <3>4. CASE exit
      <4>1. Entry([state EXCEPT ![current_task] = "UNUSED"])
        BY <3>4 DEF exit, Entry, IInv, TypeOK, FlowIdentity, Owner
      <4> QED
        BY <3>2, <3>4, <4>1 DEF exit
    <3> QED
      BY <3>1, <3>3, <3>4 DEF Next
  <2>3. cpu' # p
    BY <2>1, <2>2 DEF IInv, FlowIdentity, OneRunning, Owner, KMAIN, Pid
  <2> QED
    BY <2>2, <2>3
<1> QED
  BY <1>2, Invariance, PTL DEF Spec, ExitIsFinal
============================================================================
