--------------------------------- MODULE IPC ---------------------------------
(***************************************************************************)
(* What the system calls for messages promise to the tasks that make them. *)
(* Module IPCLists is kernal/ipc.c with its linked lists; it is shown to   *)
(* implement this one.                                                     *)
(***************************************************************************)
EXTENDS Mailboxes

CONSTANT Data       \* what a message can hold

VARIABLES
    ipc,            \* the mailboxes and the number of free slots
    result          \* what the last call returned to its caller

ipcVars == <<ipc, result>>

(* ret is the C return value; copied, how much of the message's data was   *)
(* written to the caller's buffer.  The return value is the message's size *)
(* also when the buffer took less of it.                                   *)
Returned(r)       == [ret |-> r, copied |-> 0, data |-> {}]
Received(m, size) == [ret |-> m.size, data |-> {m.data},
                      copied |-> IF m.size < size THEN m.size ELSE size]

Init ==
    /\ \E slots \in 0..MAX_MESSAGES : ipc = Empty(slots)
    /\ result = Returned(0)

Send(self, receiver_pid, size, data) ==
    /\ ipc' = Sent(ipc, self, receiver_pid, size, data)
    /\ result' = Returned(IF Accepts(ipc, receiver_pid, size) THEN 0 ELSE -1)

Recv(self, max_size) ==
    IF max_size > 0 /\ HasMail(ipc, self)
    THEN /\ ipc' = Taken(ipc, self)
         /\ result' = Received(Oldest(ipc, self), max_size)
    ELSE /\ result' = Returned(-1)
         /\ UNCHANGED ipc

Next == \E self \in Pid :
    \/ \E receiver_pid \in -1..MAX_TASKS, size \in 0..(MAX_MESSAGE_SIZE + 1),
          data \in Data : Send(self, receiver_pid, size, data)
    \/ \E max_size \in 0..MAX_MESSAGE_SIZE : Recv(self, max_size)

Spec == Init /\ [][Next]_ipcVars
============================================================================
