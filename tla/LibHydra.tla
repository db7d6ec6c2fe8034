------------------------------ MODULE LibHydra ------------------------------
(***************************************************************************)
(* The message functions of lib/libhydra, for a task that uses them and    *)
(* the services built on them, next to tasks that make the system calls    *)
(* themselves.  What is in a message is left out: only sizes decide.       *)
(***************************************************************************)
EXTENDS Mailboxes

CONSTANTS
    MESSAGE,            \* sizeof(struct ipc_message): 16 and the data
    DATA,               \* size of its data, 256
    User,               \* pid of the task
    Sizes               \* what the task sends by itself

VARIABLES
    ipc,                \* the kernel's mailboxes
    refused             \* history: the last send failed although its data fit
                        \* in a message and the pool had room

vars == <<ipc, refused>>

Init == ipc = Empty(MAX_MESSAGES) /\ refused = FALSE

----------------------------------------------------------------------------
(* The whole struct goes out, however little of it is data.                *)
Sendable(receiver, size) == size <= DATA /\ Accepts(ipc, receiver, MESSAGE)
Refused(receiver, size) ==
    ~Sendable(receiver, size) /\ size <= DATA /\ receiver \in Pid /\ ipc.free > 0

ipc_send_message(receiver, size) ==
    /\ refused' = Refused(receiver, size)
    /\ ipc' = IF Sendable(receiver, size)
              THEN Sent(ipc, User, receiver, MESSAGE, size) ELSE ipc

ipc_receive_message ==
    /\ ipc' = Taken(ipc, User)
    /\ refused' = FALSE

(* It receives only when the send succeeded, and does not wait.            *)
send_request(server, size) ==
    /\ refused' = Refused(server, size)
    /\ ipc' = IF Sendable(server, size)
              THEN Taken(Sent(ipc, User, server, MESSAGE, size), User) ELSE ipc

(* client_bullet_* and net_service_*: the servers by the pids the library  *)
(* knows them by, and the size of each request struct.                     *)
bullet_service == \E size \in {68, 4} : send_request(1, size)
net_service    == \E size \in {2, 8, 208} : send_request(2, size)

(* Another task, by the system calls.                                      *)
syscall_send_msg(self, size) ==
    /\ Accepts(ipc, User, size)
    /\ ipc' = Sent(ipc, self, User, size, size)
    /\ refused' = FALSE

Next ==
    \/ \E receiver \in Pid, size \in Sizes : ipc_send_message(receiver, size)
    \/ ipc_receive_message
    \/ bullet_service \/ net_service
    \/ \E self \in Pid \ {User}, size \in Sizes : syscall_send_msg(self, size)

Spec == Init /\ [][Next]_vars

----------------------------------------------------------------------------
(* PHASE5_SUMMARY.md:98 lists message sending among what the library tests *)
(* show, and ipc.c:32 refuses a message as "too large" above 256 bytes     *)
(* only: what fits is sent as long as there is a free slot.                *)
WhatFitsIsSent == ~refused
============================================================================
