------------------------------ MODULE Mailboxes ------------------------------
(***************************************************************************)
(* What the kernel's message passing keeps, as a value: one FIFO mailbox   *)
(* for every pid and one pool of message slots that they share.  The       *)
(* operators return the value that a call leaves behind, so that code that *)
(* makes several calls in one step (a server's turn) can be written too.   *)
(***************************************************************************)
EXTENDS Integers, Sequences

CONSTANTS
    MAX_TASKS,          \* one mailbox for every slot of the task table
    MAX_MESSAGES,       \* size of the pool, ipc.h
    MAX_MESSAGE_SIZE    \* largest message, ipc.h

ASSUME MailboxAssumption ==
    /\ MAX_TASKS \in Nat \ {0}
    /\ MAX_MESSAGES \in Nat
    /\ MAX_MESSAGE_SIZE \in Nat \ {0}

Pid     == 0..(MAX_TASKS - 1)
Size    == 1..MAX_MESSAGE_SIZE

(* slots: how many message structs ipc_init got.                           *)
Empty(slots) == [mailbox |-> [p \in Pid |-> << >>], free |-> slots]

(* The receiver need not be a live task: any slot number will do.          *)
Accepts(ipc, receiver_pid, size) ==
    receiver_pid \in Pid /\ size \in Size /\ ipc.free > 0

(* send_message by self: the message goes to the end of the mailbox, or    *)
(* nothing changes.                                                        *)
Sent(ipc, self, receiver_pid, size, data) ==
    IF Accepts(ipc, receiver_pid, size)
    THEN [mailbox |-> [ipc.mailbox EXCEPT ![receiver_pid] =
              Append(@, [sender_pid |-> self, size |-> size, data |-> data])],
          free |-> ipc.free - 1]
    ELSE ipc

(* recv_message by self: it takes the oldest message, whoever sent it; an  *)
(* empty mailbox does not block.                                           *)
HasMail(ipc, self) == ipc.mailbox[self] # << >>
Oldest(ipc, self)  == Head(ipc.mailbox[self])
Taken(ipc, self) ==
    IF HasMail(ipc, self)
    THEN [mailbox |-> [ipc.mailbox EXCEPT ![self] = Tail(@)], free |-> ipc.free + 1]
    ELSE ipc
============================================================================
