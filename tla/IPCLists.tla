------------------------------ MODULE IPCLists ------------------------------
(***************************************************************************)
(* kernal/ipc.c: message structs taken from one free list and linked into  *)
(* one queue (head, tail, count) per pid.  A call runs to its end before   *)
(* any other starts: nothing in it yields and interrupts are off.          *)
(***************************************************************************)
EXTENDS Integers, Sequences

CONSTANTS MAX_TASKS, MAX_MESSAGES, MAX_MESSAGE_SIZE, Data

ASSUME ListsAssumption ==
    /\ MAX_TASKS \in Nat \ {0}
    /\ MAX_MESSAGES \in Nat
    /\ MAX_MESSAGE_SIZE \in Nat \ {0}
    /\ Data # {}

NULL == 0
FREE == -1                      \* names the free list among the lists of slots
Slot == 1..MAX_MESSAGES         \* the addresses of the message structs
Pid  == 0..(MAX_TASKS - 1)
Size == 1..MAX_MESSAGE_SIZE
List == Pid \cup {FREE}

VARIABLES
    next,           \* msg->next
    mem,            \* the other fields of a message struct
    free_messages,  \* head of the free list
    head, tail,     \* message_queues[p].head, .tail
    count,          \* message_queues[p].count
    result,         \* what the last call returned to its caller
    lists           \* history: the slots each list should hold; a queue with
                    \* the oldest first, the free list with its top last

vars == <<next, mem, free_messages, head, tail, count, result, lists>>

Returned(r) == [ret |-> r, copied |-> 0, data |-> {}]
Blank(data) == [sender_pid |-> -1, receiver_pid |-> -1, size |-> 0, data |-> data]

(* ipc_init: kmalloc may give fewer structs than asked for, with anything  *)
(* in them; only data matters, the rest is written before it is read.      *)
Init == \E slots \in 0..MAX_MESSAGES :
    /\ next = [m \in 1..slots |-> m - 1]
    /\ mem \in [1..slots -> {Blank(d) : d \in Data}]
    /\ free_messages = slots
    /\ head  = [p \in Pid |-> NULL]
    /\ tail  = [p \in Pid |-> NULL]
    /\ count = [p \in Pid |-> 0]
    /\ result = Returned(0)
    /\ lists = [l \in List |-> IF l = FREE THEN [i \in 1..slots |-> i] ELSE << >>]

----------------------------------------------------------------------------
Unlinked_next_kept == next
(* The next pointers once alloc_message has taken the top of the free list.*)
Unlinked == [next EXCEPT ![free_messages] = NULL]

Enqueue_in_front(links, receiver_pid, msg) ==
    /\ head' = [head EXCEPT ![receiver_pid] = msg]
    /\ next' = [links EXCEPT ![msg] = head[receiver_pid]]
    /\ tail' = [tail EXCEPT ![receiver_pid] = IF head[receiver_pid] = NULL THEN msg ELSE @]
    /\ count' = [count EXCEPT ![receiver_pid] = @ + 1]
    /\ lists' = [lists EXCEPT ![FREE] = SubSeq(@, 1, Len(@) - 1),
                              ![receiver_pid] = Append(@, msg)]
(* msg becomes the last of its queue; links are the next pointers so far.  *)
Enqueue(links, receiver_pid, msg) ==
    /\ IF head[receiver_pid] = NULL
       THEN /\ head' = [head EXCEPT ![receiver_pid] = msg]
            /\ next' = links
       ELSE /\ next' = [links EXCEPT ![tail[receiver_pid]] = msg]
            /\ UNCHANGED head
    /\ tail'  = [tail EXCEPT ![receiver_pid] = msg]
    /\ count' = [count EXCEPT ![receiver_pid] = @ + 1]
    /\ lists' = [lists EXCEPT ![FREE] = SubSeq(@, 1, Len(@) - 1),
                              ![receiver_pid] = Append(@, msg)]

CanSend_any_size(receiver_pid, size) ==
    receiver_pid \in Pid /\ free_messages # NULL
CanSend(receiver_pid, size) ==
    receiver_pid \in Pid /\ size \in Size /\ free_messages # NULL

send_message(self, receiver_pid, size, data) ==
    /\ CanSend(receiver_pid, size)
    /\ free_messages' = next[free_messages]
    /\ mem' = [mem EXCEPT ![free_messages] =
                  [sender_pid |-> self, receiver_pid |-> receiver_pid,
                   size |-> size, data |-> data]]
    /\ Enqueue(Unlinked, receiver_pid, free_messages)
    /\ result' = Returned(0)

(* A bad pid, a bad size or an empty pool.  A null pointer is refused by   *)
(* the same early returns as a size of 0 and stands for one.               *)
send_fails(receiver_pid, size) ==
    /\ ~CanSend(receiver_pid, size)
    /\ result' = Returned(-1)
    /\ UNCHANGED <<next, mem, free_messages, head, tail, count, lists>>

(* The oldest message leaves its queue.                                    *)
Dequeue(self) ==
    /\ head'  = [head EXCEPT ![self] = next[@]]
    /\ tail'  = [tail EXCEPT ![self] = IF next[head[self]] = NULL THEN NULL ELSE @]
    /\ count' = [count EXCEPT ![self] = @ - 1]

free_message_unlinked(msg) ==
    /\ mem' = [mem EXCEPT ![msg] = Blank(@.data)]
    /\ free_messages' = msg
    /\ UNCHANGED next
free_message(msg) ==
    /\ mem' = [mem EXCEPT ![msg] = Blank(@.data)]
    /\ next' = [next EXCEPT ![msg] = free_messages]
    /\ free_messages' = msg

(* The sender_pid argument is not looked at.                               *)
recv_message(self, max_size) ==
    /\ max_size > 0 /\ head[self] # NULL
    /\ Dequeue(self)
    /\ free_message(head[self])
    /\ lists' = [lists EXCEPT ![self] = Tail(@), ![FREE] = Append(@, head[self])]
    /\ LET msg == mem[head[self]] IN
       IF msg.size \in Size
       THEN result' = [ret |-> msg.size, data |-> {msg.data},
                       copied |-> IF msg.size < max_size THEN msg.size ELSE max_size]
       ELSE result' = Returned(-1)

recv_fails(self, max_size) ==
    /\ max_size <= 0 \/ head[self] = NULL
    /\ result' = Returned(-1)
    /\ UNCHANGED <<next, mem, free_messages, head, tail, count, lists>>

Next == \E self \in Pid :
    \/ \E receiver_pid \in -1..MAX_TASKS, size \in 0..(MAX_MESSAGE_SIZE + 1) :
        \/ \E data \in Data : send_message(self, receiver_pid, size, data)
        \/ send_fails(receiver_pid, size)
    \/ \E max_size \in 0..MAX_MESSAGE_SIZE :
        \/ recv_message(self, max_size)
        \/ recv_fails(self, max_size)

Spec == Init /\ [][Next]_vars

----------------------------------------------------------------------------
TypeOK ==
    /\ DOMAIN next \in {1..n : n \in 0..MAX_MESSAGES}
    /\ next \in [DOMAIN next -> Slot \cup {NULL}]
    /\ mem \in [DOMAIN next -> [sender_pid : Pid \cup {-1}, receiver_pid : Pid \cup {-1},
                                size : Size \cup {0}, data : Data]]
    /\ free_messages \in DOMAIN next \cup {NULL}
    /\ head \in [Pid -> DOMAIN next \cup {NULL}]
    /\ tail \in [Pid -> DOMAIN next \cup {NULL}]
    /\ count \in [Pid -> Nat]
    /\ lists \in [List -> Seq(DOMAIN next)]
    /\ result \in [ret : {-1, 0} \cup Size, copied : {0} \cup Size, data : SUBSET Data]

(* Following next from head visits the messages in the order they were     *)
(* sent and ends at tail; count says how many there are.  It is what       *)
(* ipc_log_queue_status would report as CORRUPTION (ipc.c:349), for every  *)
(* queue at once, across any mix of calls of all tasks.                    *)
QueuesLinked == \A p \in Pid :
    LET q == lists[p] IN
    /\ count[p] = Len(q)
    /\ head[p] = IF q = << >> THEN NULL ELSE q[1]
    /\ tail[p] = IF q = << >> THEN NULL ELSE q[Len(q)]
    /\ \A i \in 1..Len(q) : next[q[i]] = IF i = Len(q) THEN NULL ELSE q[i + 1]

(* Following next from free_messages visits the slots in the reverse of    *)
(* the order they were freed in and ends (alloc_message, free_message).    *)
FreeLinked ==
    LET f == lists[FREE] IN
    /\ free_messages = IF f = << >> THEN NULL ELSE f[Len(f)]
    /\ \A i \in 1..Len(f) : next[f[i]] = IF i = 1 THEN NULL ELSE f[i - 1]

(* Every message struct is in exactly one list, once: no send takes a slot *)
(* that a queue still holds, no slot leaks and none is freed twice, so the *)
(* queues and the free list always add up to the pool (ipc.c:305).         *)
Holds(l, m) == \E i \in 1..Len(lists[l]) : lists[l][i] = m
NoSlotLeaked == \A m \in DOMAIN next : \E l \in List : Holds(l, m)
NoSlotShared ==
    \A l, k \in List : \A i \in 1..Len(lists[l]), j \in 1..Len(lists[k]) :
        lists[l][i] = lists[k][j] => l = k /\ i = j
EverySlotOnce == NoSlotLeaked /\ NoSlotShared

(* Only complete messages are queued, each with the receiver it is queued  *)
(* for, so the integrity checks of recv_message (ipc.c:217-225) never fire.*)
QueuedAreWhole == \A p \in Pid : \A i \in 1..Len(lists[p]) :
    LET m == mem[lists[p][i]] IN
    m.receiver_pid = p /\ m.sender_pid \in Pid /\ m.size \in Size

(* The lists implement the mailboxes of IPC: FIFO per receiver, nothing    *)
(* lost, duplicated or altered, a send refused only for a bad argument or  *)
(* when as many messages are pending as there are slots.                   *)
View(m) == [sender_pid |-> mem[m].sender_pid, size |-> mem[m].size, data |-> mem[m].data]
Mailbox(p) == [i \in 1..Len(lists[p]) |-> View(lists[p][i])]
Mapped == [mailbox |-> [p \in Pid |-> Mailbox(p)], free |-> Len(lists[FREE])]
Abstract == INSTANCE IPC WITH ipc <- Mapped
ImplementsIPC == Abstract!Spec
============================================================================
