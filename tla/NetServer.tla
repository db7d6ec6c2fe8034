------------------------------ MODULE NetServer ------------------------------
(***************************************************************************)
(* The network server (server/net_srv.c): a task that keeps a table of     *)
(* sockets, each with a ring for the bytes it received, for the tasks of   *)
(* ServerClients.  Addresses and ports are stored and never read: they are *)
(* left out.  Bytes come in cells of CELL: every length in the runs that   *)
(* is compared with a ring or a message is a multiple of it.               *)
(***************************************************************************)
EXTENDS ServerClients, FiniteSetsExt

CONSTANTS
    NET_SERVER_PID,
    MAX_SOCKETS,
    CELL,
    RX_CELLS,           \* sizeof(rx_buffer) in cells
    Packets,            \* what the driver can hand over: sequences of cells
    ApiRequests,        \* requests made through the client functions
    RawRequests,        \* requests of tasks that make the system calls
    LAST_ID             \* bound: sockets that are asked for

ASSUME NetAssumption ==
    /\ NET_SERVER_PID \in Servers
    /\ {MAX_SOCKETS, CELL, RX_CELLS} \subseteq Nat \ {0}
    /\ LAST_ID \in Nat
    /\ << >> \notin Packets /\ \A pkt \in Packets : Len(pkt) \in Nat

VARIABLES sockets, next_socket_id       \* the fields of netserv

vars == <<clientVars, sockets, next_socket_id>>

(* The state without what only the last call of a client returned.         *)
serverView == <<ipc, owed, sockets, next_socket_id>>

TCP == 1
UDP == 2
Slot == 1..MAX_SOCKETS
Cells == 0..(RX_CELLS - 1)
Nothing == "nothing"                    \* a cell of rx_buffer never written

(* The requests, with the size they are sent with.  net_bind packs address *)
(* and port into one word, net_socket_send copies at most 240 bytes.       *)
NewSocket(type)    == [cmd |-> 1, size |-> 12, args |-> <<type>>]
Bind(size, id)     == [cmd |-> 2, size |-> size, args |-> <<id>>]
Listen(id)         == [cmd |-> 3, size |-> 16, args |-> <<id>>]
Connect(id)        == [cmd |-> 4, size |-> 20, args |-> <<id>>]
SendData(id, len)  == [cmd |-> 5, size |-> 16 + (IF len < 240 THEN len ELSE 240),
                       args |-> <<id, len>>]
RecvData(id, max_len) == [cmd |-> 6, size |-> 16, args |-> <<id, max_len>>]
Close(id)          == [cmd |-> 7, size |-> 12, args |-> <<id>>]

Init ==
    /\ ClientInit
    /\ sockets = [i \in Slot |->
        [in_use |-> FALSE, sock_id |-> 0, owner_pid |-> 0, type |-> TCP,
         state |-> "CLOSED", rx_buffer |-> [k \in Cells |-> Nothing],
         rx_head |-> 0, rx_tail |-> 0, rx_count |-> 0]]
    /\ next_socket_id = 1

----------------------------------------------------------------------------
(* The handlers: the table they leave and the value they return, given the *)
(* table they find.  A socket is named by its id, not by its slot.         *)

Unused == {i \in Slot : ~sockets[i].in_use}
Found(id) == {i \in Slot : sockets[i].in_use /\ sockets[i].sock_id = id}
Tcp(id) == {i \in Found(id) : sockets[i].type = TCP}

Allocated_ring_kept(client_pid, type) ==
    [sockets EXCEPT ![Min(Unused)] =
        [@ EXCEPT !.in_use = TRUE, !.sock_id = next_socket_id,
                  !.owner_pid = client_pid, !.type = type, !.state = "CLOSED"]]
Allocated_slot_as_id(client_pid, type) ==
    [sockets EXCEPT ![Min(Unused)] =
        [@ EXCEPT !.in_use = TRUE, !.sock_id = Min(Unused),
                  !.owner_pid = client_pid, !.type = type, !.state = "CLOSED",
                  !.rx_head = 0, !.rx_tail = 0, !.rx_count = 0]]
(* allocate_socket: the first slot that is not in use.                     *)
Allocated(client_pid, type) ==
    [sockets EXCEPT ![Min(Unused)] =
        [@ EXCEPT !.in_use = TRUE, !.sock_id = next_socket_id,
                  !.owner_pid = client_pid, !.type = type, !.state = "CLOSED",
                  !.rx_head = 0, !.rx_tail = 0, !.rx_count = 0]]

(* The table with the sockets of found, at most one, in another state.     *)
InState(found, st) ==
    [i \in Slot |-> IF i \in found THEN [sockets[i] EXCEPT !.state = st] ELSE sockets[i]]
Closed_state_kept(found) ==
    [i \in Slot |-> IF i \in found THEN [sockets[i] EXCEPT !.in_use = FALSE] ELSE sockets[i]]
Closed(found) ==
    [i \in Slot |-> IF i \in found
                    THEN [sockets[i] EXCEPT !.in_use = FALSE, !.state = "CLOSED"]
                    ELSE sockets[i]]

Smaller(a, b) == IF a < b THEN a ELSE b

(* recv_socket_data: the oldest cells of the ring, as many as fit.         *)
FirstCells(s, n) == [k \in 1..n |-> s.rx_buffer[(s.rx_tail + k - 1) % RX_CELLS]]
Readable(id, max_len) ==
    IF Found(id) = {} THEN << >>
    ELSE LET s == sockets[Min(Found(id))]
         IN FirstCells(s, Smaller(s.rx_count, Smaller(max_len \div CELL, RX_CELLS)))
Drained(found, n) ==
    [i \in Slot |-> IF i \in found
                    THEN [sockets[i] EXCEPT !.rx_tail = (@ + n) % RX_CELLS,
                                            !.rx_count = @ - n]
                    ELSE sockets[i]]

(* socket_add_rx_data: what does not fit in the ring is dropped.           *)
RxAdded(s, pkt) ==
    LET n == Smaller(Len(pkt), RX_CELLS - s.rx_count)
        Written(k) == ((k - s.rx_head) % RX_CELLS) + 1  \* the cell of pkt for k
    IN [s EXCEPT !.rx_buffer = [k \in Cells |->
                     IF Written(k) <= n THEN pkt[Written(k)] ELSE @[k]],
                 !.rx_head = (@ + n) % RX_CELLS,
                 !.rx_count = @ + n]

(* process_network_packets: the first connected socket gets the packet.    *)
Routed(table, pkt) ==
    LET open == {i \in Slot : table[i].in_use /\ table[i].state = "CONNECTED"}
    IN IF open = {} THEN table ELSE [table EXCEPT ![Min(open)] = RxAdded(@, pkt)]

----------------------------------------------------------------------------
(* net_handle_client_message.  Less than 4 bytes get no reply, a request   *)
(* too short for its command or of no known command gets -1.               *)
Due(req) == req.size - 4 >= 4
Needs == <<8, 16, 12, 16, 16, 12, 8>>
Complete(req) == req.cmd \in DOMAIN Needs /\ req.size - 4 >= Needs[req.cmd]

(* Sizes are numbers; socket() is asked for one of the two types, and      *)
(* nobody reads a negative number of bytes.                                *)
ASSUME RequestAssumption == \A req \in ApiRequests \cup RawRequests :
    /\ req.size \in Nat
    /\ Complete(req) /\ req.cmd = 1 => req.args[1] \in {TCP, UDP}
    /\ Complete(req) /\ req.cmd = 6 => req.args[2] \in Nat

Table(req, from) ==
    LET id == req.args[1]
    IN CASE req.cmd = 1 -> IF Unused = {} THEN sockets ELSE Allocated(from, req.args[1])
         [] req.cmd = 2 -> InState(Found(id), "BOUND")
         [] req.cmd = 3 -> InState(Tcp(id), "LISTENING")
         [] req.cmd = 4 -> InState(Tcp(id), "CONNECTED")
         [] req.cmd = 5 -> sockets
         [] req.cmd = 6 -> Drained(Found(id), Len(Readable(id, req.args[2])))
         [] req.cmd = 7 -> Closed(Found(id))

Fails(test) == IF test THEN -1 ELSE 0
(* The length of what is sent goes through a uint16_t before it is compared*)
(* with the largest packet (syscall_net_send, net_send).                   *)
TooLong(len) == len % 65536 > 1514
Value(req) ==
    LET id == req.args[1]
    IN CASE req.cmd = 1 -> IF Unused = {} THEN -1 ELSE next_socket_id
         [] req.cmd = 2 -> Fails(Found(id) = {})
         [] req.cmd \in {3, 4} -> Fails(Tcp(id) = {})
         [] req.cmd = 5 -> Fails(\A i \in Found(id) :
                                    sockets[i].state # "CONNECTED" \/ TooLong(req.args[2]))
         [] req.cmd = 6 -> Fails(Found(id) = {})
         [] req.cmd = 7 -> 0

Reply_if_complete(req) ==
    IF Complete(req) THEN Answered(NET_SERVER_PID, 4, Value(req), << >>)
    ELSE Taken(ipc, NET_SERVER_PID)
(* Received bytes are the reply themselves; if the send fails they are     *)
(* lost, for they have left the ring.                                      *)
Reply(req) ==
    LET cells == IF Complete(req) /\ req.cmd = 6
                 THEN Readable(req.args[1], req.args[2]) ELSE << >>
        value == IF Complete(req) THEN Value(req) ELSE -1
    IN IF ~Due(req) THEN Taken(ipc, NET_SERVER_PID)
       ELSE IF cells # << >> THEN Answered(NET_SERVER_PID, Len(cells) * CELL, 0, cells)
       ELSE Answered(NET_SERVER_PID, 4, value, << >>)

(* A turn of the loop: a message is handled, then a packet, if there are.  *)
serve(pkt) ==
    /\ HasMail(ipc, NET_SERVER_PID)
    /\ LET req  == Request(NET_SERVER_PID).re
           from == Request(NET_SERVER_PID).from
       IN /\ ipc' = Reply(req)
          /\ sockets' = Routed(IF Complete(req) THEN Table(req, from) ELSE sockets, pkt)
          /\ next_socket_id' = IF Complete(req) /\ req.cmd = 1 /\ Unused # {}
                               THEN next_socket_id + 1 ELSE next_socket_id
    /\ UNCHANGED <<asked, answer, owed>>

idle_turn(pkt) ==
    /\ ~HasMail(ipc, NET_SERVER_PID)
    /\ sockets' = Routed(sockets, pkt)
    /\ UNCHANGED <<clientVars, next_socket_id>>

(* Bound: not more than LAST_ID sockets are asked for.                     *)
Asks(req) == Complete(req) /\ req.cmd = 1
SocketsAsked ==
    LET waiting == ipc.mailbox[NET_SERVER_PID]
    IN next_socket_id - 1 + Cardinality({k \in DOMAIN waiting : Asks(waiting[k].data.re)})
Bounded(req) == Asks(req) => SocketsAsked < LAST_ID

use(c) ==
    /\ \/ \E req \in ApiRequests :
            /\ Bounded(req)
            /\ \/ call(c, NET_SERVER_PID, req, Due(req))
               \/ call_fails(c, NET_SERVER_PID, req)
       \/ \E req \in RawRequests : Bounded(req) /\ post(c, NET_SERVER_PID, req, Due(req))
       \/ collect(c)
    /\ UNCHANGED <<sockets, next_socket_id>>

Turn == \E pkt \in Packets \cup {<< >>} : serve(pkt) \/ idle_turn(pkt)

Next == Turn \/ \E c \in Clients : use(c)

Spec == Init /\ [][Next]_vars

----------------------------------------------------------------------------
TypeOK ==
    /\ DOMAIN ipc.mailbox = Pid /\ ipc.free \in 0..MAX_MESSAGES
    /\ next_socket_id \in 1..(LAST_ID + 1)
    /\ \A i \in Slot :
        /\ sockets[i].type \in {TCP, UDP} /\ sockets[i].owner_pid \in Pid
        /\ sockets[i].state \in {"CLOSED", "BOUND", "LISTENING", "CONNECTED"}
        /\ ~sockets[i].in_use => sockets[i].state = "CLOSED"
        /\ {sockets[i].rx_head, sockets[i].rx_tail} \subseteq Cells
        /\ sockets[i].rx_count \in 0..RX_CELLS

(* Each client gets one answer to each request of at least 4 bytes, in the *)
(* order of its requests, -1 for those the server does not understand: the *)
(* send of the reply, whose failure nobody looks at (net_srv.c:305), finds *)
(* the slot that the request has just left.                                *)
AnswersInOrder == InOrder(NET_SERVER_PID, {req \in ApiRequests \cup RawRequests : Due(req)})

(* Two sockets never share an id, and the id in a reply names no socket of *)
(* another task by the time the client reads it (allocate_socket).         *)
IdsAreOwned ==
    /\ \A i, j \in Slot : sockets[i].in_use /\ sockets[j].in_use
            /\ sockets[i].sock_id = sockets[j].sock_id => i = j
    /\ \A c \in Clients : \A k \in 1..Len(ipc.mailbox[c]) :
        LET d == ipc.mailbox[c][k].data
        IN d.re.cmd = 1 => \A i \in Found(d.value) : sockets[i].owner_pid = c

(* A slot is used again, an id is not: requests that are still queued when *)
(* their socket is closed never reach the socket that gets its slot.       *)
IdsNeverReturn == [][\A id \in 1..(next_socket_id - 1) :
                        Found(id) = {} => Found(id)' = {}]_vars

(* The ring of a socket is a queue: a turn takes cells off its front, all  *)
(* of them in the reply it sends, and adds those of a packet at its end,   *)
(* dropping cells only when the ring is full; a new socket has none of the *)
(* bytes of the one that had its slot (recv_socket_data,                   *)
(* socket_add_rx_data, allocate_socket).                                   *)
Unread(i) == FirstCells(sockets[i], sockets[i].rx_count)
SentTo(c, cells) ==
    /\ Len(ipc'.mailbox[c]) > Len(ipc.mailbox[c])
    /\ ipc'.mailbox[c][Len(ipc'.mailbox[c])].data.bytes = cells
QueueStep(old, new) ==
    \E k \in 0..Len(old), pkt \in Packets \cup {<< >>} : \E n \in 0..Len(pkt) :
        /\ new = SubSeq(old, k + 1, Len(old)) \o SubSeq(pkt, 1, n)
        /\ k > 0 => \E c \in Clients : SentTo(c, SubSeq(old, 1, k))
        /\ n < Len(pkt) => Len(new) = RX_CELLS
RingsAreQueues ==
    [][\A i \in Slot :
        IF sockets[i].sock_id = sockets[i].sock_id' THEN QueueStep(Unread(i), Unread(i)')
        ELSE Unread(i)' = << >>]_sockets

(* A client that is owed an answer has mail in the end.                    *)
Served == \A c \in Clients : (owed[c][NET_SERVER_PID] # << >>) ~> HasMail(ipc, c)

(* PHASE4_SUMMARY.md:48 "net_bind() - Bind socket to address/port": a      *)
(* request made by net_bind for a socket that exists binds it.             *)
BindBinds ==
    [][\A id \in 1..LAST_ID :
        /\ HasMail(ipc, NET_SERVER_PID) /\ Request(NET_SERVER_PID).re = Bind(16, id)
        /\ ipc'.mailbox[NET_SERVER_PID] # ipc.mailbox[NET_SERVER_PID]
        /\ Found(id) # {} /\ Len(ipc'.mailbox[NET_SERVER_PID]) < Len(ipc.mailbox[NET_SERVER_PID])
        => \A i \in Found(id) : sockets'[i].state = "BOUND"]_vars
=============================================================================
