----------------------------- MODULE MCNetServer -----------------------------
EXTENDS NetServer

Id == 1..LAST_ID

Unknown == [cmd |-> 9, size |-> 8, args |-> << >>]
Short   == [cmd |-> 1, size |-> 7, args |-> << >>]

(* Two tasks, 0 and 1, that open, use and close sockets.                   *)
SocketApi == {NewSocket(TCP), NewSocket(UDP), Bind(16, 1)}
SocketRaw == {Connect(id) : id \in Id} \cup {Close(id) : id \in Id}
             \cup {Listen(1), Bind(20, 1), Unknown, Short}
             \cup {SendData(1, 65540), SendData(1, 1600)}

(* Packets arrive at the sockets of the first task, which reads them.      *)
RingPackets == {<<"b", "a">>}
RingRaw == {Connect(id) : id \in Id} \cup {RecvData(id, 2 * CELL) : id \in Id}
           \cup {RecvData(1, CELL), Close(1)}
ServerApi == SocketApi
ServerRaw == SocketRaw \cup RingRaw

(* Bound: where a ring is in use the first task alone uses the server, with*)
(* one request at a time.                                                  *)
RingUnused(i) == \A k \in Cells : sockets[i].rx_buffer[k] = Nothing
FirstTaskAlone ==
    /\ \A i \in Slot : /\ sockets[i].owner_pid = 0 /\ sockets[i].type = TCP
                       /\ sockets[i].state \in {"CLOSED", "CONNECTED"}
    /\ \E i \in Slot : \A j \in Slot \ {i} : RingUnused(j)
    /\ ipc.free >= MAX_MESSAGES - 1 /\ ipc.mailbox[1] = << >>
    /\ \A k \in DOMAIN ipc.mailbox[NET_SERVER_PID] :
        /\ Request(NET_SERVER_PID).from = 0
        /\ Request(NET_SERVER_PID).re \in RingRaw \cup {NewSocket(TCP)}
RingsOfOneTask == (\A i \in Slot : RingUnused(i)) \/ FirstTaskAlone

(* net_bind.                                                               *)
BindApi == {NewSocket(TCP), Bind(16, 1)}
=============================================================================
