------------------------------- MODULE Libnet -------------------------------
(***************************************************************************)
(* The sockets of lib/libnet/socket.c.  The library is linked into the one *)
(* image, so its table is shared by all tasks.  A call is an operator from *)
(* a system n to the system it leaves, with the value it returned: the     *)
(* programs on top make several calls before they yield.                   *)
(*                                                                         *)
(* Ports and addresses are stored and read by nothing: only whether the    *)
(* local ones are set is kept.                                             *)
(***************************************************************************)
EXTENDS Mailboxes, FiniteSetsExt

CONSTANTS
    MAX_SOCKETS,
    NET_SERVER_PID      \* the pid the library takes for the server's, 2

ASSUME LibnetAssumption == MAX_SOCKETS \in Nat \ {0} /\ NET_SERVER_PID \in Pid

SOCK_STREAM == 1
SOCK_DGRAM  == 2
AF_INET     == 2

Descriptor == 1..MAX_SOCKETS
Created(type) == [type |-> type, state |-> "CLOSED", local |-> FALSE, remote |-> FALSE]
Unused     == Created(0)

Booted(slots) ==
    [sockets |-> [fd \in Descriptor |-> Unused], ipc |-> Empty(slots), ret |-> 0]

Returning(n, r)     == [n EXCEPT !.ret = r]
InState(n, fd, st)  == fd \in Descriptor /\ n.sockets[fd].state = st
OfType(n, fd, type) == fd \in Descriptor /\ n.sockets[fd].type = type
Opened(n, fd)       == fd \in Descriptor /\ n.sockets[fd].state # "CLOSED"

----------------------------------------------------------------------------
(* The first closed entry, which stays closed.                             *)
socket(n, domain, type) ==
    LET free == {fd \in Descriptor : n.sockets[fd].state = "CLOSED"}
    IN IF domain # AF_INET \/ type \notin {SOCK_STREAM, SOCK_DGRAM} \/ free = {}
       THEN Returning(n, -1)
       ELSE [n EXCEPT !.sockets[Min(free)] = Created(type),
                      !.ret = Min(free)]

bind(n, fd, family) ==
    IF Opened(n, fd) /\ family = AF_INET
    THEN [n EXCEPT !.sockets[fd].local = TRUE, !.sockets[fd].state = "BOUND", !.ret = 0]
    ELSE Returning(n, -1)

listen(n, fd) ==
    IF InState(n, fd, "BOUND") /\ OfType(n, fd, SOCK_STREAM)
    THEN [n EXCEPT !.sockets[fd].state = "LISTENING", !.ret = 0]
    ELSE Returning(n, -1)

(* No connection is waited for.                                            *)
accept(n, fd) ==
    IF ~InState(n, fd, "LISTENING") THEN Returning(n, -1)
    ELSE LET new == socket(n, AF_INET, SOCK_STREAM)
         IN IF new.ret < 0 THEN new
            ELSE [new EXCEPT !.sockets[new.ret].state = "CONNECTED",
                             !.sockets[new.ret].local = n.sockets[fd].local]

connect(n, fd, family) ==
    IF Opened(n, fd) /\ family = AF_INET
    THEN [n EXCEPT !.sockets[fd].remote = TRUE, !.sockets[fd].state = "CONNECTED", !.ret = 0]
    ELSE Returning(n, -1)

(* syscall_send_msg and syscall_recv_msg by task self.                     *)
Posted(n, self, size) ==
    [n EXCEPT !.ipc = Sent(@, self, NET_SERVER_PID, size, size),
              !.ret = IF Accepts(n.ipc, NET_SERVER_PID, size) THEN 0 ELSE -1]
Fetched(n, self, len) ==
    IF len > 0 /\ HasMail(n.ipc, self)
    THEN [n EXCEPT !.ipc = Taken(@, self), !.ret = Oldest(n.ipc, self).size]
    ELSE Returning(n, -1)

send(n, self, fd, len) ==
    IF InState(n, fd, "CONNECTED") THEN Posted(n, self, len) ELSE Returning(n, -1)
recv(n, self, fd, len) ==
    IF InState(n, fd, "CONNECTED") THEN Fetched(n, self, len) ELSE Returning(n, -1)

sendto(n, self, fd, len) ==
    IF OfType(n, fd, SOCK_DGRAM) THEN Posted(n, self, len) ELSE Returning(n, -1)
(* Whether the socket is closed is not asked.                              *)
recvfrom(n, self, fd, len) ==
    IF OfType(n, fd, SOCK_DGRAM) THEN Fetched(n, self, len) ELSE Returning(n, -1)

close_user_socket(n, fd) ==
    IF fd \in Descriptor THEN [n EXCEPT !.sockets[fd].state = "CLOSED", !.ret = 0]
    ELSE Returning(n, -1)
=============================================================================
