------------------------------ MODULE Programs ------------------------------
(***************************************************************************)
(* The programs of the image on the libraries they are linked with: the    *)
(* commands of kmain's console and the applications behind them, and tasks *)
(* that use sockets, packets and strings.  No program yields before it is  *)
(* done: a command is one step.                                            *)
(*                                                                         *)
(* Console input and packets come with interrupts, which are off: in this  *)
(* build only phase5_test runs, once, at boot (main.c:48).                 *)
(***************************************************************************)
EXTENDS Libnet, Strings, SequencesExt

CONSTANTS
    Users,              \* pids of the tasks that use the libraries
    IdleTasks,          \* pids of tasks that only yield
    Lengths,            \* of the data they send
    PACKET_POOL_SIZE, PERIOD

ASSUME ProgramsAssumption ==
    /\ Users \cup IdleTasks \subseteq Pid /\ Users \cap IdleTasks = {}
    /\ {PACKET_POOL_SIZE, PERIOD} \subseteq Nat \ {0}

VARIABLES
    net,                \* sockets and mailboxes
    pool, interrupt_count, received     \* the packets, see NetDriver

driverVars == <<pool, interrupt_count, received>>
vars       == <<net, driverVars, mem>>

D == INSTANCE NetDriver

KMAIN == 0

Init ==
    /\ net = Booted(MAX_MESSAGES)
    /\ D!Init
    /\ mem = EmptyStrings

----------------------------------------------------------------------------
(* Tasks at large.                                                         *)

Becomes(n) ==
    /\ net' = Returning(n, 0)
    /\ UNCHANGED driverVars

use_socket(self) ==
    \/ \E type \in {0, SOCK_STREAM, SOCK_DGRAM} : Becomes(socket(net, AF_INET, type))
    \/ \E fd \in 0..(MAX_SOCKETS + 1) :
        \/ Becomes(bind(net, fd, AF_INET))
        \/ Becomes(connect(net, fd, AF_INET))
        \/ Becomes(listen(net, fd))
        \/ Becomes(accept(net, fd))
        \/ Becomes(close_user_socket(net, fd))
        \/ \E len \in Lengths :
            \/ Becomes(send(net, self, fd, len))
            \/ Becomes(sendto(net, self, fd, len))
            \/ Becomes(recv(net, self, fd, len))
            \/ Becomes(recvfrom(net, self, fd, len))

(* The packet functions of libnet, the console's r.                        *)
use_packets == D!Next /\ UNCHANGED net

----------------------------------------------------------------------------
(* The applications.                                                       *)

(* apps/library_test.c; its message is one of LibHydra's, which the kernel *)
(* refuses.                                                                *)
phase5_test ==
    LET tcp    == socket(net, AF_INET, SOCK_STREAM)
        bound  == bind(tcp, tcp.ret, AF_INET)
        heard  == IF bound.ret = 0 THEN listen(bound, tcp.ret) ELSE bound
        closed == IF tcp.ret < 0 THEN tcp ELSE close_user_socket(heard, tcp.ret)
        udp    == socket(closed, AF_INET, SOCK_DGRAM)
    IN Becomes(IF udp.ret < 0 THEN udp ELSE close_user_socket(udp, udp.ret))

HEADER == 13            \* bytes of the image's header
CHUNK  == 64
IMAGE  == 576           \* bytes of the test image

(* apps/image_sender.c.  The image's first chunk, 512 bytes, is too large  *)
(* for a message and the last that is tried.  The raytracer only computes. *)
Served(n, self, fd) ==
    LET new == accept(n, fd)
        cfd == new.ret
        asked == recv(new, self, cfd, 511)
    IN close_user_socket(send(send(asked, self, cfd, 100), self, cfd, 512), cfd)
(* Three connections are served.  The loop would not end if the table were *)
(* full: the demo needs two entries.                                       *)
image_server_demo(n, self, got_memory) ==
    LET s == socket(n, AF_INET, SOCK_STREAM)
        b == bind(s, s.ret, AF_INET)
        l == listen(b, s.ret)
    IN IF s.ret < 0 THEN s
       ELSE IF b.ret < 0 \/ l.ret < 0 \/ ~got_memory THEN close_user_socket(l, s.ret)
       ELSE close_user_socket(
                Served(Served(Served(l, self, s.ret), self, s.ret), self, s.ret), s.ret)

(* A turn of the loop that sends the image: the system, and what is left.  *)
(* It stops at a result of 0, which means success to the kernel.           *)
Turn(s, self, fd) ==
    LET r == sendto(s.net, self, fd, Min({CHUNK, s.left}))
    IN IF s.left <= 0 THEN s
       ELSE [net |-> r, left |-> IF r.ret <= 0 THEN 0 ELSE s.left - r.ret]
(* A turn sends a whole chunk or is the last.                              *)
Chunks(n, self, fd, left) ==
    LET chunks == (left + CHUNK - 1) \div CHUNK
        after[k \in 0..chunks] ==
          IF k = 0 THEN [net |-> n, left |-> left] ELSE Turn(after[k - 1], self, fd)
    IN after[chunks].net

udp_image_broadcast_demo(n, self, got_memory) ==
    LET s == socket(n, AF_INET, SOCK_DGRAM)
    IN IF s.ret < 0 THEN s
       ELSE IF ~got_memory THEN close_user_socket(s, s.ret)
       ELSE close_user_socket(
                Chunks(sendto(s, self, s.ret, HEADER), self, s.ret, IMAGE), s.ret)

(* got_memory: what the heap had for the big image and for the small one.  *)
phase6_demo(got_memory) ==
    Becomes(udp_image_broadcast_demo(image_server_demo(net, KMAIN, got_memory[1]),
                                     KMAIN, got_memory[2]))

(* The console's b and t, which mean to reach the servers and post to an   *)
(* idle task; t has no data, and is refused.                               *)
console(size) ==
    Becomes([net EXCEPT !.ipc = Sent(@, KMAIN, 1, size, size)])

program ==
    /\ \/ \E self \in Users : use_socket(self)
       \/ use_packets
       \/ phase5_test
       \/ \E got_memory \in [1..2 -> BOOLEAN] : phase6_demo(got_memory)
       \/ \E size \in {0, 20} : console(size)
    /\ UNCHANGED mem

strings == use_strings /\ UNCHANGED <<net, driverVars>>

Next == program \/ strings

Spec == Init /\ [][Next]_vars

----------------------------------------------------------------------------
(* What the code does against what the documents say of it.  socket()      *)
(* leaves the entry it hands out closed: every socket of every task is the *)
(* first entry, and no call binds or connects it.  PHASE5_SUMMARY.md:80,99 *)
(* "Socket descriptor management with state tracking", "Network            *)
(* operations: Socket creation, binding, protocol support".                *)
OneEntryForAll == \A fd \in Descriptor :
    /\ net.sockets[fd].state = "CLOSED"
    /\ fd # 1 => net.sockets[fd] = Unused

(* Data for the network goes to pid 2, an idle task, and so does the       *)
(* console's: each message keeps its slot of the pool, for nobody takes it.*)
(* PHASE5_SUMMARY.md:81 "Integration with existing network server (PID 2)  *)
(* via IPC", socket.c:159 "Send to network server via IPC".                *)
MailForIdleTasksStays ==
    [][\A p \in IdleTasks : IsPrefix(net.ipc.mailbox[p], net'.ipc.mailbox[p])]_vars

(* A demo sends the header and one chunk of the image's nine, for sendto   *)
(* returns 0 when it has sent (image_sender.c:210).  PHASE6_SUMMARY.md:56  *)
(* "Image data segmentation for network packets".                          *)
DemoTakesTwo == [][(\E got_memory \in [1..2 -> BOOLEAN] : phase6_demo(got_memory))
                   => net.ipc.free - net'.ipc.free \in 0..2]_vars

(* Packets are neither lost nor handed out twice, and come out in order,   *)
(* whichever program takes them.                                           *)
PoolIsWhole == D!PoolIsWhole
QueueIsFifo == D!QueueIsFifo
=============================================================================
