---------------------------- MODULE LibrariesProofs ----------------------------
(* Proofs about Programs for any tasks, sizes, tables and pools, and about *)
(* what libc computes for any widths, formats and arguments.               *)
EXTENDS Libraries, SequenceTheorems, FiniteSetTheorems, TLAPS

----------------------------------------------------------------------------
(* The calls of libnet, made in a system whose sockets are all closed.      *)

Mail  == [sender_pid : Pid, size : Size, data : Size]
Entry == {Created(t) : t \in {0, SOCK_STREAM, SOCK_DGRAM}}
Boxes == [mailbox : [Pid -> Seq(Mail)], free : Nat]

(* Only the first entry was ever handed out.                                *)
Shut(n) ==
    /\ n \in [sockets : [Descriptor -> Entry], ipc : Boxes, ret : Int]
    /\ \A fd \in Descriptor \ {1} : n.sockets[fd] = Unused

Extends(s, t) ==
    /\ s \in Seq(Mail) /\ t \in Seq(Mail) /\ Len(s) <= Len(t)
    /\ \A i \in 1..Len(s) : t[i] = s[i]

(* What was done between n and m posted at most k messages and took none.   *)
Posts(n, m, k) ==
    /\ Shut(n) /\ Shut(m) /\ n.ipc.free - m.ipc.free \in 0..k
    /\ \A p \in Pid : Extends(n.ipc.mailbox[p], m.ipc.mailbox[p])

LEMMA ExtendsMore ==
    ASSUME NEW s, NEW t, NEW u, Extends(s, t), Extends(t, u)
    PROVE  Extends(s, u)
<1>1. Len(s) \in Nat /\ Len(t) \in Nat /\ Len(u) \in Nat
  BY DEF Extends
<1>2. \A i \in 1..Len(s) : i \in 1..Len(t)
  BY <1>1 DEF Extends
<1> QED
  BY <1>1, <1>2 DEF Extends

LEMMA PostsMore ==
    ASSUME NEW n, NEW m, NEW o, NEW j \in Nat, NEW k \in Nat, Posts(n, m, j), Posts(m, o, k)
    PROVE  Posts(n, o, j + k)
<1>1. n.ipc.free \in Nat /\ m.ipc.free \in Nat /\ o.ipc.free \in Nat
  BY DEF Posts, Shut, Boxes
<1>2. n.ipc.free - o.ipc.free \in 0..(j + k)
  BY <1>1 DEF Posts
<1>3. \A p \in Pid : Extends(n.ipc.mailbox[p], o.ipc.mailbox[p])
  BY ExtendsMore DEF Posts
<1> QED
  BY <1>2, <1>3 DEF Posts

(* Any call that leaves the mailboxes alone.                                *)
LEMMA PostsNone ==
    ASSUME NEW n, NEW m, Shut(n), Shut(m), m.ipc = n.ipc
    PROVE  Posts(n, m, 0)
<1>1. n.ipc.free \in Nat /\ \A p \in Pid : n.ipc.mailbox[p] \in Seq(Mail)
  BY DEF Shut, Boxes
<1>2. \A p \in Pid : Extends(n.ipc.mailbox[p], n.ipc.mailbox[p])
  BY <1>1 DEF Extends
<1> QED
  BY <1>1, <1>2 DEF Posts

LEMMA ReturningPosts ==
    ASSUME NEW n, Shut(n), NEW r \in Int
    PROVE  Posts(n, Returning(n, r), 0) /\ Returning(n, r).ret = r
<1>1. Shut(Returning(n, r)) /\ Returning(n, r).ipc = n.ipc /\ Returning(n, r).ret = r
  BY DEF Shut, Returning
<1> QED
  BY <1>1, PostsNone

LEMMA AllClosed ==
    ASSUME NEW n, Shut(n)
    PROVE  /\ \A fd \in Descriptor : n.sockets[fd].state = "CLOSED"
           /\ \A fd, st : st # "CLOSED" => ~InState(n, fd, st)
           /\ \A fd : ~Opened(n, fd)
<1>1. \A fd \in Descriptor : n.sockets[fd] \in Entry
  BY DEF Shut
<1>2. \A fd \in Descriptor : n.sockets[fd].state = "CLOSED"
  BY <1>1 DEF Entry, Created
<1> QED
  BY <1>2 DEF InState, Opened

LEMMA SocketPosts ==
    ASSUME NEW n, Shut(n), NEW type \in {0, SOCK_STREAM, SOCK_DGRAM}
    PROVE  Posts(n, socket(n, AF_INET, type), 0)
<1> DEFINE m == socket(n, AF_INET, type)
           closed == {fd \in Descriptor : n.sockets[fd].state = "CLOSED"}
<1>1. closed = Descriptor /\ 1 \in Descriptor
  BY AllClosed, LibnetAssumption DEF Descriptor
<1>2. Min(Descriptor) = 1
  <2>1. \A x \in Descriptor : 1 <= x /\ x \in Nat
    BY LibnetAssumption DEF Descriptor
  <2>2. \A x \in Descriptor : (\A y \in Descriptor : x <= y) => x = 1
    BY <1>1, <2>1
  <2> QED
    BY <1>1, <2>1, <2>2 DEF Min
<1>3. CASE type = 0
  <2>1. m = Returning(n, -1)
    BY <1>3 DEF socket, SOCK_STREAM, SOCK_DGRAM
  <2> QED
    BY <2>1, ReturningPosts
<1>4. CASE type # 0
  <2> DEFINE e == Created(type)
  <2>1. m = [n EXCEPT !.sockets[1] = e, !.ret = 1]
    <3>1. m = [n EXCEPT !.sockets[Min(closed)] = e, !.ret = Min(closed)]
      BY <1>1, <1>4 DEF socket, AF_INET
    <3> QED
      BY <1>1, <1>2, <3>1
  <2>2. e \in Entry
    BY DEF Entry
  <2> HIDE DEF e, m
  <2>3. n.sockets \in [Descriptor -> Entry] /\ n.ipc \in Boxes
        /\ n = [sockets |-> n.sockets, ipc |-> n.ipc, ret |-> n.ret]
    BY DEF Shut
  <2>4. m = [sockets |-> [n.sockets EXCEPT ![1] = e], ipc |-> n.ipc, ret |-> 1]
    BY <2>1, <2>3
  <2>5. Shut(m) /\ m.ipc = n.ipc
    BY <1>1, <2>2, <2>3, <2>4 DEF Shut
  <2> QED
    BY <2>5, PostsNone DEF m
<1> QED
  BY <1>3, <1>4

(* Nothing can be done with a closed socket but close it again, send        *)
(* datagrams through it and receive them.                                   *)
LEMMA ClosedFails ==
    ASSUME NEW n, Shut(n), NEW self, NEW fd, NEW len
    PROVE  /\ bind(n, fd, AF_INET) = Returning(n, -1)
           /\ connect(n, fd, AF_INET) = Returning(n, -1)
           /\ listen(n, fd) = Returning(n, -1)
           /\ accept(n, fd) = Returning(n, -1)
           /\ send(n, self, fd, len) = Returning(n, -1)
           /\ recv(n, self, fd, len) = Returning(n, -1)
BY AllClosed DEF bind, connect, listen, accept, send, recv

LEMMA ClosePosts ==
    ASSUME NEW n, Shut(n), NEW fd
    PROVE  Posts(n, close_user_socket(n, fd), 0)
<1>1. CASE fd \notin Descriptor
  BY <1>1, ReturningPosts DEF close_user_socket
<1>2. CASE fd \in Descriptor
  <2> DEFINE m == close_user_socket(n, fd)
  <2>1. n.sockets \in [Descriptor -> Entry] /\ n.ipc \in Boxes
        /\ n = [sockets |-> n.sockets, ipc |-> n.ipc, ret |-> n.ret]
    BY DEF Shut
  <2>2. m = [sockets |-> [n.sockets EXCEPT ![fd] = [@ EXCEPT !.state = "CLOSED"]],
             ipc |-> n.ipc, ret |-> 0]
    BY <1>2, <2>1 DEF close_user_socket
  <2>3. [n.sockets[fd] EXCEPT !.state = "CLOSED"] = n.sockets[fd]
    <3>1. n.sockets[fd] \in Entry
      BY <1>2, <2>1
    <3> QED
      BY <3>1 DEF Entry, Created
  <2>4. m = [sockets |-> n.sockets, ipc |-> n.ipc, ret |-> 0]
    BY <1>2, <2>1, <2>2, <2>3
  <2> HIDE DEF m
  <2>5. Shut(m) /\ m.ipc = n.ipc
    BY <2>1, <2>4 DEF Shut
  <2> QED
    BY <2>5, PostsNone DEF m
<1> QED
  BY <1>1, <1>2

(* A send by self adds a message to one mailbox, or does nothing.           *)
LEMMA SentPosts ==
    ASSUME NEW box \in Boxes, NEW self \in Pid, NEW receiver, NEW size
    PROVE  /\ Sent(box, self, receiver, size, size) \in Boxes
           /\ box.free - Sent(box, self, receiver, size, size).free \in 0..1
           /\ \A p \in Pid : Extends(box.mailbox[p],
                                     Sent(box, self, receiver, size, size).mailbox[p])
<1> DEFINE after == Sent(box, self, receiver, size, size)
           m == [sender_pid |-> self, size |-> size, data |-> size]
<1>1. /\ box = [mailbox |-> box.mailbox, free |-> box.free]
      /\ box.mailbox \in [Pid -> Seq(Mail)] /\ box.free \in Nat
  BY DEF Boxes
<1>2. \A s \in Seq(Mail) : Extends(s, s)
  BY DEF Extends
<1>3. CASE ~Accepts(box, receiver, size)
  <2>1. after = box
    BY <1>3 DEF Sent
  <2> HIDE DEF after
  <2> QED
    BY <1>1, <1>2, <2>1 DEF after
<1>4. CASE Accepts(box, receiver, size)
  <2>1. receiver \in Pid /\ m \in Mail /\ box.free > 0
    BY <1>4 DEF Accepts, Mail
  <2>2. after = [mailbox |-> [box.mailbox EXCEPT ![receiver] = Append(@, m)],
                 free |-> box.free - 1]
    BY <1>4 DEF Sent
  <2> HIDE DEF m, after
  <2>3. \A s \in Seq(Mail) : Append(s, m) \in Seq(Mail) /\ Extends(s, Append(s, m))
    <3>1. ASSUME NEW s \in Seq(Mail) PROVE Append(s, m) \in Seq(Mail) /\ Extends(s, Append(s, m))
      <4>1. /\ Append(s, m) \in Seq(Mail) /\ Len(Append(s, m)) = Len(s) + 1 /\ Len(s) \in Nat
            /\ \A i \in 1..Len(s) : Append(s, m)[i] = s[i]
        BY <2>1, AppendProperties
      <4> QED
        BY <4>1 DEF Extends
    <3> QED
      BY <3>1
  <2>4. /\ after.mailbox = [box.mailbox EXCEPT ![receiver] = Append(@, m)]
        /\ after.free = box.free - 1 /\ after = [mailbox |-> after.mailbox, free |-> after.free]
    BY <2>2
  <2>5. \A p \in Pid : after.mailbox[p] \in Seq(Mail)
                      /\ Extends(box.mailbox[p], after.mailbox[p])
    BY <1>1, <1>2, <2>1, <2>3, <2>4
  <2>6. after.mailbox \in [Pid -> Seq(Mail)]
    BY <1>1, <2>4, <2>5
  <2>7. after.free \in Nat /\ box.free - after.free \in 0..1
    BY <1>1, <2>1, <2>4
  <2> QED
    BY <2>4, <2>5, <2>6, <2>7 DEF Boxes, after
<1> QED
  BY <1>3, <1>4

LEMMA SendtoPosts ==
    ASSUME NEW n, Shut(n), NEW self \in Pid, NEW fd, NEW len
    PROVE  Posts(n, sendto(n, self, fd, len), 1) /\ sendto(n, self, fd, len).ret \in {-1, 0}
<1> DEFINE m == sendto(n, self, fd, len)
<1>1. CASE ~OfType(n, fd, SOCK_DGRAM)
  <2>1. m = Returning(n, -1)
    BY <1>1 DEF sendto
  <2>2. Posts(n, m, 0) /\ m.ret = -1
    BY <2>1, ReturningPosts
  <2> HIDE DEF m
  <2> QED
    BY <2>2 DEF Posts, m
<1>2. CASE OfType(n, fd, SOCK_DGRAM)
  <2> DEFINE box == Sent(n.ipc, self, NET_SERVER_PID, len, len)
             r == IF Accepts(n.ipc, NET_SERVER_PID, len) THEN 0 ELSE -1
  <2>1. n.sockets \in [Descriptor -> Entry] /\ n.ipc \in Boxes
        /\ n = [sockets |-> n.sockets, ipc |-> n.ipc, ret |-> n.ret]
    BY DEF Shut
  <2>2. m = [sockets |-> n.sockets, ipc |-> box, ret |-> r]
    BY <1>2, <2>1 DEF sendto, Posted
  <2>3. /\ box \in Boxes /\ n.ipc.free - box.free \in 0..1
        /\ \A p \in Pid : Extends(n.ipc.mailbox[p], box.mailbox[p])
    BY <2>1, SentPosts
  <2>4. r \in {-1, 0}
    OBVIOUS
  <2> HIDE DEF m, box, r
  <2>5. Shut(m) /\ m.ipc = box /\ m.ret = r
    BY <2>1, <2>2, <2>3, <2>4 DEF Shut
  <2> QED
    BY <2>3, <2>4, <2>5 DEF Posts, m
<1> QED
  BY <1>1, <1>2

(* A receive touches the mailbox of the task that makes it, and no other.   *)
LEMMA RecvfromTakes ==
    ASSUME NEW n, Shut(n), NEW self \in Pid, NEW fd, NEW len
    PROVE  /\ Shut(recvfrom(n, self, fd, len))
           /\ \A p \in Pid \ {self} :
                recvfrom(n, self, fd, len).ipc.mailbox[p] = n.ipc.mailbox[p]
<1> DEFINE m == recvfrom(n, self, fd, len)
           box == Taken(n.ipc, self)
<1>1. CASE ~(OfType(n, fd, SOCK_DGRAM) /\ len > 0 /\ HasMail(n.ipc, self))
  <2>1. m = Returning(n, -1)
    BY <1>1 DEF recvfrom, Fetched
  <2>2. Shut(m) /\ m.ipc = n.ipc
    BY <2>1 DEF Shut, Returning
  <2> HIDE DEF m
  <2> QED
    BY <2>2 DEF m
<1>2. CASE OfType(n, fd, SOCK_DGRAM) /\ len > 0 /\ HasMail(n.ipc, self)
  <2>1. /\ n.sockets \in [Descriptor -> Entry]
        /\ n.ipc.mailbox \in [Pid -> Seq(Mail)] /\ n.ipc.free \in Nat
        /\ n = [sockets |-> n.sockets, ipc |-> n.ipc, ret |-> n.ret]
    BY DEF Shut, Boxes
  <2>2. m = [sockets |-> n.sockets, ipc |-> box, ret |-> Oldest(n.ipc, self).size]
    BY <1>2, <2>1 DEF recvfrom, Fetched
  <2>3. n.ipc.mailbox[self] \in Seq(Mail) /\ n.ipc.mailbox[self] # << >>
    BY <1>2, <2>1 DEF HasMail
  <2>4. Tail(n.ipc.mailbox[self]) \in Seq(Mail) /\ Oldest(n.ipc, self) \in Mail
    BY <2>3, HeadTailProperties DEF Oldest
  <2>5. box = [mailbox |-> [n.ipc.mailbox EXCEPT ![self] = Tail(@)], free |-> n.ipc.free + 1]
    BY <1>2 DEF Taken
  <2>6. Oldest(n.ipc, self).size \in Int
    BY <2>4, MailboxAssumption DEF Mail, Size
  <2> HIDE DEF m, box
  <2>7. box \in Boxes /\ \A p \in Pid \ {self} : box.mailbox[p] = n.ipc.mailbox[p]
    BY <2>1, <2>4, <2>5 DEF Boxes
  <2>8. Shut(m) /\ m.ipc = box
    BY <2>1, <2>2, <2>6, <2>7 DEF Shut
  <2> QED
    BY <2>7, <2>8 DEF m
<1> QED
  BY <1>1, <1>2

----------------------------------------------------------------------------
(* The programs, which make such calls one after the other.                 *)

LEMMA QuietFirst ==
    ASSUME NEW n, NEW m, NEW o, NEW k \in Nat, Posts(n, m, 0), Posts(m, o, k)
    PROVE  Posts(n, o, k)
BY PostsMore

LEMMA QuietAfter ==
    ASSUME NEW n, NEW m, NEW o, NEW k \in Nat, Posts(n, m, k), Posts(m, o, 0)
    PROVE  Posts(n, o, k)
BY PostsMore

(* The calls that fail for a closed socket post nothing.                    *)
LEMMA FailingPosts ==
    ASSUME NEW n, Shut(n), NEW self, NEW fd, NEW len
    PROVE  /\ Posts(n, bind(n, fd, AF_INET), 0) /\ bind(n, fd, AF_INET).ret = -1
           /\ Posts(n, connect(n, fd, AF_INET), 0)
           /\ Posts(n, listen(n, fd), 0) /\ listen(n, fd).ret = -1
           /\ Posts(n, accept(n, fd), 0)
           /\ Posts(n, send(n, self, fd, len), 0)
           /\ Posts(n, recv(n, self, fd, len), 0)
BY ClosedFails, ReturningPosts

LEMMA ServedPosts ==
    ASSUME NEW n, Shut(n), NEW self, NEW fd
    PROVE  Posts(n, Served(n, self, fd), 0)
<1> DEFINE new == accept(n, fd)
           asked == recv(new, self, new.ret, 511)
           some == send(asked, self, new.ret, 100)
           all == send(some, self, new.ret, 512)
           end == close_user_socket(all, new.ret)
<1>1. Posts(n, new, 0)
  BY FailingPosts
<1>2. Posts(new, asked, 0)
  BY <1>1, FailingPosts DEF Posts
<1>3. Posts(asked, some, 0)
  BY <1>2, FailingPosts DEF Posts
<1>4. Posts(some, all, 0)
  BY <1>3, FailingPosts DEF Posts
<1>5. Posts(all, end, 0)
  BY <1>4, ClosePosts DEF Posts
<1>6. end = Served(n, self, fd)
  BY DEF Served
<1> HIDE DEF new, asked, some, all, end
<1>7. Posts(n, asked, 0)
  BY <1>1, <1>2, QuietFirst
<1>8. Posts(n, some, 0)
  BY <1>3, <1>7, QuietFirst
<1>9. Posts(n, all, 0)
  BY <1>4, <1>8, QuietFirst
<1>10. Posts(n, end, 0)
  BY <1>5, <1>9, QuietFirst
<1> QED
  BY <1>6, <1>10

LEMMA ServerDemoPosts ==
    ASSUME NEW n, Shut(n), NEW self, NEW got_memory
    PROVE  Posts(n, image_server_demo(n, self, got_memory), 0)
<1> DEFINE s == socket(n, AF_INET, SOCK_STREAM)
           b == bind(s, s.ret, AF_INET)
           l == listen(b, s.ret)
           end == close_user_socket(l, s.ret)
<1>1. Posts(n, s, 0)
  BY SocketPosts
<1>2. Posts(s, b, 0) /\ b.ret = -1
  BY <1>1, FailingPosts DEF Posts
<1>3. Posts(b, l, 0)
  BY <1>2, FailingPosts DEF Posts
<1>4. Posts(l, end, 0)
  BY <1>3, ClosePosts DEF Posts
<1>5. image_server_demo(n, self, got_memory) = IF s.ret < 0 THEN s ELSE end
  BY <1>2 DEF image_server_demo
<1> HIDE DEF s, b, l, end
<1>6. Posts(n, b, 0)
  BY <1>1, <1>2, QuietFirst
<1>7. Posts(n, l, 0)
  BY <1>3, <1>6, QuietFirst
<1>8. Posts(n, end, 0)
  BY <1>4, <1>7, QuietFirst
<1> QED
  BY <1>1, <1>5, <1>8

LEMMA LibraryTestPosts ==
    ASSUME Shut(net), phase5_test
    PROVE  Posts(net, net', 0)
<1> DEFINE tcp == socket(net, AF_INET, SOCK_STREAM)
           bound == bind(tcp, tcp.ret, AF_INET)
           heard == IF bound.ret = 0 THEN listen(bound, tcp.ret) ELSE bound
           closed == IF tcp.ret < 0 THEN tcp ELSE close_user_socket(heard, tcp.ret)
           udp == socket(closed, AF_INET, SOCK_DGRAM)
           end == IF udp.ret < 0 THEN udp ELSE close_user_socket(udp, udp.ret)
<1>1. Posts(net, tcp, 0)
  BY SocketPosts
<1>2. Posts(tcp, bound, 0) /\ heard = bound
  <2>1. Posts(tcp, bound, 0) /\ bound.ret = -1
    BY <1>1, FailingPosts DEF Posts
  <2> HIDE DEF tcp, bound
  <2> QED
    BY <2>1
<1>3. Posts(bound, close_user_socket(bound, tcp.ret), 0)
  BY <1>2, ClosePosts DEF Posts
<1>4. Posts(net, bound, 0)
  BY <1>1, <1>2, QuietFirst
<1>5. Posts(net, close_user_socket(bound, tcp.ret), 0)
  BY <1>3, <1>4, QuietFirst
<1>6. Posts(net, closed, 0)
  BY <1>1, <1>2, <1>5
<1>7. Posts(closed, udp, 0)
  BY <1>6, SocketPosts DEF Posts
<1>8. Posts(udp, close_user_socket(udp, udp.ret), 0)
  BY <1>7, ClosePosts DEF Posts
<1>9. net' = Returning(end, 0)
  BY DEF phase5_test, Becomes
<1> HIDE DEF tcp, bound, heard, closed, udp
<1>10. Posts(net, udp, 0)
  BY <1>6, <1>7, QuietFirst
<1>11. Posts(net, close_user_socket(udp, udp.ret), 0)
  BY <1>8, <1>10, QuietFirst
<1>12. Posts(net, end, 0)
  BY <1>10, <1>11
<1> HIDE DEF end
<1>13. Posts(end, Returning(end, 0), 0)
  BY <1>12, ReturningPosts DEF Posts
<1> QED
  BY <1>9, <1>12, <1>13, QuietFirst

----------------------------------------------------------------------------
(* The loop that sends the image.  A recursive function over the numbers    *)
(* to N is the only one that begins and goes on as its equation says.       *)

(* A set of numbers that is not empty has a least one.                     *)
LEMMA LeastNumber ==
    ASSUME NEW T, T \subseteq Nat, T # {}
    PROVE  \E x \in T : \A y \in T : x <= y
<1> DEFINE below == {0..x : x \in T}
           R == StrictSubsetOrdering(Nat)
<1>1. below # {} /\ below \subseteq FiniteSubsetsOf(Nat)
  <2>1. \A x \in T : IsFiniteSet(0..x) /\ 0..x \subseteq Nat
    BY FS_Interval
  <2> QED
    BY <2>1 DEF FiniteSubsetsOf
<1>2. IsWellFoundedOn(R, FiniteSubsetsOf(Nat))
  BY FS_StrictSubsetOrderingWellFounded
<1> HIDE DEF below, R
<1>3. PICK m \in below : \A k \in below : <<k, m>> \notin R
  BY <1>1, <1>2, WFMin
<1>4. PICK x \in T : m = 0..x
  BY DEF below
<1>5. ASSUME NEW y \in T, y < x PROVE FALSE
  <2>1. 0..y \subseteq 0..x /\ x \notin 0..y /\ x \in 0..x
    BY <1>5
  <2>2. <<0..y, m>> \in R
    BY <1>4, <2>1 DEF R, StrictSubsetOrdering
  <2> QED
    BY <1>3, <2>2 DEF below
<1> QED
  BY <1>5

LEMMA SameTurns ==
    ASSUME NEW N \in Nat, NEW f, NEW g, f[0] = g[0],
           \A n \in 1..N : f[n - 1] = g[n - 1] => f[n] = g[n]
    PROVE  \A n \in 0..N : f[n] = g[n]
<1> DEFINE T == {n \in 0..N : f[n] # g[n]}
<1> SUFFICES ASSUME T # {} PROVE FALSE
  OBVIOUS
<1>1. T \subseteq Nat
  OBVIOUS
<1> HIDE DEF T
<1>2. PICK x \in T : \A y \in T : x <= y
  BY <1>1, LeastNumber
<1>3. x \in 0..N /\ f[x] # g[x]
  BY DEF T
<1>4. x \in 1..N /\ x - 1 \in 0..N /\ ~(x <= x - 1)
  BY <1>3
<1>5. x - 1 \notin T
  BY <1>2, <1>4
<1> QED
  BY <1>3, <1>4, <1>5 DEF T

(* The loop is over after its first turn: sendto never returns more than 0. *)
LEMMA ChunksPosts ==
    ASSUME NEW n, Shut(n), NEW self \in Pid, NEW fd
    PROVE  Posts(n, Chunks(n, self, fd, IMAGE), 1)
<1> DEFINE begin == [net |-> n, left |-> IMAGE]
           sent == sendto(n, self, fd, Min({CHUNK, IMAGE}))
           end == [net |-> sent, left |-> 0]
           Step(s) == Turn(s, self, fd)
           Loop(w) == [k \in 0..9 |-> IF k = 0 THEN begin ELSE Step(w[k - 1])]
           g == [k \in 0..9 |-> IF k = 0 THEN begin ELSE end]
           after == CHOOSE w : w = Loop(w)
<1>1. Posts(n, sent, 1) /\ sent.ret \in {-1, 0}
  BY SendtoPosts
<1>2. Step(begin) = end
  <2>1. begin.left = IMAGE /\ begin.net = n
    OBVIOUS
  <2>2. Step(begin) = [net |-> sent, left |-> IF sent.ret <= 0 THEN 0 ELSE IMAGE - sent.ret]
    BY <2>1 DEF Turn, IMAGE
  <2> HIDE DEF sent, begin
  <2> QED
    BY <1>1, <2>2
<1>3. Step(end) = end
  BY DEF Turn
<1>4. Chunks(n, self, fd, IMAGE) = after[9].net
  <2>1. (IMAGE + CHUNK - 1) \div CHUNK = 9
    BY DEF IMAGE, CHUNK
  <2> QED
    BY <2>1 DEF Chunks
<1> HIDE DEF begin, end, Step
<1>5. g = Loop(g)
  <2>1. ASSUME NEW k \in 0..9 PROVE g[k] = IF k = 0 THEN begin ELSE Step(g[k - 1])
    BY <1>2, <1>3
  <2> QED
    BY <2>1
<1> HIDE DEF g
<1>6. after = Loop(after)
  BY <1>5
<1> HIDE DEF after
<1>7. after[0] = g[0] /\ \A k \in 1..9 : after[k - 1] = g[k - 1] => after[k] = g[k]
  <2>1. ASSUME NEW w, w = Loop(w) PROVE \A k \in 0..9 : w[k] = IF k = 0 THEN begin ELSE Step(w[k - 1])
    BY <2>1
  <2> HIDE DEF Loop
  <2>2. \A k \in 0..9 : after[k] = IF k = 0 THEN begin ELSE Step(after[k - 1])
    BY <1>6, <2>1
  <2>3. \A k \in 0..9 : g[k] = IF k = 0 THEN begin ELSE Step(g[k - 1])
    BY <1>5, <2>1
  <2> QED
    BY <2>2, <2>3
<1>8. after[9] = g[9]
  BY <1>7, SameTurns
<1>9. g[9].net = sent
  BY DEF g, end
<1> QED
  BY <1>1, <1>4, <1>8, <1>9

LEMMA BroadcastDemoPosts ==
    ASSUME NEW n, Shut(n), NEW self \in Pid, NEW got_memory
    PROVE  Posts(n, udp_image_broadcast_demo(n, self, got_memory), 2)
<1> DEFINE s == socket(n, AF_INET, SOCK_DGRAM)
           h == sendto(s, self, s.ret, HEADER)
           c == Chunks(h, self, s.ret, IMAGE)
           early == close_user_socket(s, s.ret)
           end == close_user_socket(c, s.ret)
<1>1. Posts(n, s, 0)
  BY SocketPosts
<1>2. Posts(s, early, 0)
  BY <1>1, ClosePosts DEF Posts
<1>3. Posts(s, h, 1)
  BY <1>1, SendtoPosts DEF Posts
<1>4. Posts(h, c, 1)
  BY <1>3, ChunksPosts DEF Posts
<1>5. Posts(c, end, 0)
  BY <1>4, ClosePosts DEF Posts
<1>6. udp_image_broadcast_demo(n, self, got_memory) \in {s, early, end}
  BY DEF udp_image_broadcast_demo
<1> HIDE DEF s, h, c, early, end
<1>7. Posts(s, c, 1 + 1)
  BY <1>3, <1>4, PostsMore
<1>8. Posts(s, end, 2)
  BY <1>5, <1>7, QuietAfter
<1>9. Posts(n, end, 2)
  BY <1>1, <1>8, QuietFirst
<1>10. Posts(n, early, 0)
  BY <1>1, <1>2, QuietFirst
<1>11. \A m : Posts(n, m, 0) => Posts(n, m, 2)
  BY DEF Posts
<1> QED
  BY <1>1, <1>6, <1>9, <1>10, <1>11

LEMMA DemoPosts ==
    ASSUME NEW got_memory, Shut(net), phase6_demo(got_memory)
    PROVE  Posts(net, net', 2)
<1> DEFINE m == image_server_demo(net, KMAIN, got_memory[1])
           o == udp_image_broadcast_demo(m, KMAIN, got_memory[2])
<1>1. Posts(net, m, 0)
  BY ServerDemoPosts
<1>2. KMAIN \in Pid
  BY MailboxAssumption DEF KMAIN, Pid
<1>3. Posts(m, o, 2)
  BY <1>1, <1>2, BroadcastDemoPosts DEF Posts
<1>4. net' = Returning(o, 0)
  BY DEF phase6_demo, Becomes
<1>5. Posts(o, Returning(o, 0), 0)
  BY <1>3, ReturningPosts DEF Posts
<1> HIDE DEF m, o
<1>6. Posts(net, o, 2)
  BY <1>1, <1>3, QuietFirst
<1> QED
  BY <1>4, <1>5, <1>6, QuietAfter

LEMMA ConsolePosts ==
    ASSUME Shut(net), NEW size, console(size)
    PROVE  Posts(net, net', 1)
<1> DEFINE box == Sent(net.ipc, KMAIN, 1, size, size)
           m == [net EXCEPT !.ipc = box]
<1>1. net.sockets \in [Descriptor -> Entry] /\ net.ipc \in Boxes /\ net.ret \in Int
      /\ net = [sockets |-> net.sockets, ipc |-> net.ipc, ret |-> net.ret]
  BY DEF Shut
<1>2. KMAIN \in Pid
  BY MailboxAssumption DEF KMAIN, Pid
<1>3. /\ box \in Boxes /\ net.ipc.free - box.free \in 0..1
      /\ \A p \in Pid : Extends(net.ipc.mailbox[p], box.mailbox[p])
  BY <1>1, <1>2, SentPosts
<1>4. net' = Returning(m, 0)
  BY DEF console, Becomes
<1> HIDE DEF box
<1>5. m = [sockets |-> net.sockets, ipc |-> box, ret |-> net.ret]
  BY <1>1
<1>6. Shut(m) /\ m.ipc = box
  BY <1>1, <1>3, <1>5 DEF Shut
<1> HIDE DEF m
<1>7. Posts(net, m, 1)
  BY <1>3, <1>6 DEF Posts
<1>8. Posts(m, Returning(m, 0), 0)
  BY <1>6, ReturningPosts
<1> QED
  BY <1>4, <1>7, <1>8, QuietAfter

(* A task that uses sockets can take only what is in its own mailbox.       *)
LEMMA SocketUseTakes ==
    ASSUME Shut(net), NEW self \in Pid, use_socket(self)
    PROVE  /\ Shut(net')
           /\ \A p \in Pid \ {self} : Extends(net.ipc.mailbox[p], net'.ipc.mailbox[p])
<1> DEFINE Goal(m) == /\ Shut(m)
                      /\ \A p \in Pid \ {self} : Extends(net.ipc.mailbox[p], m.ipc.mailbox[p])
<1>1. \A m : Posts(net, m, 0) \/ Posts(net, m, 1) => Goal(m)
  BY DEF Posts
<1>2. \A m : Goal(m) => Goal(Returning(m, 0))
  <2>1. ASSUME NEW m, Goal(m) PROVE Goal(Returning(m, 0))
    <3>1. Shut(Returning(m, 0)) /\ Returning(m, 0).ipc = m.ipc
      BY <2>1 DEF Shut, Returning
    <3> QED
      BY <2>1, <3>1
  <2> QED
    BY <2>1
<1>3. ASSUME NEW type \in {0, SOCK_STREAM, SOCK_DGRAM} PROVE Goal(socket(net, AF_INET, type))
  BY <1>1, SocketPosts
<1>4. ASSUME NEW fd
      PROVE  /\ Goal(bind(net, fd, AF_INET)) /\ Goal(connect(net, fd, AF_INET))
             /\ Goal(listen(net, fd)) /\ Goal(accept(net, fd))
             /\ Goal(close_user_socket(net, fd))
  <2>1. /\ Posts(net, bind(net, fd, AF_INET), 0) /\ Posts(net, connect(net, fd, AF_INET), 0)
        /\ Posts(net, listen(net, fd), 0) /\ Posts(net, accept(net, fd), 0)
    BY FailingPosts
  <2>2. Posts(net, close_user_socket(net, fd), 0)
    BY ClosePosts
  <2> QED
    BY <1>1, <2>1, <2>2
<1>5. ASSUME NEW fd, NEW len
      PROVE  /\ Goal(send(net, self, fd, len)) /\ Goal(sendto(net, self, fd, len))
             /\ Goal(recv(net, self, fd, len)) /\ Goal(recvfrom(net, self, fd, len))
  <2>1. Posts(net, send(net, self, fd, len), 0) /\ Posts(net, recv(net, self, fd, len), 0)
    BY FailingPosts
  <2>2. Posts(net, sendto(net, self, fd, len), 1)
    BY SendtoPosts
  <2>3. Goal(recvfrom(net, self, fd, len))
    <3>1. \A p \in Pid : Extends(net.ipc.mailbox[p], net.ipc.mailbox[p])
      BY PostsNone DEF Posts
    <3> QED
      BY <3>1, RecvfromTakes
  <2> QED
    BY <1>1, <2>1, <2>2, <2>3
<1> HIDE DEF Goal
<1>6. PICK m : Goal(m) /\ Becomes(m)
  BY <1>3, <1>4, <1>5 DEF use_socket
<1>7. Goal(net')
  BY <1>2, <1>6 DEF Becomes
<1> QED
  BY <1>7 DEF Goal

(* A step of any program: the sockets stay shut, and mailboxes of tasks     *)
(* that do not use the libraries only grow.                                 *)
LEMMA NextTakes ==
    ASSUME Shut(net), [Next]_vars
    PROVE  /\ Shut(net')
           /\ \A p \in IdleTasks : Extends(net.ipc.mailbox[p], net'.ipc.mailbox[p])
<1> DEFINE Goal == /\ Shut(net')
                   /\ \A p \in IdleTasks : Extends(net.ipc.mailbox[p], net'.ipc.mailbox[p])
<1>1. IdleTasks \subseteq Pid /\ \A self \in Users : self \in Pid /\ self \notin IdleTasks
  BY ProgramsAssumption
<1>2. \A k : Posts(net, net', k) => Goal
  BY <1>1 DEF Posts
<1>3. CASE UNCHANGED net
  <2>1. Posts(net, net, 0)
    BY PostsNone
  <2> QED
    BY <1>2, <1>3, <2>1
<1>4. ASSUME NEW self \in Users, use_socket(self) PROVE Goal
  BY <1>1, <1>4, SocketUseTakes
<1>5. CASE phase5_test
  BY <1>2, <1>5, LibraryTestPosts
<1>6. ASSUME NEW got_memory, phase6_demo(got_memory) PROVE Goal
  BY <1>2, <1>6, DemoPosts
<1>7. ASSUME NEW size, console(size) PROVE Goal
  BY <1>2, <1>7, ConsolePosts
<1> QED
  BY <1>3, <1>4, <1>5, <1>6, <1>7 DEF Next, program, strings, use_packets, vars

LEMMA InitShut == Init => Shut(net)
<1> SUFFICES ASSUME Init PROVE Shut(net)
  OBVIOUS
<1>1. net = [sockets |-> [fd \in Descriptor |-> Unused],
             ipc |-> [mailbox |-> [p \in Pid |-> << >>], free |-> MAX_MESSAGES], ret |-> 0]
  BY DEF Init, Booted, Empty
<1>2. Unused \in Entry
  BY DEF Entry, Unused
<1>3. << >> \in Seq(Mail) /\ MAX_MESSAGES \in Nat
  BY MailboxAssumption
<1> QED
  BY <1>1, <1>2, <1>3 DEF Shut, Boxes

(* socket.c:47, socket(): the state of the entry it hands out stays CLOSED, *)
(* so no call, by any number of tasks in any order, ever gives out another  *)
(* or binds one: the documents' claim fails however large the table is.     *)
THEOREM SocketTheorem == Spec => []OneEntryForAll
<1>1. Shut(net) /\ [Next]_vars => Shut(net)'
  BY NextTakes
<1>2. Shut(net) => OneEntryForAll
  BY AllClosed DEF OneEntryForAll, Shut
<1> QED
  BY InitShut, <1>1, <1>2, PTL DEF Spec

(* socket.c:30 and the console's commands address tasks that never receive: *)
(* what is posted to them stays, whatever the other programs call, and none *)
(* of it reaches the network server as the documents say.                   *)
THEOREM IdleMailTheorem == Spec => MailForIdleTasksStays
<1> DEFINE Stays == \A p \in IdleTasks : IsPrefix(net.ipc.mailbox[p], net'.ipc.mailbox[p])
<1>1. Shut(net) /\ [Next]_vars => Shut(net)'
  BY NextTakes
<1>2. \A s, t : Extends(s, t) => IsPrefix(s, t)
  <2>1. ASSUME NEW s, NEW t, Extends(s, t) PROVE IsPrefix(s, t)
    <3>1. /\ s \in Seq(Mail) /\ t \in Seq(Mail) /\ Len(s) \in Nat /\ Len(t) \in Nat
          /\ Len(s) <= Len(t) /\ \A i \in 1..Len(s) : t[i] = s[i]
      BY <2>1 DEF Extends
    <3>2. /\ SubSeq(s, 1, Len(s)) \in Seq(Mail) /\ Len(SubSeq(s, 1, Len(s))) = Len(s)
          /\ \A i \in 1..Len(s) : SubSeq(s, 1, Len(s))[i] = s[i]
      BY <3>1
    <3>3. /\ SubSeq(t, 1, Len(s)) \in Seq(Mail) /\ Len(SubSeq(t, 1, Len(s))) = Len(s)
          /\ \A i \in 1..Len(s) : SubSeq(t, 1, Len(s))[i] = t[i]
      BY <3>1
    <3>4. SubSeq(s, 1, Len(s)) = SubSeq(t, 1, Len(s))
      BY <3>1, <3>2, <3>3, SeqEqual
    <3> QED
      BY <3>1, <3>4 DEF IsPrefix
  <2> QED
    BY <2>1
<1>3. Shut(net) /\ [Next]_vars => [Stays]_vars
  BY <1>2, NextTakes
<1> QED
  BY InitShut, <1>1, <1>3, PTL DEF Spec, MailForIdleTasksStays

(* image_sender.c:210: the demo stops at the first result of sendto that is *)
(* not above 0, and that is the first: it never sends the whole image, as   *)
(* the documents say, in whatever state of the system it starts.            *)
THEOREM DemoTheorem == Spec => DemoTakesTwo
<1> DEFINE Two == (\E got_memory \in [1..2 -> BOOLEAN] : phase6_demo(got_memory))
                  => net.ipc.free - net'.ipc.free \in 0..2
<1>1. Shut(net) /\ [Next]_vars => Shut(net)'
  BY NextTakes
<1>2. Shut(net) => [Two]_vars
  BY DemoPosts DEF Posts
<1> QED
  BY InitShut, <1>1, <1>2, PTL DEF Spec, DemoTakesTwo

----------------------------------------------------------------------------
(* Strings.                                                                 *)

Byte    == Chars \cup {NUL}
Address == 0..(2 * CAPACITY - 1)

(* The last byte of each buffer ends whatever stands before it.             *)
Ended(m) == m \in [Address -> Byte] /\ \A buf \in Buffer : m[buf + CAPACITY - 1] = NUL

LEMMA BufferFacts ==
    /\ CAPACITY \in Nat /\ CAPACITY > 0
    /\ \A buf \in Buffer : buf \in Nat /\ buf \in Int
                          /\ \A i \in 0..(CAPACITY - 1) : buf + i \in Address
    /\ \A buf \in Buffer : Other(buf) \in Buffer
BY StringsAssumption DEF Buffer, Address, Other

LEMMA LeastIs ==
    ASSUME NEW T, T \subseteq Nat, T # {}
    PROVE  Min(T) \in T /\ \A y \in T : Min(T) <= y
BY LeastNumber DEF Min

LEMMA LengthIs ==
    ASSUME Ended(mem), NEW buf \in Buffer
    PROVE  strlen(buf) \in 0..(CAPACITY - 1)
<1> DEFINE T == {n \in 0..Cardinality(DOMAIN mem) : buf + n \notin DOMAIN mem \/ mem[buf + n] = NUL}
<1>1. DOMAIN mem = Address /\ Cardinality(Address) = 2 * CAPACITY
  <2>1. 0 \in Int /\ 2 * CAPACITY - 1 \in Int /\ 2 * CAPACITY - 1 - 0 + 1 = 2 * CAPACITY
        /\ 0 <= 2 * CAPACITY - 1
    BY BufferFacts
  <2>2. Cardinality(Address) = 2 * CAPACITY
    BY <2>1, FS_Interval DEF Address
  <2> QED
    BY <2>2 DEF Ended
<1>2. T \subseteq Nat /\ CAPACITY - 1 \in T
  <2>1. CAPACITY - 1 \in 0..(2 * CAPACITY)
    BY BufferFacts
  <2>2. mem[buf + (CAPACITY - 1)] = NUL
    BY BufferFacts DEF Ended
  <2> QED
    BY <1>1, <2>1, <2>2, BufferFacts
<1>3. strlen(buf) = Min(T)
  BY DEF strlen
<1> HIDE DEF T
<1>4. Min(T) \in Nat /\ Min(T) <= CAPACITY - 1
  BY <1>2, LeastIs
<1> QED
  BY <1>3, <1>4, BufferFacts

(* Bytes that stay inside one buffer, and are not written over its last     *)
(* byte unless they end there themselves.                                   *)
LEMMA StoredEnds ==
    ASSUME Ended(mem), NEW buf \in Buffer, NEW k \in Nat, NEW n \in Nat, k + n <= CAPACITY,
           NEW data, Len(data) = n, \A i \in 1..n : data[i] \in Byte,
           \A i \in 1..n : k + i = CAPACITY => data[i] = NUL
    PROVE  Ended(Stored(buf + k, data))
<1> DEFINE m == Stored(buf + k, data)
           Hit(a) == a - (buf + k) \in 0..(n - 1)
<1>1. DOMAIN mem = Address
  BY DEF Ended
<1>2. m = [a \in Address |-> IF Hit(a) THEN data[a - (buf + k) + 1] ELSE mem[a]]
  BY <1>1 DEF Stored
<1>3. \A a \in Address : a \in Int /\ mem[a] \in Byte
  BY DEF Ended, Address
<1>4. \A a \in Address : Hit(a) => a - (buf + k) + 1 \in 1..n
  BY <1>3, BufferFacts
<1>5. m \in [Address -> Byte]
  BY <1>2, <1>3, <1>4
<1>6. ASSUME NEW b \in Buffer PROVE m[b + CAPACITY - 1] = NUL
  <2> DEFINE a == b + CAPACITY - 1
  <2>1. a \in Address /\ mem[a] = NUL
    BY BufferFacts DEF Ended
  <2>2. CASE Hit(a)
    <3>1. b = buf
      BY <2>2, BufferFacts DEF Buffer
    <3>2. a - (buf + k) + 1 \in 1..n /\ k + (a - (buf + k) + 1) = CAPACITY
      BY <1>4, <2>1, <2>2, <3>1, BufferFacts
    <3>3. data[a - (buf + k) + 1] = NUL
      BY <3>2
    <3> QED
      BY <1>2, <2>1, <2>2, <3>3
  <2>3. CASE ~Hit(a)
    BY <1>2, <2>1, <2>3
  <2> QED
    BY <2>2, <2>3
<1> QED
  BY <1>5, <1>6 DEF Ended

LEMMA CountedLen ==
    ASSUME NEW n \in Nat, NEW data \in [1..n -> Byte]
    PROVE  data \in Seq(Byte) /\ Len(data) = n
BY SeqDef, LenProperties

LEMMA TextIs ==
    ASSUME Ended(mem), NEW buf \in Buffer
    PROVE  Text(buf) \in Seq(Byte) /\ Len(Text(buf)) = strlen(buf)
<1> DEFINE n == strlen(buf)
<1>1. n \in 0..(CAPACITY - 1)
  BY LengthIs
<1> HIDE DEF n
<1>2. \A i \in 1..n : buf + i - 1 \in Address /\ mem[buf + i - 1] \in Byte
  <2>1. ASSUME NEW i \in 1..n PROVE buf + i - 1 \in Address
    <3>1. i - 1 \in 0..(CAPACITY - 1) /\ buf + (i - 1) = buf + i - 1
      BY <1>1, BufferFacts
    <3> QED
      BY <3>1, BufferFacts
  <2> QED
    BY <2>1 DEF Ended
<1>3. [i \in 1..n |-> mem[buf + i - 1]] \in [1..n -> Byte]
  BY <1>2
<1> QED
  BY <1>1, <1>3, CountedLen DEF Text, n

(* A string that is copied behind k bytes of a buffer and fits there.       *)
LEMMA CopiedEnds ==
    ASSUME Ended(mem), NEW dest \in Buffer, NEW src \in Buffer, NEW k \in Nat,
           k + strlen(src) < CAPACITY
    PROVE  Ended(strcpy(dest + k, src))
<1> DEFINE n == strlen(src)
           data == Append(Text(src), NUL)
<1>1. Text(src) \in Seq(Byte) /\ Len(Text(src)) = n /\ n \in Nat
  BY TextIs, LengthIs
<1>2. NUL \in Byte
  BY DEF Byte
<1>3. /\ data \in Seq(Byte) /\ Len(data) = n + 1 /\ data[n + 1] = NUL
  BY <1>1, <1>2, AppendProperties
<1>4. strcpy(dest + k, src) = Stored(dest + k, data)
  BY DEF strcpy
<1> HIDE DEF n, data
<1>5. \A i \in 1..(n + 1) : data[i] \in Byte /\ (k + i = CAPACITY => data[i] = NUL)
  BY <1>1, <1>3, BufferFacts DEF n
<1>6. n + 1 \in Nat /\ k + (n + 1) <= CAPACITY
  BY <1>1, BufferFacts DEF n
<1> QED
  BY <1>3, <1>4, <1>5, <1>6, StoredEnds

(* Bytes that leave the last one of a buffer alone.                         *)
LEMMA ShortEnds ==
    ASSUME Ended(mem), NEW dest \in Buffer, NEW n \in 1..(CAPACITY - 1), NEW data \in [1..n -> Byte]
    PROVE  Ended(Stored(dest, data))
<1>1. n \in Nat /\ Len(data) = n /\ 0 + n <= CAPACITY /\ dest = dest + 0
  BY CountedLen, BufferFacts
<1>2. \A i \in 1..n : data[i] \in Byte /\ 0 + i # CAPACITY
  BY BufferFacts
<1>3. Ended(Stored(dest + 0, data))
  BY <1>1, <1>2, StoredEnds
<1> QED
  BY <1>1, <1>3

LEMMA StringStep == Ended(mem) /\ use_strings => Ended(mem')
<1> SUFFICES ASSUME Ended(mem), NEW dest \in Buffer, NEW src \in Buffer,
                    \/ mem' = strcpy(dest, src)
                    \/ strlen(dest) + strlen(src) < CAPACITY /\ mem' = strcat(dest, src)
                    \/ \E n \in 1..(CAPACITY - 1) :
                        \/ mem' = strncpy(dest, src, n)
                        \/ mem' = memcpy(dest, src, n)
                        \/ \E value \in Chars \cup {NUL} : mem' = memset(dest, value, n)
             PROVE  Ended(mem')
  BY BufferFacts DEF use_strings
<1>1. /\ strlen(src) \in Nat /\ strlen(src) < CAPACITY /\ strlen(dest) \in Nat
      /\ dest = dest + 0 /\ 0 + strlen(src) = strlen(src)
  BY LengthIs, BufferFacts
<1>2. CASE mem' = strcpy(dest, src)
  <2>1. Ended(strcpy(dest + 0, src))
    BY <1>1, CopiedEnds
  <2> QED
    BY <1>1, <1>2, <2>1
<1>3. CASE strlen(dest) + strlen(src) < CAPACITY /\ mem' = strcat(dest, src)
  BY <1>1, <1>3, CopiedEnds DEF strcat
<1>4. ASSUME NEW n \in 1..(CAPACITY - 1)
      PROVE  /\ Ended(strncpy(dest, src, n)) /\ Ended(memcpy(dest, src, n))
             /\ \A value \in Byte : Ended(memset(dest, value, n))
  <2>1. \A i \in 1..n : mem[src + i - 1] \in Byte
    <3>1. ASSUME NEW i \in 1..n PROVE src + i - 1 \in Address
      <4>1. i - 1 \in 0..(CAPACITY - 1) /\ src + (i - 1) = src + i - 1
        BY BufferFacts
      <4> QED
        BY <4>1, BufferFacts
    <3> QED
      BY <3>1 DEF Ended
  <2>2. NUL \in Byte
    BY DEF Byte
  <2>3. [i \in 1..n |-> mem[src + i - 1]] \in [1..n -> Byte]
    BY <2>1
  <2>4. [i \in 1..n |-> IF i <= strlen(src) THEN mem[src + i - 1] ELSE NUL] \in [1..n -> Byte]
    BY <2>1, <2>2
  <2>5. \A value \in Byte : [i \in 1..n |-> value] \in [1..n -> Byte]
    OBVIOUS
  <2> QED
    BY <2>3, <2>4, <2>5, ShortEnds DEF strncpy, memcpy, memset
<1> QED
  BY <1>2, <1>3, <1>4 DEF Byte

(* string.c: calls that respect the size of a buffer always leave a NUL in  *)
(* it, though strncpy and memcpy may write none: all that is ever written   *)
(* over the last byte is the NUL of a string that just fits.                *)
THEOREM StringsTheorem == Spec => []StringsEnd
<1>1. Init => Ended(mem)
  <2>1. NUL \in Byte
    BY DEF Byte
  <2>2. mem = EmptyStrings => Ended(mem)
    <3>1. \A buf \in Buffer : buf + CAPACITY - 1 \in Address
      BY BufferFacts DEF Buffer, Address
    <3> QED
      BY <2>1, <3>1 DEF EmptyStrings, Ended, Address
  <2> QED
    BY <2>2 DEF Init
<1>2. Ended(mem) /\ [Next]_vars => Ended(mem)'
  BY StringStep DEF Next, program, strings, vars, Ended
<1>3. Ended(mem) => StringsEnd
  <2>1. \A buf \in Buffer : CAPACITY - 1 \in 0..(CAPACITY - 1)
                           /\ buf + (CAPACITY - 1) = buf + CAPACITY - 1
    BY BufferFacts
  <2> QED
    BY <2>1 DEF Ended, StringsEnd
<1> QED
  BY <1>1, <1>2, <1>3, PTL DEF Spec

----------------------------------------------------------------------------
(* Packets.  All of them in a row: the k received ones, oldest first, then  *)
(* the free ones.  Receiving one only moves the border; taking one puts the *)
(* first of the row at the head of the free ones.                           *)

N    == PACKET_POOL_SIZE
Link == D!Packet \cup {D!NULL}
Driver == [next : [D!Packet -> Link], free : Link, head : Link, tail : Link]

InRow(s) ==
    /\ s \in [1..N -> D!Packet]
    /\ \A i, j \in 1..N : s[i] = s[j] => i = j
    /\ \A p \in D!Packet : \E i \in 1..N : s[i] = p

Laid(d, s, k) ==
    /\ d \in Driver /\ k \in 0..N /\ InRow(s)
    /\ d.head = IF k = 0 THEN D!NULL ELSE s[1]
    /\ d.tail = IF k = 0 THEN D!NULL ELSE s[k]
    /\ d.free = IF k = N THEN D!NULL ELSE s[k + 1]
    /\ \A i \in 1..N : d.next[s[i]] = IF i = k \/ i = N THEN D!NULL ELSE s[i + 1]

(* The packets in the row up to the border are those received.              *)
Row(q, s, k) == q \in Seq(D!Packet) /\ Len(q) = k /\ \A i \in 1..k : q[i] = s[i]

LEMMA PacketFacts ==
    /\ N \in Nat /\ N > 0 /\ D!NULL \notin D!Packet
    /\ D!Packet = 0..(N - 1)
BY ProgramsAssumption DEF N, D!Packet, D!NULL

LEMMA QueuedLaid ==
    ASSUME NEW d, NEW s, NEW k, Laid(d, s, k), d.free # D!NULL
    PROVE  Laid(D!Queued(d), s, k + 1) /\ d.free = s[k + 1]
<1> DEFINE m == D!Queued(d)
           pkt == s[k + 1]
           links == [d.next EXCEPT ![pkt] = D!NULL]
<1>1. k \in Nat /\ N \in Nat /\ k < N /\ k + 1 \in 1..N /\ k + 1 \in 0..N /\ d.free = pkt
  BY PacketFacts DEF Laid
<1>2. /\ s \in [1..N -> D!Packet] /\ pkt \in D!Packet /\ pkt \in Link /\ D!NULL \in Link
      /\ d.next \in [D!Packet -> Link] /\ d.head \in Link
  BY <1>1 DEF Laid, InRow, Driver, Link
<1>3. d.tail = D!NULL <=> k = 0
  <2>1. k # 0 => k \in 1..N
    BY <1>1
  <2> QED
    BY <1>2, <2>1, PacketFacts DEF Laid
<1>4. m = [free |-> d.next[pkt], tail |-> pkt, head |-> IF k = 0 THEN pkt ELSE d.head,
           next |-> IF k = 0 THEN links ELSE [links EXCEPT ![d.tail] = pkt]]
  BY <1>1, <1>3 DEF D!Queued
<1>5. links \in [D!Packet -> Link]
      /\ \A p \in D!Packet : links[p] = IF p = pkt THEN D!NULL ELSE d.next[p]
  BY <1>2
<1>6. d.next[pkt] = IF k + 1 = N THEN D!NULL ELSE s[k + 2]
  BY <1>1 DEF Laid
<1>7. /\ m.free = d.next[pkt] /\ m.tail = pkt /\ m.head = (IF k = 0 THEN pkt ELSE d.head)
      /\ m.next = IF k = 0 THEN links ELSE [links EXCEPT ![d.tail] = pkt]
  BY <1>4
<1> HIDE DEF links
<1>8. /\ m.next \in [D!Packet -> Link]
      /\ \A p \in D!Packet : m.next[p] = IF p = pkt THEN IF k > 0 /\ d.tail = p THEN pkt ELSE D!NULL
                                          ELSE IF k > 0 /\ p = d.tail THEN pkt ELSE d.next[p]
  <2>1. CASE k = 0
    BY <1>1, <1>5, <1>7, <2>1
  <2>2. CASE k # 0
    <3>1. k > 0 /\ m.next = [links EXCEPT ![d.tail] = pkt]
      BY <1>1, <1>7, <2>2
    <3> QED
      BY <1>2, <1>5, <3>1
  <2> QED
    BY <2>1, <2>2
<1>9. m \in Driver
  <2>1. d.next[pkt] \in Link
    BY <1>2
  <2>2. m = [free |-> m.free, tail |-> m.tail, head |-> m.head, next |-> m.next]
    BY <1>4
  <2> HIDE DEF m
  <2> QED
    BY <1>2, <1>7, <1>8, <2>1, <2>2 DEF Driver
<1> HIDE DEF m, pkt
<1>10. \A i, j \in 1..N : s[i] = s[j] => i = j
  BY DEF Laid, InRow
<1>11. k > 0 => k \in 1..N /\ d.tail = s[k] /\ s[k] # pkt
  BY <1>1, <1>10 DEF pkt, Laid
<1>12. ASSUME NEW i \in 1..N
       PROVE  m.next[s[i]] = IF i = k + 1 \/ i = N THEN D!NULL ELSE s[i + 1]
  <2>1. s[i] \in D!Packet
    BY <1>2
  <2>2. CASE i = k + 1
    <3>1. s[i] = pkt
      BY <2>2 DEF pkt
    <3> QED
      BY <1>8, <1>11, <2>1, <2>2, <3>1
  <2>3. CASE i = k
    <3>1. k > 0 /\ s[i] = d.tail /\ s[i] # pkt /\ i # N /\ i # k + 1 /\ s[i + 1] = pkt
      BY <1>1, <1>11, <2>3 DEF pkt
    <3> QED
      BY <1>8, <2>1, <3>1
  <2>4. CASE i # k /\ i # k + 1
    <3>1. s[i] # pkt /\ (k > 0 => s[i] # d.tail)
      BY <1>1, <1>10, <1>11, <2>4 DEF pkt
    <3>2. m.next[s[i]] = d.next[s[i]]
      BY <1>8, <2>1, <3>1
    <3> QED
      BY <2>4, <3>2 DEF Laid
  <2> QED
    BY <2>2, <2>3, <2>4
<1>13. /\ m.head = s[1] /\ m.tail = s[k + 1]
       /\ m.free = IF k + 1 = N THEN D!NULL ELSE s[(k + 1) + 1]
  <2>1. k + 2 = (k + 1) + 1 /\ (k = 0 => pkt = s[1])
    BY <1>1 DEF pkt
  <2> QED
    BY <1>1, <1>6, <1>7, <2>1 DEF Laid, pkt
<1>14. Laid(m, s, k + 1)
  <2>1. k + 1 # 0
    BY <1>1
  <2> QED
    BY <1>1, <1>9, <1>12, <1>13, <2>1 DEF Laid
<1> QED
  BY <1>1, <1>14 DEF m, pkt

(* The row after the oldest packet was taken.                               *)
Rotated(s, k) ==
    [i \in 1..N |-> IF i < k THEN s[i + 1] ELSE IF i = k THEN s[1] ELSE s[i]]

LEMMA RotatedIs ==
    ASSUME NEW s, InRow(s), NEW k \in 1..N
    PROVE  InRow(Rotated(s, k))
<1> DEFINE to(i) == IF i < k THEN i + 1 ELSE IF i = k THEN 1 ELSE i
           r == Rotated(s, k)
<1>1. N \in Nat /\ 1 \in 1..N
  BY PacketFacts
<1>0. /\ s \in [1..N -> D!Packet] /\ \A i, j \in 1..N : s[i] = s[j] => i = j
      /\ \A p \in D!Packet : \E i \in 1..N : s[i] = p
  BY DEF InRow
<1>2. \A i \in 1..N : to(i) \in 1..N /\ r[i] = s[to(i)]
  BY <1>1 DEF Rotated
<1>3. \A i, j \in 1..N : to(i) = to(j) => i = j
  BY <1>1
<1>4. ASSUME NEW j \in 1..N PROVE \E i \in 1..N : to(i) = j
  <2>1. CASE j = 1
    BY <2>1
  <2>2. CASE j # 1 /\ j <= k
    <3>1. j - 1 \in 1..N /\ to(j - 1) = j
      BY <1>1, <2>2
    <3> QED
      BY <3>1
  <2>3. CASE j > k
    BY <2>3
  <2> QED
    BY <1>1, <2>1, <2>2, <2>3
<1>5. r \in [1..N -> D!Packet]
  <2>1. r = [i \in 1..N |-> r[i]]
    BY DEF Rotated
  <2> HIDE DEF r
  <2> QED
    BY <1>0, <1>2, <2>1
<1> HIDE DEF to, r
<1>6. \A i, j \in 1..N : r[i] = r[j] => i = j
  BY <1>0, <1>2, <1>3
<1>7. ASSUME NEW p \in D!Packet PROVE \E i \in 1..N : r[i] = p
  <2>1. PICK j \in 1..N : s[j] = p
    BY <1>0
  <2>2. PICK i \in 1..N : to(i) = j
    BY <1>4
  <2> QED
    BY <1>2, <2>1, <2>2
<1> QED
  BY <1>5, <1>6, <1>7 DEF InRow, r

LEMMA TakenLaid ==
    ASSUME NEW d, NEW s, NEW k, Laid(d, s, k), d.head # D!NULL
    PROVE  k \in 1..N /\ Laid(D!Taken(d), Rotated(s, k), k - 1)
<1> DEFINE m == D!Taken(d)
           r == Rotated(s, k)
           pkt == s[1]
<1>1. N \in Nat /\ k \in 1..N /\ k - 1 \in 0..N /\ 1 \in 1..N /\ d.head = pkt /\ d.tail = s[k]
  BY PacketFacts DEF Laid
<1>2. /\ s \in [1..N -> D!Packet] /\ pkt \in D!Packet /\ pkt \in Link /\ D!NULL \in Link
      /\ d.next \in [D!Packet -> Link] /\ d.free \in Link /\ d.tail \in Link
  BY <1>1 DEF Laid, InRow, Driver, Link
<1>3. d.next[pkt] = IF k = 1 \/ 1 = N THEN D!NULL ELSE s[2]
  BY <1>1 DEF Laid
<1>4. d.next[pkt] = IF k = 1 THEN D!NULL ELSE s[2]
  BY <1>1, <1>3
<1>5. k # 1 => s[2] \in D!Packet /\ s[2] # D!NULL
  BY <1>1, <1>2, PacketFacts
<1>6. D!Unqueued(d) = [next |-> d.next, free |-> d.free, head |-> d.next[pkt],
                       tail |-> IF d.next[pkt] = D!NULL THEN D!NULL ELSE d.tail]
  BY <1>1, <1>2 DEF D!Unqueued
<1>7. m = [next |-> [d.next EXCEPT ![pkt] = d.free], free |-> pkt, head |-> d.next[pkt],
           tail |-> IF d.next[pkt] = D!NULL THEN D!NULL ELSE d.tail]
  BY <1>1, <1>6 DEF D!Taken, D!Freed
<1>8. /\ m.next = [d.next EXCEPT ![pkt] = d.free] /\ m.free = pkt /\ m.head = d.next[pkt]
      /\ m.tail = IF d.next[pkt] = D!NULL THEN D!NULL ELSE d.tail
      /\ m = [next |-> m.next, free |-> m.free, head |-> m.head, tail |-> m.tail]
  BY <1>7
<1> HIDE DEF m
<1>9. /\ m.next \in [D!Packet -> Link]
      /\ \A p \in D!Packet : m.next[p] = IF p = pkt THEN d.free ELSE d.next[p]
  BY <1>2, <1>8
<1>10. m \in Driver
  <2>1. m.head \in Link /\ m.tail \in Link
    BY <1>2, <1>8
  <2> QED
    BY <1>2, <1>8, <1>9, <2>1 DEF Driver
<1>11. \A i, j \in 1..N : s[i] = s[j] => i = j
  BY DEF Laid, InRow
<1>12. InRow(r) /\ r \in [1..N -> D!Packet]
  <2>1. InRow(r)
    BY <1>1, RotatedIs DEF Laid
  <2> QED
    BY <2>1 DEF InRow
<1>13. \A i \in 1..N : r[i] = IF i < k THEN s[i + 1] ELSE IF i = k THEN pkt ELSE s[i]
  BY DEF Rotated
<1> HIDE DEF r
<1>14. m.head = IF k - 1 = 0 THEN D!NULL ELSE r[1]
  BY <1>1, <1>4, <1>8, <1>13
<1>15. m.tail = IF k - 1 = 0 THEN D!NULL ELSE r[k - 1]
  <2>1. CASE k = 1
    BY <1>1, <1>4, <1>8, <2>1
  <2>2. CASE k # 1
    <3>1. k - 1 \in 1..N /\ r[k - 1] = s[(k - 1) + 1] /\ (k - 1) + 1 = k
      BY <1>1, <1>13, <2>2
    <3> QED
      BY <1>1, <1>4, <1>5, <1>8, <2>2, <3>1
  <2> QED
    BY <2>1, <2>2
<1>16. m.free = IF k - 1 = N THEN D!NULL ELSE r[(k - 1) + 1]
  BY <1>1, <1>8, <1>13
<1>17. ASSUME NEW i \in 1..N
       PROVE  m.next[r[i]] = IF i = k - 1 \/ i = N THEN D!NULL ELSE r[i + 1]
  <2>1. r[i] \in D!Packet
    BY <1>12
  <2>2. CASE i = k
    <3>1. r[i] = pkt /\ i # k - 1
      BY <1>1, <1>13, <2>2
    <3>2. d.free = IF k = N THEN D!NULL ELSE s[k + 1]
      BY DEF Laid
    <3>3. k # N => r[k + 1] = s[k + 1]
      BY <1>1, <1>13
    <3> QED
      BY <1>9, <2>1, <2>2, <3>1, <3>2, <3>3
  <2>3. CASE i < k
    <3>1. r[i] = s[i + 1] /\ i + 1 \in 1..N /\ i + 1 # 1 /\ i # N
      BY <1>1, <1>13, <2>3
    <3>2. r[i] # pkt
      BY <1>1, <1>11, <3>1
    <3>3. m.next[r[i]] = d.next[s[i + 1]]
      BY <1>9, <2>1, <3>1, <3>2
    <3>4. d.next[s[i + 1]] = IF i + 1 = k \/ i + 1 = N THEN D!NULL ELSE s[(i + 1) + 1]
      BY <3>1 DEF Laid
    <3>5. i + 1 < k => r[i + 1] = s[(i + 1) + 1]
      BY <1>1, <1>13, <3>1
    <3>6. /\ (i + 1 = k \/ i + 1 = N) <=> i = k - 1
          /\ i # k - 1 => i + 1 < k
      BY <1>1, <2>3
    <3> QED
      BY <3>1, <3>3, <3>4, <3>5, <3>6
  <2>4. CASE i > k
    <3>1. r[i] = s[i] /\ i # 1 /\ i # k /\ i # k - 1
      BY <1>1, <1>13, <2>4
    <3>2. r[i] # pkt
      BY <1>1, <1>11, <3>1
    <3>3. m.next[r[i]] = d.next[s[i]]
      BY <1>9, <2>1, <3>1, <3>2
    <3>4. i # N => r[i + 1] = s[i + 1]
      BY <1>1, <1>13, <2>4
    <3> QED
      BY <3>1, <3>3, <3>4 DEF Laid
  <2> QED
    BY <1>1, <2>2, <2>3, <2>4
<1>18. Laid(m, r, k - 1)
  BY <1>1, <1>10, <1>12, <1>14, <1>15, <1>16, <1>17 DEF Laid
<1> QED
  BY <1>1, <1>18 DEF m, r

(* The packets that remain are the ones that came after it.                 *)
LEMMA TakenRow ==
    ASSUME NEW q, NEW s, NEW k \in 1..N, Row(q, s, k)
    PROVE  Row(Tail(q), Rotated(s, k), k - 1)
<1>1. q \in Seq(D!Packet) /\ Len(q) = k /\ q # << >> /\ N \in Nat
  BY PacketFacts DEF Row
<1>2. /\ Tail(q) \in Seq(D!Packet) /\ Len(Tail(q)) = k - 1
      /\ \A i \in 1..(k - 1) : Tail(q)[i] = q[i + 1]
  BY <1>1, HeadTailProperties
<1>3. \A i \in 1..(k - 1) : i \in 1..N /\ i < k /\ i + 1 \in 1..k
  BY <1>1
<1> QED
  BY <1>1, <1>2, <1>3 DEF Row, Rotated

LEMMA QueuedRow ==
    ASSUME NEW q, NEW s, NEW k \in Nat, Row(q, s, k), s[k + 1] \in D!Packet
    PROVE  Row(Append(q, s[k + 1]), s, k + 1)
<1>1. q \in Seq(D!Packet) /\ Len(q) = k
  BY DEF Row
<1>2. /\ Append(q, s[k + 1]) \in Seq(D!Packet) /\ Len(Append(q, s[k + 1])) = k + 1
      /\ \A i \in 1..k : Append(q, s[k + 1])[i] = q[i] /\ Append(q, s[k + 1])[k + 1] = s[k + 1]
  BY <1>1, AppendProperties
<1> QED
  BY <1>2, AppendProperties DEF Row

----------------------------------------------------------------------------
(* lwip_process_packets takes packets until there are none.                 *)

LEMMA NumbersFromNought ==
    ASSUME NEW T, 0 \in T, \A n \in Nat : n \in T => n + 1 \in T
    PROVE  \A n \in Nat : n \in T
<1> DEFINE rest == Nat \ T
<1> SUFFICES ASSUME rest # {} PROVE FALSE
  OBVIOUS
<1>1. rest \subseteq Nat
  OBVIOUS
<1> HIDE DEF rest
<1>2. PICK x \in rest : \A y \in rest : x <= y
  BY <1>1, LeastNumber
<1>3. x \in Nat /\ x \notin T /\ x # 0
  BY DEF rest
<1>4. x - 1 \in Nat /\ ~(x <= x - 1) /\ (x - 1) + 1 = x
  BY <1>3
<1>5. x - 1 \in T
  BY <1>2, <1>4 DEF rest
<1> QED
  BY <1>3, <1>4, <1>5

(* w makes M turns of a loop, from d, one by one.                           *)
Iterates(w, M, S, F, d) ==
    w \in [0..M -> S] /\ w[0] = d /\ \A n \in 1..M : w[n] = F[w[n - 1]]

LEMMA LoopsIterate ==
    ASSUME NEW S, NEW F \in [S -> S], NEW d \in S, NEW M \in Nat
    PROVE  \E w : Iterates(w, M, S, F, d)
<1> DEFINE Goes(w, m) == w[0] = d /\ \A n \in 1..m : w[n] = F[w[n - 1]]
           T == {m \in Nat : \E w \in [0..m -> S] : Goes(w, m)}
<1>1. 0 \in T
  <2>1. [n \in 0..0 |-> d] \in [0..0 -> S] /\ Goes([n \in 0..0 |-> d], 0)
    OBVIOUS
  <2> QED
    BY <2>1
<1>2. ASSUME NEW m \in Nat, m \in T PROVE m + 1 \in T
  <2>1. PICK w \in [0..m -> S] : Goes(w, m)
    BY <1>2
  <2> DEFINE v == [n \in 0..(m + 1) |-> IF n = m + 1 THEN F[w[m]] ELSE w[n]]
  <2>2. m \in 0..m /\ w[m] \in S /\ F[w[m]] \in S
    OBVIOUS
  <2>3. \A n \in 0..(m + 1) : n = m + 1 \/ n \in 0..m
    OBVIOUS
  <2>4. v \in [0..(m + 1) -> S]
    BY <2>2, <2>3
  <2>5. \A n \in 0..m : v[n] = w[n] /\ v[m + 1] = F[w[m]]
    BY <2>3
  <2> HIDE DEF v
  <2>6. v[0] = d
    BY <2>1, <2>5
  <2>7. ASSUME NEW n \in 1..(m + 1) PROVE v[n] = F[v[n - 1]]
    <3>1. CASE n = m + 1
      <4>1. n - 1 = m
        BY <3>1
      <4> QED
        BY <2>2, <2>5, <3>1, <4>1
    <3>2. CASE n # m + 1
      <4>1. n \in 1..m /\ n \in 0..m /\ n - 1 \in 0..m
        BY <3>2
      <4> QED
        BY <2>1, <2>5, <4>1
    <3> QED
      BY <3>1, <3>2
  <2> QED
    BY <2>4, <2>6, <2>7
<1> HIDE DEF T
<1>3. M \in T
  BY <1>1, <1>2, NumbersFromNought
<1> QED
  BY <1>3 DEF T, Iterates

LEMMA ProcessedLaid ==
    ASSUME NEW s, NEW k, Laid(pool, s, k), D!lwip_process_packets
    PROVE  \E r : Laid(pool', r, 0)
<1> DEFINE Step(x) == IF x.head = D!NULL THEN x ELSE D!Taken(x)
           Loop(w) == [n \in 0..N |-> IF n = 0 THEN pool ELSE Step(w[n - 1])]
           F == [x \in Driver |-> Step(x)]
           after == CHOOSE w : w = Loop(w)
<1>1. N \in Nat /\ pool \in Driver /\ k \in 0..N
  BY PacketFacts DEF Laid
<1>2. F \in [Driver -> Driver]
  <2>1. ASSUME NEW x \in Driver, x.head # D!NULL PROVE D!Taken(x) \in Driver
    <3>1. /\ x.next \in [D!Packet -> Link] /\ x.head \in D!Packet /\ x.head \in Link
          /\ x.free \in Link /\ x.tail \in Link /\ x.next[x.head] \in Link /\ D!NULL \in Link
      BY <2>1 DEF Driver, Link
    <3>2. D!Taken(x) = [next |-> [x.next EXCEPT ![x.head] = x.free], free |-> x.head,
                        head |-> x.next[x.head],
                        tail |-> IF x.next[x.head] = D!NULL THEN D!NULL ELSE x.tail]
      BY DEF D!Taken, D!Freed, D!Unqueued
    <3>3. [x.next EXCEPT ![x.head] = x.free] \in [D!Packet -> Link]
      BY <3>1
    <3>4. (IF x.next[x.head] = D!NULL THEN D!NULL ELSE x.tail) \in Link
      BY <3>1
    <3> QED
      BY <3>1, <3>2, <3>3, <3>4 DEF Driver
  <2> QED
    BY <2>1
<1>3. \A x \in Driver : F[x] = Step(x)
  OBVIOUS
<1>4. pool' = after[N]
  BY DEF D!lwip_process_packets, N
<1> HIDE DEF F, Step
<1>5. PICK g : Iterates(g, N, Driver, F, pool)
  BY <1>1, <1>2, LoopsIterate
<1>6. g = Loop(g)
  <2>0. /\ g \in [0..N -> Driver] /\ g[0] = pool
        /\ \A n \in 1..N : g[n] = F[g[n - 1]]
    BY <1>5 DEF Iterates
  <2>1. ASSUME NEW n \in 0..N PROVE g[n] = IF n = 0 THEN pool ELSE Step(g[n - 1])
    <3>1. CASE n = 0
      BY <2>0, <3>1
    <3>2. CASE n # 0
      <4>1. n \in 1..N /\ n - 1 \in 0..N /\ g[n - 1] \in Driver
        BY <1>1, <2>0, <3>2
      <4> QED
        BY <1>3, <2>0, <3>2, <4>1
    <3> QED
      BY <3>1, <3>2
  <2> QED
    BY <2>0, <2>1
<1>7. after = Loop(after)
  BY <1>6
<1> HIDE DEF after
<1>8. after[0] = pool /\ \A n \in 1..N : after[n] = Step(after[n - 1])
  <2>1. \A n \in 0..N : after[n] = IF n = 0 THEN pool ELSE Step(after[n - 1])
    BY <1>7
  <2> QED
    BY <1>1, <2>1
<1> DEFINE left(n) == IF n < k THEN k - n ELSE 0
           T == {n \in Nat : n <= N => \E r : Laid(after[n], r, left(n))}
<1> HIDE DEF T
<1>9. 0 \in T
  <2>1. left(0) = k
    BY <1>1
  <2> QED
    BY <1>8, <2>1 DEF T
<1>10. ASSUME NEW n \in Nat, n \in T, n + 1 <= N PROVE \E r : Laid(after[n + 1], r, left(n + 1))
  <2>1. n <= N /\ n + 1 \in 1..N /\ (n + 1) - 1 = n
    BY <1>1, <1>10
  <2>2. PICK r : Laid(after[n], r, left(n))
    BY <1>10, <2>1 DEF T
  <2>3. after[n + 1] = Step(after[n])
    BY <1>8, <2>1
  <2>4. CASE after[n].head = D!NULL
    <3>1. left(n) = 0
      <4>1. left(n) # 0 => 1 \in 1..N
        BY <1>1
      <4> QED
        BY <2>2, <2>4, <4>1, PacketFacts DEF Laid, InRow
    <3>2. left(n + 1) = 0 /\ after[n + 1] = after[n]
      BY <1>1, <2>3, <2>4, <3>1 DEF Step
    <3> QED
      BY <2>2, <3>1, <3>2
  <2>5. CASE after[n].head # D!NULL
    <3>1. after[n + 1] = D!Taken(after[n])
      BY <2>3, <2>5 DEF Step
    <3>2. left(n) \in 1..N /\ Laid(after[n + 1], Rotated(r, left(n)), left(n) - 1)
      BY <2>2, <2>5, <3>1, TakenLaid
    <3>3. left(n + 1) = left(n) - 1
      BY <1>1, <3>2
    <3> QED
      BY <3>2, <3>3
  <2> QED
    BY <2>4, <2>5
<1>11. left(N) = 0
  BY <1>1
<1> HIDE DEF left
<1>12. ASSUME NEW n \in Nat, n \in T PROVE n + 1 \in T
  <2>1. n + 1 \in Nat /\ (n + 1 <= N => \E r : Laid(after[n + 1], r, left(n + 1)))
    BY <1>10, <1>12
  <2> QED
    BY <2>1 DEF T
<1>13. N \in T
  BY <1>1, <1>9, <1>12, NumbersFromNought
<1> QED
  BY <1>1, <1>4, <1>11, <1>13 DEF T

----------------------------------------------------------------------------
(* Following next from p gathers the packets linked there.                  *)
LEMMA ListIs ==
    ASSUME NEW c \in Seq(D!Packet), Len(c) <= N,
           NEW p, p = IF c = << >> THEN D!NULL ELSE c[1],
           \A i \in 1..Len(c) : pool.next[c[i]] = IF i = Len(c) THEN D!NULL ELSE c[i + 1]
    PROVE  D!List(p) = c
<1> DEFINE q(w) == IF w = << >> THEN p ELSE pool.next[w[Len(w)]]
           Grown(w) == IF q(w) = D!NULL THEN w ELSE Append(w, q(w))
           Loop(w) == [n \in 0..(N + 1) |-> IF n = 0 THEN << >> ELSE Grown(w[n - 1])]
           L == Len(c)
           first(n) == IF n <= L THEN SubSeq(c, 1, n) ELSE c
           g == [n \in 0..(N + 1) |-> first(n)]
           walk == CHOOSE w : w = Loop(w)
<1>1. N \in Nat /\ L \in Nat /\ L <= N /\ \A i \in 1..L : c[i] \in D!Packet /\ c[i] # D!NULL
  BY PacketFacts
<1>2. D!List(p) = walk[N + 1]
  BY DEF D!List, N
<1>3. \A n \in 0..L : /\ SubSeq(c, 1, n) \in Seq(D!Packet) /\ Len(SubSeq(c, 1, n)) = n
                      /\ \A i \in 1..n : SubSeq(c, 1, n)[i] = c[i]
  BY <1>1
<1>4. SubSeq(c, 1, L) = c
  <2>1. L \in 0..L
    BY <1>1
  <2> QED
    BY <1>3, <2>1, SeqEqual
<1>5. ASSUME NEW n \in 0..L PROVE Grown(SubSeq(c, 1, n)) = first(n + 1)
  <2> DEFINE w == SubSeq(c, 1, n)
  <2>1. w \in Seq(D!Packet) /\ Len(w) = n /\ \A i \in 1..n : w[i] = c[i]
    BY <1>3
  <2>2. w = << >> <=> n = 0
    BY <2>1
  <2>3. c = << >> <=> L = 0
    OBVIOUS
  <2> HIDE DEF w
  <2>4. q(w) = IF n = L THEN D!NULL ELSE c[n + 1]
    <3>1. CASE n = 0
      BY <1>1, <2>2, <2>3, <3>1
    <3>2. CASE n # 0
      <4>1. n \in 1..L /\ w # << >> /\ w[Len(w)] = c[n]
        BY <2>1, <2>2, <3>2
      <4> QED
        BY <4>1
    <3> QED
      BY <3>1, <3>2
  <2>5. CASE n = L
    <3> HIDE DEF q
    <3>1. w = c /\ q(w) = D!NULL /\ ~(n + 1 <= L)
      <4>1. w = c
        BY <1>4, <2>5 DEF w
      <4> HIDE DEF L
      <4> QED
        BY <1>1, <2>4, <2>5, <4>1
    <3> QED
      BY <3>1 DEF w
  <2>6. CASE n # L
    <3>1. n + 1 \in 0..L /\ n + 1 \in 1..L /\ q(w) = c[n + 1] /\ q(w) # D!NULL /\ n + 1 <= L
      BY <1>1, <2>4, <2>6
    <3> HIDE DEF q
    <3>2. /\ Append(w, c[n + 1]) \in Seq(D!Packet) /\ Len(Append(w, c[n + 1])) = n + 1
          /\ \A i \in 1..(n + 1) : Append(w, c[n + 1])[i] = c[i]
      BY <1>1, <2>1, <3>1, AppendProperties
    <3>3. /\ SubSeq(c, 1, n + 1) \in Seq(D!Packet) /\ Len(SubSeq(c, 1, n + 1)) = n + 1
          /\ \A i \in 1..(n + 1) : SubSeq(c, 1, n + 1)[i] = c[i]
      BY <1>3, <3>1
    <3>4. Append(w, c[n + 1]) = SubSeq(c, 1, n + 1)
      BY <3>2, <3>3, SeqEqual
    <3> QED
      BY <3>1, <3>4 DEF w
  <2> QED
    BY <2>5, <2>6
<1>6. ASSUME NEW n \in 1..(N + 1) PROVE g[n] = Grown(g[n - 1])
  <2>1. n - 1 \in 0..(N + 1) /\ (n - 1) + 1 = n
    BY <1>1
  <2>2. g[n] = first(n) /\ g[n - 1] = first(n - 1)
    BY <2>1
  <2> HIDE DEF g, Grown
  <2>3. CASE n - 1 <= L
    <3>1. n - 1 \in 0..L
      BY <2>3
    <3> QED
      BY <1>5, <2>1, <2>2, <3>1
  <2>4. CASE ~(n - 1 <= L)
    <3>1. first(n) = c /\ first(n - 1) = c /\ L \in 0..L /\ ~(L + 1 <= L)
      BY <1>1, <2>4
    <3>2. Grown(c) = c
      BY <1>4, <1>5, <3>1
    <3> QED
      BY <2>2, <3>1, <3>2
  <2> QED
    BY <2>3, <2>4
<1>7. g[0] = << >>
  <2>1. SubSeq(c, 1, 0) = << >>
    BY SubSeqEmpty
  <2> QED
    BY <1>1, <2>1
<1>8. g[N + 1] = c
  BY <1>1
<1> HIDE DEF Grown
<1>9. g = Loop(g)
  <2>1. g = [n \in 0..(N + 1) |-> g[n]]
    OBVIOUS
  <2>2. \A n \in 0..(N + 1) : n = 0 \/ n \in 1..(N + 1)
    BY <1>1
  <2> HIDE DEF g
  <2>3. \A n \in 0..(N + 1) : g[n] = IF n = 0 THEN << >> ELSE Grown(g[n - 1])
    BY <1>6, <1>7, <2>2
  <2> QED
    BY <2>1, <2>3
<1> HIDE DEF g
<1>10. walk = Loop(walk)
  BY <1>9
<1> HIDE DEF walk
<1>11. walk[0] = << >> /\ \A n \in 1..(N + 1) : walk[n] = Grown(walk[n - 1])
  <2>1. \A n \in 0..(N + 1) : walk[n] = IF n = 0 THEN << >> ELSE Grown(walk[n - 1])
    BY <1>10
  <2> QED
    BY <1>1, <2>1
<1>12. \A n \in 1..(N + 1) : walk[n - 1] = g[n - 1] => walk[n] = g[n]
  BY <1>6, <1>11
<1>13. N + 1 \in Nat /\ N + 1 \in 0..(N + 1) /\ walk[0] = g[0]
  BY <1>1, <1>7, <1>11
<1>14. \A n \in 0..(N + 1) : walk[n] = g[n]
  <2> DEFINE T == {n \in Nat : n <= N + 1 => walk[n] = g[n]}
  <2>1. 0 \in T
    BY <1>13
  <2>2. ASSUME NEW n \in Nat, n \in T PROVE n + 1 \in T
    <3>1. n + 1 <= N + 1 => n <= N + 1 /\ n + 1 \in 1..(N + 1) /\ (n + 1) - 1 = n
      BY <1>1
    <3> QED
      BY <1>12, <2>2, <3>1
  <2> HIDE DEF T
  <2>3. \A n \in Nat : n \in T
    BY <2>1, <2>2, NumbersFromNought
  <2> QED
    BY <1>1, <2>3 DEF T
<1> QED
  BY <1>2, <1>8, <1>13, <1>14

----------------------------------------------------------------------------
(* What holds after any calls: the packets lie in a row.                    *)
Packets == \E s, k : Laid(pool, s, k) /\ Row(received, s, k)

LEMMA InitPackets == Init => Packets
<1> SUFFICES ASSUME Init PROVE Packets
  OBVIOUS
<1> DEFINE s == [i \in 1..N |-> i - 1]
<1>1. /\ pool = [next |-> [p \in D!Packet |-> IF p + 1 \in D!Packet THEN p + 1 ELSE D!NULL],
                 free |-> 0, head |-> D!NULL, tail |-> D!NULL]
      /\ received = << >>
  BY DEF Init, D!Init
<1>2. \A p \in D!Packet : p \in Int /\ p + 1 \in 1..N /\ (p + 1) - 1 = p
  BY PacketFacts
<1>3. \A i \in 1..N : i - 1 \in D!Packet /\ (i - 1) + 1 = i /\ (i \in D!Packet <=> i # N)
  BY PacketFacts
<1>4. InRow(s)
  <2>1. \A p \in D!Packet : s[p + 1] = p
    BY <1>2
  <2>2. s \in [1..N -> D!Packet]
    BY <1>3
  <2>3. \A i, j \in 1..N : s[i] = s[j] => i = j
    BY PacketFacts
  <2> HIDE DEF s
  <2> QED
    BY <1>2, <2>1, <2>2, <2>3 DEF InRow
<1>5. pool \in Driver
  <2>1. 0 \in Link /\ D!NULL \in Link
    BY PacketFacts DEF Link
  <2>2. [p \in D!Packet |-> IF p + 1 \in D!Packet THEN p + 1 ELSE D!NULL] \in [D!Packet -> Link]
    BY DEF Link
  <2> QED
    BY <1>1, <2>1, <2>2 DEF Driver
<1>6. \A i \in 1..N : pool.next[s[i]] = IF i = 0 \/ i = N THEN D!NULL ELSE s[i + 1]
  <2>1. ASSUME NEW i \in 1..N PROVE pool.next[s[i]] = IF i = 0 \/ i = N THEN D!NULL ELSE s[i + 1]
    <3>1. s[i] = i - 1 /\ i # 0 /\ (i # N => s[i + 1] = i)
      BY PacketFacts
    <3>2. pool.next[i - 1] = IF i \in D!Packet THEN i ELSE D!NULL
      BY <1>1, <1>3
    <3> QED
      BY <1>3, <3>1, <3>2
  <2> QED
    BY <2>1
<1>7. /\ pool.head = D!NULL /\ pool.tail = D!NULL /\ pool.free = 0
      /\ 0 \in 0..N /\ 0 # N /\ s[0 + 1] = 0
  BY <1>1, PacketFacts
<1> HIDE DEF s
<1>8. Laid(pool, s, 0)
  BY <1>4, <1>5, <1>6, <1>7 DEF Laid
<1>9. Row(received, s, 0)
  BY <1>1 DEF Row
<1> QED
  BY <1>8, <1>9 DEF Packets

LEMMA NextPackets == Packets /\ [Next]_vars => Packets'
<1> SUFFICES ASSUME NEW s, NEW k, Laid(pool, s, k), Row(received, s, k), [Next]_vars
             PROVE  Packets'
  BY DEF Packets
<1>1. CASE UNCHANGED driverVars
  BY <1>1 DEF Packets, driverVars
<1>2. CASE D!net_interrupt_handler
  <2>1. CASE pool' = D!Queued(pool) /\ received' = Append(received, pool.free) /\ pool.free # D!NULL
    <3>1. Laid(pool', s, k + 1) /\ pool.free = s[k + 1]
      BY <2>1, QueuedLaid
    <3>2. k \in Nat /\ s[k + 1] \in D!Packet
      BY <2>1, <3>1 DEF Laid, Driver, Link
    <3>3. Row(received', s, k + 1)
      BY <2>1, <3>1, <3>2, QueuedRow
    <3> QED
      BY <3>1, <3>3 DEF Packets
  <2>2. CASE UNCHANGED <<pool, received>>
    BY <2>2 DEF Packets
  <2> QED
    BY <1>2, <2>1, <2>2 DEF D!net_interrupt_handler
<1>3. CASE D!take
  <2>1. pool.head # D!NULL /\ pool' = D!Taken(pool) /\ received' = Tail(received)
    BY <1>3 DEF D!take
  <2>2. k \in 1..N /\ Laid(pool', Rotated(s, k), k - 1)
    BY <2>1, TakenLaid
  <2>3. Row(received', Rotated(s, k), k - 1)
    BY <2>1, <2>2, TakenRow
  <2> QED
    BY <2>2, <2>3 DEF Packets
<1>4. CASE D!lwip_process_packets
  <2>1. PICK r : Laid(pool', r, 0)
    BY <1>4, ProcessedLaid
  <2>2. Row(received', r, 0)
    BY <1>4 DEF D!lwip_process_packets, Row
  <2> QED
    BY <2>1, <2>2 DEF Packets
<1> QED
  BY <1>1, <1>2, <1>3, <1>4
     DEF Next, program, strings, use_packets, D!Next, vars, driverVars, Becomes,
         use_socket, phase5_test, phase6_demo, console

(* The two lists, read off the row.                                         *)
LEMMA ListsAre ==
    ASSUME NEW s, NEW k, Laid(pool, s, k), Row(received, s, k)
    PROVE  /\ D!List(pool.head) = received
           /\ \E c \in Seq(D!Packet) : /\ D!List(pool.free) = c /\ Len(c) = N - k
                                       /\ \A i \in 1..(N - k) : c[i] = s[k + i]
<1>1. /\ N \in Nat /\ k \in 0..N /\ s \in [1..N -> D!Packet]
      /\ \A i \in 1..N : pool.next[s[i]] = IF i = k \/ i = N THEN D!NULL ELSE s[i + 1]
  BY PacketFacts DEF Laid, InRow
<1>2. /\ received \in Seq(D!Packet) /\ Len(received) = k
      /\ \A i \in 1..k : received[i] = s[i]
  BY DEF Row
<1>3. D!List(pool.head) = received
  <2>1. pool.head = IF received = << >> THEN D!NULL ELSE received[1]
    BY <1>1, <1>2 DEF Laid
  <2>2. ASSUME NEW i \in 1..Len(received)
        PROVE  pool.next[received[i]] = IF i = Len(received) THEN D!NULL ELSE received[i + 1]
    <3>1. i \in 1..N /\ i \in 1..k /\ received[i] = s[i] /\ (i = N => i = k)
      BY <1>1, <1>2
    <3>2. i # k => received[i + 1] = s[i + 1]
      BY <1>1, <1>2, <3>1
    <3> QED
      BY <1>1, <1>2, <3>1, <3>2
  <2>3. Len(received) <= N
    BY <1>1, <1>2
  <2> QED
    BY <1>2, <2>1, <2>2, <2>3, ListIs
<1> DEFINE c == [i \in 1..(N - k) |-> s[k + i]]
<1>4. c \in Seq(D!Packet) /\ Len(c) = N - k
  <2>1. N - k \in Nat /\ \A i \in 1..(N - k) : k + i \in 1..N
    BY <1>1
  <2>2. c \in [1..(N - k) -> D!Packet]
    BY <1>1, <2>1
  <2> HIDE DEF c
  <2> QED
    BY <2>1, <2>2, SeqDef, LenProperties
<1>5. \A i \in 1..(N - k) : c[i] = s[k + i]
  OBVIOUS
<1> HIDE DEF c
<1>6. D!List(pool.free) = c
  <2>1. pool.free = IF c = << >> THEN D!NULL ELSE c[1]
    <3>1. c = << >> <=> k = N
      BY <1>1, <1>4
    <3>2. k # N => c[1] = s[k + 1]
      BY <1>1, <1>5
    <3> QED
      BY <3>1, <3>2 DEF Laid
  <2>2. ASSUME NEW i \in 1..Len(c)
        PROVE  pool.next[c[i]] = IF i = Len(c) THEN D!NULL ELSE c[i + 1]
    <3>1. i \in 1..(N - k) /\ k + i \in 1..N /\ c[i] = s[k + i]
      BY <1>1, <1>4, <1>5
    <3>2. /\ k + i # k /\ (k + i = N <=> i = Len(c))
      BY <1>1, <1>4, <3>1
    <3>3. i # Len(c) => c[i + 1] = s[(k + i) + 1]
      <4>1. i # Len(c) => i + 1 \in 1..(N - k) /\ k + (i + 1) = (k + i) + 1
        BY <1>1, <1>4, <3>1
      <4> QED
        BY <1>5, <4>1
    <3> QED
      BY <1>1, <3>1, <3>2, <3>3
  <2>3. Len(c) <= N
    BY <1>1, <1>4
  <2> QED
    BY <1>4, <2>1, <2>2, <2>3, ListIs
<1> QED
  BY <1>3, <1>4, <1>5, <1>6

(* alloc_packet, net_receive and net_free_packet in any order, also from    *)
(* the loop of lwip_process_packets: every packet is in exactly one list.   *)
THEOREM PoolTheorem == Spec => []PoolIsWhole
<1>1. Packets => PoolIsWhole
  <2> SUFFICES ASSUME NEW s, NEW k, Laid(pool, s, k), Row(received, s, k)
               PROVE  PoolIsWhole
    BY DEF Packets
  <2>1. PICK c \in Seq(D!Packet) : /\ D!List(pool.free) = c /\ Len(c) = N - k
                                   /\ \A i \in 1..(N - k) : c[i] = s[k + i]
    BY ListsAre
  <2>2. D!List(pool.head) = received
    BY ListsAre
  <2>3. /\ N \in Nat /\ k \in 0..N /\ \A p \in D!Packet : \E i \in 1..N : s[i] = p
    BY PacketFacts DEF Laid, InRow
  <2>4. received \in Seq(D!Packet) /\ Len(received) = k /\ \A i \in 1..k : received[i] = s[i]
    BY DEF Row
  <2> DEFINE all == c \o received
  <2>5. /\ all \in Seq(D!Packet) /\ Len(all) = Len(c) + Len(received)
        /\ \A i \in 1..(Len(c) + Len(received)) :
              all[i] = IF i <= Len(c) THEN c[i] ELSE received[i - Len(c)]
    <3>1. c \in Seq(D!Packet) /\ received \in Seq(D!Packet)
      BY <2>4
    <3> QED
      BY ONLY <3>1, ConcatProperties, Zenon
  <2> HIDE DEF all
  <2>6. Len(all) = N
    BY <2>1, <2>3, <2>4, <2>5
  <2>7. DOMAIN all = 1..N /\ \A i \in 1..N : all[i] \in D!Packet
    BY <2>5, <2>6
  <2>8. ASSUME NEW p \in D!Packet PROVE \E j \in 1..N : all[j] = p
    <3>1. PICK i \in 1..N : s[i] = p
      BY <2>3
    <3>2. CASE i <= k
      <4>1. (N - k) + i \in 1..N /\ ~((N - k) + i <= N - k) /\ ((N - k) + i) - (N - k) = i /\ i \in 1..k
        BY <2>3, <3>2
      <4>2. all[(N - k) + i] = received[i]
        BY <2>1, <2>3, <2>4, <2>5, <4>1
      <4> QED
        BY <2>4, <3>1, <4>1, <4>2
    <3>3. CASE i > k
      <4>1. i - k \in 1..N /\ i - k \in 1..(N - k) /\ k + (i - k) = i
        BY <2>3, <3>3
      <4>2. all[i - k] = c[i - k]
        BY <2>1, <2>3, <2>4, <2>5, <4>1
      <4> QED
        BY <2>1, <3>1, <4>1, <4>2
    <3> QED
      BY <2>3, <3>2, <3>3
  <2>9. D!ToSet(all) = D!Packet
    BY <2>7, <2>8 DEF D!ToSet
  <2> QED
    BY <2>1, <2>2, <2>6, <2>9 DEF PoolIsWhole, D!PoolIsWhole, all, N
<1> QED
  BY InitPackets, NextPackets, <1>1, PTL DEF Spec

(* net_receive hands packets out in the order alloc_packet took them, and   *)
(* forgets the tail of a queue that it empties.                             *)
THEOREM FifoTheorem == Spec => []QueueIsFifo
<1>1. Packets => QueueIsFifo
  <2> SUFFICES ASSUME NEW s, NEW k, Laid(pool, s, k), Row(received, s, k)
               PROVE  QueueIsFifo
    BY DEF Packets
  <2>1. D!List(pool.head) = received
    BY ListsAre
  <2>2. k \in Nat /\ received \in Seq(D!Packet) /\ Len(received) = k
        /\ \A i \in 1..k : received[i] = s[i]
    BY PacketFacts DEF Laid, Row
  <2>3. pool.tail = IF received = << >> THEN D!NULL ELSE received[Len(received)]
    BY <2>2 DEF Laid
  <2> QED
    BY <2>1, <2>3 DEF QueueIsFifo, D!QueueIsFifo
<1> QED
  BY InitPackets, NextPackets, <1>1, PTL DEF Spec

----------------------------------------------------------------------------
(* Numbers and their texts.                                                 *)

(* A loop whose turns differ: the n-th is by F[n].                          *)
Counts(w, M, S, F, d) ==
    w \in [0..M -> S] /\ w[0] = d /\ \A n \in 1..M : w[n] = F[n][w[n - 1]]

LEMMA LoopsCount ==
    ASSUME NEW S, NEW M \in Nat, NEW F \in [1..M -> [S -> S]], NEW d \in S
    PROVE  \E w : Counts(w, M, S, F, d)
<1> DEFINE Goes(w, m) == w[0] = d /\ \A n \in 1..m : w[n] = F[n][w[n - 1]]
           T == {m \in Nat : m <= M => \E w \in [0..m -> S] : Goes(w, m)}
<1>1. 0 \in T
  <2>1. [n \in 0..0 |-> d] \in [0..0 -> S] /\ Goes([n \in 0..0 |-> d], 0)
    OBVIOUS
  <2> QED
    BY <2>1
<1>2. ASSUME NEW m \in Nat, m \in T, m + 1 <= M
      PROVE  \E w \in [0..(m + 1) -> S] : Goes(w, m + 1)
  <2>1. PICK w \in [0..m -> S] : Goes(w, m)
    <3>1. m <= M
      BY <1>2
    <3> QED
      BY <1>2, <3>1
  <2> DEFINE v == [n \in 0..(m + 1) |-> IF n = m + 1 THEN F[m + 1][w[m]] ELSE w[n]]
  <2>2. m \in 0..m /\ m + 1 \in 1..M /\ w[m] \in S /\ F[m + 1][w[m]] \in S
    <3>1. m \in 0..m /\ m + 1 \in 1..M
      BY <1>2
    <3> QED
      BY <3>1
  <2>3. \A n \in 0..(m + 1) : n = m + 1 \/ n \in 0..m
    OBVIOUS
  <2>4. v \in [0..(m + 1) -> S]
    BY <2>2, <2>3
  <2>5. \A n \in 0..m : v[n] = w[n] /\ v[m + 1] = F[m + 1][w[m]]
    BY <2>3
  <2> HIDE DEF v
  <2>6. v[0] = d
    BY <2>1, <2>5
  <2>7. ASSUME NEW n \in 1..(m + 1) PROVE v[n] = F[n][v[n - 1]]
    <3>1. CASE n = m + 1
      <4>1. n - 1 = m
        BY <3>1
      <4> QED
        BY <2>2, <2>5, <3>1, <4>1
    <3>2. CASE n # m + 1
      <4>1. n \in 1..m /\ n \in 0..m /\ n - 1 \in 0..m
        BY <3>2
      <4> QED
        BY <2>1, <2>5, <4>1
    <3> QED
      BY <3>1, <3>2
  <2> QED
    BY <2>4, <2>6, <2>7
<1> HIDE DEF Goes
<1>3. \A m \in Nat : m \in T => m + 1 \in T
  BY <1>2
<1> HIDE DEF T
<1>4. M \in T
  BY <1>1, <1>3, NumbersFromNought
<1> QED
  BY <1>4 DEF T, Counts, Goes

(* The k-th power of two.                                                   *)
LEMMA PowerIs ==
    /\ Power[0] = 1 /\ \A k \in 0..WIDTH : Power[k] \in Nat
    /\ \A k \in 1..WIDTH : Power[k] = 2 * Power[k - 1]
    /\ ULONG = Power[WIDTH] /\ WIDTH \in Nat \ {0}
<1> DEFINE Double == [x \in Nat |-> 2 * x]
           Loop(w) == [k \in 0..WIDTH |-> IF k = 0 THEN 1 ELSE 2 * w[k - 1]]
<1>1. WIDTH \in Nat /\ Double \in [Nat -> Nat]
  BY LibcAssumption
<1>2. \A x \in Nat : Double[x] = 2 * x
  OBVIOUS
<1> HIDE DEF Double
<1>3. PICK g : Iterates(g, WIDTH, Nat, Double, 1)
  BY <1>1, LoopsIterate
<1>4. g \in [0..WIDTH -> Nat] /\ g[0] = 1 /\ \A k \in 1..WIDTH : g[k] = 2 * g[k - 1]
  <2>1. \A k \in 1..WIDTH : k - 1 \in 0..WIDTH
    BY <1>1
  <2> QED
    BY <1>2, <1>3, <2>1 DEF Iterates
<1>5. g = Loop(g)
  <2>1. ASSUME NEW k \in 0..WIDTH PROVE g[k] = IF k = 0 THEN 1 ELSE 2 * g[k - 1]
    BY <1>1, <1>4
  <2> QED
    BY <1>4, <2>1
<1>6. Power = CHOOSE w : w = Loop(w)
  BY DEF Power
<1>7. Power = Loop(Power)
  BY <1>5, <1>6
<1>8. \A k \in 0..WIDTH : Power[k] = IF k = 0 THEN 1 ELSE 2 * Power[k - 1]
  BY <1>7
<1>9. Power[0] = 1 /\ \A k \in 1..WIDTH : Power[k] = 2 * Power[k - 1]
  BY <1>1, <1>8
<1>10. \A k \in 0..WIDTH : Power[k] = g[k]
  <2>1. \A k \in 1..WIDTH : Power[k - 1] = g[k - 1] => Power[k] = g[k]
    BY <1>4, <1>9
  <2>2. Power[0] = g[0]
    BY <1>4, <1>9
  <2>3. WIDTH \in Nat
    BY <1>1
  <2> HIDE DEF Loop
  <2>4. PICK p : p = Power
    OBVIOUS
  <2>5. p[0] = g[0] /\ \A k \in 1..WIDTH : p[k - 1] = g[k - 1] => p[k] = g[k]
    BY <2>1, <2>2, <2>4
  <2>6. \A k \in 0..WIDTH : p[k] = g[k]
    BY ONLY <2>3, <2>5, SameTurns
  <2> QED
    BY <2>4, <2>6
<1>11. WIDTH # 0
  BY <1>1, <1>9, LibcAssumption DEF ULONG
<1> QED
  BY <1>1, <1>4, <1>9, <1>10, <1>11 DEF ULONG

LEMMA QuotientIs ==
    ASSUME NEW v \in Int, NEW base \in 2..36
    PROVE  /\ Quotient(v, base) \in Int
           /\ v >= 0 => Quotient(v, base) >= 0 /\ v - Quotient(v, base) * base \in 0..(base - 1)
           /\ v < 0  => Quotient(v, base) <= 0 /\ Quotient(v, base) * base - v \in 0..(base - 1)
           /\ \A p \in Nat : -2 * p < v /\ v < 2 * p => -p < Quotient(v, base) /\ Quotient(v, base) < p
           /\ v = 0 => Quotient(v, base) = 0
<1> DEFINE a == IF v < 0 THEN -v ELSE v
           q == a \div base
           m == a % base
<1>1. a \in Nat /\ base \in Nat \ {0} /\ base >= 2
  OBVIOUS
<1>2. q \in Nat /\ m \in 0..(base - 1) /\ a = base * q + m
  <2> HIDE DEF a
  <2> QED
    BY <1>1
<1>3. Quotient(v, base) = IF v < 0 THEN -q ELSE q
  BY DEF Quotient
<1> HIDE DEF q, m
<1>4. base * q = q * base /\ (-q) * base = -(q * base)
  <2> HIDE DEF a
  <2> QED
    BY <1>1, <1>2
<1> DEFINE b == q * base
<1>5. b \in Nat /\ a = b + m /\ 2 * q <= b /\ (-q) * base = -b
  <2>1. 2 * q <= base * q
    <3> HIDE DEF a
    <3>1. \E k \in Nat : base = 2 + k
      <4>1. base = 2 + (base - 2) /\ base - 2 \in Nat
        BY <1>1
      <4> QED
        BY <4>1
    <3>2. PICK k \in Nat : base = 2 + k
      BY <3>1
    <3>3. base * q = 2 * q + k * q /\ k * q \in Nat
      BY <1>2, <3>2
    <3> QED
      BY <1>2, <3>3
  <2> QED
    BY <1>1, <1>2, <1>4, <2>1
<1> HIDE DEF b
<1>6. v \in Int /\ q \in Nat /\ m \in 0..(base - 1) /\ (v < 0 => v = -(b + m)) /\ (v >= 0 => v = b + m)
  BY <1>2, <1>5 DEF a
<1>7. CASE v >= 0
  <2>1. Quotient(v, base) = q /\ Quotient(v, base) * base = b /\ v = b + m
    BY <1>3, <1>6, <1>7 DEF b
  <2>2. v = 0 => q = 0
    BY <1>5, <1>6, <2>1
  <2> QED
    BY <1>5, <1>6, <1>7, <2>1, <2>2
<1>8. CASE v < 0
  <2>1. Quotient(v, base) = -q /\ Quotient(v, base) * base = -b /\ v = -(b + m)
    BY <1>3, <1>5, <1>6, <1>8
  <2> QED
    BY <1>5, <1>6, <1>8, <2>1
<1> QED
  BY <1>7, <1>8

(* r is what is left of v after each turn; n turns leave nothing.           *)
Divided(v, base, n, r) ==
    /\ n \in Nat \ {0} /\ n <= WIDTH /\ r \in [0..n -> Int] /\ r[0] = v /\ r[n] = 0
    /\ \A k \in 1..n : r[k] = Quotient(r[k - 1], base)
    /\ \A k \in 1..n : k < n => r[k] # 0
    /\ Numeral(v, base) = [i \in 1..n |-> Digit(r[n - i] - r[n - i + 1] * base)]

LEMMA NumeralIs ==
    ASSUME NEW v \in Int, -ULONG < v, v < ULONG, NEW base \in 2..36
    PROVE  \E n, r : Divided(v, base, n, r)
<1> DEFINE Q == [x \in Int |-> Quotient(x, base)]
           Loop(w) == [k \in 0..WIDTH |-> IF k = 0 THEN v ELSE Quotient(w[k - 1], base)]
           rest == CHOOSE w : w = Loop(w)
           turns == {k \in 1..WIDTH : rest[k] # 0}
           n == 1 + Cardinality(turns)
<1>1. Q \in [Int -> Int] /\ \A x \in Int : Q[x] = Quotient(x, base)
  BY QuotientIs
<1>2. Numeral(v, base) = [i \in 1..n |-> Digit(rest[n - i] - rest[n - i + 1] * base)]
  BY DEF Numeral
<1> HIDE DEF Q
<1>3. PICK g : Iterates(g, WIDTH, Int, Q, v)
  BY <1>1, PowerIs, LoopsIterate
<1>4. g \in [0..WIDTH -> Int] /\ g[0] = v /\ \A k \in 1..WIDTH : g[k] = Quotient(g[k - 1], base)
  <2>1. \A k \in 1..WIDTH : k - 1 \in 0..WIDTH
    BY PowerIs
  <2> QED
    BY <1>1, <1>3, <2>1 DEF Iterates
<1>5. g = Loop(g)
  <2>1. ASSUME NEW k \in 0..WIDTH PROVE g[k] = IF k = 0 THEN v ELSE Quotient(g[k - 1], base)
    BY <1>4, PowerIs
  <2> QED
    BY <1>4, <2>1
<1>6. rest = Loop(rest)
  BY <1>5
<1> HIDE DEF rest
<1>7. rest[0] = v /\ \A k \in 1..WIDTH : rest[k] = Quotient(rest[k - 1], base)
  <2>1. \A k \in 0..WIDTH : rest[k] = IF k = 0 THEN v ELSE Quotient(rest[k - 1], base)
    BY <1>6
  <2> QED
    BY <2>1, PowerIs
<1>8. rest \in [0..WIDTH -> Int]
  <2>1. \A k \in 1..WIDTH : rest[k - 1] = g[k - 1] => rest[k] = g[k]
    BY <1>4, <1>7
  <2>2. rest[0] = g[0] /\ WIDTH \in Nat
    BY <1>4, <1>7, PowerIs
  <2>3. \A k \in 0..WIDTH : rest[k] = g[k]
    BY ONLY <2>1, <2>2, SameTurns
  <2>4. rest = [k \in 0..WIDTH |-> rest[k]]
    BY <1>6
  <2> QED
    BY <1>4, <2>3, <2>4
<1>9. rest[WIDTH] = 0
  <2> DEFINE T == {k \in Nat : k <= WIDTH =>
                     -Power[WIDTH - k] < rest[k] /\ rest[k] < Power[WIDTH - k]}
  <2>1. 0 \in T
    BY <1>7, PowerIs
  <2>2. ASSUME NEW k \in Nat, k \in T PROVE k + 1 \in T
    <3> SUFFICES ASSUME k + 1 <= WIDTH
                 PROVE  /\ -Power[WIDTH - (k + 1)] < rest[k + 1]
                        /\ rest[k + 1] < Power[WIDTH - (k + 1)]
      OBVIOUS
    <3>1. /\ k \in 0..WIDTH /\ k + 1 \in 1..WIDTH /\ (k + 1) - 1 = k
          /\ WIDTH - k \in 1..WIDTH /\ (WIDTH - k) - 1 = WIDTH - (k + 1)
          /\ WIDTH - (k + 1) \in 0..WIDTH
      BY PowerIs
    <3>2. /\ Power[WIDTH - k] = 2 * Power[WIDTH - (k + 1)]
          /\ Power[WIDTH - (k + 1)] \in Nat
      BY <3>1, PowerIs
    <3>3. -Power[WIDTH - k] < rest[k] /\ rest[k] < Power[WIDTH - k]
      BY <2>2, <3>1
    <3>4. rest[k] \in Int /\ rest[k + 1] = Quotient(rest[k], base)
      BY <1>7, <1>8, <3>1
    <3>5. -2 * Power[WIDTH - (k + 1)] < rest[k] /\ rest[k] < 2 * Power[WIDTH - (k + 1)]
      BY <3>2, <3>3, <3>4
    <3> QED
      BY <3>2, <3>4, <3>5, QuotientIs
  <2> HIDE DEF T
  <2>3. WIDTH \in T
    BY <2>1, <2>2, NumbersFromNought, PowerIs
  <2>4. WIDTH - WIDTH = 0 /\ WIDTH <= WIDTH /\ WIDTH \in 0..WIDTH
    BY PowerIs
  <2>5. -1 < rest[WIDTH] /\ rest[WIDTH] < 1
    BY <2>3, <2>4, PowerIs DEF T
  <2>6. rest[WIDTH] \in Int
    BY <1>8, <2>4
  <2> QED
    BY <2>5, <2>6
<1>10. PICK m \in 1..WIDTH : rest[m] = 0 /\ \A k \in 1..WIDTH : k < m => rest[k] # 0
  <2> DEFINE T == {k \in 1..WIDTH : rest[k] = 0}
  <2>1. WIDTH \in T /\ T \subseteq Nat
    BY <1>9, PowerIs
  <2>2. PICK m \in T : \A k \in T : m <= k
    BY <2>1, LeastNumber
  <2> QED
    BY <2>2
<1>11. \A k \in 1..WIDTH : k >= m => rest[k] = 0
  <2> DEFINE T == {j \in Nat : m + j <= WIDTH => rest[m + j] = 0}
  <2>1. 0 \in T
    BY <1>10
  <2>2. ASSUME NEW j \in Nat, j \in T PROVE j + 1 \in T
    <3> SUFFICES ASSUME m + (j + 1) <= WIDTH PROVE rest[m + (j + 1)] = 0
      OBVIOUS
    <3>1. m + j <= WIDTH /\ m + (j + 1) \in 1..WIDTH /\ (m + (j + 1)) - 1 = m + j
      BY PowerIs
    <3>2. rest[m + (j + 1)] = Quotient(rest[m + j], base) /\ rest[m + j] = 0
      BY <1>7, <2>2, <3>1
    <3>3. Quotient(0, base) = 0
      BY QuotientIs, 0 \in Int
    <3> QED
      BY <3>2, <3>3
  <2> HIDE DEF T
  <2>3. \A j \in Nat : j \in T
    BY <2>1, <2>2, NumbersFromNought
  <2>4. ASSUME NEW k \in 1..WIDTH, k >= m PROVE rest[k] = 0
    <3>1. k - m \in Nat /\ m + (k - m) = k /\ m + (k - m) <= WIDTH
      BY <2>4, PowerIs
    <3> QED
      BY <2>3, <3>1 DEF T
  <2> QED
    BY <2>4
<1>12. n = m
  <2>1. turns = 1..(m - 1)
    BY <1>10, <1>11, PowerIs
  <2>2. Cardinality(1..(m - 1)) = m - 1
    BY FS_Interval, PowerIs
  <2> HIDE DEF turns
  <2> QED
    BY <2>1, <2>2
<1> DEFINE r == [k \in 0..m |-> rest[k]]
<1>13. Numeral(v, base) = [i \in 1..m |-> Digit(r[m - i] - r[m - i + 1] * base)]
  <2>1. \A i \in 1..m : m - i \in 0..m /\ m - i + 1 \in 0..m
    OBVIOUS
  <2>2. \A i \in 1..m : r[m - i] = rest[m - i] /\ r[m - i + 1] = rest[m - i + 1]
    BY <2>1
  <2>3. Numeral(v, base) = [i \in 1..m |-> Digit(rest[m - i] - rest[m - i + 1] * base)]
    BY <1>2, <1>12
  <2> HIDE DEF r
  <2> QED
    BY <2>2, <2>3
<1>14. /\ r \in [0..m -> Int] /\ r[0] = v /\ r[m] = 0
       /\ \A k \in 1..m : r[k] = Quotient(r[k - 1], base)
       /\ \A k \in 1..m : k < m => r[k] # 0
  <2>1. \A k \in 0..m : k \in 0..WIDTH /\ r[k] = rest[k]
    BY PowerIs
  <2>2. \A k \in 1..m : k \in 1..WIDTH /\ k - 1 \in 0..m /\ k \in 0..m
    BY PowerIs
  <2>3. r \in [0..m -> Int]
    BY <1>8, <2>1
  <2> HIDE DEF r
  <2>4. 0 \in 0..m /\ m \in 0..m
    OBVIOUS
  <2> QED
    BY <1>7, <1>10, <2>1, <2>2, <2>3, <2>4
<1> HIDE DEF r
<1>15. Divided(v, base, m, r)
  <2>1. m \in Nat \ {0} /\ m <= WIDTH
    BY PowerIs
  <2> QED
    BY ONLY <1>13, <1>14, <2>1, Zenon DEF Divided
<1> QED
  BY <1>15

----------------------------------------------------------------------------
(* Characters.                                                              *)

Symbol == STRING \cup {Digits[i] : i \in 1..36} \cup {Junk, "-", "%"}


LEMMA DigitsAre ==
    /\ \A i \in 1..36 : Digits[i] \in Symbol
    /\ \A i, j \in 1..36 : Digits[i] = Digits[j] => i = j
<1>1. \A i \in 1..36 : Digits[i] \in Symbol
  BY DEF Symbol
<1>2. \A i, j \in 1..36 : Digits[i] = Digits[j] => i = j
  BY DEF Digits
<1> QED
  BY <1>1, <1>2

LEMMA WorthIs == \A i \in 1..36 : Worth(Digits[i]) = i - 1
<1> TAKE i \in 1..36
<1>1. \A j \in 1..36 : Digits[j] = Digits[i] => j = i
  BY DigitsAre
<1>2. (CHOOSE j \in 1..36 : Digits[j] = Digits[i]) = i
  BY <1>1
<1> QED
  BY <1>2 DEF Worth

LEMMA DecimalIs ==
    /\ \A i \in 1..10 : Digits[i] \in Decimal
    /\ \A c \in Decimal : c \notin Blanks /\ c # "-" /\ c # "+" /\ c # "."
    /\ "-" \notin Blanks
<1>1. \A i \in 1..10 : Digits[i] \in Decimal
  BY DEF Decimal
<1>2. \A c \in Decimal : c \in {"0", "1", "2", "3", "4", "5", "6", "7", "8", "9"}
  BY DEF Decimal, Digits
<1> QED
  BY <1>1, <1>2 DEF Blanks

LEMMA MinIs ==
    ASSUME NEW a \in Int, NEW b \in Int
    PROVE  Min({a, b}) = IF a <= b THEN a ELSE b
BY DEF Min

(* A run of characters of S, up to the first that is not.                   *)
LEMMA SpanIs ==
    ASSUME NEW s, Len(s) \in Nat, NEW S, NEW n \in 0..Len(s), \A i \in 1..n : s[i] \in S,
           n = Len(s) \/ s[n + 1] \notin S
    PROVE  Span(s, S) = n
<1> DEFINE T == {k \in 0..Len(s) : \A i \in 1..k : s[i] \in S}
<1>1. n \in T
  OBVIOUS
<1>2. ASSUME NEW k \in T, k > n PROVE FALSE
  <2>1. n + 1 \in 1..k /\ n < Len(s)
    BY <1>2
  <2> QED
    BY <1>2, <2>1
<1>3. \A k \in T : n >= k
  BY <1>2
<1>4. \A k \in T : (\A j \in T : k >= j) => k = n
  BY <1>1, <1>3
<1>5. Max(T) = n
  <2> HIDE DEF T
  <2> QED
    BY <1>1, <1>3, <1>4 DEF Max
<1> QED
  BY <1>5 DEF Span

(* Numbers are written in characters.                                       *)
LEMMA NumeralText ==
    ASSUME NEW v \in Int, -ULONG < v, v < ULONG, NEW base \in 2..36
    PROVE  Numeral(v, base) \in Seq(Symbol)
<1>1. PICK n, r : Divided(v, base, n, r)
  BY NumeralIs
<1>2. ASSUME NEW i \in 1..n PROVE Digit(r[n - i] - r[n - i + 1] * base) \in Symbol
  <2>1. /\ n \in Nat /\ n - i \in 0..n /\ n - i + 1 \in 1..n /\ (n - i + 1) - 1 = n - i
        /\ r[n - i] \in Int /\ r[n - i + 1] = Quotient(r[n - i], base)
    <3>1. n \in Nat /\ r \in [0..n -> Int] /\ \A k \in 1..n : r[k] = Quotient(r[k - 1], base)
      BY <1>1 DEF Divided
    <3>2. n - i \in 0..n /\ n - i + 1 \in 1..n /\ (n - i + 1) - 1 = n - i
      BY <3>1
    <3> QED
      BY <3>1, <3>2
  <2> DEFINE x == r[n - i]
             b == Quotient(x, base) * base
             d == x - b
  <2>2. x \in Int /\ b \in Int
    <3>1. x \in Int /\ base \in Int
      BY <2>1
    <3> HIDE DEF x
    <3>2. Quotient(x, base) \in Int
      BY <3>1, QuotientIs
    <3> QED
      BY <3>1, <3>2
  <2>3. (x >= 0 => d \in 0..(base - 1)) /\ (x < 0 => b - x \in 0..(base - 1))
    BY <2>1, QuotientIs
  <2>4. d \in Int /\ d < 36
    <3> HIDE DEF b, x
    <3> QED
      BY <2>2, <2>3
  <2>5. Digit(d) \in Symbol
    <3> HIDE DEF d
    <3>1. d >= 0 => d + 1 \in 1..36
      BY <2>4
    <3> QED
      BY <2>4, <3>1, DigitsAre DEF Digit, Symbol
  <2> QED
    BY <2>1, <2>5
<1>3. n \in Nat
  BY <1>1 DEF Divided
<1>4. Numeral(v, base) \in [1..n -> Symbol]
  BY <1>1, <1>2 DEF Divided
<1> QED
  BY <1>3, <1>4, SeqDef

----------------------------------------------------------------------------
(* What a directive prints.                                                 *)

(* What a directive prints may be as large as an unsigned long.              *)
Arg(a) == a.d \in IntMin..(ULONG - 1) /\ a.s \in Seq(STRING) /\ a.c \in STRING

LEMMA IntFacts ==
    /\ INT_MAX \in Nat /\ IntMin \in Int /\ IntMin = -INT_MAX - 1
    /\ ULONG \in Nat /\ ULONG > INT_MAX + 1
    /\ UINT \in Nat \ {0} /\ UINT <= ULONG /\ INT_MAX < UINT
    /\ \A v \in IntMin..(ULONG - 1) : v \in Int /\ -ULONG < v /\ v < ULONG
    /\ \A v \in IntMin..INT_MAX :
          v \in Int /\ -ULONG < v /\ v < ULONG /\ v <= ULONG - 1 /\ Wrapped(v) = v
    /\ \A v \in IntMin..INT_MAX : Wrapped(-v) \in IntMin..INT_MAX
<1>1. INT_MAX \in Nat /\ IntMin \in Int /\ IntMin = -INT_MAX - 1
  BY LibcAssumption DEF IntMin
<1>2. ULONG \in Nat /\ ULONG > INT_MAX + 1
  BY PowerIs, LibcAssumption
<1> DEFINE M == 2 * (INT_MAX + 1)
<1>3. M \in Nat \ {0} /\ IntMin + M = INT_MAX + 1
  BY <1>1
<1>4. ASSUME NEW v \in Int PROVE Wrapped(v) \in IntMin..INT_MAX /\ (v \in IntMin..INT_MAX => Wrapped(v) = v)
  <2>1. Wrapped(v) = ((v - IntMin) % M) + IntMin
    BY DEF Wrapped, UINT
  <2> HIDE DEF M
  <2> DEFINE u == v - IntMin
  <2>2. u \in Int
    BY <1>1
  <2>3. u % M \in 0..(M - 1)
    <3> HIDE DEF u
    <3> QED
      BY <1>3, <2>2
  <2>4. u \in 0..(M - 1) => u % M = u
    <3> HIDE DEF u
    <3> QED
      BY <1>3, <2>2
  <2> QED
    BY <1>1, <1>3, <2>1, <2>3, <2>4
<1>5. UINT \in Nat \ {0} /\ UINT <= ULONG /\ INT_MAX < UINT
  BY <1>1, <1>2, LibcAssumption DEF UINT
<1> QED
  BY <1>1, <1>2, <1>4, <1>5

LEMMA SignedText ==
    ASSUME NEW v \in IntMin..(ULONG - 1), NEW base \in {10, 16}
    PROVE  Signed(v, base) \in Seq(Symbol)
<1>1. v \in Int /\ -ULONG < v /\ v < ULONG
  BY IntFacts
<1>5. v < 0 => Wrapped(-v) \in Int /\ -ULONG < Wrapped(-v) /\ Wrapped(-v) < ULONG
  <2>1. v < 0 => v \in IntMin..INT_MAX
    BY IntFacts
  <2>2. v < 0 => Wrapped(-v) \in IntMin..INT_MAX
    BY <2>1, IntFacts
  <2> QED
    BY <2>2, IntFacts
<1>2. Numeral(v, base) \in Seq(Symbol)
  BY <1>1, base \in 2..36, NumeralText
<1>3. v < 0 => Numeral(Wrapped(-v), 10) \in Seq(Symbol)
  BY <1>5, 10 \in 2..36, NumeralText
<1>4. <<"-">> \in Seq(Symbol)
  BY DEF Symbol
<1> QED
  BY <1>2, <1>3, <1>4 DEF Signed

LEMMA PieceText ==
    ASSUME NEW arg, Arg(arg), NEW directive \in Known
    PROVE  Piece(directive, arg) \in Seq(Symbol)
<1>1. Signed(arg.d, 10) \in Seq(Symbol) /\ Signed(arg.d, 16) \in Seq(Symbol)
  BY SignedText DEF Arg
<1>2. arg.s \in Seq(Symbol) /\ <<arg.c>> \in Seq(Symbol) /\ <<"%">> \in Seq(Symbol)
  <2>1. STRING \subseteq Symbol /\ "%" \in Symbol
    BY DEF Symbol
  <2>2. arg.s \in Seq(STRING) /\ arg.c \in Symbol
    BY <2>1 DEF Arg
  <2>3. arg.s \in Seq(Symbol)
    BY <2>1, <2>2, SeqMonotonic
  <2> QED
    BY <2>1, <2>2, <2>3
<1> QED
  BY <1>1, <1>2 DEF Piece, Known

(* As much as there is room for.                                            *)
LEMMA FilledIs ==
    ASSUME NEW buf \in Seq(Symbol), Len(buf) <= SIZE - 1, NEW piece \in Seq(Symbol)
    PROVE  /\ Filled(buf, piece, SIZE) \in Seq(Symbol)
           /\ Len(Filled(buf, piece, SIZE)) <= SIZE - 1
           /\ Len(buf) + Len(piece) < SIZE => Filled(buf, piece, SIZE) = buf \o piece
<1> DEFINE room == SIZE - 1 - Len(buf)
           m == Min({Len(piece), room})
           some == SubSeq(piece, 1, m)
<1>1. SIZE \in Nat /\ Len(buf) \in Nat /\ Len(piece) \in Nat /\ room \in Nat
  BY LibcAssumption
<1>2. m = IF Len(piece) <= room THEN Len(piece) ELSE room
  BY <1>1, MinIs
<1>3. Filled(buf, piece, SIZE) = buf \o some
  BY DEF Filled
<1> HIDE DEF m
<1>4. m \in 0..Len(piece) /\ m <= room
  BY <1>1, <1>2
<1>5. some \in Seq(Symbol) /\ Len(some) = m
  <2>1. \A i \in 1..m : i \in 1..Len(piece)
    BY <1>1, <1>4
  <2> QED
    BY <1>1, <1>4, <2>1, SubSeqProperties
<1>6. m = Len(piece) => some = piece
  BY SubSeqProperties
<1> HIDE DEF some
<1>7. Len(buf \o some) = Len(buf) + Len(some) /\ buf \o some \in Seq(Symbol)
  BY <1>5
<1> QED
  BY <1>1, <1>2, <1>3, <1>4, <1>5, <1>6, <1>7

----------------------------------------------------------------------------
(* printf and sprintf go over a format side by side.                        *)

Place   == [at : Nat \ {0}, text : Seq(Symbol)]
Fitting == {p \in Place : Len(p.text) <= SIZE - 1}
(* What sprintf wrote fits only if it is what printf wrote.                 *)
Agree(p, q) == p.at = q.at /\ (Len(q.text) < SIZE => p.text = q.text)

LEMMA FormatChars ==
    ASSUME NEW fmt \in Seq(STRING), NEW i \in 1..Len(fmt)
    PROVE  fmt[i] \in Symbol /\ <<fmt[i]>> \in Seq(Symbol) /\ <<"%", fmt[i]>> \in Seq(Symbol)
<1>1. STRING \subseteq Symbol /\ "%" \in Symbol
  BY DEF Symbol
<1>2. fmt[i] \in STRING
  OBVIOUS
<1>3. fmt[i] \in Symbol
  BY <1>1, <1>2
<1> QED
  BY <1>1, <1>3

LEMMA ConcatText ==
    ASSUME NEW s \in Seq(Symbol), NEW u \in Seq(Symbol)
    PROVE  s \o u \in Seq(Symbol) /\ Len(s \o u) = Len(s) + Len(u)
OBVIOUS

LEMMA PrintfTurn ==
    ASSUME NEW fmt \in Seq(STRING), NEW arg, Arg(arg),
           NEW p \in Fitting, NEW q \in Place, Agree(p, q)
    PROVE  /\ printf_turn(p, fmt, arg, SIZE) \in Fitting
           /\ sprintf_turn(q, fmt, arg) \in Place
           /\ Agree(printf_turn(p, fmt, arg, SIZE), sprintf_turn(q, fmt, arg))
<1> DEFINE m == printf_turn(p, fmt, arg, SIZE)
           o == sprintf_turn(q, fmt, arg)
<1>1. /\ p.at \in Nat \ {0} /\ p.text \in Seq(Symbol) /\ Len(p.text) \in Nat
      /\ Len(p.text) <= SIZE - 1 /\ q.at = p.at
      /\ q.text \in Seq(Symbol) /\ Len(q.text) \in Nat
      /\ SIZE \in Nat /\ Len(fmt) \in Nat /\ p \in Place
      /\ Len(q.text) < SIZE => p.text = q.text
  BY LibcAssumption DEF Fitting, Place, Agree
<1>2. CASE p.at > Len(fmt)
  BY <1>2, <1>1 DEF printf_turn, sprintf_turn
<1>3. ASSUME NEW k \in Nat \ {0}, NEW text \in Seq(Symbol), NEW piece \in Seq(Symbol),
             Len(text) <= SIZE - 1, Len(q.text) + Len(piece) < SIZE => text = q.text \o piece,
             m = [at |-> k, text |-> text], o = [at |-> k, text |-> q.text \o piece]
      PROVE  m \in Fitting /\ o \in Place /\ Agree(m, o)
  <2>1. q.text \o piece \in Seq(Symbol) /\ Len(q.text \o piece) = Len(q.text) + Len(piece)
    BY <1>1
  <2> HIDE DEF m, o
  <2>2. m \in Place /\ o \in Place
    BY <1>3, <2>1 DEF Place
  <2>3. m.at = k /\ m.text = text /\ o.at = k /\ o.text = q.text \o piece
    BY <1>3
  <2> QED
    BY <1>3, <2>1, <2>2, <2>3 DEF Fitting, Agree
<1>4. ASSUME NEW piece \in Seq(Symbol)
      PROVE  LET text == Filled(p.text, piece, SIZE) IN
             /\ text \in Seq(Symbol) /\ Len(text) <= SIZE - 1
             /\ Len(q.text) + Len(piece) < SIZE => text = q.text \o piece
  <2>1. Len(piece) \in Nat
    OBVIOUS
  <2>2. /\ Filled(p.text, piece, SIZE) \in Seq(Symbol)
        /\ Len(Filled(p.text, piece, SIZE)) <= SIZE - 1
        /\ Len(p.text) + Len(piece) < SIZE => Filled(p.text, piece, SIZE) = p.text \o piece
    BY <1>1, FilledIs
  <2>3. Len(q.text) + Len(piece) < SIZE => p.text = q.text
    BY <1>1, <2>1
  <2> QED
    BY <2>2, <2>3
<1>5. CASE ~(p.at > Len(fmt)) /\ ~Directive(fmt, p.at)
  <2> DEFINE piece == <<fmt[p.at]>>
  <2>1. piece \in Seq(Symbol) /\ p.at + 1 \in Nat \ {0}
    BY <1>1, <1>5, FormatChars
  <2>2. /\ m = [at |-> p.at + 1, text |-> Filled(p.text, piece, SIZE)]
        /\ o = [at |-> p.at + 1, text |-> q.text \o piece]
    BY <1>1, <1>5 DEF printf_turn, sprintf_turn
  <2> HIDE DEF piece, m, o
  <2>3. m \in Fitting /\ o \in Place /\ Agree(m, o)
    BY <1>3, <1>4, <2>1, <2>2
  <2> QED
    BY <2>3 DEF m, o
<1>6. CASE ~(p.at > Len(fmt)) /\ Directive(fmt, p.at) /\ fmt[p.at + 1] \in Known
  <2> DEFINE piece == Piece(fmt[p.at + 1], arg)
  <2>1. piece \in Seq(Symbol) /\ p.at + 2 \in Nat \ {0}
    BY <1>1, <1>6, PieceText
  <2>2. /\ m = [at |-> p.at + 2, text |-> Filled(p.text, piece, SIZE)]
        /\ o = [at |-> p.at + 2, text |-> q.text \o piece]
    BY <1>1, <1>6 DEF printf_turn, sprintf_turn
  <2> HIDE DEF piece, m, o
  <2>3. m \in Fitting /\ o \in Place /\ Agree(m, o)
    BY <1>3, <1>4, <2>1, <2>2
  <2> QED
    BY <2>3 DEF m, o
<1>7. CASE ~(p.at > Len(fmt)) /\ Directive(fmt, p.at) /\ fmt[p.at + 1] \notin Known
  <2> DEFINE piece == <<"%", fmt[p.at + 1]>>
             text == IF Len(p.text) < SIZE - 2 THEN p.text \o piece ELSE p.text
  <2>1. piece \in Seq(Symbol) /\ Len(piece) = 2 /\ p.at + 2 \in Nat \ {0}
    <3>1. p.at + 1 \in 1..Len(fmt)
      BY <1>1, <1>7 DEF Directive
    <3>2. piece \in Seq(Symbol)
      BY <3>1, FormatChars
    <3> QED
      BY <1>1, <3>2
  <2>2. /\ m = [at |-> p.at + 2, text |-> text]
        /\ o = [at |-> p.at + 2, text |-> q.text \o piece]
    BY <1>1, <1>7 DEF printf_turn, sprintf_turn
  <2> HIDE DEF piece, m, o
  <2>3. p.text \o piece \in Seq(Symbol) /\ Len(p.text \o piece) = Len(p.text) + 2
    <3>1. Len(p.text \o piece) = Len(p.text) + Len(piece) /\ p.text \o piece \in Seq(Symbol)
      BY <1>1, <2>1, ConcatText
    <3> QED
      BY <2>1, <3>1
  <2>4. /\ text \in Seq(Symbol) /\ Len(text) <= SIZE - 1
        /\ Len(q.text) + Len(piece) < SIZE => text = q.text \o piece
    <3>1. CASE Len(p.text) < SIZE - 2
      <4>1. text = p.text \o piece
        BY <3>1
      <4> HIDE DEF text
      <4>2. Len(q.text) + Len(piece) < SIZE => p.text = q.text
        BY <1>1, <2>1
      <4>3. Len(text) = Len(p.text) + 2 /\ text \in Seq(Symbol)
        BY <2>3, <4>1
      <4>4. Len(text) <= SIZE - 1
        BY <1>1, <3>1, <4>3
      <4>5. Len(q.text) + Len(piece) < SIZE => text = q.text \o piece
        BY <4>1, <4>2
      <4> QED
        BY <4>3, <4>4, <4>5
    <3>2. CASE ~(Len(p.text) < SIZE - 2)
      <4>1. ~(Len(q.text) + Len(piece) < SIZE)
        BY <1>1, <2>1, <3>2
      <4>2. text = p.text
        BY <3>2
      <4> HIDE DEF text
      <4> QED
        BY <1>1, <4>1, <4>2
    <3> QED
      BY <3>1, <3>2
  <2> HIDE DEF text
  <2>5. m \in Fitting /\ o \in Place /\ Agree(m, o)
    BY <1>3, <2>1, <2>2, <2>4
  <2> QED
    BY <2>5 DEF m, o
<1> QED
  BY <1>2, <1>5, <1>6, <1>7, <1>1 DEF Agree

LEMMA SprintfTurn ==
    ASSUME NEW fmt \in Seq(STRING), NEW arg, Arg(arg), NEW q \in Place
    PROVE  sprintf_turn(q, fmt, arg) \in Place
<1> DEFINE p == [at |-> q.at, text |-> IF Len(q.text) < SIZE THEN q.text ELSE << >>]
<1>1. q.at \in Nat \ {0} /\ q.text \in Seq(Symbol) /\ Len(q.text) \in Nat /\ SIZE \in Nat \ {0}
  BY LibcAssumption DEF Place
<1>2. p \in Fitting
  BY <1>1 DEF Fitting, Place
<1>3. Agree(p, q)
  BY DEF Agree
<1> HIDE DEF p
<1> QED
  BY <1>2, <1>3, PrintfTurn

(* The whole loop of sprintf, turn by turn.                                 *)
SprintfRuns(w, fmt, arg) ==
    /\ w \in [0..Len(fmt) -> Place] /\ w[0] = Begin
    /\ \A n \in 1..Len(fmt) : w[n] = sprintf_turn(w[n - 1], fmt, arg)
    /\ sprintf(fmt, arg) = w[Len(fmt)].text

LEMMA SprintfRunsExist ==
    ASSUME NEW fmt \in Seq(STRING), NEW arg, Arg(arg)
    PROVE  \E w : SprintfRuns(w, fmt, arg)
<1> DEFINE L == Len(fmt)
           Step(x) == sprintf_turn(x, fmt, arg)
           Loop(w) == [k \in 0..L |-> IF k = 0 THEN Begin ELSE Step(w[k - 1])]
           F == [x \in Place |-> Step(x)]
           turn == CHOOSE w : w = Loop(w)
<1>1. F \in [Place -> Place] /\ \A x \in Place : F[x] = Step(x)
  BY SprintfTurn
<1>2. sprintf(fmt, arg) = turn[L].text
  BY DEF sprintf
<1>3. L \in Nat /\ Begin \in Place
  BY LibcAssumption DEF Begin, Place, Fitting
<1> HIDE DEF F, Step
<1>4. PICK g : Iterates(g, L, Place, F, Begin)
  BY <1>1, <1>3, LoopsIterate
<1>5. g \in [0..L -> Place] /\ g[0] = Begin /\ \A n \in 1..L : g[n] = Step(g[n - 1])
  <2>1. \A n \in 1..L : n - 1 \in 0..L
    BY <1>3
  <2> QED
    BY <1>1, <1>4, <2>1 DEF Iterates
<1>6. g = Loop(g)
  <2>1. ASSUME NEW k \in 0..L PROVE g[k] = IF k = 0 THEN Begin ELSE Step(g[k - 1])
    BY <1>3, <1>5
  <2> QED
    BY <1>5, <2>1
<1>7. turn = Loop(turn)
  BY <1>6
<1> HIDE DEF turn
<1>8. turn[0] = Begin /\ \A n \in 1..L : turn[n] = Step(turn[n - 1])
  <2>1. \A k \in 0..L : turn[k] = IF k = 0 THEN Begin ELSE Step(turn[k - 1])
    BY <1>7
  <2> QED
    BY <1>3, <2>1
<1>9. turn[L] = g[L]
  <2>1. \A n \in 1..L : turn[n - 1] = g[n - 1] => turn[n] = g[n]
    BY <1>5, <1>8
  <2>2. turn[0] = g[0]
    BY <1>5, <1>8
  <2>3. \A n \in 0..L : turn[n] = g[n]
    BY ONLY <1>3, <2>1, <2>2, SameTurns
  <2> QED
    BY <1>3, <2>3
<1>10. SprintfRuns(g, fmt, arg)
  BY <1>2, <1>5, <1>9 DEF SprintfRuns, Step
<1> QED
  BY <1>10

(* And that of printf.                                                      *)
PrintfRuns(w, fmt, arg) ==
    /\ w \in [0..Len(fmt) -> Fitting] /\ w[0] = Begin
    /\ \A n \in 1..Len(fmt) : w[n] = printf_turn(w[n - 1], fmt, arg, SIZE)
    /\ Formatted(fmt, arg, SIZE) = w[Len(fmt)].text

LEMMA PrintfRunsExist ==
    ASSUME NEW fmt \in Seq(STRING), NEW arg, Arg(arg)
    PROVE  \E w : PrintfRuns(w, fmt, arg)
<1> DEFINE L == Len(fmt)
           Step(x) == printf_turn(x, fmt, arg, SIZE)
           Loop(w) == [k \in 0..L |-> IF k = 0 THEN Begin ELSE Step(w[k - 1])]
           F == [x \in Fitting |-> Step(x)]
           turn == CHOOSE w : w = Loop(w)
<1>1. F \in [Fitting -> Fitting] /\ \A x \in Fitting : F[x] = Step(x)
  <2>1. \A p \in Fitting : p \in Place /\ Agree(p, p)
    BY DEF Fitting, Agree
  <2>2. \A p \in Fitting : printf_turn(p, fmt, arg, SIZE) \in Fitting
    BY <2>1, PrintfTurn
  <2> QED
    BY <2>2
<1>2. Formatted(fmt, arg, SIZE) = turn[L].text
  BY DEF Formatted
<1>3. L \in Nat /\ Begin \in Fitting
  BY LibcAssumption DEF Begin, Place, Fitting
<1> HIDE DEF F, Step
<1>4. PICK g : Iterates(g, L, Fitting, F, Begin)
  BY <1>1, <1>3, LoopsIterate
<1>5. g \in [0..L -> Fitting] /\ g[0] = Begin /\ \A n \in 1..L : g[n] = Step(g[n - 1])
  <2>1. \A n \in 1..L : n - 1 \in 0..L
    BY <1>3
  <2> QED
    BY <1>1, <1>4, <2>1 DEF Iterates
<1>6. g = Loop(g)
  <2>1. ASSUME NEW k \in 0..L PROVE g[k] = IF k = 0 THEN Begin ELSE Step(g[k - 1])
    BY <1>3, <1>5
  <2> QED
    BY <1>5, <2>1
<1>7. turn = Loop(turn)
  BY <1>6
<1> HIDE DEF turn
<1>8. turn[0] = Begin /\ \A n \in 1..L : turn[n] = Step(turn[n - 1])
  <2>1. \A k \in 0..L : turn[k] = IF k = 0 THEN Begin ELSE Step(turn[k - 1])
    BY <1>7
  <2> QED
    BY <1>3, <2>1
<1>9. turn[L] = g[L]
  <2>1. \A n \in 1..L : turn[n - 1] = g[n - 1] => turn[n] = g[n]
    BY <1>5, <1>8
  <2>2. turn[0] = g[0]
    BY <1>5, <1>8
  <2>3. \A n \in 0..L : turn[n] = g[n]
    BY ONLY <1>3, <2>1, <2>2, SameTurns
  <2> QED
    BY <1>3, <2>3
<1>10. PrintfRuns(g, fmt, arg)
  BY <1>2, <1>5, <1>9 DEF PrintfRuns, Step
<1> QED
  BY <1>10

LEMMA FormattedFits ==
    ASSUME NEW fmt \in Seq(STRING), NEW arg, Arg(arg)
    PROVE  /\ Len(Formatted(fmt, arg, SIZE)) < SIZE
           /\ Len(sprintf(fmt, arg)) < SIZE => Formatted(fmt, arg, SIZE) = sprintf(fmt, arg)
<1>1. PICK q : SprintfRuns(q, fmt, arg)
  BY SprintfRunsExist
<1>2. PICK p : PrintfRuns(p, fmt, arg)
  BY PrintfRunsExist
<1> DEFINE L == Len(fmt)
           T == {n \in Nat : n <= L => Agree(p[n], q[n])}
<1>3. /\ L \in Nat /\ \A n \in 1..L : n - 1 \in 0..L
      /\ p \in [0..L -> Fitting] /\ p[0] = Begin /\ q \in [0..L -> Place] /\ q[0] = Begin
      /\ \A n \in 1..L : q[n] = sprintf_turn(q[n - 1], fmt, arg)
      /\ \A n \in 1..L : p[n] = printf_turn(p[n - 1], fmt, arg, SIZE)
      /\ sprintf(fmt, arg) = q[L].text /\ Formatted(fmt, arg, SIZE) = p[L].text
  BY <1>1, <1>2 DEF SprintfRuns, PrintfRuns
<1>4. 0 \in T
  BY <1>3 DEF Agree
<1>5. ASSUME NEW n \in Nat, n \in T PROVE n + 1 \in T
  <2> SUFFICES ASSUME n + 1 <= L PROVE Agree(p[n + 1], q[n + 1])
    OBVIOUS
  <2>1. n <= L /\ n \in 0..L /\ n + 1 \in 1..L /\ (n + 1) - 1 = n
    BY <1>3
  <2>2. p[n] \in Fitting /\ q[n] \in Place /\ Agree(p[n], q[n])
    BY <1>3, <1>5, <2>1
  <2>3. p[n + 1] = printf_turn(p[n], fmt, arg, SIZE) /\ q[n + 1] = sprintf_turn(q[n], fmt, arg)
    BY <1>3, <2>1
  <2> QED
    BY <2>2, <2>3, PrintfTurn
<1> HIDE DEF T
<1>6. L \in T
  BY <1>3, <1>4, <1>5, NumbersFromNought
<1>7. Agree(p[L], q[L]) /\ p[L] \in Fitting
  BY <1>3, <1>6 DEF T
<1> QED
  BY <1>3, <1>7, LibcAssumption DEF Agree, Fitting, Place

----------------------------------------------------------------------------
(* printk goes over a format as sprintf does.                               *)

(* Formats that the two read the same way.                                  *)
Shared(fmt) == ToSet(fmt) \cap {"l", "i"} = {} /\ Last(<<"a">> \o fmt) # "%"

LEMMA SharedChars ==
    ASSUME NEW fmt \in Seq(STRING), Shared(fmt)
    PROVE  \A i \in 1..Len(fmt) : /\ fmt[i] \notin {"l", "i"}
                                  /\ fmt[i] = "%" => i < Len(fmt)
<1> SUFFICES ASSUME NEW i \in 1..Len(fmt)
             PROVE  fmt[i] \notin {"l", "i"} /\ (fmt[i] = "%" => i < Len(fmt))
  OBVIOUS
<1>1. Len(fmt) \in Nat /\ DOMAIN fmt = 1..Len(fmt)
  OBVIOUS
<1>2. fmt[i] \in ToSet(fmt)
  BY <1>1 DEF ToSet
<1>3. Last(<<"a">> \o fmt) = fmt[Len(fmt)]
  <2> DEFINE a == <<"a">>
             s == a \o fmt
  <2>1. a \in Seq({"a"} \cup STRING) /\ fmt \in Seq({"a"} \cup STRING) /\ Len(a) = 1
    <3>1. fmt \in Seq({"a"} \cup STRING)
      BY SeqMonotonic, STRING \subseteq {"a"} \cup STRING
    <3> QED
      BY <3>1
  <2> HIDE DEF a
  <2>2. Len(s) = 1 + Len(fmt) /\ \A k \in 1..(1 + Len(fmt)) : s[k] = IF k <= 1 THEN a[k] ELSE fmt[k - 1]
    <3>1. /\ Len(s) = Len(a) + Len(fmt)
          /\ \A k \in 1..(Len(a) + Len(fmt)) : s[k] = IF k <= Len(a) THEN a[k] ELSE fmt[k - Len(a)]
      BY ONLY <2>1, ConcatProperties, Zenon
    <3> QED
      BY <2>1, <3>1
  <2>3. 1 + Len(fmt) \in 1..(1 + Len(fmt)) /\ ~(1 + Len(fmt) <= 1) /\ (1 + Len(fmt)) - 1 = Len(fmt)
    BY <1>1
  <2>4. s[Len(s)] = fmt[Len(fmt)]
    BY <2>2, <2>3
  <2> QED
    BY <2>4 DEF Last, a
<1>4. fmt[i] = "%" => i # Len(fmt)
  BY <1>3 DEF Shared
<1>5. fmt[i] \notin {"l", "i"}
  BY <1>2 DEF Shared
<1>6. i # Len(fmt) => i < Len(fmt)
  <2>1. Len(fmt) \in Nat /\ i \in Nat /\ i <= Len(fmt)
    OBVIOUS
  <2> QED
    BY <2>1
<1> QED
  BY <1>4, <1>5, <1>6

(* Turns of print_num's loop, which stops sooner than Numeral's for 0.      *)
Undone(w, num, base) == w = [k \in 0..WIDTH |-> IF k = 0 THEN num ELSE w[k - 1] \div base]

LEMMA LeftIs ==
    ASSUME NEW num \in 1..(ULONG - 1), NEW base \in {10, 16}, NEW n, NEW r,
           Divided(num, base, n, r), NEW left, Undone(left, num, base)
    PROVE  /\ \A k \in 0..n : left[k] = r[k] /\ left[k] \in Nat
           /\ {k \in 0..WIDTH : left[k] > 0} = 0..(n - 1)
<1>1. /\ n \in Nat \ {0} /\ n <= WIDTH /\ r \in [0..n -> Int] /\ r[0] = num /\ r[n] = 0
      /\ \A k \in 1..n : r[k] = Quotient(r[k - 1], base)
      /\ \A k \in 1..n : k < n => r[k] # 0
  BY DEF Divided
<1>2. WIDTH \in Nat \ {0} /\ base \in 2..36 /\ num \in Nat /\ num # 0
  BY PowerIs
<1>3. left[0] = num /\ \A k \in 1..WIDTH : left[k] = left[k - 1] \div base
  <2>1. \A k \in 0..WIDTH : left[k] = IF k = 0 THEN num ELSE left[k - 1] \div base
    BY DEF Undone
  <2> QED
    BY <1>2, <2>1
<1>4. ASSUME NEW x \in Nat PROVE Quotient(x, base) = x \div base /\ x \div base \in Nat
  BY <1>2 DEF Quotient
<1>5. \A k \in 0..n : left[k] = r[k] /\ left[k] \in Nat
  <2> DEFINE T == {k \in Nat : k <= n => left[k] = r[k] /\ left[k] \in Nat}
  <2>1. 0 \in T
    BY <1>1, <1>2, <1>3
  <2>2. ASSUME NEW k \in Nat, k \in T PROVE k + 1 \in T
    <3> SUFFICES ASSUME k + 1 <= n PROVE left[k + 1] = r[k + 1] /\ left[k + 1] \in Nat
      OBVIOUS
    <3>1. k + 1 \in 1..n /\ k + 1 \in 1..WIDTH /\ (k + 1) - 1 = k /\ k <= n
      BY <1>1, <1>2
    <3>2. left[k + 1] = left[k] \div base /\ r[k + 1] = Quotient(r[k], base)
      BY <1>1, <1>3, <3>1
    <3>3. left[k] = r[k] /\ left[k] \in Nat
      BY <2>2, <3>1
    <3> QED
      BY <1>4, <3>2, <3>3
  <2> HIDE DEF T
  <2>3. \A k \in Nat : k \in T
    BY <2>1, <2>2, NumbersFromNought
  <2> QED
    BY <1>1, <2>3 DEF T
<1>6. \A k \in n..WIDTH : left[k] = 0
  <2> DEFINE T == {j \in Nat : n + j <= WIDTH => left[n + j] = 0}
  <2>1. 0 \in T
    BY <1>1, <1>5
  <2>2. ASSUME NEW j \in Nat, j \in T PROVE j + 1 \in T
    <3> SUFFICES ASSUME n + (j + 1) <= WIDTH PROVE left[n + (j + 1)] = 0
      OBVIOUS
    <3>1. n + (j + 1) \in 1..WIDTH /\ (n + (j + 1)) - 1 = n + j /\ n + j <= WIDTH
      BY <1>1, <1>2
    <3>2. left[n + (j + 1)] = left[n + j] \div base /\ left[n + j] = 0
      BY <1>3, <2>2, <3>1
    <3>3. 0 \div base = 0
      BY <1>2
    <3> QED
      BY <3>2, <3>3
  <2> HIDE DEF T
  <2>3. \A j \in Nat : j \in T
    BY <2>1, <2>2, NumbersFromNought
  <2>4. ASSUME NEW k \in n..WIDTH PROVE left[k] = 0
    <3>1. k - n \in Nat /\ n + (k - n) = k /\ n + (k - n) <= WIDTH
      BY <1>1, <1>2
    <3> QED
      BY <2>3, <3>1 DEF T
  <2> QED
    BY <2>4
<1>7. ASSUME NEW k \in 0..WIDTH PROVE left[k] > 0 <=> k \in 0..(n - 1)
  <2>1. CASE k = 0
    BY <1>1, <1>2, <1>3, <2>1
  <2>2. CASE k \in 1..n /\ k < n
    <3>1. left[k] # 0 /\ left[k] \in Nat
      BY <1>1, <1>5, <2>2
    <3> QED
      BY <1>1, <2>2, <3>1
  <2>3. CASE k >= n
    <3>1. left[k] = 0
      BY <1>1, <1>2, <1>6, <2>3
    <3> QED
      BY <1>1, <2>3, <3>1
  <2> QED
    BY <1>1, <1>2, <2>1, <2>2, <2>3
<1>8. 0..(n - 1) \subseteq 0..WIDTH
  BY <1>1, <1>2
<1> QED
  BY <1>5, <1>7, <1>8

LEMMA BufIs ==
    ASSUME NEW num \in 1..(ULONG - 1), NEW base \in {10, 16}
    PROVE  Buf(num, base) = Numeral(num, base)
<1> DEFINE left == CHOOSE w : Undone(w, num, base)
           i == Cardinality({k \in 0..WIDTH : left[k] > 0})
           F == [x \in Nat |-> x \div base]
<1>1. num \in Nat /\ num \in Int /\ -ULONG < num /\ num < ULONG /\ base \in 2..36 /\ WIDTH \in Nat
  BY PowerIs
<1>2. PICK n, r : Divided(num, base, n, r)
  BY <1>1, NumeralIs
<1>3. Undone(left, num, base)
  <2>1. F \in [Nat -> Nat] /\ \A x \in Nat : F[x] = x \div base
    BY <1>1
  <2> HIDE DEF F
  <2>2. PICK g : Iterates(g, WIDTH, Nat, F, num)
    BY <1>1, <2>1, LoopsIterate
  <2>3. g \in [0..WIDTH -> Nat] /\ g[0] = num /\ \A k \in 1..WIDTH : g[k] = g[k - 1] \div base
    <3>1. \A k \in 1..WIDTH : k - 1 \in 0..WIDTH
      BY <1>1
    <3> QED
      BY <2>1, <2>2, <3>1 DEF Iterates
  <2>4. \A k \in 0..WIDTH : g[k] = IF k = 0 THEN num ELSE g[k - 1] \div base
    BY <1>1, <2>3
  <2>5. Undone(g, num, base)
    BY <2>3, <2>4 DEF Undone
  <2> QED
    BY <2>5
<1>4. Buf(num, base) = [k \in 1..i |-> Digits[1 + (left[i - k] % base)]]
  BY DEF Buf, Undone
<1> HIDE DEF left
<1>5. n \in Nat \ {0} /\ \A k \in 1..n : r[k] = Quotient(r[k - 1], base)
  BY <1>2 DEF Divided
<1>6. \A k \in 0..n : left[k] = r[k] /\ left[k] \in Nat
  BY <1>2, <1>3, LeftIs
<1>7. i = n
  <2>1. {k \in 0..WIDTH : left[k] > 0} = 0..(n - 1)
    BY <1>2, <1>3, LeftIs
  <2>2. Cardinality(0..(n - 1)) = n
    BY <1>5, FS_Interval
  <2> QED
    BY <2>1, <2>2
<1> HIDE DEF i
<1>8. ASSUME NEW k \in 1..n
      PROVE  Digit(r[n - k] - r[n - k + 1] * base) = Digits[1 + (left[n - k] % base)]
  <2>1. n - k \in 0..n /\ n - k + 1 \in 1..n /\ (n - k + 1) - 1 = n - k
    BY <1>5
  <2> DEFINE x == left[n - k]
  <2>2. x \in Nat /\ r[n - k] = x /\ r[n - k + 1] = x \div base
    BY <1>1, <1>5, <1>6, <2>1 DEF Quotient
  <2> HIDE DEF x
  <2>3. x - (x \div base) * base = x % base /\ x % base >= 0 /\ 1 + (x % base) = (x % base) + 1
    <3>1. base \in Nat \ {0}
      BY <1>1
    <3>2. x = base * (x \div base) + (x % base) /\ x \div base \in Int /\ x % base \in Nat
      BY <2>2, <3>1
    <3> QED
      BY <2>2, <3>2
  <2>4. Digit(x % base) = Digits[1 + (x % base)]
    <3> DEFINE m == x % base
    <3>1. m >= 0 /\ 1 + m = m + 1 /\ m \in Int
      BY <1>1, <2>2, <2>3
    <3> HIDE DEF m
    <3>2. ~(m < 0)
      BY <3>1
    <3>3. Digit(m) = Digits[1 + m]
      BY <3>1, <3>2, Zenon DEF Digit
    <3> QED
      BY <3>3 DEF m
  <2> QED
    BY <2>2, <2>3, <2>4 DEF x
<1>9. Numeral(num, base) = [k \in 1..n |-> Digit(r[n - k] - r[n - k + 1] * base)]
  BY <1>2 DEF Divided
<1> QED
  BY <1>4, <1>7, <1>8, <1>9

LEMMA ZeroIs ==
    ASSUME NEW base \in {10, 16}
    PROVE  Numeral(0, base) = <<"0">>
<1>1. 0 \in Int /\ -ULONG < 0 /\ 0 < ULONG /\ base \in 2..36
  BY IntFacts
<1>2. PICK n, r : Divided(0, base, n, r)
  BY <1>1, NumeralIs
<1>3. /\ n \in Nat \ {0} /\ r \in [0..n -> Int] /\ r[0] = 0 /\ r[n] = 0
      /\ \A k \in 1..n : r[k] = Quotient(r[k - 1], base)
      /\ \A k \in 1..n : k < n => r[k] # 0
      /\ Numeral(0, base) = [i \in 1..n |-> Digit(r[n - i] - r[n - i + 1] * base)]
  BY <1>2 DEF Divided
<1>4. n = 1
  <2>1. 1 \in 1..n /\ 1 - 1 = 0
    BY <1>3
  <2>2. r[1] = Quotient(0, base) /\ Quotient(0, base) = 0
    <3>1. r[1] = Quotient(r[1 - 1], base)
      BY <1>3, <2>1
    <3>2. r[1] = Quotient(0, base)
      BY <1>3, <2>1, <3>1
    <3> QED
      BY <1>1, <3>2, QuotientIs
  <2> QED
    BY <1>3, <2>1, <2>2
<1>5. ASSUME NEW i \in 1..1 PROVE Digit(r[n - i] - r[n - i + 1] * base) = "0"
  <2>1. i = 1 /\ n - i = 0 /\ n - i + 1 = 1
    BY <1>4
  <2>2. r[0] = 0 /\ r[1] = 0
    BY <1>3, <1>4
  <2>3. 0 - 0 * base = 0
    BY <1>1
  <2>4. Digit(0) = Digits[0 + 1]
    BY DEF Digit
  <2>5. Digit(0) = "0"
    BY <2>4 DEF Digits
  <2> QED
    BY <2>1, <2>2, <2>3, <2>5
<1>6. Numeral(0, base) = [i \in 1..1 |-> "0"]
  BY <1>3, <1>4, <1>5
<1> QED
  BY <1>6

(* The number that takes the place of d, as far as the format prints it.    *)
Printed(fmt, d, number) ==
    /\ "d" \in ToSet(fmt) => d % ULONG = number
    /\ "x" \in ToSet(fmt) => (d % UINT) % ULONG = number

LEMMA Unsigned ==
    ASSUME NEW d \in IntMin..INT_MAX
    PROVE  /\ d % ULONG \in 0..(ULONG - 1)
           /\ d % UINT \in 0..(ULONG - 1) /\ (d % UINT) % ULONG = d % UINT
           /\ d >= 0 => d \in 0..(ULONG - 1) /\ d % ULONG = d /\ (d % UINT) % ULONG = d
<1>1. d \in Int /\ ULONG \in Nat \ {0} /\ UINT \in Nat \ {0} /\ UINT <= ULONG
  BY IntFacts
<1>2. ASSUME NEW m \in Nat \ {0}
      PROVE  d % m \in 0..(m - 1) /\ (d >= 0 /\ d < m => d % m = d)
  BY <1>1, <1>2
<1>3. ASSUME NEW e \in 0..(ULONG - 1) PROVE e % ULONG = e
  BY <1>1, <1>3
<1>4. d % ULONG \in 0..(ULONG - 1) /\ d % UINT \in 0..(UINT - 1)
  BY <1>1, <1>2
<1>5. d % UINT \in 0..(ULONG - 1)
  BY <1>1, <1>4
<1>6. d >= 0 => d < UINT /\ d < ULONG
  BY IntFacts
<1>7. d >= 0 => d % ULONG = d /\ d % UINT = d /\ d \in 0..(ULONG - 1)
  BY <1>1, <1>2, <1>6
<1> QED
  BY <1>3, <1>4, <1>5, <1>7

LEMMA PrintNumIs ==
    ASSUME NEW num \in Int, NEW base \in {10, 16}
    PROVE  print_num(num, base) = Signed(num % ULONG, base)
<1> DEFINE n == num % ULONG
<1>1. ULONG \in Nat \ {0}
  BY IntFacts
<1>2. n \in 0..(ULONG - 1)
  BY <1>1
<1> HIDE DEF n
<1>3. n \in Nat /\ Signed(n, base) = Numeral(n, base)
  BY <1>1, <1>2 DEF Signed
<1>4. print_num(num, base) = IF n = 0 THEN <<"0">> ELSE Buf(n, base)
  BY DEF print_num, n
<1>5. CASE n = 0
  BY <1>3, <1>4, <1>5, ZeroIs DEF n
<1>6. CASE n # 0
  <2>1. n \in 1..(ULONG - 1)
    BY <1>1, <1>2, <1>6
  <2> QED
    BY <1>3, <1>4, <1>6, <2>1, BufIs DEF n
<1> QED
  BY <1>5, <1>6

LEMMA PrintkTurn ==
    ASSUME NEW fmt \in Seq(STRING), Shared(fmt), NEW arg, arg.d \in Int,
           NEW old, Arg(old), old.s = arg.s, old.c = arg.c, Printed(fmt, arg.d, old.d),
           NEW q \in Place
    PROVE  printk_turn(q, fmt, arg) = sprintf_turn(q, fmt, old)
<1> DEFINE next == fmt[q.at + 1]
<1>1. q.at \in Nat \ {0} /\ Len(fmt) \in Nat
  BY DEF Place
<1>2. CASE q.at > Len(fmt)
  BY <1>2 DEF printk_turn, sprintf_turn
<1>3. CASE ~(q.at > Len(fmt)) /\ fmt[q.at] # "%"
  BY <1>3 DEF printk_turn, sprintf_turn, Directive
<1>4. CASE ~(q.at > Len(fmt)) /\ fmt[q.at] = "%"
  <2>1. q.at < Len(fmt) /\ q.at + 1 \in 1..Len(fmt) /\ Directive(fmt, q.at)
    BY <1>1, <1>4, SharedChars DEF Directive
  <2>2. next \notin {"l", "i"} /\ next \in ToSet(fmt)
    BY <2>1, SharedChars DEF ToSet
  <2> DEFINE New == CASE next \in {"d", "i"} -> print_num(arg.d, 10)
                      [] next = "x" -> print_num(arg.d % UINT, 16)
                      [] next \in {"s", "c", "%"} -> Piece(next, arg)
                      [] OTHER -> <<"%", next>>
             Old == IF next \in Known THEN Piece(next, old) ELSE <<"%", next>>
  <2>3. printk_turn(q, fmt, arg) = [at |-> q.at + 2, text |-> q.text \o New]
    BY <1>4, <2>2 DEF printk_turn
  <2>4. sprintf_turn(q, fmt, old) = [at |-> q.at + 2, text |-> q.text \o Old]
    BY <1>4, <2>1 DEF sprintf_turn
  <2>5. New = Old
    <3> HIDE DEF next
    <3>1. CASE next = "d"
      <4>1. print_num(arg.d, 10) = Signed(old.d, 10)
        BY <2>2, <3>1, PrintNumIs, 10 \in {10, 16} DEF Printed
      <4> QED
        BY <3>1, <4>1 DEF Piece, Known
    <3>2. CASE next = "x"
      <4>1. arg.d % UINT \in Int
        <5>1. UINT \in Nat \ {0}
          BY IntFacts
        <5> QED
          BY <5>1
      <4>2. print_num(arg.d % UINT, 16) = Signed(old.d, 16)
        BY <2>2, <3>2, <4>1, PrintNumIs, 16 \in {10, 16} DEF Printed
      <4> QED
        BY <3>2, <4>2 DEF Piece, Known
    <3>3. CASE next \in {"s", "c", "%"}
      BY <3>3 DEF Known, Piece
    <3>4. CASE next \notin Known
      BY <2>2, <3>4 DEF Known
    <3> QED
      BY <3>1, <3>2, <3>3, <3>4 DEF Known
  <2> HIDE DEF New, Old
  <2> QED
    BY <2>3, <2>4, <2>5
<1> QED
  BY <1>2, <1>3, <1>4

LEMMA PrintkIs ==
    ASSUME NEW fmt \in Seq(STRING), Shared(fmt), NEW arg, arg.d \in Int,
           NEW old, Arg(old), old.s = arg.s, old.c = arg.c, Printed(fmt, arg.d, old.d)
    PROVE  printk(fmt, arg) = sprintf(fmt, old)
<1>1. PICK g : SprintfRuns(g, fmt, old)
  BY SprintfRunsExist
<1> DEFINE L == Len(fmt)
           Step(x) == printk_turn(x, fmt, arg)
           Loop(w) == [k \in 0..L |-> IF k = 0 THEN Begin ELSE Step(w[k - 1])]
           turn == CHOOSE w : w = Loop(w)
<1>2. printk(fmt, arg) = turn[L].text
  BY DEF printk
<1>3. L \in Nat
  OBVIOUS
<1>4. /\ g \in [0..L -> Place] /\ g[0] = Begin /\ sprintf(fmt, old) = g[L].text
      /\ \A n \in 1..L : g[n] = sprintf_turn(g[n - 1], fmt, old)
  BY <1>1 DEF SprintfRuns
<1>5. ASSUME NEW n \in 1..L PROVE g[n] = Step(g[n - 1])
  <2>1. g[n - 1] \in Place
    BY <1>3, <1>4
  <2> QED
    BY <1>4, <2>1, PrintkTurn
<1> HIDE DEF Step
<1>6. g = Loop(g)
  <2>1. ASSUME NEW k \in 0..L PROVE g[k] = IF k = 0 THEN Begin ELSE Step(g[k - 1])
    BY <1>3, <1>4, <1>5
  <2> QED
    BY <1>4, <2>1
<1>7. turn = Loop(turn)
  BY <1>6
<1> HIDE DEF turn
<1>8. turn[0] = Begin /\ \A n \in 1..L : turn[n] = Step(turn[n - 1])
  <2>1. \A k \in 0..L : turn[k] = IF k = 0 THEN Begin ELSE Step(turn[k - 1])
    BY <1>7
  <2> QED
    BY <1>3, <2>1
<1>9. turn[L] = g[L]
  <2>1. \A n \in 1..L : turn[n - 1] = g[n - 1] => turn[n] = g[n]
    BY <1>5, <1>8
  <2>2. turn[0] = g[0]
    BY <1>4, <1>8
  <2>3. \A n \in 0..L : turn[n] = g[n]
    BY ONLY <1>3, <2>1, <2>2, SameTurns
  <2> QED
    BY <1>3, <2>3
<1> QED
  BY <1>2, <1>4, <1>9

----------------------------------------------------------------------------
(* A number is read back from its digits.                                   *)

(* What i digits of the text are worth is what n - i turns of the division  *)
(* left.                                                                    *)
Counted(s, v, base, n, r) ==
    /\ n \in Nat \ {0} /\ r \in [0..n -> 0..v] /\ r[0] = v /\ r[n] = 0
    /\ s \in [1..n -> {Digits[i] : i \in 1..base}]
    /\ \A i \in 1..n : r[n - i + 1] * base + Worth(s[i]) = r[n - i]

LEMMA NumeralDigits ==
    ASSUME NEW v \in 0..INT_MAX, NEW base \in 2..36, NEW n, NEW r, Divided(v, base, n, r)
    PROVE  Counted(Numeral(v, base), v, base, n, r)
<1>1. /\ n \in Nat \ {0} /\ r \in [0..n -> Int] /\ r[0] = v /\ r[n] = 0
      /\ \A k \in 1..n : r[k] = Quotient(r[k - 1], base)
      /\ Numeral(v, base) = [i \in 1..n |-> Digit(r[n - i] - r[n - i + 1] * base)]
  BY DEF Divided
<1>2. v \in Nat /\ INT_MAX \in Nat
  BY IntFacts
<1>3. ASSUME NEW x \in 0..v PROVE Quotient(x, base) \in 0..v
  <2>1. x \in Nat /\ x \in Int /\ Quotient(x, base) \in Int /\ Quotient(x, base) >= 0
    <3>1. x \in Nat /\ x \in Int /\ x >= 0
      BY <1>2
    <3>2. Quotient(x, base) \in Int /\ Quotient(x, base) >= 0
      BY <3>1, QuotientIs
    <3> QED
      BY <3>1, <3>2
  <2>2. CASE x = 0
    <3>1. Quotient(x, base) = 0
      BY <2>1, <2>2, QuotientIs
    <3> QED
      BY <1>2, <3>1
  <2>3. CASE x # 0
    <3>1. -2 * x < x /\ x < 2 * x
      BY <2>1, <2>3
    <3>2. Quotient(x, base) < x
      BY <2>1, <3>1, QuotientIs
    <3> QED
      BY <1>2, <2>1, <3>2
  <2> QED
    BY <2>2, <2>3
<1> DEFINE T == {k \in Nat : k <= n => r[k] \in 0..v}
<1>4. 0 \in T
  <2>1. v \in 0..v
    BY <1>2
  <2> QED
    BY <1>1, <2>1
<1>5. ASSUME NEW k \in Nat, k \in T PROVE k + 1 \in T
  <2> SUFFICES ASSUME k + 1 <= n PROVE r[k + 1] \in 0..v
    OBVIOUS
  <2>1. k <= n /\ k + 1 \in 1..n /\ (k + 1) - 1 = k
    BY <1>1
  <2>2. r[k] \in 0..v /\ r[k + 1] = Quotient(r[k], base)
    BY <1>1, <1>5, <2>1
  <2> QED
    BY <1>3, <2>2
<1> HIDE DEF T
<1>6. \A k \in Nat : k \in T
  BY <1>4, <1>5, NumbersFromNought
<1>7. r \in [0..n -> 0..v]
  <2>1. ASSUME NEW k \in 0..n PROVE r[k] \in 0..v
    <3>1. k \in Nat /\ k <= n
      BY <1>1
    <3> QED
      BY <1>6, <3>1 DEF T
  <2> QED
    BY <1>1, <2>1
<1>8. ASSUME NEW i \in 1..n
      PROVE  /\ r[n - i] - r[n - i + 1] * base \in 0..(base - 1)
             /\ r[n - i] \in Int /\ r[n - i + 1] * base \in Int
  <2>1. n - i \in 0..n /\ n - i + 1 \in 1..n /\ (n - i + 1) - 1 = n - i
    BY <1>1
  <2>2. r[n - i] \in 0..v /\ r[n - i] \in Int /\ r[n - i] >= 0 /\ r[n - i + 1] = Quotient(r[n - i], base)
    <3>1. r[n - i] \in 0..v
      BY <1>7, <2>1
    <3>2. r[n - i + 1] = Quotient(r[n - i], base)
      BY <1>1, <2>1
    <3> QED
      BY <1>2, <3>1, <3>2
  <2> DEFINE x == r[n - i]
  <2>3. x \in Int /\ x >= 0
    BY <2>2
  <2> HIDE DEF x
  <2>4. x - Quotient(x, base) * base \in 0..(base - 1) /\ Quotient(x, base) \in Int
    BY <2>3, QuotientIs
  <2>5. Quotient(x, base) * base \in Int
    <3> DEFINE q == Quotient(x, base)
    <3>1. q \in Int /\ base \in Int
      BY <2>4
    <3> HIDE DEF q
    <3>2. q * base \in Int
      BY <3>1
    <3> QED
      BY <3>2 DEF q
  <2> QED
    BY <2>2, <2>3, <2>4, <2>5 DEF x
<1>9. ASSUME NEW i \in 1..n
      PROVE  \E j \in 1..base : /\ Numeral(v, base)[i] = Digits[j]
                                /\ r[n - i + 1] * base + (j - 1) = r[n - i]
  <2> DEFINE d == r[n - i] - r[n - i + 1] * base
             b == r[n - i + 1] * base
  <2>1. Numeral(v, base)[i] = Digit(d)
    BY <1>1
  <2>2. d \in 0..(base - 1) /\ d = r[n - i] - b /\ b \in Int /\ r[n - i] \in Int
    BY <1>8
  <2> HIDE DEF d, b
  <2>3. d + 1 \in 1..base /\ ~(d < 0) /\ b + ((d + 1) - 1) = r[n - i]
    BY <2>2
  <2>4. Digit(d) = Digits[d + 1]
    BY <2>3 DEF Digit
  <2> QED
    BY <2>1, <2>3, <2>4 DEF b
<1>10. \A j \in 1..base : Worth(Digits[j]) = j - 1
  BY WorthIs
<1>11. Numeral(v, base) \in [1..n -> {Digits[i] : i \in 1..base}]
  BY <1>1, <1>9
<1>12. \A i \in 1..n : r[n - i + 1] * base + Worth(Numeral(v, base)[i]) = r[n - i]
  BY <1>9, <1>10
<1> QED
  BY <1>1, <1>7, <1>11, <1>12 DEF Counted

LEMMA ReadIs ==
    ASSUME NEW v \in 0..INT_MAX, NEW s, NEW n, NEW r, Counted(s, v, 10, n, r)
    PROVE  Read(s, n) = v
<1> DEFINE Loop(w) == [k \in 0..n |->
               IF k = 0 THEN 0 ELSE Wrapped(w[k - 1] * 10 + Worth(s[k]))]
           result == CHOOSE w : w = Loop(w)
           g == [k \in 0..n |-> r[n - k]]
<1>1. Read(s, n) = result[n]
  BY DEF Read
<1>2. /\ n \in Nat \ {0} /\ r \in [0..n -> 0..v] /\ r[0] = v /\ r[n] = 0
      /\ \A i \in 1..n : r[n - i + 1] * 10 + Worth(s[i]) = r[n - i]
  BY DEF Counted
<1>3. ASSUME NEW k \in 0..n PROVE g[k] = r[n - k] /\ Wrapped(r[n - k]) = r[n - k]
  <2>1. n - k \in 0..n
    BY <1>2
  <2>2. r[n - k] \in IntMin..INT_MAX
    BY <1>2, <2>1, IntFacts
  <2> QED
    BY <2>2, IntFacts
<1>4. g[0] = 0 /\ g[n] = v
  <2>1. n - 0 = n /\ n - n = 0 /\ 0 \in 0..n /\ n \in 0..n
    BY <1>2
  <2> QED
    BY <1>2, <1>3, <2>1
<1> HIDE DEF g
<1>5. \A k \in 1..n : g[k] = Wrapped(g[k - 1] * 10 + Worth(s[k]))
  <2>1. ASSUME NEW k \in 1..n PROVE g[k] = Wrapped(g[k - 1] * 10 + Worth(s[k]))
    <3>1. k \in 0..n /\ k - 1 \in 0..n /\ n - (k - 1) = n - k + 1
      BY <1>2
    <3>2. g[k - 1] = r[n - k + 1]
      BY <1>3, <3>1
    <3>3. g[k - 1] * 10 + Worth(s[k]) = r[n - k]
      BY <1>2, <3>2
    <3> QED
      BY <1>3, <3>1, <3>3
  <2> QED
    BY <2>1
<1>6. g = Loop(g)
  <2>1. ASSUME NEW k \in 0..n
        PROVE  g[k] = IF k = 0 THEN 0 ELSE Wrapped(g[k - 1] * 10 + Worth(s[k]))
    BY <1>2, <1>4, <1>5
  <2>2. g = [k \in 0..n |-> g[k]]
    BY DEF g
  <2> QED
    BY <2>1, <2>2
<1>7. result = Loop(result)
  BY <1>6
<1> HIDE DEF result
<1>8. result[0] = 0 /\ \A k \in 1..n : result[k] = Wrapped(result[k - 1] * 10 + Worth(s[k]))
  <2>1. \A k \in 0..n : result[k] = IF k = 0 THEN 0 ELSE Wrapped(result[k - 1] * 10 + Worth(s[k]))
    BY <1>7
  <2> QED
    BY <1>2, <2>1
<1>9. result[n] = g[n]
  <2>1. \A k \in 1..n : result[k - 1] = g[k - 1] => result[k] = g[k]
    BY <1>5, <1>8
  <2>2. result[0] = g[0] /\ n \in Nat
    BY <1>2, <1>4, <1>8
  <2>3. \A k \in 0..n : result[k] = g[k]
    BY ONLY <2>1, <2>2, SameTurns
  <2> QED
    BY <1>2, <2>3
<1> QED
  BY <1>1, <1>4, <1>9
LEMMA ValueIs ==
    ASSUME NEW v \in 0..INT_MAX, NEW base \in 2..36,
           NEW s, NEW n, NEW r, Counted(s, v, base, n, r), Len(s) = n
    PROVE  Value(s, base) = v
<1> DEFINE Plus(x, k) == x * base + Worth(s[k])
           Loop(w) == [k \in 0..n |-> IF k = 0 THEN 0 ELSE Plus(w[k - 1], k)]
           value == CHOOSE w : w = Loop(w)
           g == [k \in 0..n |-> r[n - k]]
<1>1. Value(s, base) = value[n]
  BY DEF Value
<1>2. /\ n \in Nat \ {0} /\ r \in [0..n -> 0..v] /\ r[0] = v /\ r[n] = 0
      /\ \A i \in 1..n : r[n - i + 1] * base + Worth(s[i]) = r[n - i]
  BY DEF Counted
<1>3. ASSUME NEW k \in 0..n PROVE g[k] = r[n - k]
  BY <1>2
<1>4. g[0] = 0 /\ g[n] = v
  <2>1. n - 0 = n /\ n - n = 0 /\ 0 \in 0..n /\ n \in 0..n
    BY <1>2
  <2> QED
    BY <1>2, <1>3, <2>1
<1> HIDE DEF g
<1>5. \A k \in 1..n : g[k] = Plus(g[k - 1], k)
  <2>1. ASSUME NEW k \in 1..n PROVE g[k] = Plus(g[k - 1], k)
    <3>1. k \in 0..n /\ k - 1 \in 0..n /\ n - (k - 1) = n - k + 1
      BY <1>2
    <3>2. g[k - 1] = r[n - k + 1]
      BY <1>3, <3>1
    <3>3. Plus(g[k - 1], k) = r[n - k]
      BY <1>2, <3>2
    <3> QED
      BY <1>3, <3>1, <3>3
  <2> QED
    BY <2>1
<1> HIDE DEF Plus
<1>6. g = Loop(g)
  <2>1. ASSUME NEW k \in 0..n
        PROVE  g[k] = IF k = 0 THEN 0 ELSE Plus(g[k - 1], k)
    BY <1>2, <1>4, <1>5
  <2>2. g = [k \in 0..n |-> g[k]]
    BY DEF g
  <2> QED
    BY <2>1, <2>2
<1>7. value = Loop(value)
  BY <1>6
<1> HIDE DEF value
<1>8. value[0] = 0 /\ \A k \in 1..n : value[k] = Plus(value[k - 1], k)
  <2>1. \A k \in 0..n : value[k] = IF k = 0 THEN 0 ELSE Plus(value[k - 1], k)
    BY <1>7
  <2> QED
    BY <1>2, <2>1
<1>9. value[n] = g[n]
  <2>1. \A k \in 1..n : value[k - 1] = g[k - 1] => value[k] = g[k]
    BY <1>5, <1>8
  <2>2. value[0] = g[0] /\ n \in Nat
    BY <1>2, <1>4, <1>8
  <2>3. \A k \in 0..n : value[k] = g[k]
    BY ONLY <2>1, <2>2, SameTurns
  <2> QED
    BY <1>2, <2>3
<1> QED
  BY <1>1, <1>4, <1>9

LEMMA AfterNone ==
    ASSUME NEW s \in Seq(Symbol)
    PROVE  After(s, 0) = s
BY SubSeqProperties DEF After

LEMMA DecimalText ==
    ASSUME NEW s, NEW n \in Nat \ {0}, s \in [1..n -> {Digits[i] : i \in 1..10}]
    PROVE  s \in Seq(Symbol) /\ Len(s) = n /\ \A i \in 1..n : s[i] \in Decimal
<1>1. \A i \in 1..10 : Digits[i] \in Symbol /\ Digits[i] \in Decimal
  <2>1. \A i \in 1..10 : i \in 1..36
    OBVIOUS
  <2> QED
    BY <2>1, DigitsAre, DecimalIs
<1>2. \A i \in 1..n : s[i] \in Symbol /\ s[i] \in Decimal
  BY <1>1
<1>3. s \in [1..n -> Symbol]
  BY <1>2
<1> QED
  BY <1>2, <1>3, SeqDef, LenProperties

LEMMA AtoiNumeral ==
    ASSUME NEW v \in 0..INT_MAX
    PROVE  /\ atoi(Numeral(v, 10)) = v
           /\ atoi(<<"-">> \o Numeral(v, 10)) = -v
<1> DEFINE t == Numeral(v, 10)
<1>1. v \in Int /\ -ULONG < v /\ v < ULONG /\ v \in IntMin..INT_MAX /\ -v \in IntMin..INT_MAX
  BY IntFacts
<1>2. PICK n, r : Divided(v, 10, n, r)
  BY <1>1, 10 \in 2..36, NumeralIs
<1>3. Counted(t, v, 10, n, r)
  BY <1>2, 10 \in 2..36, NumeralDigits
<1>4. Read(t, n) = v
  BY <1>3, ReadIs
<1> HIDE DEF t
<1>5. n \in Nat \ {0} /\ t \in Seq(Symbol) /\ Len(t) = n /\ \A i \in 1..n : t[i] \in Decimal
  BY <1>3, DecimalText DEF Counted
<1>6. Span(t, Decimal) = n
  BY <1>5, SpanIs
<1>7. atoi(t) = v
  <2>1. t[1] \in Decimal /\ Len(t) # 0
    BY <1>5
  <2>2. t[1] \notin Blanks /\ t[1] # "-" /\ t[1] # "+"
    BY <2>1, DecimalIs
  <2>3. Span(t, Blanks) = 0
    <3>1. 0 \in 0..Len(t) /\ t[0 + 1] \notin Blanks /\ \A i \in 1..0 : t[i] \in Blanks
      BY <1>5, <2>2
    <3> QED
      BY <1>5, <3>1, SpanIs
  <2>4. After(t, Span(t, Blanks)) = t
    BY <1>5, <2>3, AfterNone
  <2> QED
    BY <1>4, <1>6, <2>2, <2>4 DEF atoi
<1>8. atoi(<<"-">> \o t) = -v
  <2> DEFINE s == <<"-">> \o t
  <2>1. /\ s \in Seq(Symbol) /\ Len(s) = 1 + n /\ s[1] = "-" /\ Tail(s) = t
    <3>1. <<"-">> \in Seq(Symbol) /\ Len(<<"-">>) = 1
      BY DEF Symbol
    <3> QED
      BY <1>5, <3>1
  <2> HIDE DEF s
  <2>2. Span(s, Blanks) = 0
    <3>1. 0 \in 0..Len(s) /\ s[0 + 1] \notin Blanks /\ \A i \in 1..0 : s[i] \in Blanks
      BY <1>5, <2>1, DecimalIs
    <3> QED
      BY <1>5, <2>1, <3>1, SpanIs
  <2>3. After(s, Span(s, Blanks)) = s
    BY <2>1, <2>2, AfterNone
  <2>4. s # << >> /\ s[1] = "-"
    BY <1>5, <2>1
  <2>5. Wrapped(-v) = -v
    BY <1>1, IntFacts
  <2>6. atoi(s) = Wrapped(-v)
    BY <1>4, <1>6, <2>1, <2>3, <2>4 DEF atoi
  <2> QED
    BY <2>5, <2>6 DEF s
<1> QED
  BY <1>7, <1>8 DEF t

LEMMA ItoaReadBack ==
    ASSUME NEW value \in IntMin..INT_MAX, NEW base \in 2..36
    PROVE  /\ base = 10 /\ value # IntMin => atoi(itoa(value, base)) = value
           /\ value >= 0 => Value(itoa(value, base), base) = value
<1>1. itoa(value, base) = Signed(value, base)
  BY DEF itoa
<1>2. INT_MAX \in Nat /\ IntMin = -INT_MAX - 1 /\ value \in Int
  BY IntFacts
<1>3. ASSUME value >= 0
      PROVE  /\ Value(itoa(value, base), base) = value
             /\ base = 10 => atoi(itoa(value, base)) = value
  <2>1. value \in 0..INT_MAX /\ -ULONG < value /\ value < ULONG
    BY <1>2, <1>3, IntFacts
  <2>2. itoa(value, base) = Numeral(value, base)
    BY <1>1, <1>2, <1>3 DEF Signed
  <2>3. PICK n, r : Divided(value, base, n, r)
    BY <1>2, <2>1, NumeralIs
  <2>4. Counted(Numeral(value, base), value, base, n, r)
    BY <2>1, <2>3, NumeralDigits
  <2>5. Len(Numeral(value, base)) = n
    BY <2>4, LenProperties, SeqDef DEF Counted
  <2>6. Value(Numeral(value, base), base) = value
    BY <2>1, <2>4, <2>5, ValueIs
  <2>7. atoi(Numeral(value, 10)) = value
    BY <2>1, AtoiNumeral
  <2> QED
    BY <2>2, <2>6, <2>7
<1>4. ASSUME value < 0, value # IntMin, base = 10 PROVE atoi(itoa(value, base)) = value
  <2>1. -value \in 0..INT_MAX /\ -value \in IntMin..INT_MAX /\ -(-value) = value
    BY <1>2, <1>4
  <2>2. Wrapped(-value) = -value
    BY <2>1, IntFacts
  <2>3. itoa(value, base) = <<"-">> \o Numeral(-value, 10)
    BY <1>1, <1>4, <2>2 DEF Signed
  <2>4. atoi(<<"-">> \o Numeral(-value, 10)) = -(-value)
    BY <2>1, AtoiNumeral
  <2> QED
    BY <2>1, <2>3, <2>4
<1> QED
  BY <1>2, <1>3, <1>4

----------------------------------------------------------------------------
(* Addresses.                                                               *)

LEMMA MaxIs ==
    ASSUME NEW a \in Int, NEW b \in Int
    PROVE  Max({a, b}) = IF a >= b THEN a ELSE b
BY DEF Max

LEMMA BitIs ==
    ASSUME NEW x \in 0..255
    PROVE  /\ Bit(x, 1) = x % 2            /\ Bit(x, 2) = (x \div 2) % 2
           /\ Bit(x, 3) = (x \div 4) % 2   /\ Bit(x, 4) = (x \div 8) % 2
           /\ Bit(x, 5) = (x \div 16) % 2  /\ Bit(x, 6) = (x \div 32) % 2
           /\ Bit(x, 7) = (x \div 64) % 2  /\ Bit(x, 8) = (x \div 128) % 2
<1>1. x \in Int /\ x \div 1 = x
  OBVIOUS
<1> QED
  BY <1>1 DEF Bit

LEMMA BitsDiffer ==
    ASSUME NEW x \in 0..255, NEW y \in 0..255, \A i \in 1..8 : Bit(x, i) = Bit(y, i)
    PROVE  x = y
<1>1. x % 2 = y % 2 /\ (x \div 2) % 2 = (y \div 2) % 2 /\ (x \div 4) % 2 = (y \div 4) % 2
      /\ (x \div 8) % 2 = (y \div 8) % 2 /\ (x \div 16) % 2 = (y \div 16) % 2
      /\ (x \div 32) % 2 = (y \div 32) % 2 /\ (x \div 64) % 2 = (y \div 64) % 2
      /\ (x \div 128) % 2 = (y \div 128) % 2
  <2>1. /\ Bit(x, 1) = Bit(y, 1) /\ Bit(x, 2) = Bit(y, 2) /\ Bit(x, 3) = Bit(y, 3)
        /\ Bit(x, 4) = Bit(y, 4) /\ Bit(x, 5) = Bit(y, 5) /\ Bit(x, 6) = Bit(y, 6)
        /\ Bit(x, 7) = Bit(y, 7) /\ Bit(x, 8) = Bit(y, 8)
    OBVIOUS
  <2>2. /\ Bit(x, 1) = x % 2            /\ Bit(x, 2) = (x \div 2) % 2
        /\ Bit(x, 3) = (x \div 4) % 2   /\ Bit(x, 4) = (x \div 8) % 2
        /\ Bit(x, 5) = (x \div 16) % 2  /\ Bit(x, 6) = (x \div 32) % 2
        /\ Bit(x, 7) = (x \div 64) % 2  /\ Bit(x, 8) = (x \div 128) % 2
    BY BitIs
  <2>3. /\ Bit(y, 1) = y % 2            /\ Bit(y, 2) = (y \div 2) % 2
        /\ Bit(y, 3) = (y \div 4) % 2   /\ Bit(y, 4) = (y \div 8) % 2
        /\ Bit(y, 5) = (y \div 16) % 2  /\ Bit(y, 6) = (y \div 32) % 2
        /\ Bit(y, 7) = (y \div 64) % 2  /\ Bit(y, 8) = (y \div 128) % 2
    BY BitIs
  <2> QED
    BY <2>1, <2>2, <2>3
<1> DEFINE H(z) == /\ z = 2 * (z \div 2) + (z % 2)
                   /\ z \div 2 = 2 * (z \div 4) + ((z \div 2) % 2)
                   /\ z \div 4 = 2 * (z \div 8) + ((z \div 4) % 2)
                   /\ z \div 8 = 2 * (z \div 16) + ((z \div 8) % 2)
                   /\ z \div 16 = 2 * (z \div 32) + ((z \div 16) % 2)
                   /\ z \div 32 = 2 * (z \div 64) + ((z \div 32) % 2)
                   /\ z \div 64 = 2 * (z \div 128) + ((z \div 64) % 2)
                   /\ z \div 128 = (z \div 128) % 2
<1>2. H(x) /\ H(y)
  <2>1. \A z \in 0..255 : H(z)
    OBVIOUS
  <2> QED
    BY <2>1
<1>3. x \div 128 = y \div 128
  BY <1>1, <1>2
<1>4. x \div 64 = y \div 64
  BY <1>1, <1>2, <1>3
<1>5. x \div 32 = y \div 32
  BY <1>1, <1>2, <1>4
<1>6. x \div 16 = y \div 16
  BY <1>1, <1>2, <1>5
<1>7. x \div 8 = y \div 8
  BY <1>1, <1>2, <1>6
<1>8. x \div 4 = y \div 4
  BY <1>1, <1>2, <1>7
<1>9. x \div 2 = y \div 2
  BY <1>1, <1>2, <1>8
<1> QED
  BY <1>1, <1>2, <1>9

LEMMA OrNone ==
    ASSUME NEW m \in 0..255, NEW bytes, m \in bytes, bytes \subseteq {0, m}
    PROVE  Or(bytes) = m
<1> DEFINE n == IF 0 \in bytes THEN 0 ELSE m
<1>1. bytes = {m, n} /\ n \in {0, m}
  OBVIOUS
<1>2. n \in 0..255
  BY <1>1
<1> HIDE DEF n
<1>3. ASSUME NEW i \in 1..8
      PROVE  Bit(m, i) \in {0, 1} /\ Bit(n, i) \in {0, Bit(m, i)}
  <2>1. Bit(m, i) \in {0, 1}
    BY BitIs
  <2>2. Bit(0, i) = 0
    BY 0 \in 0..255, BitIs
  <2> QED
    BY <1>1, <2>1, <2>2
<1>4. ASSUME NEW i \in 1..8 PROVE Max({Bit(k, i) : k \in bytes}) = Bit(m, i)
  <2>1. {Bit(k, i) : k \in bytes} = {Bit(m, i), Bit(n, i)}
    BY <1>1
  <2>2. Bit(m, i) \in Int /\ Bit(n, i) \in Int /\ Bit(m, i) >= Bit(n, i)
    BY <1>3
  <2> QED
    BY <2>1, <2>2, MaxIs
<1> DEFINE P(x) == \A i \in 1..8 : Bit(x, i) = Max({Bit(k, i) : k \in bytes})
<1>5. P(m)
  BY <1>4
<1>6. ASSUME NEW x \in 0..255, P(x) PROVE x = m
  <2>1. \A i \in 1..8 : Bit(x, i) = Bit(m, i)
    BY <1>4, <1>6
  <2> QED
    BY <2>1, BitsDiffer
<1>7. Or(bytes) = CHOOSE x \in 0..255 : P(x)
  BY DEF Or
<1> HIDE DEF P
<1> QED
  BY <1>5, <1>6, <1>7

(* The parts of an address so far, and the texts that it may be.            *)
Some(parts) == parts \in Seq(Int) /\ Len(parts) \in Nat \ {0}
Letters     == Decimal \cup {"."}

LEMMA PartIs ==
    ASSUME NEW parts, Some(parts), NEW c \in Letters
    PROVE  /\ Some(Part(parts, c))
           /\ Len(Part(parts, c)) = IF c = "." THEN Len(parts) + 1 ELSE Len(parts)
<1>1. parts \in Seq(Int) /\ Len(parts) \in Nat \ {0} /\ parts[Len(parts)] \in Int
  BY DEF Some
<1>2. CASE c = "."
  BY <1>1, <1>2 DEF Part, Some
<1>3. CASE c # "."
  <2>1. PICK j \in 1..10 : c = Digits[j]
    BY <1>3 DEF Letters, Decimal
  <2>2. Worth(c) \in Int
    BY <2>1, j \in 1..36, WorthIs
  <2> DEFINE n == parts[Len(parts)] * 10 + Worth(c)
  <2>3. n \in Int
    BY <1>1, <2>2
  <2>4. Part(parts, c) = [parts EXCEPT ![Len(parts)] = n]
    BY <1>3 DEF Part
  <2> HIDE DEF n
  <2>5. Part(parts, c) \in Seq(Int) /\ Len(Part(parts, c)) = Len(parts)
    BY <1>1, <2>3, <2>4, ExceptSeq
  <2> QED
    BY <1>1, <1>3, <2>5 DEF Some
<1> QED
  BY <1>2, <1>3

(* The loop of inet_addr, turn by turn.                                     *)
PartsRuns(w, cp) ==
    /\ \A k \in 0..Len(cp) : Some(w[k])
    /\ w[0] = <<0>> /\ Parts(cp) = w[Len(cp)]
    /\ \A k \in 1..Len(cp) : w[k] = Part(w[k - 1], cp[k])

LEMMA PartsRunsExist ==
    ASSUME NEW cp \in Seq(Letters)
    PROVE  \E w : PartsRuns(w, cp)
<1> DEFINE L == Len(cp)
           S == {parts \in Seq(Int) : Len(parts) # 0}
           F == [k \in 1..L |-> [parts \in S |-> Part(parts, cp[k])]]
           Loop(w) == [k \in 0..L |-> IF k = 0 THEN <<0>> ELSE Part(w[k - 1], cp[k])]
           read == CHOOSE w : w = Loop(w)
<1>1. L \in Nat /\ \A k \in 1..L : cp[k] \in Letters
  OBVIOUS
<1>2. \A parts : parts \in S <=> Some(parts)
  BY DEF Some
<1>3. <<0>> \in S
  OBVIOUS
<1> HIDE DEF S
<1>4. F \in [1..L -> [S -> S]] /\ \A k \in 1..L : \A parts \in S : F[k][parts] = Part(parts, cp[k])
  <2>1. ASSUME NEW k \in 1..L, NEW parts \in S PROVE Part(parts, cp[k]) \in S
    BY <1>1, <1>2, PartIs
  <2> QED
    BY <2>1
<1> HIDE DEF F
<1>5. PICK g : Counts(g, L, S, F, <<0>>)
  BY <1>1, <1>3, <1>4, LoopsCount
<1>6. g \in [0..L -> S] /\ g[0] = <<0>> /\ \A k \in 1..L : g[k] = Part(g[k - 1], cp[k])
  <2>1. \A k \in 1..L : k - 1 \in 0..L
    BY <1>1
  <2>2. g \in [0..L -> S] /\ g[0] = <<0>> /\ \A k \in 1..L : g[k] = F[k][g[k - 1]]
    BY <1>5 DEF Counts
  <2> QED
    BY <1>4, <2>1, <2>2
<1>7. g = Loop(g)
  <2>1. ASSUME NEW k \in 0..L PROVE g[k] = IF k = 0 THEN <<0>> ELSE Part(g[k - 1], cp[k])
    <3>1. k # 0 => k \in 1..L
      BY <1>1
    <3> QED
      BY <1>6, <3>1
  <2> QED
    BY <1>6, <2>1
<1>8. read = Loop(read)
  BY <1>7
<1>9. Parts(cp) = read[L]
  BY DEF Parts
<1> HIDE DEF read
<1>10. read[0] = <<0>> /\ \A k \in 1..L : read[k] = Part(read[k - 1], cp[k])
  <2>1. \A k \in 0..L : read[k] = IF k = 0 THEN <<0>> ELSE Part(read[k - 1], cp[k])
    BY <1>8
  <2> QED
    BY <1>1, <2>1
<1>11. \A k \in 0..L : read[k] = g[k]
  <2>1. \A k \in 1..L : read[k - 1] = g[k - 1] => read[k] = g[k]
    BY <1>6, <1>10
  <2>2. read[0] = g[0]
    BY <1>6, <1>10
  <2> QED
    BY ONLY <1>1, <2>1, <2>2, SameTurns
<1>12. PartsRuns(g, cp)
  <2>1. \A k \in 0..L : Some(g[k])
    BY <1>2, <1>6
  <2>2. Parts(cp) = g[L]
    BY <1>1, <1>9, <1>11
  <2> QED
    BY <1>6, <2>1, <2>2 DEF PartsRuns
<1> QED
  BY <1>12

(* A part for every dot, and one more.                                      *)
LEMMA PartsDots ==
    ASSUME NEW cp \in Seq(Letters)
    PROVE  Len(Parts(cp)) = 1 + Cardinality({i \in DOMAIN cp : cp[i] = "."})
<1>1. PICK w : PartsRuns(w, cp)
  BY PartsRunsExist
<1> DEFINE L == Len(cp)
           Dots(k) == {i \in 1..k : cp[i] = "."}
           T == {k \in Nat : k <= L => Len(w[k]) = 1 + Cardinality(Dots(k))}
<1>2. /\ L \in Nat /\ DOMAIN cp = 1..L /\ \A k \in 1..L : cp[k] \in Letters
      /\ \A k \in 0..L : Some(w[k])
      /\ w[0] = <<0>> /\ Parts(cp) = w[L]
      /\ \A k \in 1..L : w[k] = Part(w[k - 1], cp[k])
  BY <1>1 DEF PartsRuns
<1>3. \A k \in Nat : IsFiniteSet(Dots(k)) /\ Cardinality(Dots(k)) \in Nat
  <2>1. ASSUME NEW k \in Nat PROVE IsFiniteSet(Dots(k)) /\ Cardinality(Dots(k)) \in Nat
    <3>1. IsFiniteSet(1..k) /\ Dots(k) \in SUBSET (1..k)
      BY FS_Interval
    <3>2. IsFiniteSet(Dots(k))
      BY ONLY <3>1, FS_Subset
    <3> QED
      BY <3>2, FS_CardinalityType
  <2> QED
    BY <2>1
<1>4. 0 \in T
  <2>1. Dots(0) = {}
    OBVIOUS
  <2>2. Cardinality(Dots(0)) = 0
    BY <2>1, FS_EmptySet
  <2>3. Len(w[0]) = 1
    BY <1>2
  <2> HIDE DEF Dots
  <2>4. Len(w[0]) = 1 + Cardinality(Dots(0))
    BY <2>2, <2>3
  <2> QED
    BY <2>4
<1>5. ASSUME NEW k \in Nat, k \in T PROVE k + 1 \in T
  <2> SUFFICES ASSUME k + 1 <= L PROVE Len(w[k + 1]) = 1 + Cardinality(Dots(k + 1))
    OBVIOUS
  <2>1. k <= L /\ k \in 0..L /\ k + 1 \in 1..L /\ (k + 1) - 1 = k
    BY <1>2
  <2>2. Len(w[k]) = 1 + Cardinality(Dots(k))
    BY <1>5, <2>1
  <2>3. /\ Some(w[k]) /\ cp[k + 1] \in Letters /\ w[k + 1] = Part(w[k], cp[k + 1])
    BY <1>2, <2>1
  <2>4. Len(w[k + 1]) = IF cp[k + 1] = "." THEN Len(w[k]) + 1 ELSE Len(w[k])
    BY <2>3, PartIs
  <2>5. CASE cp[k + 1] = "."
    <3>1. Dots(k + 1) = Dots(k) \cup {k + 1} /\ k + 1 \notin Dots(k)
      BY <2>5
    <3>2. Cardinality(Dots(k + 1)) = Cardinality(Dots(k)) + 1
      <4> HIDE DEF Dots
      <4> QED
        BY <1>3, <3>1, FS_AddElement
    <3> HIDE DEF Dots
    <3> QED
      BY <1>3, <2>2, <2>4, <2>5, <3>2
  <2>6. CASE cp[k + 1] # "."
    <3>1. Dots(k + 1) = Dots(k)
      BY <2>6
    <3> QED
      BY <2>2, <2>4, <2>6, <3>1
  <2> QED
    BY <2>5, <2>6
<1> HIDE DEF T, Dots
<1>6. L \in T
  BY <1>2, <1>4, <1>5, NumbersFromNought
<1>7. Len(w[L]) = 1 + Cardinality(Dots(L))
  BY <1>2, <1>6 DEF T
<1> QED
  BY <1>2, <1>7 DEF Dots

(* Three digits make the byte that they show.                               *)
LEMMA ByteRead ==
    ASSUME NEW b \in 0..255, NEW parts, Some(parts), parts[Len(parts)] = 0
    PROVE  Part(Part(Part(parts, Digits[1 + (b \div 100)]), Digits[1 + ((b \div 10) % 10)]),
                Digits[1 + (b % 10)]) = [parts EXCEPT ![Len(parts)] = b]
<1> DEFINE x == 1 + (b \div 100)
           y == 1 + ((b \div 10) % 10)
           z == 1 + (b % 10)
           n == Len(parts)
<1>1. /\ x \in 1..10 /\ y \in 1..10 /\ z \in 1..10
      /\ ((x - 1) * 10 + (y - 1)) * 10 + (z - 1) = b
  <2>1. b \div 10 = 10 * (b \div 100) + ((b \div 10) % 10) /\ b = 10 * (b \div 10) + (b % 10)
    OBVIOUS
  <2>2. b \div 100 \in 0..9 /\ (b \div 10) % 10 \in 0..9 /\ b % 10 \in 0..9 /\ b \div 10 \in Int
    OBVIOUS
  <2>3. /\ x \in 1..10 /\ x - 1 = b \div 100 /\ y \in 1..10 /\ y - 1 = (b \div 10) % 10
        /\ z \in 1..10 /\ z - 1 = b % 10
    BY <2>2
  <2> HIDE DEF x, y, z
  <2> QED
    BY <2>1, <2>2, <2>3
<1>2. parts \in Seq(Int) /\ n \in Nat \ {0}
  BY DEF Some
<1> HIDE DEF x, y, z, n
<1>3. ASSUME NEW p, p \in Seq(Int), Len(p) = n, NEW j \in 1..10
      PROVE  Part(p, Digits[j]) = [p EXCEPT ![n] = p[n] * 10 + (j - 1)]
  <2>1. j \in 1..36 /\ Digits[j] \in Decimal /\ Digits[j] # "."
    BY DecimalIs
  <2>2. Worth(Digits[j]) = j - 1
    BY <2>1, WorthIs
  <2> QED
    BY <1>3, <2>1, <2>2 DEF Part
<1>4. ASSUME NEW e \in Int
      PROVE  /\ [parts EXCEPT ![n] = e] \in Seq(Int) /\ Len([parts EXCEPT ![n] = e]) = n
             /\ [parts EXCEPT ![n] = e][n] = e
  BY <1>2, ExceptSeq DEF n
<1>5. ASSUME NEW e \in Int, NEW f \in Int
      PROVE  [[parts EXCEPT ![n] = e] EXCEPT ![n] = f] = [parts EXCEPT ![n] = f]
  OBVIOUS
<1>6. Part(parts, Digits[x]) = [parts EXCEPT ![n] = x - 1]
  <2>1. Part(parts, Digits[x]) = [parts EXCEPT ![n] = parts[n] * 10 + (x - 1)]
    BY <1>1, <1>2, <1>3 DEF n
  <2>2. parts[n] * 10 + (x - 1) = x - 1
    BY <1>1 DEF n
  <2> QED
    BY <2>1, <2>2
<1> DEFINE e == x - 1
           f == e * 10 + (y - 1)
           g == f * 10 + (z - 1)
           p == [parts EXCEPT ![n] = e]
           q == [parts EXCEPT ![n] = f]
<1>7. e \in Int /\ f \in Int /\ g \in Int /\ g = b
  BY <1>1
<1> HIDE DEF e, f, g
<1>8. Part(p, Digits[y]) = q
  <2>1. p \in Seq(Int) /\ Len(p) = n /\ p[n] = e
    BY <1>4, <1>7
  <2> HIDE DEF p
  <2>2. Part(p, Digits[y]) = [p EXCEPT ![n] = e * 10 + (y - 1)]
    BY <1>1, <1>3, <2>1
  <2> QED
    BY <1>5, <1>7, <2>2 DEF p, f
<1>9. Part(q, Digits[z]) = [parts EXCEPT ![n] = g]
  <2>1. q \in Seq(Int) /\ Len(q) = n /\ q[n] = f
    BY <1>4, <1>7
  <2> HIDE DEF q
  <2>2. Part(q, Digits[z]) = [q EXCEPT ![n] = f * 10 + (z - 1)]
    BY <1>1, <1>3, <2>1
  <2> QED
    BY <1>5, <1>7, <2>2 DEF q, g
<1>10. Part(Part(Part(parts, Digits[x]), Digits[y]), Digits[z]) = [parts EXCEPT ![n] = b]
  BY <1>6, <1>7, <1>8, <1>9 DEF e
<1> QED
  BY <1>10 DEF x, y, z, n

Longer(t, s, u, n, k) ==
    /\ t \in Seq(Letters) /\ Len(t) = n + k
    /\ \A i \in 1..n : t[i] = s[i]
    /\ \A i \in 1..k : t[n + i] = u[i]

LEMMA Glue ==
    ASSUME NEW s \in Seq(Letters), NEW u \in Seq(Letters),
           NEW n \in Nat, Len(s) = n, NEW k \in Nat, Len(u) = k
    PROVE  Longer(s \o u, s, u, n, k)
<1> DEFINE t == s \o u
<1>1. /\ t \in Seq(Letters) /\ Len(t) = Len(s) + Len(u)
      /\ \A i \in 1..(Len(s) + Len(u)) : t[i] = IF i <= Len(s) THEN s[i] ELSE u[i - Len(s)]
  BY ONLY ConcatProperties, Zenon
<1> HIDE DEF t
<1>2. \A i \in 1..n : t[i] = s[i]
  BY <1>1
<1>3. ASSUME NEW i \in 1..k PROVE t[n + i] = u[i]
  <2>1. n + i \in 1..(n + k) /\ ~(n + i <= n) /\ (n + i) - n = i
    OBVIOUS
  <2> QED
    BY <1>1, <2>1
<1>4. Longer(t, s, u, n, k)
  BY <1>1, <1>2, <1>3 DEF Longer
<1> QED
  BY <1>4 DEF t

(* What inet_ntoa writes, character by character.                           *)
Shows(t, b, k) ==
    /\ t[k + 1] = Digits[1 + (b \div 100)] /\ t[k + 2] = Digits[1 + ((b \div 10) % 10)]
    /\ t[k + 3] = Digits[1 + (b % 10)]

LEMMA AddressText ==
    ASSUME NEW addr \in [1..4 -> 0..255]
    PROVE  /\ inet_ntoa(addr) \in Seq(Letters) /\ Len(inet_ntoa(addr)) = 15
           /\ \A i \in 1..4 : Shows(inet_ntoa(addr), addr[i], 4 * (i - 1))
           /\ \A i \in 1..3 : inet_ntoa(addr)[4 * i] = "."
<1> DEFINE Three(b) == <<Digits[1 + (b \div 100)], Digits[1 + ((b \div 10) % 10)], Digits[1 + (b % 10)]>>
           d == <<".">>
           t1 == Three(addr[1])
           t2 == Three(addr[2])
           t3 == Three(addr[3])
           t4 == Three(addr[4])
<1>1. inet_ntoa(addr) = t1 \o d \o t2 \o d \o t3 \o d \o t4
  BY DEF inet_ntoa
<1>2. ASSUME NEW i \in 1..4
      PROVE  /\ Three(addr[i]) \in Seq(Letters) /\ Len(Three(addr[i])) = 3
             /\ Shows(Three(addr[i]), addr[i], 0)
  <2>1. addr[i] \in 0..255
    OBVIOUS
  <2> DEFINE b == addr[i]
  <2> HIDE DEF b
  <2>2. 1 + (b \div 100) \in 1..10 /\ 1 + ((b \div 10) % 10) \in 1..10 /\ 1 + (b % 10) \in 1..10
    BY <2>1 DEF b
  <2>3. Three(b) \in Seq(Letters)
    BY <2>2, DecimalIs DEF Letters
  <2> QED
    BY <2>3 DEF Shows, b
<1>3. d \in Seq(Letters) /\ Len(d) = 1 /\ d[1] = "."
  BY DEF Letters
<1>4. /\ t1 \in Seq(Letters) /\ Len(t1) = 3 /\ t2 \in Seq(Letters) /\ Len(t2) = 3
      /\ t3 \in Seq(Letters) /\ Len(t3) = 3 /\ t4 \in Seq(Letters) /\ Len(t4) = 3
  BY <1>2
<1>5. /\ Shows(t1, addr[1], 0) /\ Shows(t2, addr[2], 0)
      /\ Shows(t3, addr[3], 0) /\ Shows(t4, addr[4], 0)
  BY <1>2
<1> HIDE DEF t1, t2, t3, t4, d
<1> DEFINE s1 == t1 \o d
<1>6. /\ s1 \in Seq(Letters) /\ Len(s1) = 4 /\ \A i \in 1..3 : s1[i] = t1[i]
      /\ s1[4] = d[1]
  <2>1. Longer(s1, t1, d, 3, 1)
    BY <1>3, <1>4, Glue
  <2> HIDE DEF s1
  <2>2. s1[3 + 1] = d[1]
    BY <2>1 DEF Longer
  <2> QED
    BY <2>1, <2>2 DEF Longer
<1> HIDE DEF s1
<1> DEFINE s2 == s1 \o t2
<1>7. /\ s2 \in Seq(Letters) /\ Len(s2) = 7 /\ \A i \in 1..4 : s2[i] = s1[i]
      /\ s2[5] = t2[1] /\ s2[6] = t2[2] /\ s2[7] = t2[3]
  <2>1. Longer(s2, s1, t2, 4, 3)
    BY <1>3, <1>4, <1>6, Glue
  <2> HIDE DEF s2
  <2>2. s2[4 + 1] = t2[1] /\ s2[4 + 2] = t2[2] /\ s2[4 + 3] = t2[3]
    BY <2>1 DEF Longer
  <2> QED
    BY <2>1, <2>2 DEF Longer
<1> HIDE DEF s2
<1> DEFINE s3 == s2 \o d
<1>8. /\ s3 \in Seq(Letters) /\ Len(s3) = 8 /\ \A i \in 1..7 : s3[i] = s2[i]
      /\ s3[8] = d[1]
  <2>1. Longer(s3, s2, d, 7, 1)
    BY <1>3, <1>4, <1>7, Glue
  <2> HIDE DEF s3
  <2>2. s3[7 + 1] = d[1]
    BY <2>1 DEF Longer
  <2> QED
    BY <2>1, <2>2 DEF Longer
<1> HIDE DEF s3
<1> DEFINE s4 == s3 \o t3
<1>9. /\ s4 \in Seq(Letters) /\ Len(s4) = 11 /\ \A i \in 1..8 : s4[i] = s3[i]
      /\ s4[9] = t3[1] /\ s4[10] = t3[2] /\ s4[11] = t3[3]
  <2>1. Longer(s4, s3, t3, 8, 3)
    BY <1>3, <1>4, <1>8, Glue
  <2> HIDE DEF s4
  <2>2. s4[8 + 1] = t3[1] /\ s4[8 + 2] = t3[2] /\ s4[8 + 3] = t3[3]
    BY <2>1 DEF Longer
  <2> QED
    BY <2>1, <2>2 DEF Longer
<1> HIDE DEF s4
<1> DEFINE s5 == s4 \o d
<1>10. /\ s5 \in Seq(Letters) /\ Len(s5) = 12 /\ \A i \in 1..11 : s5[i] = s4[i]
      /\ s5[12] = d[1]
  <2>1. Longer(s5, s4, d, 11, 1)
    BY <1>3, <1>4, <1>9, Glue
  <2> HIDE DEF s5
  <2>2. s5[11 + 1] = d[1]
    BY <2>1 DEF Longer
  <2> QED
    BY <2>1, <2>2 DEF Longer
<1> HIDE DEF s5
<1> DEFINE s6 == s5 \o t4
<1>11. /\ s6 \in Seq(Letters) /\ Len(s6) = 15 /\ \A i \in 1..12 : s6[i] = s5[i]
      /\ s6[13] = t4[1] /\ s6[14] = t4[2] /\ s6[15] = t4[3]
  <2>1. Longer(s6, s5, t4, 12, 3)
    BY <1>3, <1>4, <1>10, Glue
  <2> HIDE DEF s6
  <2>2. s6[12 + 1] = t4[1] /\ s6[12 + 2] = t4[2] /\ s6[12 + 3] = t4[3]
    BY <2>1 DEF Longer
  <2> QED
    BY <2>1, <2>2 DEF Longer
<1> HIDE DEF s6
<1>12. inet_ntoa(addr) = s6
  BY <1>1 DEF s1, s2, s3, s4, s5, s6
<1>13. /\ s6[4] = "." /\ s6[8] = "." /\ s6[12] = "."
  BY <1>3, <1>6, <1>7, <1>8, <1>9, <1>10, <1>11
<1>14. /\ s6[1] = t1[1] /\ s6[2] = t1[2] /\ s6[3] = t1[3]
  BY <1>6, <1>7, <1>8, <1>9, <1>10, <1>11
<1>15. /\ s6[5] = t2[1] /\ s6[6] = t2[2] /\ s6[7] = t2[3]
  <2>1. \A i \in 1..7 : s4[i] = s2[i]
    BY <1>8, <1>9
  <2>2. \A i \in 1..7 : s6[i] = s4[i]
    BY <1>10, <1>11
  <2> QED
    BY <1>7, <2>1, <2>2
<1>16. /\ s6[9] = t3[1] /\ s6[10] = t3[2] /\ s6[11] = t3[3]
       /\ s6[13] = t4[1] /\ s6[14] = t4[2] /\ s6[15] = t4[3]
  BY <1>9, <1>10, <1>11
<1>17. /\ Shows(s6, addr[1], 4 * (1 - 1)) /\ Shows(s6, addr[2], 4 * (2 - 1))
       /\ Shows(s6, addr[3], 4 * (3 - 1)) /\ Shows(s6, addr[4], 4 * (4 - 1))
  BY <1>5, <1>14, <1>15, <1>16 DEF Shows
<1>18. \A i \in 1..4 : i = 1 \/ i = 2 \/ i = 3 \/ i = 4
  OBVIOUS
<1>19. \A i \in 1..4 : Shows(s6, addr[i], 4 * (i - 1))
  BY <1>17, <1>18
<1>20. \A i \in 1..3 : s6[4 * i] = "."
  BY <1>13
<1> QED
  BY <1>11, <1>12, <1>19, <1>20

LEMMA AppendedIs ==
    ASSUME NEW s \in Seq(Int), NEW x \in Int, NEW u \in Seq(Int), Len(u) = Len(s) + 1,
           \A i \in 1..Len(s) : u[i] = s[i], u[Len(s) + 1] = x
    PROVE  Append(s, x) = u
<1> DEFINE r == Append(s, x)
           n == Len(s)
<1>1. /\ n \in Nat /\ r \in Seq(Int) /\ Len(r) = n + 1 /\ r[n + 1] = x
      /\ \A i \in 1..n : r[i] = s[i]
  OBVIOUS
<1>2. \A i \in 1..n : u[i] = s[i] /\ u[n + 1] = x
  OBVIOUS
<1> HIDE DEF r, n
<1>3. \A i \in 1..(n + 1) : i \in 1..n \/ i = n + 1
  BY <1>1
<1>4. \A i \in 1..Len(r) : r[i] = u[i]
  BY <1>1, <1>2, <1>3 DEF n
<1>5. r = u
  BY <1>1, <1>4, SeqEqual DEF n
<1> QED
  BY <1>5 DEF r

(* The row of parts when a dot follows, and when a part is complete.        *)
RowsAre(a, b, c, d) ==
    /\ Append(<<a>>, 0) = <<a, 0>> /\ Append(<<a, b>>, 0) = <<a, b, 0>>
    /\ Append(<<a, b, c>>, 0) = <<a, b, c, 0>>
    /\ [<<0>> EXCEPT ![1] = a] = <<a>> /\ [<<a, 0>> EXCEPT ![2] = b] = <<a, b>>
    /\ [<<a, b, 0>> EXCEPT ![3] = c] = <<a, b, c>>
    /\ [<<a, b, c, 0>> EXCEPT ![4] = d] = <<a, b, c, d>>

LEMMA Rows ==
    ASSUME NEW a \in Int, NEW b \in Int, NEW c \in Int, NEW d \in Int
    PROVE  RowsAre(a, b, c, d)
<1>1. Append(<<a>>, 0) = <<a, 0>>
  <2> DEFINE s == <<a>>
             u == <<a, 0>>
  <2>1. /\ s \in Seq(Int) /\ Len(s) = 1 /\ u \in Seq(Int) /\ Len(u) = 1 + 1
        /\ (\A i \in 1..1 : u[i] = s[i]) /\ u[1 + 1] = 0
    OBVIOUS
  <2> HIDE DEF s, u
  <2>2. Len(u) = Len(s) + 1 /\ (\A i \in 1..Len(s) : u[i] = s[i]) /\ u[Len(s) + 1] = 0
    BY <2>1
  <2>3. Append(s, 0) = u
    BY <2>1, <2>2, 0 \in Int, AppendedIs
  <2> QED
    BY <2>3 DEF s, u
<1>2. Append(<<a, b>>, 0) = <<a, b, 0>>
  <2> DEFINE s == <<a, b>>
             u == <<a, b, 0>>
  <2>1. /\ s \in Seq(Int) /\ Len(s) = 2 /\ u \in Seq(Int) /\ Len(u) = 2 + 1
        /\ (\A i \in 1..2 : u[i] = s[i]) /\ u[2 + 1] = 0
    OBVIOUS
  <2> HIDE DEF s, u
  <2>2. Len(u) = Len(s) + 1 /\ (\A i \in 1..Len(s) : u[i] = s[i]) /\ u[Len(s) + 1] = 0
    BY <2>1
  <2>3. Append(s, 0) = u
    BY <2>1, <2>2, 0 \in Int, AppendedIs
  <2> QED
    BY <2>3 DEF s, u
<1>3. Append(<<a, b, c>>, 0) = <<a, b, c, 0>>
  <2> DEFINE s == <<a, b, c>>
             u == <<a, b, c, 0>>
  <2>1. /\ s \in Seq(Int) /\ Len(s) = 3 /\ u \in Seq(Int) /\ Len(u) = 3 + 1
        /\ (\A i \in 1..3 : u[i] = s[i]) /\ u[3 + 1] = 0
    OBVIOUS
  <2> HIDE DEF s, u
  <2>2. Len(u) = Len(s) + 1 /\ (\A i \in 1..Len(s) : u[i] = s[i]) /\ u[Len(s) + 1] = 0
    BY <2>1
  <2>3. Append(s, 0) = u
    BY <2>1, <2>2, 0 \in Int, AppendedIs
  <2> QED
    BY <2>3 DEF s, u
<1>4. /\ [<<0>> EXCEPT ![1] = a] = <<a>> /\ [<<a, 0>> EXCEPT ![2] = b] = <<a, b>>
      /\ [<<a, b, 0>> EXCEPT ![3] = c] = <<a, b, c>>
      /\ [<<a, b, c, 0>> EXCEPT ![4] = d] = <<a, b, c, d>>
  OBVIOUS
<1> QED
  BY <1>1, <1>2, <1>3, <1>4 DEF RowsAre

LEMMA BytesAre ==
    ASSUME NEW addr \in [1..4 -> 0..255]
    PROVE  \A i \in 1..4 : addr[i] \in 0..255 /\ addr[i] \in Int
OBVIOUS

LEMMA TextRead ==
    ASSUME NEW addr \in [1..4 -> 0..255], NEW t \in Seq(Letters), Len(t) = 15,
           \A i \in 1..4 : Shows(t, addr[i], 4 * (i - 1)), \A i \in 1..3 : t[4 * i] = "."
    PROVE  Parts(t) = addr
<1>1. PICK w : PartsRuns(w, t)
  BY PartsRunsExist
<1>2. /\ \A k \in 0..15 : Some(w[k])
      /\ w[0] = <<0>> /\ Parts(t) = w[15]
      /\ \A k \in 1..15 : w[k] = Part(w[k - 1], t[k])
  BY <1>1 DEF PartsRuns
<1>3. \A i \in 1..4 : addr[i] \in 0..255 /\ addr[i] \in Int
  BY BytesAre
<1>4. ASSUME NEW i \in 1..4, w[4 * (i - 1)][Len(w[4 * (i - 1)])] = 0
      PROVE  w[4 * i - 1] = [w[4 * (i - 1)] EXCEPT ![Len(w[4 * (i - 1)])] = addr[i]]
  <2> DEFINE k == 4 * (i - 1)
  <2>1. /\ k \in 0..12 /\ k + 1 \in 1..15 /\ k + 2 \in 1..15 /\ k + 3 \in 1..15
        /\ (k + 1) - 1 = k /\ (k + 2) - 1 = k + 1 /\ (k + 3) - 1 = k + 2 /\ 4 * i - 1 = k + 3
    OBVIOUS
  <2>2. Shows(t, addr[i], k)
    OBVIOUS
  <2>3. w[k][Len(w[k])] = 0
    BY <1>4
  <2> HIDE DEF k
  <2>4. Some(w[k])
    BY <1>2, <2>1
  <2>5. /\ w[k + 1] = Part(w[k], t[k + 1]) /\ w[k + 2] = Part(w[k + 1], t[k + 2])
        /\ w[k + 3] = Part(w[k + 2], t[k + 3])
    BY <1>2, <2>1
  <2> DEFINE b == addr[i]
  <2>6. b \in 0..255
    BY <1>3
  <2> HIDE DEF b
  <2>7. w[k + 3] = Part(Part(Part(w[k], Digits[1 + (b \div 100)]), Digits[1 + ((b \div 10) % 10)]),
                        Digits[1 + (b % 10)])
    BY <2>2, <2>5 DEF Shows, b
  <2> DEFINE parts == w[k]
  <2>8. Some(parts) /\ parts[Len(parts)] = 0
    BY <2>3, <2>4
  <2> HIDE DEF parts
  <2>9. Part(Part(Part(parts, Digits[1 + (b \div 100)]), Digits[1 + ((b \div 10) % 10)]),
             Digits[1 + (b % 10)]) = [parts EXCEPT ![Len(parts)] = b]
    BY <2>6, <2>8, ByteRead
  <2> QED
    BY <2>1, <2>7, <2>9 DEF b, k, parts
<1>5. w[4] = Append(w[3], 0) /\ w[8] = Append(w[7], 0) /\ w[12] = Append(w[11], 0)
  <2>1. t[4] = "." /\ t[8] = "." /\ t[12] = "."
    <3>1. t[4 * 1] = "." /\ t[4 * 2] = "." /\ t[4 * 3] = "."
      OBVIOUS
    <3> QED
      BY <3>1
  <2>2. w[4] = Part(w[3], t[4]) /\ w[8] = Part(w[7], t[8]) /\ w[12] = Part(w[11], t[12])
    <3>1. /\ w[4] = Part(w[4 - 1], t[4]) /\ w[8] = Part(w[8 - 1], t[8])
          /\ w[12] = Part(w[12 - 1], t[12])
      BY <1>2
    <3> QED
      BY <3>1
  <2> QED
    BY <2>1, <2>2 DEF Part
<1> DEFINE a == addr[1]
           b == addr[2]
           c == addr[3]
           d == addr[4]
<1>6. a \in Int /\ b \in Int /\ c \in Int /\ d \in Int
  BY <1>3
<1>7. \A i \in 1..4 : w[4 * (i - 1)][Len(w[4 * (i - 1)])] = 0 =>
          w[4 * i - 1] = [w[4 * (i - 1)] EXCEPT ![Len(w[4 * (i - 1)])] = addr[i]]
  BY <1>4
<1>8. /\ w[0][Len(w[0])] = 0 => w[3] = [w[0] EXCEPT ![Len(w[0])] = a]
      /\ w[4][Len(w[4])] = 0 => w[7] = [w[4] EXCEPT ![Len(w[4])] = b]
      /\ w[8][Len(w[8])] = 0 => w[11] = [w[8] EXCEPT ![Len(w[8])] = c]
      /\ w[12][Len(w[12])] = 0 => w[15] = [w[12] EXCEPT ![Len(w[12])] = d]
  <2>1. /\ 4 * (1 - 1) = 0 /\ 4 * 1 - 1 = 3 /\ 4 * (2 - 1) = 4 /\ 4 * 2 - 1 = 7
        /\ 4 * (3 - 1) = 8 /\ 4 * 3 - 1 = 11 /\ 4 * (4 - 1) = 12 /\ 4 * 4 - 1 = 15
    OBVIOUS
  <2>2. w[0][Len(w[0])] = 0 => w[3] = [w[0] EXCEPT ![Len(w[0])] = a]
    BY <1>7, <2>1, 1 \in 1..4
  <2>3. w[4][Len(w[4])] = 0 => w[7] = [w[4] EXCEPT ![Len(w[4])] = b]
    BY <1>7, <2>1, 2 \in 1..4
  <2>4. w[8][Len(w[8])] = 0 => w[11] = [w[8] EXCEPT ![Len(w[8])] = c]
    BY <1>7, <2>1, 3 \in 1..4
  <2>5. w[12][Len(w[12])] = 0 => w[15] = [w[12] EXCEPT ![Len(w[12])] = d]
    BY <1>7, <2>1, 4 \in 1..4
  <2> QED
    BY <2>2, <2>3, <2>4, <2>5
<1> HIDE DEF a, b, c, d
<1>9. /\ Append(<<a>>, 0) = <<a, 0>> /\ Append(<<a, b>>, 0) = <<a, b, 0>>
      /\ Append(<<a, b, c>>, 0) = <<a, b, c, 0>>
      /\ [<<0>> EXCEPT ![1] = a] = <<a>> /\ [<<a, 0>> EXCEPT ![2] = b] = <<a, b>>
      /\ [<<a, b, 0>> EXCEPT ![3] = c] = <<a, b, c>>
      /\ [<<a, b, c, 0>> EXCEPT ![4] = d] = <<a, b, c, d>>
  <2>1. RowsAre(a, b, c, d)
    BY <1>6, Rows
  <2> QED
    BY <2>1 DEF RowsAre
<1>10. w[3] = <<a>> /\ w[4] = <<a, 0>>
  <2>1. w[3] = [<<0>> EXCEPT ![1] = a]
    <3>1. Len(w[0]) = 1 /\ w[0][1] = 0
      BY <1>2
    <3> QED
      BY <1>2, <1>8, <3>1
  <2>2. w[3] = <<a>>
    BY <1>9, <2>1
  <2> QED
    BY <1>5, <1>9, <2>2
<1>11. w[7] = <<a, b>> /\ w[8] = <<a, b, 0>>
  <2>1. w[7] = [<<a, 0>> EXCEPT ![2] = b]
    <3>1. Len(w[4]) = 2 /\ w[4][2] = 0
      BY <1>10
    <3> QED
      BY <1>8, <1>10, <3>1
  <2>2. w[7] = <<a, b>>
    BY <1>9, <2>1
  <2> QED
    BY <1>5, <1>9, <2>2
<1>12. w[11] = <<a, b, c>> /\ w[12] = <<a, b, c, 0>>
  <2>1. w[11] = [<<a, b, 0>> EXCEPT ![3] = c]
    <3>1. Len(w[8]) = 3 /\ w[8][3] = 0
      BY <1>11
    <3> QED
      BY <1>8, <1>11, <3>1
  <2>2. w[11] = <<a, b, c>>
    BY <1>9, <2>1
  <2> QED
    BY <1>5, <1>9, <2>2
<1>13. w[15] = <<a, b, c, d>>
  <2>1. w[15] = [<<a, b, c, 0>> EXCEPT ![4] = d]
    <3>1. Len(w[12]) = 4 /\ w[12][4] = 0
      BY <1>12
    <3> QED
      BY <1>8, <1>12, <3>1
  <2> QED
    BY <1>9, <2>1
<1>14. addr = <<a, b, c, d>>
  BY DEF a, b, c, d
<1> QED
  BY <1>2, <1>13, <1>14

LEMMA AddressIsRead ==
    ASSUME NEW addr \in [1..4 -> 0..255]
    PROVE  inet_addr(inet_ntoa(addr)) = addr
<1> DEFINE t == inet_ntoa(addr)
<1>1. t \in Seq(Letters) /\ Len(t) = 15 /\ Parts(t) = addr
  BY AddressText, TextRead
<1> HIDE DEF t
<1>2. Dotted(t)
  <2>1. DOMAIN t = 1..15 /\ \A i \in 1..15 : t[i] \in Letters
    <3>1. t \in Seq(Letters) /\ Len(t) = 15
      BY <1>1
    <3> QED
      BY ONLY <3>1, LenProperties, ElementOfSeq
  <2>2. ToSet(t) = {t[i] : i \in 1..15}
    BY <2>1 DEF ToSet
  <2> QED
    BY <2>1, <2>2 DEF Dotted, Letters
<1>3. Len(addr) = 4
  BY LenProperties, SeqDef
<1>4. inet_addr(t) = Bytes(addr)
  BY <1>1, <1>2, <1>3 DEF inet_addr
<1>5. Bytes(addr) = addr
  <2> DEFINE Shift(k) == <<1, 256, 65536, 16777216>>[k]
             Octets(i) == {(addr[j] \div Shift(j - i + 1)) % 256 : j \in i..4}
  <2>1. ASSUME NEW x \in 0..255
        PROVE  /\ (x \div Shift(1)) % 256 = x
               /\ \A k \in 2..4 : (x \div Shift(k)) % 256 = 0
    BY <2>1
  <2>2. ASSUME NEW i \in 1..4 PROVE Bytes(addr)[i] = addr[i]
    <3>1. Bytes(addr)[i] = Or(Octets(i))
      BY DEF Bytes
    <3> HIDE DEF Shift
    <3>2. addr[i] \in Octets(i)
      <4>1. i \in i..4 /\ i - i + 1 = 1 /\ addr[i] \in 0..255
        OBVIOUS
      <4>2. (addr[i] \div Shift(1)) % 256 = addr[i]
        BY <2>1, <4>1
      <4> QED
        BY <4>1, <4>2
    <3>3. Octets(i) \subseteq {0, addr[i]}
      <4>1. ASSUME NEW j \in i..4 PROVE (addr[j] \div Shift(j - i + 1)) % 256 \in {0, addr[i]}
        <5>1. j \in 1..4 /\ addr[j] \in 0..255
          BY <4>1
        <5>2. CASE j = i
          <6>1. j - i + 1 = 1
            BY <5>2
          <6> QED
            BY <2>1, <5>1, <5>2, <6>1
        <5>3. CASE j # i
          <6>1. j - i + 1 \in 2..4
            BY <4>1, <5>3
          <6> QED
            BY <2>1, <5>1, <6>1
        <5> QED
          BY <5>2, <5>3
      <4> QED
        BY <4>1
    <3> HIDE DEF Octets
    <3>4. addr[i] \in 0..255
      OBVIOUS
    <3> QED
      BY <3>1, <3>2, <3>3, <3>4, OrNone
  <2>3. Bytes(addr) = [i \in 1..4 |-> Bytes(addr)[i]]
    BY DEF Bytes
  <2> QED
    BY <2>2, <2>3
<1> QED
  BY <1>4, <1>5 DEF t

----------------------------------------------------------------------------
(* What every call of libc leaves behind.                                   *)

Made ==
    /\ call.fn = "itoa" =>
        call.value \in IntMin..INT_MAX /\ call.text = itoa(call.value, call.base)
    /\ call.fn = "inet_ntoa" => call.addr \in Addresses /\ call.text = inet_ntoa(call.addr)
    /\ call.fn = "inet_addr" => call.text \in AddressTexts /\ call.addr = inet_addr(call.text)
    /\ call.fn = "printf" =>
        /\ call.fmt \in Formats /\ call.arg \in Arguments
        /\ call.text = Formatted(call.fmt, call.arg, SIZE)
    /\ call.fn = "printk" =>
        /\ call.fmt \in Formats /\ call.arg \in Arguments /\ Complete(call.fmt)
        /\ uart = uart_puts(printk(call.fmt, call.arg))

LEMMA InitMade == LibrariesInit => Made
BY DEF LibrariesInit, NoCall, Made

LEMMA NextMade == Made /\ [LibrariesNext]_<<vars, callVars>> => Made'
<1> SUFFICES ASSUME Made, [LibrariesNext]_<<vars, callVars>> PROVE Made'
  OBVIOUS
<1>1. CASE UNCHANGED callVars
  BY <1>1 DEF Made, callVars
<1>2. CASE convert_number
  BY <1>2 DEF convert_number, Calls, Made
<1>3. CASE convert_address
  BY <1>3 DEF convert_address, Calls, Made
<1>4. CASE print
  BY <1>4 DEF print, Calls, Made
<1> QED
  BY <1>1, <1>2, <1>3, <1>4 DEF LibrariesNext, convert, callVars

(* stdio.c and stdlib.c: itoa and atoi undo each other, whatever the width  *)
(* of int and of long.                                                      *)
THEOREM NumbersTheorem == LibrariesSpec => []NumbersReadBack
<1>1. Made => NumbersReadBack
  <2> SUFFICES ASSUME Made, call.fn = "itoa" PROVE NumbersReadBack
    BY DEF NumbersReadBack
  <2>1. call.value \in IntMin..INT_MAX /\ call.text = itoa(call.value, call.base)
    BY DEF Made
  <2>2. call.base \notin 2..36 => call.text = << >> /\ call.base # 10
    <3>1. call.base = 10 => call.base \in 2..36
      OBVIOUS
    <3> QED
      BY <2>1, <3>1 DEF itoa
  <2> QED
    BY <2>1, <2>2, ItoaReadBack DEF NumbersReadBack
<1> QED
  BY InitMade, NextMade, <1>1, PTL DEF LibrariesSpec

(* stdio.c:48-119: no format and no argument make printf write beyond its   *)
(* buffer, and nothing is lost that would fit.                              *)
THEOREM PrintfTheorem == LibrariesSpec => []PrintfFits
<1>1. Made => PrintfFits
  <2>1. \A arg \in Arguments : Arg(arg)
    BY LibrariesAssumption, IntFacts DEF Arg
  <2> QED
    BY <2>1, FormattedFits, LibrariesAssumption DEF Made, PrintfFits
<1> QED
  BY InitMade, NextMade, <1>1, PTL DEF LibrariesSpec

(* printk.c and stdio.c interpret the formats they share in the same way,   *)
(* and their two loops find the same digits, of the unsigned number.        *)
THEOREM PrintkTheorem == LibrariesSpec => []PrintkAgrees
<1>1. Made => PrintkAgrees
  <2> SUFFICES ASSUME Made, call.fn = "printk", ToSet(call.fmt) \cap {"l", "i"} = {}
               PROVE  PrintkAgrees
    BY DEF PrintkAgrees
  <2> DEFINE fmt == call.fmt
             arg == call.arg
             With(number) == [arg EXCEPT !.d = number]
  <2>1. /\ fmt \in Seq(STRING) /\ arg \in Arguments /\ Shared(fmt)
        /\ uart = uart_puts(printk(fmt, arg))
    BY LibrariesAssumption DEF Made, Shared, Complete
  <2>2. arg.d \in IntMin..INT_MAX /\ arg.d \in Int /\ arg.s \in Seq(STRING) /\ arg.c \in STRING
    BY <2>1, LibrariesAssumption, IntFacts
  <2>3. ASSUME NEW number \in 0..(ULONG - 1), Printed(fmt, arg.d, number)
        PROVE  uart = uart_puts(sprintf(fmt, With(number)))
    <3>1. With(number).d = number /\ With(number).s = arg.s /\ With(number).c = arg.c
      BY <2>1, LibrariesAssumption
    <3>2. Arg(With(number))
      BY <2>2, <2>3, <3>1, IntFacts DEF Arg
    <3> HIDE DEF arg, fmt, With
    <3>3. printk(fmt, arg) = sprintf(fmt, With(number))
      BY <2>1, <2>2, <2>3, <3>1, <3>2, PrintkIs
    <3> QED
      BY <2>1, <3>3
  <2> HIDE DEF fmt, arg, With
  <2>4. "x" \notin ToSet(fmt) => uart = uart_puts(sprintf(fmt, With(arg.d % ULONG)))
    BY <2>2, <2>3, Unsigned DEF Printed
  <2>5. "d" \notin ToSet(fmt) => uart = uart_puts(sprintf(fmt, With(arg.d % UINT)))
    BY <2>2, <2>3, Unsigned DEF Printed
  <2>6. arg.d >= 0 => uart = uart_puts(sprintf(fmt, With(arg.d)))
    BY <2>2, <2>3, Unsigned DEF Printed
  <2> QED
    BY <2>4, <2>5, <2>6 DEF PrintkAgrees, fmt, arg, With
<1> QED
  BY InitMade, NextMade, <1>1, PTL DEF LibrariesSpec

(* socket.c:224-281: inet_addr reads what inet_ntoa writes, and refuses     *)
(* every text that does not have four parts.                                *)
THEOREM AddressesTheorem == LibrariesSpec => []AddressesReadBack
<1>1. Made => AddressesReadBack
  <2> SUFFICES ASSUME Made PROVE AddressesReadBack
    OBVIOUS
  <2>1. call.fn = "inet_ntoa" => inet_addr(call.text) = call.addr
    BY AddressIsRead, LibrariesAssumption DEF Made
  <2>2. ASSUME call.fn = "inet_addr", call.addr # Invalid
        PROVE  Cardinality({i \in DOMAIN call.text : call.text[i] = "."}) = 3
    <3> DEFINE cp == call.text
    <3>1. cp \in Seq(STRING) /\ call.addr = inet_addr(cp)
      BY <2>2, LibrariesAssumption DEF Made
    <3> HIDE DEF cp
    <3>2. Dotted(cp) /\ Len(Parts(cp)) = 4
      BY <2>2, <3>1 DEF inet_addr
    <3>3. cp \in Seq(Letters)
      <4>1. \A i \in 1..Len(cp) : cp[i] \in Letters
        BY <3>1, <3>2 DEF Dotted, ToSet, Letters
      <4> QED
        BY <3>1, <4>1
    <3>4. Len(Parts(cp)) = 1 + Cardinality({i \in DOMAIN cp : cp[i] = "."})
      BY <3>3, PartsDots
    <3>5. Cardinality({i \in DOMAIN cp : cp[i] = "."}) \in Nat
      <4>1. IsFiniteSet(DOMAIN cp)
        BY <3>1, FS_Interval
      <4> QED
        BY <4>1, FS_Subset, FS_CardinalityType
    <3>6. Cardinality({i \in DOMAIN cp : cp[i] = "."}) = 3
      <4> DEFINE dots == Cardinality({i \in DOMAIN cp : cp[i] = "."})
      <4>1. dots \in Nat /\ Len(Parts(cp)) = 1 + dots /\ Len(Parts(cp)) = 4
        BY <3>2, <3>4, <3>5
      <4> HIDE DEF dots
      <4>2. dots = 3
        BY <4>1
      <4> QED
        BY <4>2 DEF dots
    <3> QED
      BY <3>6 DEF cp
  <2> QED
    BY <2>1, <2>2 DEF AddressesReadBack
<1> QED
  BY InitMade, NextMade, <1>1, PTL DEF LibrariesSpec
=============================================================================
