--------------------------- MODULE NetServerProofs ---------------------------
(* The socket ids of the network server and the order of its answers, for  *)
(* any number of clients, slots, sockets and packets.                      *)
EXTENDS NetServer, OrderProofs, WellFoundedInduction

Kind  == ApiRequests \cup RawRequests
Asked == [from : Clients, re : Kind]

(* The id in answer d to client c is given out, and no other task has it.  *)
Good(d, c) ==
    d.re.cmd = 1 => /\ d.value \in Int /\ d.value < next_socket_id
                    /\ \A i \in Found(d.value) : sockets[i].owner_pid = c

(* T says what may lie in each mailbox: requests at the server, and        *)
(* elsewhere good answers.                                                 *)
Fits(T) ==
    /\ \A m \in T[NET_SERVER_PID] : m.data \in Asked
    /\ \A c \in Clients : \A m \in T[c] : Good(m.data, c)

(* A table of sockets that have their nine fields.                         *)
Whole(s) ==
    s = [in_use |-> s.in_use, sock_id |-> s.sock_id, owner_pid |-> s.owner_pid,
         type |-> s.type, state |-> s.state, rx_buffer |-> s.rx_buffer,
         rx_head |-> s.rx_head, rx_tail |-> s.rx_tail, rx_count |-> s.rx_count]
Tabled(table) ==
    /\ table = [i \in Slot |-> table[i]]
    /\ \A i \in Slot : Whole(table[i])

(* Sockets in use have ids that were given out, each its own.              *)
Ids ==
    /\ next_socket_id \in Nat \ {0}
    /\ Tabled(sockets)
    /\ \A i \in Slot : sockets[i].in_use => sockets[i].sock_id \in 1..(next_socket_id - 1)
    /\ \A i, j \in Slot : sockets[i].in_use /\ sockets[j].in_use
            /\ sockets[i].sock_id = sockets[j].sock_id => i = j

IInv == Ids /\ \E T : Holds(ipc, T) /\ Fits(T)

LEMMA Pids == NET_SERVER_PID \in Pid \ Clients /\ Clients \subseteq Pid
BY ClientsAssumption, NetAssumption

LEMMA IInvImpliesOwned == IInv => IdsAreOwned
<1> SUFFICES ASSUME IInv, NEW c \in Clients, NEW k \in 1..Len(ipc.mailbox[c])
             PROVE  Good(ipc.mailbox[c][k].data, c)
  BY DEF IdsAreOwned, IInv, Ids, Good
<1>1. PICK T : Holds(ipc, T) /\ Fits(T)
  BY DEF IInv
<1>2. ipc.mailbox[c] \in Seq(T[c])
  BY <1>1, Pids DEF Holds
<1>3. ipc.mailbox[c][k] \in T[c]
  BY <1>2, ElementOfSeq
<1> QED
  BY <1>1, <1>3 DEF Fits

LEMMA InitIInv == Init => IInv
<1> SUFFICES ASSUME Init PROVE IInv
  OBVIOUS
<1>1. ipc = Empty(MAX_MESSAGES) /\ next_socket_id = 1
  BY DEF Init, ClientInit
<1>2. Holds(ipc, [p \in Pid |-> {}])
  BY <1>1, EmptyHolds
<1>3. Fits([p \in Pid |-> {}])
  BY Pids DEF Fits
<1>4. Tabled(sockets) /\ \A i \in Slot : ~sockets[i].in_use
  BY DEF Init, Tabled, Whole
<1> QED
  BY <1>1, <1>2, <1>3, <1>4 DEF IInv, Ids

----------------------------------------------------------------------------
(* A turn of the server.  Same: it is still the same socket.               *)
Same(s, r) == r.in_use = s.in_use /\ r.sock_id = s.sock_id /\ r.owner_pid = s.owner_pid

LEMMA RingFields ==
    ASSUME NEW s, Whole(s), NEW buffer, NEW head, NEW count,
           NEW r, r = [s EXCEPT !.rx_buffer = buffer, !.rx_head = head, !.rx_count = count]
    PROVE  Whole(r) /\ Same(s, r)
BY DEF Whole, Same

LEMMA RoutedStamp ==
    ASSUME NEW table, NEW pkt, Tabled(table)
    PROVE  /\ Tabled(Routed(table, pkt))
           /\ \A i \in Slot : Same(table[i], Routed(table, pkt)[i])
<1>1. CASE Routed(table, pkt) = table
  BY <1>1 DEF Same
<1>2. CASE Routed(table, pkt) # table
  <2> DEFINE new == Routed(table, pkt)
  <2>1. PICK k : new = [table EXCEPT ![k] = RxAdded(@, pkt)]
    BY <1>2 DEF Routed
  <2>2. ASSUME NEW s, Whole(s) PROVE Whole(RxAdded(s, pkt)) /\ Same(s, RxAdded(s, pkt))
    <3>1. \E buffer, head, count :
            RxAdded(s, pkt) = [s EXCEPT !.rx_buffer = buffer, !.rx_head = head, !.rx_count = count]
      BY DEF RxAdded
    <3> QED
      BY <2>2, <3>1, RingFields
  <2> HIDE DEF new
  <2>3. new = [i \in Slot |-> new[i]]
    BY <2>1 DEF Tabled
  <2>4. ASSUME NEW i \in Slot
        PROVE  new[i] = table[i] \/ new[i] = RxAdded(table[i], pkt)
    BY <2>1 DEF Tabled
  <2>5. ASSUME NEW i \in Slot PROVE Whole(new[i]) /\ Same(table[i], new[i])
    BY <2>2, <2>4 DEF Tabled, Same
  <2> QED
    BY <2>3, <2>5 DEF Tabled, new
<1> QED
  BY <1>1, <1>2

(* What a request leaves of a socket that it does not make.                *)
Kept(s, r) == Whole(r) /\ (r.in_use => Same(s, r) /\ s.in_use)

LEMMA FieldsKept ==
    ASSUME NEW s, Whole(s), NEW st, NEW tail, NEW count
    PROVE  /\ Kept(s, s)
           /\ Kept(s, [s EXCEPT !.state = st])
           /\ Kept(s, [s EXCEPT !.in_use = FALSE, !.state = st])
           /\ Kept(s, [s EXCEPT !.rx_tail = tail, !.rx_count = count])
<1>1. Kept(s, s)
  BY DEF Kept, Same
<1>2. ASSUME NEW r, r = [s EXCEPT !.state = st] PROVE Kept(s, r)
  BY <1>2 DEF Kept, Same, Whole
<1>3. ASSUME NEW r, r = [s EXCEPT !.in_use = FALSE, !.state = st] PROVE Kept(s, r)
  BY <1>3 DEF Kept, Same, Whole
<1>4. ASSUME NEW r, r = [s EXCEPT !.rx_tail = tail, !.rx_count = count] PROVE Kept(s, r)
  BY <1>4 DEF Kept, Same, Whole
<1> QED
  BY <1>1, <1>2, <1>3, <1>4

LEMMA OldSocketsKept ==
    ASSUME Tabled(sockets), NEW req, NEW from, req.cmd \in 1..7,
           req.cmd # 1 \/ Unused = {}
    PROVE  /\ Table(req, from) = [i \in Slot |-> Table(req, from)[i]]
           /\ \A i \in Slot : Kept(sockets[i], Table(req, from)[i])
<1> DEFINE new == Table(req, from)
           id  == req.args[1]
           Done == new = [i \in Slot |-> new[i]] /\ \A i \in Slot : Kept(sockets[i], new[i])
<1>1. ASSUME new = sockets PROVE Done
  <2> HIDE DEF new
  <2> QED BY <1>1, FieldsKept DEF Tabled
<1>2. ASSUME NEW found, NEW st, new = InState(found, st) PROVE Done
  <2> HIDE DEF new
  <2> QED BY <1>2, FieldsKept DEF Tabled, InState
<1>3. ASSUME NEW found, NEW n, new = Drained(found, n) PROVE Done
  <2> HIDE DEF new
  <2> QED BY <1>3, FieldsKept DEF Tabled, Drained
<1>4. ASSUME NEW found, new = Closed(found) PROVE Done
  <2> HIDE DEF new
  <2> QED BY <1>4, FieldsKept DEF Tabled, Closed
<1>5. \/ new = sockets
      \/ \E found, st : new = InState(found, st)
      \/ \E found, n : new = Drained(found, n)
      \/ \E found : new = Closed(found)
  BY DEF Table
<1> HIDE DEF new, Done
<1>6. Done
  BY <1>1, <1>2, <1>3, <1>4, <1>5
<1> QED
  BY <1>6 DEF new, Done

(* The socket r that slot i has once owner got a new one, where s was.     *)
Stamped(i, s, r, owner) ==
    IF i = Min(Unused) THEN r.sock_id = next_socket_id /\ r.owner_pid = owner
    ELSE r.in_use => s.in_use /\ Same(s, r)

LEMMA NewSocketStamped ==
    ASSUME Tabled(sockets), NEW type, NEW from, NEW new, new = Allocated(from, type)
    PROVE  Tabled(new) /\ \A i \in Slot : Stamped(i, sockets[i], new[i], from)
<1>1. PICK k : k = Min(Unused) /\ new = [sockets EXCEPT ![k] =
                [@ EXCEPT !.in_use = TRUE, !.sock_id = next_socket_id,
                          !.owner_pid = from, !.type = type, !.state = "CLOSED",
                          !.rx_head = 0, !.rx_tail = 0, !.rx_count = 0]]
  BY DEF Allocated
<1>2. ASSUME NEW s, Whole(s), NEW r,
             r = [s EXCEPT !.in_use = TRUE, !.sock_id = next_socket_id,
                           !.owner_pid = from, !.type = type, !.state = "CLOSED",
                           !.rx_head = 0, !.rx_tail = 0, !.rx_count = 0]
      PROVE  Whole(r) /\ r.sock_id = next_socket_id /\ r.owner_pid = from
  BY <1>2 DEF Whole
<1>3. new = [i \in Slot |-> new[i]]
  BY <1>1 DEF Tabled
<1>4. ASSUME NEW i \in Slot
      PROVE  Whole(new[i]) /\ Stamped(i, sockets[i], new[i], from)
  <2>1. CASE i = k
    <3>1. Whole(new[i]) /\ new[i].sock_id = next_socket_id /\ new[i].owner_pid = from
      <4> DEFINE r == [sockets[i] EXCEPT !.in_use = TRUE, !.sock_id = next_socket_id,
                           !.owner_pid = from, !.type = type, !.state = "CLOSED",
                           !.rx_head = 0, !.rx_tail = 0, !.rx_count = 0]
      <4>1. new[i] = r
        BY <1>1, <2>1 DEF Tabled
      <4>2. Whole(sockets[i])
        BY DEF Tabled
      <4> HIDE DEF r
      <4>3. Whole(r) /\ r.sock_id = next_socket_id /\ r.owner_pid = from
        BY <4>2, <1>2 DEF r
      <4> QED
        BY <4>1, <4>3
    <3> QED
      BY <1>1, <2>1, <3>1 DEF Stamped
  <2>2. CASE i # k
    <3>1. new[i] = sockets[i]
      BY <1>1, <2>2 DEF Tabled
    <3> QED
      BY <1>1, <2>2, <3>1 DEF Tabled, Stamped, Same
  <2> QED
    BY <2>1, <2>2
<1> QED
  BY <1>3, <1>4 DEF Tabled

(* The table after a turn.                                                 *)
LEMMA ServeStamp ==
    ASSUME Ids, NEW pkt \in Packets \cup {<< >>}, serve(pkt)
    PROVE  LET req  == Request(NET_SERVER_PID).re
               from == Request(NET_SERVER_PID).from
               made == Complete(req) /\ req.cmd = 1 /\ Unused # {}
           IN /\ Tabled(sockets')
              /\ \A i \in Slot : IF made
                   THEN Stamped(i, sockets[i], sockets'[i], from)
                   ELSE sockets'[i].in_use => sockets[i].in_use /\ Same(sockets[i], sockets'[i])
              /\ next_socket_id' = IF made THEN next_socket_id + 1 ELSE next_socket_id
<1> DEFINE req  == Request(NET_SERVER_PID).re
           from == Request(NET_SERVER_PID).from
           made == Complete(req) /\ req.cmd = 1 /\ Unused # {}
           table == IF Complete(req) THEN Table(req, from) ELSE sockets
           Moved(i, s, r) == IF made THEN Stamped(i, s, r, from)
                             ELSE r.in_use => s.in_use /\ Same(s, r)
<1>1. /\ sockets' = Routed(table, pkt)
      /\ next_socket_id' = IF made THEN next_socket_id + 1 ELSE next_socket_id
  BY DEF serve
<1>2. Complete(req) => req.cmd \in 1..7
  BY DEF Complete, Needs
<1>3. Tabled(sockets)
  BY DEF Ids
<1>4. Tabled(table) /\ \A i \in Slot : Moved(i, sockets[i], table[i])
  <2>1. CASE made
    <3>1. table = Allocated(from, req.args[1])
      BY <2>1 DEF Table
    <3> HIDE DEF table
    <3> QED
      BY <1>3, <2>1, <3>1, NewSocketStamped
  <2>2. CASE ~made /\ Complete(req)
    <3>1. req.cmd # 1 \/ Unused = {}
      BY <2>2
    <3>2. /\ table = [i \in Slot |-> table[i]]
          /\ \A i \in Slot : Kept(sockets[i], table[i])
      BY <1>2, <1>3, <2>2, <3>1, OldSocketsKept
    <3> HIDE DEF table
    <3> QED
      BY <2>2, <3>2 DEF Tabled, Kept
  <2>3. CASE ~Complete(req)
    BY <1>3, <2>3 DEF Same
  <2> QED
    BY <2>1, <2>2, <2>3
<1> HIDE DEF table
<1>5. Tabled(sockets') /\ \A i \in Slot : Same(table[i], sockets'[i])
  BY <1>1, <1>4, RoutedStamp
<1>6. \A i \in Slot : Moved(i, sockets[i], sockets'[i])
  BY <1>4, <1>5 DEF Same, Stamped
<1> QED
  BY <1>1, <1>5, <1>6

(* Ids stay unique, and what clients were told stays good.                 *)
LEMMA ServeIds ==
    ASSUME Ids, NEW pkt \in Packets \cup {<< >>}, serve(pkt)
    PROVE  /\ next_socket_id' \in Nat \ {0}
           /\ \A i \in Slot : sockets'[i].in_use =>
                sockets'[i].sock_id \in 1..(next_socket_id' - 1)
           /\ \A i, j \in Slot : sockets'[i].in_use /\ sockets'[j].in_use
                   /\ sockets'[i].sock_id = sockets'[j].sock_id => i = j
           /\ \A d, c : Good(d, c) => Good(d, c)'
<1> DEFINE from == Request(NET_SERVER_PID).from
           made == next_socket_id' = next_socket_id + 1
<1>1. next_socket_id \in Nat \ {0}
  BY DEF Ids
<1>2. \A i \in Slot : \/ ~sockets'[i].in_use
                      \/ sockets[i].in_use /\ Same(sockets[i], sockets'[i])
                      \/ i = Min(Unused) /\ made /\ sockets'[i].sock_id = next_socket_id
  BY ServeStamp DEF Stamped
<1>3. made \/ next_socket_id' = next_socket_id
  BY ServeStamp
<1> HIDE DEF made
<1>4. next_socket_id' \in Nat \ {0} /\ (made => next_socket_id' = next_socket_id + 1)
  BY <1>1, <1>3 DEF made
<1>5. \A i \in Slot : sockets'[i].in_use => sockets'[i].sock_id \in 1..(next_socket_id' - 1)
  BY <1>1, <1>2, <1>3, <1>4 DEF Ids, Same
<1>6. ASSUME NEW i \in Slot, NEW j \in Slot, sockets'[i].in_use, sockets'[j].in_use,
             sockets'[i].sock_id = sockets'[j].sock_id
      PROVE  i = j
  BY <1>1, <1>2, <1>6 DEF Ids, Same
<1>7. ASSUME NEW d, NEW c, Good(d, c) PROVE Good(d, c)'
  <2> SUFFICES ASSUME d.re.cmd = 1
               PROVE  /\ d.value \in Int /\ d.value < next_socket_id'
                      /\ \A i \in Slot : sockets'[i].in_use /\ sockets'[i].sock_id = d.value
                            => sockets'[i].owner_pid = c
    BY DEF Good, Found
  <2>1. /\ d.value \in Int /\ d.value < next_socket_id
        /\ \A i \in Slot : sockets[i].in_use /\ sockets[i].sock_id = d.value
              => sockets[i].owner_pid = c
    BY <1>7 DEF Good, Found
  <2> QED
    BY <1>1, <1>2, <1>3, <1>4, <2>1 DEF Same
<1> QED
  BY <1>4, <1>5, <1>6, <1>7

(* The id in the answer to a new request is the client's.                  *)
LEMMA AnswerGood ==
    ASSUME Ids, NEW pkt \in Packets \cup {<< >>}, serve(pkt), NEW d, NEW from,
           from = Request(NET_SERVER_PID).from, d.re = Request(NET_SERVER_PID).re,
           d.re.cmd = 1 => d.value = IF Complete(d.re) /\ Unused # {}
                                     THEN next_socket_id ELSE -1
    PROVE  Good(d, from)'
<1> SUFFICES ASSUME d.re.cmd = 1
             PROVE  /\ d.value \in Int /\ d.value < next_socket_id'
                    /\ \A i \in Slot : sockets'[i].in_use /\ sockets'[i].sock_id = d.value
                          => sockets'[i].owner_pid = from
  BY DEF Good, Found
<1> DEFINE made == Complete(d.re) /\ Unused # {}
<1>1. next_socket_id \in Nat \ {0} /\ next_socket_id' \in Nat \ {0}
  BY ServeIds DEF Ids
<1>2. next_socket_id' = IF made THEN next_socket_id + 1 ELSE next_socket_id
  BY ServeStamp
<1>3. d.value = IF made THEN next_socket_id ELSE -1
  OBVIOUS
<1>4. made => \A i \in Slot :
        \/ ~sockets'[i].in_use
        \/ sockets[i].in_use /\ Same(sockets[i], sockets'[i])
        \/ sockets'[i].sock_id = next_socket_id /\ sockets'[i].owner_pid = from
  BY ServeStamp DEF Stamped
<1>5. \A i \in Slot : sockets'[i].in_use => sockets'[i].sock_id \in 1..(next_socket_id' - 1)
  BY ServeIds
<1> HIDE DEF made
<1>6. CASE made
  BY <1>1, <1>2, <1>3, <1>4, <1>6 DEF Ids, Same
<1>7. CASE ~made
  BY <1>1, <1>2, <1>3, <1>5, <1>7
<1> QED
  BY <1>6, <1>7

(* A reply is one message to the client, or none.                          *)
LEMMA Replies ==
    ASSUME NEW req, req = Request(NET_SERVER_PID).re
    PROVE  \/ Reply(req) = Taken(ipc, NET_SERVER_PID)
           \/ \E size, d :
                /\ Reply(req) = Sent(Taken(ipc, NET_SERVER_PID), NET_SERVER_PID,
                                     Request(NET_SERVER_PID).from, size, d)
                /\ d.re = req
                /\ req.cmd = 1 => d.value = IF Complete(req) /\ Unused # {}
                                            THEN next_socket_id ELSE -1
<1>1. ASSUME NEW size, NEW value, NEW bytes,
             Reply(req) = Answered(NET_SERVER_PID, size, value, bytes),
             req.cmd = 1 => value = IF Complete(req) /\ Unused # {}
                                    THEN next_socket_id ELSE -1
      PROVE  \E s, d :
                /\ Reply(req) = Sent(Taken(ipc, NET_SERVER_PID), NET_SERVER_PID,
                                     Request(NET_SERVER_PID).from, s, d)
                /\ d.re = req
                /\ req.cmd = 1 => d.value = IF Complete(req) /\ Unused # {}
                                            THEN next_socket_id ELSE -1
  <2> WITNESS size, [from |-> NET_SERVER_PID, re |-> req, value |-> value, bytes |-> bytes]
  <2> QED
    BY <1>1 DEF Answered
<1>2. CASE Complete(req) /\ req.cmd = 6
  BY <1>1, <1>2 DEF Reply
<1>3. CASE ~(Complete(req) /\ req.cmd = 6)
  <2>1. req.cmd = 1 => Value(req) = IF Unused = {} THEN -1 ELSE next_socket_id
    BY DEF Value
  <2>2. \/ Reply(req) = Taken(ipc, NET_SERVER_PID)
        \/ Reply(req) = Answered(NET_SERVER_PID, 4,
                                 IF Complete(req) THEN Value(req) ELSE -1, << >>)
    BY <1>3 DEF Reply
  <2> QED
    BY <1>1, <2>1, <2>2
<1> QED
  BY <1>2, <1>3

LEMMA ServeIInv == ASSUME IInv, NEW pkt \in Packets \cup {<< >>}, serve(pkt) PROVE IInv'
<1> DEFINE S    == NET_SERVER_PID
           rest == Taken(ipc, S)
<1>1. PICK T : Holds(ipc, T) /\ Fits(T)
  BY DEF IInv
<1>2. S \in Pid /\ HasMail(ipc, S)
  BY Pids DEF serve
<1>3. Holds(rest, T)
  BY <1>1, <1>2, TakenHolds
<1>4. Oldest(ipc, S) \in T[S]
  <2>1. ipc.mailbox[S] \in Seq(T[S]) /\ ipc.mailbox[S] # << >>
    BY <1>1, <1>2 DEF Holds, HasMail
  <2> QED
    BY <2>1, TailFacts DEF Oldest
<1>5. PICK from, req : from = Request(S).from /\ req = Request(S).re
  OBVIOUS
<1>6. from \in Clients
  BY <1>1, <1>4, <1>5 DEF Fits, Asked, Request
<1>7. Fits(T)'
  BY <1>1, ServeIds DEF Fits, IInv
<1>8. ipc' = Reply(req)
  BY <1>5 DEF serve
<1>9. \E U : Holds(ipc, U)' /\ Fits(U)'
  <2>1. CASE ipc' = rest
    BY <1>3, <1>7, <2>1
  <2>2. CASE ipc' # rest
    <3>1. PICK size, d :
            /\ ipc' = Sent(rest, S, from, size, d)
            /\ d.re = req
            /\ req.cmd = 1 => d.value = IF Complete(req) /\ Unused # {}
                                        THEN next_socket_id ELSE -1
      BY <1>5, <1>8, <2>2, Replies
    <3>2. PICK m : m = [sender_pid |-> S, size |-> size, data |-> d]
      OBVIOUS
    <3>3. Holds(ipc', With(T, from, m))
      <4> HIDE DEF rest
      <4> QED BY <1>3, <3>1, <3>2, SentHolds
    <3>4. Good(d, from)'
      BY <1>5, <3>1, AnswerGood DEF IInv
    <3>5. Fits(With(T, from, m))'
      BY <1>6, <1>7, <3>2, <3>4, Pids DEF Fits, With
    <3> QED
      BY <3>3, <3>5
  <2> QED
    BY <2>1, <2>2
<1>10. Tabled(sockets')
  BY ServeStamp DEF IInv
<1> QED
  BY <1>9, <1>10, ServeIds DEF IInv, Ids

----------------------------------------------------------------------------
(* The other steps.                                                        *)

LEMMA IdleIInv == ASSUME IInv, NEW pkt \in Packets \cup {<< >>}, idle_turn(pkt) PROVE IInv'
<1>1. sockets' = Routed(sockets, pkt) /\ next_socket_id' = next_socket_id /\ ipc' = ipc
  BY DEF idle_turn, clientVars
<1>2. Tabled(sockets') /\ \A i \in Slot : Same(sockets[i], sockets'[i])
  BY <1>1, RoutedStamp DEF IInv, Ids
<1>3. ASSUME NEW T, Fits(T) PROVE Fits(T)'
  BY <1>1, <1>2, <1>3 DEF Fits, Good, Found, Same
<1> QED
  BY <1>1, <1>2, <1>3 DEF IInv, Ids, Same, Holds

(* Whatever the client does, the mailboxes change by a send and a receive. *)
LEMMA UseIInv == ASSUME IInv, NEW c \in Clients, use(c) PROVE IInv'
<1> DEFINE S == NET_SERVER_PID
           sent(req) == AfterSend(c, S, req)
           Fit(box) == \E T : Holds(box, T) /\ Fits(T)
<1>1. sockets' = sockets /\ next_socket_id' = next_socket_id /\ c \in Pid
  BY Pids DEF use
<1>2. \/ ipc' = ipc
      \/ ipc' = Taken(ipc, c)
      \/ \E req \in Kind : ipc' = sent(req) \/ ipc' = Taken(sent(req), c)
  BY DEF use, call, call_fails, post, collect, Kind
<1>3. ASSUME NEW req \in Kind PROVE Fit(sent(req))
  <2>1. PICK T : Holds(ipc, T) /\ Fits(T)
    BY DEF IInv
  <2> DEFINE data == [from |-> c, re |-> req]
             m == [sender_pid |-> c, size |-> req.size, data |-> data]
  <2>2. Fits(With(T, S, m))
    BY <2>1, Pids DEF Fits, With, Asked
  <2>3. Holds(sent(req), With(T, S, m))
    BY <2>1, SentHolds DEF AfterSend
  <2> QED
    BY <2>2, <2>3
<1>4. ASSUME NEW box, Fit(box) PROVE Fit(Taken(box, c))
  BY <1>1, <1>4, TakenHolds
<1>5. Fit(ipc)
  BY DEF IInv
<1> HIDE DEF Fit, sent
<1>6. Fit(ipc')
  BY <1>2, <1>3, <1>4, <1>5
<1>7. ASSUME NEW T, Fits(T) PROVE Fits(T)'
  BY <1>1, <1>7 DEF Fits, Good, Found
<1>8. PICK T : Holds(ipc', T) /\ Fits(T)
  BY <1>6 DEF Fit
<1>9. \E U : Holds(ipc, U)' /\ Fits(U)'
  BY <1>7, <1>8
<1> QED
  BY <1>1, <1>9 DEF IInv, Ids, Tabled

LEMMA IInvTheorem == Spec => []IInv
<1>1. Init => IInv
  BY InitIInv
<1>2. IInv /\ [Next]_vars => IInv'
  <2> SUFFICES ASSUME IInv, [Next]_vars PROVE IInv'
    OBVIOUS
  <2>1. ASSUME NEW pkt \in Packets \cup {<< >>}, serve(pkt) PROVE IInv'
    BY <2>1, ServeIInv
  <2>2. ASSUME NEW pkt \in Packets \cup {<< >>}, idle_turn(pkt) PROVE IInv'
    BY <2>2, IdleIInv
  <2>3. ASSUME NEW c \in Clients, use(c) PROVE IInv'
    BY <2>3, UseIInv
  <2>4. CASE UNCHANGED vars
    BY <2>4 DEF vars, clientVars, IInv, Ids, Fits, Good, Found, Holds
  <2> QED
    BY <2>1, <2>2, <2>3, <2>4 DEF Next, Turn
<1> QED
  BY <1>1, <1>2, PTL DEF Spec

(* Sockets that are in use have different ids, and the id that a client is *)
(* told is not another task's (net_srv.c:76): for any number of clients,   *)
(* slots, messages and sockets.                                            *)
THEOREM OwnedTheorem == Spec => []IdsAreOwned
BY IInvTheorem, IInvImpliesOwned, PTL

(* An id that was given up is never given out again, so that a request     *)
(* that was sent before a close does not reach another socket.             *)
THEOREM NeverReturnTheorem == Spec => IdsNeverReturn
<1>1. IInv /\ [Next]_vars =>
        [\A id \in 1..(next_socket_id - 1) : Found(id) = {} => Found(id)' = {}]_vars
  <2> SUFFICES ASSUME IInv, Next, NEW id \in 1..(next_socket_id - 1), Found(id) = {}
               PROVE  Found(id)' = {}
    OBVIOUS
  <2>1. \A i \in Slot : ~(sockets[i].in_use /\ sockets[i].sock_id = id)
    BY DEF Found
  <2>2. ASSUME NEW pkt \in Packets \cup {<< >>}, serve(pkt),
               NEW i \in Slot, sockets'[i].in_use
        PROVE  sockets'[i].sock_id # id
    <3>1. \/ sockets[i].in_use /\ Same(sockets[i], sockets'[i])
          \/ sockets'[i].sock_id = next_socket_id
      BY <2>2, ServeStamp DEF Stamped, IInv
    <3> QED
      BY <2>1, <3>1 DEF IInv, Ids, Same
  <2>3. ASSUME NEW pkt \in Packets \cup {<< >>}, idle_turn(pkt),
               NEW i \in Slot, sockets'[i].in_use
        PROVE  sockets'[i].sock_id # id
    BY <2>1, <2>3, RoutedStamp DEF idle_turn, Same, IInv, Ids
  <2>4. ASSUME NEW c \in Clients, use(c) PROVE sockets' = sockets
    BY <2>4 DEF use
  <2>5. ASSUME NEW i \in Slot, sockets'[i].in_use PROVE sockets'[i].sock_id # id
    BY <2>1, <2>2, <2>3, <2>4, <2>5 DEF Next, Turn
  <2> QED
    BY <2>5 DEF Found
<1> QED
  BY <1>1, IInvTheorem, PTL DEF Spec, IdsNeverReturn

----------------------------------------------------------------------------
(* The rings.                                                              *)

(* x is never more than one round away from the cell it stands for.        *)
Wrap(x) == IF x < 0 THEN x + RX_CELLS ELSE IF x < RX_CELLS THEN x ELSE x - RX_CELLS

LEMMA Wrapped ==
    ASSUME NEW x \in Int, -RX_CELLS <= x, x < 2 * RX_CELLS
    PROVE  x % RX_CELLS = Wrap(x) /\ Wrap(x) \in Cells
<1>1. RX_CELLS \in Nat \ {0}
  BY NetAssumption
<1>2. ASSUME NEW R \in Nat \ {0}, -R <= x, x < 2 * R
      PROVE  x % R = IF x < 0 THEN x + R ELSE IF x < R THEN x ELSE x - R
  <2>1. x \in 0..(R - 1) => x % R = x
    OBVIOUS
  <2>2. x \in R..(2 * R - 1) => x % R = x - R
    OBVIOUS
  <2>3. x \in (-R)..(-1) => x % R = x + R
    OBVIOUS
  <2> QED
    BY <1>2, <2>1, <2>2, <2>3
<1>3. x % RX_CELLS = Wrap(x)
  BY <1>1, <1>2 DEF Wrap
<1>4. Wrap(x) \in Cells
  BY <1>1 DEF Wrap, Cells
<1> QED
  BY <1>3, <1>4

(* A ring b whose tail is at t holds c cells, the first at t.              *)
Held(b, t, c) == [k \in 1..c |-> b[(t + k - 1) % RX_CELLS]]

(* Taking n cells moves the tail and leaves the head.                      *)
Drains(b, t, c, n, t2) ==
    t \in Cells /\ c \in 0..RX_CELLS /\ n \in 0..c /\ t2 = (t + n) % RX_CELLS
LEMMA Drain ==
    ASSUME NEW b, NEW t, NEW c, NEW n, NEW t2, Drains(b, t, c, n, t2)
    PROVE  /\ t2 \in Cells /\ c - n \in 0..RX_CELLS
           /\ (t2 + (c - n)) % RX_CELLS = (t + c) % RX_CELLS
           /\ Held(b, t2, c - n) = SubSeq(Held(b, t, c), n + 1, c)
           /\ Held(b, t, n) = SubSeq(Held(b, t, c), 1, n)
<1> USE DEF Drains
<1> DEFINE old == Held(b, t, c)
           new == Held(b, t2, c - n)
<1>1. RX_CELLS \in Nat \ {0} /\ c \in Nat /\ n \in Nat /\ t \in Nat /\ t < RX_CELLS
  BY NetAssumption DEF Cells
<1>2. t2 = Wrap(t + n) /\ t2 \in Cells
  <2> DEFINE x == t + n
  <2>1. x \in Int /\ -RX_CELLS <= x /\ x < 2 * RX_CELLS
    BY <1>1
  <2> HIDE DEF x
  <2>2. x % RX_CELLS = Wrap(x) /\ Wrap(x) \in Cells
    BY <2>1, Wrapped
  <2> QED
    BY <2>2 DEF x
<1>3. ASSUME NEW k \in Nat, n + k <= c + 1
      PROVE  (t2 + k - 1) % RX_CELLS = (t + (n + k) - 1) % RX_CELLS
  <2> DEFINE x == t2 + k - 1
             y == t + (n + k) - 1
  <2>1. /\ x \in Int /\ -RX_CELLS <= x /\ x < 2 * RX_CELLS
        /\ y \in Int /\ -RX_CELLS <= y /\ y < 2 * RX_CELLS
    BY <1>1, <1>2, <1>3 DEF Cells
  <2>2. Wrap(x) = Wrap(y)
    BY <1>1, <1>2, <1>3 DEF Wrap, Cells
  <2> HIDE DEF x, y
  <2>3. x % RX_CELLS = Wrap(x) /\ y % RX_CELLS = Wrap(y)
    BY <2>1, Wrapped
  <2> QED
    BY <2>2, <2>3 DEF x, y
<1>4. (t2 + (c - n)) % RX_CELLS = (t + c) % RX_CELLS
  <2>1. (t2 + (c - n + 1) - 1) % RX_CELLS = (t + (n + (c - n + 1)) - 1) % RX_CELLS
    <3> DEFINE k == c - n + 1
    <3>1. k \in Nat /\ n + k <= c + 1
      BY <1>1
    <3> HIDE DEF k
    <3>2. (t2 + k - 1) % RX_CELLS = (t + (n + k) - 1) % RX_CELLS
      BY <1>3, <3>1
    <3> QED
      BY <3>2 DEF k
  <2>2. t2 + (c - n + 1) - 1 = t2 + (c - n) /\ t + (n + (c - n + 1)) - 1 = t + c
    BY <1>1, <1>2 DEF Cells
  <2> QED
    BY <2>1, <2>2
<1>5. ASSUME NEW a \in 0..c, NEW e \in a..c
      PROVE  SubSeq(old, a + 1, e) = [k \in 1..(e - a) |-> b[(t + (a + k) - 1) % RX_CELLS]]
  <2>1. SubSeq(old, a + 1, e) = [k \in 1..(e - a) |-> old[a + k]]
    BY <1>1 DEF SubSeq
  <2>2. \A k \in 1..(e - a) : old[a + k] = b[(t + (a + k) - 1) % RX_CELLS]
    BY <1>1 DEF Held
  <2> HIDE DEF old
  <2> QED
    BY <2>1, <2>2
<1>6. new = SubSeq(old, n + 1, c)
  <2>1. SubSeq(old, n + 1, c) = [k \in 1..(c - n) |-> b[(t + (n + k) - 1) % RX_CELLS]]
    <3> HIDE DEF old
    <3> QED BY <1>1, <1>5
  <2>2. \A k \in 1..(c - n) : (t2 + k - 1) % RX_CELLS = (t + (n + k) - 1) % RX_CELLS
    BY <1>1, <1>3
  <2> QED
    BY <2>1, <2>2 DEF Held
<1>7. Held(b, t, n) = SubSeq(old, 1, n)
  <2>1. SubSeq(old, 1, n) = [k \in 1..n |-> old[k]]
    BY <1>1 DEF SubSeq
  <2>2. \A k \in 1..n : old[k] = b[(t + k - 1) % RX_CELLS]
    BY <1>1 DEF Held
  <2> HIDE DEF old
  <2> QED
    BY <2>1, <2>2 DEF Held
<1> QED
  BY <1>1, <1>2, <1>4, <1>6, <1>7

(* Adding the first n cells of a packet moves the head.                    *)
Written(h, k) == ((k - h) % RX_CELLS) + 1
Fills(b, t, c, h, pkt, n, b2) ==
    /\ t \in Cells /\ c \in 0..RX_CELLS /\ h = (t + c) % RX_CELLS
    /\ n \in Nat /\ n <= RX_CELLS - c
    /\ b2 = [k \in Cells |-> IF Written(h, k) <= n THEN pkt[Written(h, k)] ELSE b[k]]
Filled(b, t, c, h, pkt, n, b2) ==
    /\ (h + n) % RX_CELLS = (t + (c + n)) % RX_CELLS
    /\ Held(b2, t, c + n) = Held(b, t, c) \o SubSeq(pkt, 1, n)
LEMMA Fill ==
    ASSUME NEW b, NEW t, NEW c, NEW h, NEW pkt, NEW n, NEW b2, Fills(b, t, c, h, pkt, n, b2)
    PROVE  Filled(b, t, c, h, pkt, n, b2)
<1> USE DEF Fills, Filled
<1>1. RX_CELLS \in Nat \ {0} /\ c \in Nat /\ t \in Nat /\ t < RX_CELLS /\ c <= RX_CELLS
  BY NetAssumption DEF Cells
<1>2. h = Wrap(t + c) /\ h \in Cells
  <2> DEFINE x == t + c
  <2>1. x \in Int /\ -RX_CELLS <= x /\ x < 2 * RX_CELLS
    BY <1>1
  <2> HIDE DEF x
  <2>2. x % RX_CELLS = Wrap(x) /\ Wrap(x) \in Cells
    BY <2>1, Wrapped
  <2> QED
    BY <2>2 DEF x
<1>3. (h + n) % RX_CELLS = (t + (c + n)) % RX_CELLS
  <2> DEFINE x == h + n
             y == t + (c + n)
  <2>1. /\ x \in Int /\ -RX_CELLS <= x /\ x < 2 * RX_CELLS
        /\ y \in Int /\ -RX_CELLS <= y /\ y < 2 * RX_CELLS
        /\ Wrap(x) = Wrap(y)
    BY <1>1, <1>2 DEF Wrap, Cells
  <2> HIDE DEF x, y
  <2>2. x % RX_CELLS = Wrap(x) /\ y % RX_CELLS = Wrap(y)
    BY <2>1, Wrapped
  <2> QED
    BY <2>1, <2>2 DEF x, y
<1>4. ASSUME NEW k \in 1..(c + n)
      PROVE  LET cell == (t + k - 1) % RX_CELLS
             IN /\ cell \in Cells
                /\ Written(h, cell) = IF k <= c THEN k - c + RX_CELLS ELSE k - c
  <2> DEFINE x == t + k - 1
             cell == x % RX_CELLS
             y == cell - h
  <2>1. x \in Int /\ 0 <= x /\ x < 2 * RX_CELLS /\ -RX_CELLS <= x
    BY <1>1
  <2>2. cell = Wrap(x) /\ cell \in Cells
    <3> HIDE DEF x
    <3>1. x % RX_CELLS = Wrap(x) /\ Wrap(x) \in Cells
      BY <2>1, Wrapped
    <3> QED
      BY <3>1 DEF cell
  <2> HIDE DEF cell
  <2>3. y \in Int /\ -RX_CELLS <= y /\ y < 2 * RX_CELLS
    <3>1. cell \in Int /\ 0 <= cell /\ cell < RX_CELLS /\ h \in Int /\ 0 <= h /\ h < RX_CELLS
      BY <1>1, <1>2, <2>2 DEF Cells
    <3> QED
      BY <1>1, <3>1
  <2>4. Wrap(y) = IF k <= c THEN k - 1 - c + RX_CELLS ELSE k - 1 - c
    BY <1>1, <1>2, <2>1, <2>2 DEF Wrap, Cells
  <2> HIDE DEF y
  <2>5. y % RX_CELLS = Wrap(y)
    BY <2>3, Wrapped
  <2>6. Written(h, cell) = Wrap(y) + 1
    BY <2>5 DEF Written, y
  <2>7. Written(h, cell) = IF k <= c THEN k - c + RX_CELLS ELSE k - c
    BY <1>1, <2>4, <2>6
  <2> QED
    BY <2>2, <2>7 DEF cell
<1>5. ASSUME NEW k \in 1..(c + n)
      PROVE  b2[(t + k - 1) % RX_CELLS] =
                 IF k <= c THEN b[(t + k - 1) % RX_CELLS] ELSE pkt[k - c]
  <2> DEFINE cell == (t + k - 1) % RX_CELLS
  <2>1. cell \in Cells /\ Written(h, cell) = IF k <= c THEN k - c + RX_CELLS ELSE k - c
    BY <1>4
  <2> HIDE DEF cell
  <2>2. k <= c => ~(k - c + RX_CELLS <= n)
    BY <1>1
  <2>3. k > c => k - c <= n
    BY <1>1
  <2>4. b2[cell] = IF Written(h, cell) <= n THEN pkt[Written(h, cell)] ELSE b[cell]
    BY <2>1
  <2>5. b2[cell] = IF k <= c THEN b[cell] ELSE pkt[k - c]
    BY <1>1, <2>1, <2>2, <2>3, <2>4
  <2> QED
    BY <2>5 DEF cell
<1>6. Held(b2, t, c + n) = Held(b, t, c) \o SubSeq(pkt, 1, n)
  <2> DEFINE old  == Held(b, t, c)
             more == SubSeq(pkt, 1, n)
             cell(k) == (t + k - 1) % RX_CELLS
  <2>1. old = [k \in 1..c |-> old[k]] /\ Len(old) = c
        /\ \A k \in 1..c : old[k] = b[cell(k)]
    BY <1>1 DEF Held
  <2>2. more = [k \in 1..n |-> more[k]] /\ Len(more) = n /\ \A k \in 1..n : more[k] = pkt[k]
    <3>1. more = [k \in 1..n |-> pkt[k]]
      BY DEF SubSeq
    <3> HIDE DEF more
    <3> QED
      BY <3>1
  <2>3. \A k \in 1..(c + n) : b2[cell(k)] = IF k <= c THEN b[cell(k)] ELSE pkt[k - c]
    BY <1>5
  <2>4. Held(b2, t, c + n) = [k \in 1..(c + n) |-> b2[cell(k)]]
    BY DEF Held
  <2> HIDE DEF old, more, cell
  <2>5. old \o more = [k \in 1..(c + n) |-> IF k <= c THEN old[k] ELSE more[k - c]]
    <3> DEFINE M == {old[k] : k \in 1..c} \cup {more[k] : k \in 1..n}
    <3>1. old \in Seq(M) /\ more \in Seq(M)
      <4>1. old \in [1..c -> M] /\ more \in [1..n -> M]
        BY <2>1, <2>2
      <4> HIDE DEF M
      <4> QED
        BY <1>1, <4>1
    <3> HIDE DEF M
    <3> QED
      BY <2>1, <2>2, <3>1
  <2>6. ASSUME NEW k \in 1..(c + n)
        PROVE  b2[cell(k)] = IF k <= c THEN old[k] ELSE more[k - c]
    <3>1. CASE k <= c
      <4>1. k \in 1..c
        BY <1>1, <3>1
      <4>2. old[k] = b[cell(k)] /\ b2[cell(k)] = b[cell(k)]
        BY <2>1, <2>3, <3>1, <4>1
      <4> QED
        BY <3>1, <4>2
    <3>2. CASE k > c
      <4>1. k - c \in 1..n /\ ~(k <= c)
        BY <1>1, <3>2
      <4>2. more[k - c] = pkt[k - c] /\ b2[cell(k)] = pkt[k - c]
        BY <2>2, <2>3, <4>1
      <4> QED
        BY <4>1, <4>2
    <3> QED
      BY <1>1, <3>1, <3>2
  <2>7. Held(b2, t, c + n) = old \o more
    BY <2>4, <2>5, <2>6
  <2> QED
    BY <2>7 DEF old, more
<1> QED
  BY <1>3, <1>6

----------------------------------------------------------------------------
(* One socket.                                                             *)

Content(s) == FirstCells(s, s.rx_count)
States == {"CLOSED", "BOUND", "LISTENING", "CONNECTED"}
Ring(s) ==
    /\ s.rx_tail \in Cells /\ s.rx_count \in 0..RX_CELLS
    /\ s.rx_head = (s.rx_tail + s.rx_count) % RX_CELLS
    /\ s.rx_buffer = [k \in Cells |-> s.rx_buffer[k]]
Sound(s) ==
    /\ Whole(s) /\ Ring(s)
    /\ s.type \in {TCP, UDP} /\ s.owner_pid \in Pid /\ s.state \in States
    /\ ~s.in_use => s.state = "CLOSED"
AllSound(table) == \A i \in Slot : Sound(table[i])

(* r is s without its first k cells; r is s with the first n cells of pkt. *)
Fewer(s, r, k) ==
    /\ Sound(r) /\ r.sock_id = s.sock_id /\ k \in 0..Len(Content(s))
    /\ Content(r) = SubSeq(Content(s), k + 1, Len(Content(s)))
More(s, r, pkt, n) ==
    /\ Sound(r) /\ r.sock_id = s.sock_id /\ n \in 0..Len(pkt)
    /\ Content(r) = Content(s) \o SubSeq(pkt, 1, n)
    /\ n < Len(pkt) => Len(Content(r)) = RX_CELLS

LEMMA ContentFacts ==
    ASSUME NEW s, Ring(s)
    PROVE  /\ Content(s) = Held(s.rx_buffer, s.rx_tail, s.rx_count)
           /\ Len(Content(s)) = s.rx_count
           /\ SubSeq(Content(s), 1, Len(Content(s))) = Content(s)
           /\ Content(s) \o << >> = Content(s)
<1> DEFINE c == s.rx_count
           f == [k \in 1..c |-> s.rx_buffer[(s.rx_tail + k - 1) % RX_CELLS]]
<1>1. c \in Nat
  BY NetAssumption DEF Ring
<1>2. f \in [1..c -> {f[k] : k \in 1..c}] /\ Content(s) = f
  BY DEF Content, FirstCells
<1>3. f = Held(s.rx_buffer, s.rx_tail, s.rx_count)
  BY DEF Held
<1> HIDE DEF c, f
<1> DEFINE M == {f[k] : k \in 1..c}
<1>4. f \in [1..c -> M]
  BY <1>2
<1> HIDE DEF M
<1>5. f \in Seq(M) /\ Len(f) = c
  BY <1>1, <1>4
<1>6. SubSeq(f, 1, Len(f)) = f /\ f \o << >> = f
  BY <1>5
<1> QED
  BY <1>2, <1>3, <1>5, <1>6 DEF c

(* Fields that the ring does not have.                                     *)
LEMMA SameRing ==
    ASSUME NEW s, NEW r, Sound(s), Whole(r), r.rx_buffer = s.rx_buffer, r.rx_head = s.rx_head,
           r.rx_tail = s.rx_tail, r.rx_count = s.rx_count, r.sock_id = s.sock_id,
           r.type = s.type, r.owner_pid = s.owner_pid, r.state \in States,
           ~r.in_use => r.state = "CLOSED"
    PROVE  Fewer(s, r, 0)
<1>1. Ring(s) /\ Ring(r) /\ Sound(r)
  BY DEF Sound, Ring
<1>2. Content(r) = Content(s)
  BY DEF Content, FirstCells
<1>3. Len(Content(s)) \in Nat
  BY <1>1, ContentFacts, NetAssumption DEF Ring
<1> QED
  BY <1>1, <1>2, <1>3, ContentFacts DEF Fewer

LEMMA DrainedSocket ==
    ASSUME NEW s, Sound(s), NEW k \in 0..s.rx_count,
           NEW r, r = [s EXCEPT !.rx_tail = (@ + k) % RX_CELLS, !.rx_count = @ - k]
    PROVE  Fewer(s, r, k) /\ FirstCells(s, k) = SubSeq(Content(s), 1, k)
<1>1. Ring(s) /\ s.rx_count \in Nat /\ k \in Nat
  BY NetAssumption DEF Sound, Ring
<1>2. /\ r = [in_use |-> s.in_use, sock_id |-> s.sock_id, owner_pid |-> s.owner_pid,
              type |-> s.type, state |-> s.state, rx_buffer |-> s.rx_buffer,
              rx_head |-> s.rx_head, rx_tail |-> (s.rx_tail + k) % RX_CELLS,
              rx_count |-> s.rx_count - k]
  BY DEF Sound, Whole
<1> DEFINE b == s.rx_buffer
           t == s.rx_tail
           c == s.rx_count
           t2 == r.rx_tail
<1>3. t \in Cells /\ c \in 0..RX_CELLS /\ k \in 0..c /\ t2 = (t + k) % RX_CELLS
  BY <1>1, <1>2 DEF Ring
<1>4. r.rx_buffer = b /\ r.rx_count = c - k /\ r.rx_head = (t + c) % RX_CELLS
  BY <1>1, <1>2 DEF Ring
<1>5. Content(s) = Held(b, t, c) /\ Len(Content(s)) = c
  BY <1>1, ContentFacts
<1>6. Content(r) = Held(b, t2, c - k) /\ FirstCells(s, k) = Held(b, t, k)
  BY <1>4 DEF Content, FirstCells, Held
<1> HIDE DEF b, t, c, t2
<1>7. /\ t2 \in Cells /\ c - k \in 0..RX_CELLS
      /\ (t2 + (c - k)) % RX_CELLS = (t + c) % RX_CELLS
      /\ Held(b, t2, c - k) = SubSeq(Held(b, t, c), k + 1, c)
      /\ Held(b, t, k) = SubSeq(Held(b, t, c), 1, k)
  <2>1. Drains(b, t, c, k, t2)
    BY <1>3 DEF Drains
  <2> QED
    BY <2>1, Drain
<1>8. Ring(r)
  BY <1>1, <1>4, <1>7 DEF Ring, b, t2
<1>9. Sound(r) /\ r.sock_id = s.sock_id
  BY <1>2, <1>8 DEF Sound, Whole
<1> QED
  BY <1>3, <1>5, <1>6, <1>7, <1>9 DEF Fewer

LEMMA FilledSocket ==
    ASSUME NEW s, Sound(s), NEW pkt \in Packets \cup {<< >>}
    PROVE  \E n : More(s, RxAdded(s, pkt), pkt, n)
<1> DEFINE n  == Smaller(Len(pkt), RX_CELLS - s.rx_count)
           b2 == [k \in Cells |-> IF Written(s.rx_head, k) <= n
                                  THEN pkt[Written(s.rx_head, k)] ELSE s.rx_buffer[k]]
           r  == RxAdded(s, pkt)
           c  == s.rx_count
           t  == s.rx_tail
           b  == s.rx_buffer
           h  == s.rx_head
<1>1. Ring(s) /\ c \in Nat /\ c <= RX_CELLS /\ RX_CELLS \in Nat /\ Len(pkt) \in Nat
  BY NetAssumption DEF Sound, Ring
<1>2. r = [s EXCEPT !.rx_buffer = b2, !.rx_head = (h + n) % RX_CELLS, !.rx_count = c + n]
  BY DEF RxAdded, Written
<1>3. n \in Nat /\ n <= RX_CELLS - c /\ n <= Len(pkt) /\ (n = Len(pkt) \/ n = RX_CELLS - c)
  BY <1>1 DEF Smaller
<1>4. b2 = [k \in Cells |-> IF Written(h, k) <= n THEN pkt[Written(h, k)] ELSE b[k]]
  OBVIOUS
<1>5. t \in Cells /\ c \in 0..RX_CELLS /\ h = (t + c) % RX_CELLS
  BY <1>1 DEF Ring
<1>6. Content(s) = Held(b, t, c)
  BY <1>1, ContentFacts
<1> HIDE DEF n, b2, r
<1>7. r = [in_use |-> s.in_use, sock_id |-> s.sock_id, owner_pid |-> s.owner_pid,
           type |-> s.type, state |-> s.state, rx_buffer |-> b2,
           rx_head |-> (h + n) % RX_CELLS, rx_tail |-> t, rx_count |-> c + n]
  BY <1>2 DEF Sound, Whole
<1>8. b2 = [k \in Cells |-> b2[k]]
  BY <1>4
<1> HIDE DEF c, t, b, h
<1>9. (h + n) % RX_CELLS = (t + (c + n)) % RX_CELLS
      /\ Held(b2, t, c + n) = Held(b, t, c) \o SubSeq(pkt, 1, n)
  <2>1. Fills(b, t, c, h, pkt, n, b2)
    BY <1>3, <1>4, <1>5 DEF Fills
  <2>2. Filled(b, t, c, h, pkt, n, b2)
    BY <2>1, Fill
  <2> QED
    BY <2>2 DEF Filled
<1>10. c + n \in 0..RX_CELLS
  BY <1>1, <1>3
<1>11. Ring(r)
  BY <1>5, <1>7, <1>8, <1>9, <1>10 DEF Ring
<1>12. Sound(r) /\ r.sock_id = s.sock_id
  BY <1>7, <1>11 DEF Sound, Whole
<1>13. Content(r) = Content(s) \o SubSeq(pkt, 1, n) /\ Len(Content(r)) = c + n
  <2>1. Content(r) = Held(r.rx_buffer, r.rx_tail, r.rx_count)
        /\ Len(Content(r)) = r.rx_count
    BY <1>11, ContentFacts
  <2>2. r.rx_buffer = b2 /\ r.rx_tail = t /\ r.rx_count = c + n
    BY <1>7
  <2> QED
    BY <1>6, <1>9, <2>1, <2>2
<1>14. n < Len(pkt) => c + n = RX_CELLS
  BY <1>1, <1>3
<1>15. More(s, r, pkt, n)
  <2>1. n \in 0..Len(pkt)
    BY <1>1, <1>3
  <2> QED
    BY <1>12, <1>13, <1>14, <2>1 DEF More
<1> QED
  BY <1>15 DEF r

----------------------------------------------------------------------------
(* A turn, seen from one socket.                                           *)

(* What RequestAssumption says of one request.                             *)
Fitting(req) ==
    /\ req.cmd = 1 => req.args[1] \in {TCP, UDP}
    /\ req.cmd = 6 => req.args[2] \in Nat
Fresh(r) ==
    /\ Sound(r) /\ r.sock_id = next_socket_id
    /\ r.rx_count = 0 /\ r.state = "CLOSED"

LEMMA FirstFound ==
    ASSUME Ids, NEW id, Found(id) # {}
    PROVE  \E i \in Slot : Found(id) = {i} /\ Min(Found(id)) = i
<1>1. PICK i \in Slot : Found(id) = {i}
  BY DEF Ids, Found
<1>2. i <= i
  BY NetAssumption DEF Slot
<1> QED
  BY <1>1, <1>2 DEF Min

LEMMA ReadableCells ==
    ASSUME Ids, AllSound(sockets), NEW id, NEW max_len \in Nat, NEW i \in Found(id)
    PROVE  \E n \in 0..sockets[i].rx_count :
              /\ n <= max_len \div CELL
              /\ Readable(id, max_len) = FirstCells(sockets[i], n)
              /\ Len(Readable(id, max_len)) = n
<1>1. Found(id) = {i} /\ Min(Found(id)) = i /\ i \in Slot
  BY FirstFound
<1> DEFINE s == sockets[i]
           d == max_len \div CELL
           n == Smaller(s.rx_count, Smaller(d, RX_CELLS))
<1>2. s.rx_count \in Nat /\ RX_CELLS \in Nat
  <2>1. Ring(s) /\ RX_CELLS \in Nat
    BY <1>1, NetAssumption DEF AllSound, Sound
  <2> HIDE DEF s
  <2> QED
    BY <2>1 DEF Ring
<1>3. d \in Nat
  BY NetAssumption
<1>4. Readable(id, max_len) = FirstCells(s, n)
  BY <1>1 DEF Readable
<1> HIDE DEF d
<1>5. n \in Nat /\ n <= s.rx_count /\ n <= d
  BY <1>2, <1>3 DEF Smaller
<1> HIDE DEF n
<1>6. Len(FirstCells(s, n)) = n
  BY <1>5 DEF FirstCells
<1> QED
  BY <1>2, <1>4, <1>5, <1>6 DEF d

LEMMA ServedSocket ==
    ASSUME Ids, AllSound(sockets), NEW req, req.cmd \in 1..7, Fitting(req),
           NEW from \in Pid, NEW i \in Slot, NEW r, r = Table(req, from)[i]
    PROVE  \/ req.cmd = 1 /\ Unused # {} /\ Fresh(r)
           \/ \E k : /\ Fewer(sockets[i], r, k)
                     /\ k > 0 => /\ req.cmd = 6
                                 /\ Readable(req.args[1], req.args[2])
                                      = SubSeq(Content(sockets[i]), 1, k)
<1> DEFINE s  == sockets[i]
           id == req.args[1]
           Kept0 == Fewer(s, r, 0)
<1>1. Sound(s) /\ Whole(s)
  BY DEF AllSound, Sound
<1>2. s.state \in States /\ (~s.in_use => s.state = "CLOSED")
  BY <1>1 DEF Sound
<1>3. ASSUME r = s PROVE Kept0
  BY <1>1, <1>2, <1>3, SameRing
<1>4. ASSUME NEW found, found \subseteq {j \in Slot : sockets[j].in_use}, NEW st \in States,
             r = InState(found, st)[i]
      PROVE  Kept0
  <2>1. r = s \/ (s.in_use /\ r = [s EXCEPT !.state = st])
    BY <1>4 DEF InState
  <2>2. CASE s.in_use /\ r = [s EXCEPT !.state = st]
    <3>1. /\ Whole(r) /\ r.rx_buffer = s.rx_buffer /\ r.rx_head = s.rx_head
          /\ r.rx_tail = s.rx_tail /\ r.rx_count = s.rx_count /\ r.sock_id = s.sock_id
          /\ r.type = s.type /\ r.owner_pid = s.owner_pid /\ r.state = st /\ r.in_use
      BY <1>1, <2>2 DEF Whole
    <3> QED
      BY <1>1, <3>1, SameRing
  <2> QED
    BY <1>3, <2>1, <2>2
<1>5. ASSUME NEW found, r = Closed(found)[i] PROVE Kept0
  <2>1. r = s \/ r = [s EXCEPT !.in_use = FALSE, !.state = "CLOSED"]
    BY <1>5 DEF Closed
  <2>2. CASE r = [s EXCEPT !.in_use = FALSE, !.state = "CLOSED"]
    <3>1. /\ Whole(r) /\ r.rx_buffer = s.rx_buffer /\ r.rx_head = s.rx_head
          /\ r.rx_tail = s.rx_tail /\ r.rx_count = s.rx_count /\ r.sock_id = s.sock_id
          /\ r.type = s.type /\ r.owner_pid = s.owner_pid /\ r.state = "CLOSED"
      BY <1>1, <2>2 DEF Whole
    <3>2. r.state \in States
      BY <3>1 DEF States
    <3> QED
      BY <1>1, <3>1, <3>2, SameRing
  <2> QED
    BY <1>3, <2>1, <2>2
<1>6. CASE req.cmd = 1 /\ Unused # {}
  <2>1. PICK j : r = Allocated(from, req.args[1])[i] /\ j = Min(Unused)
    BY <1>6 DEF Table
  <2>2. CASE i # j
    <3>1. r = s
      BY <2>1, <2>2 DEF Allocated, Ids, Tabled
    <3> QED
      BY <1>3, <3>1
  <2>3. CASE i = j
    <3>1. r = [s EXCEPT !.in_use = TRUE, !.sock_id = next_socket_id,
                  !.owner_pid = from, !.type = req.args[1], !.state = "CLOSED",
                  !.rx_head = 0, !.rx_tail = 0, !.rx_count = 0]
      BY <2>1, <2>3 DEF Allocated, Ids, Tabled
    <3>2. /\ Whole(r) /\ r.rx_buffer = s.rx_buffer /\ r.rx_head = 0 /\ r.rx_tail = 0
          /\ r.rx_count = 0 /\ r.sock_id = next_socket_id /\ r.type = req.args[1]
          /\ r.owner_pid = from /\ r.state = "CLOSED" /\ r.in_use
      BY <1>1, <3>1 DEF Whole
    <3>3. Ring(r)
      <4>1. RX_CELLS \in Nat \ {0}
        BY NetAssumption
      <4>2. (0 + 0) % RX_CELLS = 0 /\ 0 \in Cells /\ 0 \in 0..RX_CELLS
        BY <4>1 DEF Cells
      <4> QED
        BY <1>1, <3>2, <4>2 DEF Ring, Sound
    <3>4. Fresh(r)
      BY <1>6, <3>2, <3>3 DEF Fresh, Sound, States, Fitting
    <3> QED
      BY <1>6, <3>4
  <2> QED
    BY <2>2, <2>3
<1>7. CASE req.cmd = 6 /\ i \in Found(id)
  <2>1. PICK n \in 0..s.rx_count :
            /\ Readable(id, req.args[2]) = FirstCells(s, n)
            /\ Len(Readable(id, req.args[2])) = n
    BY <1>7, ReadableCells DEF Fitting
  <2>2. r = Drained(Found(id), n)[i]
    BY <1>7, <2>1 DEF Table
  <2>3. r = [s EXCEPT !.rx_tail = (@ + n) % RX_CELLS, !.rx_count = @ - n]
    BY <1>7, <2>2 DEF Drained
  <2>4. Fewer(s, r, n) /\ FirstCells(s, n) = SubSeq(Content(s), 1, n)
    BY <1>1, <2>3, DrainedSocket
  <2> QED
    BY <1>7, <2>1, <2>4
<1>8. CASE req.cmd = 6 /\ i \notin Found(id)
  <2>1. r = s
    BY <1>8 DEF Table, Drained
  <2> QED
    BY <1>3, <2>1
<1>9. CASE req.cmd \in {1, 2, 3, 4, 5, 7} /\ ~(req.cmd = 1 /\ Unused # {})
  <2>1. Found(id) \subseteq {j \in Slot : sockets[j].in_use} /\ Tcp(id) \subseteq Found(id)
    BY DEF Found, Tcp
  <2>2. {"BOUND", "LISTENING", "CONNECTED"} \subseteq States
    BY DEF States
  <2>3. \/ r = s
        \/ r = InState(Found(id), "BOUND")[i]
        \/ r = InState(Tcp(id), "LISTENING")[i]
        \/ r = InState(Tcp(id), "CONNECTED")[i]
        \/ r = Closed(Found(id))[i]
    BY <1>9 DEF Table
  <2>4. Kept0
    BY <1>3, <1>4, <1>5, <2>1, <2>2, <2>3
  <2> QED
    BY <2>4
<1> QED
  BY <1>6, <1>7, <1>8, <1>9

LEMMA LeastElement ==
    ASSUME NEW S, S \subseteq Nat, S # {}
    PROVE  \E x \in S : \A y \in S : x <= y
<1> DEFINE R == OpToRel(<, Nat)
<1>1. \A x, y \in Nat : x < y => <<x, y>> \in R
  BY DEF OpToRel
<1>2. IsWellFoundedOn(R, Nat)
  BY NatLessThanWellFounded
<1> HIDE DEF R
<1>3. PICK x \in S : \A y \in S : <<y, x>> \notin R
  BY <1>2, WFMin
<1>4. ASSUME NEW y \in S PROVE x <= y
  <2>1. x \in Nat /\ y \in Nat /\ ~(y < x)
    BY <1>1, <1>3
  <2> QED
    BY <2>1
<1> QED
  BY <1>4

(* The packet goes to a connected socket, if to any.                       *)
LEMMA RoutedSocket ==
    ASSUME NEW table, Tabled(table), AllSound(table), NEW pkt \in Packets \cup {<< >>},
           NEW i \in Slot, NEW r, r = Routed(table, pkt)[i]
    PROVE  \/ r = table[i]
           \/ table[i].state = "CONNECTED" /\ \E n : More(table[i], r, pkt, n)
<1> DEFINE open == {j \in Slot : table[j].in_use /\ table[j].state = "CONNECTED"}
           k == Min(open)
<1>1. CASE open = {}
  BY <1>1 DEF Routed
<1>2. CASE open # {}
  <2>1. Routed(table, pkt) = [table EXCEPT ![k] = RxAdded(@, pkt)]
    BY <1>2 DEF Routed
  <2>2. k \in open
    <3>1. open \subseteq Nat
      BY NetAssumption DEF Slot
    <3> HIDE DEF open
    <3>2. \E x \in open : \A y \in open : x <= y
      BY <1>2, <3>1, LeastElement
    <3> QED
      BY <3>2 DEF Min
  <2> HIDE DEF k
  <2>3. CASE i # k
    BY <2>1, <2>3 DEF Tabled
  <2>4. CASE i = k
    <3>1. r = RxAdded(table[i], pkt)
      BY <2>1, <2>4 DEF Tabled
    <3>2. table[i].state = "CONNECTED"
      BY <2>2, <2>4
    <3> QED
      BY <3>1, <3>2, FilledSocket DEF AllSound
  <2> QED
    BY <2>3, <2>4
<1> QED
  BY <1>1, <1>2

----------------------------------------------------------------------------
(* The table: whatever may reach the server, its sockets are sound and no  *)
(* slot has an id that was not given out.                                  *)
SInv ==
    /\ Ids /\ AllSound(sockets)
    /\ \A i \in Slot : sockets[i].sock_id \in 0..(next_socket_id - 1)

(* What a turn makes of the socket in slot i: m is what the request leaves,*)
(* to which the packet may be added.                                       *)
Left(i, m) ==
    LET req == Request(NET_SERVER_PID).re
    IN \/ Complete(req) /\ req.cmd = 1 /\ Unused # {} /\ Fresh(m)
       \/ \E k : /\ Fewer(sockets[i], m, k)
                 /\ k > 0 => /\ Complete(req) /\ req.cmd = 6
                             /\ Readable(req.args[1], req.args[2])
                                  = SubSeq(Content(sockets[i]), 1, k)
Added(m, r, pkt) == r = m \/ (m.state = "CONNECTED" /\ \E n : More(m, r, pkt, n))

LEMMA InitSInv == Init => SInv
<1> SUFFICES ASSUME Init PROVE SInv
  OBVIOUS
<1>1. Ids
  BY InitIInv DEF IInv
<1>2. ASSUME NEW i \in Slot PROVE Sound(sockets[i]) /\ sockets[i].sock_id = 0
  <2> DEFINE s == sockets[i]
  <2>1. s = [in_use |-> FALSE, sock_id |-> 0, owner_pid |-> 0, type |-> TCP,
             state |-> "CLOSED", rx_buffer |-> [k \in Cells |-> Nothing],
             rx_head |-> 0, rx_tail |-> 0, rx_count |-> 0]
    BY DEF Init
  <2> HIDE DEF s
  <2>2. RX_CELLS \in Nat \ {0} /\ (0 + 0) % RX_CELLS = 0 /\ 0 \in Cells /\ 0 \in 0..RX_CELLS
    <3>1. RX_CELLS \in Nat \ {0}
      BY NetAssumption
    <3> QED
      BY <3>1 DEF Cells
  <2>3. Ring(s)
    BY <2>1, <2>2 DEF Ring
  <2>4. 0 \in Pid
    BY MailboxAssumption DEF Pid
  <2>5. Sound(s)
    BY <2>1, <2>3, <2>4 DEF Sound, Whole, States
  <2> QED
    BY <2>1, <2>5 DEF s
<1>3. next_socket_id = 1
  BY DEF Init
<1> QED
  BY <1>1, <1>2, <1>3 DEF SInv, AllSound

LEMMA ServeSockets ==
    ASSUME SInv, NEW pkt \in Packets \cup {<< >>}, serve(pkt),
           Request(NET_SERVER_PID).re \in Kind, Request(NET_SERVER_PID).from \in Clients
    PROVE  /\ SInv'
           /\ \A i \in Slot : \E m : Left(i, m) /\ Added(m, sockets'[i], pkt)
<1> DEFINE req   == Request(NET_SERVER_PID).re
           from  == Request(NET_SERVER_PID).from
           table == IF Complete(req) THEN Table(req, from) ELSE sockets
<1>1. Ids /\ AllSound(sockets) /\ Tabled(sockets) /\ from \in Pid
  BY Pids DEF SInv, Ids
<1>2. sockets' = Routed(table, pkt)
  BY DEF serve
<1>3. Complete(req) => req.cmd \in 1..7 /\ Fitting(req)
  <2>1. Complete(req) => Fitting(req)
    <3>1. req \in ApiRequests \cup RawRequests
      BY DEF Kind
    <3> HIDE DEF req
    <3> QED
      BY <3>1, RequestAssumption DEF Fitting
  <2>2. Complete(req) => req.cmd \in 1..7
    BY DEF Complete, Needs
  <2> QED
    BY <2>1, <2>2
<1>4. \A i \in Slot : Left(i, table[i])
  <2> TAKE i \in Slot
  <2>1. CASE ~Complete(req)
    <3>1. Sound(sockets[i]) /\ Whole(sockets[i])
      BY <1>1 DEF AllSound, Sound
    <3>2. sockets[i].state \in States /\ (~sockets[i].in_use => sockets[i].state = "CLOSED")
      BY <3>1 DEF Sound
    <3>3. Fewer(sockets[i], sockets[i], 0)
      BY <3>1, <3>2, SameRing
    <3> QED
      BY <2>1, <3>3 DEF Left
  <2>2. CASE Complete(req)
    <3> DEFINE m == Table(req, from)[i]
    <3>1. \/ req.cmd = 1 /\ Unused # {} /\ Fresh(m)
          \/ \E k : /\ Fewer(sockets[i], m, k)
                    /\ k > 0 => /\ req.cmd = 6
                                /\ Readable(req.args[1], req.args[2])
                                     = SubSeq(Content(sockets[i]), 1, k)
      BY <1>1, <1>3, <2>2, ServedSocket
    <3>2. table[i] = m
      BY <2>2
    <3> HIDE DEF table, m
    <3> QED
      BY <2>2, <3>1, <3>2 DEF Left
  <2> QED
    BY <2>1, <2>2
<1>5. Tabled(table)
  <2>1. CASE Complete(req) /\ (req.cmd # 1 \/ Unused = {})
    <3> DEFINE new == Table(req, from)
    <3>1. /\ new = [i \in Slot |-> new[i]]
          /\ \A i \in Slot : Kept(sockets[i], new[i])
      BY <1>1, <1>3, <2>1, OldSocketsKept
    <3> HIDE DEF new
    <3>2. Tabled(new)
      BY <3>1 DEF Tabled, Kept
    <3> QED
      BY <2>1, <3>2 DEF new
  <2>2. CASE Complete(req) /\ req.cmd = 1 /\ Unused # {}
    <3>1. Table(req, from) = Allocated(from, req.args[1])
      BY <2>2 DEF Table
    <3> QED
      BY <1>1, <2>2, <3>1, NewSocketStamped
  <2> QED
    BY <1>1, <2>1, <2>2
<1> HIDE DEF table
<1>6. AllSound(table)
  BY <1>4 DEF AllSound, Left, Fresh, Fewer
<1>7. ASSUME NEW i \in Slot PROVE Added(table[i], sockets'[i], pkt)
  BY <1>2, <1>5, <1>6, RoutedSocket DEF Added
<1>8. AllSound(sockets')
  BY <1>6, <1>7 DEF AllSound, Added, More
<1>9. Ids'
  BY <1>1, ServeIds, ServeStamp DEF Ids
<1>10. ASSUME NEW i \in Slot PROVE sockets'[i].sock_id \in 0..(next_socket_id' - 1)
  <2>1. sockets'[i].sock_id = table[i].sock_id
    BY <1>7 DEF Added, More
  <2>2. \/ table[i].sock_id = sockets[i].sock_id
        \/ /\ table[i].sock_id = next_socket_id
           /\ Complete(req) /\ req.cmd = 1 /\ Unused # {}
    BY <1>4 DEF Left, Fresh, Fewer
  <2>3. next_socket_id' = IF Complete(req) /\ req.cmd = 1 /\ Unused # {}
                          THEN next_socket_id + 1 ELSE next_socket_id
    BY DEF serve
  <2>4. next_socket_id \in Nat /\ sockets[i].sock_id \in 0..(next_socket_id - 1)
    BY DEF SInv, Ids
  <2> QED
    BY <2>1, <2>2, <2>3, <2>4
<1> QED
  BY <1>4, <1>7, <1>8, <1>9, <1>10 DEF SInv

LEMMA IdleSockets ==
    ASSUME SInv, NEW pkt \in Packets \cup {<< >>}, idle_turn(pkt)
    PROVE  SInv' /\ \A i \in Slot : Added(sockets[i], sockets'[i], pkt)
<1>1. sockets' = Routed(sockets, pkt) /\ next_socket_id' = next_socket_id
  BY DEF idle_turn
<1>2. Tabled(sockets) /\ AllSound(sockets)
  BY DEF SInv, Ids
<1>3. ASSUME NEW i \in Slot PROVE Added(sockets[i], sockets'[i], pkt)
  BY <1>1, <1>2, RoutedSocket DEF Added
<1>4. AllSound(sockets')
  BY <1>2, <1>3 DEF AllSound, Added, More
<1>5. Tabled(sockets') /\ \A i \in Slot : Same(sockets[i], sockets'[i])
  BY <1>1, <1>2, RoutedStamp
<1>6. Ids'
  BY <1>1, <1>5 DEF SInv, Ids, Same
<1>7. \A i \in Slot : sockets'[i].sock_id \in 0..(next_socket_id' - 1)
  BY <1>1, <1>5 DEF SInv, Same
<1> QED
  BY <1>3, <1>4, <1>6, <1>7 DEF SInv

LEMMA OthersKeepSockets ==
    ASSUME SInv, UNCHANGED <<sockets, next_socket_id>>
    PROVE  SInv'
BY DEF SInv, Ids, AllSound

----------------------------------------------------------------------------
(* The order of the answers.                                               *)

DueKind == {req \in Kind : Due(req)}

(* No read asks for more than a message holds: what the code leaves to its *)
(* callers.                                                                *)
ReadsFit == \A req \in Kind : Complete(req) /\ req.cmd = 6 => req.args[2] <= MAX_MESSAGE_SIZE

LEMMA WholeCells ==
    ASSUME NEW max_len \in Nat, NEW n \in Nat, n <= max_len \div CELL
    PROVE  n * CELL \in Int /\ n * CELL <= max_len /\ (n > 0 => n * CELL > 0)
<1>1. CELL \in Nat \ {0}
  BY NetAssumption
<1> DEFINE d == max_len \div CELL
<1>2. d \in Nat /\ d * CELL <= max_len
  BY <1>1
<1> HIDE DEF d
<1>3. n * CELL <= d * CELL /\ n * CELL \in Int /\ d * CELL \in Int
  BY <1>1, <1>2 DEF d
<1>4. n > 0 => n * CELL > 0
  BY <1>1
<1> QED
  BY <1>2, <1>3, <1>4

(* The bytes that a request gets.                                          *)
Payload(req) ==
    IF Complete(req) /\ req.cmd = 6 THEN Readable(req.args[1], req.args[2]) ELSE << >>

LEMMA PayloadFits ==
    ASSUME ReadsFit, SInv, NEW req \in Kind, Payload(req) # << >>
    PROVE  Len(Payload(req)) * CELL \in Size
<1> DEFINE id == req.args[1]
           max_len == req.args[2]
           cells == Readable(id, max_len)
<1>1. Complete(req) /\ req.cmd = 6 /\ Payload(req) = cells
  BY DEF Payload
<1>2. max_len \in Nat /\ max_len <= MAX_MESSAGE_SIZE /\ MAX_MESSAGE_SIZE \in Nat
  BY <1>1, RequestAssumption, MailboxAssumption DEF ReadsFit, Kind
<1>3. PICK i : i \in Found(id)
  BY <1>1 DEF Readable
<1>4. i \in Slot /\ Ids /\ AllSound(sockets)
  BY <1>3 DEF Found, SInv
<1>5. PICK n \in 0..sockets[i].rx_count :
         n <= max_len \div CELL /\ cells = FirstCells(sockets[i], n) /\ Len(cells) = n
  BY <1>2, <1>3, <1>4, ReadableCells
<1>6. n \in Nat /\ n # 0
  <2>1. n \in Nat
    <3> DEFINE s == sockets[i]
    <3>1. Ring(s) /\ RX_CELLS \in Nat
      BY <1>4, NetAssumption DEF AllSound, Sound
    <3> HIDE DEF s
    <3>2. s.rx_count \in Nat
      BY <3>1 DEF Ring
    <3> QED
      BY <3>2 DEF s
  <2>2. n = 0 => cells = << >>
    BY <1>5 DEF FirstCells
  <2> HIDE DEF cells
  <2> QED
    BY <1>1, <2>1, <2>2
<1> HIDE DEF cells, max_len
<1>7. n * CELL \in Int /\ n * CELL <= max_len /\ n * CELL > 0
  <2>1. n > 0
    BY <1>6
  <2> QED
    BY <1>2, <1>5, <1>6, <2>1, WholeCells
<1>8. n * CELL \in Size
  <2> DEFINE z == n * CELL
  <2>1. z \in Int /\ z <= max_len /\ z > 0
    BY <1>7
  <2> HIDE DEF z
  <2>2. z \in Size
    BY <1>2, <2>1 DEF Size
  <2> QED
    BY <2>2 DEF z
<1> QED
  BY <1>1, <1>5, <1>8

(* A reply is sent with a size that a message may have, and carries what   *)
(* was taken from the ring.                                                *)
LEMMA ReplyFits ==
    ASSUME ReadsFit, SInv, NEW req \in Kind, req = Request(NET_SERVER_PID).re
    PROVE  /\ ~Due(req) => Reply(req) = Taken(ipc, NET_SERVER_PID)
           /\ Due(req) => \E size \in Size : \E d :
                /\ d.from = NET_SERVER_PID /\ d.re = req /\ d.bytes = Payload(req)
                /\ Reply(req) = Sent(Taken(ipc, NET_SERVER_PID), NET_SERVER_PID,
                                     Request(NET_SERVER_PID).from, size, d)
<1> DEFINE S == NET_SERVER_PID
           cells == Payload(req)
<1>1. 4 \in Size
  BY ClientsAssumption, MailboxAssumption DEF Size
<1>2. cells # << >> => Len(cells) * CELL \in Size
  BY PayloadFits
<1>3. ASSUME NEW size \in Size, NEW value, Reply(req) = Answered(S, size, value, cells)
      PROVE  \E z \in Size : \E d :
                /\ d.from = S /\ d.re = req /\ d.bytes = cells
                /\ Reply(req) = Sent(Taken(ipc, S), S, Request(S).from, z, d)
  <2> WITNESS size \in Size
  <2> WITNESS [from |-> S, re |-> req, value |-> value, bytes |-> cells]
  <2> HIDE DEF cells
  <2> QED
    BY <1>3 DEF Answered
<1>4. ~Due(req) => Reply(req) = Taken(ipc, S)
  BY DEF Reply
<1>5. Due(req) => \/ cells # << >> /\ Reply(req) = Answered(S, Len(cells) * CELL, 0, cells)
                  \/ \E value : Reply(req) = Answered(S, 4, value, cells)
  BY DEF Reply, Payload
<1> HIDE DEF cells
<1> QED
  BY <1>1, <1>2, <1>3, <1>4, <1>5 DEF cells

(* What the server takes is a request of a client.                         *)
LEMMA RequestKnown ==
    ASSUME NEW due, NEW R, R[NET_SERVER_PID] = Kind, Orderly(ipc, owed, due, R),
           HasMail(ipc, NET_SERVER_PID)
    PROVE  Request(NET_SERVER_PID).re \in Kind /\ Request(NET_SERVER_PID).from \in Clients
<1> DEFINE S == NET_SERVER_PID
<1>1. PICK T : Holds(ipc, T) /\ Apart(T, R)
  BY DEF Orderly
<1>2. ipc.mailbox[S] \in Seq(T[S]) /\ ipc.mailbox[S] # << >>
  BY <1>1, Pids DEF Holds, HasMail
<1>3. Oldest(ipc, S) \in T[S]
  BY <1>2, TailFacts DEF Oldest
<1> QED
  BY <1>1, <1>3, NetAssumption DEF Apart, Request

LEMMA ServeOrderly ==
    ASSUME ReadsFit, SInv,
           NEW due, due[NET_SERVER_PID] = DueKind, NEW R, R[NET_SERVER_PID] = Kind,
           Orderly(ipc, owed, due, R), NEW pkt \in Packets \cup {<< >>}, serve(pkt)
    PROVE  SInv' /\ Orderly(ipc', owed', due, R)
<1> DEFINE S   == NET_SERVER_PID
           m   == Oldest(ipc, S)
           req == m.data.re
<1>1. HasMail(ipc, S) /\ owed' = owed /\ ipc' = Reply(req)
  BY DEF serve, Request
<1>2. req = Request(S).re /\ m.data.from = Request(S).from
  BY DEF Request
<1>3. req \in Kind /\ Request(S).from \in Clients
  BY <1>1, <1>2, RequestKnown
<1>4. SInv'
  BY <1>2, <1>3, ServeSockets
<1> HIDE DEF m
<1>5. Orderly(ipc', owed, due, R)
  <2>1. S \in Servers /\ HasMail(ipc, S) /\ m = Oldest(ipc, S)
    BY <1>1, NetAssumption DEF m
  <2>2. CASE Due(req)
    <3>1. PICK size \in Size : \E d :
            /\ d.from = S /\ d.re = m.data.re
            /\ ipc' = Sent(Taken(ipc, S), S, m.data.from, size, d)
      BY <1>1, <1>2, <1>3, <2>2, ReplyFits
    <3>2. PICK d :
            /\ d.from = S /\ d.re = m.data.re
            /\ ipc' = Sent(Taken(ipc, S), S, m.data.from, size, d)
      BY <3>1
    <3>3. m.data.re \in due[S]
      BY <1>3, <2>2 DEF DueKind
    <3> QED
      BY <2>1, <3>2, <3>3, ServedOrderly
  <2>3. CASE ~Due(req)
    <3>1. ipc' = Taken(ipc, S)
      BY <1>1, <1>2, <1>3, <2>3, ReplyFits
    <3>2. m.data.re \notin due[S]
      BY <2>3 DEF DueKind
    <3>3. PICK data : data.from = S /\ data.re = m.data.re
      <4> WITNESS [from |-> S, re |-> m.data.re]
      <4> QED OBVIOUS
    <3> QED
      BY <2>1, <3>1, <3>2, <3>3, ServedOrderly
  <2> QED
    BY <2>2, <2>3
<1> QED
  BY <1>1, <1>4, <1>5

LEMMA UseOrderly ==
    ASSUME SInv, NEW due, due[NET_SERVER_PID] = DueKind, NEW R, R[NET_SERVER_PID] = Kind,
           Orderly(ipc, owed, due, R), NEW c \in Clients, use(c)
    PROVE  SInv' /\ Orderly(ipc', owed', due, R)
<1> DEFINE S == NET_SERVER_PID
<1>1. ASSUME NEW req \in Kind
      PROVE  /\ call(c, S, req, Due(req)) => call(c, S, req, req \in due[S])
             /\ post(c, S, req, Due(req)) => post(c, S, req, req \in due[S])
  BY DEF DueKind, call, post, Owing
<1>2. \/ \E req \in Kind : \/ call(c, S, req, req \in due[S])
                           \/ call_fails(c, S, req)
                           \/ post(c, S, req, req \in due[S])
      \/ collect(c)
  BY <1>1 DEF use, Kind
<1>3. Orderly(ipc', owed', due, R)
  BY <1>2, ClientOrderly, NetAssumption
<1>4. SInv'
  BY OthersKeepSockets DEF use
<1> QED
  BY <1>3, <1>4

(* The server alone.                                                       *)
Dues  == [s \in Servers |-> IF s = NET_SERVER_PID THEN DueKind ELSE {}]
Kinds == [s \in Servers |-> IF s = NET_SERVER_PID THEN Kind ELSE {}]
OInv  == SInv /\ Orderly(ipc, owed, Dues, Kinds)

LEMMA Alone == Dues[NET_SERVER_PID] = DueKind /\ Kinds[NET_SERVER_PID] = Kind
BY NetAssumption DEF Dues, Kinds

LEMMA OInvTheorem == ASSUME ReadsFit PROVE Spec => []OInv
<1>1. Init => OInv
  <2>1. Init => Orderly(ipc, owed, Dues, Kinds)
    BY EmptyOrderly DEF Init, ClientInit
  <2> QED
    BY <2>1, InitSInv DEF OInv
<1>2. OInv /\ [Next]_vars => OInv'
  <2> SUFFICES ASSUME OInv, [Next]_vars PROVE OInv'
    OBVIOUS
  <2>1. ASSUME NEW pkt \in Packets \cup {<< >>}, serve(pkt) PROVE OInv'
    BY <2>1, Alone, ServeOrderly DEF OInv
  <2>2. ASSUME NEW pkt \in Packets \cup {<< >>}, idle_turn(pkt) PROVE OInv'
    BY <2>2, IdleSockets DEF idle_turn, clientVars, OInv
  <2>3. ASSUME NEW c \in Clients, use(c) PROVE OInv'
    BY <2>3, Alone, UseOrderly DEF OInv
  <2>4. CASE UNCHANGED vars
    BY <2>4, OthersKeepSockets DEF vars, clientVars, OInv
  <2> QED
    BY <2>1, <2>2, <2>3, <2>4 DEF Next, Turn
<1> QED
  BY <1>1, <1>2, PTL DEF Spec

(* As long as no read asks for more than a message holds, every request of *)
(* at least 4 bytes gets one answer, in the order it was asked, however    *)
(* many clients share the pool: the reply's send (net_srv.c:305, and       *)
(* net_srv.c:284 for bytes) always finds a slot.                           *)
THEOREM OrderTheorem == ASSUME ReadsFit PROVE Spec => []AnswersInOrder
<1>1. OInv => AnswersInOrder
  BY Alone, NetAssumption DEF OInv, Orderly, Expects, AnswersInOrder, InOrder, DueKind, Kind
<1> QED
  BY <1>1, OInvTheorem, PTL

----------------------------------------------------------------------------
(* The rings.                                                              *)

(* What the server sends lands at the end of the client's mailbox.         *)
LEMMA ReplyLands ==
    ASSUME ReadsFit, OInv, NEW pkt \in Packets \cup {<< >>}, serve(pkt),
           Due(Request(NET_SERVER_PID).re)
    PROVE  SentTo(Request(NET_SERVER_PID).from, Payload(Request(NET_SERVER_PID).re))
<1> DEFINE S   == NET_SERVER_PID
           c   == Request(S).from
           req == Request(S).re
           rest == Taken(ipc, S)
<1>1. HasMail(ipc, S) /\ ipc' = Reply(req) /\ SInv /\ Orderly(ipc, owed, Dues, Kinds)
  BY DEF serve, OInv
<1>2. req \in Kind /\ c \in Clients
  BY <1>1, Alone, RequestKnown
<1>3. PICK size \in Size : \E d :
         /\ d.bytes = Payload(req)
         /\ ipc' = Sent(rest, S, c, size, d)
  BY <1>1, <1>2, ReplyFits
<1>4. PICK d : d.bytes = Payload(req) /\ ipc' = Sent(rest, S, c, size, d)
  BY <1>3
<1>5. PICK T : Holds(ipc, T)
  BY <1>1 DEF Orderly
<1>6. c \in Pid /\ c # S /\ S \in Pid
  BY <1>2, Pids
<1> HIDE DEF c, req
<1>7. /\ rest.free = ipc.free + 1 /\ ipc.free \in Nat
      /\ rest.mailbox = [ipc.mailbox EXCEPT ![S] = Tail(@)]
  BY <1>1 DEF Taken, Orderly, Pooled
<1>8. rest.mailbox[c] = ipc.mailbox[c] /\ c \in DOMAIN rest.mailbox
      /\ ipc.mailbox[c] \in Seq(T[c])
  BY <1>5, <1>6, <1>7 DEF Holds
<1> HIDE DEF rest
<1>9. Accepts(rest, c, size)
  BY <1>6, <1>7 DEF Accepts
<1> DEFINE m == [sender_pid |-> S, size |-> size, data |-> d]
<1>10. ipc'.mailbox = [rest.mailbox EXCEPT ![c] = Append(@, m)]
  BY <1>4, <1>9 DEF Sent
<1>11. m.data.bytes = Payload(req)
  BY <1>4
<1> HIDE DEF m
<1> DEFINE old == ipc.mailbox[c]
           M == T[c]
<1>12. ipc'.mailbox[c] = Append(old, m) /\ old \in Seq(M)
  BY <1>8, <1>10
<1> HIDE DEF old, M
<1>13. /\ Len(old) \in Nat /\ Len(Append(old, m)) = Len(old) + 1
       /\ Append(old, m)[Len(old) + 1] = m
  BY <1>12, AppendFacts
<1>14. /\ Len(ipc'.mailbox[c]) > Len(old)
       /\ ipc'.mailbox[c][Len(ipc'.mailbox[c])] = m
  BY <1>12, <1>13
<1> QED
  BY <1>11, <1>14 DEF SentTo, old, c, req

(* A socket that kept its id is a queue; others start empty.               *)
LEMMA QueueKept ==
    ASSUME NEW i \in Slot, NEW m, NEW k, Fewer(sockets[i], m, k),
           k > 0 => \E c \in Clients : SentTo(c, SubSeq(Content(sockets[i]), 1, k)),
           NEW pkt \in Packets \cup {<< >>}, Added(m, sockets'[i], pkt)
    PROVE  /\ sockets'[i].sock_id = sockets[i].sock_id
           /\ QueueStep(Unread(i), Unread(i)')
<1> DEFINE old == Content(sockets[i])
           new == Content(sockets'[i])
           left == SubSeq(old, k + 1, Len(old))
           Step(p, n) == /\ new = left \o SubSeq(p, 1, n)
                         /\ k > 0 => \E c \in Clients : SentTo(c, SubSeq(old, 1, k))
                         /\ n < Len(p) => Len(new) = RX_CELLS
<1>1. Unread(i) = old /\ Unread(i)' = new
  BY DEF Unread, Content
<1>2. k \in 0..Len(old) /\ Content(m) = left /\ Sound(m) /\ m.sock_id = sockets[i].sock_id
  BY DEF Fewer
<1>3. CASE sockets'[i] = m
  <2>1. << >> \in Packets \cup {<< >>} /\ 0 \in 0..Len(<< >>) /\ ~(0 < Len(<< >>))
        /\ SubSeq(<< >>, 1, 0) = << >>
    OBVIOUS
  <2>2. Content(m) \o << >> = Content(m)
    BY <1>2, ContentFacts DEF Sound
  <2>3. Step(<< >>, 0)
    BY <1>2, <1>3, <2>1, <2>2
  <2> HIDE DEF Step
  <2>4. \E p \in Packets \cup {<< >>} : \E n \in 0..Len(p) : Step(p, n)
    BY <2>1, <2>3
  <2> QED
    BY <1>1, <1>2, <1>3, <2>4 DEF QueueStep, Step
<1>4. CASE sockets'[i] # m
  <2>1. PICK n : More(m, sockets'[i], pkt, n)
    BY <1>4 DEF Added
  <2>2. /\ sockets'[i].sock_id = m.sock_id /\ n \in 0..Len(pkt)
        /\ new = Content(m) \o SubSeq(pkt, 1, n)
        /\ n < Len(pkt) => Len(new) = RX_CELLS
    BY <2>1 DEF More
  <2>3. Step(pkt, n)
    BY <1>2, <2>2
  <2> HIDE DEF Step
  <2>4. \E p \in Packets \cup {<< >>} : \E x \in 0..Len(p) : Step(p, x)
    BY <2>2, <2>3
  <2> QED
    BY <1>1, <1>2, <2>2, <2>4 DEF QueueStep, Step
<1> QED
  BY <1>3, <1>4

(* As long as no read asks for more than a message holds, the ring of      *)
(* every socket is a queue whose front leaves only in a reply that some    *)
(* client gets, and whose end drops only what finds it full: the index     *)
(* arithmetic of recv_socket_data and socket_add_rx_data loses, repeats    *)
(* and reorders no byte, and a slot that gets a new socket shows none of   *)
(* the old one's.                                                          *)
THEOREM RingsTheorem == ASSUME ReadsFit PROVE Spec => RingsAreQueues
<1> DEFINE Good2(i) == IF sockets[i].sock_id = sockets[i].sock_id'
                       THEN QueueStep(Unread(i), Unread(i)') ELSE Unread(i)' = << >>
<1>1. ASSUME OInv, NEW pkt \in Packets \cup {<< >>}, serve(pkt), NEW i \in Slot
      PROVE  Good2(i)
  <2> DEFINE req == Request(NET_SERVER_PID).re
             c   == Request(NET_SERVER_PID).from
  <2>1. SInv /\ Ids /\ HasMail(ipc, NET_SERVER_PID)
    BY <1>1 DEF OInv, SInv, serve
  <2>2. req \in Kind /\ c \in Clients
    BY <1>1, <2>1, Alone, RequestKnown DEF OInv
  <2>3. PICK m : Left(i, m) /\ Added(m, sockets'[i], pkt)
    BY <1>1, <2>1, <2>2, ServeSockets
  <2>4. CASE Fresh(m)
    <3>1. sockets'[i] = m
      BY <2>3, <2>4 DEF Added, Fresh
    <3>2. sockets[i].sock_id # sockets'[i].sock_id
      <4>1. sockets[i].sock_id \in 0..(next_socket_id - 1) /\ next_socket_id \in Nat
        BY <2>1 DEF SInv, Ids
      <4> QED
        BY <2>4, <3>1, <4>1 DEF Fresh
    <3>3. FirstCells(sockets'[i], 0) = << >>
      BY DEF FirstCells
    <3> QED
      BY <2>4, <3>1, <3>2, <3>3 DEF Fresh, Unread, FirstCells
  <2>5. CASE ~Fresh(m)
    <3>1. PICK k : /\ Fewer(sockets[i], m, k)
                   /\ k > 0 => /\ Complete(req) /\ req.cmd = 6
                               /\ Readable(req.args[1], req.args[2])
                                    = SubSeq(Content(sockets[i]), 1, k)
      BY <2>3, <2>5 DEF Left
    <3>2. ASSUME k > 0
          PROVE  \E d \in Clients : SentTo(d, SubSeq(Content(sockets[i]), 1, k))
      <4>1. Payload(req) = SubSeq(Content(sockets[i]), 1, k)
        BY <3>1, <3>2 DEF Payload
      <4>2. Due(req)
        <5>1. req.size \in Nat /\ req.size - 4 >= 12
          BY <2>2, <3>1, <3>2, RequestAssumption DEF Complete, Needs, Kind
        <5> QED
          BY <5>1 DEF Due
      <4>3. SentTo(c, Payload(req))
        BY <1>1, <4>2, ReplyLands
      <4> QED
        BY <2>2, <4>1, <4>3
    <3>3. /\ sockets'[i].sock_id = sockets[i].sock_id
          /\ QueueStep(Unread(i), Unread(i)')
      BY <2>3, <3>1, <3>2, QueueKept
    <3> QED
      BY <3>3
  <2> QED
    BY <2>4, <2>5
<1>2. ASSUME OInv, NEW pkt \in Packets \cup {<< >>}, idle_turn(pkt), NEW i \in Slot
      PROVE  Good2(i)
  <2>1. SInv /\ Added(sockets[i], sockets'[i], pkt)
    BY <1>2, IdleSockets DEF OInv
  <2>2. Fewer(sockets[i], sockets[i], 0)
    <3>1. Sound(sockets[i]) /\ Whole(sockets[i])
      BY <2>1 DEF SInv, AllSound, Sound
    <3>2. sockets[i].state \in States /\ (~sockets[i].in_use => sockets[i].state = "CLOSED")
      BY <3>1 DEF Sound
    <3> QED
      BY <3>1, <3>2, SameRing
  <2>3. ~(0 > 0)
    OBVIOUS
  <2>4. /\ sockets'[i].sock_id = sockets[i].sock_id
        /\ QueueStep(Unread(i), Unread(i)')
    BY <2>1, <2>2, <2>3, QueueKept
  <2> QED
    BY <2>4
<1> HIDE DEF Good2
<1>3. ASSUME OInv, [Next]_vars
      PROVE  [\A i \in Slot : Good2(i)]_sockets
  <2>1. CASE \E c \in Clients : use(c)
    BY <2>1 DEF use
  <2>2. CASE UNCHANGED vars
    BY <2>2 DEF vars
  <2>3. CASE Turn
    BY <1>1, <1>2, <1>3, <2>3 DEF Turn
  <2> QED
    BY <1>3, <2>1, <2>2, <2>3 DEF Next
<1>4. OInv /\ [Next]_vars =>
        [\A i \in Slot : IF sockets[i].sock_id = sockets[i].sock_id'
                         THEN QueueStep(Unread(i), Unread(i)') ELSE Unread(i)' = << >>]_sockets
  BY <1>3 DEF Good2
<1> QED
  BY <1>4, OInvTheorem, PTL DEF Spec, RingsAreQueues

----------------------------------------------------------------------------
(* The types.                                                              *)

AskedIn(q) == {k \in DOMAIN q : Asks(q[k].data.re)}
TInv ==
    /\ SInv /\ Pooled(ipc) /\ IInv
    /\ IsFiniteSet(AskedIn(ipc.mailbox[NET_SERVER_PID]))
    /\ SocketsAsked <= LAST_ID

LEMMA AskedAfterAppend ==
    ASSUME NEW M, NEW q \in Seq(M), NEW m, IsFiniteSet(AskedIn(q))
    PROVE  /\ IsFiniteSet(AskedIn(Append(q, m)))
           /\ Cardinality(AskedIn(Append(q, m))) =
                Cardinality(AskedIn(q)) + (IF Asks(m.data.re) THEN 1 ELSE 0)
<1> DEFINE q2 == Append(q, m)
           n  == Len(q)
<1>1. /\ n \in Nat /\ DOMAIN q = 1..n /\ DOMAIN q2 = 1..(n + 1)
      /\ \A k \in 1..n : q2[k] = q[k]
      /\ q2[n + 1] = m
  OBVIOUS
<1> HIDE DEF q2, n
<1>2. AskedIn(q2) = IF Asks(m.data.re) THEN AskedIn(q) \cup {n + 1} ELSE AskedIn(q)
  BY <1>1 DEF AskedIn
<1>3. n + 1 \notin AskedIn(q)
  BY <1>1 DEF AskedIn
<1>4. Cardinality(AskedIn(q)) \in Nat
  BY FS_CardinalityType
<1> DEFINE S == AskedIn(q)
<1> HIDE DEF S
<1>5. /\ IsFiniteSet(S \cup {n + 1})
      /\ Cardinality(S \cup {n + 1}) = Cardinality(S) + 1
  BY <1>3, FS_AddElement DEF S
<1> QED
  BY <1>2, <1>4, <1>5 DEF S, q2

LEMMA AskedAfterTail ==
    ASSUME NEW M, NEW q \in Seq(M), q # << >>, IsFiniteSet(AskedIn(q))
    PROVE  /\ IsFiniteSet(AskedIn(Tail(q)))
           /\ Cardinality(AskedIn(Tail(q))) =
                Cardinality(AskedIn(q)) - (IF Asks(Head(q).data.re) THEN 1 ELSE 0)
<1> DEFINE q2 == Tail(q)
           n  == Len(q)
           S  == AskedIn(q) \ {1}
           S2 == AskedIn(q2)
           f  == [k \in S |-> k - 1]
<1>1. /\ n \in Nat \ {0} /\ DOMAIN q = 1..n /\ DOMAIN q2 = 1..(n - 1)
      /\ \A k \in 1..(n - 1) : q2[k] = q[k + 1]
      /\ Head(q) = q[1]
  OBVIOUS
<1> HIDE DEF q2, n
<1>2. S \subseteq 2..n /\ S2 = {k \in 1..(n - 1) : k + 1 \in S}
  BY <1>1 DEF AskedIn
<1>3. f \in Bijection(S, S2)
  <2>1. f \in [S -> S2]
    BY <1>1, <1>2
  <2>2. ASSUME NEW j \in S, NEW k \in S, f[j] = f[k] PROVE j = k
    BY <1>1, <1>2, <2>2
  <2>3. ASSUME NEW k \in S2 PROVE \E j \in S : f[j] = k
    <3>1. k + 1 \in S /\ (k + 1) - 1 = k
      BY <1>1, <1>2
    <3> QED
      BY <3>1
  <2> HIDE DEF f, S, S2
  <2> QED
    BY <2>1, <2>2, <2>3 DEF Bijection, Injection, Surjection, IsInjective
<1>4. IsFiniteSet(S) /\ Cardinality(S) =
         Cardinality(AskedIn(q)) - (IF Asks(Head(q).data.re) THEN 1 ELSE 0)
  <2>1. 1 \in AskedIn(q) <=> Asks(Head(q).data.re)
    BY <1>1 DEF AskedIn
  <2>2. Cardinality(AskedIn(q)) \in Nat
    BY FS_CardinalityType
  <2> DEFINE A == AskedIn(q)
  <2> HIDE DEF A
  <2>3. /\ IsFiniteSet(A \ {1})
        /\ Cardinality(A \ {1}) = IF 1 \in A THEN Cardinality(A) - 1 ELSE Cardinality(A)
    BY FS_RemoveElement DEF A
  <2> QED
    BY <2>1, <2>2, <2>3 DEF A
<1> HIDE DEF f, S, S2
<1>5. IsFiniteSet(S2) /\ Cardinality(S2) = Cardinality(S)
  <2>1. ExistsBijection(S, S2)
    BY <1>3 DEF ExistsBijection
  <2> QED
    BY <1>4, <2>1, FS_Bijection
<1> QED
  BY <1>4, <1>5 DEF S2, q2

(* AskedIn and the sockets made so far stay in the bound.                  *)
Within(box, made) ==
    /\ Pooled(box) /\ IsFiniteSet(AskedIn(box.mailbox[NET_SERVER_PID]))
    /\ made + Cardinality(AskedIn(box.mailbox[NET_SERVER_PID])) <= LAST_ID

LEMMA WithinAsked ==
    TInv <=> SInv /\ IInv /\ Within(ipc, next_socket_id - 1)
BY DEF TInv, Within, SocketsAsked, AskedIn

LEMMA TakenWithin ==
    ASSUME NEW box, NEW T, Holds(box, T), NEW made, Within(box, made), NEW c \in Clients
    PROVE  Within(Taken(box, c), made)
<1>1. c \in Pid /\ c # NET_SERVER_PID /\ NET_SERVER_PID \in Pid
  BY Pids
<1>2. Pooled(Taken(box, c))
  BY <1>1, TakenPooled DEF Within
<1>3. Taken(box, c).mailbox[NET_SERVER_PID] = box.mailbox[NET_SERVER_PID]
  BY <1>1 DEF Taken, Holds
<1> QED
  BY <1>2, <1>3 DEF Within

LEMMA SentWithin ==
    ASSUME NEW box, NEW T, Holds(box, T), NEW made \in Int, Within(box, made),
           NEW c \in Clients, NEW req,
           NEW count, count = made + Cardinality(AskedIn(box.mailbox[NET_SERVER_PID])),
           Asks(req) => count < LAST_ID
    PROVE  Within(Sent(box, c, NET_SERVER_PID, req.size, [from |-> c, re |-> req]), made)
<1> DEFINE S     == NET_SERVER_PID
           q     == box.mailbox[S]
           after == Sent(box, c, S, req.size, [from |-> c, re |-> req])
           m     == [sender_pid |-> c, size |-> req.size, data |-> [from |-> c, re |-> req]]
<1>1. Pooled(after)
  BY SentPooled DEF Within
<1>2. after.mailbox[S] = q \/ after.mailbox[S] = Append(q, m)
  BY Pids DEF Sent, Holds
<1>3. q \in Seq(T[S]) /\ m.data.re = req
  BY Pids DEF Holds
<1>4. IsFiniteSet(AskedIn(q)) /\ made + Cardinality(AskedIn(q)) <= LAST_ID
  BY DEF Within
<1>5. Cardinality(AskedIn(q)) \in Nat /\ LAST_ID \in Nat
  BY <1>4, FS_CardinalityType, NetAssumption
<1> HIDE DEF m, after
<1>6. /\ IsFiniteSet(AskedIn(after.mailbox[S]))
      /\ made + Cardinality(AskedIn(after.mailbox[S])) <= LAST_ID
  <2>1. CASE after.mailbox[S] = q
    BY <1>4, <2>1
  <2>2. CASE after.mailbox[S] = Append(q, m)
    <3> DEFINE N == T[S]
    <3>1. q \in Seq(N)
      BY <1>3
    <3> HIDE DEF N, q
    <3>2. /\ IsFiniteSet(AskedIn(Append(q, m)))
          /\ Cardinality(AskedIn(Append(q, m))) =
                Cardinality(AskedIn(q)) + (IF Asks(m.data.re) THEN 1 ELSE 0)
      BY <1>4, <3>1, AskedAfterAppend
    <3>3. Asks(req) => made + Cardinality(AskedIn(q)) < LAST_ID
      BY DEF q
    <3> QED
      BY <1>3, <1>4, <1>5, <2>2, <3>2, <3>3
  <2> QED
    BY <1>2, <2>1, <2>2
<1> QED
  BY <1>1, <1>6 DEF Within, after

LEMMA UseWithin ==
    ASSUME IInv, Within(ipc, next_socket_id - 1), NEW c \in Clients, use(c)
    PROVE  Within(ipc', next_socket_id - 1)
<1> DEFINE S == NET_SERVER_PID
           made == next_socket_id - 1
           sent(req) == AfterSend(c, S, req)
           Fine(box) == Within(box, made) /\ \E T : Holds(box, T)
<1>1. made \in Int
  BY DEF IInv, Ids
<1>2. \/ ipc' = ipc
      \/ ipc' = Taken(ipc, c)
      \/ \E req \in Kind : Bounded(req) /\ (ipc' = sent(req) \/ ipc' = Taken(sent(req), c))
  BY DEF use, call, call_fails, post, collect, Kind
<1>3. Fine(ipc)
  BY DEF IInv
<1>4. ASSUME NEW req \in Kind, Bounded(req) PROVE Fine(sent(req))
  <2>1. PICK T : Holds(ipc, T)
    BY <1>3
  <2>2. Asks(req) => SocketsAsked < LAST_ID
    BY <1>4 DEF Bounded
  <2>3. SocketsAsked = made + Cardinality(AskedIn(ipc.mailbox[S]))
    BY DEF SocketsAsked, AskedIn
  <2> DEFINE data == [from |-> c, re |-> req]
  <2>4. sent(req) = Sent(ipc, c, S, req.size, data)
    BY DEF AfterSend
  <2> HIDE DEF made, sent
  <2>5. Within(sent(req), made)
    BY <1>1, <1>3, <2>1, <2>2, <2>3, <2>4, SentWithin
  <2>6. \E U : Holds(sent(req), U)
    <3>1. PICK m : m = [sender_pid |-> c, size |-> req.size, data |-> data]
      OBVIOUS
    <3> HIDE DEF data
    <3>2. Holds(sent(req), With(T, S, m))
      BY <2>1, <2>4, <3>1, SentHolds
    <3> QED
      BY <3>2
  <2> QED
    BY <2>5, <2>6
<1>5. ASSUME NEW box, Fine(box) PROVE Fine(Taken(box, c))
  BY <1>5, TakenWithin, TakenHolds, Pids
<1> HIDE DEF Fine, sent, made
<1>6. Fine(ipc')
  BY <1>2, <1>3, <1>4, <1>5
<1> QED
  BY <1>6 DEF Fine, made

LEMMA ServeWithin ==
    ASSUME IInv, Within(ipc, next_socket_id - 1), NEW pkt \in Packets \cup {<< >>}, serve(pkt)
    PROVE  Within(ipc', next_socket_id' - 1)
<1> DEFINE S    == NET_SERVER_PID
           req  == Request(S).re
           from == Request(S).from
           rest == Taken(ipc, S)
           q    == ipc.mailbox[S]
<1>1. PICK T : Holds(ipc, T) /\ Fits(T)
  BY DEF IInv
<1>2. S \in Pid /\ HasMail(ipc, S) /\ q \in Seq(T[S]) /\ q # << >> /\ Head(q).data.re = req
  BY <1>1, Pids DEF serve, Holds, HasMail, Request, Oldest
<1>3. from \in Clients /\ from # S
  <2>1. Oldest(ipc, S) \in T[S]
    BY <1>2, TailFacts DEF Oldest
  <2> QED
    BY <1>1, <2>1, Pids DEF Fits, Asked, Request
<1>4. Holds(rest, T) /\ Pooled(rest)
  BY <1>1, <1>2, TakenHolds, TakenPooled DEF Within
<1>5. rest.mailbox[S] = Tail(q)
  BY <1>1, <1>2 DEF Taken, Holds
<1>6. Pooled(ipc') /\ ipc'.mailbox[S] = Tail(q)
  <2>1. \/ ipc' = rest
        \/ \E size, d : ipc' = Sent(rest, S, from, size, d)
    BY Replies DEF serve
  <2> HIDE DEF rest
  <2>2. CASE ipc' = rest
    BY <1>4, <1>5, <2>2
  <2>3. ASSUME NEW size, NEW d, ipc' = Sent(rest, S, from, size, d)
        PROVE  Pooled(ipc') /\ ipc'.mailbox[S] = Tail(q)
    <3>1. Pooled(ipc')
      BY <1>4, <2>3, SentPooled
    <3>2. ipc'.mailbox[S] = rest.mailbox[S]
      BY <1>2, <1>3, <1>4, <2>3 DEF Sent, Holds
    <3> QED
      BY <1>5, <3>1, <3>2
  <2> QED
    BY <2>1, <2>2, <2>3
<1>7. IsFiniteSet(AskedIn(q)) /\ (next_socket_id - 1) + Cardinality(AskedIn(q)) <= LAST_ID
  BY DEF Within
<1>8. Cardinality(AskedIn(q)) \in Nat /\ LAST_ID \in Nat /\ next_socket_id \in Nat
  BY <1>7, FS_CardinalityType, NetAssumption DEF IInv, Ids
<1>9. /\ IsFiniteSet(AskedIn(Tail(q)))
      /\ Cardinality(AskedIn(Tail(q))) =
            Cardinality(AskedIn(q)) - (IF Asks(req) THEN 1 ELSE 0)
  <2> DEFINE N == T[S]
  <2>1. q \in Seq(N)
    BY <1>2
  <2> HIDE DEF N, q
  <2> QED
    BY <1>2, <1>7, <2>1, AskedAfterTail
<1>10. /\ next_socket_id' \in {next_socket_id, next_socket_id + 1}
       /\ ~Asks(req) => next_socket_id' = next_socket_id
  BY DEF serve, Asks
<1> HIDE DEF q, req
<1>11. (next_socket_id' - 1) + Cardinality(AskedIn(Tail(q))) <= LAST_ID
  BY <1>7, <1>8, <1>9, <1>10
<1> QED
  BY <1>6, <1>9, <1>11 DEF Within

LEMMA TInvTheorem == Spec => []TInv
<1>1. Init => TInv
  <2> SUFFICES ASSUME Init PROVE TInv
    OBVIOUS
  <2>1. ipc = Empty(MAX_MESSAGES) /\ next_socket_id = 1
    BY DEF Init, ClientInit
  <2>2. AskedIn(ipc.mailbox[NET_SERVER_PID]) = {}
    BY <2>1, Pids DEF AskedIn, Empty
  <2>3. Within(ipc, next_socket_id - 1)
    BY <2>1, <2>2, EmptyPooled, FS_EmptySet, NetAssumption DEF Within
  <2> QED
    BY <2>3, InitSInv, InitIInv, WithinAsked
<1>2. TInv /\ [Next]_vars => TInv'
  <2> SUFFICES ASSUME TInv, [Next]_vars PROVE TInv'
    OBVIOUS
  <2>1. SInv /\ IInv /\ Within(ipc, next_socket_id - 1)
    BY WithinAsked
  <2>2. SInv' /\ IInv' /\ Within(ipc, next_socket_id - 1)' => TInv'
    BY DEF TInv, Within, SocketsAsked, AskedIn
  <2>3. ASSUME NEW pkt \in Packets \cup {<< >>}, serve(pkt) PROVE TInv'
    <3>1. Request(NET_SERVER_PID).re \in Kind /\ Request(NET_SERVER_PID).from \in Clients
      <4>1. PICK T : Holds(ipc, T) /\ Fits(T)
        BY <2>1 DEF IInv
      <4>2. ipc.mailbox[NET_SERVER_PID] \in Seq(T[NET_SERVER_PID])
            /\ ipc.mailbox[NET_SERVER_PID] # << >>
        BY <2>3, <4>1, Pids DEF Holds, HasMail, serve
      <4>3. Oldest(ipc, NET_SERVER_PID) \in T[NET_SERVER_PID]
        BY <4>2, TailFacts DEF Oldest
      <4> QED
        BY <4>1, <4>3 DEF Fits, Asked, Request
    <3>2. SInv'
      BY <2>1, <2>3, <3>1, ServeSockets
    <3> QED
      BY <2>1, <2>2, <2>3, <3>2, ServeIInv, ServeWithin
  <2>4. ASSUME NEW pkt \in Packets \cup {<< >>}, idle_turn(pkt) PROVE TInv'
    <3>1. ipc' = ipc /\ next_socket_id' = next_socket_id
      BY <2>4 DEF idle_turn, clientVars
    <3>2. SInv' /\ IInv'
      BY <2>1, <2>4, IdleSockets, IdleIInv
    <3>3. Within(ipc', next_socket_id' - 1)
      BY <2>1, <3>1
    <3> QED
      BY <2>2, <3>2, <3>3
  <2>5. ASSUME NEW c \in Clients, use(c) PROVE TInv'
    <3>1. sockets' = sockets /\ next_socket_id' = next_socket_id
      BY <2>5 DEF use
    <3>2. SInv'
      BY <2>1, <3>1, OthersKeepSockets
    <3>3. Within(ipc', next_socket_id - 1)
      BY <2>1, <2>5, UseWithin
    <3>4. IInv'
      BY <2>1, <2>5, UseIInv
    <3>5. Within(ipc', next_socket_id' - 1)
      BY <3>1, <3>3
    <3> QED
      BY <2>2, <3>2, <3>4, <3>5
  <2>6. CASE UNCHANGED vars
    <3>1. UNCHANGED <<ipc, sockets, next_socket_id>>
      BY <2>6 DEF vars, clientVars
    <3>2. SInv'
      BY <2>1, <3>1, OthersKeepSockets
    <3>3. IInv'
      BY <2>1, <3>1 DEF IInv, Ids, Fits, Good, Found, Holds
    <3>4. Within(ipc', next_socket_id' - 1)
      BY <2>1, <3>1
    <3> QED
      BY <2>2, <3>2, <3>3, <3>4
  <2> QED
    BY <2>3, <2>4, <2>5, <2>6 DEF Next, Turn
<1> QED
  BY <1>1, <1>2, PTL DEF Spec

(* The pool, the ids and every field of every socket stay in their range,  *)
(* and a slot that is not in use is closed (net_srv.c:76, net_srv.c:172).  *)
THEOREM TypeTheorem == Spec => []TypeOK
<1>1. TInv => TypeOK
  <2> SUFFICES ASSUME TInv PROVE TypeOK
    OBVIOUS
  <2>1. DOMAIN ipc.mailbox = Pid
    BY DEF TInv, IInv, Holds
  <2>2. ipc.free \in 0..MAX_MESSAGES
    BY PooledBound DEF TInv
  <2>3. next_socket_id \in 1..(LAST_ID + 1)
    <3> DEFINE A == AskedIn(ipc.mailbox[NET_SERVER_PID])
    <3>1. IsFiniteSet(A) /\ next_socket_id - 1 + Cardinality(A) <= LAST_ID
      BY DEF TInv, SocketsAsked, AskedIn
    <3> HIDE DEF A
    <3>2. Cardinality(A) \in Nat /\ LAST_ID \in Nat /\ next_socket_id \in Nat \ {0}
      BY <3>1, FS_CardinalityType, NetAssumption DEF TInv, IInv, Ids
    <3> QED
      BY <3>1, <3>2
  <2>4. ASSUME NEW i \in Slot
        PROVE  /\ sockets[i].type \in {TCP, UDP} /\ sockets[i].owner_pid \in Pid
               /\ sockets[i].state \in States
               /\ ~sockets[i].in_use => sockets[i].state = "CLOSED"
               /\ {sockets[i].rx_head, sockets[i].rx_tail} \subseteq Cells
               /\ sockets[i].rx_count \in 0..RX_CELLS
    <3> DEFINE s == sockets[i]
    <3>1. Sound(s)
      BY DEF TInv, SInv, AllSound
    <3> HIDE DEF s
    <3>2. s.rx_head \in Cells
      <4>1. s.rx_head = (s.rx_tail + s.rx_count) % RX_CELLS
            /\ s.rx_tail + s.rx_count \in Int /\ RX_CELLS \in Nat \ {0}
        BY <3>1, NetAssumption DEF Sound, Ring, Cells
      <4> QED
        BY <4>1 DEF Cells
    <3> QED
      BY <3>1, <3>2 DEF Sound, Ring, s
  <2> QED
    BY <2>1, <2>2, <2>3, <2>4 DEF TypeOK, States
<1> QED
  BY <1>1, TInvTheorem, PTL
=============================================================================
