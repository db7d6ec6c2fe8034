---------------------------- MODULE BulletProofs ----------------------------
(* The request ids of the bullet server and the order of its answers, for  *)
(* any number of clients, slots and migrations.                            *)
EXTENDS Bullet, OrderProofs

(* What may lie in each mailbox: requests of clients in the server's, and  *)
(* elsewhere answers whose ids have been given out.                        *)
Message_(d) == [sender_pid : Pid, size : Size, data : d]
GoodAnswer ==
    {d \in Answer : /\ d.re.cmd = 1 /\ d.value >= 0 => d.value < Len(requests)
                    /\ d.re.cmd = 2 => d.value \in {-1, 2}}
Mail == [p \in Pid |-> Message_(IF p = BULLET_SERVER_PID THEN Message ELSE GoodAnswer)]

(* No id is in two answers.                                                *)
Distinct(box) ==
    \A c, d \in Clients : \A i \in 1..Len(box[c]), j \in 1..Len(box[d]) :
        Given(box[c][i]) /\ Given(box[d][j]) /\ box[c][i].data.value = box[d][j].data.value
        => c = d /\ i = j

IInv ==
    /\ requests \in Seq({2}) /\ Len(requests) <= MAX_MIGRATION_REQUESTS
    /\ Holds(ipc, Mail)
    /\ Distinct(ipc.mailbox)

LEMMA Pids == BULLET_SERVER_PID \in Pid \ Clients /\ Clients \subseteq Pid
BY ClientsAssumption, BulletAssumption

LEMMA IInvImpliesGood == IInv => IdsAreGood
<1> SUFFICES ASSUME IInv, NEW c \in Clients, NEW d \in Clients,
                    NEW i \in 1..Len(ipc.mailbox[c]), NEW j \in 1..Len(ipc.mailbox[d])
             PROVE  LET m == ipc.mailbox[c][i]
                        n == ipc.mailbox[d][j]
                    IN /\ Given(m) => m.data.value < Len(requests)
                                      /\ requests[m.data.value + 1] = 2
                       /\ Given(m) /\ Given(n) /\ m.data.value = n.data.value
                          => c = d /\ i = j
                       /\ m.data.re.cmd = 2 => m.data.value \in {-1, 2}
  BY DEF IdsAreGood
<1>1. ipc.mailbox[c] \in Seq(Message_(GoodAnswer))
  BY Pids DEF IInv, Holds, Mail
<1>2. ipc.mailbox[c][i].data \in GoodAnswer
  <2>1. ipc.mailbox[c][i] \in Message_(GoodAnswer)
    BY <1>1, ElementOfSeq
  <2> QED
    BY <2>1 DEF Message_
<1>3. ipc.mailbox[c][i].data.value \in Int
  BY <1>2, BulletAssumption DEF GoodAnswer, Answer
<1>4. Given(ipc.mailbox[c][i])
      => /\ ipc.mailbox[c][i].data.value < Len(requests)
         /\ requests[ipc.mailbox[c][i].data.value + 1] = 2
  BY <1>2, <1>3 DEF GoodAnswer, Given, IInv
<1>5. ipc.mailbox[c][i].data.re.cmd = 2 => ipc.mailbox[c][i].data.value \in {-1, 2}
  BY <1>2 DEF GoodAnswer
<1> QED
  BY <1>4, <1>5 DEF IInv, Distinct

----------------------------------------------------------------------------
LEMMA DistinctIf ==
    ASSUME NEW box,
           ASSUME NEW c \in Clients, NEW d \in Clients,
                  NEW i \in 1..Len(box[c]), NEW j \in 1..Len(box[d]),
                  Given(box[c][i]), Given(box[d][j]),
                  box[c][i].data.value = box[d][j].data.value
           PROVE  c = d /\ i = j
    PROVE  Distinct(box)
BY DEF Distinct

LEMMA DistinctIfSame ==
    ASSUME NEW box, NEW after, Distinct(box), \A c \in Clients : after[c] = box[c]
    PROVE  Distinct(after)
BY DEF Distinct

(* Distinct survives a receive and the answer with a new id.               *)

LEMMA DistinctAfterTaking ==
    ASSUME NEW box, NEW after, NEW who, Distinct(box),
           \A c \in Clients \ {who} : after[c] = box[c],
           who \in Clients => /\ Len(box[who]) \in Nat \ {0}
                              /\ Len(after[who]) = Len(box[who]) - 1
                              /\ \A i \in 1..Len(after[who]) : after[who][i] = box[who][i + 1]
    PROVE  Distinct(after)
<1> SUFFICES ASSUME NEW c \in Clients, NEW d \in Clients,
                    NEW i \in 1..Len(after[c]), NEW j \in 1..Len(after[d]),
                    Given(after[c][i]), Given(after[d][j]),
                    after[c][i].data.value = after[d][j].data.value
             PROVE  c = d /\ i = j
  BY DEF Distinct
<1> DEFINE before(p, k) == IF p = who THEN k + 1 ELSE k
<1>1. ASSUME NEW p \in Clients, NEW k \in 1..Len(after[p])
      PROVE  before(p, k) \in 1..Len(box[p]) /\ after[p][k] = box[p][before(p, k)]
  <2>1. CASE p = who
    BY <2>1
  <2>2. CASE p # who
    BY <2>2
  <2> QED
    BY <2>1, <2>2
<1>2. /\ before(c, i) \in 1..Len(box[c]) /\ after[c][i] = box[c][before(c, i)]
      /\ before(d, j) \in 1..Len(box[d]) /\ after[d][j] = box[d][before(d, j)]
  BY <1>1
<1> HIDE DEF before
<1>3. c = d /\ before(c, i) = before(d, j)
  <2>1. /\ Given(box[c][before(c, i)]) /\ Given(box[d][before(d, j)])
        /\ box[c][before(c, i)].data.value = box[d][before(d, j)].data.value
    BY <1>2
  <2>2. ASSUME NEW k \in 1..Len(box[c]), NEW l \in 1..Len(box[d]),
               Given(box[c][k]), Given(box[d][l]), box[c][k].data.value = box[d][l].data.value
        PROVE  c = d /\ k = l
    BY <2>2, Zenon DEF Distinct
  <2> QED
    BY <1>2, <2>1, <2>2, Zenon
<1> QED
  BY <1>3 DEF before

AnswerAdded(box, after, who, m) ==
    /\ \A c \in Clients \ {who} : after[c] = box[c]
    /\ Len(box[who]) \in Nat /\ Len(after[who]) = Len(box[who]) + 1
    /\ \A i \in 1..Len(box[who]) : after[who][i] = box[who][i]
    /\ after[who][Len(box[who]) + 1] = m
    /\ Given(m) => \A c \in Clients : \A i \in 1..Len(box[c]) :
            Given(box[c][i]) => box[c][i].data.value # m.data.value

LEMMA DistinctAfterAnswer ==
    ASSUME NEW box, NEW after, NEW who \in Clients, NEW m, Distinct(box),
           AnswerAdded(box, after, who, m)
    PROVE  Distinct(after)
<1> SUFFICES ASSUME NEW c \in Clients, NEW d \in Clients,
                    NEW i \in 1..Len(after[c]), NEW j \in 1..Len(after[d]),
                    Given(after[c][i]), Given(after[d][j]),
                    after[c][i].data.value = after[d][j].data.value
             PROVE  c = d /\ i = j
  BY DistinctIf
<1> DEFINE Old(p, k) == k \in 1..Len(box[p]) /\ after[p][k] = box[p][k]
           New(p, k) == p = who /\ k = Len(box[who]) + 1 /\ after[p][k] = m
<1>1. ASSUME NEW p \in Clients, NEW k \in 1..Len(after[p])
      PROVE  Old(p, k) \/ New(p, k)
  <2>1. CASE p = who
    BY <2>1 DEF AnswerAdded
  <2>2. CASE p # who
    BY <2>2 DEF AnswerAdded
  <2> QED
    BY <2>1, <2>2
<1>2. CASE Old(c, i) /\ Old(d, j)
  BY <1>2 DEF Distinct
<1>3. CASE New(c, i) /\ New(d, j)
  BY <1>3
<1>4. CASE New(c, i) /\ Old(d, j)
  BY <1>4 DEF AnswerAdded
<1>5. CASE Old(c, i) /\ New(d, j)
  BY <1>5 DEF AnswerAdded
<1> QED
  BY <1>1, <1>2, <1>3, <1>4, <1>5

----------------------------------------------------------------------------
(* The table.                                                              *)

LEMMA ProcessedTable ==
    ASSUME NEW table \in Seq({2}), NEW v \in {0, 2}
    PROVE  /\ Processed(table) \in Seq({2}) /\ Len(Processed(table)) = Len(table)
           /\ Processed(Append(table, v)) \in Seq({2})
           /\ Len(Processed(Append(table, v))) = Len(table) + 1
<1>1. ASSUME NEW t \in Seq({0, 2})
      PROVE  Processed(t) \in Seq({2}) /\ Len(Processed(t)) = Len(t)
  <2>1. /\ Len(t) \in Nat /\ DOMAIN Processed(t) = 1..Len(t)
        /\ \A i \in 1..Len(t) : Processed(t)[i] \in {2}
    BY ElementOfSeq DEF Processed
  <2>2. Processed(t) \in [1..Len(t) -> {2}]
    BY <2>1 DEF Processed
  <2> QED
    BY <2>1, <2>2
<1>2. table \in Seq({0, 2}) /\ Append(table, v) \in Seq({0, 2})
  OBVIOUS
<1>3. Len(Append(table, v)) = Len(table) + 1
  OBVIOUS
<1> QED
  BY <1>1, <1>2, <1>3

LEMMA InitIInv == Init => IInv
<1> SUFFICES ASSUME Init PROVE IInv
  OBVIOUS
<1>1. requests = << >> /\ ipc = Empty(MAX_MESSAGES)
  BY DEF Init, ClientInit
<1>2. requests \in Seq({2}) /\ Len(requests) <= MAX_MIGRATION_REQUESTS
  BY <1>1, BulletAssumption
<1>3. Holds(ipc, Mail)
  BY <1>1, EmptyHolds
<1>4. \A c \in Clients : Len(ipc.mailbox[c]) = 0
  BY <1>1, Pids DEF Empty
<1>5. Distinct(ipc.mailbox)
  BY <1>4 DEF Distinct
<1> QED
  BY <1>2, <1>3, <1>5 DEF IInv

(* A client's side of a call: the request goes into the server's mailbox.  *)
LEMMA AfterSendKeeps ==
    ASSUME IInv, NEW c \in Clients, NEW req \in Calls
    PROVE  LET sent == AfterSend(c, BULLET_SERVER_PID, req)
           IN Holds(sent, Mail) /\ Distinct(sent.mailbox)
<1> DEFINE sent == AfterSend(c, BULLET_SERVER_PID, req)
           data == [from |-> c, re |-> req]
<1>1. ASSUME Accepts(ipc, BULLET_SERVER_PID, req.size)
      PROVE  [sender_pid |-> c, size |-> req.size, data |-> data] \in Mail[BULLET_SERVER_PID]
  BY <1>1, Pids DEF Accepts, Mail, Message_, Message
<1>2. /\ Holds(sent, Mail)
      /\ \A p \in Clients : sent.mailbox[p] = ipc.mailbox[p]
  <2> DEFINE m == [sender_pid |-> c, size |-> req.size, data |-> data]
  <2>1. sent = Sent(ipc, c, BULLET_SERVER_PID, req.size, data)
    BY DEF AfterSend
  <2> HIDE DEF sent, data
  <2>2. ASSUME NEW T, Holds(ipc, T),
               Accepts(ipc, BULLET_SERVER_PID, req.size) => m \in T[BULLET_SERVER_PID]
        PROVE  /\ Holds(sent, T)
               /\ \A p \in Pid : sent.mailbox[p] = ipc.mailbox[p] \/ p = BULLET_SERVER_PID
    BY <2>1, <2>2, SentMail
  <2> QED
    BY <1>1, <2>2, Pids DEF IInv
<1>3. Distinct(sent.mailbox)
  BY <1>2, DistinctIfSame DEF IInv
<1> QED
  BY <1>2, <1>3

LEMMA TakenKeeps ==
    ASSUME NEW box, NEW c \in Pid, Holds(box, Mail), Distinct(box.mailbox)
    PROVE  Holds(Taken(box, c), Mail) /\ Distinct(Taken(box, c).mailbox)
<1>1. CASE ~HasMail(box, c)
  BY <1>1 DEF Taken
<1>2. CASE HasMail(box, c)
  <2> DEFINE after == Taken(box, c)
  <2>1. /\ Holds(after, Mail)
        /\ \A p \in Pid \ {c} : after.mailbox[p] = box.mailbox[p]
        /\ Len(box.mailbox[c]) \in Nat \ {0}
        /\ Len(after.mailbox[c]) = Len(box.mailbox[c]) - 1
        /\ \A i \in 1..Len(after.mailbox[c]) : after.mailbox[c][i] = box.mailbox[c][i + 1]
    <3> HIDE DEF after
    <3>1. ASSUME NEW T, Holds(box, T) PROVE Holds(after, T)
      BY <1>2, <3>1, TakenMail DEF after
    <3> QED
      BY <1>2, <3>1, TakenMail DEF after
  <2>2. Distinct(after.mailbox)
    <3> HIDE DEF after
    <3>1. \A p \in Clients \ {c} : after.mailbox[p] = box.mailbox[p]
      BY <2>1, Pids
    <3> QED
      BY <2>1, <3>1, DistinctAfterTaking
  <2> QED
    BY <2>1, <2>2
<1> QED
  BY <1>1, <1>2

----------------------------------------------------------------------------
(* The server's side.                                                      *)

LEMMA ServeIInv == IInv /\ serve => IInv'
<1> SUFFICES ASSUME IInv, serve PROVE IInv'
  OBVIOUS
<1> DEFINE B    == BULLET_SERVER_PID
           m    == Oldest(ipc, B)
           req  == m.data.re
           from == m.data.from
           rest == Taken(ipc, B)
           d    == [from |-> B, re |-> req, value |-> Value(req, requests), bytes |-> << >>]
<1>1. B \in Pid /\ B \notin Clients /\ HasMail(ipc, B) /\ m \in Mail[B]
  BY Pids, TakenMail DEF serve, IInv
<1>2. req \in Calls /\ from \in Clients
  BY <1>1 DEF Mail, Message_, Message
<1>3. Holds(rest, Mail) /\ Distinct(rest.mailbox)
  BY <1>1, TakenKeeps DEF IInv
<1>4. CASE ~Answerable(req)
  <2>1. ipc' = rest /\ requests' = Processed(requests)
    BY <1>4 DEF serve, Request
  <2>2. requests' \in Seq({2}) /\ Len(requests') = Len(requests)
    BY <2>1, ProcessedTable DEF IInv
  <2>3. Mail' = Mail
    BY <2>2 DEF Mail, GoodAnswer
  <2> QED
    BY <1>3, <2>1, <2>2, <2>3 DEF IInv
<1>5. CASE Answerable(req)
  <2> DEFINE grown == req.cmd = 1 /\ Len(requests) < MAX_MIGRATION_REQUESTS
  <2>1. ipc' = Sent(rest, B, from, 4, d)
    BY <1>5 DEF serve, Reply, Answered, Request
  <2>2. /\ requests' \in Seq({2})
        /\ Len(requests') = IF grown THEN Len(requests) + 1 ELSE Len(requests)
    BY <1>5, ProcessedTable DEF serve, Request, IInv, Queued
  <2>3. Len(requests) \in Nat /\ Len(requests') <= MAX_MIGRATION_REQUESTS
    BY <2>2, BulletAssumption DEF IInv
  <2>4. \A p \in Pid : Mail[p] \subseteq Mail'[p]
    BY <2>2, <2>3, BulletAssumption DEF Mail, GoodAnswer, Message_, Answer
  <2>5. Holds(rest, Mail')
    BY <1>3, <2>4, HoldsMore
  <2>6. d \in GoodAnswer'
    <3>1. CASE req.cmd = 1
      BY <1>2, <2>2, <2>3, <3>1, BulletAssumption DEF GoodAnswer, Answer, Value
    <3>2. CASE req.cmd = 2
      BY <1>2, <2>3, <3>2, BulletAssumption, ElementOfSeq DEF GoodAnswer, Answer, Value, IInv
    <3> QED
      BY <1>5, <3>1, <3>2 DEF Answerable
  <2>7. Accepts(rest, from, 4) =>
            [sender_pid |-> B, size |-> 4, data |-> d] \in Mail'[from]
    BY <1>1, <1>2, <2>6, Pids DEF Accepts, Mail, Message_
  <2> DEFINE reply == [sender_pid |-> B, size |-> 4, data |-> d]
  <2>8. /\ Holds(ipc', Mail')
        /\ \A p \in Pid : \/ ipc'.mailbox[p] = rest.mailbox[p]
                          \/ p = from /\ ipc'.mailbox[p] = Append(rest.mailbox[p], reply)
    <3> HIDE DEF rest, d
    <3>1. ASSUME NEW T, Holds(rest, T), Accepts(rest, from, 4) => reply \in T[from]
          PROVE  /\ Holds(ipc', T)
                 /\ \A p \in Pid :
                        \/ ipc'.mailbox[p] = rest.mailbox[p]
                        \/ p = from /\ ipc'.mailbox[p] = Append(rest.mailbox[p], reply)
      <4> HIDE DEF from
      <4> QED BY <2>1, <3>1, SentMail
    <3> QED
      BY <2>5, <2>7, <3>1
  <2>9. Distinct(ipc'.mailbox)
    <3> HIDE DEF rest
    <3>1. CASE \A p \in Clients : ipc'.mailbox[p] = rest.mailbox[p]
      BY <1>3, <3>1, DistinctIfSame
    <3>2. CASE ipc'.mailbox[from] = Append(rest.mailbox[from], reply)
      <4>1. \A p \in Clients \ {from} : ipc'.mailbox[p] = rest.mailbox[p]
        BY <2>8, Pids
      <4>2. ASSUME NEW c \in Clients
            PROVE  rest.mailbox[c] \in Seq(Message_(GoodAnswer))
        BY <1>3, Pids DEF Holds, Mail
      <4>3. /\ Len(rest.mailbox[from]) \in Nat
            /\ Len(ipc'.mailbox[from]) = Len(rest.mailbox[from]) + 1
            /\ \A i \in 1..Len(rest.mailbox[from]) : ipc'.mailbox[from][i] = rest.mailbox[from][i]
            /\ ipc'.mailbox[from][Len(rest.mailbox[from]) + 1] = reply
        <5> DEFINE box == rest.mailbox[from]
        <5>1. box \in Seq(Message_(GoodAnswer))
          BY <1>2, <4>2
        <5> HIDE DEF box, reply
        <5>2. /\ Len(box) \in Nat /\ Len(Append(box, reply)) = Len(box) + 1
              /\ \A i \in 1..Len(box) : Append(box, reply)[i] = box[i]
              /\ Append(box, reply)[Len(box) + 1] = reply
          BY <5>1, AppendFacts
        <5> QED
          BY <3>2, <5>2 DEF box
      <4>4. ASSUME Given(reply), NEW c \in Clients, NEW i \in 1..Len(rest.mailbox[c]),
                   Given(rest.mailbox[c][i])
            PROVE  rest.mailbox[c][i].data.value # reply.data.value
        <5>1. reply.data.value = Len(requests)
          BY <4>4 DEF Given, Value
        <5>2. rest.mailbox[c][i] \in Message_(GoodAnswer)
          BY <4>2, ElementOfSeq
        <5>3. rest.mailbox[c][i].data.value < Len(requests)
          BY <4>4, <5>2 DEF Message_, GoodAnswer, Given
        <5> QED
          BY <2>3, <5>1, <5>3
      <4> QED
        <5>1. Given(reply) => \A c \in Clients : \A i \in 1..Len(rest.mailbox[c]) :
                  Given(rest.mailbox[c][i]) => rest.mailbox[c][i].data.value # reply.data.value
          BY <4>4
        <5> DEFINE box == rest.mailbox
                   after == ipc'.mailbox
        <5> HIDE DEF reply, from, box, after
        <5>2. AnswerAdded(box, after, from, reply)
          BY <4>1, <4>3, <5>1 DEF box, after, AnswerAdded
        <5>3. Distinct(box) /\ from \in Clients
          BY <1>2, <1>3 DEF box
        <5>4. Distinct(after)
          BY <5>2, <5>3, DistinctAfterAnswer
        <5> QED
          BY <5>4 DEF after
    <3> QED
      BY <2>8, <3>1, <3>2, Pids
  <2> QED
    BY <2>2, <2>3, <2>8, <2>9 DEF IInv
<1> QED
  BY <1>4, <1>5

LEMMA IdleIInv == IInv /\ idle_turn => IInv'
<1> SUFFICES ASSUME IInv, idle_turn PROVE IInv'
  OBVIOUS
<1>1. requests' = Processed(requests) /\ ipc' = ipc
  BY DEF idle_turn, clientVars
<1>2. requests' \in Seq({2}) /\ Len(requests') = Len(requests)
  BY <1>1, ProcessedTable DEF IInv
<1>3. Mail' = Mail
  BY <1>2 DEF Mail, GoodAnswer
<1> QED
  BY <1>1, <1>2, <1>3 DEF IInv

(* Whatever the client does, the mailboxes change by a send and a receive. *)
LEMMA UseIInv == ASSUME NEW c \in Clients PROVE IInv /\ use(c) => IInv'
<1> SUFFICES ASSUME IInv, use(c) PROVE IInv'
  OBVIOUS
<1> DEFINE sent(req) == AfterSend(c, BULLET_SERVER_PID, req)
<1>1. requests' = requests /\ c \in Pid
  BY Pids DEF use
<1>2. Mail' = Mail
  BY <1>1 DEF Mail, GoodAnswer
<1>3. \/ ipc' = ipc
      \/ ipc' = Taken(ipc, c)
      \/ \E req \in Calls : ipc' = sent(req) \/ ipc' = Taken(sent(req), c)
  BY DEF use, call, call_fails, post, collect, Calls
<1>4. ASSUME NEW req \in Calls
      PROVE  Holds(sent(req), Mail) /\ Distinct(sent(req).mailbox)
  BY AfterSendKeeps
<1> HIDE DEF sent
<1>5. ASSUME NEW req \in Calls
      PROVE  Holds(Taken(sent(req), c), Mail) /\ Distinct(Taken(sent(req), c).mailbox)
  BY <1>1, <1>4, TakenKeeps
<1>6. Holds(Taken(ipc, c), Mail) /\ Distinct(Taken(ipc, c).mailbox)
  BY <1>1, TakenKeeps DEF IInv
<1>7. Holds(ipc', Mail) /\ Distinct(ipc'.mailbox)
  BY <1>3, <1>4, <1>5, <1>6 DEF IInv
<1> QED
  BY <1>1, <1>2, <1>7 DEF IInv

LEMMA IInvTheorem == Spec => []IInv
<1>1. Init => IInv
  BY InitIInv
<1>2. IInv /\ [Next]_vars => IInv'
  <2> SUFFICES ASSUME IInv, [Next]_vars PROVE IInv'
    OBVIOUS
  <2>1. CASE serve
    BY <2>1, ServeIInv
  <2>2. CASE idle_turn
    BY <2>2, IdleIInv
  <2>3. ASSUME NEW c \in Clients, use(c) PROVE IInv'
    BY <2>3, UseIInv
  <2>4. CASE UNCHANGED vars
    BY <2>4 DEF vars, clientVars, IInv, Mail, GoodAnswer
  <2> QED
    BY <2>1, <2>2, <2>3, <2>4 DEF Next
<1> QED
  BY <1>1, <1>2, PTL DEF Spec

(* The ids that the bullet server answers with are good, for any number of *)
(* clients, message slots and migrations (bullet.c:46, bullet.c:62).       *)
THEOREM IdsTheorem == Spec => []IdsAreGood
<1>1. IInv => IdsAreGood
  BY IInvImpliesGood
<1> QED
  BY <1>1, IInvTheorem, PTL

----------------------------------------------------------------------------
(* The order of the answers.                                               *)

DueCalls == {req \in Calls : Answerable(req)}

(* A server's turn and a client's step keep the order, also next to other  *)
(* servers with requests of their own.                                     *)
LEMMA ServeOrderly ==
    ASSUME NEW due, due[BULLET_SERVER_PID] = DueCalls, NEW R, R[BULLET_SERVER_PID] = Calls,
           Orderly(ipc, owed, due, R), serve
    PROVE  Orderly(ipc', owed', due, R)
<1> DEFINE S    == BULLET_SERVER_PID
           m    == Oldest(ipc, S)
           req  == m.data.re
           data == [from |-> S, re |-> req, value |-> Value(req, requests), bytes |-> << >>]
<1>1. HasMail(ipc, S) /\ owed' = owed
  BY DEF serve
<1>2. req \in Calls
  <2>1. PICK T : Holds(ipc, T) /\ Apart(T, R)
    BY DEF Orderly
  <2>2. ipc.mailbox[S] \in Seq(T[S]) /\ ipc.mailbox[S] # << >>
    BY <1>1, <2>1, Pids DEF Holds, HasMail
  <2>3. m \in T[S]
    BY <2>2, TailFacts DEF Oldest
  <2> QED
    BY <2>1, <2>3, BulletAssumption DEF Apart
<1>3. req \notin due[S] => ipc' = Taken(ipc, S)
  BY <1>2 DEF serve, Request, DueCalls
<1>4. req \in due[S] => ipc' = Sent(Taken(ipc, S), S, m.data.from, 4, data)
  BY DEF serve, Request, DueCalls, Reply, Answered
<1>5. 4 \in Size
  BY ClientsAssumption, MailboxAssumption DEF Size
<1>6. data.from = S /\ data.re = m.data.re
  OBVIOUS
<1> HIDE DEF m, data
<1>7. Orderly(ipc', owed, due, R)
  BY <1>1, <1>3, <1>4, <1>5, <1>6, ServedOrderly, BulletAssumption DEF m
<1> QED
  BY <1>1, <1>7

LEMMA UseOrderly ==
    ASSUME NEW due, due[BULLET_SERVER_PID] = DueCalls, NEW R, R[BULLET_SERVER_PID] = Calls,
           Orderly(ipc, owed, due, R), NEW c \in Clients, use(c)
    PROVE  Orderly(ipc', owed', due, R)
<1> DEFINE S == BULLET_SERVER_PID
<1>1. ASSUME NEW req \in Calls
      PROVE  /\ call(c, S, req, Answerable(req)) => call(c, S, req, req \in due[S])
             /\ post(c, S, req, Answerable(req)) => post(c, S, req, req \in due[S])
  BY DEF DueCalls, call, post, Owing
<1>2. \/ \E req \in Calls : \/ call(c, S, req, req \in due[S])
                            \/ call_fails(c, S, req)
                            \/ post(c, S, req, req \in due[S])
      \/ collect(c)
  BY <1>1 DEF use, Calls
<1> QED
  BY <1>2, ClientOrderly, BulletAssumption

(* The server alone.                                                       *)
Dues  == [s \in Servers |-> IF s = BULLET_SERVER_PID THEN DueCalls ELSE {}]
Kinds == [s \in Servers |-> IF s = BULLET_SERVER_PID THEN Calls ELSE {}]
OInv  == Orderly(ipc, owed, Dues, Kinds)

LEMMA Alone == Dues[BULLET_SERVER_PID] = DueCalls /\ Kinds[BULLET_SERVER_PID] = Calls
BY BulletAssumption DEF Dues, Kinds

LEMMA OInvTheorem == Spec => []OInv
<1>1. Init => OInv
  BY EmptyOrderly DEF Init, ClientInit, OInv
<1>2. OInv /\ [Next]_vars => OInv'
  <2> SUFFICES ASSUME OInv, [Next]_vars PROVE OInv'
    OBVIOUS
  <2>1. CASE serve
    BY <2>1, Alone, ServeOrderly DEF OInv
  <2>2. CASE idle_turn
    BY <2>2 DEF idle_turn, clientVars, OInv
  <2>3. ASSUME NEW c \in Clients, use(c) PROVE OInv'
    BY <2>3, Alone, UseOrderly DEF OInv
  <2>4. CASE UNCHANGED vars
    BY <2>4 DEF vars, clientVars, OInv
  <2> QED
    BY <2>1, <2>2, <2>3, <2>4 DEF Next
<1> QED
  BY <1>1, <1>2, PTL DEF Spec

(* Every request that deserves an answer gets one, in the order it was     *)
(* asked, however many clients share the pool and however full it is: the  *)
(* reply's send (bullet.c:105) always finds a slot.                        *)
THEOREM OrderTheorem == Spec => []AnswersInOrder
<1>1. OInv => AnswersInOrder
  BY Alone, BulletAssumption DEF OInv, Orderly, Expects, AnswersInOrder, InOrder, DueCalls
<1> QED
  BY <1>1, OInvTheorem, PTL

----------------------------------------------------------------------------
(* The types.                                                              *)

Heard ==
    /\ asked \in [Clients -> Calls \cup {NoCall}]
    /\ answer = [c \in Clients |-> answer[c]]
    /\ \A c \in Clients : answer[c] \subseteq Answer

(* What a client hears is an answer.                                       *)
LEMMA OldestIsAnswer ==
    ASSUME NEW box, Holds(box, Mail), NEW c \in Clients, HasMail(box, c)
    PROVE  Oldest(box, c).data \in Answer
<1>1. c \in Pid /\ c # BULLET_SERVER_PID
  BY Pids
<1>2. box.mailbox[c] \in Seq(Message_(GoodAnswer)) /\ box.mailbox[c] # << >>
  BY <1>1 DEF Holds, Mail, HasMail
<1>3. Oldest(box, c) \in Message_(GoodAnswer)
  BY <1>2, TailFacts DEF Oldest
<1> QED
  BY <1>3 DEF Message_, GoodAnswer

LEMMA UseHeard == ASSUME IInv, Heard, NEW c \in Clients, use(c) PROVE Heard'
<1>1. ASSUME NEW req \in Calls, call(c, BULLET_SERVER_PID, req, Answerable(req))
      PROVE  Heard'
  <2> DEFINE sent == AfterSend(c, BULLET_SERVER_PID, req)
  <2>1. Holds(sent, Mail)
    BY AfterSendKeeps
  <2>2. /\ asked' = [asked EXCEPT ![c] = req]
        /\ answer' = [answer EXCEPT ![c] = IF HasMail(sent, c)
                                           THEN {Oldest(sent, c).data} ELSE {}]
    BY <1>1 DEF call
  <2> HIDE DEF sent
  <2>3. HasMail(sent, c) => Oldest(sent, c).data \in Answer
    BY <2>1, OldestIsAnswer
  <2>4. asked' \in [Clients -> Calls \cup {NoCall}]
    BY <2>2 DEF Heard
  <2> DEFINE heard == IF HasMail(sent, c) THEN {Oldest(sent, c).data} ELSE {}
  <2>5. heard \subseteq Answer
    BY <2>3
  <2>6. answer' = [answer EXCEPT ![c] = heard]
    BY <2>2
  <2> HIDE DEF heard
  <2> QED
    BY <2>4, <2>5, <2>6 DEF Heard
<1>2. ASSUME NEW req \in Calls, call_fails(c, BULLET_SERVER_PID, req) PROVE Heard'
  BY <1>2 DEF call_fails, Heard
<1>3. ASSUME UNCHANGED <<asked, answer>> PROVE Heard'
  BY <1>3 DEF Heard
<1> QED
  BY <1>1, <1>2, <1>3 DEF use, Calls, post, collect

(* No operation of clients or server leaves the types, for any number of   *)
(* clients, slots and migrations: the table never grows past its size      *)
(* (bullet.c:37), and the pool's slots are all free or in some mailbox.    *)
THEOREM TypeTheorem == Spec => []TypeOK
<1>1. Init => Heard
  BY DEF Init, ClientInit, Heard
<1>2. IInv /\ Heard /\ [Next]_vars => Heard'
  <2> SUFFICES ASSUME IInv, Heard, [Next]_vars PROVE Heard'
    OBVIOUS
  <2>1. ASSUME NEW c \in Clients, use(c) PROVE Heard'
    BY <2>1, UseHeard
  <2>2. CASE UNCHANGED <<asked, answer>>
    BY <2>2 DEF Heard
  <2> QED
    BY <2>1, <2>2 DEF Next, serve, idle_turn, vars, clientVars
<1>3. IInv /\ OInv /\ Heard => TypeOK
  <2> SUFFICES ASSUME IInv, OInv, Heard PROVE TypeOK
    OBVIOUS
  <2>1. DOMAIN ipc.mailbox = Pid
    BY DEF IInv, Holds
  <2>2. ipc.free \in 0..MAX_MESSAGES
    BY PooledBound DEF OInv, Orderly
  <2>3. ASSUME NEW p \in Pid, NEW i \in 1..Len(ipc.mailbox[p])
        PROVE  ipc.mailbox[p][i].data \in IF p = BULLET_SERVER_PID THEN Message ELSE Answer
    <3>1. ipc.mailbox[p] \in Seq(Mail[p])
      BY DEF IInv, Holds
    <3>2. ipc.mailbox[p][i] \in Mail[p]
      BY <3>1, ElementOfSeq
    <3> QED
      BY <3>2 DEF Mail, Message_, GoodAnswer
  <2>4. \A i \in 1..Len(requests) : requests[i] \in {0, 2}
    BY ElementOfSeq DEF IInv
  <2> QED
    BY <2>1, <2>2, <2>3, <2>4 DEF TypeOK, IInv, Heard
<1> QED
  BY <1>1, <1>2, <1>3, IInvTheorem, OInvTheorem, PTL DEF Spec
=============================================================================
