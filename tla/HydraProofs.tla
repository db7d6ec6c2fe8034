------------------------------ MODULE HydraProofs ------------------------------
(* The order of the answers when both servers share the kernel's pool and  *)
(* the clients' mailboxes: what BulletProofs and NetServerProofs show of   *)
(* each server's turn, next to the other.                                  *)
EXTENDS Hydra, TLAPS

BP == INSTANCE BulletProofs
NP == INSTANCE NetServerProofs WITH ApiRequests <- NetApi, RawRequests <- NetRaw

(* The assumptions of the two modules are those of Hydra.                  *)
LEMMA BulletAssumptions ==
    BP!MailboxAssumption!: /\ BP!ClientsAssumption!: /\ BP!BulletAssumption!:
BY MailboxAssumption, ClientsAssumption, HydraAssumption DEF Pid, BP!Pid

LEMMA NetAssumptions ==
    /\ NP!MailboxAssumption!: /\ NP!ClientsAssumption!:
    /\ NP!NetAssumption!: /\ NP!RequestAssumption!:
<1>1. NP!MailboxAssumption!: /\ NP!ClientsAssumption!:
  BY MailboxAssumption, ClientsAssumption DEF Pid, NP!Pid
<1>2. NP!NetAssumption!:
  BY HydraAssumption
<1>3. NP!RequestAssumption!:
  BY HydraAssumption DEF N!Complete, NP!Complete, N!Needs, NP!Needs, N!TCP, NP!TCP,
                         N!UDP, NP!UDP
<1> QED
  BY <1>1, <1>2, <1>3

(* Who answers what.                                                       *)
Dues  == [s \in Servers |-> IF s = BULLET_SERVER_PID THEN BP!DueCalls
                            ELSE IF s = NET_SERVER_PID THEN NP!DueKind ELSE {}]
Kinds == [s \in Servers |-> IF s = BULLET_SERVER_PID THEN BP!Calls
                            ELSE IF s = NET_SERVER_PID THEN NP!Kind ELSE {}]

LEMMA BothServers ==
    /\ Dues[BULLET_SERVER_PID] = BP!DueCalls /\ Kinds[BULLET_SERVER_PID] = BP!Calls
    /\ Dues[NET_SERVER_PID] = NP!DueKind /\ Kinds[NET_SERVER_PID] = NP!Kind
BY HydraAssumption DEF Dues, Kinds

(* Both modules say the same of the mailboxes.                             *)
BulletOrderly(box, o) == BP!Orderly(box, o, Dues, Kinds)
NetOrderly(box, o)    == NP!Orderly(box, o, Dues, Kinds)

LEMMA SameOrder ==
    ASSUME NEW box, NEW o
    PROVE  BulletOrderly(box, o) <=> NetOrderly(box, o)
<1>1. BP!Pid = NP!Pid
  BY DEF BP!Pid, NP!Pid
<1>2. BP!Pooled(box) <=> NP!Pooled(box)
  <2>1. ASSUME NEW S
        PROVE  (BP!IsFiniteSet(S) <=> NP!IsFiniteSet(S)) /\ BP!Cardinality(S) = NP!Cardinality(S)
    BY DEF BP!IsFiniteSet, NP!IsFiniteSet, BP!Cardinality, NP!Cardinality
  <2> QED
    BY <1>1, <2>1 DEF BP!Pooled, NP!Pooled, BP!Waiting, NP!Waiting
<1>3. ASSUME NEW c, NEW s, NEW due
      PROVE  BP!Expects(box.mailbox, o, c, s, due) <=> NP!Expects(box.mailbox, o, c, s, due)
  BY DEF BP!Expects, NP!Expects, BP!Lists, NP!Lists, BP!Between, NP!Between,
         BP!Concern, NP!Concern
<1>4. ASSUME NEW T PROVE BP!Holds(box, T) <=> NP!Holds(box, T)
  BY <1>1 DEF BP!Holds, NP!Holds
<1>5. ASSUME NEW T PROVE BP!Apart(T, Kinds) <=> NP!Apart(T, Kinds)
  BY <1>1 DEF BP!Apart, NP!Apart
<1> QED
  BY <1>2, <1>3, <1>4, <1>5 DEF BulletOrderly, NetOrderly, BP!Orderly, NP!Orderly

HInv == NP!SInv /\ NetOrderly(ipc, owed)

(* A server's actions are those of its module.                             *)
LEMMA SameBullet ==
    /\ B!serve <=> BP!serve
    /\ \A c : B!use(c) <=> BP!use(c)
<1>1. B!serve <=> BP!serve
  BY DEF B!serve, BP!serve, B!HasMail, BP!HasMail, B!Request,
         BP!Request, B!Answerable, BP!Answerable, B!Reply, BP!Reply,
         B!Taken, BP!Taken, B!Processed, BP!Processed, B!Queued,
         BP!Queued, B!Oldest, BP!Oldest, B!Answered, BP!Answered,
         B!Value, BP!Value, B!Sent, BP!Sent, B!Accepts, BP!Accepts,
         B!Pid, BP!Pid, B!Size, BP!Size
<1>2. ASSUME NEW c PROVE B!use(c) <=> BP!use(c)
  BY DEF B!use, BP!use, B!ApiRequests, BP!ApiRequests, B!call,
         BP!call, B!Answerable, BP!Answerable, B!call_fails,
         BP!call_fails, B!RawRequests, BP!RawRequests, B!post,
         BP!post, B!collect, BP!collect, B!Migrate, BP!Migrate,
         B!Query, BP!Query, B!Accepts, BP!Accepts, B!AfterSend,
         BP!AfterSend, B!Taken, BP!Taken, B!HasMail, BP!HasMail,
         B!Oldest, BP!Oldest, B!Settled, BP!Settled, B!Owing,
         BP!Owing, B!Pid, BP!Pid, B!Size, BP!Size, B!Sent, BP!Sent
<1> QED
  BY <1>1, <1>2

LEMMA SameNet ==
    /\ N!Init <=> NP!Init
    /\ \A pkt : N!serve(pkt) <=> NP!serve(pkt)
    /\ \A pkt : N!idle_turn(pkt) <=> NP!idle_turn(pkt)
    /\ \A c : N!use(c) <=> NP!use(c)
<1>1. N!Init <=> NP!Init
  BY DEF N!Init, NP!Init, N!ClientInit, NP!ClientInit, N!Slot,
         NP!Slot, N!TCP, NP!TCP, N!Cells, NP!Cells, N!Nothing,
         NP!Nothing, N!Empty, NP!Empty, N!NoCall, NP!NoCall, N!Pid,
         NP!Pid
<1>2. ASSUME NEW pkt PROVE N!serve(pkt) <=> NP!serve(pkt)
  <2>1. ASSUME NEW len PROVE N!TooLong(len) <=> NP!TooLong(len)
    BY DEF N!TooLong, NP!TooLong
  <2>2. ASSUME NEW req PROVE N!Value(req) = NP!Value(req)
    BY <2>1 DEF N!Value, NP!Value, N!Unused, NP!Unused, N!Slot,
         NP!Slot, N!Found, NP!Found, N!Tcp, NP!Tcp, N!TCP, NP!TCP,
         N!Fails, NP!Fails
  <2>3. ASSUME NEW req, NEW from PROVE N!Table(req, from) = NP!Table(req, from)
    BY DEF N!Table, NP!Table, N!Unused, NP!Unused, N!Readable, NP!Readable,
         N!Slot, NP!Slot, N!TCP, NP!TCP, N!Allocated, NP!Allocated,
         N!InState, NP!InState, N!Found, NP!Found, N!Tcp, NP!Tcp,
         N!Drained, NP!Drained, N!Closed, NP!Closed, N!FirstCells,
         NP!FirstCells, N!Smaller, NP!Smaller, N!Cells, NP!Cells,
         N!Min, NP!Min
  <2>4. ASSUME NEW req
        PROVE  (N!Complete(req) <=> NP!Complete(req)) /\ N!Reply(req) = NP!Reply(req)
    <3>1. N!Complete(req) <=> NP!Complete(req)
      BY DEF N!Complete, NP!Complete, N!Needs, NP!Needs
    <3>2. N!Readable(req.args[1], req.args[2]) = NP!Readable(req.args[1], req.args[2])
      BY DEF N!Readable, NP!Readable, N!Found, NP!Found, N!Slot, NP!Slot,
           N!FirstCells, NP!FirstCells, N!Smaller, NP!Smaller, N!Min, NP!Min
    <3>3. N!Taken(ipc, NET_SERVER_PID) = NP!Taken(ipc, NET_SERVER_PID)
      BY DEF N!Taken, NP!Taken, N!HasMail, NP!HasMail
    <3>4. ASSUME NEW size, NEW ret, NEW cells
          PROVE  N!Answered(NET_SERVER_PID, size, ret, cells)
                 = NP!Answered(NET_SERVER_PID, size, ret, cells)
      BY <3>3 DEF N!Answered, NP!Answered, N!Request, NP!Request,
           N!Oldest, NP!Oldest, N!Sent, NP!Sent, N!Accepts, NP!Accepts,
           N!Pid, NP!Pid, N!Size, NP!Size
    <3> QED
      BY <2>2, <3>1, <3>2, <3>3, <3>4 DEF N!Reply, NP!Reply, N!Due, NP!Due
  <2>5. ASSUME NEW table PROVE N!Routed(table, pkt) = NP!Routed(table, pkt)
    BY DEF N!Routed, NP!Routed, N!RxAdded, NP!RxAdded, N!Slot, NP!Slot,
         N!Smaller, NP!Smaller, N!Cells, NP!Cells, N!Min, NP!Min
  <2> QED
    BY <2>3, <2>4, <2>5 DEF N!serve, NP!serve, N!HasMail, NP!HasMail, N!Request,
         NP!Request, N!Oldest, NP!Oldest, N!Unused, NP!Unused, N!Slot, NP!Slot
<1>3. ASSUME NEW pkt PROVE N!idle_turn(pkt) <=> NP!idle_turn(pkt)
  BY DEF N!idle_turn, NP!idle_turn, N!HasMail, NP!HasMail, N!Routed,
         NP!Routed, N!clientVars, NP!clientVars, N!Slot, NP!Slot,
         N!RxAdded, NP!RxAdded, N!Smaller, NP!Smaller, N!Cells,
         NP!Cells, N!Min, NP!Min
<1>4. ASSUME NEW c PROVE N!use(c) <=> NP!use(c)
  BY DEF N!use, NP!use, N!Bounded, NP!Bounded, N!call, NP!call,
         N!Due, NP!Due, N!call_fails, NP!call_fails, N!post,
         NP!post, N!collect, NP!collect, N!Asks, NP!Asks,
         N!SocketsAsked, NP!SocketsAsked, N!Accepts, NP!Accepts,
         N!AfterSend, NP!AfterSend, N!Taken, NP!Taken, N!HasMail,
         NP!HasMail, N!Oldest, NP!Oldest, N!Settled, NP!Settled,
         N!Owing, NP!Owing, N!Complete, NP!Complete, N!Pid, NP!Pid,
         N!Size, NP!Size, N!Sent, NP!Sent, N!Needs, NP!Needs, N!TCP,
         NP!TCP, N!UDP, NP!UDP, N!Cardinality, NP!Cardinality
<1> QED
  BY <1>1, <1>2, <1>3, <1>4

LEMMA InitHInv == Init => HInv
<1> SUFFICES ASSUME Init PROVE HInv
  OBVIOUS
<1>1. NP!Init
  BY SameNet DEF Init
<1>2. NP!SInv
  BY <1>1, NetAssumptions, NP!InitSInv
<1>3. NetOrderly(ipc, owed)
  BY <1>1, NetAssumptions, NP!EmptyOrderly DEF NP!Init, NP!ClientInit, NetOrderly
<1> QED
  BY <1>2, <1>3 DEF HInv

(* The bullet server's turn, and a client that uses it.                    *)
LEMMA BulletStep ==
    ASSUME HInv,
           \/ bullet_turn
           \/ \E c \in Clients : B!use(c) /\ UNCHANGED netVars
    PROVE  HInv'
<1>1. BulletOrderly(ipc, owed)
  BY SameOrder DEF HInv
<1>2. NP!SInv'
  BY NetAssumptions, NP!OthersKeepSockets DEF HInv, bullet_turn, netVars
<1>3. CASE B!idle_turn
  BY <1>2, <1>3 DEF B!idle_turn, B!clientVars, HInv, NetOrderly
<1>4. CASE B!serve
  <2>1. BulletOrderly(ipc', owed')
    BY <1>1, <1>4, SameBullet, BothServers, BulletAssumptions, BP!ServeOrderly
       DEF BulletOrderly
  <2> QED
    BY <1>2, <2>1, SameOrder DEF HInv, NetOrderly
<1>5. ASSUME NEW c \in Clients, B!use(c) PROVE HInv'
  <2>1. BulletOrderly(ipc', owed')
    BY <1>1, <1>5, SameBullet, BothServers, BulletAssumptions, BP!UseOrderly
       DEF BulletOrderly
  <2> QED
    BY <1>2, <2>1, SameOrder DEF HInv, NetOrderly
<1> QED
  BY <1>3, <1>4, <1>5 DEF bullet_turn

(* The network server's turn, and a client that uses it.                   *)
LEMMA NetStep ==
    ASSUME NP!ReadsFit, HInv,
           \/ net_turn
           \/ \E c \in Clients : N!use(c) /\ UNCHANGED bulletVars
    PROVE  HInv'
<1>1. ASSUME NEW pkt \in Packets \cup {<< >>}, N!idle_turn(pkt) PROVE HInv'
  <2>1. NP!SInv'
    BY <1>1, SameNet, NetAssumptions, NP!IdleSockets DEF HInv
  <2> QED
    BY <1>1, <2>1 DEF N!idle_turn, N!clientVars, HInv, NetOrderly
<1>2. ASSUME NEW pkt \in Packets \cup {<< >>}, N!serve(pkt) PROVE HInv'
  BY <1>2, SameNet, BothServers, NetAssumptions, NP!ServeOrderly DEF HInv, NetOrderly
<1>3. ASSUME NEW c \in Clients, N!use(c) PROVE HInv'
  BY <1>3, SameNet, BothServers, NetAssumptions, NP!UseOrderly DEF HInv, NetOrderly
<1> QED
  BY <1>1, <1>2, <1>3 DEF net_turn, N!Turn

LEMMA HInvTheorem == ASSUME NP!ReadsFit PROVE Spec => []HInv
<1>1. Init => HInv
  BY InitHInv
<1>2. HInv /\ [Next]_vars => HInv'
  <2> SUFFICES ASSUME HInv, [Next]_vars PROVE HInv'
    OBVIOUS
  <2>1. CASE UNCHANGED vars
    <3>1. NP!SInv'
      BY <2>1, NetAssumptions, NP!OthersKeepSockets DEF HInv, vars, netVars
    <3> QED
      BY <2>1, <3>1 DEF vars, clientVars, HInv, NetOrderly
  <2> QED
    BY <2>1, BulletStep, NetStep DEF Next, use
<1> QED
  BY <1>1, <1>2, PTL DEF Spec

(* With both servers at work on one pool, and clients that use both, every *)
(* request that deserves an answer of the bullet server gets one, in the   *)
(* order it was asked (bullet.c:105).                                      *)
THEOREM BulletTheorem == ASSUME NP!ReadsFit PROVE Spec => []BulletInOrder
<1>1. HInv => BulletInOrder
  <2>1. B!AnswersInOrder <=> BP!AnswersInOrder
    BY DEF B!AnswersInOrder, BP!AnswersInOrder, B!InOrder, BP!InOrder,
         B!Calls, BP!Calls, B!Answerable, BP!Answerable, B!Lists,
         BP!Lists, B!Between, BP!Between, B!Concern, BP!Concern,
         B!ApiRequests, BP!ApiRequests, B!RawRequests,
         BP!RawRequests, B!Migrate, BP!Migrate, B!Query, BP!Query
  <2>2. HInv => BP!AnswersInOrder
    BY SameOrder, BothServers, HydraAssumption
       DEF HInv, BulletOrderly, BP!Orderly, BP!Expects, BP!AnswersInOrder, BP!InOrder,
           BP!DueCalls
  <2> QED
    BY <2>1, <2>2 DEF BulletInOrder
<1> QED
  BY <1>1, HInvTheorem, PTL

(* The same of the network server (net_srv.c:305).                         *)
THEOREM NetTheorem == ASSUME NP!ReadsFit PROVE Spec => []NetInOrder
<1>1. HInv => NetInOrder
  <2>1. N!AnswersInOrder <=> NP!AnswersInOrder
    BY DEF N!AnswersInOrder, NP!AnswersInOrder, N!InOrder, NP!InOrder,
         N!Due, NP!Due, N!Lists, NP!Lists, N!Between, NP!Between,
         N!Concern, NP!Concern
  <2>2. HInv => NP!AnswersInOrder
    BY BothServers, HydraAssumption
       DEF HInv, NetOrderly, NP!Orderly, NP!Expects, NP!AnswersInOrder, NP!InOrder,
           NP!DueKind, NP!Kind
  <2> QED
    BY <2>1, <2>2 DEF NetInOrder
<1> QED
  BY <1>1, HInvTheorem, PTL
=============================================================================
