-------------------------------- MODULE Hydra --------------------------------
(***************************************************************************)
(* Both servers and the tasks that use them: one kernel with one pool of   *)
(* messages, and one mailbox per task for the answers of both.             *)
(***************************************************************************)
EXTENDS ServerClients

CONSTANTS
    BULLET_SERVER_PID, MAX_MIGRATION_REQUESTS,
    NET_SERVER_PID, MAX_SOCKETS, CELL, RX_CELLS, Packets, LAST_ID,
    NetApi, NetRaw      \* ApiRequests and RawRequests of the network server

VARIABLES requests, sockets, next_socket_id

bulletVars == <<requests>>
netVars    == <<sockets, next_socket_id>>
vars       == <<clientVars, bulletVars, netVars>>

B == INSTANCE Bullet
N == INSTANCE NetServer WITH ApiRequests <- NetApi, RawRequests <- NetRaw

(* The two servers are two tasks, with what Bullet and NetServer assume.   *)
ASSUME HydraAssumption ==
    /\ {BULLET_SERVER_PID, NET_SERVER_PID} \subseteq Servers
    /\ BULLET_SERVER_PID # NET_SERVER_PID
    /\ {MAX_MIGRATION_REQUESTS, LAST_ID} \subseteq Nat
    /\ {MAX_SOCKETS, CELL, RX_CELLS} \subseteq Nat \ {0}
    /\ << >> \notin Packets /\ \A pkt \in Packets : Len(pkt) \in Nat
    /\ \A req \in NetApi \cup NetRaw :
        /\ req.size \in Nat
        /\ N!Complete(req) /\ req.cmd = 1 => req.args[1] \in {N!TCP, N!UDP}
        /\ N!Complete(req) /\ req.cmd = 6 => req.args[2] \in Nat

Init == B!Init /\ N!Init

bullet_turn == (B!serve \/ B!idle_turn) /\ UNCHANGED netVars
net_turn    == N!Turn /\ UNCHANGED bulletVars
use(c) ==
    \/ B!use(c) /\ UNCHANGED netVars
    \/ N!use(c) /\ UNCHANGED bulletVars

Next == bullet_turn \/ net_turn \/ \E c \in Clients : use(c)

(* The servers' tasks get their turns again and again: NoStarvation in     *)
(* Sched.                                                                  *)
Spec     == Init /\ [][Next]_vars
FairSpec == Spec /\ WF_vars(bullet_turn) /\ WF_vars(net_turn)

----------------------------------------------------------------------------
(* What each server promises alone holds next to the other one, which      *)
(* takes slots of the same pool: one answer to each request, in order, and *)
(* none of them sent to the other server or from it.                       *)
BulletInOrder == B!AnswersInOrder
NetInOrder    == N!AnswersInOrder

(* Neither server can keep the other from answering by filling the pool.   *)
BothServe == B!Served /\ N!Served

(* bullet.c:150 and net_srv.c:326 pass -1 for "any sender", the client     *)
(* functions the pid of the server they called: a call returns what that   *)
(* server sent.                                                            *)
AnswersComeFromTheServer == \A c \in Clients : \A r \in answer[c] :
    /\ asked[c] \in B!ApiRequests => r.from = BULLET_SERVER_PID
    /\ asked[c] \in NetApi => r.from = NET_SERVER_PID
=============================================================================
