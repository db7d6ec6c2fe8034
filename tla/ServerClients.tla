--------------------------- MODULE ServerClients ---------------------------
(***************************************************************************)
(* How a task uses a server: what the client functions of server/bullet.c  *)
(* and server/net_srv.c have in common, over the kernel's mailboxes.       *)
(*                                                                         *)
(* The kernel is cooperative and neither a client's call nor a turn of a   *)
(* server's loop yields inside: each is one step, and the steps come in    *)
(* any order.  A request carries the size it is sent with; the server sees *)
(* that size less 4, for the sender pid that comes first.  The servers     *)
(* answer to that pid and trust it (bullet.c:154, net_srv.c:330): every    *)
(* client function writes its own there, and so does every task here.      *)
(***************************************************************************)
EXTENDS Mailboxes

CONSTANTS
    Clients,        \* pids of the tasks that use the servers
    Servers         \* pids of the servers

ASSUME ClientsAssumption ==
    /\ Clients \subseteq Pid
    /\ Servers \subseteq Pid \ Clients
    /\ MAX_MESSAGE_SIZE >= 4    \* the size of a reply

VARIABLES
    ipc,            \* the kernel's mailboxes
    asked,          \* history: the last call of each client, NoCall before it
    answer,         \* what that call received: a set with at most one message
    owed            \* history: the requests of each client that each server
                    \* has to answer and the client has not had the answer to

clientVars == <<ipc, asked, answer, owed>>

NoCall == [cmd |-> 0, size |-> 0, args |-> << >>]

ClientInit ==
    /\ ipc = Empty(MAX_MESSAGES)
    /\ asked  = [c \in Clients |-> NoCall]
    /\ answer = [c \in Clients |-> {}]
    /\ owed   = [c \in Clients |-> [s \in Servers |-> << >>]]

----------------------------------------------------------------------------
AfterSend(c, s, req) == Sent(ipc, c, s, req.size, [from |-> c, re |-> req])

(* What is owed to clients once c sent req to s, and once c took message m.*)
Owing(c, s, req, due) ==
    IF due THEN [owed EXCEPT ![c][s] = Append(@, req)] ELSE owed
Settled(o, c, m) == [o EXCEPT ![c][m.data.from] = Tail(@)]

(* A client function sends and then takes what is in the mailbox by then,  *)
(* whatever it answers, or nothing: recv_message does not wait.            *)
call(c, s, req, due) ==
    /\ Accepts(ipc, s, req.size)
    /\ LET sent == AfterSend(c, s, req) IN
        /\ ipc' = Taken(sent, c)
        /\ IF HasMail(sent, c)
           THEN /\ answer' = [answer EXCEPT ![c] = {Oldest(sent, c).data}]
                /\ owed' = Settled(Owing(c, s, req, due), c, Oldest(sent, c))
           ELSE /\ answer' = [answer EXCEPT ![c] = {}]
                /\ owed' = Owing(c, s, req, due)
    /\ asked' = [asked EXCEPT ![c] = req]

(* Nothing else runs between its three tries: all of them fail as the      *)
(* first did, and the mailbox is not looked at.                            *)
call_fails(c, s, req) ==
    /\ ~Accepts(ipc, s, req.size)
    /\ asked'  = [asked EXCEPT ![c] = req]
    /\ answer' = [answer EXCEPT ![c] = {}]
    /\ UNCHANGED <<ipc, owed>>

(* syscall_send_msg and syscall_recv_msg by the client itself.             *)
post(c, s, req, due) ==
    /\ Accepts(ipc, s, req.size)
    /\ ipc' = AfterSend(c, s, req)
    /\ owed' = Owing(c, s, req, due)
    /\ UNCHANGED <<asked, answer>>
collect(c) ==
    /\ HasMail(ipc, c)
    /\ ipc' = Taken(ipc, c)
    /\ owed' = Settled(owed, c, Oldest(ipc, c))
    /\ UNCHANGED <<asked, answer>>

(* A server takes a request; it answers it with a message of size bytes.   *)
Request(s) == Oldest(ipc, s).data
Answered(s, size, value, bytes) ==
    Sent(Taken(ipc, s), s, Request(s).from, size,
         [from |-> s, re |-> Request(s).re, value |-> value, bytes |-> bytes])

----------------------------------------------------------------------------
(* What lies between client c and server s: the answers c has not read,    *)
(* then the requests s has not read.  Of these, the answers of s and the   *)
(* requests of c that are due one concern the two.                         *)
Between(box, c, s) == box[c] \o box[s]
Concern(box, c, s, due) ==
    {k \in DOMAIN Between(box, c, s) :
        LET d == Between(box, c, s)[k].data
        IN IF k <= Len(box[c]) THEN d.from = s ELSE d.from = c /\ d.re \in due}

(* The messages of q at the places in some are about the requests in reqs: *)
(* one about each, in the same order.                                      *)
Lists(reqs, q, some) ==
    \E place \in [DOMAIN reqs -> some] :
        /\ \A i, j \in DOMAIN reqs : i < j => place[i] < place[j]
        /\ \A k \in some : \E i \in DOMAIN reqs : place[i] = k
        /\ \A i \in DOMAIN reqs : q[place[i]].data.re = reqs[i]

(* Each client gets exactly one answer from s to each request that         *)
(* deserves one, in the order it asked, whoever else asks and however full *)
(* the pool is.                                                            *)
InOrder(s, due) == \A c \in Clients :
    Lists(owed[c][s], Between(ipc.mailbox, c, s), Concern(ipc.mailbox, c, s, due))
============================================================================
