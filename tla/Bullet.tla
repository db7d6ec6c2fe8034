------------------------------- MODULE Bullet -------------------------------
(***************************************************************************)
(* The bullet server (server/bullet.c): a task that keeps a table of       *)
(* migrations, for the tasks of ServerClients.  A migration is simulated.  *)
(***************************************************************************)
EXTENDS ServerClients

CONSTANTS BULLET_SERVER_PID, MAX_MIGRATION_REQUESTS

ASSUME BulletAssumption ==
    /\ BULLET_SERVER_PID \in Servers
    /\ MAX_MIGRATION_REQUESTS \in Nat

VARIABLE requests       \* status of bullet.requests[0] ... [num_requests - 1]

vars == <<clientVars, requests>>

Migrate(size)       == [cmd |-> 1, size |-> size, args |-> << >>]
Query(size, req_id) == [cmd |-> 2, size |-> size, args |-> <<req_id>>]

(* The requests of the two client functions, and those of a task that      *)
(* makes the system call itself: a migration with data, a query cut short, *)
(* a command the server does not know and a message of one byte.           *)
ApiRequests ==
    {Migrate(16)} \cup {Query(12, id) : id \in 0..MAX_MIGRATION_REQUESTS}
RawRequests ==
    {Migrate(20), Query(8, 0), [cmd |-> 3, size |-> 16, args |-> << >>], Migrate(1)}

Init == ClientInit /\ requests = << >>

----------------------------------------------------------------------------
(* The requests that get a reply: large enough for what the case reads.    *)
Answerable(req) ==
    \/ req.cmd = 1 /\ req.size - 4 >= 16
    \/ req.cmd = 2 /\ req.size - 4 >= 8

Queued_past_limit(table) == Append(table, 0)
(* handle_migration_request: a full table stays as it is.                  *)
Queued(table) ==
    IF Len(table) < MAX_MIGRATION_REQUESTS THEN Append(table, 0) ELSE table

Processed_but_last(table) ==
    [i \in 1..Len(table) |-> IF table[i] = 0 /\ i < Len(table) THEN 2 ELSE table[i]]
(* process_migrations: what is pending (0) is completed (2).               *)
Processed(table) == [i \in 1..Len(table) |-> IF table[i] = 0 THEN 2 ELSE table[i]]

(* The value of the reply, given the table the request finds.              *)
Value(req, table) ==
    IF req.cmd = 1
    THEN IF Len(table) < MAX_MIGRATION_REQUESTS THEN Len(table) ELSE -1
    ELSE IF req.args[1] \in 0..(Len(table) - 1) THEN table[req.args[1] + 1] ELSE -1

Reply_before_free(req) ==
    Taken(Sent(ipc, BULLET_SERVER_PID, Request(BULLET_SERVER_PID).from, 4,
               [from |-> BULLET_SERVER_PID, re |-> req,
                value |-> Value(req, requests), bytes |-> << >>]), BULLET_SERVER_PID)
(* The mailboxes after the request was taken and answered; a send that     *)
(* fails is only logged.                                                   *)
Reply(req) == Answered(BULLET_SERVER_PID, 4, Value(req, requests), << >>)

serve_given_room ==
    /\ HasMail(ipc, BULLET_SERVER_PID) /\ ipc.free > 0
    /\ LET req == Request(BULLET_SERVER_PID).re IN
        /\ ipc' = IF Answerable(req) THEN Reply(req) ELSE Taken(ipc, BULLET_SERVER_PID)
        /\ requests' = Processed(IF Answerable(req) /\ req.cmd = 1
                                 THEN Queued(requests) ELSE requests)
    /\ UNCHANGED <<asked, answer, owed>>
(* A turn of the loop with a message: it is handled, then the migrations   *)
(* that are pending are processed.                                         *)
serve ==
    /\ HasMail(ipc, BULLET_SERVER_PID)
    /\ LET req == Request(BULLET_SERVER_PID).re IN
        /\ ipc' = IF Answerable(req) THEN Reply(req) ELSE Taken(ipc, BULLET_SERVER_PID)
        /\ requests' = Processed(IF Answerable(req) /\ req.cmd = 1
                                 THEN Queued(requests) ELSE requests)
    /\ UNCHANGED <<asked, answer, owed>>

idle_turn ==
    /\ ~HasMail(ipc, BULLET_SERVER_PID)
    /\ requests' = Processed(requests)
    /\ UNCHANGED clientVars

use(c) ==
    /\ \/ \E req \in ApiRequests :
            \/ call(c, BULLET_SERVER_PID, req, Answerable(req))
            \/ call_fails(c, BULLET_SERVER_PID, req)
       \/ \E req \in RawRequests : post(c, BULLET_SERVER_PID, req, Answerable(req))
       \/ collect(c)
    /\ UNCHANGED requests

Next == serve \/ idle_turn \/ \E c \in Clients : use(c)

Spec == Init /\ [][Next]_vars

----------------------------------------------------------------------------
Calls   == ApiRequests \cup RawRequests
Message == [from : Clients, re : Calls]
Answer  == [from : {BULLET_SERVER_PID}, re : Calls, bytes : {<< >>},
            value : {-1, 2} \cup 0..(MAX_MIGRATION_REQUESTS - 1)]

TypeOK ==
    /\ DOMAIN ipc.mailbox = Pid /\ ipc.free \in 0..MAX_MESSAGES
    /\ \A p \in Pid : \A i \in 1..Len(ipc.mailbox[p]) :
        ipc.mailbox[p][i].data \in IF p = BULLET_SERVER_PID THEN Message ELSE Answer
    /\ Len(requests) <= MAX_MIGRATION_REQUESTS
    /\ \A i \in 1..Len(requests) : requests[i] \in {0, 2}
    /\ asked \in [Clients -> Calls \cup {NoCall}]
    /\ \A c \in Clients : answer[c] \subseteq Answer

(* The send of a reply, whose failure is only logged (bullet.c:105), never *)
(* fails: the slot of the request was freed in the same turn.  So no       *)
(* answer is lost, doubled or overtaken.                                   *)
AnswersInOrder == InOrder(BULLET_SERVER_PID, {req \in Calls : Answerable(req)})

(* A request id that is on its way to a client names a migration that is   *)
(* completed by the time the client can ask for it, and no other client is *)
(* given the same; a query is never told of one that is under way.         *)
Given(m) == m.data.re.cmd = 1 /\ m.data.value >= 0
IdsAreGood ==
    \A c, d \in Clients : \A i \in 1..Len(ipc.mailbox[c]), j \in 1..Len(ipc.mailbox[d]) :
        LET m == ipc.mailbox[c][i]
            n == ipc.mailbox[d][j]
        IN /\ Given(m) => m.data.value < Len(requests) /\ requests[m.data.value + 1] = 2
           /\ Given(m) /\ Given(n) /\ m.data.value = n.data.value => c = d /\ i = j
           /\ m.data.re.cmd = 2 => m.data.value \in {-1, 2}

(* A client that is owed an answer has mail in the end, also when requests *)
(* have taken every slot of the pool (bullet_server_main).                 *)
Served == \A c \in Clients : (owed[c][BULLET_SERVER_PID] # << >>) ~> HasMail(ipc, c)
============================================================================
