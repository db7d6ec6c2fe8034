------------------------------ MODULE NetDriver ------------------------------
(***************************************************************************)
(* The receive side of kernal/net_driver.c and of the functions of         *)
(* lib/libnet on top of it: a pool of packets, free ones in one linked     *)
(* list and received ones in another.                                      *)
(*                                                                         *)
(* The handler runs between the calls of the others, never inside one.     *)
(* Nothing calls it as long as interrupts are off (main.c:58-60): then     *)
(* only the initial state is reachable.                                    *)
(***************************************************************************)
EXTENDS Integers, Sequences, SequencesExt

CONSTANTS
    PACKET_POOL_SIZE,
    PERIOD              \* one packet in so many interrupts: 100

Packet == 0..(PACKET_POOL_SIZE - 1)
NULL   == -1

VARIABLES
    pool,               \* the pointers: next of each packet, free_packets as
                        \* free, rx_queue_head and _tail as head and tail
    interrupt_count,    \* modulo PERIOD
    received            \* history: the packets received and not taken yet

vars == <<pool, interrupt_count, received>>

(* init_packet_pool.                                                       *)
Init ==
    /\ pool = [next |-> [p \in Packet |-> IF p + 1 \in Packet THEN p + 1 ELSE NULL],
               free |-> 0, head |-> NULL, tail |-> NULL]
    /\ interrupt_count = 0
    /\ received = << >>

----------------------------------------------------------------------------
(* alloc_packet, and the packet put at the end of the receive queue.       *)
Queued(d) ==
    LET pkt == d.free
        links == [d.next EXCEPT ![pkt] = NULL]
    IN [free |-> d.next[pkt], tail |-> pkt,
        head |-> IF d.tail = NULL THEN pkt ELSE d.head,
        next |-> IF d.tail = NULL THEN links ELSE [links EXCEPT ![d.tail] = pkt]]

Unqueued_tail_kept(d) == [d EXCEPT !.head = d.next[@]]
(* net_receive, when there is a packet.                                    *)
Unqueued(d) ==
    [next |-> d.next, free |-> d.free, head |-> d.next[d.head],
     tail |-> IF d.next[d.head] = NULL THEN NULL ELSE d.tail]

(* net_free_packet.                                                        *)
Freed(d, pkt) ==
    [next |-> [d.next EXCEPT ![pkt] = d.free], free |-> pkt, head |-> d.head, tail |-> d.tail]

Taken(d) == Freed(Unqueued(d), d.head)

(* Interrupts when the pool is empty lose their packet.                    *)
net_interrupt_handler ==
    /\ interrupt_count' = (interrupt_count + 1) % PERIOD
    /\ IF interrupt_count' = 0 /\ pool.free # NULL
       THEN pool' = Queued(pool) /\ received' = Append(received, pool.free)
       ELSE UNCHANGED <<pool, received>>

(* SYS_NET_RECV, net_recv_packet and the console's 'r' copy a packet and   *)
(* give it back; net_is_packet_available gives back the one it finds.      *)
take ==
    /\ pool.head # NULL
    /\ pool' = Taken(pool)
    /\ received' = Tail(received)
    /\ UNCHANGED interrupt_count

(* Until the queue is empty.                                               *)
lwip_process_packets ==
    /\ pool.head # NULL
    /\ LET after[n \in 0..PACKET_POOL_SIZE] ==
          IF n = 0 THEN pool
          ELSE IF after[n - 1].head = NULL THEN after[n - 1] ELSE Taken(after[n - 1])
       IN pool' = after[PACKET_POOL_SIZE]
    /\ received' = << >>
    /\ UNCHANGED interrupt_count

(* With an empty queue the calls of the tasks change nothing.              *)
Next == net_interrupt_handler \/ take \/ lwip_process_packets

Spec == Init /\ [][Next]_vars

----------------------------------------------------------------------------
(* The packets from p on, in list order; one too many marks a cycle.       *)
List(p) ==
    LET walk[n \in 0..(PACKET_POOL_SIZE + 1)] ==
          IF n = 0 THEN << >>
          ELSE LET w == walk[n - 1]
                   q == IF w = << >> THEN p ELSE pool.next[w[Len(w)]]
               IN IF q = NULL THEN w ELSE Append(w, q)
    IN walk[PACKET_POOL_SIZE + 1]

(* Every packet is in the free list or in the receive queue, at one place: *)
(* none is lost and none is handed out twice, whatever the order of calls  *)
(* (alloc_packet, net_receive, net_free_packet).                           *)
PoolIsWhole ==
    LET all == List(pool.free) \o List(pool.head)
    IN Len(all) = PACKET_POOL_SIZE /\ ToSet(all) = Packet

(* Packets are taken in the order they came, also after the queue was      *)
(* empty (net_receive resets the tail).                                    *)
QueueIsFifo ==
    /\ List(pool.head) = received
    /\ pool.tail = IF received = << >> THEN NULL ELSE received[Len(received)]
=============================================================================
