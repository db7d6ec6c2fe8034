--------------------------- MODULE IPCListsProofs ---------------------------
(* Proofs about IPCLists for any number of pids, slots and sizes.          *)
EXTENDS IPCAudit, SequenceTheorems, FiniteSetTheorems, TLAPS

Rep  == TypeOK /\ QueuesLinked /\ FreeLinked /\ EverySlotOnce
IInv == Rep /\ QueuedAreWhole

LEMMA InitIInv == Init => IInv
<1> SUFFICES ASSUME NEW slots \in 0..MAX_MESSAGES,
                    next = [m \in 1..slots |-> m - 1],
                    mem \in [1..slots -> {Blank(d) : d \in Data}],
                    free_messages = slots,
                    head  = [p \in Pid |-> NULL],
                    tail  = [p \in Pid |-> NULL],
                    count = [p \in Pid |-> 0],
                    result = Returned(0),
                    lists = [l \in List |-> IF l = FREE THEN [i \in 1..slots |-> i] ELSE << >>]
             PROVE  IInv
  BY DEF Init
<1>1. /\ slots \in Nat /\ MAX_MESSAGES \in Nat /\ slots <= MAX_MESSAGES
      /\ FREE \in List
      /\ \A p \in Pid : p \in List /\ p # FREE
  BY ListsAssumption DEF Pid, List, FREE
<1>2. /\ lists[FREE] = [i \in 1..slots |-> i]
      /\ \A p \in Pid : lists[p] = << >>
  BY <1>1, Zenon
<1>3. /\ lists[FREE] \in Seq(1..slots) /\ Len(lists[FREE]) = slots
      /\ \A i \in 1..slots : lists[FREE][i] = i
  <2>1. [i \in 1..slots |-> i] \in Seq(1..slots) /\ Len([i \in 1..slots |-> i]) = slots
    BY <1>1
  <2> QED
    BY <1>2, <2>1
<1>4. /\ << >> \in Seq(1..slots) /\ Len(<< >>) = 0
      /\ \A p \in Pid : Len(lists[p]) = 0
  BY <1>2, EmptySeq
<1>5. TypeOK
  <2>1. DOMAIN next = 1..slots
    OBVIOUS
  <2>2. lists \in [List -> Seq(1..slots)]
    <3>1. \A l \in List : lists[l] \in Seq(1..slots)
      BY <1>1, <1>2, <1>3, <1>4 DEF List
    <3> QED
      BY <3>1, Zenon
  <2>3. next \in [1..slots -> Slot \cup {0}]
    BY <1>1 DEF Slot
  <2>4. \A d \in Data : Blank(d) \in [sender_pid : Pid \cup {-1}, receiver_pid : Pid \cup {-1},
                                      size : Size \cup {0}, data : Data]
    BY DEF Blank
  <2>5. result \in [ret : {-1, 0} \cup Size, copied : {0} \cup Size, data : SUBSET Data]
    BY DEF Returned
  <2>6. /\ head \in [Pid -> DOMAIN next \cup {NULL}] /\ tail \in [Pid -> DOMAIN next \cup {NULL}]
        /\ count \in [Pid -> Nat] /\ free_messages \in DOMAIN next \cup {NULL}
    BY <1>1 DEF NULL
  <2>7. mem \in [1..slots -> [sender_pid : Pid \cup {-1}, receiver_pid : Pid \cup {-1},
                              size : Size \cup {0}, data : Data]]
    BY <2>4
  <2> QED
    BY <1>1, <2>1, <2>2, <2>3, <2>5, <2>6, <2>7 DEF TypeOK, NULL
<1>6. QueuesLinked
  <2>1. ASSUME NEW p \in Pid
        PROVE  /\ count[p] = Len(lists[p])
               /\ head[p] = NULL /\ tail[p] = NULL /\ lists[p] = << >>
    BY <1>2, <1>4
  <2>2. ASSUME NEW p \in Pid, NEW i \in 1..Len(lists[p]) PROVE FALSE
    <3>1. Len(lists[p]) = 0
      BY <1>4
    <3> QED
      BY <3>1
  <2> QED
    BY <2>1, <2>2, Zenon DEF QueuesLinked
<1>7. FreeLinked
  <2>1. slots = 0 <=> lists[FREE] = << >>
    BY <1>1, <1>3, EmptySeq
  <2> QED
    BY <1>1, <1>3, <2>1 DEF FreeLinked, NULL
<1>8. EverySlotOnce
  <2>1. NoSlotLeaked
    BY <1>1, <1>3 DEF NoSlotLeaked, Holds
  <2>2. NoSlotShared
    <3> SUFFICES ASSUME NEW l \in List, NEW k \in List,
                        NEW i \in 1..Len(lists[l]), NEW j \in 1..Len(lists[k]),
                        lists[l][i] = lists[k][j]
                 PROVE  l = k /\ i = j
      BY DEF NoSlotShared
    <3>1. l = FREE /\ k = FREE
      BY <1>4 DEF List
    <3> QED
      BY <1>3, <3>1
  <2> QED
    BY <2>1, <2>2 DEF EverySlotOnce
<1>9. QueuedAreWhole
  <2>1. ASSUME NEW p \in Pid, NEW i \in 1..Len(lists[p]) PROVE FALSE
    <3>1. Len(lists[p]) = 0
      BY <1>4
    <3> QED
      BY <3>1
  <2> QED
    BY <2>1, Zenon DEF QueuedAreWhole
<1> QED
  BY <1>5, <1>6, <1>7, <1>8, <1>9 DEF IInv, Rep

----------------------------------------------------------------------------
LEMMA ListFacts ==
    ASSUME NEW S, NEW f \in [List -> Seq(S)], NEW l \in List
    PROVE  /\ f[l] \in Seq(S) /\ Len(f[l]) \in Nat
           /\ f[l] = << >> <=> Len(f[l]) = 0
           /\ \A i \in 1..Len(f[l]) : f[l][i] \in S
BY EmptySeq, ElementOfSeq

LEMMA Names ==
    /\ FREE \in List
    /\ \A p \in Pid : p \in List /\ p # FREE
    /\ \A l \in List : l = FREE \/ l \in Pid
BY ListsAssumption DEF List, Pid, FREE

LEMMA SlotFacts ==
    ASSUME Rep
    PROVE  /\ DOMAIN next \subseteq Slot /\ NULL \notin DOMAIN next
           /\ next \in [DOMAIN next -> Slot \cup {NULL}]
           /\ lists \in [List -> Seq(DOMAIN next)]
BY ListsAssumption DEF Rep, TypeOK, Slot, NULL

LEMMA Apart ==
    ASSUME Rep, NEW l \in List, NEW k \in List,
           NEW i \in 1..Len(lists[l]), NEW j \in 1..Len(lists[k]),
           l # k \/ i # j
    PROVE  lists[l][i] # lists[k][j]
BY DEF Rep, EverySlotOnce, NoSlotShared

(* What a send to r does to the lists, element by element.                 *)
SendMoved(r) ==
    /\ r \in Pid /\ free_messages \in DOMAIN next
    /\ \A l \in List : Len(lists[l]) \in Nat
    /\ Len(lists[FREE]) > 0 /\ lists[FREE][Len(lists[FREE])] = free_messages
    /\ lists' \in [List -> Seq(DOMAIN next)]
    /\ Len(lists'[FREE]) = Len(lists[FREE]) - 1
    /\ \A i \in 1..Len(lists'[FREE]) : lists'[FREE][i] = lists[FREE][i]
    /\ Len(lists'[r]) = Len(lists[r]) + 1
    /\ \A i \in 1..Len(lists[r]) : lists'[r][i] = lists[r][i]
    /\ lists'[r][Len(lists[r]) + 1] = free_messages
    /\ \A l \in List : l # r /\ l # FREE => lists'[l] = lists[l]

LEMMA SendMoves ==
    ASSUME Rep, NEW self \in Pid, NEW r, NEW size, NEW data \in Data,
           send_message(self, r, size, data)
    PROVE  SendMoved(r)
<1> USE ListsAssumption DEF Pid, List, FREE
<1>1. r \in Pid /\ free_messages # NULL
  BY DEF send_message, CanSend
<1>2. free_messages \in DOMAIN next /\ lists \in [List -> Seq(DOMAIN next)]
  BY <1>1 DEF Rep, TypeOK
<1>3. r \in List /\ FREE \in List /\ r # FREE
  BY <1>1
<1>4. lists' = [lists EXCEPT ![FREE] = SubSeq(@, 1, Len(@) - 1),
                             ![r] = Append(@, free_messages)]
  BY DEF send_message, Enqueue
<1>5. \A l \in List : Len(lists[l]) \in Nat
  BY <1>2
<1>6. Len(lists[FREE]) > 0 /\ lists[FREE][Len(lists[FREE])] = free_messages
  BY <1>1, <1>2, <1>3, <1>5, EmptySeq DEF Rep, FreeLinked
<1>7. lists'[FREE] = SubSeq(lists[FREE], 1, Len(lists[FREE]) - 1)
  BY <1>2, <1>3, <1>4
<1>8. lists'[r] = Append(lists[r], free_messages)
  BY <1>2, <1>3, <1>4
<1>9. \A l \in List : l # r /\ l # FREE => lists'[l] = lists[l]
  BY <1>2, <1>4
<1>10. /\ lists'[FREE] \in Seq(DOMAIN next)
       /\ Len(lists'[FREE]) = Len(lists[FREE]) - 1
       /\ \A i \in 1..Len(lists'[FREE]) : lists'[FREE][i] = lists[FREE][i]
  <2>1. \A i \in 1..(Len(lists[FREE]) - 1) : lists[FREE][i] \in DOMAIN next
    BY <1>2, <1>3, <1>5, ElementOfSeq
  <2> QED
    BY <1>3, <1>5, <1>6, <1>7, <2>1, SubSeqProperties
<1>11. /\ lists'[r] \in Seq(DOMAIN next)
       /\ Len(lists'[r]) = Len(lists[r]) + 1
       /\ \A i \in 1..Len(lists[r]) : lists'[r][i] = lists[r][i]
       /\ lists'[r][Len(lists[r]) + 1] = free_messages
  BY <1>2, <1>3, <1>8, AppendProperties
<1>12. lists' \in [List -> Seq(DOMAIN next)]
  <2>1. \A l \in List : lists'[l] \in Seq(DOMAIN next)
    BY <1>2, <1>9, <1>10, <1>11
  <2> QED
    BY <1>2, <1>4, <2>1
<1> QED
  BY <1>1, <1>2, <1>5, <1>6, <1>9, <1>10, <1>11, <1>12 DEF SendMoved

(* A slot is in one list only, so the last slot of the receiver's queue is *)
(* not the slot that was taken; these are the links a send leaves.         *)
SendLinked(r) ==
    /\ DOMAIN next' = DOMAIN next
    /\ head[r] = NULL <=> Len(lists[r]) = 0
    /\ next'[free_messages] = NULL
    /\ Len(lists[r]) > 0 =>
         /\ lists[r][Len(lists[r])] = tail[r] /\ tail[r] # free_messages
         /\ tail[r] \in DOMAIN next /\ next'[tail[r]] = free_messages
    /\ \A m \in DOMAIN next :
         m # free_messages /\ ~(Len(lists[r]) > 0 /\ m = tail[r]) => next'[m] = next[m]

LEMMA SendLinks ==
    ASSUME Rep, NEW self \in Pid, NEW r, NEW size, NEW data \in Data,
           send_message(self, r, size, data), SendMoved(r)
    PROVE  SendLinked(r)
<1>1. r \in List /\ r \in Pid /\ r # FREE /\ FREE \in List
  BY Names DEF SendMoved
<1>2. /\ lists[r] \in Seq(DOMAIN next) /\ Len(lists[r]) \in Nat
      /\ lists[r] = << >> <=> Len(lists[r]) = 0
      /\ \A i \in 1..Len(lists[r]) : lists[r][i] \in DOMAIN next
  BY <1>1, SlotFacts, ListFacts
<1>3. /\ head[r] = IF lists[r] = << >> THEN NULL ELSE lists[r][1]
      /\ tail[r] = IF lists[r] = << >> THEN NULL ELSE lists[r][Len(lists[r])]
  BY <1>1 DEF Rep, QueuesLinked
<1>4. head[r] = NULL <=> Len(lists[r]) = 0
  BY <1>2, <1>3, SlotFacts
<1>5. /\ next \in [DOMAIN next -> Slot \cup {NULL}] /\ free_messages \in DOMAIN next
      /\ next' = IF head[r] = NULL THEN [next EXCEPT ![free_messages] = NULL]
                 ELSE [[next EXCEPT ![free_messages] = NULL] EXCEPT ![tail[r]] = free_messages]
  BY SlotFacts DEF SendMoved, send_message, Enqueue, Unlinked
<1>6. ASSUME Len(lists[r]) > 0
      PROVE  /\ lists[r][Len(lists[r])] = tail[r] /\ tail[r] # free_messages
             /\ tail[r] \in DOMAIN next
  <2>1. lists[r][Len(lists[r])] = tail[r] /\ tail[r] \in DOMAIN next
    BY <1>2, <1>3, <1>6
  <2>2. /\ Len(lists[FREE]) \in 1..Len(lists[FREE]) /\ Len(lists[r]) \in 1..Len(lists[r])
        /\ lists[FREE][Len(lists[FREE])] = free_messages
    BY <1>1, <1>2, <1>6 DEF SendMoved
  <2>3. lists[r][Len(lists[r])] # lists[FREE][Len(lists[FREE])]
    BY <1>1, <2>2, Apart
  <2> QED
    BY <2>1, <2>2, <2>3
<1>7. CASE Len(lists[r]) = 0
  <2>1. next' = [next EXCEPT ![free_messages] = NULL]
    BY <1>4, <1>5, <1>7
  <2> QED
    BY <1>4, <1>5, <1>7, <2>1 DEF SendLinked
<1>8. CASE Len(lists[r]) > 0
  <2>1. next' = [[next EXCEPT ![free_messages] = NULL] EXCEPT ![tail[r]] = free_messages]
    BY <1>4, <1>5, <1>8
  <2> QED
    BY <1>4, <1>5, <1>6, <1>8, <2>1 DEF SendLinked
<1> QED
  BY <1>2, <1>7, <1>8

LEMMA SendType ==
    ASSUME Rep, NEW self \in Pid, NEW r, NEW size, NEW data \in Data,
           send_message(self, r, size, data), SendMoved(r), SendLinked(r)
    PROVE  TypeOK'
<1>1. /\ r \in Pid /\ size \in Size /\ free_messages \in DOMAIN next
      /\ DOMAIN next' = DOMAIN next
      /\ DOMAIN next \subseteq Slot
  BY SlotFacts DEF SendMoved, SendLinked, send_message, CanSend
<1>2. next' \in [DOMAIN next -> Slot \cup {NULL}]
  <2>1. next' = [next EXCEPT ![free_messages] = NULL]
        \/ next' = [[next EXCEPT ![free_messages] = NULL] EXCEPT ![tail[r]] = free_messages]
    BY DEF send_message, Enqueue, Unlinked
  <2> QED
    BY <1>1, <2>1, SlotFacts
<1>3. mem' \in [DOMAIN next -> [sender_pid : Pid \cup {-1}, receiver_pid : Pid \cup {-1},
                               size : Size \cup {0}, data : Data]]
  <2>1. mem' = [mem EXCEPT ![free_messages] =
                  [sender_pid |-> self, receiver_pid |-> r, size |-> size, data |-> data]]
    BY DEF send_message
  <2>2. mem \in [DOMAIN next -> [sender_pid : Pid \cup {-1}, receiver_pid : Pid \cup {-1},
                               size : Size \cup {0}, data : Data]]
    BY DEF Rep, TypeOK
  <2> QED
    BY <1>1, <2>1, <2>2
<1>4. free_messages' \in DOMAIN next \cup {NULL}
  <2>1. /\ Len(lists[FREE]) \in Nat \ {0} /\ lists[FREE][Len(lists[FREE])] = free_messages
        /\ \A i \in 1..Len(lists[FREE]) : lists[FREE][i] \in DOMAIN next
    BY Names, SlotFacts, ListFacts DEF SendMoved
  <2>2. free_messages' = IF Len(lists[FREE]) = 1 THEN NULL
                         ELSE lists[FREE][Len(lists[FREE]) - 1]
    <3>1. Len(lists[FREE]) \in 1..Len(lists[FREE])
      BY <2>1
    <3>2. next[lists[FREE][Len(lists[FREE])]] =
            IF Len(lists[FREE]) = 1 THEN NULL ELSE lists[FREE][Len(lists[FREE]) - 1]
      BY <3>1 DEF Rep, FreeLinked
    <3> QED
      BY <2>1, <3>2 DEF send_message
  <2>3. CASE Len(lists[FREE]) = 1
    BY <2>2, <2>3
  <2>4. CASE Len(lists[FREE]) # 1
    <3>1. Len(lists[FREE]) \in Nat \ {0}
      BY <2>1
    <3>2. \A n \in Nat \ {0} : n # 1 => n - 1 \in 1..n
      OBVIOUS
    <3>3. Len(lists[FREE]) - 1 \in 1..Len(lists[FREE])
      BY <2>4, <3>1, <3>2, Zenon
    <3> QED
      BY <2>1, <2>2, <2>4, <3>3
  <2> QED
    BY <2>3, <2>4
<1>5. head' \in [Pid -> DOMAIN next \cup {NULL}] /\ tail' \in [Pid -> DOMAIN next \cup {NULL}]
  BY <1>1 DEF send_message, Enqueue, Rep, TypeOK
<1>6. count' \in [Pid -> Nat]
  BY <1>1 DEF send_message, Enqueue, Rep, TypeOK
<1>7. result' \in [ret : {-1, 0} \cup Size, copied : {0} \cup Size, data : SUBSET Data]
  BY DEF send_message, Returned
<1>8. DOMAIN next' \in {1..n : n \in 0..MAX_MESSAGES} /\ lists' \in [List -> Seq(DOMAIN next)]
  BY <1>1 DEF Rep, TypeOK, SendMoved
<1> QED
  BY <1>1, <1>2, <1>3, <1>4, <1>5, <1>6, <1>7, <1>8 DEF TypeOK

LEMMA SendQueues ==
    ASSUME Rep, NEW self \in Pid, NEW r, NEW size, NEW data \in Data,
           send_message(self, r, size, data), SendMoved(r), SendLinked(r)
    PROVE  QueuesLinked'
<1> SUFFICES ASSUME NEW p \in Pid
             PROVE  /\ count'[p] = Len(lists'[p])
                    /\ head'[p] = IF lists'[p] = << >> THEN NULL ELSE lists'[p][1]
                    /\ tail'[p] = IF lists'[p] = << >> THEN NULL
                                  ELSE lists'[p][Len(lists'[p])]
                    /\ \A i \in 1..Len(lists'[p]) : next'[lists'[p][i]] =
                          IF i = Len(lists'[p]) THEN NULL ELSE lists'[p][i + 1]
  BY DEF QueuesLinked
<1>1. /\ r \in List /\ r \in Pid /\ r # FREE /\ FREE \in List
      /\ p \in List /\ p # FREE
  BY Names DEF SendMoved
<1>2. /\ Len(lists[p]) \in Nat /\ (lists[p] = << >> <=> Len(lists[p]) = 0)
      /\ \A i \in 1..Len(lists[p]) : lists[p][i] \in DOMAIN next
  BY <1>1, SlotFacts, ListFacts
<1>3. /\ count[p] = Len(lists[p])
      /\ head[p] = IF lists[p] = << >> THEN NULL ELSE lists[p][1]
      /\ tail[p] = IF lists[p] = << >> THEN NULL ELSE lists[p][Len(lists[p])]
      /\ \A i \in 1..Len(lists[p]) : next[lists[p][i]] =
            IF i = Len(lists[p]) THEN NULL ELSE lists[p][i + 1]
  BY DEF Rep, QueuesLinked
<1>4. ASSUME NEW i \in 1..Len(lists[p]) PROVE lists[p][i] # free_messages
  <2>1. /\ Len(lists[FREE]) \in 1..Len(lists[FREE])
        /\ lists[FREE][Len(lists[FREE])] = free_messages
    BY <1>1 DEF SendMoved
  <2> QED
    BY <1>1, <2>1, Apart
<1>5. ASSUME Len(lists[r]) > 0, NEW i \in 1..Len(lists[p]), p # r \/ i # Len(lists[r])
      PROVE  lists[p][i] # tail[r]
  <2>1. Len(lists[r]) \in 1..Len(lists[r]) /\ lists[r][Len(lists[r])] = tail[r]
    BY <1>1, <1>5 DEF SendMoved, SendLinked
  <2>2. lists[p][i] # lists[r][Len(lists[r])]
    BY <1>1, <1>5, <2>1, Apart
  <2> QED
    BY <2>1, <2>2
<1>6. ASSUME NEW i \in 1..Len(lists[p]), p # r \/ i # Len(lists[r])
      PROVE  next'[lists[p][i]] = next[lists[p][i]]
  BY <1>2, <1>4, <1>5, <1>6 DEF SendLinked
<1>7. CASE p # r
  <2>1. lists'[p] = lists[p]
    BY <1>1, <1>7 DEF SendMoved
  <2>2. head'[p] = head[p] /\ tail'[p] = tail[p] /\ count'[p] = count[p]
    BY <1>1, <1>7 DEF send_message, Enqueue, Rep, TypeOK
  <2> QED
    BY <1>3, <1>6, <1>7, <2>1, <2>2
<1>8. CASE p = r
  <2>1. /\ Len(lists'[p]) = Len(lists[p]) + 1 /\ lists'[p] # << >>
        /\ \A i \in 1..Len(lists[p]) : lists'[p][i] = lists[p][i]
        /\ lists'[p][Len(lists[p]) + 1] = free_messages
    BY <1>1, <1>2, <1>8, ListFacts DEF SendMoved
  <2>2. /\ count'[p] = count[p] + 1 /\ tail'[p] = free_messages
        /\ head'[p] = IF head[p] = NULL THEN free_messages ELSE head[p]
    BY <1>1, <1>8 DEF send_message, Enqueue, Rep, TypeOK
  <2>3. head[p] = NULL <=> Len(lists[p]) = 0
    BY <1>8 DEF SendLinked
  <2>4. head'[p] = lists'[p][1]
    BY <1>2, <1>3, <2>1, <2>2, <2>3
  <2>5. ASSUME NEW i \in 1..Len(lists'[p])
        PROVE  next'[lists'[p][i]] = IF i = Len(lists'[p]) THEN NULL ELSE lists'[p][i + 1]
    <3>1. CASE i = Len(lists[p]) + 1
      BY <1>2, <2>1, <3>1 DEF SendLinked
    <3>2. CASE i = Len(lists[p]) /\ i \in 1..Len(lists[p])
      BY <1>2, <1>8, <2>1, <3>2 DEF SendLinked
    <3>3. CASE i # Len(lists[p]) /\ i \in 1..Len(lists[p])
      <4>1. next'[lists[p][i]] = next[lists[p][i]]
        BY <1>6, <1>8, <3>3
      <4>2. i + 1 \in 1..Len(lists[p]) /\ i # Len(lists'[p])
        BY <1>2, <2>1, <3>3
      <4> QED
        BY <1>3, <2>1, <3>3, <4>1, <4>2
    <3> QED
      BY <1>2, <2>1, <3>1, <3>2, <3>3
  <2> QED
    BY <1>3, <2>1, <2>2, <2>4, <2>5
<1> QED
  BY <1>7, <1>8

LEMMA SendFree ==
    ASSUME Rep, NEW self \in Pid, NEW r, NEW size, NEW data \in Data,
           send_message(self, r, size, data), SendMoved(r), SendLinked(r)
    PROVE  FreeLinked'
<1>1. r \in List /\ r \in Pid /\ r # FREE /\ FREE \in List
  BY Names DEF SendMoved
<1>2. /\ Len(lists[FREE]) \in Nat \ {0} /\ Len(lists'[FREE]) = Len(lists[FREE]) - 1
      /\ lists[FREE][Len(lists[FREE])] = free_messages
      /\ \A i \in 1..Len(lists[FREE]) : lists[FREE][i] \in DOMAIN next
      /\ \A i \in 1..Len(lists'[FREE]) : lists'[FREE][i] = lists[FREE][i]
      /\ lists'[FREE] = << >> <=> Len(lists'[FREE]) = 0
  BY <1>1, SlotFacts, ListFacts DEF SendMoved
<1>3. \A i \in 1..Len(lists[FREE]) :
        next[lists[FREE][i]] = IF i = 1 THEN NULL ELSE lists[FREE][i - 1]
  BY DEF Rep, FreeLinked
<1>4. free_messages' = IF lists'[FREE] = << >> THEN NULL ELSE lists'[FREE][Len(lists'[FREE])]
  <2>1. free_messages' = next[lists[FREE][Len(lists[FREE])]]
    BY <1>2 DEF send_message
  <2>2. Len(lists[FREE]) \in 1..Len(lists[FREE])
    BY <1>2
  <2>3. CASE Len(lists[FREE]) = 1
    BY <1>2, <1>3, <2>1, <2>2, <2>3
  <2>4. CASE Len(lists[FREE]) # 1
    <3>1. Len(lists'[FREE]) \in 1..Len(lists'[FREE]) /\ lists'[FREE] # << >>
      BY <1>2, <2>4
    <3>2. free_messages' = lists[FREE][Len(lists[FREE]) - 1]
      BY <1>3, <2>1, <2>2, <2>4
    <3> QED
      BY <1>2, <3>1, <3>2
  <2> QED
    BY <2>3, <2>4
<1>5. ASSUME NEW i \in 1..Len(lists'[FREE])
      PROVE  next'[lists'[FREE][i]] = IF i = 1 THEN NULL ELSE lists'[FREE][i - 1]
  <2>1. /\ i \in 1..Len(lists[FREE]) /\ i # Len(lists[FREE]) /\ lists'[FREE][i] = lists[FREE][i]
        /\ Len(lists[FREE]) \in 1..Len(lists[FREE])
    BY <1>2
  <2>2. i # 1 => lists'[FREE][i - 1] = lists[FREE][i - 1]
    BY <1>2, <2>1
  <2>3. lists[FREE][i] # free_messages
    BY <1>1, <1>2, <2>1, Apart
  <2>4. ASSUME Len(lists[r]) > 0 PROVE lists[FREE][i] # tail[r]
    <3>1. Len(lists[r]) \in 1..Len(lists[r]) /\ lists[r][Len(lists[r])] = tail[r]
      BY <1>1, <2>4 DEF SendMoved, SendLinked
    <3>2. lists[r][Len(lists[r])] # lists[FREE][i]
      BY <1>1, <2>1, <3>1, Apart
    <3> QED
      BY <3>1, <3>2
  <2>5. next'[lists[FREE][i]] = next[lists[FREE][i]]
    BY <1>2, <2>1, <2>3, <2>4 DEF SendLinked
  <2> QED
    BY <1>3, <2>1, <2>2, <2>5
<1> QED
  BY <1>4, <1>5 DEF FreeLinked

(* Each position of the lists after a send was a position before it, but   *)
(* for the new end of the receiver's queue.                                *)
LEMMA SendOnce ==
    ASSUME Rep, NEW self \in Pid, NEW r, NEW size, NEW data \in Data,
           send_message(self, r, size, data), SendMoved(r), SendLinked(r)
    PROVE  EverySlotOnce'
<1>1. r \in List /\ r \in Pid /\ r # FREE /\ FREE \in List
  BY Names DEF SendMoved
<1>2. /\ Len(lists[FREE]) \in 1..Len(lists[FREE]) /\ Len(lists[FREE]) \in Nat
      /\ lists[FREE][Len(lists[FREE])] = free_messages
      /\ Len(lists[r]) \in Nat
  BY <1>1 DEF SendMoved
<1>3. ASSUME NEW l \in List, NEW i \in 1..Len(lists'[l]), ~(l = r /\ i = Len(lists[r]) + 1)
      PROVE  /\ i \in 1..Len(lists[l]) /\ lists'[l][i] = lists[l][i]
             /\ ~(l = FREE /\ i = Len(lists[FREE]))
  <2>1. CASE l = FREE
    BY <1>1, <1>2, <1>3, <2>1 DEF SendMoved
  <2>2. CASE l = r
    BY <1>1, <1>2, <1>3, <2>2 DEF SendMoved
  <2>3. CASE l # FREE /\ l # r
    BY <1>3, <2>3 DEF SendMoved
  <2> QED
    BY <2>1, <2>2, <2>3
<1>4. ASSUME NEW l \in List, NEW i \in 1..Len(lists[l]), ~(l = FREE /\ i = Len(lists[FREE]))
      PROVE  i \in 1..Len(lists'[l]) /\ lists'[l][i] = lists[l][i]
  <2>1. CASE l = FREE
    BY <1>1, <1>2, <1>4, <2>1 DEF SendMoved
  <2>2. CASE l = r
    BY <1>1, <1>2, <1>4, <2>2 DEF SendMoved
  <2>3. CASE l # FREE /\ l # r
    BY <1>4, <2>3 DEF SendMoved
  <2> QED
    BY <2>1, <2>2, <2>3
<1>5. Len(lists[r]) + 1 \in 1..Len(lists'[r]) /\ lists'[r][Len(lists[r]) + 1] = free_messages
  BY <1>2 DEF SendMoved
<1>6. NoSlotLeaked'
  <2> SUFFICES ASSUME NEW m \in DOMAIN next
               PROVE  \E l \in List : \E i \in 1..Len(lists'[l]) : lists'[l][i] = m
    BY DEF NoSlotLeaked, Holds, SendLinked
  <2>0. PICK l \in List : Holds(l, m)
    BY DEF Rep, EverySlotOnce, NoSlotLeaked
  <2>1. PICK i \in 1..Len(lists[l]) : lists[l][i] = m
    BY <2>0 DEF Holds
  <2>2. CASE l = FREE /\ i = Len(lists[FREE])
    BY <1>1, <1>2, <1>5, <2>1, <2>2
  <2>3. CASE ~(l = FREE /\ i = Len(lists[FREE]))
    BY <1>4, <2>1, <2>3
  <2> QED
    BY <2>2, <2>3
<1>7. NoSlotShared'
  <2> SUFFICES ASSUME NEW l \in List, NEW k \in List,
                      NEW i \in 1..Len(lists'[l]), NEW j \in 1..Len(lists'[k]),
                      l # k \/ i # j
               PROVE  lists'[l][i] # lists'[k][j]
    BY DEF NoSlotShared
  <2>1. ASSUME NEW h \in List, NEW n \in 1..Len(lists'[h]), ~(h = r /\ n = Len(lists[r]) + 1)
        PROVE  lists'[h][n] # free_messages
    <3>1. n \in 1..Len(lists[h]) /\ lists'[h][n] = lists[h][n]
          /\ ~(h = FREE /\ n = Len(lists[FREE]))
      BY <1>3, <2>1
    <3>2. lists[h][n] # lists[FREE][Len(lists[FREE])]
      BY <1>1, <1>2, <3>1, Apart
    <3> QED
      BY <1>2, <3>1, <3>2
  <2>2. CASE l = r /\ i = Len(lists[r]) + 1
    BY <1>5, <2>1, <2>2
  <2>3. CASE k = r /\ j = Len(lists[r]) + 1
    BY <1>5, <2>1, <2>3
  <2>4. CASE ~(l = r /\ i = Len(lists[r]) + 1) /\ ~(k = r /\ j = Len(lists[r]) + 1)
    <3>1. /\ i \in 1..Len(lists[l]) /\ lists'[l][i] = lists[l][i]
          /\ j \in 1..Len(lists[k]) /\ lists'[k][j] = lists[k][j]
      BY <1>3, <2>4
    <3>2. lists[l][i] # lists[k][j]
      BY <3>1, Apart
    <3> QED
      BY <3>1, <3>2
  <2> QED
    BY <2>2, <2>3, <2>4
<1> QED
  BY <1>6, <1>7 DEF EverySlotOnce

LEMMA SendWhole ==
    ASSUME IInv, NEW self \in Pid, NEW r, NEW size, NEW data \in Data,
           send_message(self, r, size, data), SendMoved(r), SendLinked(r)
    PROVE  QueuedAreWhole'
<1> SUFFICES ASSUME NEW p \in Pid, NEW i \in 1..Len(lists'[p])
             PROVE  /\ mem'[lists'[p][i]].receiver_pid = p
                    /\ mem'[lists'[p][i]].sender_pid \in Pid
                    /\ mem'[lists'[p][i]].size \in Size
  BY DEF QueuedAreWhole
<1>1. /\ r \in List /\ r \in Pid /\ FREE \in List /\ p \in List /\ p # FREE /\ size \in Size
      /\ Rep /\ free_messages \in DOMAIN next
  BY Names DEF SendMoved, send_message, CanSend, IInv
<1>2. /\ mem' = [mem EXCEPT ![free_messages] =
                  [sender_pid |-> self, receiver_pid |-> r, size |-> size, data |-> data]]
      /\ DOMAIN mem = DOMAIN next
  BY DEF send_message, IInv, Rep, TypeOK
<1>3. CASE p = r /\ i = Len(lists[r]) + 1
  <2>1. lists'[p][i] = free_messages
    BY <1>3 DEF SendMoved
  <2> QED
    BY <1>1, <1>2, <1>3, <2>1
<1>4. CASE ~(p = r /\ i = Len(lists[r]) + 1)
  <2>1. i \in 1..Len(lists[p]) /\ lists'[p][i] = lists[p][i]
    <3>1. CASE p = r
      BY <1>1, <1>4, <3>1 DEF SendMoved
    <3>2. CASE p # r
      BY <1>1, <1>4, <3>2 DEF SendMoved
    <3> QED
      BY <3>1, <3>2
  <2>2. /\ Len(lists[FREE]) \in 1..Len(lists[FREE])
        /\ lists[FREE][Len(lists[FREE])] = free_messages
    BY <1>1 DEF SendMoved
  <2>3. lists[p][i] # free_messages
    BY <1>1, <2>1, <2>2, Apart
  <2>4. mem'[lists[p][i]] = mem[lists[p][i]]
    <3>1. lists[p][i] \in DOMAIN next
      BY <1>1, <2>1, SlotFacts, ListFacts
    <3> QED
      BY <1>2, <2>3, <3>1
  <2> QED
    BY <2>1, <2>4 DEF IInv, QueuedAreWhole
<1> QED
  BY <1>3, <1>4

LEMMA SendIInv ==
    ASSUME IInv, NEW self \in Pid, NEW r, NEW size, NEW data \in Data,
           send_message(self, r, size, data)
    PROVE  IInv'
<1>1. Rep
  BY DEF IInv
<1>2. SendMoved(r)
  BY <1>1, SendMoves
<1>3. SendLinked(r)
  BY <1>1, <1>2, SendLinks
<1> QED
  BY <1>1, <1>2, <1>3, SendType, SendQueues, SendFree, SendOnce, SendWhole DEF IInv, Rep

----------------------------------------------------------------------------
(* What a receive by p does to the lists, element by element.              *)
RecvMoved(p) ==
    /\ p \in Pid /\ head[p] \in DOMAIN next
    /\ \A l \in List : Len(lists[l]) \in Nat
    /\ Len(lists[p]) > 0 /\ lists[p][1] = head[p]
    /\ lists' \in [List -> Seq(DOMAIN next)]
    /\ Len(lists'[p]) = Len(lists[p]) - 1
    /\ \A i \in 1..Len(lists'[p]) : lists'[p][i] = lists[p][i + 1]
    /\ Len(lists'[FREE]) = Len(lists[FREE]) + 1
    /\ \A i \in 1..Len(lists[FREE]) : lists'[FREE][i] = lists[FREE][i]
    /\ lists'[FREE][Len(lists[FREE]) + 1] = head[p]
    /\ \A l \in List : l # p /\ l # FREE => lists'[l] = lists[l]

LEMMA RecvMoves ==
    ASSUME Rep, NEW self \in Pid, NEW max_size, recv_message(self, max_size)
    PROVE  RecvMoved(self)
<1> USE ListsAssumption DEF Pid, List, FREE
<1>1. head[self] # NULL
  BY DEF recv_message
<1>2. head[self] \in DOMAIN next /\ lists \in [List -> Seq(DOMAIN next)]
  BY <1>1 DEF Rep, TypeOK
<1>3. self \in List /\ FREE \in List /\ self # FREE
  OBVIOUS
<1>4. lists' = [lists EXCEPT ![self] = Tail(@), ![FREE] = Append(@, head[self])]
  BY DEF recv_message
<1>5. \A l \in List : Len(lists[l]) \in Nat
  BY <1>2
<1>6. lists[self] # << >> /\ Len(lists[self]) > 0 /\ lists[self][1] = head[self]
  <2>1. head[self] = IF lists[self] = << >> THEN NULL ELSE lists[self][1]
    BY DEF Rep, QueuesLinked
  <2> QED
    BY <1>1, <1>2, <1>3, <1>5, <2>1, EmptySeq
<1>7. lists'[self] = Tail(lists[self])
  BY <1>2, <1>3, <1>4
<1>8. lists'[FREE] = Append(lists[FREE], head[self])
  BY <1>2, <1>3, <1>4
<1>9. \A l \in List : l # self /\ l # FREE => lists'[l] = lists[l]
  BY <1>2, <1>4
<1>10. /\ lists'[self] \in Seq(DOMAIN next)
       /\ Len(lists'[self]) = Len(lists[self]) - 1
       /\ \A i \in 1..Len(lists'[self]) : lists'[self][i] = lists[self][i + 1]
  <2>1. lists[self] \in Seq(DOMAIN next)
    BY <1>2, <1>3
  <2>2. /\ Tail(lists[self]) \in Seq(DOMAIN next)
        /\ Len(Tail(lists[self])) = Len(lists[self]) - 1
        /\ \A i \in 1..Len(Tail(lists[self])) : Tail(lists[self])[i] = lists[self][i + 1]
    BY <1>6, <2>1, HeadTailProperties
  <2> QED
    BY <1>7, <2>2
<1>11. /\ lists'[FREE] \in Seq(DOMAIN next)
       /\ Len(lists'[FREE]) = Len(lists[FREE]) + 1
       /\ \A i \in 1..Len(lists[FREE]) : lists'[FREE][i] = lists[FREE][i]
       /\ lists'[FREE][Len(lists[FREE]) + 1] = head[self]
  BY <1>2, <1>3, <1>8, AppendProperties
<1>12. lists' \in [List -> Seq(DOMAIN next)]
  <2>1. \A l \in List : lists'[l] \in Seq(DOMAIN next)
    BY <1>2, <1>9, <1>10, <1>11
  <2> QED
    BY <1>2, <1>4, <2>1
<1> QED
  BY <1>2, <1>5, <1>6, <1>9, <1>10, <1>11, <1>12 DEF RecvMoved

(* The links it leaves.                                                    *)
RecvLinked(p) ==
    /\ DOMAIN next' = DOMAIN next
    /\ free_messages' = head[p] /\ next'[head[p]] = free_messages
    /\ \A m \in DOMAIN next : m # head[p] => next'[m] = next[m]

LEMMA RecvLinks ==
    ASSUME Rep, NEW self \in Pid, NEW max_size,
           recv_message(self, max_size), RecvMoved(self)
    PROVE  RecvLinked(self)
<1>1. next' = [next EXCEPT ![head[self]] = free_messages] /\ free_messages' = head[self]
  BY DEF recv_message, free_message
<1>2. next \in [DOMAIN next -> Slot \cup {NULL}] /\ head[self] \in DOMAIN next
  BY SlotFacts DEF RecvMoved
<1> QED
  BY <1>1, <1>2 DEF RecvLinked

LEMMA RecvQueues ==
    ASSUME Rep, NEW self \in Pid, NEW max_size,
           recv_message(self, max_size), RecvMoved(self), RecvLinked(self)
    PROVE  QueuesLinked'
<1> SUFFICES ASSUME NEW p \in Pid
             PROVE  /\ count'[p] = Len(lists'[p])
                    /\ head'[p] = IF lists'[p] = << >> THEN NULL ELSE lists'[p][1]
                    /\ tail'[p] = IF lists'[p] = << >> THEN NULL
                                  ELSE lists'[p][Len(lists'[p])]
                    /\ \A i \in 1..Len(lists'[p]) : next'[lists'[p][i]] =
                          IF i = Len(lists'[p]) THEN NULL ELSE lists'[p][i + 1]
  BY DEF QueuesLinked
<1>1. p \in List /\ p # FREE /\ self \in List /\ self # FREE
  BY Names
<1>2. /\ Len(lists[p]) \in Nat /\ (lists[p] = << >> <=> Len(lists[p]) = 0)
      /\ \A i \in 1..Len(lists[p]) : lists[p][i] \in DOMAIN next
      /\ NULL \notin DOMAIN next
  BY <1>1, SlotFacts, ListFacts
<1>3. /\ count[p] = Len(lists[p])
      /\ head[p] = IF lists[p] = << >> THEN NULL ELSE lists[p][1]
      /\ tail[p] = IF lists[p] = << >> THEN NULL ELSE lists[p][Len(lists[p])]
      /\ \A i \in 1..Len(lists[p]) : next[lists[p][i]] =
            IF i = Len(lists[p]) THEN NULL ELSE lists[p][i + 1]
  BY DEF Rep, QueuesLinked
<1>4. ASSUME NEW i \in 1..Len(lists[p]), p # self \/ i # 1
      PROVE  next'[lists[p][i]] = next[lists[p][i]]
  <2>1. 1 \in 1..Len(lists[self]) /\ lists[self][1] = head[self]
    BY <1>1 DEF RecvMoved
  <2>2. lists[p][i] # head[self]
    BY <1>1, <1>4, <2>1, Apart
  <2> QED
    BY <1>2, <2>2 DEF RecvLinked
<1>5. CASE p # self
  <2>1. lists'[p] = lists[p]
    BY <1>1, <1>5 DEF RecvMoved
  <2>2. head'[p] = head[p] /\ tail'[p] = tail[p] /\ count'[p] = count[p]
    BY <1>1, <1>5 DEF recv_message, Dequeue, Rep, TypeOK
  <2> QED
    BY <1>3, <1>4, <1>5, <2>1, <2>2
<1>6. CASE p = self
  <2>1. /\ Len(lists[p]) > 0 /\ Len(lists'[p]) = Len(lists[p]) - 1 /\ lists[p][1] = head[p]
        /\ \A i \in 1..Len(lists'[p]) : lists'[p][i] = lists[p][i + 1]
    BY <1>1, <1>6 DEF RecvMoved
  <2>2. lists'[p] = << >> <=> Len(lists'[p]) = 0
    BY <1>1, ListFacts DEF RecvMoved
  <2>3. /\ head'[p] = next[head[p]] /\ count'[p] = count[p] - 1
        /\ tail'[p] = IF next[head[p]] = NULL THEN NULL ELSE tail[p]
    BY <1>6 DEF recv_message, Dequeue, Rep, TypeOK
  <2>4. next[head[p]] = IF Len(lists[p]) = 1 THEN NULL ELSE lists[p][2]
    <3>1. 1 \in 1..Len(lists[p]) /\ 1 + 1 = 2
      BY <1>2, <2>1
    <3>2. next[lists[p][1]] = IF 1 = Len(lists[p]) THEN NULL ELSE lists[p][1 + 1]
      BY <1>3, <3>1
    <3>3. next[head[p]] = next[lists[p][1]]
      BY <2>1
    <3> QED
      BY <3>1, <3>2, <3>3
  <2>5. ASSUME Len(lists[p]) # 1
        PROVE  /\ Len(lists'[p]) \in 1..Len(lists'[p]) /\ 1 \in 1..Len(lists'[p])
               /\ lists'[p][1] = lists[p][2] /\ lists[p][2] # NULL
               /\ lists'[p][Len(lists'[p])] = lists[p][Len(lists[p])]
    <3>1. Len(lists'[p]) \in 1..Len(lists'[p]) /\ 1 \in 1..Len(lists'[p]) /\ 2 \in 1..Len(lists[p])
      <4>1. \A n \in Nat : n > 0 /\ n # 1 => n - 1 \in 1..(n - 1) /\ 1 \in 1..(n - 1) /\ 2 \in 1..n
        OBVIOUS
      <4>2. /\ Len(lists[p]) \in Nat /\ Len(lists[p]) > 0 /\ Len(lists[p]) # 1
            /\ Len(lists'[p]) = Len(lists[p]) - 1
        BY <1>2, <2>1, <2>5
      <4> QED
        BY <4>1, <4>2, Zenon
    <3>2. lists'[p][Len(lists'[p])] = lists[p][Len(lists'[p]) + 1]
      BY <2>1, <3>1
    <3>3. Len(lists'[p]) + 1 = Len(lists[p])
      BY <1>2, <2>1
    <3> QED
      BY <1>2, <2>1, <3>1, <3>2, <3>3
  <2>6. ASSUME NEW i \in 1..Len(lists'[p])
        PROVE  next'[lists'[p][i]] = IF i = Len(lists'[p]) THEN NULL ELSE lists'[p][i + 1]
    <3>1. i + 1 \in 1..Len(lists[p]) /\ i + 1 # 1 /\ lists'[p][i] = lists[p][i + 1]
      BY <1>2, <2>1
    <3>2. next'[lists[p][i + 1]] = IF i + 1 = Len(lists[p]) THEN NULL ELSE lists[p][(i + 1) + 1]
      BY <1>3, <1>4, <3>1
    <3>3. i # Len(lists'[p]) => lists'[p][i + 1] = lists[p][(i + 1) + 1]
      BY <1>2, <2>1
    <3> QED
      BY <1>2, <2>1, <3>1, <3>2, <3>3
  <2>7. CASE Len(lists[p]) = 1
    BY <1>3, <2>1, <2>2, <2>3, <2>4, <2>6, <2>7
  <2>8. CASE Len(lists[p]) # 1
    <3>1. lists'[p] # << >> /\ lists[p] # << >>
      BY <1>2, <2>1, <2>2, <2>5, <2>8
    <3>2. count'[p] = Len(lists'[p])
      BY <1>2, <1>3, <2>1, <2>3
    <3> QED
      BY <1>3, <2>3, <2>4, <2>5, <2>6, <2>8, <3>1, <3>2
  <2> QED
    BY <2>7, <2>8
<1> QED
  BY <1>5, <1>6

LEMMA RecvFree ==
    ASSUME Rep, NEW self \in Pid, NEW max_size,
           recv_message(self, max_size), RecvMoved(self), RecvLinked(self)
    PROVE  FreeLinked'
<1>1. self \in List /\ self # FREE /\ FREE \in List
  BY Names
<1>2. /\ Len(lists[FREE]) \in Nat /\ (lists[FREE] = << >> <=> Len(lists[FREE]) = 0)
      /\ \A i \in 1..Len(lists[FREE]) : lists[FREE][i] \in DOMAIN next
  BY <1>1, SlotFacts, ListFacts
<1>3. /\ Len(lists'[FREE]) = Len(lists[FREE]) + 1
      /\ \A i \in 1..Len(lists[FREE]) : lists'[FREE][i] = lists[FREE][i]
      /\ lists'[FREE][Len(lists[FREE]) + 1] = head[self]
      /\ lists'[FREE] = << >> <=> Len(lists'[FREE]) = 0
  BY <1>1, ListFacts DEF RecvMoved
<1>4. /\ free_messages = IF lists[FREE] = << >> THEN NULL ELSE lists[FREE][Len(lists[FREE])]
      /\ \A i \in 1..Len(lists[FREE]) :
            next[lists[FREE][i]] = IF i = 1 THEN NULL ELSE lists[FREE][i - 1]
  BY DEF Rep, FreeLinked
<1>5. ASSUME NEW i \in 1..Len(lists'[FREE])
      PROVE  next'[lists'[FREE][i]] = IF i = 1 THEN NULL ELSE lists'[FREE][i - 1]
  <2>1. CASE i = Len(lists[FREE]) + 1
    <3>1. next'[lists'[FREE][i]] = free_messages
      BY <1>3, <2>1 DEF RecvLinked
    <3>2. i # 1 => lists'[FREE][i - 1] = lists[FREE][Len(lists[FREE])]
      BY <1>2, <1>3, <2>1
    <3> QED
      BY <1>2, <1>4, <2>1, <3>1, <3>2
  <2>2. CASE i # Len(lists[FREE]) + 1
    <3>1. i \in 1..Len(lists[FREE]) /\ lists'[FREE][i] = lists[FREE][i]
      BY <1>2, <1>3, <2>2
    <3>2. 1 \in 1..Len(lists[self]) /\ lists[self][1] = head[self]
      BY <1>1 DEF RecvMoved
    <3>3. lists[FREE][i] # head[self]
      BY <1>1, <3>1, <3>2, Apart
    <3>4. next'[lists[FREE][i]] = next[lists[FREE][i]]
      BY <1>2, <3>1, <3>3 DEF RecvLinked
    <3>5. i # 1 => lists'[FREE][i - 1] = lists[FREE][i - 1]
      <4>1. \A n \in Nat : \A j \in 1..n : j # 1 => j - 1 \in 1..n
        OBVIOUS
      <4>2. i # 1 => i - 1 \in 1..Len(lists[FREE])
        BY <1>2, <3>1, <4>1, Zenon
      <4> QED
        BY <1>3, <4>2
    <3> QED
      BY <1>4, <3>1, <3>4, <3>5
  <2> QED
    BY <2>1, <2>2
<1>6. free_messages' = IF lists'[FREE] = << >> THEN NULL ELSE lists'[FREE][Len(lists'[FREE])]
  BY <1>2, <1>3 DEF RecvLinked
<1> QED
  BY <1>5, <1>6 DEF FreeLinked

LEMMA RecvType ==
    ASSUME Rep, NEW self \in Pid, NEW max_size \in 0..MAX_MESSAGE_SIZE,
           recv_message(self, max_size), RecvMoved(self), RecvLinked(self)
    PROVE  TypeOK'
<1>1. /\ head[self] \in DOMAIN next /\ DOMAIN next' = DOMAIN next
      /\ DOMAIN next \subseteq Slot /\ DOMAIN mem = DOMAIN next
      /\ free_messages \in DOMAIN next \cup {NULL}
  BY SlotFacts DEF RecvMoved, RecvLinked, Rep, TypeOK
<1>2. next' \in [DOMAIN next -> Slot \cup {NULL}]
  <2>1. next' = [next EXCEPT ![head[self]] = free_messages]
    BY DEF recv_message, free_message
  <2> QED
    BY <1>1, <2>1, SlotFacts
<1>3. mem \in [DOMAIN next -> [sender_pid : Pid \cup {-1}, receiver_pid : Pid \cup {-1},
                               size : Size \cup {0}, data : Data]]
  BY DEF Rep, TypeOK
<1>4. mem' \in [DOMAIN next -> [sender_pid : Pid \cup {-1}, receiver_pid : Pid \cup {-1},
                                size : Size \cup {0}, data : Data]]
  <2>1. mem' = [mem EXCEPT ![head[self]] = Blank(mem[head[self]].data)]
    BY <1>1 DEF recv_message, free_message
  <2>2. Blank(mem[head[self]].data) \in [sender_pid : Pid \cup {-1}, receiver_pid : Pid \cup {-1},
                                         size : Size \cup {0}, data : Data]
    BY <1>1, <1>3 DEF Blank
  <2> QED
    BY <1>1, <1>3, <2>1, <2>2
<1>5. head' \in [Pid -> DOMAIN next \cup {NULL}] /\ tail' \in [Pid -> DOMAIN next \cup {NULL}]
  <2>1. next[head[self]] \in DOMAIN next \cup {NULL}
    <3>1. /\ self \in List /\ 1 \in 1..Len(lists[self]) /\ lists[self][1] = head[self]
          /\ \A i \in 1..Len(lists[self]) : lists[self][i] \in DOMAIN next
      BY Names, SlotFacts, ListFacts DEF RecvMoved
    <3>2. next[lists[self][1]] = IF 1 = Len(lists[self]) THEN NULL ELSE lists[self][1 + 1]
      BY <3>1 DEF Rep, QueuesLinked
    <3>3. 1 = Len(lists[self]) \/ 1 + 1 \in 1..Len(lists[self])
      <4>1. \A n \in Nat : n > 0 => 1 = n \/ 1 + 1 \in 1..n
        OBVIOUS
      <4>2. Len(lists[self]) \in Nat /\ Len(lists[self]) > 0
        BY Names DEF RecvMoved
      <4> QED
        BY <4>1, <4>2, Zenon
    <3> QED
      BY <3>1, <3>2, <3>3
  <2> QED
    BY <2>1 DEF recv_message, Dequeue, Rep, TypeOK
<1>6. count' \in [Pid -> Nat]
  <2>1. count \in [Pid -> Nat] /\ count' = [count EXCEPT ![self] = @ - 1]
    BY DEF recv_message, Dequeue, Rep, TypeOK
  <2>2. count[self] = Len(lists[self]) /\ Len(lists[self]) > 0
    BY DEF Rep, QueuesLinked, RecvMoved
  <2>3. count[self] - 1 \in Nat
    BY <2>1, <2>2
  <2> QED
    BY <2>1, <2>3
<1>7. result' \in [ret : {-1, 0} \cup Size, copied : {0} \cup Size, data : SUBSET Data]
  <2>1. mem[head[self]].data \in Data
    BY <1>1, <1>3
  <2>2. max_size \in Size
    BY ListsAssumption DEF recv_message, Size
  <2>3. CASE mem[head[self]].size \in Size
    <3>1. result' = [ret |-> mem[head[self]].size, data |-> {mem[head[self]].data},
                     copied |-> IF mem[head[self]].size < max_size
                                THEN mem[head[self]].size ELSE max_size]
      BY <2>3 DEF recv_message
    <3> QED
      BY <2>1, <2>2, <2>3, <3>1
  <2>4. CASE mem[head[self]].size \notin Size
    <3>1. result' = Returned(-1)
      BY <2>4 DEF recv_message
    <3> QED
      BY <3>1 DEF Returned
  <2> QED
    BY <2>3, <2>4
<1>8. DOMAIN next' \in {1..n : n \in 0..MAX_MESSAGES} /\ lists' \in [List -> Seq(DOMAIN next)]
      /\ free_messages' \in DOMAIN next
  BY <1>1 DEF Rep, TypeOK, RecvMoved, RecvLinked
<1> QED
  BY <1>1, <1>2, <1>4, <1>5, <1>6, <1>7, <1>8 DEF TypeOK

(* Each position of the lists after a receive was a position before it,    *)
(* but for the new top of the free list.                                   *)
LEMMA RecvOnce ==
    ASSUME Rep, NEW self \in Pid, NEW max_size,
           recv_message(self, max_size), RecvMoved(self), RecvLinked(self)
    PROVE  EverySlotOnce'
<1> DEFINE old(l, i) == IF l = self THEN i + 1 ELSE i
           new(l, i) == IF l = self THEN i - 1 ELSE i
<1>1. self \in List /\ self # FREE /\ FREE \in List
  BY Names
<1>2. /\ 1 \in 1..Len(lists[self]) /\ lists[self][1] = head[self]
      /\ Len(lists[FREE]) \in Nat
  BY <1>1 DEF RecvMoved
<1>3. ASSUME NEW l \in List, NEW i \in 1..Len(lists'[l]), ~(l = FREE /\ i = Len(lists[FREE]) + 1)
      PROVE  /\ old(l, i) \in 1..Len(lists[l]) /\ lists'[l][i] = lists[l][old(l, i)]
             /\ ~(l = self /\ old(l, i) = 1)
  <2>1. CASE l = FREE
    BY <1>1, <1>2, <1>3, <2>1 DEF RecvMoved
  <2>2. CASE l = self
    BY <1>1, <1>2, <1>3, <2>2 DEF RecvMoved
  <2>3. CASE l # FREE /\ l # self
    BY <1>3, <2>3 DEF RecvMoved
  <2> QED
    BY <2>1, <2>2, <2>3
<1>4. ASSUME NEW l \in List, NEW i \in 1..Len(lists[l]), ~(l = self /\ i = 1)
      PROVE  new(l, i) \in 1..Len(lists'[l]) /\ lists'[l][new(l, i)] = lists[l][i]
  <2>1. CASE l = FREE
    BY <1>1, <1>2, <1>4, <2>1 DEF RecvMoved
  <2>2. CASE l = self
    <3>1. i - 1 \in 1..Len(lists'[l])
      BY <1>1, <1>4, <2>2 DEF RecvMoved
    <3>2. lists'[l][i - 1] = lists[l][(i - 1) + 1]
      BY <2>2, <3>1 DEF RecvMoved
    <3>3. (i - 1) + 1 = i
      OBVIOUS
    <3> QED
      BY <2>2, <3>1, <3>2, <3>3
  <2>3. CASE l # FREE /\ l # self
    BY <1>4, <2>3 DEF RecvMoved
  <2> QED
    BY <2>1, <2>2, <2>3
<1>5. Len(lists[FREE]) + 1 \in 1..Len(lists'[FREE]) /\ lists'[FREE][Len(lists[FREE]) + 1] = head[self]
  BY <1>2 DEF RecvMoved
<1>6. NoSlotLeaked'
  <2> SUFFICES ASSUME NEW m \in DOMAIN next
               PROVE  \E l \in List : \E i \in 1..Len(lists'[l]) : lists'[l][i] = m
    BY DEF NoSlotLeaked, Holds, RecvLinked
  <2>1. PICK l \in List : Holds(l, m)
    BY DEF Rep, EverySlotOnce, NoSlotLeaked
  <2>2. PICK i \in 1..Len(lists[l]) : lists[l][i] = m
    BY <2>1 DEF Holds
  <2>3. CASE l = self /\ i = 1
    BY <1>1, <1>2, <1>5, <2>2, <2>3
  <2>4. CASE ~(l = self /\ i = 1)
    <3>1. new(l, i) \in 1..Len(lists'[l]) /\ lists'[l][new(l, i)] = m
      BY <1>4, <2>2, <2>4
    <3> QED
      BY <3>1
  <2> QED
    BY <2>3, <2>4
<1>7. NoSlotShared'
  <2> SUFFICES ASSUME NEW l \in List, NEW k \in List,
                      NEW i \in 1..Len(lists'[l]), NEW j \in 1..Len(lists'[k]),
                      l # k \/ i # j
               PROVE  lists'[l][i] # lists'[k][j]
    BY DEF NoSlotShared
  <2>1. ASSUME NEW h \in List, NEW n \in 1..Len(lists'[h]), ~(h = FREE /\ n = Len(lists[FREE]) + 1)
        PROVE  lists'[h][n] # head[self]
    <3>1. /\ old(h, n) \in 1..Len(lists[h]) /\ lists'[h][n] = lists[h][old(h, n)]
          /\ ~(h = self /\ old(h, n) = 1)
      BY <1>3, <2>1
    <3>2. lists[h][old(h, n)] # lists[self][1]
      BY <1>1, <1>2, <3>1, Apart
    <3> QED
      BY <1>2, <3>1, <3>2
  <2>2. CASE l = FREE /\ i = Len(lists[FREE]) + 1
    BY <1>5, <2>1, <2>2
  <2>3. CASE k = FREE /\ j = Len(lists[FREE]) + 1
    BY <1>5, <2>1, <2>3
  <2>4. CASE ~(l = FREE /\ i = Len(lists[FREE]) + 1) /\ ~(k = FREE /\ j = Len(lists[FREE]) + 1)
    <3>1. /\ old(l, i) \in 1..Len(lists[l]) /\ lists'[l][i] = lists[l][old(l, i)]
          /\ old(k, j) \in 1..Len(lists[k]) /\ lists'[k][j] = lists[k][old(k, j)]
      BY <1>3, <2>4
    <3>2. l # k \/ old(l, i) # old(k, j)
      OBVIOUS
    <3>3. lists[l][old(l, i)] # lists[k][old(k, j)]
      BY <3>1, <3>2, Apart
    <3> QED
      BY <3>1, <3>3
  <2> QED
    BY <2>2, <2>3, <2>4
<1> QED
  BY <1>6, <1>7 DEF EverySlotOnce

LEMMA RecvWhole ==
    ASSUME IInv, NEW self \in Pid, NEW max_size,
           recv_message(self, max_size), RecvMoved(self), RecvLinked(self)
    PROVE  QueuedAreWhole'
<1> SUFFICES ASSUME NEW p \in Pid, NEW i \in 1..Len(lists'[p])
             PROVE  /\ mem'[lists'[p][i]].receiver_pid = p
                    /\ mem'[lists'[p][i]].sender_pid \in Pid
                    /\ mem'[lists'[p][i]].size \in Size
  BY DEF QueuedAreWhole
<1>1. /\ p \in List /\ p # FREE /\ self \in List /\ self # FREE
      /\ Rep /\ 1 \in 1..Len(lists[self]) /\ lists[self][1] = head[self]
  BY Names DEF RecvMoved, IInv
<1>2. /\ mem' = [mem EXCEPT ![head[self]] = Blank(@.data)] /\ DOMAIN mem = DOMAIN next
  BY DEF recv_message, free_message, IInv, Rep, TypeOK
<1>3. ASSUME NEW j \in 1..Len(lists[p]), p # self \/ j # 1, lists'[p][i] = lists[p][j]
      PROVE  /\ mem'[lists'[p][i]].receiver_pid = p
             /\ mem'[lists'[p][i]].sender_pid \in Pid
             /\ mem'[lists'[p][i]].size \in Size
  <2>1. lists[p][j] # head[self]
    BY <1>1, <1>3, Apart
  <2>2. lists[p][j] \in DOMAIN next
    BY <1>1, <1>3, SlotFacts, ListFacts
  <2>3. mem'[lists[p][j]] = mem[lists[p][j]]
    BY <1>2, <2>1, <2>2
  <2> QED
    BY <1>3, <2>3 DEF IInv, QueuedAreWhole
<1>4. CASE p = self
  <2>1. i + 1 \in 1..Len(lists[p]) /\ i + 1 # 1 /\ lists'[p][i] = lists[p][i + 1]
    BY <1>1, <1>4 DEF RecvMoved
  <2> QED
    BY <1>3, <2>1
<1>5. CASE p # self
  <2>1. lists'[p] = lists[p]
    BY <1>1, <1>5 DEF RecvMoved
  <2> QED
    BY <1>3, <1>5, <2>1
<1> QED
  BY <1>4, <1>5

LEMMA RecvIInv ==
    ASSUME IInv, NEW self \in Pid, NEW max_size \in 0..MAX_MESSAGE_SIZE,
           recv_message(self, max_size)
    PROVE  IInv'
<1>1. Rep
  BY DEF IInv
<1>2. RecvMoved(self)
  BY <1>1, RecvMoves
<1>3. RecvLinked(self)
  BY <1>1, <1>2, RecvLinks
<1> QED
  BY <1>1, <1>2, <1>3, RecvType, RecvQueues, RecvFree, RecvOnce, RecvWhole DEF IInv, Rep

(* A call that fails changes nothing but what its caller is told.          *)
LEMMA FailsIInv ==
    ASSUME IInv, result' = Returned(-1) \/ UNCHANGED result,
           UNCHANGED <<next, mem, free_messages, head, tail, count, lists>>
    PROVE  IInv'
<1>1. TypeOK'
  BY DEF IInv, Rep, TypeOK, Returned
<1>2. QueuesLinked' /\ FreeLinked'
  BY DEF IInv, Rep, QueuesLinked, FreeLinked
<1>3. EverySlotOnce' /\ QueuedAreWhole'
  BY DEF IInv, Rep, EverySlotOnce, NoSlotLeaked, NoSlotShared, Holds, QueuedAreWhole
<1> QED
  BY <1>1, <1>2, <1>3 DEF IInv, Rep

LEMMA StepIInv == IInv /\ [Next]_vars => IInv'
<1> SUFFICES ASSUME IInv, [Next]_vars PROVE IInv'
  OBVIOUS
<1>1. ASSUME NEW self \in Pid, NEW receiver_pid, NEW size, NEW data \in Data,
             send_message(self, receiver_pid, size, data)
      PROVE  IInv'
  BY <1>1, SendIInv
<1>2. ASSUME NEW receiver_pid, NEW size, send_fails(receiver_pid, size)
      PROVE  IInv'
  BY <1>2, FailsIInv DEF send_fails
<1>3. ASSUME NEW self \in Pid, NEW max_size \in 0..MAX_MESSAGE_SIZE,
             recv_message(self, max_size)
      PROVE  IInv'
  BY <1>3, RecvIInv
<1>4. ASSUME NEW self \in Pid, NEW max_size, recv_fails(self, max_size)
      PROVE  IInv'
  BY <1>4, FailsIInv DEF recv_fails
<1>5. CASE UNCHANGED vars
  BY <1>5, FailsIInv DEF vars
<1> QED
  BY <1>1, <1>2, <1>3, <1>4, <1>5 DEF Next

LEMMA Invariance == Spec => []IInv
BY InitIInv, StepIInv, PTL DEF Spec

(* The message queues' types: a pointer is NULL or the address of a message*)
(* struct, and a call returns a size, 0 or -1.                             *)
THEOREM TypeCorrect == Spec => []TypeOK
<1>1. IInv => TypeOK
  BY DEF IInv, Rep
<1> QED
  BY <1>1, Invariance, PTL

(* Whatever calls the tasks make, head, tail, count and the next pointers  *)
(* of each queue agree with the messages sent to it and not yet received.  *)
THEOREM QueuesStayLinked == Spec => []QueuesLinked
<1>1. IInv => QueuesLinked
  BY DEF IInv, Rep
<1> QED
  BY <1>1, Invariance, PTL

(* The free list stays a stack of unused slots.                            *)
THEOREM FreeListStaysLinked == Spec => []FreeLinked
<1>1. IInv => FreeLinked
  BY DEF IInv, Rep
<1> QED
  BY <1>1, Invariance, PTL

(* No slot is lost, used twice or freed twice, for any number of slots.    *)
THEOREM SlotsAreConserved == Spec => []EverySlotOnce
<1>1. IInv => EverySlotOnce
  BY DEF IInv, Rep
<1> QED
  BY <1>1, Invariance, PTL

(* The integrity checks of recv_message never fire.                        *)
THEOREM QueuedStayWhole == Spec => []QueuedAreWhole
<1>1. IInv => QueuedAreWhole
  BY DEF IInv
<1> QED
  BY <1>1, Invariance, PTL

----------------------------------------------------------------------------
(* The linked lists of kernal/ipc.c implement the mailboxes of IPC.        *)

Read == [sender_pid : Pid \cup {-1}, size : Size \cup {0}, data : Data]

LEMMA Fill ==
    ASSUME NEW S, NEW n \in Nat, NEW f \in [1..n -> S]
    PROVE  f \in Seq(S) /\ Len(f) = n
BY SeqDef, LenProperties

LEMMA AppendIsFunction ==
    ASSUME NEW S, NEW s \in Seq(S), NEW e \in S
    PROVE  Append(s, e) = [i \in 1..(Len(s) + 1) |-> IF i = Len(s) + 1 THEN e ELSE s[i]]
<1> DEFINE f == [i \in 1..(Len(s) + 1) |-> IF i = Len(s) + 1 THEN e ELSE s[i]]
<1>1. Len(s) \in Nat /\ \A i \in 1..Len(s) : s[i] \in S
  BY ElementOfSeq
<1>2. Len(s) + 1 \in Nat /\ f \in [1..(Len(s) + 1) -> S]
  BY <1>1
<1>3. f \in Seq(S) /\ Len(f) = Len(s) + 1
  BY <1>2, Fill
<1>4. /\ Append(s, e) \in Seq(S) /\ Len(Append(s, e)) = Len(s) + 1
      /\ \A i \in 1..Len(s) : Append(s, e)[i] = s[i]
      /\ Append(s, e)[Len(s) + 1] = e
  BY AppendProperties
<1>5. \A i \in 1..Len(Append(s, e)) : Append(s, e)[i] = f[i]
  BY <1>1, <1>4
<1> QED
  BY <1>3, <1>4, <1>5, SeqEqual

LEMMA TailIsFunction ==
    ASSUME NEW S, NEW s \in Seq(S), s # << >>
    PROVE  Tail(s) = [i \in 1..(Len(s) - 1) |-> s[i + 1]]
<1> DEFINE f == [i \in 1..(Len(s) - 1) |-> s[i + 1]]
<1>1. Len(s) \in Nat \ {0} /\ \A i \in 1..Len(s) : s[i] \in S
  BY ElementOfSeq, EmptySeq
<1>2. Len(s) - 1 \in Nat /\ f \in [1..(Len(s) - 1) -> S]
  BY <1>1
<1>3. f \in Seq(S) /\ Len(f) = Len(s) - 1
  BY <1>2, Fill
<1>4. /\ Tail(s) \in Seq(S) /\ Len(Tail(s)) = Len(s) - 1
      /\ \A i \in 1..Len(Tail(s)) : Tail(s)[i] = s[i + 1]
  BY HeadTailProperties
<1>5. \A i \in 1..Len(Tail(s)) : Tail(s)[i] = f[i]
  BY <1>1, <1>4
<1> QED
  BY <1>3, <1>4, <1>5, SeqEqual

LEMMA MailboxFacts ==
    ASSUME Rep, NEW p \in Pid
    PROVE  /\ Mailbox(p) \in Seq(Read) /\ Len(Mailbox(p)) = Len(lists[p])
           /\ \A i \in 1..Len(lists[p]) : Mailbox(p)[i] = View(lists[p][i])
           /\ Len(lists[p]) \in Nat
<1>1. /\ Len(lists[p]) \in Nat
      /\ \A i \in 1..Len(lists[p]) : lists[p][i] \in DOMAIN next
  BY Names, SlotFacts, ListFacts
<1>2. \A m \in DOMAIN next : View(m) \in Read
  BY DEF Rep, TypeOK, View, Read
<1>3. Mailbox(p) \in [1..Len(lists[p]) -> Read]
  BY <1>1, <1>2 DEF Mailbox
<1> QED
  BY <1>1, <1>3, Fill DEF Mailbox

LEMMA InitRefines == Init => Abstract!Init
<1> SUFFICES ASSUME Init PROVE Abstract!Init
  OBVIOUS
<1>1. PICK slots \in 0..MAX_MESSAGES :
        lists = [l \in List |-> IF l = FREE THEN [i \in 1..slots |-> i] ELSE << >>]
  BY DEF Init
<1>2. lists[FREE] = [i \in 1..slots |-> i] /\ \A p \in Pid : lists[p] = << >>
  BY <1>1, Names, Zenon
<1>3. Len(lists[FREE]) = slots
  <2>1. slots \in Nat /\ [i \in 1..slots |-> i] \in [1..slots -> 1..slots]
    BY ListsAssumption
  <2> QED
    BY <1>2, <2>1, Fill
<1>4. ASSUME NEW p \in Pid PROVE Mailbox(p) = << >>
  <2>1. lists[p] = << >> /\ Len(<< >>) = 0
    BY <1>2, EmptySeq
  <2>2. Mailbox(p) \in [1..0 -> Read]
    BY <2>1 DEF Mailbox
  <2>3. Mailbox(p) \in Seq(Read) /\ Len(Mailbox(p)) = 0
    BY <2>2, Fill
  <2> QED
    BY <2>3, EmptySeq
<1>5. Mapped = Abstract!Empty(slots)
  BY <1>3, <1>4 DEF Mapped, Abstract!Empty, Abstract!Pid, Pid
<1> QED
  BY <1>5 DEF Init, Abstract!Init, Abstract!Returned, Returned

(* A slot that keeps its place keeps what can be read of it.               *)
LEMMA SendMailboxes ==
    ASSUME IInv, NEW self \in Pid, NEW r, NEW size, NEW data \in Data,
           send_message(self, r, size, data)
    PROVE  Mapped' = Abstract!Sent(Mapped, self, r, size, data)
           /\ Abstract!Accepts(Mapped, r, size)
<1>1. Rep /\ SendMoved(r)
  BY SendMoves DEF IInv
<1>2. r \in Pid /\ size \in Size /\ r \in List /\ r # FREE /\ FREE \in List
  BY Names DEF send_message, CanSend
<1>3. /\ Len(lists[FREE]) \in 1..Len(lists[FREE]) /\ Len(lists[FREE]) \in Nat
      /\ lists[FREE][Len(lists[FREE])] = free_messages
      /\ Len(lists'[FREE]) = Len(lists[FREE]) - 1
  BY <1>1, <1>2 DEF SendMoved
<1>4. mem' = [mem EXCEPT ![free_messages] =
                [sender_pid |-> self, receiver_pid |-> r, size |-> size, data |-> data]]
      /\ DOMAIN mem = DOMAIN next /\ free_messages \in DOMAIN next
  BY <1>1 DEF send_message, Rep, TypeOK, SendMoved
<1> DEFINE msg == [sender_pid |-> self, size |-> size, data |-> data]
<1>5. ASSUME NEW p \in Pid, NEW i \in 1..Len(lists[p]) PROVE View(lists[p][i])' =
        IF lists'[p][i] = lists[p][i] THEN View(lists[p][i]) ELSE View(lists[p][i])'
  <2>1. p \in List /\ p # FREE
    BY Names
  <2>2. lists[p][i] # free_messages
    BY <1>1, <1>2, <1>3, <2>1, Apart
  <2>3. lists[p][i] \in DOMAIN next
    BY <1>1, <2>1, SlotFacts, ListFacts
  <2>4. mem'[lists[p][i]] = mem[lists[p][i]]
    BY <1>4, <2>2, <2>3
  <2> QED
    BY <2>4 DEF View
<1>6. ASSUME NEW p \in Pid, p # r PROVE Mailbox(p)' = Mailbox(p)
  <2>1. lists'[p] = lists[p]
    BY <1>1, <1>6, Names DEF SendMoved
  <2>2. \A i \in 1..Len(lists[p]) : View(lists[p][i])' = View(lists[p][i])
    BY <1>5, <2>1
  <2> QED
    BY <2>1, <2>2 DEF Mailbox
<1>7. Mailbox(r)' = Append(Mailbox(r), msg)
  <2>1. /\ Len(lists[r]) \in Nat /\ Len(lists'[r]) = Len(lists[r]) + 1
        /\ \A i \in 1..Len(lists[r]) : lists'[r][i] = lists[r][i]
        /\ lists'[r][Len(lists[r]) + 1] = free_messages
    BY <1>1, <1>2 DEF SendMoved
  <2>2. msg \in Read
    BY <1>2 DEF Read
  <2>3. /\ Mailbox(r) \in Seq(Read) /\ Len(Mailbox(r)) = Len(lists[r])
        /\ \A i \in 1..Len(lists[r]) : Mailbox(r)[i] = View(lists[r][i])
    BY <1>1, <1>2, MailboxFacts
  <2>4. Append(Mailbox(r), msg) =
          [i \in 1..(Len(lists[r]) + 1) |-> IF i = Len(lists[r]) + 1 THEN msg ELSE Mailbox(r)[i]]
    <3>1. Append(Mailbox(r), msg) =
            [i \in 1..(Len(Mailbox(r)) + 1) |->
               IF i = Len(Mailbox(r)) + 1 THEN msg ELSE Mailbox(r)[i]]
      BY <2>2, <2>3, AppendIsFunction
    <3> QED
      BY <2>3, <3>1, Zenon
  <2>5. ASSUME NEW i \in 1..(Len(lists[r]) + 1)
        PROVE  View(lists[r][i])' = IF i = Len(lists[r]) + 1 THEN msg ELSE Mailbox(r)[i]
    <3>1. CASE i = Len(lists[r]) + 1
      BY <1>4, <2>1, <3>1 DEF View
    <3>2. CASE i # Len(lists[r]) + 1
      <4>1. i \in 1..Len(lists[r])
        BY <2>1, <3>2
      <4> QED
        BY <1>2, <1>5, <2>1, <2>3, <3>2, <4>1
    <3> QED
      BY <3>1, <3>2
  <2> QED
    BY <2>1, <2>4, <2>5 DEF Mailbox
<1>8. Abstract!Accepts(Mapped, r, size)
  BY <1>2, <1>3 DEF Abstract!Accepts, Abstract!Pid, Abstract!Size, Pid, Size, Mapped
<1>9. Mapped' = [mailbox |-> [Mapped.mailbox EXCEPT ![r] = Append(@, msg)],
                 free |-> Mapped.free - 1]
  <2>1. Mapped.mailbox = [p \in Pid |-> Mailbox(p)] /\ Mapped.free = Len(lists[FREE])
    BY DEF Mapped
  <2>2. [p \in Pid |-> Mailbox(p)]' = [[p \in Pid |-> Mailbox(p)] EXCEPT ![r] = Append(@, msg)]
    BY <1>2, <1>6, <1>7
  <2> QED
    BY <1>3, <2>1, <2>2 DEF Mapped
<1> QED
  BY <1>8, <1>9 DEF Abstract!Sent

LEMMA RecvMailboxes ==
    ASSUME IInv, NEW self \in Pid, NEW max_size,
           recv_message(self, max_size)
    PROVE  /\ Abstract!HasMail(Mapped, self) /\ Mapped' = Abstract!Taken(Mapped, self)
           /\ Abstract!Oldest(Mapped, self) = View(head[self])
<1>1. Rep /\ RecvMoved(self)
  BY RecvMoves DEF IInv
<1>2. self \in List /\ self # FREE /\ FREE \in List
  BY Names
<1>3. /\ Len(lists[self]) \in Nat \ {0} /\ 1 \in 1..Len(lists[self])
      /\ lists[self][1] = head[self] /\ head[self] \in DOMAIN next
      /\ Len(lists'[FREE]) = Len(lists[FREE]) + 1
  BY <1>1, <1>2 DEF RecvMoved
<1>4. mem' = [mem EXCEPT ![head[self]] = Blank(@.data)] /\ DOMAIN mem = DOMAIN next
  BY <1>1 DEF recv_message, free_message, Rep, TypeOK
<1>5. ASSUME NEW p \in Pid, NEW i \in 1..Len(lists[p]), p # self \/ i # 1
      PROVE  mem'[lists[p][i]] = mem[lists[p][i]]
  <2>1. p \in List /\ p # FREE
    BY Names
  <2>2. lists[p][i] # head[self]
    BY <1>1, <1>2, <1>3, <1>5, <2>1, Apart
  <2>3. lists[p][i] \in DOMAIN next
    BY <1>1, <2>1, SlotFacts, ListFacts
  <2> QED
    BY <1>4, <2>2, <2>3
<1>6. ASSUME NEW p \in Pid, p # self PROVE Mailbox(p)' = Mailbox(p)
  <2>1. lists'[p] = lists[p]
    BY <1>1, <1>6, Names DEF RecvMoved
  <2>2. \A i \in 1..Len(lists[p]) : View(lists[p][i])' = View(lists[p][i])
    BY <1>5, <1>6, <2>1 DEF View
  <2> QED
    BY <2>1, <2>2 DEF Mailbox
<1>7. /\ Mailbox(self) \in Seq(Read) /\ Len(Mailbox(self)) = Len(lists[self])
      /\ \A i \in 1..Len(lists[self]) : Mailbox(self)[i] = View(lists[self][i])
      /\ Mailbox(self) # << >>
  <2>1. Len(Mailbox(self)) # 0
    BY <1>1, <1>3, MailboxFacts
  <2> QED
    BY <1>1, <2>1, MailboxFacts, EmptySeq
<1>8. Mailbox(self)' = Tail(Mailbox(self))
  <2>1. /\ Len(lists'[self]) = Len(lists[self]) - 1
        /\ \A i \in 1..Len(lists'[self]) : lists'[self][i] = lists[self][i + 1]
    BY <1>1 DEF RecvMoved
  <2>2. Tail(Mailbox(self)) = [i \in 1..(Len(lists[self]) - 1) |-> Mailbox(self)[i + 1]]
    <3>1. Tail(Mailbox(self)) = [i \in 1..(Len(Mailbox(self)) - 1) |-> Mailbox(self)[i + 1]]
      BY <1>7, TailIsFunction
    <3> QED
      BY <1>7, <3>1, Zenon
  <2>3. ASSUME NEW i \in 1..(Len(lists[self]) - 1)
        PROVE  View(lists[self][i])' = Mailbox(self)[i + 1]
    <3>1. i + 1 \in 1..Len(lists[self]) /\ i + 1 # 1 /\ lists'[self][i] = lists[self][i + 1]
      BY <1>3, <2>1
    <3>2. mem'[lists[self][i + 1]] = mem[lists[self][i + 1]]
      BY <1>5, <3>1
    <3>3. Mailbox(self)[i + 1] = View(lists[self][i + 1])
      BY <1>7, <3>1
    <3> QED
      BY <3>1, <3>2, <3>3 DEF View
  <2> QED
    BY <2>1, <2>2, <2>3 DEF Mailbox
<1>9. Mapped.mailbox = [p \in Pid |-> Mailbox(p)] /\ Mapped.free = Len(lists[FREE])
  BY DEF Mapped
<1>10. Abstract!HasMail(Mapped, self)
  BY <1>7, <1>9 DEF Abstract!HasMail
<1>11. Abstract!Oldest(Mapped, self) = View(head[self])
  <2>1. Head(Mailbox(self)) = Mailbox(self)[1]
    BY <1>7
  <2> QED
    BY <1>3, <1>7, <1>9, <2>1 DEF Abstract!Oldest
<1>12. Mapped' = [mailbox |-> [Mapped.mailbox EXCEPT ![self] = Tail(@)],
                  free |-> Mapped.free + 1]
  <2>1. [p \in Pid |-> Mailbox(p)]' = [[p \in Pid |-> Mailbox(p)] EXCEPT ![self] = Tail(@)]
    BY <1>6, <1>8
  <2> QED
    BY <1>3, <1>9, <2>1 DEF Mapped
<1> QED
  BY <1>10, <1>11, <1>12 DEF Abstract!Taken

LEMMA FailsUnseen ==
    ASSUME UNCHANGED <<mem, lists>>
    PROVE  UNCHANGED Mapped
BY DEF Mapped, Mailbox, View

LEMMA StepRefines == IInv /\ [Next]_vars => [Abstract!Next]_(Abstract!ipcVars)
<1> SUFFICES ASSUME IInv, [Next]_vars PROVE [Abstract!Next]_(Abstract!ipcVars)
  OBVIOUS
<1>1. /\ Pid = Abstract!Pid /\ Size = Abstract!Size
  BY DEF Pid, Abstract!Pid, Size, Abstract!Size
<1>2. ASSUME NEW self \in Pid, NEW receiver_pid \in -1..MAX_TASKS,
             NEW size \in 0..(MAX_MESSAGE_SIZE + 1), NEW data \in Data,
             send_message(self, receiver_pid, size, data)
      PROVE  Abstract!Next
  <2>1. Abstract!Send(self, receiver_pid, size, data)
    BY <1>2, SendMailboxes DEF send_message, Returned, Abstract!Send, Abstract!Returned
  <2> QED
    BY <1>1, <1>2, <2>1 DEF Abstract!Next
<1>3. ASSUME NEW self \in Pid, NEW receiver_pid \in -1..MAX_TASKS,
             NEW size \in 0..(MAX_MESSAGE_SIZE + 1), send_fails(receiver_pid, size)
      PROVE  Abstract!Next
  <2>1. PICK data \in Data : TRUE
    BY ListsAssumption
  <2>2. ~Abstract!Accepts(Mapped, receiver_pid, size)
    <3>1. Len(lists[FREE]) \in Nat /\ (lists[FREE] = << >> <=> Len(lists[FREE]) = 0)
      BY Names, SlotFacts, ListFacts DEF IInv
    <3>2. free_messages = NULL => ~(Len(lists[FREE]) > 0)
      <4>1. ASSUME Len(lists[FREE]) > 0 PROVE free_messages # NULL
        <5>1. Len(lists[FREE]) \in 1..Len(lists[FREE]) /\ lists[FREE] # << >>
          BY <3>1, <4>1
        <5>2. free_messages = lists[FREE][Len(lists[FREE])]
          BY <5>1 DEF IInv, Rep, FreeLinked
        <5> QED
          BY <5>1, <5>2, Names, SlotFacts, ListFacts DEF IInv
      <4> QED
        BY <4>1
    <3> QED
      BY <1>1, <1>3, <3>2 DEF send_fails, CanSend, Abstract!Accepts, Mapped
  <2>3. UNCHANGED Mapped
    BY <1>3, FailsUnseen DEF send_fails
  <2>4. Abstract!Send(self, receiver_pid, size, data)
    BY <1>3, <2>2, <2>3 DEF send_fails, Returned, Abstract!Send, Abstract!Sent, Abstract!Returned
  <2> QED
    BY <1>1, <1>3, <2>4 DEF Abstract!Next
<1>4. ASSUME NEW self \in Pid, NEW max_size \in 0..MAX_MESSAGE_SIZE,
             recv_message(self, max_size)
      PROVE  Abstract!Next
  <2>1. /\ Abstract!HasMail(Mapped, self) /\ Mapped' = Abstract!Taken(Mapped, self)
        /\ Abstract!Oldest(Mapped, self) = View(head[self])
    BY <1>4, RecvMailboxes
  <2>2. mem[head[self]].size \in Size
    <3>1. Rep /\ RecvMoved(self)
      BY <1>4, RecvMoves DEF IInv
    <3>2. 1 \in 1..Len(lists[self]) /\ lists[self][1] = head[self]
      BY <3>1, Names DEF RecvMoved
    <3> QED
      BY <3>2 DEF IInv, QueuedAreWhole
  <2>3. result' = Abstract!Received(View(head[self]), max_size)
    BY <1>4, <2>2 DEF recv_message, Abstract!Received, View
  <2>4. Abstract!Recv(self, max_size)
    BY <1>4, <2>1, <2>3 DEF recv_message, Abstract!Recv
  <2> QED
    BY <1>1, <1>4, <2>4 DEF Abstract!Next
<1>5. ASSUME NEW self \in Pid, NEW max_size \in 0..MAX_MESSAGE_SIZE,
             recv_fails(self, max_size)
      PROVE  Abstract!Next
  <2>1. ~(max_size > 0 /\ Abstract!HasMail(Mapped, self))
    <3>1. CASE max_size <= 0
      BY <3>1
    <3>2. CASE head[self] = NULL
      <4>1. /\ lists[self] = << >> <=> Len(lists[self]) = 0
            /\ \A i \in 1..Len(lists[self]) : lists[self][i] # NULL
            /\ Len(lists[self]) \in Nat
        BY Names, SlotFacts, ListFacts DEF IInv
      <4>2. head[self] = IF lists[self] = << >> THEN NULL ELSE lists[self][1]
        BY DEF IInv, Rep, QueuesLinked
      <4>3. Len(lists[self]) = 0
        BY <3>2, <4>1, <4>2
      <4>4. Mailbox(self) = << >>
        BY <4>3, MailboxFacts, EmptySeq DEF IInv
      <4> QED
        BY <4>4 DEF Abstract!HasMail, Mapped
    <3> QED
      BY <1>5, <3>1, <3>2 DEF recv_fails
  <2>2. UNCHANGED Mapped
    BY <1>5, FailsUnseen DEF recv_fails
  <2>3. Abstract!Recv(self, max_size)
    BY <1>5, <2>1, <2>2 DEF recv_fails, Returned, Abstract!Recv, Abstract!Returned
  <2> QED
    BY <1>1, <1>5, <2>3 DEF Abstract!Next
<1>6. CASE UNCHANGED vars
  <2>1. UNCHANGED Mapped
    BY <1>6, FailsUnseen DEF vars
  <2> QED
    BY <1>6, <2>1 DEF vars, Abstract!ipcVars
<1> QED
  BY <1>2, <1>3, <1>4, <1>5, <1>6 DEF Next

(* Every behaviour of the linked lists is one of FIFO mailboxes over a     *)
(* shared pool: whatever the number of tasks, slots and sizes.             *)
THEOREM ListsImplementMailboxes == Spec => ImplementsIPC
<1>1. Spec => Abstract!Init /\ [][Abstract!Next]_(Abstract!ipcVars)
  BY InitRefines, StepRefines, Invariance, PTL DEF Spec
<1> QED
  BY <1>1, PTL DEF ImplementsIPC, Abstract!Spec

----------------------------------------------------------------------------
(* What the reports of kernal/ipc.c count.  Their loops are functions of   *)
(* the number of turns, and two that begin alike and go on alike agree.    *)

(* A set of numbers that is not empty has a least one.                     *)
LEMMA LeastNumber ==
    ASSUME NEW T, T \subseteq Nat, T # {}
    PROVE  \E x \in T : \A y \in T : x <= y
<1> DEFINE below == {0..x : x \in T}
           R == StrictSubsetOrdering(Nat)
<1>1. below # {} /\ below \subseteq FiniteSubsetsOf(Nat)
  <2>1. \A x \in T : IsFiniteSet(0..x) /\ 0..x \subseteq Nat
    BY FS_Interval
  <2> QED
    BY <2>1 DEF FiniteSubsetsOf
<1>2. IsWellFoundedOn(R, FiniteSubsetsOf(Nat))
  BY FS_StrictSubsetOrderingWellFounded
<1> HIDE DEF below, R
<1>3. PICK m \in below : \A k \in below : <<k, m>> \notin R
  BY <1>1, <1>2, WFMin
<1>4. PICK x \in T : m = 0..x
  BY DEF below
<1>5. ASSUME NEW y \in T, y < x PROVE FALSE
  <2>1. 0..y \subseteq 0..x /\ x \notin 0..y /\ x \in 0..x
    BY <1>5
  <2>2. <<0..y, m>> \in R
    BY <1>4, <2>1 DEF R, StrictSubsetOrdering
  <2> QED
    BY <1>3, <2>2 DEF below
<1> QED
  BY <1>5

LEMMA SameTurns ==
    ASSUME NEW N \in Nat, NEW f, NEW g, f[0] = g[0],
           \A n \in 1..N : f[n - 1] = g[n - 1] => f[n] = g[n]
    PROVE  \A n \in 0..N : f[n] = g[n]
<1> DEFINE T == {n \in 0..N : f[n] # g[n]}
<1> SUFFICES ASSUME T # {} PROVE FALSE
  OBVIOUS
<1>1. T \subseteq Nat
  OBVIOUS
<1> HIDE DEF T
<1>2. PICK x \in T : \A y \in T : x <= y
  BY <1>1, LeastNumber
<1>3. x \in 0..N /\ f[x] # g[x]
  BY DEF T
<1>4. x \in 1..N /\ x - 1 \in 0..N /\ ~(x <= x - 1)
  BY <1>3
<1>5. x - 1 \notin T
  BY <1>2, <1>4
<1> QED
  BY <1>3, <1>4, <1>5 DEF T

(* Following next from m over n structs and then to the end counts n.      *)
LEMMA LinkedCounts ==
    ASSUME NEW m, NEW n \in Nat, NEW s, NEW limit \in Nat, n <= limit,
           m = IF n = 0 THEN NULL ELSE s[1],
           \A i \in 1..n : s[i] # NULL /\ next[s[i]] = IF i = n THEN NULL ELSE s[i + 1]
    PROVE  Linked(m, limit) = n
<1> DEFINE Step(x) == IF x = NULL THEN NULL ELSE next[x]
           Walk(w) == [k \in 0..limit |-> IF k = 0 THEN m ELSE Step(w[k - 1])]
           g == [k \in 0..limit |-> IF k < n THEN s[k + 1] ELSE NULL]
           walk == CHOOSE w : w = Walk(w)
<1>1. Linked(m, limit) = Cardinality({k \in 0..(limit - 1) : walk[k] # NULL})
  BY DEF Linked
<1>2. g = Walk(g)
  <2>1. ASSUME NEW k \in 0..limit PROVE g[k] = IF k = 0 THEN m ELSE Step(g[k - 1])
    <3>1. CASE k = 0
      BY <3>1
    <3>2. CASE k # 0 /\ k - 1 < n
      <4>1. k \in 1..n /\ k - 1 \in 0..limit /\ (k - 1) + 1 = k
        BY <3>2
      <4>2. g[k - 1] = s[k] /\ s[k] # NULL
        BY <3>2, <4>1
      <4>3. next[s[k]] = IF k = n THEN NULL ELSE s[k + 1]
        BY <4>1
      <4> QED
        BY <3>2, <4>1, <4>2, <4>3
    <3>3. CASE k # 0 /\ ~(k - 1 < n)
      <4>1. g[k - 1] = NULL /\ g[k] = NULL
        BY <3>3
      <4> QED
        BY <3>3, <4>1
    <3> QED
      BY <3>1, <3>2, <3>3
  <2>2. g = [k \in 0..limit |-> g[k]]
    OBVIOUS
  <2> HIDE DEF g
  <2> QED
    BY <2>1, <2>2
<1> HIDE DEF g
<1>3. walk = Walk(walk)
  BY <1>2
<1> HIDE DEF walk
<1>4. walk[0] = g[0]
  BY <1>2, <1>3
<1>5. ASSUME NEW k \in 1..limit, walk[k - 1] = g[k - 1] PROVE walk[k] = g[k]
  <2>1. walk[k] = Step(walk[k - 1]) /\ g[k] = Step(g[k - 1])
    BY <1>2, <1>3
  <2> QED
    BY <1>5, <2>1
<1>6. \A k \in 0..limit : walk[k] = g[k]
  BY <1>4, <1>5, SameTurns
<1>7. {k \in 0..(limit - 1) : walk[k] # NULL} = 0..(n - 1)
  <2>1. ASSUME NEW k \in 0..(limit - 1) PROVE walk[k] # NULL <=> k \in 0..(n - 1)
    <3>1. walk[k] = IF k < n THEN s[k + 1] ELSE NULL
      BY <1>6 DEF g
    <3>2. k < n => k + 1 \in 1..n
      OBVIOUS
    <3> QED
      BY <3>1, <3>2
  <2> QED
    BY <2>1
<1>8. Cardinality(0..(n - 1)) = n
  <2>1. 0 \in Int /\ n - 1 \in Int
    OBVIOUS
  <2>2. Cardinality(0..(n - 1)) = IF 0 > n - 1 THEN 0 ELSE (n - 1) - 0 + 1
    BY <2>1, FS_Interval
  <2> QED
    BY <2>2
<1> QED
  BY <1>1, <1>7, <1>8

(* The places of list l, and of all of them.                               *)
Row(l) == {l} \X (1..Len(lists[l]))
Places == UNION {Row(l) : l \in List}

LEMMA RowCounts ==
    ASSUME Rep, NEW l \in List
    PROVE  IsFiniteSet(Row(l)) /\ Cardinality(Row(l)) = Len(lists[l]) /\ Len(lists[l]) \in Nat
<1>1. Len(lists[l]) \in Nat
  BY SlotFacts, ListFacts
<1> DEFINE n == Len(lists[l])
           f == [i \in 1..n |-> <<l, i>>]
<1>2. f \in Bijection(1..n, Row(l))
  <2>1. f \in [1..n -> Row(l)]
    BY DEF Row
  <2>2. \A i, j \in 1..n : f[i] = f[j] => i = j
    OBVIOUS
  <2>3. \A w \in Row(l) : \E i \in 1..n : f[i] = w
    BY DEF Row
  <2> HIDE DEF f, n
  <2> QED
    BY <2>1, <2>2, <2>3 DEF Bijection, Injection, Surjection, IsInjective
<1>3. IsFiniteSet(1..n) /\ Cardinality(1..n) = n
  BY <1>1, FS_Interval
<1> HIDE DEF f
<1>4. ExistsBijection(1..n, Row(l))
  BY <1>2 DEF ExistsBijection
<1> QED
  BY <1>1, <1>3, <1>4, FS_Bijection

(* Every struct is at one place.                                           *)
LEMMA PlacesCount ==
    ASSUME Rep, NEW n \in Nat, DOMAIN next = 1..n
    PROVE  IsFiniteSet(Places) /\ Cardinality(Places) = n
<1> DEFINE S == DOMAIN next
           at == [w \in Places |-> lists[w[1]][w[2]]]
<1>1. \A w \in Places : w[1] \in List /\ w[2] \in 1..Len(lists[w[1]]) /\ w = <<w[1], w[2]>>
  BY DEF Places, Row
<1>2. at \in [Places -> S]
  <2>1. \A w \in Places : lists[w[1]][w[2]] \in S
    BY <1>1, SlotFacts, ListFacts
  <2> QED
    BY <2>1
<1>3. \A v, w \in Places : at[v] = at[w] => v = w
  BY <1>1, Apart
<1>4. \A m \in S : \E w \in Places : at[w] = m
  <2>1. ASSUME NEW m \in S PROVE \E w \in Places : at[w] = m
    <3>1. PICK l \in List : \E i \in 1..Len(lists[l]) : lists[l][i] = m
      BY DEF Rep, EverySlotOnce, NoSlotLeaked, Holds
    <3>2. PICK i \in 1..Len(lists[l]) : lists[l][i] = m
      BY <3>1
    <3>3. <<l, i>> \in Places
      BY DEF Places, Row
    <3> QED
      BY <3>2, <3>3
  <2> QED
    BY <2>1
<1> HIDE DEF at
<1>5. at \in Injection(Places, S) /\ at \in Surjection(Places, S)
  BY <1>2, <1>3, <1>4 DEF Injection, Surjection, IsInjective
<1>6. IsFiniteSet(S) /\ Cardinality(S) = n
  BY FS_Interval
<1> HIDE DEF S
<1> QED
  BY <1>5, <1>6, FS_Injection

LEMMA DisjointUnion ==
    ASSUME NEW S, NEW T, IsFiniteSet(S), IsFiniteSet(T), S \cap T = {}
    PROVE  IsFiniteSet(S \cup T) /\ Cardinality(S \cup T) = Cardinality(S) + Cardinality(T)
<1>1. Cardinality(S) \in Nat /\ Cardinality(T) \in Nat /\ Cardinality({}) = 0
  BY FS_CardinalityType, FS_EmptySet
<1>2. IsFiniteSet(S \cup T) /\ Cardinality(S \cup T)
        = Cardinality(S) + Cardinality(T) - Cardinality(S \cap T)
  BY FS_Union
<1>3. Cardinality(S \cap T) = 0
  BY <1>1, Zenon
<1>4. \A m, n \in Nat : m + n - 0 = m + n
  OBVIOUS
<1> QED
  BY <1>1, <1>2, <1>3, <1>4, Zenon

(* The queues of the pids below n.                                         *)
Below(n) == UNION {Row(p) : p \in 0..(n - 1)}

LEMMA BelowMore ==
    ASSUME Rep, NEW n \in 0..(MAX_TASKS - 1), IsFiniteSet(Below(n))
    PROVE  IsFiniteSet(Below(n + 1))
           /\ Cardinality(Below(n + 1)) = Cardinality(Below(n)) + Len(lists[n])
<1>1. n \in List
  BY ListsAssumption DEF List, Pid
<1>2. Below(n + 1) = Below(n) \cup Row(n)
  <2>1. 0..((n + 1) - 1) = 0..(n - 1) \cup {n}
    OBVIOUS
  <2> QED
    BY <2>1 DEF Below
<1>3. Below(n) \cap Row(n) = {}
  <2>1. \A w \in Below(n) : w[1] \in 0..(n - 1)
    BY DEF Below, Row
  <2>2. \A w \in Row(n) : w[1] = n
    BY DEF Row
  <2> QED
    BY <2>1, <2>2
<1>4. IsFiniteSet(Row(n)) /\ Cardinality(Row(n)) = Len(lists[n])
  BY <1>1, RowCounts
<1>5. IsFiniteSet(Below(n) \cup Row(n))
      /\ Cardinality(Below(n) \cup Row(n)) = Cardinality(Below(n)) + Cardinality(Row(n))
  BY <1>3, <1>4, DisjointUnion
<1> QED
  BY <1>2, <1>4, <1>5, Zenon

LEMMA TotalCounts ==
    ASSUME Rep
    PROVE  TotalQueued = Cardinality(Below(MAX_TASKS))
<1> DEFINE Sum(t) == [n \in 0..MAX_TASKS |-> IF n = 0 THEN 0 ELSE t[n - 1] + count[n - 1]]
           g == [n \in 0..MAX_TASKS |-> Cardinality(Below(n))]
           total == CHOOSE t : t = Sum(t)
<1>1. TotalQueued = total[MAX_TASKS]
  BY DEF TotalQueued
<1>2. MAX_TASKS \in Nat \ {0}
  BY ListsAssumption
<1>3. \A n \in 0..MAX_TASKS : IsFiniteSet(Below(n))
  <2>1. IsFiniteSet(Places)
    BY PlacesCount DEF Rep, TypeOK
  <2>2. \A n \in 0..MAX_TASKS : Below(n) \subseteq Places
    BY <1>2, Names DEF Below, Places, Pid
  <2> QED
    BY <2>1, <2>2, FS_Subset
<1>4. ASSUME NEW n \in 1..MAX_TASKS PROVE g[n] = g[n - 1] + count[n - 1]
  <2>1. n - 1 \in 0..(MAX_TASKS - 1) /\ (n - 1) + 1 = n /\ n - 1 \in 0..MAX_TASKS
    BY <1>2
  <2>2. Cardinality(Below(n)) = Cardinality(Below(n - 1)) + Len(lists[n - 1])
    <3>1. Cardinality(Below((n - 1) + 1)) = Cardinality(Below(n - 1)) + Len(lists[n - 1])
      BY <1>3, <2>1, BelowMore
    <3> QED
      BY <2>1, <3>1
  <2>3. count[n - 1] = Len(lists[n - 1])
    BY <2>1 DEF Rep, QueuesLinked, Pid
  <2> QED
    BY <2>1, <2>2, <2>3
<1>5. g[0] = 0
  <2>1. Below(0) = {}
    BY DEF Below
  <2> QED
    BY <1>2, <2>1, FS_EmptySet
<1>6. g = Sum(g)
  <2>1. g = [n \in 0..MAX_TASKS |-> g[n]]
    OBVIOUS
  <2> HIDE DEF g
  <2>2. \A n \in 0..MAX_TASKS : g[n] = IF n = 0 THEN 0 ELSE g[n - 1] + count[n - 1]
    BY <1>2, <1>4, <1>5
  <2> QED
    BY <2>1, <2>2
<1> HIDE DEF g
<1>7. total = Sum(total)
  BY <1>6
<1> HIDE DEF total
<1>8. total[0] = g[0]
  BY <1>2, <1>5, <1>7
<1>9. ASSUME NEW n \in 1..MAX_TASKS, total[n - 1] = g[n - 1] PROVE total[n] = g[n]
  <2>1. total[n] = total[n - 1] + count[n - 1]
    BY <1>2, <1>7
  <2> QED
    BY <1>4, <1>9, <2>1
<1>10. \A n \in 0..MAX_TASKS : total[n] = g[n]
  <2>1. MAX_TASKS \in Nat /\ \A n \in 1..MAX_TASKS : total[n - 1] = g[n - 1] => total[n] = g[n]
    BY <1>2, <1>9
  <2> QED
    BY <1>8, <2>1, SameTurns
<1>11. total[MAX_TASKS] = g[MAX_TASKS]
  BY <1>2, <1>10
<1> QED
  BY <1>1, <1>2, <1>11 DEF g

LEMMA FreeCounts ==
    ASSUME Rep, Len(lists[FREE]) <= MAX_MESSAGES
    PROVE  FreeCount = Len(lists[FREE])
<1> DEFINE f == lists[FREE]
           n == Len(f)
           s == [i \in 1..n |-> f[n + 1 - i]]
<1>1. n \in Nat /\ MAX_MESSAGES + 1 \in Nat /\ n <= MAX_MESSAGES + 1
      /\ (f = << >> <=> n = 0) /\ \A i \in 1..n : f[i] # NULL
  BY Names, SlotFacts, ListFacts, ListsAssumption
<1>2. /\ free_messages = IF f = << >> THEN NULL ELSE f[n]
      /\ \A i \in 1..n : next[f[i]] = IF i = 1 THEN NULL ELSE f[i - 1]
  BY DEF Rep, FreeLinked
<1> HIDE DEF f, n
<1>3. free_messages = IF n = 0 THEN NULL ELSE s[1]
  BY <1>1, <1>2
<1>4. ASSUME NEW i \in 1..n
      PROVE  s[i] # NULL /\ next[s[i]] = IF i = n THEN NULL ELSE s[i + 1]
  <2>1. n + 1 - i \in 1..n /\ (n + 1 - i = 1 <=> i = n)
    BY <1>1
  <2>2. s[i] = f[n + 1 - i]
    OBVIOUS
  <2>3. i # n => s[i + 1] = f[(n + 1 - i) - 1]
    <3>1. i # n => i + 1 \in 1..n /\ n + 1 - (i + 1) = (n + 1 - i) - 1
      BY <1>1
    <3> QED
      BY <3>1
  <2> QED
    BY <1>1, <1>2, <2>1, <2>2, <2>3
<1> HIDE DEF s
<1>5. Linked(free_messages, MAX_MESSAGES + 1) = n
  BY <1>1, <1>3, <1>4, LinkedCounts
<1> QED
  BY <1>5 DEF FreeCount, n, f

LEMMA RepIsQuiet == Rep => AuditsAreQuiet
<1> SUFFICES ASSUME Rep PROVE AuditsAreQuiet
  OBVIOUS
<1>1. ASSUME NEW p \in Pid PROVE ActualCount(p) = count[p]
  <2> DEFINE q == lists[p]
             n == Len(q)
  <2>1. n \in Nat /\ (q = << >> <=> n = 0) /\ \A i \in 1..n : q[i] # NULL
    BY Names, SlotFacts, ListFacts
  <2>2. /\ count[p] = n /\ head[p] = IF q = << >> THEN NULL ELSE q[1]
        /\ \A i \in 1..n : next[q[i]] = IF i = n THEN NULL ELSE q[i + 1]
    BY DEF Rep, QueuesLinked
  <2> HIDE DEF q, n
  <2>3. count[p] + 5 \in Nat /\ n <= count[p] + 5
    BY <2>1, <2>2
  <2>4. Linked(head[p], count[p] + 5) = n
    BY <2>1, <2>2, <2>3, LinkedCounts
  <2> QED
    BY <2>2, <2>4 DEF ActualCount
<1>2. ASSUME DOMAIN next = Slot PROVE TotalQueued = UsedCount
  <2>1. MAX_MESSAGES \in Nat /\ MAX_TASKS \in Nat \ {0} /\ DOMAIN next = 1..MAX_MESSAGES
    BY <1>2, ListsAssumption DEF Slot
  <2>2. IsFiniteSet(Places) /\ Cardinality(Places) = MAX_MESSAGES
    BY <2>1, PlacesCount
  <2>3. Places = Below(MAX_TASKS) \cup Row(FREE)
    BY <2>1 DEF Places, Below, List, Pid
  <2>4. Below(MAX_TASKS) \cap Row(FREE) = {}
    <3>1. \A w \in Below(MAX_TASKS) : w[1] \in 0..(MAX_TASKS - 1)
      BY DEF Below, Row
    <3>2. \A w \in Row(FREE) : w[1] = -1
      BY DEF Row, FREE
    <3> QED
      BY <2>1, <3>1, <3>2
  <2>5. /\ IsFiniteSet(Row(FREE)) /\ Cardinality(Row(FREE)) = Len(lists[FREE])
        /\ Len(lists[FREE]) \in Nat
    BY Names, RowCounts
  <2>6. IsFiniteSet(Below(MAX_TASKS)) /\ Cardinality(Below(MAX_TASKS)) \in Nat
    BY <2>2, <2>3, FS_Subset, FS_CardinalityType
  <2>7. MAX_MESSAGES = Cardinality(Below(MAX_TASKS)) + Len(lists[FREE])
    <3>1. Cardinality(Below(MAX_TASKS) \cup Row(FREE))
            = Cardinality(Below(MAX_TASKS)) + Cardinality(Row(FREE))
      BY <2>4, <2>5, <2>6, DisjointUnion
    <3> QED
      BY <2>2, <2>3, <2>5, <2>6, <3>1
  <2>8. FreeCount = Len(lists[FREE])
    <3>1. Len(lists[FREE]) <= MAX_MESSAGES
      BY <2>5, <2>6, <2>7
    <3> QED
      BY <3>1, FreeCounts
  <2> QED
    BY <2>1, <2>5, <2>6, <2>7, <2>8, TotalCounts DEF UsedCount
<1> QED
  BY <1>1, <1>2 DEF AuditsAreQuiet

(* ipc_log_queue_status never reports CORRUPTION and, if ipc_init got all  *)
(* its structs, ipc_debug_status never a queue count mismatch, for any     *)
(* number of pids and of slots: the limits of their walks are enough.      *)
THEOREM AuditsStayQuiet == Spec => []AuditsAreQuiet
<1>1. IInv => AuditsAreQuiet
  BY RepIsQuiet DEF IInv
<1> QED
  BY <1>1, Invariance, PTL
============================================================================
