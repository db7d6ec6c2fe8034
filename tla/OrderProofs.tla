----------------------------- MODULE OrderProofs -----------------------------
(* What the servers' proofs share: what a send and a receive do to the     *)
(* mailboxes and to the pool, and what the steps of clients and servers do *)
(* to the messages that lie between them.                                  *)
EXTENDS ServerClients, FiniteSetTheorems, TLAPS

(* Every message in the mailbox of p belongs to T[p].                      *)
Holds(box, T) ==
    /\ box.mailbox = [p \in Pid |-> box.mailbox[p]]
    /\ \A p \in Pid : box.mailbox[p] \in Seq(T[p])

LEMMA EmptyHolds ==
    ASSUME NEW slots, NEW T
    PROVE  Holds(Empty(slots), T)
BY DEF Holds, Empty

LEMMA HoldsMore ==
    ASSUME NEW box, NEW T, NEW U, Holds(box, T), \A p \in Pid : T[p] \subseteq U[p]
    PROVE  Holds(box, U)
BY DEF Holds

LEMMA ElementOfSeq ==
    ASSUME NEW S, NEW q \in Seq(S), NEW i \in 1..Len(q)
    PROVE  q[i] \in S
OBVIOUS

LEMMA TailFacts ==
    ASSUME NEW S, NEW q \in Seq(S), q # << >>
    PROVE  /\ Len(q) \in Nat \ {0} /\ Len(Tail(q)) = Len(q) - 1
           /\ Tail(q) \in Seq(S) /\ Head(q) \in S
           /\ \A i \in 1..Len(Tail(q)) : Tail(q)[i] = q[i + 1]
OBVIOUS

LEMMA AppendFacts ==
    ASSUME NEW S, NEW q \in Seq(S), NEW e
    PROVE  /\ e \in S => Append(q, e) \in Seq(S)
           /\ Len(q) \in Nat /\ Len(Append(q, e)) = Len(q) + 1
           /\ \A i \in 1..Len(q) : Append(q, e)[i] = q[i]
           /\ Append(q, e)[Len(q) + 1] = e
OBVIOUS

(* A receive takes the first message of one mailbox.                       *)
LEMMA TakenMail ==
    ASSUME NEW box, NEW T, NEW self \in Pid, Holds(box, T), HasMail(box, self),
           NEW after, after = Taken(box, self)
    PROVE  /\ Holds(after, T)
           /\ Oldest(box, self) \in T[self]
           /\ \A p \in Pid \ {self} : after.mailbox[p] = box.mailbox[p]
           /\ Len(box.mailbox[self]) \in Nat \ {0}
           /\ Len(after.mailbox[self]) = Len(box.mailbox[self]) - 1
           /\ \A i \in 1..Len(after.mailbox[self]) :
                after.mailbox[self][i] = box.mailbox[self][i + 1]
<1> DEFINE queue == box.mailbox[self]
<1>1. queue \in Seq(T[self]) /\ queue # << >>
  BY DEF Holds, HasMail
<1>2. after.mailbox = [box.mailbox EXCEPT ![self] = Tail(@)]
  BY DEF Taken
<1>3. /\ after.mailbox = [p \in Pid |-> after.mailbox[p]]
      /\ \A p \in Pid \ {self} : after.mailbox[p] = box.mailbox[p]
      /\ after.mailbox[self] = Tail(queue)
  BY <1>2 DEF Holds
<1>4. /\ Len(queue) \in Nat \ {0} /\ Len(Tail(queue)) = Len(queue) - 1
      /\ Tail(queue) \in Seq(T[self]) /\ Head(queue) \in T[self]
      /\ \A i \in 1..Len(Tail(queue)) : Tail(queue)[i] = queue[i + 1]
  BY <1>1, TailFacts
<1>5. Holds(after, T)
  BY <1>3, <1>4 DEF Holds
<1> QED
  BY <1>3, <1>4, <1>5 DEF Oldest

(* A send puts the message at the end of one mailbox, or changes nothing.  *)
LEMMA SentMail ==
    ASSUME NEW box, NEW T, NEW self, NEW receiver, NEW size, NEW data, Holds(box, T),
           NEW after, after = Sent(box, self, receiver, size, data),
           NEW m, m = [sender_pid |-> self, size |-> size, data |-> data],
           Accepts(box, receiver, size) => m \in T[receiver]
    PROVE  /\ Holds(after, T)
           /\ \A p \in Pid : \/ after.mailbox[p] = box.mailbox[p]
                             \/ p = receiver /\ after.mailbox[p] = Append(box.mailbox[p], m)
<1>1. CASE ~Accepts(box, receiver, size)
  BY <1>1 DEF Sent
<1>2. CASE Accepts(box, receiver, size)
  <2>1. receiver \in Pid /\ box.mailbox[receiver] \in Seq(T[receiver]) /\ m \in T[receiver]
    BY <1>2 DEF Accepts, Holds
  <2>2. after.mailbox = [box.mailbox EXCEPT ![receiver] = Append(@, m)]
    BY <1>2 DEF Sent
  <2>3. /\ after.mailbox = [p \in Pid |-> after.mailbox[p]]
        /\ \A p \in Pid \ {receiver} : after.mailbox[p] = box.mailbox[p]
        /\ after.mailbox[receiver] = Append(box.mailbox[receiver], m)
    BY <2>1, <2>2 DEF Holds
  <2>4. Append(box.mailbox[receiver], m) \in Seq(T[receiver])
    BY <2>1, AppendFacts
  <2>5. Holds(after, T)
    BY <2>3, <2>4 DEF Holds
  <2> QED
    BY <2>3, <2>5
<1> QED
  BY <1>1, <1>2

(* The same, for what the mailboxes hold.                                  *)
LEMMA TakenHolds ==
    ASSUME NEW box, NEW T, NEW self \in Pid, Holds(box, T)
    PROVE  Holds(Taken(box, self), T)
<1>1. CASE ~HasMail(box, self)
  BY <1>1 DEF Taken
<1>2. CASE HasMail(box, self)
  BY <1>2, TakenMail
<1> QED
  BY <1>1, <1>2

With(T, receiver, m) == [p \in Pid |-> IF p = receiver THEN T[p] \cup {m} ELSE T[p]]

LEMMA SentHolds ==
    ASSUME NEW box, NEW T, NEW self, NEW receiver, NEW size, NEW data, Holds(box, T),
           NEW m, m = [sender_pid |-> self, size |-> size, data |-> data]
    PROVE  Holds(Sent(box, self, receiver, size, data), With(T, receiver, m))
<1> DEFINE U == With(T, receiver, m)
           after == Sent(box, self, receiver, size, data)
<1>1. Holds(box, U)
  BY HoldsMore DEF With
<1>2. Accepts(box, receiver, size) => m \in U[receiver]
  BY DEF Accepts, With
<1> HIDE DEF U
<1>3. after = Sent(box, self, receiver, size, data)
  OBVIOUS
<1> HIDE DEF after
<1>4. Holds(after, U)
  BY <1>1, <1>2, <1>3, SentMail
<1> QED
  BY <1>4 DEF U, after

----------------------------------------------------------------------------
(* The pool: a slot is free or holds a message of some mailbox.            *)
Waiting(mailbox) == {w \in Pid \X Nat : w[2] \in 1..Len(mailbox[w[1]])}
Pooled(box) ==
    /\ box.free \in Nat /\ IsFiniteSet(Waiting(box.mailbox))
    /\ box.free + Cardinality(Waiting(box.mailbox)) = MAX_MESSAGES

LEMMA PooledBound == ASSUME NEW box, Pooled(box) PROVE box.free \in 0..MAX_MESSAGES
BY FS_CardinalityType, MailboxAssumption DEF Pooled

LEMMA EmptyPooled == Pooled(Empty(MAX_MESSAGES))
<1>1. Waiting(Empty(MAX_MESSAGES).mailbox) = {}
  BY DEF Waiting, Empty
<1> QED
  BY <1>1, FS_EmptySet, MailboxAssumption DEF Pooled, Empty

LEMMA TakenPooled ==
    ASSUME NEW box, NEW T, Holds(box, T), Pooled(box), NEW self \in Pid
    PROVE  Pooled(Taken(box, self))
<1>1. CASE ~HasMail(box, self)
  BY <1>1 DEF Taken
<1>2. CASE HasMail(box, self)
  <2> DEFINE after == Taken(box, self)
             n     == Len(box.mailbox[self])
  <2>1. after.free = box.free + 1 /\ after = Taken(box, self)
    BY <1>2 DEF Taken
  <2> HIDE DEF after
  <2> HIDE DEF n
  <2>2. /\ \A p \in Pid \ {self} : after.mailbox[p] = box.mailbox[p]
        /\ n \in Nat \ {0} /\ Len(after.mailbox[self]) = n - 1
    <3>1. /\ box.mailbox[self] \in Seq(T[self]) /\ box.mailbox[self] # << >>
          /\ after.mailbox = [box.mailbox EXCEPT ![self] = Tail(@)]
      BY <1>2, <2>1 DEF Holds, HasMail, Taken
    <3>2. \A p \in Pid \ {self} : after.mailbox[p] = box.mailbox[p]
      BY <3>1 DEF Holds
    <3>3. after.mailbox[self] = Tail(box.mailbox[self])
      BY <3>1 DEF Holds
    <3> QED
      BY <3>1, <3>2, <3>3, TailFacts DEF n
  <2>3. Waiting(after.mailbox) = Waiting(box.mailbox) \ {<<self, n>>}
    BY <2>2 DEF Waiting, n
  <2>4. <<self, n>> \in Waiting(box.mailbox)
    BY <2>2 DEF Waiting, n
  <2> QED
    BY <2>1, <2>3, <2>4, FS_RemoveElement, FS_CardinalityType DEF Pooled, after
<1> QED
  BY <1>1, <1>2

LEMMA SentPooled ==
    ASSUME NEW box, NEW T, Holds(box, T), Pooled(box),
           NEW self, NEW receiver, NEW size, NEW data
    PROVE  Pooled(Sent(box, self, receiver, size, data))
<1>1. CASE ~Accepts(box, receiver, size)
  BY <1>1 DEF Sent
<1>2. CASE Accepts(box, receiver, size)
  <2> DEFINE after == Sent(box, self, receiver, size, data)
             m     == [sender_pid |-> self, size |-> size, data |-> data]
             n     == Len(box.mailbox[receiver]) + 1
  <2>1. /\ receiver \in Pid /\ box.free > 0 /\ after.free = box.free - 1
        /\ after.mailbox = [box.mailbox EXCEPT ![receiver] = Append(@, m)]
    BY <1>2 DEF Accepts, Sent
  <2> HIDE DEF after
  <2>2. /\ box.mailbox[receiver] \in Seq(T[receiver])
        /\ \A p \in Pid \ {receiver} : after.mailbox[p] = box.mailbox[p]
        /\ after.mailbox[receiver] = Append(box.mailbox[receiver], m)
    BY <2>1 DEF Holds
  <2>3. n \in Nat \ {0} /\ Len(after.mailbox[receiver]) = n
    BY <2>2, AppendFacts
  <2>4. Len(box.mailbox[receiver]) = n - 1
    BY <2>2
  <2> HIDE DEF n
  <2>5. Waiting(after.mailbox) = Waiting(box.mailbox) \cup {<<receiver, n>>}
    BY <2>1, <2>2, <2>3, <2>4 DEF Waiting
  <2>6. <<receiver, n>> \notin Waiting(box.mailbox)
    BY <2>3, <2>4 DEF Waiting
  <2>7. /\ IsFiniteSet(Waiting(after.mailbox))
        /\ Cardinality(Waiting(after.mailbox)) = Cardinality(Waiting(box.mailbox)) + 1
        /\ Cardinality(Waiting(box.mailbox)) \in Nat
    BY <2>5, <2>6, FS_AddElement, FS_CardinalityType DEF Pooled
  <2> QED
    BY <2>1, <2>7 DEF Pooled, after
<1> QED
  BY <1>1, <1>2

----------------------------------------------------------------------------
(* Lists, when the places change.                                          *)

(* g moves the places some of q to the places other of r, in their order.  *)
Moves(g, q, some, r, other) ==
    /\ g \in [some -> other]
    /\ \A j, k \in some : j < k => g[j] < g[k]
    /\ \A k \in other : \E j \in some : g[j] = k
    /\ \A k \in some : r[g[k]].data.re = q[k].data.re

LEMMA ListsMoved ==
    ASSUME NEW reqs, NEW q, NEW some, Lists(reqs, q, some),
           NEW r, NEW other, NEW g, Moves(g, q, some, r, other)
    PROVE  Lists(reqs, r, other)
<1> USE DEF Moves
<1>1. PICK place \in [DOMAIN reqs -> some] :
        /\ \A i, j \in DOMAIN reqs : i < j => place[i] < place[j]
        /\ \A k \in some : \E i \in DOMAIN reqs : place[i] = k
        /\ \A i \in DOMAIN reqs : q[place[i]].data.re = reqs[i]
  BY DEF Lists
<1> DEFINE moved == [i \in DOMAIN reqs |-> g[place[i]]]
<1>2. moved \in [DOMAIN reqs -> other]
  BY <1>1
<1>3. \A i, j \in DOMAIN reqs : i < j => moved[i] < moved[j]
  BY <1>1
<1>4. \A k \in other : \E i \in DOMAIN reqs : moved[i] = k
  BY <1>1
<1>5. \A i \in DOMAIN reqs : r[moved[i]].data.re = reqs[i]
  BY <1>1
<1> QED
  BY <1>2, <1>3, <1>4, <1>5 DEF Lists

LEMMA ListsSame ==
    ASSUME NEW reqs, NEW q, NEW some, Lists(reqs, q, some),
           NEW r, \A k \in some : r[k].data.re = q[k].data.re
    PROVE  Lists(reqs, r, some)
BY DEF Lists

LEMMA ListsLonger ==
    ASSUME NEW R, NEW reqs \in Seq(R), NEW q, NEW some, Lists(reqs, q, some),
           NEW req \in R, NEW n, NEW r, r[n].data.re = req,
           \A k \in some : k < n /\ r[k].data.re = q[k].data.re
    PROVE  Lists(Append(reqs, req), r, some \cup {n})
<1>1. PICK place \in [DOMAIN reqs -> some] :
        /\ \A i, j \in DOMAIN reqs : i < j => place[i] < place[j]
        /\ \A k \in some : \E i \in DOMAIN reqs : place[i] = k
        /\ \A i \in DOMAIN reqs : q[place[i]].data.re = reqs[i]
  BY DEF Lists
<1> DEFINE more  == Append(reqs, req)
           last  == Len(reqs) + 1
           place2 == [i \in DOMAIN more |-> IF i = last THEN n ELSE place[i]]
<1>2. /\ DOMAIN reqs = 1..Len(reqs) /\ Len(reqs) \in Nat
      /\ DOMAIN more = 1..last
      /\ \A i \in 1..Len(reqs) : more[i] = reqs[i]
      /\ more[last] = req
  OBVIOUS
<1> HIDE DEF more
<1>3. /\ place2[last] = n
      /\ \A i \in DOMAIN reqs : place2[i] = place[i]
      /\ \A i \in DOMAIN more : i = last \/ i \in DOMAIN reqs
      /\ DOMAIN place2 = DOMAIN more
  BY <1>2
<1>4. place2 \in [DOMAIN more -> some \cup {n}]
  BY <1>1, <1>2
<1> HIDE DEF place2
<1>5. ASSUME NEW i \in DOMAIN more, NEW j \in DOMAIN more, i < j
      PROVE  place2[i] < place2[j]
  <2>1. i \in DOMAIN reqs
    BY <1>2, <1>5
  <2>2. CASE j = last
    BY <1>1, <1>3, <2>1, <2>2
  <2>3. CASE j \in DOMAIN reqs
    BY <1>1, <1>3, <1>5, <2>1, <2>3
  <2> QED
    BY <1>3, <2>2, <2>3
<1>6. ASSUME NEW k \in some \cup {n} PROVE \E i \in DOMAIN more : place2[i] = k
  <2>1. last \in DOMAIN more /\ DOMAIN reqs \subseteq DOMAIN more
    BY <1>2
  <2> QED
    BY <1>1, <1>3, <2>1
<1>7. \A i \in DOMAIN more : r[place2[i]].data.re = more[i]
  BY <1>1, <1>2, <1>3
<1> QED
  BY <1>4, <1>5, <1>6, <1>7 DEF Lists, more

LEMMA ListsShorter ==
    ASSUME NEW R, NEW reqs \in Seq(R), NEW q, NEW some, Lists(reqs, q, some),
           some \subseteq Int, NEW first \in some, \A k \in some : k >= first
    PROVE  reqs # << >> /\ Lists(Tail(reqs), q, some \ {first})
<1>1. PICK place \in [DOMAIN reqs -> some] :
        /\ \A i, j \in DOMAIN reqs : i < j => place[i] < place[j]
        /\ \A k \in some : \E i \in DOMAIN reqs : place[i] = k
        /\ \A i \in DOMAIN reqs : q[place[i]].data.re = reqs[i]
  BY DEF Lists
<1>2. DOMAIN reqs = 1..Len(reqs) /\ Len(reqs) \in Nat
  OBVIOUS
<1>3. reqs # << >> /\ Len(reqs) >= 1
  BY <1>1, <1>2
<1> DEFINE less == Tail(reqs)
           place2 == [i \in DOMAIN less |-> place[i + 1]]
<1>4. /\ DOMAIN less = 1..(Len(reqs) - 1)
      /\ \A i \in 1..(Len(reqs) - 1) : less[i] = reqs[i + 1]
  BY <1>3
<1> HIDE DEF less
<1>5. \A i \in DOMAIN less : i \in Int /\ i + 1 \in DOMAIN reqs /\ i + 1 > 1
  BY <1>2, <1>4
<1>6. place[1] = first
  <2>1. PICK i \in DOMAIN reqs : place[i] = first
    BY <1>1
  <2>2. 1 \in DOMAIN reqs /\ (i # 1 => 1 < i)
    BY <1>2, <1>3
  <2>3. place[1] \in Int /\ first \in Int /\ place[1] >= first
    BY <1>1, <2>2
  <2>4. CASE i # 1
    <3>1. place[1] < place[i]
      BY <1>1, <2>2, <2>4
    <3> QED
      BY <2>1, <2>3, <3>1
  <2> QED
    BY <2>1, <2>4
<1>7. ASSUME NEW i \in DOMAIN less PROVE place2[i] \in some \ {first}
  <2>1. place[1] < place[i + 1] /\ place[i + 1] \in some
    BY <1>1, <1>2, <1>3, <1>5
  <2> QED
    BY <1>6, <2>1
<1>8. place2 \in [DOMAIN less -> some \ {first}]
  BY <1>7
<1>9. \A i, j \in DOMAIN less : i < j => place2[i] < place2[j]
  BY <1>1, <1>5
<1>10. ASSUME NEW k \in some \ {first} PROVE \E i \in DOMAIN less : place2[i] = k
  <2>1. PICK i \in DOMAIN reqs : place[i] = k
    BY <1>1
  <2>2. i # 1
    BY <1>6, <2>1
  <2>3. i - 1 \in DOMAIN less /\ (i - 1) + 1 = i
    BY <1>2, <1>4, <2>2
  <2> QED
    BY <2>1, <2>3
<1>11. \A i \in DOMAIN less : q[place2[i]].data.re = less[i]
  BY <1>1, <1>4, <1>5
<1> QED
  BY <1>3, <1>8, <1>9, <1>10, <1>11 DEF Lists, less

----------------------------------------------------------------------------
(* What lies between a client and a server, when mailboxes change.         *)

LEMMA BetweenFacts ==
    ASSUME NEW M, NEW N, NEW a \in Seq(M), NEW b \in Seq(N),
           NEW box, NEW c, NEW s, box[c] = a, box[s] = b
    PROVE  LET q == Between(box, c, s)
           IN /\ Len(a) \in Nat /\ Len(b) \in Nat
              /\ DOMAIN q = 1..(Len(a) + Len(b))
              /\ \A k \in DOMAIN q : k <= Len(a) => q[k] = a[k]
              /\ \A k \in DOMAIN q : k > Len(a) => q[k] = b[k - Len(a)]
<1>1. a \in Seq(M \cup N) /\ b \in Seq(M \cup N)
  OBVIOUS
<1>2. /\ Len(a) \in Nat /\ Len(b) \in Nat /\ DOMAIN (a \o b) = 1..(Len(a) + Len(b))
      /\ \A k \in 1..(Len(a) + Len(b)) :
            (a \o b)[k] = IF k <= Len(a) THEN a[k] ELSE b[k - Len(a)]
  BY <1>1
<1> QED
  BY <1>2 DEF Between

(* Does message d at place k of the first n, or beyond, concern c and s?   *)
Concerns(d, k, n, c, s, due) ==
    IF k <= n THEN d.from = s ELSE d.from = c /\ d.re \in due

(* A request arrives at the server.                                        *)
LEMMA RequestSent ==
    ASSUME NEW M, NEW N, NEW R, NEW reqs \in Seq(R), NEW box, NEW after, NEW c, NEW s, NEW due,
           NEW m, box[c] \in Seq(M), box[s] \in Seq(N),
           after[c] = box[c], after[s] = Append(box[s], m),
           Lists(reqs, Between(box, c, s), Concern(box, c, s, due))
    PROVE  /\ m.data.from = c /\ m.data.re \in due \cap R =>
                Lists(Append(reqs, m.data.re), Between(after, c, s), Concern(after, c, s, due))
           /\ ~(m.data.from = c /\ m.data.re \in due) =>
                Lists(reqs, Between(after, c, s), Concern(after, c, s, due))
<1> DEFINE a  == box[c]
           b  == box[s]
           n  == Len(a)
           e  == Len(a) + Len(b) + 1
           q  == Between(box, c, s)
           r  == Between(after, c, s)
           some  == Concern(box, c, s, due)
           other == Concern(after, c, s, due)
<1>1. /\ n \in Nat /\ Len(b) \in Nat /\ DOMAIN q = 1..(n + Len(b))
      /\ \A k \in DOMAIN q : k <= n => q[k] = a[k]
      /\ \A k \in DOMAIN q : k > n => q[k] = b[k - n]
  <2>1. a \in Seq(M) /\ b \in Seq(N) /\ box[c] = a /\ box[s] = b
    OBVIOUS
  <2> HIDE DEF a, b
  <2> QED
    BY <2>1, BetweenFacts
<1>2. /\ Append(b, m) \in Seq(N \cup {m}) /\ Len(Append(b, m)) = Len(b) + 1
      /\ \A k \in 1..Len(b) : Append(b, m)[k] = b[k]
      /\ Append(b, m)[Len(b) + 1] = m
  OBVIOUS
<1>3. /\ DOMAIN r = 1..e
      /\ \A k \in DOMAIN r : k <= n => r[k] = a[k]
      /\ \A k \in DOMAIN r : k > n => r[k] = Append(b, m)[k - n]
  <2> DEFINE b2 == Append(b, m)
  <2>1. b2 \in Seq(N \cup {m}) /\ after[s] = b2 /\ after[c] = a /\ a \in Seq(M)
    BY <1>2
  <2> HIDE DEF b2, a
  <2>2. /\ DOMAIN r = 1..(Len(a) + Len(b2))
        /\ \A k \in DOMAIN r : k <= Len(a) => r[k] = a[k]
        /\ \A k \in DOMAIN r : k > Len(a) => r[k] = b2[k - Len(a)]
    BY <2>1, BetweenFacts
  <2> QED
    BY <1>1, <1>2, <2>2 DEF b2
<1>4. /\ DOMAIN r = DOMAIN q \cup {e} /\ e \notin DOMAIN q /\ e > n
      /\ \A k \in DOMAIN q : r[k] = q[k] /\ k < e
      /\ r[e] = m
  <2>1. e = n + Len(b) + 1 /\ n \in Nat /\ Len(b) \in Nat
    BY <1>1
  <2> HIDE DEF q, r, n, e, a, b
  <2>2. DOMAIN r = DOMAIN q \cup {e} /\ e \notin DOMAIN q /\ e > n
    BY <1>1, <1>3, <2>1
  <2>3. ASSUME NEW k \in DOMAIN q PROVE r[k] = q[k] /\ k < e
    <3>1. k \in 1..(n + Len(b)) /\ k \in DOMAIN r /\ k < e
      BY <1>1, <2>1, <2>2
    <3>2. CASE k <= n
      BY <1>1, <1>3, <3>1, <3>2
    <3>3. CASE k > n
      <4>1. k - n \in 1..Len(b)
        BY <2>1, <3>1, <3>3
      <4> QED
        BY <1>1, <1>2, <1>3, <3>1, <3>3, <4>1
    <3> QED
      BY <2>1, <3>1, <3>2, <3>3
  <2>4. r[e] = m
    <3>1. e - n = Len(b) + 1 /\ e \in DOMAIN r
      BY <2>1, <2>2
    <3> QED
      BY <1>2, <1>3, <2>2, <3>1
  <2> QED
    BY <2>2, <2>3, <2>4
<1>5. /\ some = {k \in DOMAIN q : Concerns(q[k].data, k, n, c, s, due)}
      /\ other = {k \in DOMAIN r : Concerns(r[k].data, k, n, c, s, due)}
  BY DEF Concern, Concerns
<1> HIDE DEF q, r, some, other, n, e, a, b
<1>6. Concerns(m.data, e, n, c, s, due) <=> m.data.from = c /\ m.data.re \in due
  BY <1>1, <1>4 DEF Concerns, e, n
<1>7. /\ Concerns(m.data, e, n, c, s, due) => other = some \cup {e}
      /\ ~Concerns(m.data, e, n, c, s, due) => other = some
  BY <1>4, <1>5
<1>8. \A k \in some : k < e /\ r[k].data.re = q[k].data.re
  BY <1>4, <1>5
<1>9. Lists(reqs, q, some)
  BY DEF q, some
<1>10. ASSUME m.data.from = c, m.data.re \in due, m.data.re \in R
       PROVE  Lists(Append(reqs, m.data.re), r, other)
  <2>1. other = some \cup {e}
    BY <1>6, <1>7, <1>10
  <2> QED
    BY <1>4, <1>8, <1>9, <1>10, <2>1, ListsLonger
<1>11. ASSUME ~(m.data.from = c /\ m.data.re \in due) PROVE Lists(reqs, r, other)
  <2>1. other = some
    BY <1>6, <1>7, <1>11
  <2> QED
    BY <1>8, <1>9, <2>1, ListsSame
<1> QED
  BY <1>10, <1>11 DEF r, other

(* A place is taken out of the first len, and those after it move up.      *)
Before(k, gone) == IF k < gone THEN k ELSE k + 1
Dropped(q, some, len, gone, r, other) ==
    /\ some \subseteq 1..len /\ gone \in (1..len) \ some
    /\ other = {k \in 1..(len - 1) : Before(k, gone) \in some}
    /\ \A k \in other : r[k].data.re = q[Before(k, gone)].data.re

LEMMA PlaceDropped ==
    ASSUME NEW reqs, NEW q, NEW some, Lists(reqs, q, some), NEW len \in Nat,
           NEW gone, NEW r, NEW other, Dropped(q, some, len, gone, r, other)
    PROVE  Lists(reqs, r, other)
<1> USE DEF Dropped, Before
<1> DEFINE g == [k \in some |-> IF k < gone THEN k ELSE k - 1]
<1>1. ASSUME NEW k \in some
      PROVE  /\ g[k] \in other /\ k \in Int
             /\ (IF g[k] < gone THEN g[k] ELSE g[k] + 1) = k
  <2>1. k \in 1..len /\ k # gone
    OBVIOUS
  <2>2. CASE k < gone
    <3>1. g[k] = k /\ k \in 1..(len - 1)
      BY <2>1, <2>2
    <3> HIDE DEF g
    <3> QED
      BY <2>2, <3>1
  <2>3. CASE k > gone
    <3>1. g[k] = k - 1 /\ k - 1 \in 1..(len - 1) /\ ~(k - 1 < gone) /\ (k - 1) + 1 = k
      BY <2>1, <2>3
    <3> HIDE DEF g
    <3> QED
      BY <3>1
  <2> QED
    BY <2>1, <2>2, <2>3
<1>2. g \in [some -> other]
  BY <1>1
<1>3. \A j, k \in some : j < k => g[j] < g[k]
  <2> SUFFICES ASSUME NEW j \in some, NEW k \in some, j < k PROVE g[j] < g[k]
    OBVIOUS
  <2>1. j \in 1..len /\ k \in 1..len /\ j # gone /\ k # gone
    OBVIOUS
  <2> QED
    BY <2>1
<1>4. ASSUME NEW k \in other PROVE \E j \in some : g[j] = k
  <2> DEFINE j == IF k < gone THEN k ELSE k + 1
  <2>1. j \in some /\ k \in 1..(len - 1)
    BY <1>4
  <2>2. g[j] = k
    BY <2>1
  <2> QED
    BY <2>1, <2>2
<1>5. \A k \in some : r[g[k]].data.re = q[k].data.re
  BY <1>1
<1>6. \A k \in other : \E j \in some : g[j] = k
  BY <1>4
<1> HIDE DEF g
<1>7. Moves(g, q, some, r, other)
  BY <1>2, <1>3, <1>5, <1>6 DEF Moves
<1> QED
  BY <1>7, ListsMoved


(* A client takes the first of its messages, from s or from another server.*)
TakesAnswer(box, after, c, s) ==
    /\ box[c] # << >>
    /\ after[c] = Tail(box[c]) /\ after[s] = box[s]

LEMMA AnswerTaken ==
    ASSUME NEW M, NEW N, NEW R, NEW reqs \in Seq(R), NEW box, NEW after, NEW c, NEW s, NEW due,
           box[c] \in Seq(M), box[s] \in Seq(N), TakesAnswer(box, after, c, s),
           Lists(reqs, Between(box, c, s), Concern(box, c, s, due))
    PROVE  /\ Head(box[c]).data.from = s =>
                /\ reqs # << >>
                /\ Lists(Tail(reqs), Between(after, c, s), Concern(after, c, s, due))
           /\ Head(box[c]).data.from # s =>
                Lists(reqs, Between(after, c, s), Concern(after, c, s, due))
<1> USE DEF TakesAnswer
<1> DEFINE a  == box[c]
           a2 == after[c]
           b  == box[s]
           n  == Len(a)
           e  == n + Len(b)
           q  == Between(box, c, s)
           r  == Between(after, c, s)
           some  == Concern(box, c, s, due)
           other == Concern(after, c, s, due)
           his   == Head(box[c]).data.from = s
<1>1. /\ n \in Nat \ {0} /\ Len(a2) = n - 1 /\ a2 \in Seq(M) /\ Len(b) \in Nat
      /\ \A k \in 1..(n - 1) : a2[k] = a[k + 1]
      /\ a[1] = Head(a)
  <2>1. a \in Seq(M) /\ a # << >> /\ a2 = Tail(a) /\ b \in Seq(N)
    OBVIOUS
  <2> HIDE DEF a, a2, b
  <2> QED
    BY <2>1, TailFacts
<1>2. /\ DOMAIN q = 1..e
      /\ \A k \in DOMAIN q : k <= n => q[k] = a[k]
      /\ \A k \in DOMAIN q : k > n => q[k] = b[k - n]
  <2>1. a \in Seq(M) /\ b \in Seq(N) /\ box[c] = a /\ box[s] = b
    OBVIOUS
  <2> HIDE DEF a, b
  <2> QED
    BY <2>1, BetweenFacts
<1>3. /\ DOMAIN r = 1..(e - 1)
      /\ \A k \in DOMAIN r : k <= n - 1 => r[k] = a2[k]
      /\ \A k \in DOMAIN r : k > n - 1 => r[k] = b[k - (n - 1)]
  <2>1. a2 \in Seq(M) /\ b \in Seq(N) /\ after[c] = a2 /\ after[s] = b
    BY <1>1
  <2> HIDE DEF a2, b, a
  <2>2. /\ DOMAIN r = 1..(Len(a2) + Len(b))
        /\ \A k \in DOMAIN r : k <= Len(a2) => r[k] = a2[k]
        /\ \A k \in DOMAIN r : k > Len(a2) => r[k] = b[k - Len(a2)]
    BY <2>1, BetweenFacts
  <2> QED
    BY <1>1, <2>2
<1>4. /\ some = {k \in DOMAIN q : Concerns(q[k].data, k, n, c, s, due)}
      /\ other = {k \in DOMAIN r : Concerns(r[k].data, k, n - 1, c, s, due)}
  BY <1>1 DEF Concern, Concerns
<1>5. Lists(reqs, q, some) /\ (his <=> Head(a).data.from = s) /\ e = n + Len(b)
  OBVIOUS
<1> HIDE DEF q, r, some, other, n, e, a, a2, b, his
<1>6. ASSUME NEW k \in 1..(e - 1) PROVE r[k] = q[k + 1] /\ k + 1 \in DOMAIN q
  <2>1. k \in DOMAIN r /\ k + 1 \in DOMAIN q /\ n \in Nat
    BY <1>1, <1>2, <1>3, <1>5
  <2>2. CASE k <= n - 1
    <3>1. k \in 1..(n - 1) /\ k + 1 <= n
      BY <2>1, <2>2
    <3> QED
      BY <1>1, <1>2, <1>3, <2>1, <2>2, <3>1
  <2>3. CASE k > n - 1
    <3>1. k + 1 > n /\ (k + 1) - n = k - (n - 1)
      BY <2>1, <2>3
    <3> QED
      BY <1>2, <1>3, <2>1, <2>3, <3>1
  <2> QED
    BY <2>1, <2>2, <2>3
<1>7. /\ (1 \in some <=> his) /\ some \subseteq 1..e /\ e \in Nat /\ 1 \in 1..e
      /\ \A k \in some : k >= 1
  <2>1. e \in Nat /\ 1 \in DOMAIN q /\ 1 <= n /\ n \in Nat
    BY <1>1, <1>2, <1>5
  <2>2. q[1] = a[1]
    BY <1>2, <2>1
  <2> QED
    BY <1>1, <1>2, <1>4, <1>5, <2>1, <2>2 DEF Concerns
<1>8. his => reqs # << >> /\ Lists(Tail(reqs), q, some \ {1})
  <2>1. some \subseteq Int
    BY <1>7
  <2> QED
    BY <1>5, <1>7, <2>1, ListsShorter
<1>9. other = {k \in 1..(e - 1) : Before(k, 1) \in some \ {1}}
  <2>1. ASSUME NEW k \in 1..(e - 1)
        PROVE  k \in other <=> Before(k, 1) \in some \ {1}
    <3>1. ~(k < 1) /\ k + 1 # 1 /\ (k <= n - 1 <=> k + 1 <= n)
      BY <1>1
    <3>2. k \in other <=> Concerns(r[k].data, k, n - 1, c, s, due)
      BY <1>3, <1>4
    <3>3. k + 1 \in some <=> Concerns(q[k + 1].data, k + 1, n, c, s, due)
      BY <1>4, <1>6
    <3> QED
      BY <1>6, <3>1, <3>2, <3>3 DEF Concerns, Before
  <2>2. other \subseteq 1..(e - 1)
    BY <1>3, <1>4
  <2> QED
    BY <2>1, <2>2
<1>10. \A k \in other : r[k].data.re = q[Before(k, 1)].data.re
  <2> SUFFICES ASSUME NEW k \in other
               PROVE  r[k].data.re = q[Before(k, 1)].data.re
    OBVIOUS
  <2>1. k \in 1..(e - 1)
    BY <1>9
  <2>2. ~(k < 1)
    BY <2>1
  <2> QED
    BY <1>6, <2>1, <2>2 DEF Before
<1>11. ASSUME NEW less, Lists(less, q, some \ {1}) PROVE Lists(less, r, other)
  <2> DEFINE kept == some \ {1}
  <2>1. Lists(less, q, kept) /\ kept \subseteq 1..e /\ 1 \notin kept
    BY <1>7, <1>11
  <2>2. other = {k \in 1..(e - 1) : Before(k, 1) \in kept}
    BY <1>9
  <2> HIDE DEF kept
  <2>3. Dropped(q, kept, e, 1, r, other)
    BY <1>7, <1>10, <2>1, <2>2 DEF Dropped
  <2> QED
    BY <1>7, <2>1, <2>3, PlaceDropped
<1>12. ~his => some \ {1} = some
  BY <1>7
<1>13. /\ his => reqs # << >> /\ Lists(Tail(reqs), r, other)
       /\ ~his => Lists(reqs, r, other)
  BY <1>5, <1>8, <1>11, <1>12
<1> QED
  BY <1>13 DEF r, other, his

(* The server takes the first of its messages and does not answer c.       *)
TakesOther(box, after, c, s, due) ==
    /\ box[s] # << >> /\ ~(Head(box[s]).data.from = c /\ Head(box[s]).data.re \in due)
    /\ after[c] = box[c] /\ after[s] = Tail(box[s])

LEMMA RequestTaken ==
    ASSUME NEW M, NEW N, NEW reqs, NEW box, NEW after, NEW c, NEW s, NEW due,
           box[c] \in Seq(M), box[s] \in Seq(N), TakesOther(box, after, c, s, due),
           Lists(reqs, Between(box, c, s), Concern(box, c, s, due))
    PROVE  Lists(reqs, Between(after, c, s), Concern(after, c, s, due))
<1> USE DEF TakesOther
<1> DEFINE a  == box[c]
           b  == box[s]
           b2 == after[s]
           n  == Len(a)
           e  == n + Len(b)
           q  == Between(box, c, s)
           r  == Between(after, c, s)
           some  == Concern(box, c, s, due)
           other == Concern(after, c, s, due)
<1>1. /\ Len(b) \in Nat \ {0} /\ Len(b2) = Len(b) - 1 /\ b2 \in Seq(N)
      /\ \A k \in 1..(Len(b) - 1) : b2[k] = b[k + 1]
      /\ b[1] = Head(b) /\ n \in Nat
  <2>1. b \in Seq(N) /\ b # << >> /\ b2 = Tail(b) /\ a \in Seq(M)
    OBVIOUS
  <2> HIDE DEF a, b, b2
  <2> QED
    BY <2>1, TailFacts
<1>2. /\ DOMAIN q = 1..e
      /\ \A k \in DOMAIN q : k <= n => q[k] = a[k]
      /\ \A k \in DOMAIN q : k > n => q[k] = b[k - n]
  <2>1. a \in Seq(M) /\ b \in Seq(N) /\ box[c] = a /\ box[s] = b
    OBVIOUS
  <2> HIDE DEF a, b
  <2> QED
    BY <2>1, BetweenFacts
<1>3. /\ DOMAIN r = 1..(e - 1)
      /\ \A k \in DOMAIN r : k <= n => r[k] = a[k]
      /\ \A k \in DOMAIN r : k > n => r[k] = b2[k - n]
  <2>1. a \in Seq(M) /\ b2 \in Seq(N) /\ after[c] = a /\ after[s] = b2
    BY <1>1
  <2> HIDE DEF a, b2, b
  <2>2. /\ DOMAIN r = 1..(Len(a) + Len(b2))
        /\ \A k \in DOMAIN r : k <= Len(a) => r[k] = a[k]
        /\ \A k \in DOMAIN r : k > Len(a) => r[k] = b2[k - Len(a)]
    BY <2>1, BetweenFacts
  <2> QED
    BY <1>1, <2>2
<1>4. /\ some = {k \in DOMAIN q : Concerns(q[k].data, k, n, c, s, due)}
      /\ other = {k \in DOMAIN r : Concerns(r[k].data, k, n, c, s, due)}
  BY DEF Concern, Concerns
<1>5. /\ Lists(reqs, q, some) /\ e = n + Len(b)
      /\ ~(Head(b).data.from = c /\ Head(b).data.re \in due)
  OBVIOUS
<1> HIDE DEF q, r, some, other, n, e, a, b2, b
<1>6. ASSUME NEW k \in 1..(e - 1)
      PROVE  r[k] = q[Before(k, n + 1)] /\ Before(k, n + 1) \in DOMAIN q
  <2>1. k \in DOMAIN r /\ k \in DOMAIN q /\ k + 1 \in DOMAIN q /\ n \in Nat
    BY <1>1, <1>2, <1>3, <1>5
  <2>2. CASE k <= n
    <3>1. Before(k, n + 1) = k
      BY <2>1, <2>2 DEF Before
    <3> QED
      BY <1>2, <1>3, <2>1, <2>2, <3>1
  <2>3. CASE k > n
    <3>1. Before(k, n + 1) = k + 1 /\ k + 1 > n /\ (k + 1) - n = (k - n) + 1
      BY <2>1, <2>3 DEF Before
    <3>2. k - n \in 1..(Len(b) - 1)
      BY <1>1, <1>5, <2>1, <2>3
    <3> QED
      BY <1>1, <1>2, <1>3, <2>1, <2>3, <3>1, <3>2
  <2> QED
    BY <2>1, <2>2, <2>3
<1>7. some \subseteq 1..e /\ e \in Nat /\ n + 1 \in (1..e) \ some
  <2>1. /\ e \in Nat /\ n + 1 \in DOMAIN q
        /\ n \in Nat /\ n + 1 > n /\ (n + 1) - n = 1
    <3> DEFINE more == Len(b)
    <3>1. n \in Nat /\ more \in Nat \ {0} /\ e = n + more
      BY <1>1, <1>5
    <3> HIDE DEF more
    <3>2. e \in Nat /\ n + 1 \in 1..e
      BY <3>1
    <3>3. n + 1 > n /\ (n + 1) - n = 1
      BY <3>1
    <3> QED
      BY <1>2, <3>1, <3>2, <3>3
  <2>2. q[n + 1] = Head(b)
    BY <1>1, <1>2, <2>1
  <2>3. ~Concerns(q[n + 1].data, n + 1, n, c, s, due)
    BY <1>5, <2>1, <2>2 DEF Concerns
  <2> QED
    BY <1>2, <1>4, <2>1, <2>3
<1>8. other = {k \in 1..(e - 1) : Before(k, n + 1) \in some}
  <2>1. ASSUME NEW k \in 1..(e - 1)
        PROVE  k \in other <=> Before(k, n + 1) \in some
    <3>1. k <= n <=> Before(k, n + 1) <= n
      BY <1>1 DEF Before
    <3>2. k \in other <=> Concerns(r[k].data, k, n, c, s, due)
      BY <1>3, <1>4
    <3>3. Before(k, n + 1) \in some
            <=> Concerns(q[Before(k, n + 1)].data, Before(k, n + 1), n, c, s, due)
      BY <1>4, <1>6
    <3> QED
      BY <1>6, <3>1, <3>2, <3>3 DEF Concerns
  <2>2. other \subseteq 1..(e - 1)
    BY <1>3, <1>4
  <2> QED
    BY <2>1, <2>2
<1>9. \A k \in other : r[k].data.re = q[Before(k, n + 1)].data.re
  BY <1>6, <1>8
<1>10. Dropped(q, some, e, n + 1, r, other)
  BY <1>7, <1>8, <1>9 DEF Dropped
<1>11. Lists(reqs, r, other)
  BY <1>5, <1>7, <1>10, PlaceDropped
<1> QED
  BY <1>11 DEF r, other

(* The server takes the first of its messages and answers c.               *)
Answers(box, after, c, s, due, m) ==
    /\ box[s] # << >> /\ Head(box[s]).data.from = c /\ Head(box[s]).data.re \in due
    /\ m.data.from = s /\ m.data.re = Head(box[s]).data.re
    /\ after[c] = Append(box[c], m) /\ after[s] = Tail(box[s])

LEMMA RequestAnswered ==
    ASSUME NEW M, NEW N, NEW reqs, NEW box, NEW after, NEW c, NEW s, NEW due, NEW m,
           box[c] \in Seq(M), box[s] \in Seq(N), Answers(box, after, c, s, due, m),
           Lists(reqs, Between(box, c, s), Concern(box, c, s, due))
    PROVE  Lists(reqs, Between(after, c, s), Concern(after, c, s, due))
<1> USE DEF Answers
<1> DEFINE a  == box[c]
           a2 == after[c]
           b  == box[s]
           b2 == after[s]
           n  == Len(a)
           e  == n + Len(b)
           q  == Between(box, c, s)
           r  == Between(after, c, s)
           some  == Concern(box, c, s, due)
           other == Concern(after, c, s, due)
<1>1. /\ Len(b) \in Nat \ {0} /\ Len(b2) = Len(b) - 1 /\ b2 \in Seq(N)
      /\ \A k \in 1..(Len(b) - 1) : b2[k] = b[k + 1]
      /\ b[1] = Head(b)
  <2>1. b \in Seq(N) /\ b # << >> /\ b2 = Tail(b)
    OBVIOUS
  <2> HIDE DEF b, b2
  <2> QED
    BY <2>1, TailFacts
<1>2. /\ n \in Nat /\ Len(a2) = n + 1 /\ a2 \in Seq(M \cup {m})
      /\ \A k \in 1..n : a2[k] = a[k]
      /\ a2[n + 1] = m
  <2>1. a2 = Append(a, m) /\ a \in Seq(M \cup {m})
    OBVIOUS
  <2> HIDE DEF a, a2
  <2> QED
    BY <2>1, AppendFacts
<1>3. /\ DOMAIN q = 1..e
      /\ \A k \in DOMAIN q : k <= n => q[k] = a[k]
      /\ \A k \in DOMAIN q : k > n => q[k] = b[k - n]
  <2>1. a \in Seq(M) /\ b \in Seq(N) /\ box[c] = a /\ box[s] = b
    OBVIOUS
  <2> HIDE DEF a, b
  <2> QED
    BY <2>1, BetweenFacts
<1>4. /\ DOMAIN r = 1..e
      /\ \A k \in DOMAIN r : k <= n + 1 => r[k] = a2[k]
      /\ \A k \in DOMAIN r : k > n + 1 => r[k] = b2[k - (n + 1)]
  <2>1. a2 \in Seq(M \cup {m}) /\ b2 \in Seq(N) /\ after[c] = a2 /\ after[s] = b2
    BY <1>1, <1>2
  <2> HIDE DEF a, a2, b2, b
  <2>2. /\ DOMAIN r = 1..(Len(a2) + Len(b2))
        /\ \A k \in DOMAIN r : k <= Len(a2) => r[k] = a2[k]
        /\ \A k \in DOMAIN r : k > Len(a2) => r[k] = b2[k - Len(a2)]
    BY <2>1, BetweenFacts
  <2> QED
    BY <1>1, <1>2, <2>2
<1>5. /\ some = {k \in DOMAIN q : Concerns(q[k].data, k, n, c, s, due)}
      /\ other = {k \in DOMAIN r : Concerns(r[k].data, k, n + 1, c, s, due)}
  BY <1>2 DEF Concern, Concerns
<1>6. /\ Lists(reqs, q, some) /\ e = n + Len(b)
      /\ Head(b).data.from = c /\ Head(b).data.re \in due
      /\ m.data.from = s /\ m.data.re = Head(b).data.re
  OBVIOUS
<1> HIDE DEF q, r, some, other, n, e, a, a2, b2, b
<1>7. ASSUME NEW k \in 1..e
      PROVE  /\ k # n + 1 => r[k] = q[k]
             /\ k = n + 1 => q[k] = Head(b) /\ r[k] = m
  <2>1. k \in DOMAIN r /\ k \in DOMAIN q /\ k \in Int /\ n \in Nat
    BY <1>2, <1>3, <1>4
  <2>2. CASE k <= n
    <3>1. k \in 1..n /\ k <= n + 1 /\ k # n + 1
      BY <2>1, <2>2
    <3> QED
      BY <1>2, <1>3, <1>4, <2>1, <2>2, <3>1
  <2>3. CASE k = n + 1
    <3>1. k > n /\ k - n = 1 /\ k <= n + 1
      BY <2>1, <2>3
    <3>2. q[k] = b[1] /\ r[k] = a2[n + 1]
      BY <1>3, <1>4, <2>1, <2>3, <3>1
    <3> QED
      BY <1>1, <1>2, <2>3, <3>2
  <2>4. CASE k > n + 1
    <3>1. k > n /\ k - n = (k - (n + 1)) + 1 /\ k # n + 1
      BY <2>1, <2>4
    <3>2. k - (n + 1) \in 1..(Len(b) - 1)
      BY <1>1, <1>6, <2>1, <2>4
    <3>3. b2[k - (n + 1)] = b[k - n]
      BY <1>1, <3>1, <3>2
    <3>4. q[k] = b[k - n] /\ r[k] = b2[k - (n + 1)]
      BY <1>3, <1>4, <2>1, <2>4, <3>1
    <3> QED
      BY <3>1, <3>3, <3>4
  <2>5. k <= n \/ k = n + 1 \/ k > n + 1
    BY <2>1
  <2>6. k # n + 1 => r[k] = q[k]
    BY <2>2, <2>4, <2>5
  <2> QED
    BY <2>3, <2>6
<1>8. ASSUME NEW k \in 1..e
      PROVE  /\ Concerns(r[k].data, k, n + 1, c, s, due)
                  <=> Concerns(q[k].data, k, n, c, s, due)
             /\ r[k].data.re = q[k].data.re
  <2>1. k # n + 1 => (k <= n + 1 <=> k <= n)
    BY <1>2
  <2>2. k = n + 1 => k <= n + 1 /\ ~(k <= n)
    BY <1>2
  <2> QED
    BY <1>6, <1>7, <2>1, <2>2 DEF Concerns
<1>9. other = some /\ \A k \in some : r[k].data.re = q[k].data.re
  BY <1>3, <1>4, <1>5, <1>8
<1>10. Lists(reqs, r, other)
  BY <1>6, <1>9, ListsSame
<1> QED
  BY <1>10 DEF r, other

(* A place is put in among the first len, and those after it move down.    *)
Inserted(q, some, len, new, r, other) ==
    /\ some \subseteq 1..len
    /\ other = {Before(k, new) : k \in some}
    /\ \A k \in some : r[Before(k, new)].data.re = q[k].data.re

LEMMA PlaceInserted ==
    ASSUME NEW reqs, NEW q, NEW some, Lists(reqs, q, some), NEW len \in Nat,
           NEW new \in Int, NEW r, NEW other, Inserted(q, some, len, new, r, other)
    PROVE  Lists(reqs, r, other)
<1> DEFINE g == [k \in some |-> Before(k, new)]
<1>1. some \subseteq Int /\ g \in [some -> other]
  BY DEF Inserted
<1>2. \A j, k \in some : j < k => g[j] < g[k]
  BY <1>1 DEF Before
<1>3. \A k \in other : \E j \in some : g[j] = k
  BY DEF Inserted
<1>4. \A k \in some : r[g[k]].data.re = q[k].data.re
  BY DEF Inserted
<1> HIDE DEF g
<1>5. Moves(g, q, some, r, other)
  BY <1>1, <1>2, <1>3, <1>4 DEF Moves
<1> QED
  BY <1>5, ListsMoved

(* Another server answers c.                                               *)
GetsOther(box, after, c, s, m) ==
    m.data.from # s /\ after[c] = Append(box[c], m) /\ after[s] = box[s]

LEMMA OtherAnswered ==
    ASSUME NEW M, NEW N, NEW reqs, NEW box, NEW after, NEW c, NEW s, NEW due, NEW m,
           box[c] \in Seq(M), box[s] \in Seq(N), GetsOther(box, after, c, s, m),
           Lists(reqs, Between(box, c, s), Concern(box, c, s, due))
    PROVE  Lists(reqs, Between(after, c, s), Concern(after, c, s, due))
<1> USE DEF GetsOther
<1> DEFINE a  == box[c]
           a2 == after[c]
           b  == box[s]
           n  == Len(a)
           e  == n + Len(b)
           q  == Between(box, c, s)
           r  == Between(after, c, s)
           some  == Concern(box, c, s, due)
           other == Concern(after, c, s, due)
<1>1. /\ n \in Nat /\ Len(a2) = n + 1 /\ a2 \in Seq(M \cup {m}) /\ Len(b) \in Nat
      /\ \A k \in 1..n : a2[k] = a[k]
      /\ a2[n + 1] = m
  <2>1. a2 = Append(a, m) /\ a \in Seq(M \cup {m}) /\ b \in Seq(N)
    OBVIOUS
  <2> HIDE DEF a, a2, b
  <2> QED
    BY <2>1, AppendFacts
<1>2. /\ DOMAIN q = 1..e
      /\ \A k \in DOMAIN q : k <= n => q[k] = a[k]
      /\ \A k \in DOMAIN q : k > n => q[k] = b[k - n]
  <2>1. a \in Seq(M) /\ b \in Seq(N) /\ box[c] = a /\ box[s] = b
    OBVIOUS
  <2> HIDE DEF a, b
  <2> QED
    BY <2>1, BetweenFacts
<1>3. /\ DOMAIN r = 1..(e + 1)
      /\ \A k \in DOMAIN r : k <= n + 1 => r[k] = a2[k]
      /\ \A k \in DOMAIN r : k > n + 1 => r[k] = b[k - (n + 1)]
  <2>1. a2 \in Seq(M \cup {m}) /\ b \in Seq(N) /\ after[c] = a2 /\ after[s] = b
    BY <1>1
  <2> HIDE DEF a, a2, b
  <2>2. /\ DOMAIN r = 1..(Len(a2) + Len(b))
        /\ \A k \in DOMAIN r : k <= Len(a2) => r[k] = a2[k]
        /\ \A k \in DOMAIN r : k > Len(a2) => r[k] = b[k - Len(a2)]
    BY <2>1, BetweenFacts
  <2> QED
    BY <1>1, <2>2
<1>4. /\ some = {k \in DOMAIN q : Concerns(q[k].data, k, n, c, s, due)}
      /\ other = {k \in DOMAIN r : Concerns(r[k].data, k, n + 1, c, s, due)}
  BY <1>1 DEF Concern, Concerns
<1>5. Lists(reqs, q, some) /\ e = n + Len(b) /\ m.data.from # s
  OBVIOUS
<1> HIDE DEF q, r, some, other, n, e, a, a2, b
<1>6. e \in Nat
  BY <1>1, <1>5
<1>7. ASSUME NEW k \in 1..e
      PROVE  /\ Before(k, n + 1) \in DOMAIN r /\ r[Before(k, n + 1)] = q[k]
             /\ (Before(k, n + 1) <= n + 1 <=> k <= n)
  <2>1. k \in DOMAIN q /\ k \in Int /\ n \in Nat /\ k <= e /\ k >= 1
    BY <1>1, <1>2, <1>6
  <2>2. CASE k <= n
    <3>1. Before(k, n + 1) = k /\ k \in 1..n /\ k \in DOMAIN r /\ k <= n + 1
      BY <1>3, <1>6, <2>1, <2>2 DEF Before
    <3> QED
      BY <1>1, <1>2, <1>3, <2>1, <2>2, <3>1
  <2>3. CASE k > n
    <3>1. /\ Before(k, n + 1) = k + 1 /\ k + 1 \in DOMAIN r /\ k + 1 > n + 1
          /\ (k + 1) - (n + 1) = k - n /\ ~(k + 1 <= n + 1) /\ ~(k <= n)
      BY <1>3, <1>6, <2>1, <2>3 DEF Before
    <3> QED
      BY <1>2, <1>3, <2>1, <2>3, <3>1
  <2> QED
    BY <2>1, <2>2, <2>3
<1>8. ASSUME NEW k \in 1..e
      PROVE  Before(k, n + 1) \in other <=> k \in some
  BY <1>2, <1>4, <1>7 DEF Concerns
<1>9. ASSUME NEW k \in other PROVE \E j \in some : Before(j, n + 1) = k
  <2>1. k \in 1..(e + 1) /\ k # n + 1
    <3>1. n + 1 \in DOMAIN r => r[n + 1] = m
      BY <1>1, <1>3
    <3>2. n + 1 <= n + 1
      BY <1>1
    <3>3. n + 1 \notin other
      BY <1>4, <1>5, <3>1, <3>2 DEF Concerns
    <3> QED
      BY <1>3, <1>4, <3>3
  <2> DEFINE j == IF k < n + 1 THEN k ELSE k - 1
  <2>2. j \in 1..e /\ Before(j, n + 1) = k
    BY <1>1, <1>6, <1>5, <2>1 DEF Before
  <2> QED
    BY <1>8, <2>2
<1>10. some \subseteq 1..e
  BY <1>2, <1>4
<1>11. other = {Before(k, n + 1) : k \in some}
  BY <1>8, <1>9, <1>10
<1>12. Inserted(q, some, e, n + 1, r, other)
  BY <1>7, <1>10, <1>11 DEF Inserted
<1>13. Lists(reqs, r, other)
  BY <1>1, <1>5, <1>6, <1>12, PlaceInserted
<1> QED
  BY <1>13 DEF r, other

----------------------------------------------------------------------------
(* The invariant of the servers and their clients: what each may find in   *)
(* its mailbox, and that each client has its answers to come from each     *)
(* server, in order.  R[s] are the requests that s may get, due[s] those   *)
(* that it answers.                                                        *)
Apart(T, R) ==
    /\ \A s \in Servers : \A m \in T[s] : m.data.from \in Clients /\ m.data.re \in R[s]
    /\ \A c \in Clients : \A m \in T[c] : m.data.from \in Servers
Expects(box, o, c, s, d) == Lists(o[c][s], Between(box, c, s), Concern(box, c, s, d))
Orderly(box, o, due, R) ==
    /\ Pooled(box)
    /\ \E T : Holds(box, T) /\ Apart(T, R)
    /\ o = [c \in Clients |-> [s \in Servers |-> o[c][s]]]
    /\ \A c \in Clients, s \in Servers : o[c][s] \in Seq(R[s])
    /\ \A c \in Clients, s \in Servers : Expects(box.mailbox, o, c, s, due[s])

LEMMA ServersAndClients ==
    ASSUME NEW s \in Servers
    PROVE  s \in Pid \ Clients /\ Clients \subseteq Pid
BY ClientsAssumption

LEMMA ApartWith ==
    ASSUME NEW T, NEW R, Apart(T, R), NEW p \in Pid, NEW m,
           \/ p \in Servers /\ m.data.from \in Clients /\ m.data.re \in R[p]
           \/ p \in Clients /\ m.data.from \in Servers
    PROVE  Apart(With(T, p, m), R)
<1> DEFINE U == With(T, p, m)
<1>1. \A s \in Servers : s \in Pid /\ s \notin Clients
  BY ServersAndClients
<1>2. Clients \subseteq Pid
  BY ClientsAssumption
<1>3. \A q \in Pid : U[q] = IF q = p THEN T[q] \cup {m} ELSE T[q]
  BY DEF With
<1> HIDE DEF U
<1>4. ASSUME NEW s \in Servers, NEW k \in U[s]
      PROVE  k.data.from \in Clients /\ k.data.re \in R[s]
  <2>1. k \in T[s] \/ (k = m /\ s = p)
    BY <1>1, <1>3, <1>4
  <2> QED
    BY <1>1, <2>1 DEF Apart
<1>5. ASSUME NEW c \in Clients, NEW k \in U[c] PROVE k.data.from \in Servers
  <2>1. k \in T[c] \/ (k = m /\ c = p)
    BY <1>2, <1>3, <1>5
  <2> QED
    BY <1>1, <2>1 DEF Apart
<1> QED
  BY <1>4, <1>5 DEF Apart, U

(* Nothing changes between d and s when their mailboxes stay.              *)
LEMMA ExpectsSame ==
    ASSUME NEW mb, NEW mb2, NEW o, NEW o2, NEW d, NEW s, NEW due,
           mb2[d] = mb[d], mb2[s] = mb[s], o2[d][s] = o[d][s],
           Expects(mb, o, d, s, due)
    PROVE  Expects(mb2, o2, d, s, due)
<1>1. Between(mb2, d, s) = Between(mb, d, s)
  BY DEF Between
<1>2. Concern(mb2, d, s, due) = Concern(mb, d, s, due)
  BY <1>1 DEF Concern
<1> QED
  BY <1>1, <1>2 DEF Expects

LEMMA EmptyOrderly ==
    ASSUME NEW due, NEW R, NEW o, o = [c \in Clients |-> [t \in Servers |-> << >>]]
    PROVE  Orderly(Empty(MAX_MESSAGES), o, due, R)
<1> DEFINE box == Empty(MAX_MESSAGES)
<1>1. Pooled(box) /\ Holds(box, [p \in Pid |-> {}])
  BY EmptyPooled, EmptyHolds
<1>2. Apart([p \in Pid |-> {}], R)
  <2>1. (\A s \in Servers : s \in Pid) /\ Clients \subseteq Pid
    BY ServersAndClients, ClientsAssumption
  <2> QED
    BY <2>1 DEF Apart
<1>3. /\ o = [c \in Clients |-> [s \in Servers |-> o[c][s]]]
      /\ \A c \in Clients, s \in Servers : o[c][s] \in Seq(R[s])
  OBVIOUS
<1>4. ASSUME NEW c \in Clients, NEW s \in Servers
      PROVE  Expects(box.mailbox, o, c, s, due[s])
  <2>1. o[c][s] = << >> /\ box.mailbox[c] = << >> /\ box.mailbox[s] = << >>
    BY ServersAndClients DEF Empty
  <2> HIDE DEF box
  <2>2. DOMAIN Between(box.mailbox, c, s) = {}
    BY <2>1 DEF Between
  <2>3. Concern(box.mailbox, c, s, due[s]) = {}
    BY <2>2 DEF Concern
  <2> DEFINE place == [i \in {} |-> 0]
  <2>4. DOMAIN o[c][s] = {} /\ place \in [{} -> {}]
    BY <2>1
  <2> QED
    BY <2>3, <2>4 DEF Lists, Expects
<1> QED
  BY <1>1, <1>2, <1>3, <1>4 DEF Orderly

(* c sends req to s, who takes it.                                         *)
LEMMA SentOrderly ==
    ASSUME NEW s \in Servers, NEW due, NEW R, NEW box, NEW o, Orderly(box, o, due, R),
           NEW c \in Clients, NEW req \in R[s], NEW size, Accepts(box, s, size),
           NEW after, after = Sent(box, c, s, size, [from |-> c, re |-> req]),
           NEW o2, o2 = IF req \in due[s] THEN [o EXCEPT ![c][s] = Append(@, req)] ELSE o
    PROVE  Orderly(after, o2, due, R)
<1> DEFINE m == [sender_pid |-> c, size |-> size, data |-> [from |-> c, re |-> req]]
<1>1. PICK T : Holds(box, T) /\ Apart(T, R)
  BY DEF Orderly
<1>2. s \in Pid /\ s \notin Clients /\ c \in Pid
  BY ServersAndClients
<1>3. m.data.from = c /\ m.data.re = req
  OBVIOUS
<1>4. after.mailbox = [box.mailbox EXCEPT ![s] = Append(@, m)]
  BY DEF Sent
<1>5. Holds(after, With(T, s, m)) /\ Pooled(after)
  BY <1>1, SentHolds, SentPooled DEF Orderly
<1> HIDE DEF m
<1>6. Apart(With(T, s, m), R)
  BY <1>1, <1>2, <1>3, ApartWith
<1>7. /\ \A p \in Pid \ {s} : after.mailbox[p] = box.mailbox[p]
      /\ after.mailbox[s] = Append(box.mailbox[s], m)
  BY <1>1, <1>2, <1>4 DEF Holds
<1>8. o[c][s] \in Seq(R[s]) /\ Append(o[c][s], req) \in Seq(R[s])
  <2> DEFINE reqs == o[c][s]
             Rs   == R[s]
  <2>1. reqs \in Seq(Rs) /\ req \in Rs
    BY DEF Orderly
  <2> HIDE DEF reqs, Rs
  <2>2. Append(reqs, req) \in Seq(Rs)
    BY <2>1, AppendFacts
  <2> QED
    BY <2>1, <2>2 DEF reqs, Rs
<1>9. /\ o2 = [d \in Clients |-> [t \in Servers |-> o2[d][t]]]
      /\ \A d \in Clients, t \in Servers : d # c \/ t # s => o2[d][t] = o[d][t]
      /\ o2[c][s] = IF req \in due[s] THEN Append(o[c][s], req) ELSE o[c][s]
  <2>1. o = [d \in Clients |-> [t \in Servers |-> o[d][t]]]
    BY DEF Orderly
  <2> QED
    BY <2>1
<1>10. \A d \in Clients, t \in Servers : o2[d][t] \in Seq(R[t])
  BY <1>8, <1>9 DEF Orderly
<1>11. ASSUME NEW d \in Clients, NEW t \in Servers
       PROVE  Expects(after.mailbox, o2, d, t, due[t])
  <2> DEFINE mb   == box.mailbox
             mb2  == after.mailbox
             reqs == o[d][s]
             D    == due[s]
  <2>1. Expects(mb, o, d, t, due[t])
    BY DEF Orderly
  <2>2. CASE t # s
    <3>1. o2[d][t] = o[d][t]
      BY <1>9, <2>2
    <3>2. mb2[d] = mb[d] /\ mb2[t] = mb[t]
      BY <1>2, <1>7, <2>2, ServersAndClients
    <3> HIDE DEF mb, mb2
    <3>3. Between(mb2, d, t) = Between(mb, d, t)
      BY <3>2 DEF Between
    <3>4. Concern(mb2, d, t, due[t]) = Concern(mb, d, t, due[t])
      BY <3>2, <3>3 DEF Concern
    <3>5. Expects(mb2, o2, d, t, due[t])
      BY <2>1, <3>1, <3>3, <3>4 DEF Expects
    <3> QED
      BY <3>5 DEF mb2
  <2>3. CASE t = s
    <3>1. /\ mb[d] \in Seq(T[d]) /\ mb[s] \in Seq(T[s]) /\ reqs \in Seq(R[s])
          /\ Lists(reqs, Between(mb, d, s), Concern(mb, d, s, D))
      BY <1>1, <1>2, <2>1, <2>3, ServersAndClients DEF Holds, Orderly, Expects
    <3>2. mb2[d] = mb[d] /\ mb2[s] = Append(mb[s], m)
      BY <1>2, <1>7, ServersAndClients
    <3> HIDE DEF mb, mb2, reqs, D
    <3> DEFINE Rs == R[s]
               M  == T[d]
               N  == T[s]
    <3>3. /\ mb[d] \in Seq(M) /\ mb[s] \in Seq(N) /\ reqs \in Seq(Rs) /\ req \in Rs
          /\ Lists(reqs, Between(mb, d, s), Concern(mb, d, s, D))
      BY <3>1
    <3> HIDE DEF Rs, M, N
    <3>6. /\ m.data.from = d /\ m.data.re \in D \cap Rs =>
               Lists(Append(reqs, m.data.re), Between(mb2, d, s), Concern(mb2, d, s, D))
          /\ ~(m.data.from = d /\ m.data.re \in D) =>
               Lists(reqs, Between(mb2, d, s), Concern(mb2, d, s, D))
      BY <3>2, <3>3, RequestSent
    <3>4. CASE d = c /\ req \in D
      BY <1>3, <1>9, <2>3, <3>3, <3>4, <3>6 DEF mb2, reqs, D, Expects
    <3>5. CASE ~(d = c /\ req \in D)
      <4>1. o2[d][s] = o[d][s]
        BY <1>9, <3>5 DEF D
      <4> QED
        BY <1>3, <2>3, <3>5, <3>6, <4>1 DEF mb2, reqs, D, Expects
    <3> QED
      BY <3>4, <3>5
  <2> QED
    BY <2>2, <2>3
<1> QED
  BY <1>5, <1>6, <1>9, <1>10, <1>11 DEF Orderly

(* c takes a message.                                                      *)
LEMMA TakenOrderly ==
    ASSUME NEW due, NEW R, NEW box, NEW o, Orderly(box, o, due, R),
           NEW c \in Clients, HasMail(box, c),
           NEW after, after = Taken(box, c),
           NEW o2, o2 = Settled(o, c, Oldest(box, c))
    PROVE  Orderly(after, o2, due, R)
<1>1. PICK T : Holds(box, T) /\ Apart(T, R)
  BY DEF Orderly
<1>2. c \in Pid
  BY ClientsAssumption
<1>3. after.mailbox = [box.mailbox EXCEPT ![c] = Tail(@)]
  BY DEF Taken
<1>4. Holds(after, T) /\ Pooled(after)
  BY <1>1, <1>2, TakenHolds, TakenPooled DEF Orderly
<1>5. /\ \A p \in Pid \ {c} : after.mailbox[p] = box.mailbox[p]
      /\ after.mailbox[c] = Tail(box.mailbox[c])
  BY <1>1, <1>2, <1>3 DEF Holds
<1>6. box.mailbox[c] \in Seq(T[c]) /\ box.mailbox[c] # << >>
  BY <1>1, <1>2 DEF Holds, HasMail
<1>7. PICK s \in Servers : Head(box.mailbox[c]).data.from = s
  <2>1. Head(box.mailbox[c]) \in T[c]
    BY <1>6, TailFacts
  <2> QED
    BY <1>1, <2>1 DEF Apart
<1>8. o2 = [o EXCEPT ![c][s] = Tail(@)]
  BY <1>7 DEF Settled, Oldest
<1>9. ASSUME NEW d \in Clients, NEW t \in Servers
      PROVE  /\ ~(d = c /\ t = s) =>
                    Lists(o[d][t], Between(after.mailbox, d, t),
                          Concern(after.mailbox, d, t, due[t]))
             /\ d = c /\ t = s =>
                    /\ o[d][t] # << >>
                    /\ Lists(Tail(o[d][t]), Between(after.mailbox, d, t),
                             Concern(after.mailbox, d, t, due[t]))
  <2> DEFINE mb   == box.mailbox
             mb2  == after.mailbox
             reqs == o[d][t]
             D    == due[t]
  <2>1. /\ mb[d] \in Seq(T[d]) /\ mb[t] \in Seq(T[t]) /\ reqs \in Seq(R[t])
        /\ Lists(reqs, Between(mb, d, t), Concern(mb, d, t, D))
    BY <1>1, <1>2, ServersAndClients DEF Holds, Orderly, Expects
  <2>2. mb2[t] = mb[t] /\ mb2[d] = IF d = c THEN Tail(mb[d]) ELSE mb[d]
    BY <1>2, <1>5, ServersAndClients
  <2>3. d = c => mb[d] # << >> /\ Head(mb[d]).data.from = s
    BY <1>6, <1>7
  <2> HIDE DEF mb, mb2, reqs, D
  <2>4. CASE d = c
    <3>1. TakesAnswer(mb, mb2, d, t)
      BY <2>2, <2>3, <2>4 DEF TakesAnswer
    <3> DEFINE R2 == R[t]
               M  == T[d]
               N  == T[t]
    <3> HIDE DEF R2, M, N
    <3>2. mb[d] \in Seq(M) /\ mb[t] \in Seq(N) /\ reqs \in Seq(R2)
      BY <2>1 DEF R2, M, N
    <3>3. /\ Head(mb[d]).data.from = t =>
               /\ reqs # << >>
               /\ Lists(Tail(reqs), Between(mb2, d, t), Concern(mb2, d, t, D))
          /\ Head(mb[d]).data.from # t =>
               Lists(reqs, Between(mb2, d, t), Concern(mb2, d, t, D))
      BY <2>1, <3>1, <3>2, AnswerTaken
    <3> QED
      BY <2>3, <2>4, <3>3 DEF mb2, reqs, D
  <2>5. CASE d # c
    <3>1. Between(mb2, d, t) = Between(mb, d, t) /\ mb2[d] = mb[d]
      BY <2>2, <2>5 DEF Between
    <3>2. Concern(mb2, d, t, D) = Concern(mb, d, t, D)
      BY <3>1 DEF Concern
    <3> QED
      BY <2>1, <2>5, <3>1, <3>2 DEF mb2, reqs, D
  <2> QED
    BY <2>4, <2>5
<1>10. o[c][s] \in Seq(R[s]) /\ o[c][s] # << >>
  BY <1>9 DEF Orderly
<1>11. Tail(o[c][s]) \in Seq(R[s])
  <2> DEFINE reqs == o[c][s]
             Rs   == R[s]
  <2>1. reqs \in Seq(Rs) /\ reqs # << >>
    BY <1>10
  <2> HIDE DEF reqs, Rs
  <2>2. Tail(reqs) \in Seq(Rs)
    BY <2>1, TailFacts
  <2> QED
    BY <2>2 DEF reqs, Rs
<1>12. /\ o2 = [d \in Clients |-> [t \in Servers |-> o2[d][t]]]
       /\ \A d \in Clients, t \in Servers : ~(d = c /\ t = s) => o2[d][t] = o[d][t]
       /\ o2[c][s] = Tail(o[c][s])
  <2> DEFINE rest == Tail(o[c][s])
  <2>1. o = [d \in Clients |-> [t \in Servers |-> o[d][t]]]
    BY DEF Orderly
  <2>2. o2 = [o EXCEPT ![c][s] = rest]
    BY <1>8
  <2> HIDE DEF rest
  <2>3. o2 = [d \in Clients |-> [t \in Servers |->
                 IF d = c /\ t = s THEN rest ELSE o[d][t]]]
    BY <2>1, <2>2
  <2> QED
    BY <2>3 DEF rest
<1>13. \A d \in Clients, t \in Servers : o2[d][t] \in Seq(R[t])
  BY <1>11, <1>12 DEF Orderly
<1>14. ASSUME NEW d \in Clients, NEW t \in Servers
       PROVE  Expects(after.mailbox, o2, d, t, due[t])
  BY <1>9, <1>12 DEF Expects
<1> QED
  BY <1>1, <1>4, <1>12, <1>13, <1>14 DEF Orderly

(* s takes a request, and answers it if that is due: the slot the request  *)
(* was in is free by then.                                                 *)
LEMMA ServedOrderly ==
    ASSUME NEW s \in Servers, NEW due, NEW R, NEW box, NEW o, Orderly(box, o, due, R),
           HasMail(box, s), NEW m, m = Oldest(box, s),
           NEW after,
           m.data.re \notin due[s] => after = Taken(box, s),
           NEW size, NEW data, data.from = s, data.re = m.data.re,
           m.data.re \in due[s] =>
                size \in Size /\ after = Sent(Taken(box, s), s, m.data.from, size, data)
    PROVE  Orderly(after, o, due, R)
<1> DEFINE rest  == Taken(box, s)
           c     == m.data.from
           reply == [sender_pid |-> s, size |-> size, data |-> data]
           Does  == m.data.re \in due[s]
<1>1. PICK T : Holds(box, T) /\ Apart(T, R)
  BY DEF Orderly
<1>2. s \in Pid /\ s \notin Clients
  BY ServersAndClients
<1>3. /\ rest.mailbox = [box.mailbox EXCEPT ![s] = Tail(@)]
      /\ rest.free = box.free + 1 /\ box.free \in Nat
  BY DEF Taken, Orderly, Pooled
<1>4. Holds(rest, T) /\ Pooled(rest)
  BY <1>1, <1>2, TakenHolds, TakenPooled DEF Orderly
<1>5. /\ \A p \in Pid \ {s} : rest.mailbox[p] = box.mailbox[p]
      /\ rest.mailbox[s] = Tail(box.mailbox[s])
  BY <1>1, <1>2, <1>3 DEF Holds
<1>6. /\ box.mailbox[s] \in Seq(T[s]) /\ box.mailbox[s] # << >>
      /\ m = Head(box.mailbox[s])
  BY <1>1, <1>2 DEF Holds, HasMail, Oldest
<1>7. c \in Clients /\ c \in Pid
  <2>1. m \in T[s]
    BY <1>6, TailFacts
  <2> QED
    BY <1>1, <2>1, ServersAndClients DEF Apart
<1> HIDE DEF rest, c, Does
<1>8. /\ Pooled(after)
      /\ \E U : Holds(after, U) /\ Apart(U, R)
      /\ \A d \in Pid : after.mailbox[d] =
            IF d = c /\ Does THEN Append(box.mailbox[d], reply) ELSE rest.mailbox[d]
  <2>1. CASE ~Does
    <3>1. after = rest
      BY <2>1 DEF rest, Does
    <3> QED
      BY <1>1, <1>4, <2>1, <3>1
  <2>2. CASE Does
    <3>1. after = Sent(rest, s, c, size, data) /\ size \in Size
      BY <2>2 DEF rest, c, Does
    <3>2. Accepts(rest, c, size)
      BY <1>3, <1>7, <3>1 DEF Accepts
    <3>3. after.mailbox = [rest.mailbox EXCEPT ![c] = Append(@, reply)]
      BY <3>1, <3>2 DEF Sent
    <3>4. Pooled(after)
      BY <1>4, <3>1, SentPooled
    <3> HIDE DEF reply
    <3>5. Holds(after, With(T, c, reply))
      BY <1>4, <3>1, SentHolds DEF reply
    <3>6. reply.data.from = s
      BY DEF reply
    <3>7. Apart(With(T, c, reply), R)
      BY <1>1, <1>7, <3>6, ApartWith
    <3>8. /\ \A p \in Pid \ {c} : after.mailbox[p] = rest.mailbox[p]
          /\ after.mailbox[c] = Append(rest.mailbox[c], reply)
      BY <1>4, <1>7, <3>3 DEF Holds
    <3>9. rest.mailbox[c] = box.mailbox[c]
      BY <1>2, <1>5, <1>7
    <3> QED
      BY <2>2, <3>4, <3>5, <3>7, <3>8, <3>9
  <2> QED
    BY <2>1, <2>2
<1>9. reply.data.from = s /\ reply.data.re = m.data.re
  OBVIOUS
<1> HIDE DEF reply
<1>10. ASSUME NEW d \in Clients, NEW t \in Servers
       PROVE  Expects(after.mailbox, o, d, t, due[t])
  <2> DEFINE mb   == box.mailbox
             mb2  == after.mailbox
             reqs == o[d][t]
             D    == due[t]
  <2>1. /\ mb[d] \in Seq(T[d]) /\ mb[t] \in Seq(T[t])
        /\ Lists(reqs, Between(mb, d, t), Concern(mb, d, t, D))
        /\ Expects(mb, o, d, t, D)
    BY <1>1, <1>2, ServersAndClients DEF Holds, Orderly, Expects
  <2>2. /\ t \in Pid /\ t # c /\ d \in Pid /\ d # s /\ d # t
        /\ mb2[t] = IF t = s THEN Tail(mb[t]) ELSE mb[t]
        /\ mb2[d] = IF d = c /\ Does THEN Append(mb[d], reply) ELSE mb[d]
    <3>1. d \in Pid /\ d # s /\ t # c /\ t \in Pid /\ d # t
      BY <1>2, <1>7, ServersAndClients
    <3> QED
      BY <1>5, <1>8, <3>1
  <2>3. mb[s] # << >> /\ Head(mb[s]) = m
    BY <1>6
  <2> HIDE DEF mb, mb2, reqs, D
  <2>4. CASE t = s /\ d = c /\ Does
    <3>1. Answers(mb, mb2, d, t, D, reply)
      BY <1>9, <2>2, <2>3, <2>4 DEF Answers, c, Does, D
    <3>2. Lists(reqs, Between(mb2, d, t), Concern(mb2, d, t, D))
      BY <2>1, <3>1, RequestAnswered
    <3> QED
      BY <3>2 DEF mb2, reqs, D, Expects
  <2>5. CASE t = s /\ ~(d = c /\ Does)
    <3>1. TakesOther(mb, mb2, d, t, D)
      BY <2>2, <2>3, <2>5 DEF TakesOther, c, Does, D
    <3>2. Lists(reqs, Between(mb2, d, t), Concern(mb2, d, t, D))
      BY <2>1, <3>1, RequestTaken
    <3> QED
      BY <3>2 DEF mb2, reqs, D, Expects
  <2>6. CASE t # s /\ d = c /\ Does
    <3>1. GetsOther(mb, mb2, d, t, reply)
      BY <1>9, <2>2, <2>6 DEF GetsOther
    <3>2. Lists(reqs, Between(mb2, d, t), Concern(mb2, d, t, D))
      BY <2>1, <3>1, OtherAnswered
    <3> QED
      BY <3>2 DEF mb2, reqs, D, Expects
  <2>7. CASE t # s /\ ~(d = c /\ Does)
    <3>1. mb2[d] = mb[d] /\ mb2[t] = mb[t]
      BY <2>2, <2>7
    <3>2. Expects(mb2, o, d, t, D)
      BY <2>1, <3>1, ExpectsSame
    <3> QED
      BY <3>2 DEF mb2, D
  <2> QED
    BY <2>4, <2>5, <2>6, <2>7
<1> QED
  BY <1>8, <1>10 DEF Orderly

(* A client calls (a send, then a receive), posts or collects.             *)
LEMMA ClientOrderly ==
    ASSUME NEW s \in Servers, NEW due, NEW R, Orderly(ipc, owed, due, R),
           NEW c \in Clients,
           \/ \E req \in R[s] : \/ call(c, s, req, req \in due[s])
                                \/ call_fails(c, s, req)
                                \/ post(c, s, req, req \in due[s])
           \/ collect(c)
    PROVE  Orderly(ipc', owed', due, R)
<1> DEFINE sent(req)  == AfterSend(c, s, req)
           owing(req) == Owing(c, s, req, req \in due[s])
           Fine(box, o) == Orderly(box, o, due, R)
<1>1. ASSUME NEW req \in R[s], Accepts(ipc, s, req.size)
      PROVE  Fine(sent(req), owing(req))
  <2>1. sent(req) = Sent(ipc, c, s, req.size, [from |-> c, re |-> req])
    BY DEF AfterSend
  <2>2. owing(req) = IF req \in due[s] THEN [owed EXCEPT ![c][s] = Append(@, req)] ELSE owed
    BY DEF Owing
  <2> HIDE DEF sent, owing
  <2> QED
    BY <1>1, <2>1, <2>2, SentOrderly
<1>2. ASSUME NEW box, NEW o, Fine(box, o), HasMail(box, c)
      PROVE  Fine(Taken(box, c), Settled(o, c, Oldest(box, c)))
  BY <1>2, TakenOrderly
<1>3. Fine(ipc, owed)
  OBVIOUS
<1>4. ASSUME NEW req \in R[s], call(c, s, req, req \in due[s]) PROVE Fine(ipc', owed')
  <2>1. Accepts(ipc, s, req.size) /\ ipc' = Taken(sent(req), c)
    BY <1>4 DEF call
  <2>2. owed' = IF HasMail(sent(req), c) THEN Settled(owing(req), c, Oldest(sent(req), c))
                ELSE owing(req)
    BY <1>4 DEF call
  <2>3. ~HasMail(sent(req), c) => Taken(sent(req), c) = sent(req)
    BY DEF Taken
  <2> HIDE DEF sent, owing, Fine
  <2> QED
    BY <1>1, <1>2, <2>1, <2>2, <2>3
<1>5. ASSUME NEW req \in R[s], call_fails(c, s, req) PROVE Fine(ipc', owed')
  <2>1. ipc' = ipc /\ owed' = owed
    BY <1>5 DEF call_fails
  <2> QED
    BY <1>3, <2>1
<1>6. ASSUME NEW req \in R[s], post(c, s, req, req \in due[s]) PROVE Fine(ipc', owed')
  <2>1. Accepts(ipc, s, req.size) /\ ipc' = sent(req) /\ owed' = owing(req)
    BY <1>6 DEF post
  <2> HIDE DEF sent, owing, Fine
  <2> QED
    BY <1>1, <2>1
<1>7. ASSUME collect(c) PROVE Fine(ipc', owed')
  <2>1. HasMail(ipc, c) /\ ipc' = Taken(ipc, c) /\ owed' = Settled(owed, c, Oldest(ipc, c))
    BY <1>7 DEF collect
  <2> HIDE DEF Fine
  <2> QED
    BY <1>2, <1>3, <2>1
<1> HIDE DEF Fine
<1>8. Fine(ipc', owed')
  BY <1>4, <1>5, <1>6, <1>7
<1> QED
  BY <1>8 DEF Fine
=============================================================================
