----------------------------- MODULE HeapProofs -----------------------------
(* The blocks of the heap, for any heap, header and alignment and any       *)
(* order of requests.                                                       *)
EXTENDS Heap, FiniteSetTheorems, TLAPS

Ends(h, b) == b + HEADER + h[b].size

(* Headers of the right form, all in the heap.                              *)
Formed(h) ==
    /\ h \in [DOMAIN h -> [size : Nat, free : BOOLEAN, next : Int]]
    /\ DOMAIN h \subseteq Address /\ START \in DOMAIN h
Tiled(h) == \A b \in Blocks(h) :
    /\ h[b].next \in Blocks(h) \cup {NULL}
    /\ Ends(h, b) = IF h[b].next = NULL THEN START + HEAP ELSE h[b].next
StaleFree(h) == \A a \in DOMAIN h \ Blocks(h) : h[a].free
Good(h)   == Formed(h) /\ Tiled(h) /\ StaleFree(h)
Merged(h) == \A b \in Blocks(h) : h[b].free /\ h[b].next # NULL => ~h[h[b].next].free
Used(h)   == {b \in Blocks(h) : ~h[b].free}

IInv == Good(hdr) /\ Merged(hdr) /\ Used(hdr) = DOMAIN live

----------------------------------------------------------------------------
LEMMA Numbers ==
    /\ HEAP \in Nat /\ HEADER \in Nat \ {0} /\ ALIGN \in Nat \ {0} /\ UINT \in Nat \ {0}
    /\ SLACK \in Nat /\ HEADER < HEAP /\ Requests \subseteq Nat
    /\ START = 0 /\ NULL = -1 /\ Address = 0..(HEAP - 1)
BY HeapAssumption DEF START, NULL, Address

(* A rounded size is a size.                                                *)
LEMMA AlignNat == ASSUME NEW n \in Nat PROVE Align(n) \in Nat
<1>1. (n + ALIGN - 1) % UINT \in Nat
  BY Numbers
<1>2. ((n + ALIGN - 1) % UINT) \div ALIGN \in Nat
  BY Numbers, <1>1
<1> QED
  BY Numbers, <1>2 DEF Align

LEMMA AlignMeets == ASSUME NEW n \in Nat, n + ALIGN <= UINT PROVE Align(n) >= n
<1> DEFINE m == n + ALIGN - 1
           q == m \div ALIGN
<1>1. (n + ALIGN - 1) % UINT = m
  BY Numbers
<1>2. q \in Nat /\ m = (q * ALIGN) + (m % ALIGN) /\ m % ALIGN \in 0..(ALIGN - 1)
  BY Numbers
<1>3. Align(n) = q * ALIGN
  BY <1>1 DEF Align
<1>4. q * ALIGN \in Nat
  BY <1>2, Numbers
<1> HIDE DEF q
<1> QED
  BY Numbers, <1>2, <1>3, <1>4

----------------------------------------------------------------------------
(* The list: what Blocks says of it without a walk.                         *)

Closed(h, S) ==
    START \in S /\ (\A x \in S : h[x].next \in S \cup {NULL})

LEMMA BlocksAre ==
    ASSUME NEW h
    PROVE  Blocks(h) = {a \in DOMAIN h : \A S \in SUBSET DOMAIN h : Closed(h, S) => a \in S}
BY DEF Blocks, Visited, Closed

(* The blocks are in every closed set of headers.                           *)
LEMMA Least ==
    ASSUME NEW h, NEW S \in SUBSET DOMAIN h, Closed(h, S)
    PROVE  Blocks(h) \subseteq S
BY BlocksAre

LEMMA BlocksEqual ==
    ASSUME NEW h, NEW B \in SUBSET DOMAIN h, Closed(h, B),
           \A S \in SUBSET DOMAIN h : Closed(h, S) => B \subseteq S
    PROVE  Blocks(h) = B
BY BlocksAre

LEMMA StartListed ==
    ASSUME NEW h, START \in DOMAIN h
    PROVE  START \in Blocks(h)
BY BlocksAre DEF Closed

LEMMA BlocksClosed ==
    ASSUME NEW h, Good(h)
    PROVE  Blocks(h) \subseteq DOMAIN h /\ Closed(h, Blocks(h)) /\ Blocks(h) \subseteq Int
<1>1. Blocks(h) \subseteq DOMAIN h
  BY BlocksAre
<1> QED
  BY <1>1, StartListed, Numbers DEF Closed, Good, Tiled, Formed

(* What first fit finds is a free block that is large enough.               *)
LEMMA FirstFitFits ==
    ASSUME NEW n, FirstFit(n) # NULL
    PROVE  LET b == FirstFit(n)
           IN b \in Blocks(hdr) /\ hdr[b].free /\ hdr[b].size >= Align(n)
<1> DEFINE fits == {a \in DOMAIN hdr : hdr[a].free /\ hdr[a].size >= Align(n)}
           hits == Visited(hdr, fits) \cap fits
<1>1. hits # {} /\ FirstFit(n) = CHOOSE b \in hits : TRUE
  BY DEF FirstFit
<1>2. FirstFit(n) \in hits
  BY <1>1
<1>3. Visited(hdr, fits) \subseteq Blocks(hdr)
  BY DEF Blocks, Visited
<1> QED
  BY <1>2, <1>3

----------------------------------------------------------------------------
(* Blocks do not overlap.  a separates the blocks before it from those      *)
(* behind it; the first does, and each hands that on to its successor.      *)

Apart(h, a) == \A b \in Blocks(h) : /\ b < a => Ends(h, b) <= a
                                    /\ b > a => b >= Ends(h, a)

LEMMA StartApart == ASSUME NEW h, Good(h) PROVE Apart(h, START)
<1> DEFINE S == {x \in Blocks(h) : x = START \/ x >= Ends(h, START)}
<1>1. Blocks(h) \subseteq DOMAIN h /\ Closed(h, Blocks(h)) /\ Blocks(h) \subseteq Int
  BY BlocksClosed
<1>2. Ends(h, START) \in Int /\ \A x \in Blocks(h) : x >= 0 /\ h[x].next \in Int /\ h[x].size \in Nat
  BY <1>1, Numbers DEF Good, Formed, Ends
<1>3. \A x \in Blocks(h) : h[x].next # NULL => h[x].next = x + HEADER + h[x].size
  BY <1>1 DEF Good, Tiled, Ends
<1>4. Closed(h, S)
  BY <1>1, <1>2, <1>3, Numbers DEF Closed, Ends
<1>5. Blocks(h) \subseteq S
  BY <1>1, <1>4, Least
<1> QED
  BY <1>1, <1>2, <1>5, Numbers DEF Apart

LEMMA NextApart ==
    ASSUME NEW h, Good(h), NEW a \in Blocks(h), Apart(h, a), h[a].next # NULL
    PROVE  Apart(h, h[a].next)
<1> DEFINE c == h[a].next
           S == {x \in Blocks(h) : x <= c \/ x >= Ends(h, c)}
<1>1. Blocks(h) \subseteq DOMAIN h /\ Closed(h, Blocks(h)) /\ Blocks(h) \subseteq Int
  BY BlocksClosed
<1>2. \A x \in Blocks(h) : x >= 0 /\ h[x].next \in Int /\ h[x].size \in Nat
  BY <1>1, Numbers DEF Good, Formed
<1>3. \A x \in Blocks(h) : h[x].next # NULL => h[x].next = x + HEADER + h[x].size
  BY <1>1 DEF Good, Tiled, Ends
<1>4. c \in Blocks(h) /\ c = Ends(h, a) /\ a < c
  BY <1>1, <1>2, <1>3, Numbers DEF Closed, Ends
<1>5. \A x \in Blocks(h) : x < c => Ends(h, x) <= c
  BY <1>1, <1>2, <1>4, Numbers DEF Apart, Ends
<1>6. Closed(h, S)
  <2>1. START \in S
    BY <1>1, <1>2, <1>4, Numbers DEF Closed
  <2>2. ASSUME NEW x \in S, h[x].next # NULL PROVE h[x].next \in S
    <3>1. h[x].next \in Blocks(h) /\ h[x].next = Ends(h, x) /\ x \in Int /\ h[x].next > x
      BY <1>1, <1>2, <1>3, <2>2, Numbers DEF Closed, Ends
    <3>2. CASE x < c
      BY <1>5, <3>1, <3>2
    <3>3. CASE x = c
      BY <3>1, <3>3, <1>2, Numbers DEF Ends
    <3>4. CASE x >= Ends(h, c)
      BY <3>1, <3>4, <1>2, <1>4, <1>1, Numbers DEF Ends
    <3> QED
      BY <3>1, <3>2, <3>3, <3>4, <1>4, <1>1
  <2> QED
    BY <2>1, <2>2 DEF Closed
<1>7. Blocks(h) \subseteq S
  BY <1>1, <1>6, Least
<1> QED
  BY <1>1, <1>2, <1>4, <1>5, <1>7, Numbers DEF Apart, Ends

LEMMA AllApart == ASSUME NEW h, Good(h) PROVE \A a \in Blocks(h) : Apart(h, a)
<1> DEFINE S == {a \in Blocks(h) : Apart(h, a)}
<1>1. Blocks(h) \subseteq DOMAIN h /\ Closed(h, Blocks(h))
  BY BlocksClosed
<1>2. Closed(h, S)
  BY <1>1, StartApart, NextApart DEF Closed
<1> QED
  BY <1>1, <1>2, Least

(* What the rest needs of the order: no block begins inside another, every  *)
(* block ends in the heap, and no two have the same successor.              *)
LEMMA Ordered ==
    ASSUME NEW h, Good(h), NEW a \in Blocks(h)
    PROVE  /\ a \in 0..(HEAP - 1) /\ h[a].size \in Nat /\ Ends(h, a) \in a + HEADER .. HEAP
           /\ h[a].next # NULL => h[a].next = Ends(h, a) /\ h[a].next > a
           /\ \A b \in Blocks(h) : b > a => b >= Ends(h, a)
           /\ \A b \in Blocks(h) : h[b].next = h[a].next => b = a
<1>1. Blocks(h) \subseteq DOMAIN h /\ Closed(h, Blocks(h)) /\ Blocks(h) \subseteq Int
  BY BlocksClosed
<1>2. \A x \in Blocks(h) : x \in 0..(HEAP - 1) /\ h[x].size \in Nat
  BY <1>1, Numbers DEF Good, Formed
<1>5. \A x \in Blocks(h) :
        /\ Ends(h, x) \in Int /\ Ends(h, x) >= x + HEADER
        /\ h[x].next # NULL => h[x].next \in Blocks(h) /\ h[x].next = Ends(h, x)
        /\ h[x].next = NULL => Ends(h, x) = HEAP
  <2> SUFFICES ASSUME NEW x \in Blocks(h)
               PROVE  /\ Ends(h, x) \in Int /\ Ends(h, x) >= x + HEADER
                      /\ h[x].next # NULL => h[x].next \in Blocks(h) /\ h[x].next = Ends(h, x)
                      /\ h[x].next = NULL => Ends(h, x) = HEAP
    OBVIOUS
  <2>1. Ends(h, x) \in Int /\ Ends(h, x) >= x + HEADER
    BY <1>2, Numbers DEF Ends
  <2>2. /\ h[x].next \in Blocks(h) \cup {NULL}
        /\ Ends(h, x) = IF h[x].next = NULL THEN START + HEAP ELSE h[x].next
    BY DEF Good, Tiled
  <2> QED
    BY <2>1, <2>2, Numbers
<1>3. Apart(h, a)
  BY AllApart
<1>4. \A b \in Blocks(h) : h[b].next = h[a].next => b = a
  <2> SUFFICES ASSUME NEW b \in Blocks(h), h[b].next = h[a].next PROVE b = a
    OBVIOUS
  <2>1. Ends(h, b) = Ends(h, a)
    BY <1>5
  <2>2. Ends(h, b) > b /\ Ends(h, a) > a
    BY <1>2, <1>5, Numbers
  <2>3. ~(b < a) /\ ~(b > a)
    BY <1>2, <1>3, <1>5, <2>1, <2>2 DEF Apart
  <2> QED
    BY <1>2, <2>3
<1> QED
  BY <1>2, <1>3, <1>4, <1>5, Numbers DEF Apart

----------------------------------------------------------------------------
(* Freeing.                                                                 *)

(* Marking a block changes no link and no size.                             *)
LEMMA FreedGood ==
    ASSUME NEW h, Good(h), NEW b \in Blocks(h)
    PROVE  /\ Good(Freed(h, b)) /\ Blocks(Freed(h, b)) = Blocks(h)
           /\ \A x \in DOMAIN h : x # b => Freed(h, b)[x] = h[x]
           /\ Freed(h, b)[b].free
           /\ Freed(h, b)[b].next = h[b].next /\ Freed(h, b)[b].size = h[b].size
<1> DEFINE k == Freed(h, b)
<1>1. Blocks(h) \subseteq DOMAIN h /\ Closed(h, Blocks(h))
  BY BlocksClosed
<1>2. Formed(k) /\ DOMAIN k = DOMAIN h
  BY <1>1 DEF Good, Formed, Freed
<1>3. \A x \in DOMAIN h : /\ k[x].next = h[x].next /\ k[x].size = h[x].size
                          /\ x # b => k[x] = h[x]
                          /\ k[b].free
  BY <1>1 DEF Good, Formed, Freed
<1>4. \A S \in SUBSET DOMAIN h : Closed(k, S) <=> Closed(h, S)
  BY <1>3 DEF Closed
<1>5. Blocks(k) = Blocks(h)
  BY <1>2, <1>4, BlocksAre
<1>6. Tiled(k)
  BY <1>1, <1>3, <1>5 DEF Good, Tiled, Ends
<1>7. StaleFree(k)
  BY <1>1, <1>2, <1>3, <1>5 DEF Good, StaleFree
<1> QED
  BY <1>1, <1>2, <1>3, <1>5, <1>6, <1>7 DEF Good

(* Merging two free neighbours takes the second out of the list.            *)
LEMMA MergeGood ==
    ASSUME NEW h, Good(h), NEW a \in Blocks(h), h[a].next # NULL,
           h[a].free, h[h[a].next].free
    PROVE  LET k == Merge(h, a)
           IN /\ Good(k) /\ Blocks(k) = Blocks(h) \ {h[a].next}
              /\ a # h[a].next
              /\ \A x \in DOMAIN h : k[x].free = h[x].free /\ (x # a => k[x] = h[x])
              /\ k[a].next = h[h[a].next].next
<1> DEFINE c == h[a].next
           k == Merge(h, a)
           B == Blocks(h) \ {c}
<1>1. Blocks(h) \subseteq DOMAIN h /\ Closed(h, Blocks(h)) /\ Blocks(h) \subseteq Int
  BY BlocksClosed
<1>2. c \in Blocks(h) /\ c = Ends(h, a) /\ c > a /\ a \in Int /\ c # START
  BY <1>1, Ordered, Numbers DEF Closed
<1>3. h[a].size \in Nat /\ h[c].size \in Nat
  BY <1>2, Ordered
<1>4. Formed(k) /\ DOMAIN k = DOMAIN h
  <2>1. \A x, y \in Nat : x + HEADER + y \in Nat
    BY Numbers
  <2> QED
    BY <1>1, <1>2, <1>3, <2>1 DEF Good, Formed, Merge
<1>5. /\ \A x \in DOMAIN h : k[x].free = h[x].free /\ (x # a => k[x] = h[x])
      /\ k[a].next = h[c].next /\ k[a].size = h[a].size + HEADER + h[c].size
  BY <1>1, <1>2 DEF Good, Formed, Merge
<1>6. Closed(k, B)
  <2>1. START \in B
    BY <1>1, <1>2 DEF Closed
  <2>2. ASSUME NEW x \in B PROVE k[x].next \in B \cup {NULL}
    <3>1. CASE x = a
      <4>1. h[c].next \in Blocks(h) \cup {NULL} /\ h[c].next # c
        BY <1>1, <1>2, Ordered DEF Closed
      <4> QED
        BY <3>1, <4>1, <1>5
    <3>2. CASE x # a
      <4>1. k[x].next = h[x].next /\ h[x].next \in Blocks(h) \cup {NULL}
        BY <1>1, <1>5, <3>2 DEF Closed
      <4>2. h[x].next # c
        BY <3>2, Ordered
      <4> QED
        BY <4>1, <4>2
    <3> QED
      BY <3>1, <3>2
  <2> QED
    BY <2>1, <2>2 DEF Closed
<1>7. ASSUME NEW S \in SUBSET DOMAIN k, Closed(k, S) PROVE B \subseteq S
  <2> DEFINE T == IF a \in S THEN S \cup {c} ELSE S
  <2>1. T \in SUBSET DOMAIN h /\ START \in T
    BY <1>1, <1>2, <1>4, <1>7 DEF Closed
  <2>2. ASSUME NEW x \in T PROVE h[x].next \in T \cup {NULL}
    <3>1. CASE x = a
      BY <3>1, <2>2
    <3>2. CASE x = c /\ a \in S
      BY <3>2, <1>5, <1>7 DEF Closed
    <3>3. CASE x \in S /\ x # a
      BY <3>3, <1>4, <1>5, <1>7 DEF Closed
    <3> QED
      BY <2>2, <3>1, <3>2, <3>3
  <2>3. Closed(h, T)
    BY <2>1, <2>2 DEF Closed
  <2>4. Blocks(h) \subseteq T
    BY <2>1, <2>3, Least
  <2> QED
    BY <2>4
<1>8. Blocks(k) = B
  <2>1. B \in SUBSET DOMAIN k
    BY <1>1, <1>4
  <2> HIDE DEF B, k
  <2> QED
    BY <2>1, <1>6, <1>7, BlocksEqual
<1>9. Tiled(k)
  <2> SUFFICES ASSUME NEW x \in B
               PROVE  Ends(k, x) = IF k[x].next = NULL THEN START + HEAP ELSE k[x].next
    BY <1>6, <1>8 DEF Tiled, Closed
  <2>1. CASE x = a
    <3>1. Ends(k, a) = Ends(h, c)
      BY <1>2, <1>3, <1>5, Numbers DEF Ends
    <3>2. Ends(h, c) = IF h[c].next = NULL THEN START + HEAP ELSE h[c].next
      BY <1>2 DEF Good, Tiled
    <3> QED
      BY <2>1, <3>1, <3>2, <1>5
  <2>2. CASE x # a
    BY <2>2, <1>1, <1>5 DEF Good, Tiled, Ends
  <2> QED
    BY <2>1, <2>2
<1>10. StaleFree(k)
  BY <1>1, <1>2, <1>4, <1>5, <1>8 DEF Good, StaleFree
<1> QED
  BY <1>2, <1>4, <1>5, <1>8, <1>9, <1>10 DEF Good

(* What a free leaves: b is free, all other used blocks are as they were.   *)
LEMMA ReleasedGood ==
    ASSUME NEW h, Good(h), Merged(h), NEW b \in Used(h)
    PROVE  LET k == Released(h, b)
           IN /\ Good(k) /\ Merged(k) /\ Used(k) = Used(h) \ {b}
              /\ DOMAIN k = DOMAIN h
              /\ \A x \in Used(k) : k[x] = h[x]
<1> DEFINE f == Freed(h, b)
           m == MergeNext(f, b)
           k == MergePrev(m, b)
<1>1. b \in Blocks(h) /\ ~h[b].free /\ Blocks(h) \subseteq DOMAIN h
  BY BlocksClosed DEF Used
<1>2. /\ Good(f) /\ Blocks(f) = Blocks(h) /\ f[b].free /\ f[b].next = h[b].next
      /\ \A x \in DOMAIN h : x # b => f[x] = h[x]
  BY <1>1, FreedGood
<1>3. DOMAIN f = DOMAIN h
  BY DEF Freed
<1>4. Used(f) = Used(h) \ {b}
  BY <1>1, <1>2 DEF Used
<1>5. \A x \in Used(f) : f[x] = h[x]
  BY <1>1, <1>2, <1>4 DEF Used
(* Free neighbours are left only before b.                                  *)
<1>6. /\ Good(m) /\ DOMAIN m = DOMAIN h /\ b \in Blocks(m) /\ m[b].free
      /\ Used(m) = Used(f) /\ \A x \in Used(f) : m[x] = f[x]
      /\ \A x \in Blocks(m) : m[x].free /\ m[x].next # NULL /\ m[x].next # b
                              => ~m[m[x].next].free
  <2>1. CASE f[b].next # NULL /\ f[f[b].next].free
    <3> DEFINE c == f[b].next
    <3>1. m = Merge(f, b)
      BY <2>1 DEF MergeNext
    <3>2. /\ Good(m) /\ Blocks(m) = Blocks(f) \ {c} /\ b # c
          /\ \A x \in DOMAIN f : m[x].free = f[x].free /\ (x # b => m[x] = f[x])
          /\ m[b].next = f[c].next
      BY <1>1, <1>2, <2>1, <3>1, MergeGood
    <3>3. DOMAIN m = DOMAIN h
      BY <1>3, <3>1 DEF Merge
    <3>4. c \in Blocks(h) /\ c = h[b].next /\ f[c] = h[c] /\ h[c].free
      BY <1>1, <1>2, <2>1, <3>2 DEF Good, Tiled
    <3>5. Used(m) = Used(f)
      BY <1>1, <1>2, <1>3, <2>1, <3>2 DEF Used
    <3>6. \A x \in Used(f) : x # b /\ x \in DOMAIN f
      BY <1>1, <1>2, <1>3 DEF Used
    <3>7. ASSUME NEW x \in Blocks(m), m[x].free, m[x].next # NULL, m[x].next # b
          PROVE  ~m[m[x].next].free
      <4>1. x \in Blocks(h) /\ x # c /\ m[x].next \in Blocks(h)
        BY <3>2, <1>2, <3>7 DEF Good, Tiled
      <4>2. CASE x = b
        <5>1. m[x].next = h[c].next /\ ~h[h[c].next].free
          BY <4>2, <3>2, <3>4, <3>7 DEF Merged
        <5> QED
          BY <5>1, <4>1, <3>2, <1>1, <1>2, <1>3, <3>7
      <4>3. CASE x # b
        <5>1. m[x] = h[x]
          BY <4>1, <4>3, <3>2, <1>1, <1>2, <1>3
        <5>2. ~h[h[x].next].free
          BY <5>1, <4>1, <3>7 DEF Merged
        <5> QED
          BY <5>1, <5>2, <4>1, <3>2, <1>1, <1>2, <1>3, <3>7
      <4> QED
        BY <4>2, <4>3
    <3> QED
      BY <1>1, <1>2, <1>3, <3>2, <3>3, <3>5, <3>6, <3>7
  <2>2. CASE ~(f[b].next # NULL /\ f[f[b].next].free)
    <3>1. m = f
      BY <2>2 DEF MergeNext
    <3>2. ASSUME NEW x \in Blocks(f), f[x].free, f[x].next # NULL, f[x].next # b
          PROVE  ~f[f[x].next].free
      <4>1. CASE x = b
        BY <4>1, <2>2, <3>2
      <4>2. CASE x # b
        <5>1. f[x] = h[x] /\ h[x].next \in Blocks(h)
          BY <4>2, <1>1, <1>2, <3>2 DEF Good, Tiled
        <5>2. ~h[h[x].next].free
          BY <5>1, <1>2, <3>2 DEF Merged
        <5> QED
          BY <5>1, <5>2, <1>1, <1>2, <3>2
      <4> QED
        BY <4>1, <4>2
    <3> HIDE DEF f, m
    <3> QED
      BY <1>1, <1>2, <1>3, <3>1, <3>2
  <2> QED
    BY <2>1, <2>2
<1> HIDE DEF m, f
<1>7. /\ Good(k) /\ DOMAIN k = DOMAIN m /\ Merged(k)
      /\ Used(k) = Used(m) /\ \A x \in Used(m) : k[x] = m[x]
  <2> DEFINE prev == {a \in Blocks(m) : m[a].next = b /\ m[a].free}
             a == CHOOSE x \in prev : TRUE
  <2>1. CASE prev = {}
    <3>1. k = m
      BY <2>1 DEF MergePrev
    <3> HIDE DEF k
    <3> QED
      BY <1>6, <2>1, <3>1 DEF Merged
  <2>2. CASE prev # {}
    <3>1. k = Merge(m, a) /\ a \in prev
      BY <2>2 DEF MergePrev
    <3>2. a \in Blocks(m) /\ m[a].next = b /\ m[a].free /\ b # NULL
      BY <3>1, <1>1, Ordered, Numbers
    <3> HIDE DEF a, prev, k
    <3>3. /\ Good(k) /\ Blocks(k) = Blocks(m) \ {b} /\ a # b
          /\ \A x \in DOMAIN m : k[x].free = m[x].free /\ (x # a => k[x] = m[x])
          /\ k[a].next = m[b].next
      BY <1>6, <3>1, <3>2, MergeGood
    <3>4. DOMAIN k = DOMAIN m
      BY <3>1 DEF Merge
    <3>5. Blocks(m) \subseteq DOMAIN m
      BY <1>6, BlocksClosed
    <3>6. Used(k) = Used(m)
      BY <1>6, <3>3, <3>5 DEF Used
    <3>7. \A x \in Used(m) : x # a /\ x \in DOMAIN m
      BY <3>2, <3>5 DEF Used
    <3>8. Merged(k)
      <4> SUFFICES ASSUME NEW x \in Blocks(k), k[x].free, k[x].next # NULL
                   PROVE  ~k[k[x].next].free
        BY DEF Merged
      <4>1. k[x].next \in Blocks(m) /\ k[x].next # b
        BY <3>3 DEF Good, Tiled
      <4>2. CASE x = a
        <5>1. m[b].next # NULL /\ m[b].next # b
          BY <4>1, <4>2, <3>3
        <5>2. ~m[m[b].next].free
          BY <5>1, <1>6
        <5> QED
          BY <4>1, <4>2, <5>2, <3>3, <3>5
      <4>3. CASE x # a
        <5>1. k[x] = m[x] /\ x \in Blocks(m)
          BY <4>3, <3>3, <3>5
        <5>2. ~m[m[x].next].free
          BY <5>1, <4>1, <1>6
        <5> QED
          BY <4>1, <5>1, <5>2, <3>3, <3>5
      <4> QED
        BY <4>2, <4>3
    <3> QED
      BY <3>3, <3>4, <3>6, <3>7, <3>8
  <2> QED
    BY <2>1, <2>2
<1>8. Released(h, b) = k
  BY DEF Released, f, m
<1> HIDE DEF k
<1> QED
  BY <1>4, <1>5, <1>6, <1>7, <1>8

----------------------------------------------------------------------------
(* Handing out.                                                             *)

(* Headers that are not in the list may go.                                 *)
LEMMA DroppedGood ==
    ASSUME NEW h, Good(h), NEW D \in SUBSET DOMAIN h, Blocks(h) \subseteq D
    PROVE  LET k == [a \in D |-> h[a]]
           IN Good(k) /\ Blocks(k) = Blocks(h) /\ \A x \in Blocks(h) : k[x] = h[x]
<1> DEFINE k == [a \in D |-> h[a]]
<1>1. Blocks(h) \subseteq DOMAIN h /\ Closed(h, Blocks(h)) /\ Blocks(h) \subseteq Int
  BY BlocksClosed
<1>3. DOMAIN k \subseteq DOMAIN h /\ Blocks(h) \subseteq DOMAIN k /\ \A x \in DOMAIN k : k[x] = h[x]
  BY <1>1
<1>4. Formed(k)
  BY <1>1, <1>3 DEF Good, Formed, Closed
<1> HIDE DEF k
<1>5. Closed(k, Blocks(h))
  BY <1>1, <1>3 DEF Closed
<1>6. ASSUME NEW S \in SUBSET DOMAIN k, Closed(k, S) PROVE Blocks(h) \subseteq S
  <2>1. S \in SUBSET DOMAIN h /\ Closed(h, S)
    BY <1>3, <1>6 DEF Closed
  <2> QED
    BY <2>1, Least
<1>7. Blocks(k) = Blocks(h)
  BY <1>3, <1>5, <1>6, BlocksEqual
<1>8. Tiled(k) /\ StaleFree(k)
  BY <1>3, <1>7 DEF Good, Tiled, Ends, StaleFree
<1> QED
  BY <1>3, <1>4, <1>7, <1>8 DEF Good, k

(* No header of the list lies in the bytes of a block or over the header of *)
(* another.                                                                 *)
LEMMA ListedSurvive ==
    ASSUME NEW h, Good(h), NEW b \in Blocks(h), NEW x \in Blocks(h)
    PROVE  /\ Header(x) \cap Bytes(b, h[b].size) = {}
           /\ x # b => Header(x) \cap Header(b) = {}
<1>1. b \in 0..(HEAP - 1) /\ h[b].size \in Nat /\ x \in 0..(HEAP - 1) /\ h[x].size \in Nat
  BY Ordered
<1>2. /\ x > b => x >= b + HEADER + h[b].size
      /\ b > x => b >= x + HEADER + h[x].size
  BY Ordered DEF Ends
<1> QED
  BY <1>1, <1>2, Numbers DEF Header, Bytes

(* A split before the header of the rest is written over any other.         *)
Cut(b, size) ==
    IF hdr[b].size > size + HEADER + SLACK
    THEN LET rest == b + HEADER + size
         IN With([hdr EXCEPT ![b] = [size |-> size, free |-> FALSE, next |-> rest]], rest,
                 [size |-> hdr[b].size - size - HEADER, free |-> TRUE, next |-> hdr[b].next])
    ELSE [hdr EXCEPT ![b].free = FALSE]

(* The two outcomes of a cut.                                               *)
LEMMA CutGood ==
    ASSUME Good(hdr), Merged(hdr), NEW b \in Blocks(hdr), hdr[b].free,
           NEW size \in Nat, hdr[b].size >= size
    PROVE  LET k == Cut(b, size)
           IN /\ Good(k) /\ Merged(k) /\ Used(k) = Used(hdr) \cup {b}
              /\ \A x \in Used(hdr) : k[x] = hdr[x]
              /\ k[b].size >= size
<1> DEFINE k == Cut(b, size)
           rest == b + HEADER + size
           B == Blocks(hdr) \cup {rest}
<1>1. Blocks(hdr) \subseteq DOMAIN hdr /\ Closed(hdr, Blocks(hdr)) /\ Blocks(hdr) \subseteq Int
  BY BlocksClosed
<1>2. /\ b \in 0..(HEAP - 1) /\ hdr[b].size \in Nat
      /\ Ends(hdr, b) = b + HEADER + hdr[b].size /\ Ends(hdr, b) <= HEAP
      /\ hdr[b].next # NULL => hdr[b].next = Ends(hdr, b)
      /\ \A x \in Blocks(hdr) : x > b => x >= Ends(hdr, b)
  BY Ordered, Numbers DEF Ends
<1>3. CASE hdr[b].size > size + HEADER + SLACK
  <2>1. k = With([hdr EXCEPT ![b] = [size |-> size, free |-> FALSE, next |-> rest]], rest,
                 [size |-> hdr[b].size - size - HEADER, free |-> TRUE, next |-> hdr[b].next])
    BY <1>3 DEF Cut
  <2>2. /\ rest \in Address /\ rest # b /\ rest \notin Blocks(hdr) /\ rest # NULL
        /\ hdr[b].size - size - HEADER \in Nat /\ hdr[b].size > size
        /\ rest > b /\ rest < Ends(hdr, b)
    BY <1>2, <1>3, Numbers
  <2>3. /\ DOMAIN k = DOMAIN hdr \cup {rest}
        /\ k[b] = [size |-> size, free |-> FALSE, next |-> rest]
        /\ k[rest] = [size |-> hdr[b].size - size - HEADER, free |-> TRUE, next |-> hdr[b].next]
        /\ \A x \in DOMAIN hdr : x # b /\ x # rest => k[x] = hdr[x]
    BY <1>1, <2>1, <2>2 DEF With
  <2>4. Formed(k)
    <3>1. ASSUME NEW x \in DOMAIN k PROVE k[x] \in [size : Nat, free : BOOLEAN, next : Int]
      <4> HIDE DEF k
      <4>1. hdr[b].next \in Int /\ rest \in Int
        BY <1>1, <1>2, Numbers DEF Good, Formed
      <4>2. CASE x = b
        BY <4>1, <4>2, <2>3
      <4>3. CASE x = rest
        BY <4>1, <4>3, <2>2, <2>3
      <4>4. CASE x # b /\ x # rest
        BY <4>4, <2>3 DEF Good, Formed
      <4> QED
        BY <4>2, <4>3, <4>4
    <3>2. k = [x \in DOMAIN k |-> k[x]]
      BY <2>1 DEF With
    <3> HIDE DEF k
    <3> QED
      BY <2>2, <2>3, <3>1, <3>2 DEF Good, Formed
  <2> HIDE DEF k
  <2>5. Closed(k, B)
    <3>1. ASSUME NEW x \in B PROVE k[x].next \in B \cup {NULL}
      <4>1. CASE x = b
        BY <4>1, <2>3
      <4>2. CASE x = rest
        BY <4>2, <1>1, <2>3 DEF Closed
      <4>3. CASE x # b /\ x # rest
        BY <4>3, <1>1, <2>3 DEF Closed
      <4> QED
        BY <4>1, <4>2, <4>3
    <3> QED
      BY <3>1, <1>1 DEF Closed
  <2>6. ASSUME NEW S \in SUBSET DOMAIN k, Closed(k, S) PROVE B \subseteq S
    <3> DEFINE T == S \cap Blocks(hdr)
    <3>1. T \in SUBSET DOMAIN hdr /\ START \in T
      BY <1>1, <2>6 DEF Closed
    <3>2. ASSUME NEW x \in T PROVE hdr[x].next \in T \cup {NULL}
      <4>1. hdr[x].next \in Blocks(hdr) \cup {NULL} /\ x \in DOMAIN hdr /\ x # rest
        BY <1>1, <2>2, <3>2 DEF Closed
      <4>2. CASE x = b
        <5>1. rest \in S
          BY <4>2, <2>2, <2>3, <2>6 DEF Closed
        <5>2. hdr[b].next \in S \cup {NULL}
          BY <5>1, <2>3, <2>6 DEF Closed
        <5> QED
          BY <4>1, <4>2, <5>2
      <4>3. CASE x # b
        BY <4>1, <4>3, <2>3, <2>6 DEF Closed
      <4> QED
        BY <4>2, <4>3
    <3>3. Closed(hdr, T)
      BY <3>1, <3>2 DEF Closed
    <3>4. Blocks(hdr) \subseteq S
      BY <3>1, <3>3, Least
    <3>5. rest \in S
      BY <3>4, <2>2, <2>3, <2>6 DEF Closed
    <3> QED
      BY <3>4, <3>5
  <2>7. Blocks(k) = B
    <3>1. B \in SUBSET DOMAIN k
      BY <1>1, <2>3
    <3> HIDE DEF B
    <3> QED
      BY <3>1, <2>5, <2>6, BlocksEqual
  <2>8. Tiled(k)
    <3> SUFFICES ASSUME NEW x \in B
                 PROVE  Ends(k, x) = IF k[x].next = NULL THEN START + HEAP ELSE k[x].next
      BY <2>5, <2>7 DEF Tiled, Closed
    <3>1. CASE x = b
      BY <3>1, <2>2, <2>3 DEF Ends
    <3>2. CASE x = rest
      <4>1. Ends(k, rest) = Ends(hdr, b)
        <5>1. Ends(k, rest) = rest + HEADER + (hdr[b].size - size - HEADER)
          BY <2>3 DEF Ends
        <5> QED
          BY <5>1, <1>2, Numbers
      <4>2. Ends(hdr, b) = IF hdr[b].next = NULL THEN START + HEAP ELSE hdr[b].next
        BY DEF Good, Tiled
      <4> QED
        BY <3>2, <4>1, <4>2, <2>3
    <3>3. CASE x # b /\ x # rest
      BY <3>3, <1>1, <2>3 DEF Good, Tiled, Ends
    <3> QED
      BY <3>1, <3>2, <3>3
  <2>9. StaleFree(k)
    BY <1>1, <2>3, <2>7 DEF Good, StaleFree
  <2>10. Merged(k)
    <3> SUFFICES ASSUME NEW x \in B, k[x].free, k[x].next # NULL PROVE ~k[k[x].next].free
      BY <2>7 DEF Merged
    <3>1. x # b
      BY <2>3
    <3>2. CASE x = rest
      <4>1. hdr[b].next \in Blocks(hdr) /\ ~hdr[hdr[b].next].free /\ hdr[b].next # b
        BY <3>2, <2>2, <2>3, <1>1 DEF Merged, Closed
      <4> QED
        BY <3>2, <4>1, <1>1, <2>2, <2>3
    <3>3. CASE x # rest
      <4>1. k[x] = hdr[x] /\ x \in Blocks(hdr)
        BY <3>1, <3>3, <1>1, <2>3
      <4>2. hdr[x].next \in Blocks(hdr) /\ ~hdr[hdr[x].next].free
        BY <4>1, <1>1 DEF Merged, Closed
      <4> QED
        BY <4>1, <4>2, <1>1, <2>2, <2>3
    <3> QED
      BY <3>2, <3>3
  <2>11. Used(k) = Used(hdr) \cup {b}
    BY <1>1, <2>2, <2>3, <2>7 DEF Used
  <2>12. (\A x \in Used(hdr) : k[x] = hdr[x]) /\ k[b].size >= size
    BY <1>1, <2>2, <2>3 DEF Used
  <2> QED
    BY <2>4, <2>8, <2>9, <2>10, <2>11, <2>12 DEF Good, k
<1>4. CASE ~(hdr[b].size > size + HEADER + SLACK)
  <2>1. k = [hdr EXCEPT ![b].free = FALSE]
    BY <1>4 DEF Cut
  <2>2. /\ DOMAIN k = DOMAIN hdr /\ k[b].size = hdr[b].size /\ ~k[b].free
        /\ \A x \in DOMAIN hdr : k[x].next = hdr[x].next /\ (x # b => k[x] = hdr[x])
        /\ \A x \in DOMAIN hdr : k[x].size = hdr[x].size
    BY <1>1, <2>1 DEF Good, Formed
  <2>3. Formed(k)
    BY <1>1, <2>1 DEF Good, Formed
  <2> HIDE DEF k
  <2>4. \A S \in SUBSET DOMAIN hdr : Closed(k, S) <=> Closed(hdr, S)
    BY <2>2 DEF Closed
  <2>5. Blocks(k) = Blocks(hdr)
    BY <2>2, <2>4, BlocksAre
  <2>6. Tiled(k) /\ StaleFree(k)
    BY <1>1, <2>2, <2>5 DEF Good, Tiled, Ends, StaleFree
  <2>7. Merged(k)
    <3> SUFFICES ASSUME NEW x \in Blocks(hdr), k[x].free, k[x].next # NULL
                 PROVE  ~k[k[x].next].free
      BY <2>5 DEF Merged
    <3>1. x # b /\ k[x] = hdr[x]
      BY <1>1, <2>2
    <3>2. hdr[x].next \in Blocks(hdr) /\ ~hdr[hdr[x].next].free
      BY <3>1, <1>1 DEF Merged, Closed
    <3> QED
      BY <3>1, <3>2, <1>1, <2>2
  <2>8. Used(k) = Used(hdr) \cup {b}
    BY <1>1, <2>2, <2>5 DEF Used
  <2>9. (\A x \in Used(hdr) : k[x] = hdr[x]) /\ k[b].size >= size
    BY <1>1, <2>2 DEF Used
  <2> QED
    BY <2>3, <2>6, <2>7, <2>8, <2>9 DEF Good, k
<1> QED
  BY <1>3, <1>4

LEMMA SplitGood ==
    ASSUME Good(hdr), Merged(hdr), NEW b \in Blocks(hdr), hdr[b].free,
           NEW size \in Nat, hdr[b].size >= size
    PROVE  LET k == Split(b, size)
           IN /\ Good(k) /\ Merged(k) /\ Used(k) = Used(hdr) \cup {b}
              /\ \A x \in Used(hdr) : k[x] = hdr[x]
              /\ k[b].size >= size
              /\ DOMAIN k \subseteq DOMAIN Cut(b, size)
              /\ \A x \in DOMAIN k : k[x] = Cut(b, size)[x]
<1> DEFINE c == Cut(b, size)
           k == Split(b, size)
           rest == b + HEADER + size
<1>1. /\ Good(c) /\ Merged(c) /\ Used(c) = Used(hdr) \cup {b}
      /\ \A x \in Used(hdr) : c[x] = hdr[x]
      /\ c[b].size >= size
  BY CutGood
<1>2. CASE ~(hdr[b].size > size + HEADER + SLACK)
  <2>1. k = c
    BY <1>2 DEF Split, Cut
  <2> HIDE DEF k, c
  <2> QED
    BY <1>1, <2>1 DEF k, c
<1>3. CASE hdr[b].size > size + HEADER + SLACK
  <2> DEFINE w == [hdr EXCEPT ![b] = [size |-> size, free |-> FALSE, next |-> rest]]
             v == [size |-> hdr[b].size - size - HEADER, free |-> TRUE, next |-> hdr[b].next]
             o == Overwritten(w, Header(rest))
             D == DOMAIN o \cup {rest}
  <2>1. c = With(w, rest, v) /\ k = With(o, rest, v)
    BY <1>3 DEF Split, Cut
  <2>2. /\ DOMAIN o = {x \in DOMAIN w : Header(x) \cap Header(rest) = {}}
        /\ \A x \in DOMAIN o : o[x] = w[x]
    BY DEF Overwritten
  <2>3. b \in DOMAIN hdr /\ DOMAIN w = DOMAIN hdr
    BY BlocksClosed
  <2>4. b \in Int /\ rest # b
    BY Ordered, Numbers
  <2>5. w[b].next = rest
    BY <2>3
  <2> HIDE DEF w, v, o, rest
  <2>6. /\ DOMAIN c = DOMAIN w \cup {rest} /\ c[rest] = v /\ c[b] = w[b]
        /\ \A x \in DOMAIN w : x # rest => c[x] = w[x]
    BY <2>1, <2>3, <2>4 DEF With
  <2>7. k = [x \in D |-> c[x]]
    BY <2>1, <2>2, <2>6 DEF With
  <2>8. D \subseteq DOMAIN c
    BY <2>2, <2>6
  <2> HIDE DEF c, k, D
  <2>9. b \in Blocks(c) /\ rest \in Blocks(c)
    <3>1. b \in Blocks(c)
      BY <1>1 DEF Used
    <3>2. rest # NULL
      BY Ordered, Numbers DEF rest
    <3> QED
      BY <1>1, <2>5, <2>6, <3>1, <3>2 DEF Good, Tiled
  <2>10. Blocks(c) \subseteq D
    <3> SUFFICES ASSUME NEW x \in Blocks(c), x # rest PROVE x \in D
      BY DEF D
    <3>1. x \in DOMAIN c
      BY <1>1, BlocksClosed
    <3>2. Header(x) \cap Header(rest) = {}
      BY <1>1, <2>9, ListedSurvive
    <3> QED
      BY <2>2, <2>6, <3>1, <3>2 DEF D
  <2>11. Good(k) /\ Blocks(k) = Blocks(c) /\ \A x \in Blocks(c) : k[x] = c[x]
    BY <1>1, <2>7, <2>8, <2>10, DroppedGood
  <2>12. Used(k) = Used(c)
    BY <2>11 DEF Used
  <2>13. Merged(k)
    BY <1>1, <2>11 DEF Merged, Good, Tiled
  <2>14. \A x \in Used(hdr) : x \in Blocks(c)
    BY <1>1 DEF Used
  <2>15. DOMAIN k \subseteq DOMAIN c /\ \A x \in DOMAIN k : k[x] = c[x]
    BY <2>7, <2>8
  <2> QED
    BY <1>1, <2>9, <2>11, <2>12, <2>13, <2>14, <2>15 DEF k, c
<1> QED
  BY <1>2, <1>3

(* A block handed out is used and long enough; used ones stay as they were. *)
LEMMA GrantedGood ==
    ASSUME Good(hdr), Merged(hdr), NEW b \in Blocks(hdr), hdr[b].free,
           NEW n \in Nat, hdr[b].size >= Align(n)
    PROVE  LET k == Granted(b, n)
           IN /\ Good(k) /\ Merged(k) /\ Used(k) = Used(hdr) \cup {b}
              /\ \A x \in Used(hdr) : k[x] = hdr[x]
              /\ k[b].size >= Align(n)
<1> DEFINE s == Split(b, Align(n))
           k == Granted(b, n)
<1>1. /\ Good(s) /\ Merged(s) /\ Used(s) = Used(hdr) \cup {b}
      /\ \A x \in Used(hdr) : s[x] = hdr[x]
      /\ s[b].size >= Align(n)
  BY AlignNat, SplitGood
<1> DEFINE D == {x \in DOMAIN s : Header(x) \cap Bytes(b, s[b].size) = {}}
<1>2. k = [a \in D |-> s[a]]
  BY DEF Granted, Overwritten
<1> HIDE DEF s, k
<1>3. b \in Blocks(s)
  BY <1>1 DEF Used
<1>8. Blocks(s) \subseteq D
  BY <1>1, <1>3, BlocksClosed, ListedSurvive
<1>4. Good(k) /\ Blocks(k) = Blocks(s) /\ \A x \in Blocks(s) : k[x] = s[x]
  <2> HIDE DEF D
  <2>1. D \in SUBSET DOMAIN s
    BY DEF D
  <2> QED
    BY <1>1, <1>2, <1>8, <2>1, DroppedGood
<1>5. Used(k) = Used(s)
  BY <1>4 DEF Used
<1>6. Merged(k)
  BY <1>1, <1>4 DEF Merged, Good, Tiled
<1>7. \A x \in Used(hdr) : x \in Blocks(s)
  BY <1>1 DEF Used
<1> QED
  BY <1>1, <1>3, <1>4, <1>5, <1>6, <1>7 DEF k

----------------------------------------------------------------------------
(* The steps.  Met is kept apart: it holds only if no request wraps.        *)

LEMMA WithFacts ==
    ASSUME NEW f, NEW a, NEW v
    PROVE  /\ DOMAIN With(f, a, v) = DOMAIN f \cup {a} /\ With(f, a, v)[a] = v
           /\ \A x \in DOMAIN f : x # a => With(f, a, v)[x] = f[x]
BY DEF With

LEMMA InitIInv == Init => IInv /\ RequestsAreMet
<1> SUFFICES ASSUME Init PROVE IInv /\ RequestsAreMet
  OBVIOUS
<1>1. /\ DOMAIN hdr = {START} /\ hdr = [a \in {START} |-> hdr[a]]
      /\ hdr[START] = [size |-> HEAP - HEADER, free |-> TRUE, next |-> NULL]
      /\ HEAP - HEADER \in Nat /\ NULL \in Int /\ START \in Address
      /\ DOMAIN live = {}
  BY Numbers DEF Init
<1>2. Formed(hdr)
  <2>1. \A s \in Nat, f \in BOOLEAN, t \in Int :
            [size |-> s, free |-> f, next |-> t] \in [size : Nat, free : BOOLEAN, next : Int]
    OBVIOUS
  <2>2. hdr[START] \in [size : Nat, free : BOOLEAN, next : Int]
    BY <1>1, <2>1
  <2> QED
    BY <1>1, <2>2 DEF Formed
<1>3. Blocks(hdr) = {START}
  BY <1>1, BlocksAre, StartListed
<1>4. Tiled(hdr)
  BY <1>1, <1>3, Numbers DEF Tiled, Ends
<1>5. hdr[START].free /\ hdr[START].next = NULL
  BY <1>1
<1>6. StaleFree(hdr) /\ Merged(hdr) /\ Used(hdr) = {}
  BY <1>1, <1>3, <1>5 DEF StaleFree, Merged, Used
<1> QED
  BY <1>1, <1>2, <1>4, <1>6 DEF Good, IInv, RequestsAreMet

Small == \A n \in Requests : n + ALIGN <= UINT

LEMMA MallocIInv ==
    ASSUME IInv, NEW n \in Requests, kmalloc(n)
    PROVE  IInv' /\ (Small /\ RequestsAreMet => RequestsAreMet')
<1> DEFINE b == FirstFit(n)
           k == Granted(b, n)
<1>1. n \in Nat /\ b \in Blocks(hdr) /\ hdr[b].free /\ hdr[b].size >= Align(n)
  BY Numbers, FirstFitFits DEF kmalloc
<1>2. /\ Good(k) /\ Merged(k) /\ Used(k) = Used(hdr) \cup {b}
      /\ \A x \in Used(hdr) : k[x] = hdr[x]
      /\ k[b].size >= Align(n)
  BY <1>1, GrantedGood DEF IInv
<1>3. /\ hdr' = k /\ DOMAIN live' = DOMAIN live \cup {b} /\ live'[b] = n
      /\ \A x \in DOMAIN live : x # b => live'[x] = live[x]
  <2>1. hdr' = k /\ live' = With(live, b, n)
    BY DEF kmalloc
  <2> HIDE DEF b, k
  <2>2. /\ DOMAIN With(live, b, n) = DOMAIN live \cup {b} /\ With(live, b, n)[b] = n
        /\ \A x \in DOMAIN live : x # b => With(live, b, n)[x] = live[x]
    BY DEF With
  <2> QED
    BY <2>1, <2>2
<1> HIDE DEF b, k
<1>4. IInv'
  <2>1. Good(hdr') /\ Merged(hdr') /\ Used(hdr') = DOMAIN live'
    BY <1>2, <1>3 DEF IInv
  <2> QED
    BY <2>1 DEF IInv, Good, Formed, Tiled, Ends, StaleFree, Merged, Used, Blocks, Visited
<1>5. ASSUME Small, RequestsAreMet PROVE RequestsAreMet'
  <2>1. Align(n) >= n /\ Align(n) \in Nat
    BY <1>1, <1>5, AlignMeets, AlignNat DEF Small
  <2>2. k[b].size \in Nat
    BY <1>2, BlocksClosed DEF Good, Formed, Used
  <2>3. \A x \in DOMAIN live' : hdr'[x].size >= live'[x]
    <3> SUFFICES ASSUME NEW x \in DOMAIN live' PROVE hdr'[x].size >= live'[x]
      OBVIOUS
    <3>1. CASE x = b
      BY <3>1, <1>1, <1>2, <1>3, <2>1, <2>2
    <3>2. CASE x # b
      BY <3>2, <1>2, <1>3, <1>5 DEF IInv, RequestsAreMet
    <3> QED
      BY <3>1, <3>2
  <2> QED
    BY <2>3 DEF RequestsAreMet
<1> QED
  BY <1>4, <1>5

LEMMA FreeIInv ==
    ASSUME IInv, NEW b \in DOMAIN live, kfree(b)
    PROVE  IInv' /\ (RequestsAreMet => RequestsAreMet')
<1> DEFINE k == Released(hdr, b)
<1>1. b \in Used(hdr)
  BY DEF IInv
<1>2. /\ Good(k) /\ Merged(k) /\ Used(k) = Used(hdr) \ {b}
      /\ \A x \in Used(k) : k[x] = hdr[x]
  BY <1>1, ReleasedGood DEF IInv
<1>3. hdr' = k /\ live' = [a \in DOMAIN live \ {b} |-> live[a]]
  BY DEF kfree, Without
<1> HIDE DEF k
<1>4. IInv'
  <2>1. Good(hdr') /\ Merged(hdr') /\ Used(hdr') = DOMAIN live'
    BY <1>2, <1>3 DEF IInv
  <2> QED
    BY <2>1 DEF IInv, Good, Formed, Tiled, Ends, StaleFree, Merged, Used, Blocks, Visited
<1>5. RequestsAreMet => RequestsAreMet'
  BY <1>2, <1>3 DEF IInv, RequestsAreMet
<1> QED
  BY <1>4, <1>5

LEMMA ReallocIInv ==
    ASSUME IInv, NEW b \in DOMAIN live, NEW n \in Requests, realloc(b, n)
    PROVE  IInv' /\ (Small /\ RequestsAreMet => RequestsAreMet')
<1> DEFINE c == FirstFit(n)
           g == Granted(c, n)
           k == Released(g, b)
<1>1. n \in Nat /\ c \in Blocks(hdr) /\ hdr[c].free /\ hdr[c].size >= Align(n)
  BY Numbers, FirstFitFits DEF realloc
<1>2. /\ Good(g) /\ Merged(g) /\ Used(g) = Used(hdr) \cup {c}
      /\ \A x \in Used(hdr) : g[x] = hdr[x]
      /\ g[c].size >= Align(n)
  BY <1>1, GrantedGood DEF IInv
<1>3. b # c /\ c \notin DOMAIN live
  BY <1>1 DEF IInv, Used
<1>4. /\ hdr' = k /\ DOMAIN live' = (DOMAIN live \ {b}) \cup {c} /\ live'[c] = n
      /\ \A x \in DOMAIN live \ {b} : x # c => live'[x] = live[x]
  <2> DEFINE w == [a \in DOMAIN live \ {b} |-> live[a]]
  <2>1. hdr' = k /\ live' = With(w, c, n)
    BY DEF realloc, Without
  <2>2. DOMAIN w = DOMAIN live \ {b} /\ \A x \in DOMAIN live \ {b} : w[x] = live[x]
    OBVIOUS
  <2> HIDE DEF w
  <2> QED
    BY <2>1, <2>2, WithFacts
<1> HIDE DEF c, g
<1>5. /\ Good(k) /\ Merged(k) /\ Used(k) = Used(g) \ {b}
      /\ \A x \in Used(k) : k[x] = g[x]
  BY <1>2, ReleasedGood DEF IInv
<1> HIDE DEF k
<1>6. DOMAIN live' = Used(k)
  BY <1>2, <1>3, <1>4, <1>5 DEF IInv
<1>7. IInv'
  <2>1. Good(hdr') /\ Merged(hdr') /\ Used(hdr') = DOMAIN live'
    BY <1>4, <1>5, <1>6
  <2> QED
    BY <2>1 DEF IInv, Good, Formed, Tiled, Ends, StaleFree, Merged, Used, Blocks, Visited
<1>8. ASSUME Small, RequestsAreMet PROVE RequestsAreMet'
  <2>1. Align(n) >= n /\ Align(n) \in Nat
    BY <1>1, <1>8, AlignMeets, AlignNat DEF Small
  <2>2. g[c].size \in Nat
    BY <1>2, BlocksClosed DEF Good, Formed, Used
  <2>3. \A x \in DOMAIN live' : hdr'[x].size >= live'[x]
    <3> SUFFICES ASSUME NEW x \in DOMAIN live' PROVE hdr'[x].size >= live'[x]
      OBVIOUS
    <3>1. hdr'[x] = g[x]
      BY <1>4, <1>5, <1>6
    <3>2. CASE x = c
      BY <3>1, <3>2, <1>1, <1>2, <1>4, <2>1, <2>2
    <3>3. CASE x # c
      <4>1. x \in DOMAIN live \ {b} /\ live'[x] = live[x]
        BY <3>3, <1>4
      <4>2. g[x] = hdr[x]
        BY <4>1, <1>2 DEF IInv
      <4> QED
        BY <3>1, <4>1, <4>2, <1>8 DEF RequestsAreMet
    <3> QED
      BY <3>2, <3>3
  <2> QED
    BY <2>3 DEF RequestsAreMet
<1> QED
  BY <1>7, <1>8

LEMMA NextIInv ==
    ASSUME IInv, [Next]_vars
    PROVE  IInv' /\ (Small /\ RequestsAreMet => RequestsAreMet')
<1>1. ASSUME UNCHANGED vars PROVE IInv' /\ (RequestsAreMet => RequestsAreMet')
  BY <1>1 DEF vars, IInv, Good, Formed, Tiled, Ends, StaleFree, Merged, Used, Blocks, Visited,
              RequestsAreMet
<1>2. ASSUME NEW n \in Requests, kmalloc(n) \/ kmalloc_fails(n)
      PROVE  IInv' /\ (Small /\ RequestsAreMet => RequestsAreMet')
  BY <1>1, <1>2, MallocIInv DEF kmalloc_fails
<1>3. ASSUME NEW b \in DOMAIN live, kfree(b)
      PROVE  IInv' /\ (RequestsAreMet => RequestsAreMet')
  BY <1>3, FreeIInv
<1>5. ASSUME NEW b, kfree_twice(b) PROVE IInv' /\ (RequestsAreMet => RequestsAreMet')
  BY <1>1, <1>5 DEF kfree_twice
<1>4. ASSUME NEW b \in DOMAIN live, NEW n \in Requests, realloc(b, n)
      PROVE  IInv' /\ (Small /\ RequestsAreMet => RequestsAreMet')
  BY <1>4, ReallocIInv
<1> QED
  BY <1>1, <1>2, <1>3, <1>4, <1>5 DEF Next

----------------------------------------------------------------------------
LEMMA GoodApart ==
    ASSUME NEW h, Good(h), NEW b \in Blocks(h)
    PROVE  /\ Bytes(b, h[b].size) \subseteq Address
           /\ \A c \in Blocks(h) : b # c => Bytes(b, h[b].size) \cap Bytes(c, h[c].size) = {}
<1>1. b \in 0..(HEAP - 1) /\ h[b].size \in Nat /\ b + HEADER + h[b].size <= HEAP
  BY Ordered, Numbers DEF Ends
<1>2. Bytes(b, h[b].size) \subseteq Address
  BY <1>1, Numbers DEF Bytes
<1>3. ASSUME NEW c \in Blocks(h), b # c,
             NEW x \in Bytes(b, h[b].size), x \in Bytes(c, h[c].size)
      PROVE  FALSE
  <2>1. /\ c \in 0..(HEAP - 1) /\ h[c].size \in Nat
        /\ b > c => b >= c + HEADER + h[c].size
    BY Ordered, Numbers DEF Ends
  <2>2. c > b => c >= b + HEADER + h[b].size
    BY Ordered, Numbers DEF Ends
  <2>3. x \in Int /\ x >= b + HEADER /\ x < b + HEADER + h[b].size
    BY <1>1, Numbers DEF Bytes
  <2>4. x >= c + HEADER /\ x < c + HEADER + h[c].size
    BY <1>3, <2>1, Numbers DEF Bytes
  <2> QED
    BY <1>1, <1>3, <2>1, <2>2, <2>3, <2>4, Numbers
<1> QED
  BY <1>2, <1>3

LEMMA IInvApart == IInv => CallersAreApart
BY GoodApart DEF IInv, Used, CallersAreApart

LEMMA IInvTheorem == Spec => []IInv
<1>1. Init => IInv
  BY InitIInv
<1>2. IInv /\ [Next]_vars => IInv'
  BY NextIInv
<1> QED
  BY <1>1, <1>2, PTL DEF Spec

(* kmalloc, kfree: whatever is split and merged, the blocks tile the heap   *)
(* and no two callers share a byte.                                         *)
THEOREM TilingTheorem == Spec => []BlocksTileTheHeap
<1>1. IInv => BlocksTileTheHeap
  BY IInvApart DEF IInv, Good, Tiled, Ends, End, BlocksTileTheHeap
<1> QED
  BY <1>1, IInvTheorem, PTL

(* kfree: two free blocks are never neighbours.                             *)
THEOREM MergedTheorem == Spec => []FreeBlocksAreMerged
<1>1. IInv => FreeBlocksAreMerged
  BY DEF IInv, Merged, FreeBlocksAreMerged
<1> QED
  BY <1>1, IInvTheorem, PTL

(* What is freed is not owned.                                              *)
FInv == freed \subseteq Address /\ freed \cap DOMAIN live = {}

LEMMA NextFreed == ASSUME IInv, FInv, [Next]_vars PROVE FInv'
<1>1. Used(hdr) = DOMAIN live /\ \A b \in Used(hdr) : b \in Address
  BY BlocksClosed DEF IInv, Good, Formed, Used
<1>2. ASSUME NEW n \in Requests, kmalloc(n) PROVE FInv'
  <2> DEFINE b == FirstFit(n)
  <2>1. freed' \subseteq freed \ {b} /\ live' = With(live, b, n)
    BY <1>2 DEF kmalloc, StillFreed
  <2> HIDE DEF b
  <2>2. DOMAIN live' = DOMAIN live \cup {b}
    BY <2>1 DEF With
  <2> QED
    BY <2>1, <2>2 DEF FInv, Address
<1>3. ASSUME NEW b \in DOMAIN live, kfree(b) PROVE FInv'
  BY <1>1, <1>3 DEF kfree, Without, FInv, Address
<1>4. ASSUME NEW b \in DOMAIN live, NEW n \in Requests, realloc(b, n) PROVE FInv'
  <2> DEFINE c == FirstFit(n)
  <2>1. c \notin DOMAIN live
    BY <1>1, <1>4, FirstFitFits DEF realloc, Used
  <2>2. freed' \subseteq (freed \ {c}) \cup {b} /\ live' = With(Without(b), c, n)
    BY <1>4 DEF realloc, StillFreed
  <2> HIDE DEF c
  <2>3. DOMAIN live' = (DOMAIN live \ {b}) \cup {c}
    BY <2>2 DEF With, Without
  <2> QED
    BY <1>1, <2>1, <2>2, <2>3 DEF FInv, Address
<1>5. CASE UNCHANGED vars
  BY <1>5 DEF vars, FInv, Address
<1> QED
  BY <1>2, <1>3, <1>4, <1>5 DEF Next, kmalloc_fails, kfree_twice

LEMMA FreedTheorem == Spec => []FInv
<1>1. Init => FInv
  BY DEF Init, FInv
<1>2. IInv /\ FInv /\ [Next]_vars => FInv'
  BY NextFreed
<1> QED
  BY <1>1, <1>2, IInvTheorem, PTL DEF Spec

(* kfree: a block given back whose header nothing was written over says     *)
(* free, in the list or taken out of it, so a second kfree changes nothing. *)
THEOREM RepeatedTheorem == Spec => []RepeatedFreeIsNoticed
<1>1. IInv /\ FInv => RepeatedFreeIsNoticed
  BY DEF IInv, Good, StaleFree, Used, FInv, RepeatedFreeIsNoticed
<1> QED
  BY <1>1, IInvTheorem, FreedTheorem, PTL

(* kmalloc, kfree: the used blocks are those that callers own.              *)
THEOREM UsedTheorem == Spec => []UsedAreOwned
<1>1. IInv => UsedAreOwned
  BY DEF IInv, Used, UsedAreOwned
<1> QED
  BY <1>1, IInvTheorem, PTL

(* kmalloc: a block is as long as was asked, if no request is so large that *)
(* rounding it up wraps (mm.c:39).                                          *)
THEOREM SizesTheorem == ASSUME Small PROVE Spec => []RequestsAreMet
<1>1. Init => IInv /\ RequestsAreMet
  BY InitIInv
<1>2. IInv /\ RequestsAreMet /\ [Next]_vars => (IInv /\ RequestsAreMet)'
  BY NextIInv
<1> QED
  BY <1>1, <1>2, PTL DEF Spec

----------------------------------------------------------------------------
(* The bytes that callers own.                                              *)

Total(h) == Cardinality(OwnedBytes(h, Used(h)))

LEMMA OwnedFinite ==
    ASSUME NEW h, Good(h), NEW D \in SUBSET Used(h)
    PROVE  /\ OwnedBytes(h, D) \subseteq Address /\ IsFiniteSet(OwnedBytes(h, D))
           /\ Cardinality(OwnedBytes(h, D)) \in 0..HEAP
<1>1. OwnedBytes(h, D) \subseteq Address
  BY GoodApart DEF OwnedBytes, Used
<1>2. IsFiniteSet(Address) /\ Cardinality(Address) = HEAP
  <2>1. 0 \in Int /\ HEAP - 1 \in Int /\ Address = 0..(HEAP - 1) /\ HEAP > 0 /\ HEAP \in Nat
    BY Numbers
  <2> QED
    BY <2>1, FS_Interval
<1>3. IsFiniteSet(OwnedBytes(h, D)) /\ Cardinality(OwnedBytes(h, D)) <= HEAP
  BY <1>1, <1>2, FS_Subset
<1> QED
  BY <1>1, <1>3, FS_CardinalityType, Numbers

(* A used block adds its size.                                              *)
LEMMA OwnedBlock ==
    ASSUME NEW h, Good(h), NEW b \in Used(h)
    PROVE  Total(h) = Cardinality(OwnedBytes(h, Used(h) \ {b})) + h[b].size
<1> DEFINE mine == Bytes(b, h[b].size)
           rest == OwnedBytes(h, Used(h) \ {b})
<1>1. b \in Blocks(h) /\ b \in Nat /\ h[b].size \in Nat
  BY Ordered, Numbers DEF Used
<1>2. OwnedBytes(h, Used(h)) = rest \cup mine
  BY DEF OwnedBytes
<1>3. rest \cap mine = {}
  BY <1>1, GoodApart DEF OwnedBytes, Used
<1>4. IsFiniteSet(rest) /\ Cardinality(rest) \in Nat
  BY OwnedFinite, Numbers
<1>5. IsFiniteSet(mine) /\ Cardinality(mine) = h[b].size
  <2> DEFINE low  == b + HEADER
             high == b + HEADER + h[b].size - 1
  <2>1. low \in Int /\ high \in Int /\ high - low + 1 = h[b].size
        /\ (low > high => h[b].size = 0) /\ mine = low..high
    BY <1>1, Numbers DEF Bytes
  <2> HIDE DEF low, high, mine
  <2>2. IsFiniteSet(low..high) /\ Cardinality(low..high) = IF low > high THEN 0 ELSE high - low + 1
    BY <2>1, FS_Interval
  <2> QED
    BY <2>1, <2>2
<1> HIDE DEF rest, mine
<1>6. Cardinality(rest \cup mine) = Cardinality(rest) + Cardinality(mine)
  <2>1. Cardinality(rest \cup mine)
          = Cardinality(rest) + Cardinality(mine) - Cardinality(rest \cap mine)
    BY <1>4, <1>5, FS_Union
  <2>2. Cardinality(rest \cap mine) = 0
    BY <1>3, FS_EmptySet
  <2> QED
    BY <1>1, <1>4, <1>5, <2>1, <2>2
<1> QED
  BY <1>2, <1>5, <1>6 DEF Total, rest

LEMMA SameOwned ==
    ASSUME NEW h, NEW k, NEW D, \A x \in D : k[x] = h[x]
    PROVE  OwnedBytes(k, D) = OwnedBytes(h, D)
BY DEF OwnedBytes

LEMMA GrantedTotal ==
    ASSUME Good(hdr), Merged(hdr), NEW b \in Blocks(hdr), hdr[b].free,
           NEW n \in Nat, hdr[b].size >= Align(n)
    PROVE  LET k == Granted(b, n) IN Total(k) = Total(hdr) + k[b].size
<1> DEFINE k == Granted(b, n)
<1>1. Good(k) /\ Used(k) = Used(hdr) \cup {b} /\ \A x \in Used(hdr) : k[x] = hdr[x]
  BY GrantedGood
<1>2. b \notin Used(hdr)
  BY DEF Used
<1> HIDE DEF k
<1>3. Used(k) \ {b} = Used(hdr)
  BY <1>1, <1>2
<1>4. OwnedBytes(k, Used(hdr)) = OwnedBytes(hdr, Used(hdr))
  BY <1>1, SameOwned
<1>5. Total(k) = Cardinality(OwnedBytes(k, Used(k) \ {b})) + k[b].size
  BY <1>1, OwnedBlock
<1> QED
  BY <1>3, <1>4, <1>5 DEF Total, k

LEMMA ReleasedTotal ==
    ASSUME NEW h, Good(h), Merged(h), NEW b \in Used(h)
    PROVE  Total(h) = Total(Released(h, b)) + h[b].size
<1> DEFINE k == Released(h, b)
<1>1. Used(k) = Used(h) \ {b} /\ \A x \in Used(k) : k[x] = h[x]
  BY ReleasedGood
<1> HIDE DEF k
<1>2. OwnedBytes(k, Used(k)) = OwnedBytes(h, Used(h) \ {b})
  BY <1>1, SameOwned
<1>3. Total(h) = Cardinality(OwnedBytes(h, Used(h) \ {b})) + h[b].size
  BY OwnedBlock
<1> QED
  BY <1>2, <1>3 DEF Total, k

Counted == total_allocated = Total(hdr)

LEMMA NextCounted ==
    ASSUME IInv, Counted, [Next]_vars
    PROVE  Counted'
<1>1. Good(hdr) /\ Merged(hdr) /\ Used(hdr) = DOMAIN live /\ Total(hdr) \in Nat
  BY OwnedFinite, Numbers DEF IInv, Total
<1>2. ASSUME total_allocated' = Total(hdr') PROVE Counted'
  BY <1>2 DEF Counted, Total, OwnedBytes, Used, Blocks, Visited, Bytes
<1>3. ASSUME NEW n \in Requests, kmalloc(n) PROVE Counted'
  <2> DEFINE b == FirstFit(n)
             k == Granted(b, n)
  <2>1. n \in Nat /\ b \in Blocks(hdr) /\ hdr[b].free /\ hdr[b].size >= Align(n)
    BY <1>3, Numbers, FirstFitFits DEF kmalloc
  <2>2. hdr' = k /\ total_allocated' = total_allocated + k[b].size
    BY <1>3 DEF kmalloc
  <2>3. Total(k) = Total(hdr) + k[b].size
    BY <1>1, <2>1, GrantedTotal
  <2> HIDE DEF k, b
  <2> QED
    BY <1>2, <2>2, <2>3 DEF Counted
<1>4. ASSUME NEW b \in DOMAIN live, kfree(b) PROVE Counted'
  <2> DEFINE k == Released(hdr, b)
  <2>1. b \in Used(hdr)
    BY <1>1
  <2>2. hdr' = k /\ total_allocated' = total_allocated - hdr[b].size
    BY <1>4 DEF kfree
  <2>3. Total(hdr) = Total(k) + hdr[b].size
    BY <1>1, <2>1, ReleasedTotal
  <2>4. Good(k) /\ hdr[b].size \in Nat
    BY <1>1, <2>1, ReleasedGood, Ordered DEF Used
  <2>5. Total(k) \in Nat
    BY <2>4, OwnedFinite, Numbers DEF Total
  <2> HIDE DEF k
  <2> QED
    BY <1>2, <2>2, <2>3, <2>4, <2>5 DEF Counted
<1>5. ASSUME NEW b \in DOMAIN live, NEW n \in Requests, realloc(b, n) PROVE Counted'
  <2> DEFINE c == FirstFit(n)
             g == Granted(c, n)
             k == Released(g, b)
  <2>1. n \in Nat /\ c \in Blocks(hdr) /\ hdr[c].free /\ hdr[c].size >= Align(n)
    BY <1>5, Numbers, FirstFitFits DEF realloc
  <2>2. /\ Good(g) /\ Merged(g) /\ Used(g) = Used(hdr) \cup {c}
        /\ \A x \in Used(hdr) : g[x] = hdr[x]
    BY <1>1, <2>1, GrantedGood
  <2>3. hdr' = k /\ total_allocated' = total_allocated + g[c].size - hdr[b].size
    BY <1>5 DEF realloc
  <2>4. Total(g) = Total(hdr) + g[c].size
    BY <1>1, <2>1, GrantedTotal
  <2> HIDE DEF g, c
  <2>5. b \in Used(g) /\ g[b] = hdr[b]
    BY <1>1, <2>2
  <2>6. Total(g) = Total(k) + g[b].size
    BY <2>2, <2>5, ReleasedTotal
  <2>7. Good(k) /\ g[b].size \in Nat
    BY <2>2, <2>5, ReleasedGood, Ordered DEF Used
  <2>8. Total(k) \in Nat
    BY <2>7, OwnedFinite, Numbers DEF Total
  <2>9. Total(g) \in Nat
    BY <2>6, <2>7, <2>8
  <2>10. g[c].size \in Nat
    BY <2>2, Ordered DEF Used
  <2>11. b \in Used(hdr) /\ g[b].size = hdr[b].size
    BY <1>1, <2>5
  <2> HIDE DEF k
  <2>12. total_allocated' = Total(hdr')
    BY <1>1, <2>3, <2>4, <2>6, <2>7, <2>8, <2>10, <2>11 DEF Counted
  <2> QED
    BY <1>2, <2>12
<1>6. CASE UNCHANGED vars
  BY <1>2, <1>6 DEF vars, Counted
<1> QED
  BY <1>3, <1>4, <1>5, <1>6 DEF Next, kmalloc_fails, kfree_twice

LEMMA CountedTheorem == Spec => []Counted
<1>1. Init => Counted
  <2> SUFFICES ASSUME Init PROVE Counted
    OBVIOUS
  <2>1. Used(hdr) = {} /\ total_allocated = 0
    BY InitIInv DEF Init, IInv
  <2>2. OwnedBytes(hdr, Used(hdr)) = {}
    BY <2>1 DEF OwnedBytes
  <2> QED
    BY <2>1, <2>2, FS_EmptySet DEF Counted, Total
<1>2. IInv /\ Counted /\ [Next]_vars => Counted'
  BY NextCounted
<1> QED
  BY <1>1, <1>2, IInvTheorem, PTL DEF Spec

(* kmalloc, kfree, realloc: the blocks not marked free are the callers',    *)
(* each as long as was asked, and total_allocated is the number of their    *)
(* bytes, whatever was merged in between.                                   *)
THEOREM AllocatedTheorem == ASSUME Small PROVE Spec => []AllocatedIsLive
<1>1. IInv /\ RequestsAreMet /\ Counted => AllocatedIsLive
  BY DEF IInv, Used, Counted, Total, AllocatedIsLive, UsedAreOwned
<1> QED
  BY <1>1, IInvTheorem, CountedTheorem, SizesTheorem, PTL

----------------------------------------------------------------------------
(* The types.  A header taken out of the list keeps what it said until it   *)
(* is written over.                                                         *)

Fits(a, s) ==
    /\ a % ALIGN = 0 /\ s.size <= HEAP - HEADER
    /\ s.next \in Address \cup {NULL}
Sized(h) == \A a \in DOMAIN h : Fits(a, h[a])

LEMMA Multiples ==
    ASSUME NEW x \in Int, NEW y \in Int, x % ALIGN = 0, y % ALIGN = 0
    PROVE  (x + y) % ALIGN = 0
<1> DEFINE q == x \div ALIGN
           r == y \div ALIGN
<1>1. ALIGN \in Nat \ {0}
  BY Numbers
<1>2. q \in Int /\ r \in Int /\ x = q * ALIGN /\ y = r * ALIGN
  BY <1>1
<1> HIDE DEF q, r
<1>3. x + y = (q + r) * ALIGN
  BY <1>1, <1>2
<1>4. \A z \in Int : (z * ALIGN) % ALIGN = 0
  BY <1>1
<1> QED
  BY <1>2, <1>3, <1>4

LEMMA AlignAligned == ASSUME NEW n \in Nat PROVE Align(n) % ALIGN = 0
<1> DEFINE q == ((n + ALIGN - 1) % UINT) \div ALIGN
<1>1. (n + ALIGN - 1) % UINT \in Nat /\ ALIGN \in Nat \ {0}
  BY Numbers
<1>2. q \in Nat /\ Align(n) = q * ALIGN
  BY <1>1 DEF Align
<1> HIDE DEF q
<1>3. \A z \in Int : (z * ALIGN) % ALIGN = 0
  BY <1>1
<1> QED
  BY <1>2, <1>3

(* A block of the list is within the heap.                                  *)
LEMMA ListedSized ==
    ASSUME NEW h, Good(h), NEW b \in Blocks(h)
    PROVE  h[b].size <= HEAP - HEADER /\ h[b].next \in Address \cup {NULL}
<1>1. b \in 0..(HEAP - 1) /\ h[b].size \in Nat /\ b + HEADER + h[b].size <= HEAP
  BY Ordered, Numbers DEF Ends
<1>2. h[b].next \in Blocks(h) \cup {NULL} /\ Blocks(h) \subseteq Address
  BY BlocksClosed DEF Good, Tiled, Formed
<1> QED
  BY <1>1, <1>2, Numbers

LEMMA MergeSized ==
    ASSUME NEW h, Good(h), Sized(h), NEW a \in Blocks(h), h[a].next # NULL,
           h[a].free, h[h[a].next].free
    PROVE  Sized(Merge(h, a)) /\ Good(Merge(h, a)) /\ a \in Blocks(Merge(h, a))
<1> DEFINE k == Merge(h, a)
<1>1. /\ Good(k) /\ Blocks(k) = Blocks(h) \ {h[a].next} /\ a # h[a].next
      /\ \A x \in DOMAIN h : x # a => k[x] = h[x]
  BY MergeGood
<1>2. DOMAIN k = DOMAIN h
  BY DEF Merge
<1> HIDE DEF k
<1>3. a \in Blocks(k)
  BY <1>1
<1>4. k[a].size <= HEAP - HEADER /\ k[a].next \in Address \cup {NULL}
  BY <1>1, <1>3, ListedSized
<1> QED
  BY <1>1, <1>2, <1>3, <1>4 DEF Sized, Fits, k

LEMMA ReleasedSized ==
    ASSUME NEW h, Good(h), Sized(h), NEW b \in Blocks(h)
    PROVE  Sized(Released(h, b))
<1> DEFINE f == Freed(h, b)
           m == MergeNext(f, b)
           k == MergePrev(m, b)
<1>1. Good(f) /\ Blocks(f) = Blocks(h) /\ f[b].free
  BY FreedGood
<1>2. Sized(f)
  <2>1. b \in DOMAIN h
    BY BlocksClosed
  <2>2. DOMAIN f = DOMAIN h
    BY DEF Freed
  <2>3. \A x \in DOMAIN h : f[x].size = h[x].size /\ f[x].next = h[x].next
    BY FreedGood, <2>1
  <2> HIDE DEF f
  <2> QED
    BY <2>2, <2>3 DEF Sized, Fits
<1> HIDE DEF f
<1>3. Good(m) /\ Sized(m) /\ b \in Blocks(m)
  BY <1>1, <1>2, MergeSized DEF MergeNext
<1>4. b # NULL
  BY Ordered, Numbers
<1>5. m[b].free
  <2>1. CASE f[b].next # NULL /\ f[f[b].next].free
    <3>1. b \in DOMAIN f /\ m = Merge(f, b)
      BY <1>1, <2>1, BlocksClosed DEF MergeNext
    <3> QED
      BY <1>1, <2>1, <3>1, MergeGood
  <2> QED
    BY <1>1, <2>1 DEF MergeNext
<1> HIDE DEF m
<1>6. Sized(k)
  <2> DEFINE prev == {a \in Blocks(m) : m[a].next = b /\ m[a].free}
             a == CHOOSE x \in prev : TRUE
  <2>1. CASE prev = {}
    BY <1>3, <2>1 DEF MergePrev
  <2>2. CASE prev # {}
    <3>1. k = Merge(m, a) /\ a \in prev
      BY <2>2 DEF MergePrev
    <3>2. a \in Blocks(m) /\ m[a].next = b /\ m[a].free
      BY <3>1
    <3> HIDE DEF a, prev, k
    <3> QED
      BY <1>3, <1>4, <1>5, <3>1, <3>2, MergeSized
  <2> QED
    BY <2>1, <2>2
<1> QED
  BY <1>6 DEF Released, f, m

LEMMA GrantedSized ==
    ASSUME Good(hdr), Merged(hdr), Sized(hdr), NEW b \in Blocks(hdr), hdr[b].free,
           NEW n \in Nat, hdr[b].size >= Align(n)
    PROVE  Sized(Granted(b, n))
<1> DEFINE size == Align(n)
           rest == b + HEADER + size
           s == Cut(b, size)
           k == Granted(b, n)
<1>1. /\ size \in Nat /\ size % ALIGN = 0 /\ b \in DOMAIN hdr /\ b \in Nat
      /\ hdr[b].size \in Nat
  <2>1. size \in Nat
    BY AlignNat
  <2>2. size % ALIGN = 0
    BY AlignAligned
  <2>3. b \in DOMAIN hdr
    BY BlocksClosed
  <2>4. b \in 0..(HEAP - 1) /\ hdr[b].size \in Nat
    BY Ordered
  <2> HIDE DEF size
  <2> QED
    BY <2>1, <2>2, <2>3, <2>4, Numbers
<1>2. Fits(b, hdr[b])
  BY <1>1 DEF Sized
<1>3. rest % ALIGN = 0
  <2>1. HEADER \in Int /\ HEADER % ALIGN = 0
    BY HeapAssumption
  <2>2. b \in Int /\ b % ALIGN = 0
    BY <1>1, <1>2 DEF Fits
  <2>3. size \in Int /\ size % ALIGN = 0
    BY <1>1
  <2> HIDE DEF size
  <2>4. (b + HEADER) % ALIGN = 0
    BY <2>1, <2>2, Multiples
  <2>5. b + HEADER \in Int
    BY <2>1, <2>2
  <2> QED
    BY <2>3, <2>4, <2>5, Multiples
<1>4. /\ Good(s) /\ DOMAIN Split(b, size) \subseteq DOMAIN s
      /\ \A x \in DOMAIN Split(b, size) : Split(b, size)[x] = s[x]
  BY <1>1, CutGood, SplitGood
<1> HIDE DEF size
<1>5. ASSUME NEW x \in DOMAIN s PROVE Fits(x, s[x])
  <2>1. CASE hdr[b].size > size + HEADER + SLACK
    <3> DEFINE first == [size |-> size, free |-> FALSE, next |-> rest]
               second == [size |-> hdr[b].size - size - HEADER, free |-> TRUE,
                          next |-> hdr[b].next]
    <3>1. s = With([hdr EXCEPT ![b] = first], rest, second)
      BY <2>1 DEF Cut
    <3>2. DOMAIN s = DOMAIN hdr \cup {rest} /\ rest # b
      BY <1>1, <3>1, Numbers DEF With
    <3>3. /\ s[rest] = second /\ s[b] = first
          /\ \A y \in DOMAIN hdr : y # b /\ y # rest => s[y] = hdr[y]
      <4> HIDE DEF first, second, rest
      <4> QED
        BY <1>1, <3>1, <3>2 DEF With
    <3>4. rest \in Address
      BY <1>4, <3>2 DEF Good, Formed
    <3>5. Fits(rest, second)
      BY <1>1, <1>2, <1>3, <2>1, Numbers DEF Fits
    <3>6. Fits(b, first)
      BY <1>1, <1>2, <2>1, <3>4, Numbers DEF Fits
    <3> HIDE DEF first, second, rest, s
    <3> QED
      BY <3>2, <3>3, <3>5, <3>6 DEF Sized
  <2>2. CASE ~(hdr[b].size > size + HEADER + SLACK)
    <3>1. s = [hdr EXCEPT ![b].free = FALSE]
      BY <2>2 DEF Cut
    <3>2. DOMAIN s = DOMAIN hdr /\ s[x].size = hdr[x].size /\ s[x].next = hdr[x].next
      BY <1>1, <3>1 DEF Good, Formed
    <3> QED
      BY <3>2 DEF Sized, Fits
  <2> QED
    BY <2>1, <2>2
<1>6. DOMAIN k \subseteq DOMAIN s /\ \A x \in DOMAIN k : k[x] = s[x]
  BY <1>4 DEF Granted, Overwritten, size
<1> HIDE DEF s, k
<1> QED
  BY <1>5, <1>6 DEF Sized, k

SInv == Sized(hdr) /\ \A b \in DOMAIN live : live[b] \in Requests

LEMMA NextSized == ASSUME IInv, SInv, [Next]_vars PROVE SInv'
<1>1. Good(hdr) /\ Merged(hdr) /\ Used(hdr) = DOMAIN live
  BY DEF IInv
<1>2. ASSUME Sized(hdr'), \A b \in DOMAIN live' : live'[b] \in Requests PROVE SInv'
  BY <1>2 DEF SInv, Sized, Fits
<1>3. ASSUME NEW n \in Requests, kmalloc(n) PROVE SInv'
  <2> DEFINE b == FirstFit(n)
             k == Granted(b, n)
  <2>1. n \in Nat /\ b \in Blocks(hdr) /\ hdr[b].free /\ hdr[b].size >= Align(n)
    BY <1>3, Numbers, FirstFitFits DEF kmalloc
  <2>2. Sized(k)
    BY <1>1, <2>1, GrantedSized DEF SInv
  <2>3. hdr' = k /\ live' = With(live, b, n)
    BY <1>3 DEF kmalloc
  <2> HIDE DEF k, b
  <2> QED
    BY <1>2, <2>2, <2>3 DEF With, SInv
<1>4. ASSUME NEW b \in DOMAIN live, kfree(b) PROVE SInv'
  <2> DEFINE k == Released(hdr, b)
  <2>1. b \in Blocks(hdr)
    BY <1>1 DEF Used
  <2>2. Sized(k)
    BY <1>1, <2>1, ReleasedSized DEF SInv
  <2>3. hdr' = k /\ live' = Without(b)
    BY <1>4 DEF kfree
  <2> HIDE DEF k
  <2> QED
    BY <1>2, <2>2, <2>3 DEF Without, SInv
<1>5. ASSUME NEW b \in DOMAIN live, NEW n \in Requests, realloc(b, n) PROVE SInv'
  <2> DEFINE c == FirstFit(n)
             g == Granted(c, n)
             k == Released(g, b)
  <2>1. n \in Nat /\ c \in Blocks(hdr) /\ hdr[c].free /\ hdr[c].size >= Align(n)
    BY <1>5, Numbers, FirstFitFits DEF realloc
  <2>2. Sized(g)
    BY <1>1, <2>1, GrantedSized DEF SInv
  <2>3. Good(g) /\ Used(g) = Used(hdr) \cup {c}
    BY <1>1, <2>1, GrantedGood
  <2>4. hdr' = k /\ live' = With(Without(b), c, n)
    BY <1>5 DEF realloc
  <2> HIDE DEF g, c
  <2>5. b \in Blocks(g)
    BY <1>1, <2>3 DEF Used
  <2>6. Sized(k)
    BY <2>2, <2>3, <2>5, ReleasedSized
  <2> HIDE DEF k
  <2> QED
    BY <1>2, <2>4, <2>6 DEF With, Without, SInv
<1>6. CASE UNCHANGED vars
  BY <1>2, <1>6 DEF vars, SInv
<1> QED
  BY <1>3, <1>4, <1>5, <1>6 DEF Next, kmalloc_fails, kfree_twice

(* kmalloc, kfree, realloc: every header that nothing was written over lies *)
(* in the heap at an aligned address, with a size and a link within the     *)
(* heap, also one that merging took out of the list; the counter of         *)
(* mm_stats never leaves the heap's size.                                   *)
THEOREM TypeTheorem == Spec => []TypeOK
<1>1. Init => SInv
  <2> SUFFICES ASSUME Init PROVE SInv
    OBVIOUS
  <2>1. 0 % ALIGN = 0
    BY Numbers
  <2> QED
    BY <2>1, Numbers DEF Init, SInv, Sized, Fits
<1>2. IInv /\ SInv /\ [Next]_vars => SInv'
  BY NextSized
<1>3. IInv /\ SInv /\ Counted /\ FInv => TypeOK
  <2> SUFFICES ASSUME IInv, SInv, Counted, FInv PROVE TypeOK
    OBVIOUS
  <2>1. ASSUME NEW a \in DOMAIN hdr
        PROVE  /\ a \in Address /\ a % ALIGN = 0
               /\ hdr[a] \in [size : 0..(HEAP - HEADER), free : BOOLEAN,
                              next : Address \cup {NULL}]
    <3>1. hdr[a] \in [size : Nat, free : BOOLEAN, next : Int] /\ a \in Address
      BY DEF IInv, Good, Formed
    <3>2. Fits(a, hdr[a])
      BY DEF SInv, Sized
    <3>3. hdr[a].size \in 0..(HEAP - HEADER)
      BY <3>1, <3>2, Numbers DEF Fits
    <3> QED
      BY <3>1, <3>2, <3>3 DEF Fits
  <2>2. total_allocated \in 0..HEAP
    BY OwnedFinite DEF Counted, Total, IInv
  <2>3. \A b \in DOMAIN live : b \in DOMAIN hdr
    BY BlocksClosed DEF IInv, Used
  <2> QED
    BY <2>1, <2>2, <2>3 DEF TypeOK, SInv, FInv
<1> QED
  BY <1>1, <1>2, <1>3, IInvTheorem, CountedTheorem, FreedTheorem, PTL DEF Spec
=============================================================================
