-------------------------------- MODULE Heap --------------------------------
(***************************************************************************)
(* The kernel's allocator, kernal/mm.c: a list of blocks in the heap, each *)
(* a header followed by its bytes; kmalloc takes the first free block that *)
(* is large enough and splits it if much is left, kfree merges a block     *)
(* with its free neighbours.                                               *)
(*                                                                         *)
(* Headers live in the memory they describe: one that was merged into      *)
(* another block stays readable there until one of its bytes is handed out *)
(* or a header is written over it.  A header is longer than the alignment, *)
(* so that can be a header that begins before it or behind it.             *)
(* malloc, calloc and free of lib/libc/stdlib.c are kmalloc and kfree.     *)
(***************************************************************************)
EXTENDS Integers, FiniteSets

CONSTANTS
    HEAP,           \* bytes between __heap_start and __heap_end
    HEADER,         \* sizeof(struct mem_block): 16
    ALIGN,          \* 8
    SLACK,          \* what a split must leave beyond a header: 32
    UINT,           \* 2^32: an unsigned int is a residue modulo UINT
    Requests        \* the sizes that are asked of kmalloc

ASSUME HeapAssumption ==
    /\ {HEAP, HEADER, ALIGN, UINT} \subseteq Nat \ {0}
    /\ \A n \in {HEAP, HEADER, UINT} : n % ALIGN = 0
    /\ SLACK \in Nat /\ HEAP > HEADER /\ UINT > HEAP
    /\ Requests \subseteq 0..(UINT - 1)

NULL  == -1
START == 0                      \* heap_start, and heap_head from mm_init on
Address == START..(START + HEAP - 1)

VARIABLES
    hdr,                \* the block headers still intact, by address
    total_allocated,
    live,               \* history: blocks handed out |-> bytes asked for
    freed               \* history: blocks given back whose header bytes no
                        \* caller was handed since

vars == <<hdr, total_allocated, live, freed>>

Init ==
    /\ hdr = [a \in {START} |-> [size |-> HEAP - HEADER, free |-> TRUE, next |-> NULL]]
    /\ total_allocated = 0
    /\ live = [a \in {} |-> 0]
    /\ freed = {}

----------------------------------------------------------------------------
(* The headers that a walk from heap_head along next comes to, if it goes  *)
(* no further than the first one in stop.                                  *)
Visited(h, stop) ==
    {a \in DOMAIN h : \A S \in SUBSET DOMAIN h :
        START \in S /\ (\A x \in S \ stop : h[x].next \in S \cup {NULL}) => a \in S}
Blocks(h) == Visited(h, {})

Align_down(n) == (n \div ALIGN) * ALIGN
(* Round up to the alignment, in unsigned int arithmetic.                  *)
Align(n) == (((n + ALIGN - 1) % UINT) \div ALIGN) * ALIGN

(* The block that a request for n bytes gets.                              *)
FirstFit(n) ==
    LET fits == {a \in DOMAIN hdr : hdr[a].free /\ hdr[a].size >= Align(n)}
        hits == Visited(hdr, fits) \cap fits
    IN IF hits = {} THEN NULL ELSE CHOOSE b \in hits : TRUE

With(f, a, v) == [x \in DOMAIN f \cup {a} |-> IF x = a THEN v ELSE f[x]]

Header(a) == a..(a + HEADER - 1)
Bytes(b, size) == (b + HEADER)..(b + HEADER + size - 1)

(* The headers of h that survive a write to some bytes.                    *)
Overwritten(h, bytes) == [a \in {x \in DOMAIN h : Header(x) \cap bytes = {}} |-> h[a]]

Split_header_uncounted(b, size) ==
    IF hdr[b].size > size + HEADER + SLACK
    THEN LET rest == b + HEADER + size
         IN With([hdr EXCEPT ![b] = [size |-> size, free |-> FALSE, next |-> rest]], rest,
                 [hdr[b] EXCEPT !.size = @ - size])
    ELSE [hdr EXCEPT ![b].free = FALSE]
(* The headers with block b taken, and the free block that is split off it *)
(* if there is one.                                                        *)
Split(b, size) ==
    IF hdr[b].size > size + HEADER + SLACK
    THEN LET rest == b + HEADER + size
             cut  == [hdr EXCEPT ![b] = [size |-> size, free |-> FALSE, next |-> rest]]
         IN With(Overwritten(cut, Header(rest)), rest,
                 [size |-> hdr[b].size - size - HEADER, free |-> TRUE, next |-> hdr[b].next])
    ELSE [hdr EXCEPT ![b].free = FALSE]

(* The headers once block b was given to a request for n bytes: its caller *)
(* may write to every byte of it.                                          *)
Granted(b, n) ==
    LET new == Split(b, Align(n)) IN Overwritten(new, Bytes(b, new[b].size))

(* first and the block that follows it become one block.                   *)
Merge(h, first) ==
    LET second == h[first].next IN
    [h EXCEPT ![first].size = @ + HEADER + h[second].size,
              ![first].next = h[second].next]

MergeNext(h, b) ==
    IF h[b].next # NULL /\ h[h[b].next].free THEN Merge(h, b) ELSE h

MergePrev_skipped(h, b) == h
MergePrev(h, b) ==
    LET prev == {a \in Blocks(h) : h[a].next = b /\ h[a].free}
    IN IF prev = {} THEN h ELSE Merge(h, CHOOSE a \in prev : TRUE)

Freed(h, b) == [h EXCEPT ![b].free = TRUE]
Released_unmarked_if_merged(h, b) ==
    LET merged == MergePrev(MergeNext(h, b), b)
    IN IF merged = h THEN Freed(h, b) ELSE merged
(* The headers h once block b was freed.                                   *)
Released(h, b) == MergePrev(MergeNext(Freed(h, b), b), b)

Without(b) == [a \in DOMAIN live \ {b} |-> live[a]]
(* Of the blocks given back, those left once block b has size bytes.       *)
StillFreed(b, size) == {a \in freed \ {b} : Header(a) \cap Bytes(b, size) = {}}

kmalloc(n) ==
    /\ FirstFit(n) # NULL
    /\ LET b == FirstFit(n) IN
        /\ hdr' = Granted(b, n)
        /\ total_allocated' = total_allocated + hdr'[b].size
        /\ live' = With(live, b, n)
        /\ freed' = StillFreed(b, hdr'[b].size)

kmalloc_fails(n) ==
    /\ FirstFit(n) = NULL
    /\ UNCHANGED vars

kfree_counts_merged(b) ==
    /\ ~hdr[b].free
    /\ hdr' = Released(hdr, b)
    /\ total_allocated' = total_allocated - MergeNext(Freed(hdr, b), b)[b].size
    /\ live' = Without(b)
    /\ freed' = freed \cup {b}
kfree(b) ==
    /\ ~hdr[b].free
    /\ hdr' = Released(hdr, b)
    /\ total_allocated' = total_allocated - hdr[b].size
    /\ live' = Without(b)
    /\ freed' = freed \cup {b}

(* The flag in the header, not the list, tells kfree of a second free.     *)
kfree_twice(b) ==
    /\ hdr[b].free
    /\ UNCHANGED vars

(* A block is taken for the n bytes before the old one is freed; when there*)
(* is none, the old one stays.  For 0 bytes realloc is free, for no old    *)
(* block it is malloc.                                                     *)
realloc(b, n) ==
    /\ n # 0 /\ FirstFit(n) # NULL
    /\ LET c == FirstFit(n) IN
        /\ hdr' = Released(Granted(c, n), b)
        /\ total_allocated' = total_allocated + Granted(c, n)[c].size - hdr[b].size
        /\ live' = With(Without(b), c, n)
        /\ freed' = StillFreed(c, Granted(c, n)[c].size) \cup {b}

(* A pointer is freed by its owner, and again by mistake.  What a second   *)
(* kfree does that reads a header of which some bytes were overwritten is  *)
(* not modelled: it is an action only where the header is intact.          *)
Next ==
    \/ \E n \in Requests : kmalloc(n) \/ kmalloc_fails(n)
    \/ \E b \in DOMAIN live : kfree(b)
    \/ \E b \in freed \cap DOMAIN hdr : kfree_twice(b)
    \/ \E b \in DOMAIN live, n \in Requests : realloc(b, n)

Spec == Init /\ [][Next]_vars

----------------------------------------------------------------------------
TypeOK ==
    /\ \A a \in DOMAIN hdr :
        /\ a \in Address /\ a % ALIGN = 0
        /\ hdr[a] \in [size : 0..(HEAP - HEADER), free : BOOLEAN,
                       next : Address \cup {NULL}]
    /\ total_allocated \in 0..HEAP
    /\ \A b \in DOMAIN live : b \in DOMAIN hdr /\ live[b] \in Requests
    /\ freed \subseteq Address

End(b) == b + HEADER + hdr[b].size

(* The blocks follow one another in list order without gap or overlap from *)
(* the start of the heap to its end: no two callers share a byte and no    *)
(* byte is lost, whatever was split and merged (kmalloc, kfree).           *)
CallersAreApart == \A b, c \in DOMAIN live :
    /\ Bytes(b, hdr[b].size) \subseteq Address
    /\ b # c => Bytes(b, hdr[b].size) \cap Bytes(c, hdr[c].size) = {}
BlocksTileTheHeap ==
    /\ \A b \in Blocks(hdr) :
        /\ hdr[b].next \in Blocks(hdr) \cup {NULL}
        /\ End(b) = IF hdr[b].next = NULL THEN START + HEAP ELSE hdr[b].next
    /\ CallersAreApart

(* kfree merges on both sides: two free blocks are never neighbours, so a  *)
(* request fails only when no run of free bytes is long enough.            *)
FreeBlocksAreMerged ==
    \A b \in Blocks(hdr) : hdr[b].free /\ hdr[b].next # NULL => ~hdr[hdr[b].next].free

(* A block is at least as long as its caller asked (kmalloc).              *)
RequestsAreMet == \A b \in DOMAIN live : hdr[b].size >= live[b]

(* The blocks not marked free are those callers own, each long enough for  *)
(* what its caller asked, and mm_stats' total_allocated is the number of   *)
(* bytes that some caller owns.                                            *)
UsedAreOwned == {b \in Blocks(hdr) : ~hdr[b].free} = DOMAIN live
OwnedBytes(h, owned) == UNION {Bytes(b, h[b].size) : b \in owned}
AllocatedIsLive ==
    /\ UsedAreOwned
    /\ RequestsAreMet
    /\ total_allocated = Cardinality(OwnedBytes(hdr, DOMAIN live))

(* kfree tells a second free by the flag in the header, which merging may  *)
(* have taken out of the list: as long as nothing was written over it, it  *)
(* says free, whatever was split and merged around it.                     *)
RepeatedFreeIsNoticed == \A b \in freed \cap DOMAIN hdr : hdr[b].free

(* "double free detected" (mm.c:83): a second kfree of a block whose header*)
(* was handed to nobody is noticed.  The flag lies at a quarter of the     *)
(* header; where another header begins ALIGN before, half of its next lies *)
(* over the flag, and that half of an address below 2^32 is 0.             *)
Flag(b) == b + HEADER \div 4
DoubleFreeIsDetected == \A b \in freed :
    /\ b \in DOMAIN hdr => hdr[b].free
    /\ \A a \in DOMAIN hdr \ {b} : Flag(b) \notin Header(a)
============================================================================
