------------------------------- MODULE Strings -------------------------------
(***************************************************************************)
(* The functions of lib/libc/string.c on one memory: mem[a] is the byte at *)
(* address a.  A call is the memory it leaves; source and destination do   *)
(* not overlap.                                                            *)
(***************************************************************************)
EXTENDS Integers, Sequences, FiniteSetsExt

CONSTANT CAPACITY   \* size of each of the two buffers for strings

ASSUME StringsAssumption == CAPACITY \in Nat \ {0}

NUL == "nul"

VARIABLE mem        \* two buffers for strings, one after the other

Buffer == {0, CAPACITY}
Chars  == {"a", "b"}
EmptyStrings == [a \in 0..(2 * CAPACITY - 1) |-> NUL]

----------------------------------------------------------------------------
(* What lies at str before the first NUL; the functions read on to it.     *)
strlen(str) ==
    Min({n \in 0..Cardinality(DOMAIN mem) : str + n \notin DOMAIN mem \/ mem[str + n] = NUL})
Text(str) == [i \in 1..strlen(str) |-> mem[str + i - 1]]

(* The bytes of data written from dest on.                                 *)
Stored(dest, data) ==
    [a \in DOMAIN mem |-> IF a - dest \in 0..(Len(data) - 1) THEN data[a - dest + 1] ELSE mem[a]]

strcpy(dest, src) == Stored(dest, Append(Text(src), NUL))

strcat_after_the_NUL(dest, src) == strcpy(dest + strlen(dest) + 1, src)
strcat(dest, src) == strcpy(dest + strlen(dest), src)

(* A string of n or more leaves no NUL; a shorter one is padded.           *)
strncpy(dest, src, n) ==
    Stored(dest, [i \in 1..n |-> IF i <= strlen(src) THEN mem[src + i - 1] ELSE NUL])

memset(ptr, value, n) == Stored(ptr, [i \in 1..n |-> value])
memcpy(dest, src, n)  == Stored(dest, [i \in 1..n |-> mem[src + i - 1]])

----------------------------------------------------------------------------
(* What a caller may do with buffers of known size: the copy has room.     *)
Other(buf) == CAPACITY - buf
use_strings == \E dest \in Buffer :
    LET src == Other(dest) IN
    \/ mem' = strcpy(dest, src)
    \/ /\ strlen(dest) + strlen(src) < CAPACITY
       /\ mem' = strcat(dest, src)
    \/ \E n \in 1..(CAPACITY - 1) :
        \/ mem' = strncpy(dest, src, n)
        \/ mem' = memcpy(dest, src, n)
        \/ \E value \in Chars \cup {NUL} : mem' = memset(dest, value, n)

(* Callers that leave the last byte of a buffer alone never lose the end   *)
(* of a string, whatever they call and in whatever order.                  *)
StringsEnd == \A buf \in Buffer : \E n \in 0..(CAPACITY - 1) : mem[buf + n] = NUL
=============================================================================
