------------------------------ MODULE Libraries ------------------------------
(***************************************************************************)
(* The programs of the image, and beside them single calls of libc.        *)
(***************************************************************************)
EXTENDS Programs, Libc

CONSTANTS
    Bases, Addresses, AddressTexts,
    Formats, Arguments  \* what is printed

ASSUME LibrariesAssumption ==
    /\ \A fmt \in Formats : fmt \in Seq(STRING)
    /\ \A arg \in Arguments :
          arg.d \in IntMin..INT_MAX /\ arg.s \in Seq(STRING) /\ arg.c \in STRING
    /\ \A addr \in Addresses : addr \in [1..4 -> 0..255]
    /\ \A cp \in AddressTexts : cp \in Seq(STRING)

VARIABLES
    call,               \* history: the last call of libc
    uart                \* history: what it put on the serial line

callVars == <<call, uart>>

NoCall == [fn |-> "none"]

LibrariesInit == Init /\ call = NoCall /\ uart = << >>

----------------------------------------------------------------------------
(* Single calls of libc.  It keeps nothing between calls and shares        *)
(* nothing with the rest: they are made where nothing else happened yet.   *)

Fresh == /\ net = Booted(MAX_MESSAGES)
         /\ pool.free = 0 /\ interrupt_count = 0 /\ received = << >>
         /\ call = NoCall

Calls(c, line) ==
    /\ call' = c /\ uart' = line
    /\ UNCHANGED vars

convert_number == \E value \in IntMin..INT_MAX, base \in Bases :
    Calls([fn |-> "itoa", value |-> value, base |-> base, text |-> itoa(value, base)], << >>)

convert_address ==
    \/ \E addr \in Addresses :
        Calls([fn |-> "inet_ntoa", addr |-> addr, text |-> inet_ntoa(addr)], << >>)
    \/ \E cp \in AddressTexts :
        Calls([fn |-> "inet_addr", addr |-> inet_addr(cp), text |-> cp], << >>)

print == \E fmt \in Formats, arg \in Arguments :
    \/ LET text == Formatted(fmt, arg, SIZE)
       IN Calls([fn |-> "printf", fmt |-> fmt, arg |-> arg, text |-> text],
                syscall_write(text))
    \/ Calls([fn |-> "puts", text |-> arg.s], puts(arg.s))
    \/ Calls([fn |-> "putchar", text |-> <<arg.c>>], putchar(arg.c))
    \/ /\ Complete(fmt)
       /\ Calls([fn |-> "printk", fmt |-> fmt, arg |-> arg, text |-> << >>],
                uart_puts(printk(fmt, arg)))

convert == convert_number \/ convert_address \/ print

LibrariesNext ==
    \/ mem = EmptyStrings /\ call = NoCall /\ program /\ UNCHANGED callVars
    \/ Fresh /\ mem = EmptyStrings /\ convert
    \/ Fresh /\ strings /\ UNCHANGED callVars

LibrariesSpec == LibrariesInit /\ [][LibrariesNext]_<<vars, callVars>>

----------------------------------------------------------------------------
(* What the digits of a text are worth in some base.                       *)
Value(text, base) ==
    LET value[k \in 0..Len(text)] ==
          IF k = 0 THEN 0 ELSE value[k - 1] * base + Worth(text[k])
    IN value[Len(text)]

(* What itoa writes, atoi reads, except the least int; in other bases the  *)
(* digits are worth the number, if it is not negative.                     *)
NumbersReadBack == call.fn = "itoa" =>
    /\ call.base = 10 /\ call.value # IntMin => atoi(call.text) = call.value
    /\ call.base \in 2..36 /\ call.value >= 0 =>
        Value(call.text, call.base) = call.value
    /\ call.base \notin 2..36 => call.text = << >>

(* An address that is written is read back; a text that does not have four *)
(* parts names no host.                                                    *)
AddressesReadBack ==
    /\ call.fn = "inet_ntoa" => inet_addr(call.text) = call.addr
    /\ call.fn = "inet_addr" /\ call.addr # Invalid =>
        Cardinality({i \in DOMAIN call.text : call.text[i] = "."}) = 3

(* printf stays in its buffer, and what fits in it is what sprintf writes. *)
PrintfFits == call.fn = "printf" =>
    /\ Len(call.text) < SIZE
    /\ Len(sprintf(call.fmt, call.arg)) < SIZE => call.text = sprintf(call.fmt, call.arg)

(* The kernel's printk and libc's sprintf, each with a loop of its own for *)
(* numbers, agree on the directives they share, but that printk shows the  *)
(* number without a sign: %d as the unsigned long and %x as the unsigned   *)
(* int that it becomes (printk.c:44-47), which is the number itself if it  *)
(* is not negative.                                                        *)
PrintkAgrees == call.fn = "printk" /\ ToSet(call.fmt) \cap {"l", "i"} = {} =>
    LET shown(number) == uart_puts(sprintf(call.fmt, [call.arg EXCEPT !.d = number]))
    IN /\ "x" \notin ToSet(call.fmt) => uart = shown(call.arg.d % ULONG)
       /\ "d" \notin ToSet(call.fmt) => uart = shown(call.arg.d % UINT)
       /\ call.arg.d >= 0 => uart = shown(call.arg.d)

(* PHASE5_SUMMARY.md:18 "printf() with support for %d, %x, %s, %c": the    *)
(* text that printf made is what the console shows.                        *)
PrintfReachesTheConsole == call.fn = "printf" => uart = uart_puts(call.text)
=============================================================================
