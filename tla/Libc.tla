-------------------------------- MODULE Libc --------------------------------
(***************************************************************************)
(* What the functions of lib/libc that turn one form of data into another  *)
(* compute, the printk they print with and the address functions of        *)
(* lib/libnet/socket.c: operators on values.  A character is a string of   *)
(* length one, a C string the sequence of the characters before its NUL.   *)
(***************************************************************************)
EXTENDS Integers, Sequences, SequencesExt, FiniteSetsExt

CONSTANTS
    INT_MAX,            \* int is -INT_MAX - 1 .. INT_MAX and wraps
    WIDTH,              \* of an unsigned long, in bits
    SIZE                \* sizeof(buffer) in printf, 1024

Power[k \in 0..WIDTH] == IF k = 0 THEN 1 ELSE 2 * Power[k - 1]
ULONG == Power[WIDTH]   \* unsigned long is 0 .. ULONG - 1

ASSUME LibcAssumption ==
    /\ INT_MAX \in Nat /\ SIZE \in Nat \ {0, 1}
    /\ WIDTH \in Nat /\ ULONG >= 2 * (INT_MAX + 1)

IntMin == -INT_MAX - 1
UINT   == 2 * (INT_MAX + 1)     \* unsigned int is 0 .. UINT - 1
Wrapped(v) == ((v - IntMin) % UINT) + IntMin

Junk == "junk"          \* whatever lies where the code should not read

Digits == <<"0", "1", "2", "3", "4", "5", "6", "7", "8", "9", "a", "b", "c", "d", "e", "f",
            "g", "h", "i", "j", "k", "l", "m", "n", "o", "p", "q", "r", "s", "t", "u", "v",
            "w", "x", "y", "z">>
Decimal == {Digits[i] : i \in 1..10}
Worth(c) == (CHOOSE i \in 1..36 : Digits[i] = c) - 1

After(s, n) == SubSeq(s, n + 1, Len(s))
(* How many characters of set S the string s starts with.                  *)
Span(s, S) == Max({n \in 0..Len(s) : \A i \in 1..n : s[i] \in S})

----------------------------------------------------------------------------
(* Numbers.                                                                *)

(* The division of C, which truncates: the rest has the sign of v, and     *)
(* indexes the digits before their first.                                  *)
Quotient(v, base) == IF v < 0 THEN -((-v) \div base) ELSE v \div base
Digit(rest)       == IF rest < 0 THEN Junk ELSE Digits[rest + 1]

(* What is left of v after each turn of the loop, and the digits that the  *)
(* turns find, the last one first.                                         *)
Numeral(v, base) ==
    LET rest[k \in 0..WIDTH] == IF k = 0 THEN v ELSE Quotient(rest[k - 1], base)
        n == 1 + Cardinality({k \in 1..WIDTH : rest[k] # 0})
    IN [i \in 1..n |-> Digit(rest[n - i] - rest[n - i + 1] * base)]

(* itoa in stdio.c: only base 10 has a sign, and -IntMin is IntMin.        *)
Signed(value, base) ==
    IF value < 0 /\ base = 10 THEN <<"-">> \o Numeral(Wrapped(-value), 10)
    ELSE Numeral(value, base)

(* itoa in stdlib.c.                                                       *)
itoa(value, base) == IF base \in 2..36 THEN Signed(value, base) ELSE << >>

Blanks == {" ", "\t", "\n", "\r"}
(* The number that the first n digits say, in an int.                      *)
Read(digits, n) ==
    LET result[k \in 0..n] ==
          IF k = 0 THEN 0 ELSE Wrapped(result[k - 1] * 10 + Worth(digits[k]))
    IN result[n]

atoi_blind_to_sign(str) ==
    LET s == After(str, Span(str, Blanks)) IN Read(s, Span(s, Decimal))
atoi(str) ==
    LET s == After(str, Span(str, Blanks))
        t == IF s # << >> /\ s[1] \in {"-", "+"} THEN Tail(s) ELSE s
        n == Read(t, Span(t, Decimal))
    IN IF s # << >> /\ s[1] = "-" THEN Wrapped(-n) ELSE n

----------------------------------------------------------------------------
(* Formats.  arg holds what each directive finds among the arguments; the  *)
(* formats that callers use agree with their arguments.  A null string,    *)
(* which printf skips (stdio.c:80) and printk does not look for, is not    *)
(* among them.                                                             *)

Piece(directive, arg) ==
    CASE directive = "d" -> Signed(arg.d, 10)
      [] directive = "x" -> Signed(arg.d, 16)
      [] directive = "s" -> arg.s
      [] directive = "c" -> <<arg.c>>
      [] directive = "%" -> <<"%">>

Filled_to_the_end(buf, piece, size) ==
    buf \o SubSeq(piece, 1, Min({Len(piece), size - Len(buf)}))
(* As much of a piece as leaves a byte for the NUL.                        *)
Filled(buf, piece, size) ==
    buf \o SubSeq(piece, 1, Min({Len(piece), size - 1 - Len(buf)}))

(* The interpreters go over a format from its first character on, a turn   *)
(* for each directive and for each other character: the place they are at, *)
(* and the text so far.                                                    *)
Begin == [at |-> 1, text |-> << >>]
Directive(fmt, at) == fmt[at] = "%" /\ at < Len(fmt)
Known == {"d", "x", "s", "c", "%"}

(* printf into buffer: a directive it does not know is copied, if there is *)
(* room for both of its characters.                                        *)
printf_turn(p, fmt, arg, size) ==
    IF p.at > Len(fmt) THEN p
    ELSE IF ~Directive(fmt, p.at)
    THEN [at |-> p.at + 1, text |-> Filled(p.text, <<fmt[p.at]>>, size)]
    ELSE [at |-> p.at + 2,
          text |-> IF fmt[p.at + 1] \in Known
                   THEN Filled(p.text, Piece(fmt[p.at + 1], arg), size)
                   ELSE IF Len(p.text) < size - 2 THEN p.text \o <<"%", fmt[p.at + 1]>>
                   ELSE p.text]
Formatted(fmt, arg, size) ==
    LET turn[k \in 0..Len(fmt)] ==
          IF k = 0 THEN Begin ELSE printf_turn(turn[k - 1], fmt, arg, size)
    IN turn[Len(fmt)].text

(* sprintf has no limit.                                                   *)
sprintf_turn(p, fmt, arg) ==
    IF p.at > Len(fmt) THEN p
    ELSE IF ~Directive(fmt, p.at)
    THEN [at |-> p.at + 1, text |-> p.text \o <<fmt[p.at]>>]
    ELSE [at |-> p.at + 2,
          text |-> p.text \o (IF fmt[p.at + 1] \in Known THEN Piece(fmt[p.at + 1], arg)
                              ELSE <<"%", fmt[p.at + 1]>>)]
sprintf(fmt, arg) ==
    LET turn[k \in 0..Len(fmt)] ==
          IF k = 0 THEN Begin ELSE sprintf_turn(turn[k - 1], fmt, arg)
    IN turn[Len(fmt)].text

(* printk does not look for the end of the format after a percent sign. No *)
(* format in the image ends in one, or in %l.                              *)
Complete(fmt) ==
    /\ Last(<<"a">> \o fmt) # "%"
    /\ ~(Len(fmt) > 1 /\ Last(fmt) = "l" /\ fmt[Len(fmt) - 1] = "%")

(* The loop of printk's own print_num, over what is left of the number.    *)
Buf(num, base) ==
    LET left[k \in 0..WIDTH] == IF k = 0 THEN num ELSE left[k - 1] \div base
        i == Cardinality({k \in 0..WIDTH : left[k] > 0})
    IN [k \in 1..i |-> Digits[1 + (left[i - k] % base)]]
print_num_no_zero(num, base) == Buf(num % ULONG, base)
(* What is printed becomes an unsigned long, for %x from an unsigned int.  *)
print_num(num, base) == IF num % ULONG = 0 THEN <<"0">> ELSE Buf(num % ULONG, base)
printk_turn(p, fmt, arg) ==
    LET next == fmt[p.at + 1]
        long == fmt[p.at + 2]
    IN IF p.at > Len(fmt) THEN p
       ELSE IF fmt[p.at] # "%"
       THEN [at |-> p.at + 1, text |-> p.text \o <<fmt[p.at]>>]
       ELSE IF next = "l"
       THEN [at |-> p.at + 3,
             text |-> p.text \o (CASE long = "x" -> print_num(arg.d, 16)
                                   [] long = "d" -> print_num(arg.d, 10)
                                   [] OTHER      -> <<"%", "l", long>>)]
       ELSE [at |-> p.at + 2,
             text |-> p.text \o
                (CASE next \in {"d", "i"} -> print_num(arg.d, 10)
                   [] next = "x" -> print_num(arg.d % UINT, 16)
                   [] next \in {"s", "c", "%"} -> Piece(next, arg)
                   [] OTHER -> <<"%", next>>)]
printk(fmt, arg) ==
    LET turn[k \in 0..Len(fmt)] ==
          IF k = 0 THEN Begin ELSE printk_turn(turn[k - 1], fmt, arg)
    IN turn[Len(fmt)].text

(* uart_putc adds a carriage return to each newline.                       *)
uart_puts(text) == FlattenSeq([i \in 1..Len(text) |->
                       IF text[i] = "\n" THEN <<"\n", "\r">> ELSE <<text[i]>>])

(* syscall_write: the length and the text are arguments of a format that   *)
(* printk does not know.                                                   *)
syscall_write(text) == uart_puts(printk(<<"%", ".", "*", "s">>, [s |-> text, d |-> Len(text)]))

puts(str)  == syscall_write(str) \o syscall_write(<<"\n">>)
putchar(c) == syscall_write(<<c>>)

----------------------------------------------------------------------------
(* Addresses: four bytes, the most significant one first.                  *)

inet_ntoa(addr) ==
    LET Three(b) == <<Digits[1 + (b \div 100)], Digits[1 + ((b \div 10) % 10)], Digits[1 + (b % 10)]>>
    IN Three(addr[1]) \o <<".">> \o Three(addr[2]) \o <<".">>
       \o Three(addr[3]) \o <<".">> \o Three(addr[4])

Invalid == <<0, 0, 0, 0>>

(* The loop of inet_addr: the parts before the dots, and the one it is in. *)
Part(parts, c) ==
    IF c = "." THEN Append(parts, 0)
    ELSE [parts EXCEPT ![Len(parts)] = @ * 10 + Worth(c)]
Parts(cp) ==
    LET read[k \in 0..Len(cp)] == IF k = 0 THEN <<0>> ELSE Part(read[k - 1], cp[k])
    IN read[Len(cp)]

(* One bit of a byte, and the bits of all bytes in a set.                  *)
Bit(x, i) == (x \div <<1, 2, 4, 8, 16, 32, 64, 128>>[i]) % 2
Or(bytes) == CHOOSE x \in 0..255 : \A i \in 1..8 : Bit(x, i) = Max({Bit(m, i) : m \in bytes})
(* A part that does not fit in a byte is or-ed into those before its own.  *)
Bytes(parts) == [i \in 1..4 |->
    Or({(parts[j] \div <<1, 256, 65536, 16777216>>[j - i + 1]) % 256 : j \in i..4})]

Dotted(cp) == ToSet(cp) \subseteq Decimal \cup {"."}
inet_addr_of_any_length(cp) ==
    IF Dotted(cp) THEN Bytes(Parts(cp) \o <<0, 0, 0>>) ELSE Invalid
inet_addr(cp) == IF Dotted(cp) /\ Len(Parts(cp)) = 4 THEN Bytes(Parts(cp)) ELSE Invalid
=============================================================================
