------------------------------- MODULE Format -------------------------------
(***************************************************************************)
(* vsnprintf (tty/vsnprintf.c): the text of a format and its arguments,    *)
(* and the numerals in it.  A character is a string of length one; a       *)
(* format, a text and a string argument are sequences of them; a numeric   *)
(* argument is what the argument list holds, a number of LongBits bits.    *)
(***************************************************************************)
LOCAL INSTANCE Integers
LOCAL INSTANCE Sequences
LOCAL INSTANCE SequencesExt
LOCAL INSTANCE FiniteSetsExt

CONSTANTS
    IntBits,   \* width of an int, 32 in the code
    LongBits   \* width of a long and of a pointer, 64 in the code

ASSUME FormatAssumption ==
    /\ IntBits \in Nat /\ LongBits \in Nat
    /\ IntBits % 4 = 0 /\ 0 < IntBits /\ IntBits < LongBits

Signed(bits, v) ==
    LET u == v % 2^bits IN IF u >= 2^(bits-1) THEN u - 2^bits ELSE u

digits_lower == <<"0", "1", "2", "3", "4", "5", "6", "7", "8", "9",
                  "a", "b", "c", "d", "e", "f">>
digits_upper == SubSeq(digits_lower, 1, 10)
                    \o <<"A", "B", "C", "D", "E", "F">>
IS_DIGIT(c) == \E d \in 1..10 : c = digits_lower[d]
Unlimited == -1

(***************************************************************************)
(* num_fmt: digits from the last one on while the number is not zero and   *)
(* the length not used up, then the padding, then the sign.                *)
(***************************************************************************)
Magnitude_kept(i, base) == i % 2^LongBits
Magnitude(i, base) ==
    (IF i < 0 /\ base # 16 THEN -i ELSE i) % 2^LongBits

NumeralOf(digits, u, base, limit) ==
    LET put[v \in Nat, room \in Int] ==
            LET d == <<digits[(v % base) + 1]>>
            IN  IF v \div base = 0 \/ room = 1 THEN d
                ELSE put[v \div base, room - 1] \o d
    IN  put[u, limit]

num_fmt(i, base, padding, pad_with, upper, limit) ==
    LET digits  == IF upper THEN digits_upper ELSE digits_lower
        numeral == NumeralOf(digits, Magnitude(i, base), base, limit)
        short   == Max({0, padding - Len(numeral)})
        pads    == [k \in 1..short |-> pad_with]
        sign    == IF i < 0 /\ base # 16 THEN <<"-">> ELSE <<>>
    IN  sign \o pads \o numeral

(***************************************************************************)
(* The conversion that starts after the percent sign at position i - 1.    *)
(***************************************************************************)
Past(fmt, i, S) ==
    CHOOSE j \in i..Len(fmt)+1 :
        /\ j = Len(fmt) + 1 \/ fmt[j] \notin S
        /\ \A k \in i..j-1 : fmt[k] \in S

Decimal(s) ==
    FoldLeft(LAMBDA n, c :
                 10 * n + (CHOOSE d \in 0..9 : digits_lower[d+1] = c), 0, s)

Conversion(fmt, i) ==
    LET zero  == fmt[i] = "0"
        first == IF zero THEN i + 1 ELSE i
        wide  == Past(fmt, first, {c \in ToSet(fmt) : IS_DIGIT(c)})
        at    == Past(fmt, wide, {"l"})
    IN  [pad_with |-> IF zero THEN "0" ELSE " ",
         padding  |-> Decimal(SubSeq(fmt, first, wide - 1)),
         wide     |-> at > wide,
         at       |-> at]

\* The characters a conversion puts; %u is treated as %d is.
Converted(type, c, arg) ==
    LET bits == IF c.wide \/ type \in {"p", "P"} THEN LongBits ELSE IntBits
        Numeral(base, limit) ==
            num_fmt(Signed(bits, arg), base, c.padding, c.pad_with,
                    type \in {"X", "P"}, limit)
    IN  CASE type \in {"d", "u"}           -> Numeral(10, Unlimited)
          [] type = "o"                    -> Numeral(8, Unlimited)
          [] type \in {"x", "X", "p", "P"} -> Numeral(16, bits \div 4)
          [] type = "c"                    -> <<arg>>
          [] type = "s"                    -> arg
          [] type = "%"                    -> <<"%">>
          [] OTHER                         -> <<>>

TakesArgument == {"c", "d", "u", "o", "x", "X", "p", "P", "s"}

(***************************************************************************)
(* The text left in the buffer.  FMT_PUT counts what conversions put       *)
(* against the length, and gives up when none is left; a character of the  *)
(* format itself is not counted.  Dots follow when the length is used up,  *)
(* although all may have been put.                                         *)
(***************************************************************************)
FMT_PUT(text, room) == SubSeq(text, 1, Min({room, Len(text)}))

vsnprintf(size, fmt, args) ==
    LET Dots == <<".", ".", ".">>
        put[i \in Nat, a \in Nat, room \in Nat] ==
            IF room = 0 THEN Dots
            ELSE IF i > Len(fmt) THEN <<>>
            ELSE IF fmt[i] # "%" THEN <<fmt[i]>> \o put[i + 1, a, room]
            ELSE LET c     == Conversion(fmt, i + 1)
                     type  == fmt[c.at]
                     takes == type \in TakesArgument
                     text  == Converted(type, c, IF takes THEN args[a] ELSE 0)
                     put_c == FMT_PUT(text, room)
                 IN  put_c \o put[c.at + 1, IF takes THEN a + 1 ELSE a,
                                  Max({0, room - Len(text)})]
    IN  put[1, 1, size]

-----------------------------------------------------------------------------
\* Reference definitions, by reading the text back.
DigitValue(c) ==
    CHOOSE d \in 0..15 : c \in {digits_lower[d+1], digits_upper[d+1]}
Value(s, base) == FoldLeft(LAMBDA n, c : base * n + DigitValue(c), 0, s)
ReadBack(s, base) ==
    IF s[1] = "-" THEN -Value(Tail(s), base) ELSE Value(s, base)

NumeralReadsBack(wide, type, width) ==
    LET bits == IF wide THEN LongBits ELSE IntBits
        base == CASE type = "d" -> 10 [] type = "o" -> 8 [] OTHER -> 16
        fmt  == <<"%", "0", digits_lower[width + 1]>>
                    \o (IF wide THEN <<"l">> ELSE <<>>) \o <<type>>
    IN  \A i \in -(2^(bits-1)) .. 2^(bits-1) - 1 :
            LET s == vsnprintf(100, fmt, <<i % 2^LongBits>>)
            IN  /\ ReadBack(s, base) = IF base = 16 THEN i % 2^bits ELSE i
                /\ Len(s) >= width + (IF s[1] = "-" THEN 1 ELSE 0)
AllReadBack ==
    \A wide \in BOOLEAN, type \in {"d", "o", "x", "X"}, width \in 0..3 :
        NumeralReadsBack(wide, type, width)

WholeOrDotted(size, args) ==
    LET fmt   == <<"x", "%", "s", ":", "%", "2", "d", "%", "%">>
        whole == vsnprintf(100, fmt, args)
        text  == vsnprintf(size, fmt, args)
    IN  \/ text = whole /\ Len(whole) - 2 < size
        \/ /\ Len(text) <= size + 3 + 2
           /\ \E k \in 0..Len(whole) :
                  text = SubSeq(whole, 1, k) \o <<".", ".", ".">>
AllWholeOrDotted ==
    \A size \in 1..5, n \in {0, 9, 2^IntBits - 1},
       s \in {<<>>, <<"a">>, <<"a", "b">>} : WholeOrDotted(size, <<s, n>>)
=============================================================================
