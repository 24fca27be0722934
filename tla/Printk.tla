------------------------------- MODULE Printk -------------------------------
(***************************************************************************)
(* The formatting of printk.c, itoa.c and string.c.  A string is a sequence *)
(* of one-character strings.  Numbers have their width: an int has IntBits *)
(* bits, a long long has LongBits bits.                                    *)
(***************************************************************************)
EXTENDS Integers, Sequences, SequencesExt, Functions

CONSTANTS IntBits, LongBits

ASSUME PrintkAssumption ==
    IntBits \in Nat \ {0} /\ LongBits \in Nat /\ IntBits < LongBits

LongLong == -(2 ^ (LongBits - 1)) .. 2 ^ LongBits - 1
LLONG_MIN == -(2 ^ (LongBits - 1))

\* Division in C rounds towards zero; the remainder has the sign of n.
Quot(n, base) == IF n < 0 THEN -((-n) \div base) ELSE n \div base
Rem(n, base)  == n - base * Quot(n, base)

\* The character of a digit: d + '0', or d - 10 + 'a'.  The characters below '0'
\* stand for the digits of a negative number.
Below == <<"/", ".", "-", ",", "+", "*", ")", "(", "'">>
Digits == <<"0", "1", "2", "3", "4", "5", "6", "7", "8", "9", "a", "b", "c", "d", "e", "f">>
Capitals == <<"A", "B", "C", "D", "E", "F">>
DigitChar(d) == IF d < 0 THEN Below[-d] ELSE Digits[d + 1]

\* The loops of itoa, uitoa and uitoa_hex: the lowest digit comes first.
LowestFirst(value, base) ==
    LET loop[n \in LongLong] ==
            IF n = 0 THEN <<>> ELSE <<DigitChar(Rem(n, base))>> \o loop[Quot(n, base)]
    IN  loop[value]

strrev(s) == Reverse(s)

toupper(ch) ==
    IF \E d \in 11 .. 16 : Digits[d] = ch
    THEN Capitals[(CHOOSE d \in 11 .. 16 : Digits[d] = ch) - 10] ELSE ch
strupper(s) == [i \in DOMAIN s |-> toupper(s[i])]

\* Mutation: the sign is reversed with the digits.
SignReversed(value) ==
    IF value = 0 THEN <<"0">>
    ELSE IF value < 0 THEN strrev(<<"-">> \o LowestFirst(-value, 10))
    ELSE strrev(LowestFirst(value, 10))

\* The negation of the smallest long long is that number itself.
itoa(value) ==
    IF value = 0 THEN <<"0">>
    ELSE IF value < 0
         THEN <<"-">> \o strrev(LowestFirst(IF value = LLONG_MIN THEN value ELSE -value, 10))
    ELSE strrev(LowestFirst(value, 10))

\* The digits are not reversed.
uitoa(value) == IF value = 0 THEN <<"0">> ELSE LowestFirst(value, 10)

uitoa_hex(value) == IF value = 0 THEN <<"0">> ELSE strrev(LowestFirst(value, 16))

log_level_to_vga_color(level) ==
    CASE level = "PRINTK_DEBUG" -> "light grey"
      [] level = "PRINTK_WARN"  -> "brown"
      [] level = "PRINTK_ERROR" -> "red"
      [] OTHER                  -> "black"

\* The characters of a string, the terminating null byte included.
CharAt(s, i) == IF i \in DOMAIN s THEN s[i] ELSE "null"

\* What vprintk prints for the specifier at position i, where fmt[i] is '%', and
\* the position behind it.  "args" has a value for each type of argument.
Unknown == [known |-> FALSE, text |-> <<>>, next |-> 0]
Known(text, next) == [known |-> TRUE, text |-> text, next |-> next]

specifier(fmt, i, args) ==
    LET flag == CharAt(fmt, i + 1)
        at   == IF flag \in {"#", "-", "+", " ", "0"} THEN i + 2 ELSE i + 1
        conv == CharAt(fmt, at)
        hash == IF flag = "#" THEN <<"0", "x">> ELSE <<>>
        long == CharAt(fmt, at + 2)
    IN  CASE conv = "%" -> Known(<<"%">>, at + 1)
          [] conv \in {"d", "i"} -> Known(itoa(args.int), at + 1)
          [] conv = "u" -> Known(itoa(args.uint), at + 1)
          [] conv = "x" -> Known(hash \o uitoa_hex(args.uint), at + 1)
          [] conv = "X" -> Known(hash \o strupper(uitoa_hex(args.uint)), at + 1)
          [] conv = "c" -> Known(<<args.char>>, at + 1)
          [] conv = "s" -> Known(args.string, at + 1)
          [] conv = "l" /\ at + 2 <= Len(fmt) /\ CharAt(fmt, at + 1) = "l" ->
                CASE long \in {"d", "i"} -> Known(itoa(args.ll), at + 3)
                  [] long = "u" -> Known(uitoa(args.ull), at + 3)
                  [] long \in {"x", "X"} -> Known(hash \o uitoa_hex(args.ull), at + 3)
                  [] OTHER -> Unknown
          [] OTHER -> Unknown

\* The position of the first '%' from i on, or the end of the string.
NextPercent(fmt, i) ==
    CHOOSE j \in i .. Len(fmt) + 1 :
        /\ CharAt(fmt, j) \in {"%", "null"}
        /\ \A k \in i .. j - 1 : fmt[k] # "%"
-----------------------------------------------------------------------------
(* The reference: the text a format stands for, by tables.                 *)

\* The numeral of n, by the weight of its places.
Numeral(n, base) ==
    LET len == CHOOSE k \in 1 .. LongBits : base ^ k > n /\ (k > 1 => base ^ (k - 1) <= n)
    IN  [k \in 1 .. len |-> DigitChar((n \div base ^ (len - k)) % base)]
Signed(n) == IF n < 0 THEN <<"-">> \o Numeral(-n, 10) ELSE Numeral(n, 10)

Conversion == {<<"%">>, <<"d">>, <<"i">>, <<"u">>, <<"x">>, <<"X">>, <<"c">>, <<"s">>} \cup
              {<<"l", "l", conv>> : conv \in {"d", "i", "u", "x", "X"}}
Flag == {<<>>, <<"#">>, <<"-">>, <<"+">>, <<" ">>, <<"0">>}

\* The meaning of a conversion.  Two differ from the C library: %llu shows the
\* digits from the lowest to the highest, and %llX has small letters.
Meaning(flag, conv, args) ==
    LET type == Last(conv)
        unsigned == IF Len(conv) = 3 THEN args.ull ELSE args.uint
        hex  == (IF flag = <<"#">> THEN <<"0", "x">> ELSE <<>>) \o Numeral(unsigned, 16)
    IN  CASE type = "%" -> <<"%">>
          [] type \in {"d", "i"} -> Signed(IF Len(conv) = 3 THEN args.ll ELSE args.int)
          [] conv = <<"u">> -> Numeral(args.uint, 10)
          [] conv = <<"l", "l", "u">> -> Reverse(Numeral(args.ull, 10))
          [] conv = <<"X">> -> [k \in DOMAIN hex |-> IF k = 2 /\ flag = <<"#">> THEN "x"
                                                     ELSE toupper(hex[k])]
          [] type \in {"x", "X"} -> hex
          [] type = "c" -> <<args.char>>
          [] type = "s" -> args.string

\* The text of a format up to its end or to the first thing that is no
\* conversion, and whether the end was reached.
Formatted(fmt, args) ==
    LET rest[i \in 1 .. Len(fmt) + 1] ==
            IF i > Len(fmt) THEN [text |-> <<>>, valid |-> TRUE]
            ELSE IF fmt[i] # "%"
                 THEN [rest[i + 1] EXCEPT !.text = <<fmt[i]>> \o @]
            ELSE LET here == {s \in Flag \X Conversion :
                                IsPrefix(<<"%">> \o s[1] \o s[2], SubSeq(fmt, i, Len(fmt)))}
                 IN  IF here = {} THEN [text |-> <<>>, valid |-> FALSE]
                     ELSE LET s == CHOOSE pair \in here : TRUE
                          IN  [rest[i + 1 + Len(s[1] \o s[2])]
                                EXCEPT !.text = Meaning(s[1], s[2], args) \o @]
    IN  rest[1]
=============================================================================
