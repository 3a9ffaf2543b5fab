------------------------------- MODULE Printf --------------------------------
(***************************************************************************)
(* The text lib/printf.c makes of a format and its arguments.  Characters  *)
(* are one-letter strings; a C string is a sequence that ends in NUL, the  *)
(* null pointer is <<>>.  An argument is a record of num, what its         *)
(* register holds as a uint64, and str, what it points to.                 *)
(*                                                                         *)
(* The number of bits in a byte and the larger of the two padded bases are *)
(* parameters (8 and 16 in the code), so that all values of the widest     *)
(* type can be enumerated; the sizes of the types in bytes are the code's. *)
(***************************************************************************)
EXTENDS Integers, Sequences, FiniteSets

CONSTANTS BITS, HEX

HexBits == IF HEX = 4 THEN 2 ELSE 4     \* HEX = 2^HexBits

ASSUME ScaleAssumption == HEX \in {4, 16} /\ BITS \in Nat \ {0} /\ BITS % HexBits = 0

NUL == "NUL"
digits(d) == <<"0", "1", "2", "3", "4", "5", "6", "7",
               "8", "9", "a", "b", "c", "d", "e", "f">>[d + 1]

\* The values of an unsigned type of so many bytes, and conversion to a signed one.
Modulus(bytes) == 2^(BITS * bytes)
unsigned(num, bytes) == num % Modulus(bytes)
signed(num, bytes) ==
    LET u == unsigned(num, bytes)
    IN  IF 2 * u < Modulus(bytes) THEN u ELSE u - Modulus(bytes)

\* buf[] backwards.
print_uint(num, base) ==
    LET buf[tmp \in Nat] ==
          IF tmp < base THEN <<digits(tmp)>>
          ELSE Append(buf[tmp \div base], digits(tmp % base))
    IN  buf[num]

\* The digits start .. end - 1, taken from the top of the shifted word.
print_padded(num, base, bytes) ==
    LET bits_in_char == CHOOSE n \in 1 .. base : 2^n = base
        chars_for_byte == BITS \div bits_in_char
        start == (8 - bytes) * chars_for_byte
        top(i) == (unsigned(num * 2^(bits_in_char * i), 8))
                    \div (Modulus(8) \div 2^bits_in_char)
        chars[i \in start - 1 .. 8 * chars_for_byte - 1] ==
          IF i < start THEN <<>>
          ELSE chars[i - 1]
                 \o (IF i # start /\ bits_in_char = 1 /\ i % chars_for_byte = 0
                     THEN <<"_">> ELSE <<>>)
                 \o <<digits(top(i))>>
    IN  chars[8 * chars_for_byte - 1]

print_number(num, base, length) ==
    IF base \in {2, HEX} THEN print_padded(num, base, length) ELSE print_uint(num, base)

PRINT_UINT(arg, base, length) == print_number(unsigned(arg, length), base, length)

\* Faulty: the sign is printed and the value is not negated.
PRINT_INT_unnegated(arg, base, length) ==
    LET var == signed(arg, length)
    IN  (IF var < 0 THEN <<"-">> ELSE <<>>)
          \o print_number(unsigned(var, 8), base, length)

\* -var is converted back to the type of var, and then to uint64.
PRINT_INT(arg, base, length) ==
    LET var == signed(arg, length)
    IN  IF var < 0
        THEN <<"-">> \o print_number(unsigned(signed(-var, length), 8), base, length)
        ELSE print_number(var, base, length)

\* Faulty: the terminating zero is printed too.
Chars_and_end(s) == s

\* A NUL-terminated string without its end.
Chars(s) == SubSeq(s, 1, Len(s) - 1)

null_text == <<"(", "n", "u", "l", "l", ")">>

(***************************************************************************)
(* The scanner, from the character after a '%': base, length and the       *)
(* position of the type.                                                   *)
(***************************************************************************)
scan_spec(fmt, i) ==
    LET base == CASE fmt[i] = "b" -> 2 [] fmt[i] = "x" -> HEX [] OTHER -> 10
        j == IF base = 10 THEN i ELSE i + 1
        length == CASE fmt[j] = "l" -> 8
                    [] fmt[j] = "h" -> IF fmt[j + 1] = "h" THEN 1 ELSE 2
                    [] OTHER -> 4
    IN  [base |-> base, length |-> length,
         at |-> j + (CASE length \in {8, 2} -> 1 [] length = 1 -> 2 [] OTHER -> 0)]

\* The switch on the type; every length is one of 1, 2, 4 and 8.
print_spec(type, base, length, arg) ==
    CASE type = "%" -> <<"%">>
      [] type = "p" -> <<"0", "x">> \o print_padded(arg.num, HEX, 8)
      [] type = "s" -> IF arg.str = <<>> THEN null_text ELSE Chars(arg.str)
      [] type = "d" -> PRINT_INT(arg.num, base, length)
      [] type = "u" -> PRINT_UINT(arg.num, base, length)
      [] OTHER -> <<>>

takes_arg(type) == type \in {"p", "s", "d", "u"}

\* The while loop: what is printed, and whether unknown_specifier was set.  An
\* argument that was not passed is whatever is in its register.
output(fmt, args) ==
    LET loop[i \in Nat, n \in Nat] ==
          IF fmt[i] = NUL THEN [text |-> <<>>, unknown |-> FALSE]
          ELSE IF fmt[i] # "%"
          THEN LET rest == loop[i + 1, n]
               IN  [rest EXCEPT !.text = <<fmt[i]>> \o rest.text]
          ELSE LET spec == scan_spec(fmt, i + 1)
                   type == fmt[spec.at]
                   arg == IF takes_arg(type) THEN args[n] ELSE [num |-> 0, str |-> <<>>]
                   rest == loop[spec.at + 1, IF takes_arg(type) THEN n + 1 ELSE n]
               IN  [text |-> print_spec(type, spec.base, spec.length, arg) \o rest.text,
                    unknown |-> \/ rest.unknown
                                \/ ~ (takes_arg(type) \/ type = "%")]
    IN  loop[1, 1]
-----------------------------------------------------------------------------
(***************************************************************************)
(* What a call should print, from a description of it instead of the       *)
(* string: a sequence of characters and conversions.  The formats, lengths *)
(* and types are those of the comment at the top of printf.c; the padding  *)
(* is that of the expected lines of printf_test.c, which unlike the code   *)
(* have no '_' between the bytes of a binary number.                       *)
(***************************************************************************)
Literal(c) == [kind |-> "char", char |-> c]
Conversion(base, length, type, num, str) ==
    [kind |-> "spec", base |-> base, length |-> length, type |-> type,
     arg |-> [num |-> num, str |-> str]]

\* "%{format}{length}{type}"
Encoded(item) ==
    IF item.kind = "char" THEN <<item.char>>
    ELSE <<"%">>
           \o (CASE item.base = 2 -> <<"b">> [] item.base = HEX -> <<"x">> [] OTHER -> <<>>)
           \o (CASE item.length = 8 -> <<"l">> [] item.length = 2 -> <<"h">>
                 [] item.length = 1 -> <<"h", "h">> [] OTHER -> <<>>)
           \o <<item.type>>

\* The n low digits of num.
Digits(num, base, n) == [i \in 1 .. n |-> digits((num \div base^(n - i)) % base)]

\* No leading zeros in decimal, otherwise every digit of the type.
Numeral(num, base, bytes) ==
    CASE base = 10 -> LET enough == {n \in 1 .. 3 * BITS : num < 10^n}
                      IN  Digits(num, 10, CHOOSE n \in enough : \A m \in enough : n <= m)
      [] base = HEX -> Digits(num, HEX, (bytes * BITS) \div HexBits)
      [] base = 2 -> Digits(num, 2, bytes * BITS)

Expected(item) ==
    IF item.kind = "char" THEN <<item.char>>
    ELSE LET value == signed(item.arg.num, item.length)
         IN  CASE item.type = "u" ->
                    Numeral(unsigned(item.arg.num, item.length), item.base, item.length)
               [] item.type = "d" ->
                    IF value < 0 THEN <<"-">> \o Numeral(-value, item.base, item.length)
                    ELSE Numeral(value, item.base, item.length)
               [] item.type = "p" -> <<"0", "x">> \o Numeral(item.arg.num, HEX, 8)
               [] item.type = "s" -> IF item.arg.str = <<>> THEN null_text
                                     ELSE Chars(item.arg.str)
               [] item.type = "%" -> <<"%">>
               [] OTHER -> <<>>

(***************************************************************************)
(* The smallest value of a type narrower than long has no negative in its  *)
(* type; in decimal it is printed as 2^64 minus its size.                  *)
(***************************************************************************)
HasNoNegative(item) ==
    /\ item.kind = "spec" /\ item.type = "d" /\ item.base = 10 /\ item.length < 8
    /\ 2 * signed(item.arg.num, item.length) = - Modulus(item.length)
=============================================================================
