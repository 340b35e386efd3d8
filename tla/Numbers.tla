------------------------------ MODULE Numbers ------------------------------
(***************************************************************************)
(* The numbers of the template helpers: arithmetic of fixed width          *)
(* (builtin/number.go), bit operations (builtin/bits.go), and the          *)
(* conversion of indexes and map keys (convertKey, toInt and what they     *)
(* call in builtin/builtin.go).                                            *)
(*                                                                         *)
(* A number is [kind, bits, n].  An "int" or "uint" has bits bits, Word at *)
(* most; a "float" counts halves in n, or is NaN there; a "string" is the  *)
(* decimal numeral of n, or NaN if it is none.  What floats compute is the *)
(* processor's, and is left open.                                          *)
(***************************************************************************)
EXTENDS Integers

CONSTANTS Word, NaN
ASSUME WordAssumption == Word \in Nat \ {0}

num(kind, bits, n) == [kind |-> kind, bits |-> bits, n |-> n]
int(n) == num("int", Word, n)
float(n) == num("float", Word, n)
Error == num("error", 0, NaN)
Open == float(NaN)

\* Two to the power of n.
pow2(n) ==
    LET power[i \in 0 .. n] == IF i = 0 THEN 1 ELSE 2 * power[i - 1]
    IN power[n]

integers == {"int", "uint"}
Holds(kind, bits) == IF kind = "int" THEN (-pow2(bits - 1)) .. (pow2(bits - 1) - 1)
                     ELSE 0 .. (pow2(bits) - 1)

\* Mutant: one off at the lowest int.
wrapLate(kind, bits, n) ==
    LET low == n % pow2(bits)
    IN num(kind, bits, IF kind = "int" /\ low > pow2(bits - 1) THEN low - pow2(bits) ELSE low)

\* Value.Convert to a type of so many bits: the low bits, read as that type.
wrap(kind, bits, n) ==
    LET low == n % pow2(bits)
    IN num(kind, bits, IF kind = "int" /\ low >= pow2(bits - 1) THEN low - pow2(bits) ELSE low)

sign(n) == IF n < 0 THEN -1 ELSE 1
\* Division of Go rounds toward zero.
quo(n, d) == sign(n) * sign(d) * ((sign(n) * n) \div (sign(d) * d))
rem(n, d) == n - d * quo(n, d)

\* The bits of a Word, as a number, and one of them.
pattern(n) == n % pow2(Word)
bit(n, i) == (n \div pow2(i)) % 2

\* What the operators on words make of two bits.
And == [a \in {0, 1} |-> [b \in {0, 1} |-> IF a = 1 /\ b = 1 THEN 1 ELSE 0]]
Or == [a \in {0, 1} |-> [b \in {0, 1} |-> IF a = 1 \/ b = 1 THEN 1 ELSE 0]]
Xor == [a \in {0, 1} |-> [b \in {0, 1} |-> IF a # b THEN 1 ELSE 0]]
AndNot == [a \in {0, 1} |-> [b \in {0, 1} |-> IF a = 1 /\ b = 0 THEN 1 ELSE 0]]

\* The pattern that they make of two words.
bitwise(table, n, d) ==
    LET low[i \in 0 .. Word] ==
            IF i = 0 THEN 0
            ELSE low[i - 1] + table[bit(n, i - 1)][bit(d, i - 1)] * pow2(i - 1)
    IN low[Word]

\* What computeInt and computeUint compute; the result is cut by wrap.
exactly(n, symbol, d) ==
    CASE symbol = "+" -> n + d
      [] symbol = "-" -> n - d
      [] symbol = "*" -> n * d
      [] symbol = "/" -> quo(n, d)
      [] symbol = "%" -> rem(n, d)
      [] symbol = "&" -> bitwise(And, n, d)
      [] symbol = "|" -> bitwise(Or, n, d)
      [] symbol = "^" -> bitwise(Xor, n, d)
      [] symbol = "&^" -> bitwise(AndNot, n, d)
      [] symbol = "<<" -> IF d >= Word THEN 0 ELSE n * pow2(d)
      [] symbol = ">>" -> IF d >= Word THEN (IF n < 0 THEN -1 ELSE 0) ELSE n \div pow2(d)

symbols == {"+", "-", "*", "/", "%", "&", "|", "^", "&^", "<<", ">>"}

computeInt(x, symbol, y) ==
    IF \/ symbol \in {"/", "%"} /\ y.n = 0
       \/ symbol \in {"<<", ">>"} /\ y.n < 0
       \/ symbol \notin symbols
    THEN Error ELSE wrap(x.kind, x.bits, exactly(x.n, symbol, y.n))

\* Both sides must be of one type; strings are left out.
Compute(x, symbol, y) ==
    IF x.kind # y.kind \/ x.bits # y.bits THEN Error
    ELSE IF x.kind \in integers THEN computeInt(x, symbol, y)
    ELSE IF x.kind = "float" /\ symbol \in {"+", "-", "*", "/"} THEN Open ELSE Error

isInt(x) == x.kind = "int" /\ x.bits = Word
isFloat(x) == x.kind = "float"
Mixed(a, b) == (isInt(a) /\ isFloat(b)) \/ (isFloat(a) /\ isInt(b))

\* Mul, Quo and Mod, Error being a panic; int and float64 mix, but not for Mod.
Product(a, symbol, b) ==
    IF symbol # "%" /\ Mixed(a, b) THEN Open
    ELSE Compute(a, symbol, b)

\* Add and Sub: beside that, an int on the right takes the type of the left.
Sum(a, symbol, b) ==
    IF Mixed(a, b) THEN Open
    ELSE IF a.kind \in integers /\ isInt(b)
    THEN wrap(a.kind, a.bits, exactly(a.n, symbol, b.n))
    ELSE Compute(a, symbol, b)

Inc(a) == IF a.kind \in integers THEN wrap(a.kind, a.bits, a.n + 1)
          ELSE IF isFloat(a) THEN Open ELSE Error
Dec(a) == IF a.kind \in integers THEN wrap(a.kind, a.bits, a.n - 1)
          ELSE IF isFloat(a) THEN Open ELSE Error
Neg(a) == IF a.kind = "int" THEN wrap(a.kind, a.bits, -a.n)
          ELSE IF isFloat(a) THEN Open ELSE Error

\* BitLshr, BitRshr, BitXor, BitAnd, BitOr and BitAndNot take ints only; a
\* negative shift is a very large one.
Bit(a, symbol, b) ==
    LET d == IF symbol \in {"<<", ">>"} THEN pattern(b.n) ELSE b.n
    IN IF isInt(a) /\ isInt(b) THEN wrap("int", Word, exactly(a.n, symbol, d)) ELSE Error
BitNot(a) == IF isInt(a) THEN int(-a.n - 1) ELSE Error

-----------------------------------------------------------------------------
(* Conversions give the set of possible outcomes: Error if it is refused.    *)

\* int64(f): toward zero.  The test before it compares with the float of the
\* largest int64, which is one more: that one gets through, as anything.
fromFloat(f) ==
    IF f.n = NaN THEN {Error}
    ELSE IF f.n > 2 * pow2(Word - 1) \/ f.n < -(2 * pow2(Word - 1)) THEN {Error}
    ELSE IF f.n = 2 * pow2(Word - 1) THEN {int(n) : n \in Holds("int", Word)}
    ELSE {int(quo(f.n, 2))}

toInt64ForKey(key) ==
    CASE key.kind = "float" -> fromFloat(key)
      [] key.kind \in integers \cup {"string"} ->
           {IF key.n # NaN /\ key.n \in Holds("int", Word) THEN int(key.n) ELSE Error}
      [] OTHER -> {Error}

\* uint64(f): the bound lets 2^64 through.
toUint64ForKey(key) ==
    CASE key.kind = "float" ->
           IF key.n = NaN THEN {Error}
           ELSE IF key.n < 0 \/ key.n > 2 * pow2(Word) THEN {Error}
           ELSE IF key.n = 2 * pow2(Word)
           THEN {num("uint", Word, n) : n \in Holds("uint", Word)}
           ELSE {num("uint", Word, key.n \div 2)}
      [] key.kind \in integers \cup {"string"} ->
           {IF key.n # NaN /\ key.n \in Holds("uint", Word)
            THEN num("uint", Word, key.n) ELSE Error}
      [] OTHER -> {Error}

\* convertKey to an integer type or to a string; a wide number must fit.
convertKey(key, kind, bits) ==
    LET fits(c) == IF c # Error /\ c.n \in Holds(kind, bits)
                   THEN num(kind, bits, c.n) ELSE Error
    IN CASE key.kind = kind /\ key.bits = bits -> {key}
         [] kind = "int" /\ ~(key.kind = kind /\ key.bits = bits) ->
              {fits(c) : c \in toInt64ForKey(key)}
         [] kind = "uint" /\ ~(key.kind = kind /\ key.bits = bits) ->
              {fits(c) : c \in toUint64ForKey(key)}
         [] kind = "string" /\ key.kind \in integers -> {num("string", bits, key.n)}
         [] OTHER -> {Error}

\* toInt, of an index: int has Word bits here.
toInt(key) == toInt64ForKey(key)
=============================================================================
