------------------------------ MODULE Arithmetic ------------------------------
(***************************************************************************)
(* What the functions of Numbers promise, for the inputs of Algorithms     *)
(* that are theirs.                                                        *)
(***************************************************************************)
EXTENDS Algorithms, Numbers

\* Integers are of some bits and in the range of their type, a float or a string has
\* a number or none, and what is converted to is an integer.
isNumber(x) == \/ /\ x = num(x.kind, x.bits, x.n) /\ x.kind \in integers
                  /\ x.bits \in 1 .. Word /\ x.n \in Holds(x.kind, x.bits)
               \/ x.n \in Int \cup {NaN} /\ x \in {float(x.n), num("string", 0, x.n)}

ASSUME NumberAssumption ==
    /\ NaN \notin Int
    /\ \A in \in SumInputs : /\ isNumber(in.x) /\ in.x.kind # "string"
                             /\ isNumber(in.y) /\ in.y.kind # "string"
                             /\ in.symbol \in symbols
    /\ \A in \in KeyInputs : /\ isNumber(in.key)
                             /\ in.kind \in integers /\ in.bits \in 1 .. Word

Shifted(n, d) == IF d >= Word THEN 0 ELSE n * pow2(d)
bitByBit(r, x, y, op(_, _)) ==
    \A i \in 0 .. x.bits - 1 : bit(r.n, i) = op(bit(x.n, i), bit(y.n, i))
same(x, r, exact) == (r.n - exact) % pow2(x.bits) = 0
size(n) == IF n < 0 THEN -n ELSE n

\* r is what the machine makes of x and y, told without computing it.
isResult(r, x, symbol, y) ==
    CASE symbol = "+" -> same(x, r, x.n + y.n)
      [] symbol = "-" -> same(x, r, x.n - y.n)
      [] symbol = "*" -> same(x, r, x.n * y.n)
      [] symbol = "/" -> \E q \in {r.n, -r.n} :
                             /\ same(x, r, q)
                             /\ size(x.n - q * y.n) < size(y.n)
                             /\ size(q * y.n) <= size(x.n)
      [] symbol = "%" -> /\ size(r.n) < size(y.n) /\ (x.n - r.n) % size(y.n) = 0
                         /\ r.n * x.n >= 0
      [] symbol = "&" -> bitByBit(r, x, y, LAMBDA a, b : a * b)
      [] symbol = "|" -> bitByBit(r, x, y, LAMBDA a, b : a + b - a * b)
      [] symbol = "^" -> bitByBit(r, x, y, LAMBDA a, b : (a + b) % 2)
      [] symbol = "&^" -> bitByBit(r, x, y, LAMBDA a, b : a * (1 - b))
      [] symbol = "<<" -> same(x, r, Shifted(x.n, y.n))
      [] symbol = ">>" -> /\ r.n * pow2(y.n) <= x.n
                          /\ x.n < (r.n + 1) * pow2(y.n)

SumFits ==
    LET x == input.x
        y == input.y
        r == IF input.symbol \in {"*", "/", "%"} THEN Product(x, input.symbol, y)
             ELSE Compute(x, input.symbol, y)
        mixed == Sum(x, input.symbol, y)
    IN /\ r \notin {Error, Open} /\ x.kind \in integers =>
            /\ r.kind = x.kind /\ r.bits = x.bits /\ r.n \in Holds(x.kind, x.bits)
            /\ isResult(r, x, input.symbol, y)
       /\ input.symbol \in {"+", "-"} /\ mixed \notin {Error, Open} =>
            mixed.n \in Holds(x.kind, x.bits) /\ isResult(mixed, x, input.symbol, y)
       /\ x.kind \in integers /\ x.kind = y.kind /\ x.bits = y.bits =>
            (r = Error <=> \/ input.symbol \in {"/", "%"} /\ y.n = 0
                           \/ input.symbol \in {"<<", ">>"} /\ y.n < 0)
       /\ x.kind \in integers => Inc(x) = Sum(x, "+", int(1)) /\ Dec(x) = Sum(x, "-", int(1))
       /\ x.kind = "int" => Neg(x) = Compute(num("int", x.bits, 0), "-", x)
       /\ isInt(x) => BitNot(x) = Bit(x, "^", int(-1))
       /\ r # Error /\ isInt(x) /\ input.symbol \notin {"+", "-", "*", "/", "%"} =>
            Bit(x, input.symbol, y) = r

KeyFits ==
    LET key == input.key
        target == Holds(input.kind, input.bits)
        boundary == key.kind = "float" /\ key.n \in {2 * pow2(Word - 1), 2 * pow2(Word)}
    IN \A c \in convertKey(key, input.kind, input.bits) :
         /\ c # Error => c.kind = input.kind /\ c.bits = input.bits /\ c.n \in target
         /\ key.n = NaN => c = Error
         /\ key.n # NaN /\ key.kind # "float" =>
              IF key.n \in target THEN c.n = key.n ELSE c = Error
         /\ key.n # NaN /\ key.kind = "float" /\ ~boundary =>
              IF c = Error THEN \A n \in target : size(2 * n - key.n) >= 2 \/ key.n < 0
              ELSE size(2 * c.n - key.n) < 2
         /\ input.kind = "int" /\ input.bits = Word => c \in toInt(key)

\* Arithmetic is that of the machine: of the type on the left, exact but for
\* multiples of its range, and refused only where the machine would trap.  A key
\* becomes the same number of the map's key type, a float the integer next to it,
\* or it is refused; it is never cut to fit.  The one float above the range that
\* the code lets through is left out.
NumbersFit ==
    /\ input.of = "sum" => SumFits
    /\ input.of = "key" => KeyFits
===============================================================================
