--------------------------- MODULE Arithmetic_proofs ---------------------------
(***************************************************************************)
(* Proofs about Arithmetic, for words of any width.                        *)
(***************************************************************************)
EXTENDS Arithmetic, Algorithms_proofs

-----------------------------------------------------------------------------
(* Division.                                                                 *)

\* What is divided is the quotient times the divisor, and a rest below the divisor.
LEMMA DivMod ==
  ASSUME NEW x \in Int, NEW P \in Nat \ {0}
  PROVE  /\ x \div P \in Int /\ x % P \in Int
         /\ 0 <= x % P /\ x % P < P /\ x = P * (x \div P) + (x % P)
OBVIOUS

\* There is one such quotient and rest.
LEMMA DivModIs ==
  ASSUME NEW x \in Int, NEW P \in Nat \ {0}, NEW q \in Int, NEW r \in Int,
         0 <= r, r < P, x = P * q + r
  PROVE  x \div P = q /\ x % P = r
OBVIOUS

\* A multiple of the divisor changes the quotient and not the rest.
LEMMA DivModMore ==
  ASSUME NEW x \in Int, NEW P \in Nat \ {0}, NEW m \in Int
  PROVE  (x + m * P) \div P = (x \div P) + m /\ (x + m * P) % P = x % P
<1>1. PICK q \in Int : q = x \div P
  BY DivMod
<1>2. PICK r \in Int : r = x % P
  BY DivMod
<1>3. 0 <= r /\ r < P /\ x = P * q + r
  BY <1>1, <1>2, DivMod
<1>4. x + m * P = P * (q + m) + r
  BY <1>3
<1>5. PICK y \in Int : y = x + m * P
  OBVIOUS
<1>6. PICK k \in Int : k = q + m
  OBVIOUS
<1>7. y = P * k + r
  BY <1>4, <1>5, <1>6
<1>8. y \div P = k /\ y % P = r
  BY <1>3, <1>7, DivModIs
<1> QED
  BY <1>1, <1>2, <1>5, <1>6, <1>8

\* Numbers that leave the same rest are a multiple of the divisor apart, and the
\* other way round.
LEMMA SameRest ==
  ASSUME NEW x \in Int, NEW y \in Int, NEW P \in Nat \ {0}
  PROVE  (x - y) % P = 0 <=> \E m \in Int : x = y + m * P
<1>1. ASSUME (x - y) % P = 0 PROVE \E m \in Int : x = y + m * P
  <2>1. PICK q \in Int : q = (x - y) \div P
    BY DivMod
  <2>2. x - y = P * q + 0
    BY <1>1, <2>1, DivMod
  <2>3. x = y + q * P
    BY <2>2
  <2> QED  BY <2>3
<1>2. ASSUME NEW m \in Int, x = y + m * P PROVE (x - y) % P = 0
  <2>1. x - y = P * m + 0 /\ x - y \in Int
    BY <1>2
  <2> QED  BY <2>1, DivModIs
<1> QED
  BY <1>1, <1>2

\* Halving after a division is dividing by twice as much.
LEMMA DivTwice ==
  ASSUME NEW x \in Int, NEW P \in Nat \ {0}
  PROVE  /\ x \div (2 * P) = (x \div P) \div 2
         /\ x % (2 * P) = (x % P) + P * ((x \div P) % 2)
<1>1. PICK q \in Int : q = x \div P
  BY DivMod
<1>2. PICK r \in Int : r = x % P
  BY DivMod
<1>3. 0 <= r /\ r < P /\ x = P * q + r
  BY <1>1, <1>2, DivMod
<1>4. PICK h \in Int : h = q \div 2
  OBVIOUS
<1>5. PICK b \in Int : b = q % 2
  OBVIOUS
<1>6. q = 2 * h + b /\ b \in {0, 1}
  BY <1>4, <1>5
<1>7. x = (2 * P) * h + (r + P * b) /\ 0 <= r + P * b /\ r + P * b < 2 * P
  <2>1. CASE b = 0
    BY <2>1, <1>3, <1>6
  <2>2. CASE b = 1
    BY <2>2, <1>3, <1>6
  <2> QED  BY <2>1, <2>2, <1>6
<1>8. PICK D \in Nat \ {0} : D = 2 * P
  OBVIOUS
<1>9. PICK s \in Int : s = r + P * b
  OBVIOUS
<1>10. x \div D = h /\ x % D = s
  <2>1. 0 <= s /\ s < D /\ x = D * h + s
    BY <1>7, <1>8, <1>9
  <2> QED  BY <2>1, DivModIs
<1> QED
  BY <1>1, <1>2, <1>4, <1>5, <1>8, <1>9, <1>10

-----------------------------------------------------------------------------
(* Powers of two.                                                            *)

\* The powers up to the nth, as pow2 counts them.
IsPower(f, n) == f = [i \in 0 .. n |-> IF i = 0 THEN 1 ELSE 2 * f[i - 1]]

\* One more power can be counted.
LEMMA PowerGoesOn ==
  ASSUME NEW k \in Nat, NEW g, IsPower(g, k)
  PROVE  \E f : IsPower(f, k + 1)
<1> DEFINE n == k + 1
           f == [i \in 0 .. n |-> IF i = n THEN 2 * g[k] ELSE g[i]]
<1>1. ASSUME NEW i \in 0 .. n
      PROVE  f[i] = IF i = 0 THEN 1 ELSE 2 * f[i - 1]
  <2>1. CASE i = n
    <3>1. f[n] = 2 * g[k] /\ f[k] = g[k] /\ n - 1 = k /\ n # 0
      OBVIOUS
    <3> HIDE DEF f
    <3> QED  BY <2>1, <3>1
  <2>2. CASE i # n
    <3>1. i \in 0 .. k /\ f[i] = g[i] /\ g[0] = 1
      BY <2>2 DEF IsPower
    <3>2. CASE i = 0
      BY <3>1, <3>2
    <3>3. CASE i # 0
      <4>1. i - 1 \in 0 .. n /\ i - 1 # n /\ f[i - 1] = g[i - 1]
        BY <3>1, <3>3
      <4>2. g[i] = 2 * g[i - 1]
        BY <3>1, <3>3 DEF IsPower
      <4> HIDE DEF f
      <4> QED  BY <3>1, <3>3, <4>1, <4>2
    <3> QED  BY <3>2, <3>3
  <2> QED  BY <2>1, <2>2
<1>2. f = [i \in 0 .. n |-> f[i]]
  OBVIOUS
<1> HIDE DEF f
<1>3. IsPower(f, n)
  BY <1>1, <1>2 DEF IsPower
<1> QED
  BY <1>3

\* So the powers can be counted up to any.
LEMMA PowerExists ==
  ASSUME NEW n \in Nat
  PROVE  \E f : IsPower(f, n)
<1> DEFINE S == {k \in Nat : \E f : IsPower(f, k)}
           f == [i \in 0 .. 0 |-> 1]
<1>1. 0 \in S
  <2>1. IsPower(f, 0)
    BY DEF IsPower
  <2> HIDE DEF f
  <2> QED  BY <2>1
<1>2. \A k \in S : k + 1 \in S
  BY PowerGoesOn
<1> HIDE DEF S
<1>3. S = Nat
  BY <1>1, <1>2, Induction DEF S
<1> QED
  BY <1>3 DEF S

\* However far they are counted, a power is the same number.
LEMMA PowerIsOne ==
  ASSUME NEW n \in Nat, NEW m \in Nat, NEW f, NEW g, IsPower(f, n), IsPower(g, m),
         NEW i \in Nat, i <= n, i <= m
  PROVE  f[i] = g[i]
<1> DEFINE S == {k \in Nat : k <= n /\ k <= m => f[k] = g[k]}
<1>1. 0 \in S
  BY DEF IsPower
<1>2. ASSUME NEW k \in S PROVE k + 1 \in S
  <2>1. SUFFICES ASSUME k + 1 <= n, k + 1 <= m PROVE f[k + 1] = g[k + 1]
    OBVIOUS
  <2>2. f[k + 1] = 2 * f[k]
    BY <2>1 DEF IsPower
  <2>3. g[k + 1] = 2 * g[k]
    BY <2>1 DEF IsPower
  <2> QED  BY <2>1, <2>2, <2>3
<1> HIDE DEF S
<1>3. S = Nat
  BY <1>1, <1>2, Induction DEF S
<1> QED
  BY <1>3 DEF S

\* pow2 is the last of the powers counted.
LEMMA PowerRun ==
  ASSUME NEW n \in Nat
  PROVE  \E f : IsPower(f, n) /\ pow2(n) = f[n]
<1> DEFINE f == CHOOSE f : IsPower(f, n)
<1>1. IsPower(f, n)
  BY PowerExists
<1>2. pow2(n) = f[n]
  BY DEF pow2, IsPower
<1> QED
  BY <1>1, <1>2

\* Two to the power of none is one, and each power is twice the one before.
LEMMA Pow2Next ==
  ASSUME NEW n \in Nat
  PROVE  pow2(0) = 1 /\ pow2(n + 1) = 2 * pow2(n)
<1>1. pow2(0) = 1
  BY PowerRun DEF IsPower
<1>2. PICK f : IsPower(f, n) /\ pow2(n) = f[n]
  BY PowerRun
<1>3. PICK g : IsPower(g, n + 1) /\ pow2(n + 1) = g[n + 1]
  BY PowerRun
<1>4. f[n] = g[n]
  BY <1>2, <1>3, PowerIsOne
<1>5. g[n + 1] = 2 * g[n]
  BY <1>3 DEF IsPower
<1> QED
  BY <1>1, <1>2, <1>3, <1>4, <1>5

\* A power of two is positive, and more than its exponent.
LEMMA Pow2 ==
  ASSUME NEW n \in Nat
  PROVE  pow2(n) \in Nat \ {0} /\ n < pow2(n)
<1> DEFINE S == {k \in Nat : pow2(k) \in Nat \ {0} /\ k < pow2(k)}
<1>1. 0 \in S
  BY Pow2Next
<1>2. ASSUME NEW k \in S PROVE k + 1 \in S
  <2>1. PICK p \in Nat \ {0} : p = pow2(k) /\ k < p
    OBVIOUS
  <2>2. pow2(k + 1) = 2 * p
    BY <2>1, Pow2Next
  <2> QED  BY <2>1, <2>2
<1> HIDE DEF S
<1>3. S = Nat
  BY <1>1, <1>2, Induction DEF S
<1> QED
  BY <1>3 DEF S

\* Exponents add up where powers are multiplied.
LEMMA Pow2Sum ==
  ASSUME NEW m \in Nat, NEW n \in Nat
  PROVE  pow2(m + n) = pow2(m) * pow2(n)
<1> DEFINE S == {k \in Nat : pow2(m + k) = pow2(m) * pow2(k)}
<1>1. 0 \in S
  <2>1. PICK p \in Nat : p = pow2(m)
    BY Pow2
  <2> QED  BY <2>1, Pow2Next
<1>2. ASSUME NEW k \in S PROVE k + 1 \in S
  <2>1. PICK p \in Nat, q \in Nat : p = pow2(m) /\ q = pow2(k)
    BY Pow2
  <2>2. pow2(m + k) = p * q
    BY <2>1
  <2>3. pow2((m + k) + 1) = 2 * (p * q)
    BY <2>2, Pow2Next
  <2>4. pow2(k + 1) = 2 * q
    BY <2>1, Pow2Next
  <2>5. 2 * (p * q) = p * (2 * q) /\ (m + k) + 1 = m + (k + 1)
    OBVIOUS
  <2> QED  BY <2>1, <2>3, <2>4, <2>5
<1> HIDE DEF S
<1>3. S = Nat
  BY <1>1, <1>2, Induction DEF S
<1> QED
  BY <1>3 DEF S

\* A greater exponent makes a multiple of the power.
LEMMA Pow2Multiple ==
  ASSUME NEW m \in Nat, NEW n \in Nat, m <= n
  PROVE  \E k \in Nat \ {0} : pow2(n) = k * pow2(m) /\ pow2(m) <= pow2(n)
<1>1. PICK d \in Nat : n = m + d
  <2>1. n - m \in Nat /\ n = m + (n - m)
    OBVIOUS
  <2> QED  BY <2>1
<1>2. PICK p \in Nat \ {0} : p = pow2(m)
  BY Pow2
<1>3. PICK k \in Nat \ {0} : k = pow2(d)
  BY Pow2
<1>4. pow2(n) = p * k
  BY <1>1, <1>2, <1>3, Pow2Sum
<1>5. p * k = k * p /\ p <= k * p
  OBVIOUS
<1> QED
  BY <1>2, <1>4, <1>5

-----------------------------------------------------------------------------
(* Integers of some bits.                                                    *)

lowest(kind, bits) == IF kind = "int" THEN -pow2(bits - 1) ELSE 0

\* An integer type of some bits holds as many numbers as the bits have patterns.
LEMMA HoldsIs ==
  ASSUME NEW kind \in integers, NEW bits \in Nat \ {0}
  PROVE  /\ lowest(kind, bits) \in Int
         /\ pow2(bits) \in Nat \ {0} /\ pow2(bits - 1) \in Nat \ {0}
         /\ pow2(bits) = 2 * pow2(bits - 1)
         /\ \A n : n \in Holds(kind, bits) <=>
                     /\ n \in Int
                     /\ lowest(kind, bits) <= n /\ n < lowest(kind, bits) + pow2(bits)
<1>1. PICK h \in Nat \ {0} : h = pow2(bits - 1)
  BY Pow2
<1>2. pow2(bits) = 2 * h
  <2>1. pow2((bits - 1) + 1) = 2 * h
    <3>1. bits - 1 \in Nat
      OBVIOUS
    <3> QED  BY <1>1, <3>1, Pow2Next
  <2> QED  BY <2>1
<1>3. CASE kind = "int"
  <2>1. lowest(kind, bits) = -h /\ Holds(kind, bits) = (-h) .. (h - 1)
    BY <1>1, <1>3 DEF lowest, Holds
  <2>2. PICK P \in Nat \ {0}, low \in Int : P = 2 * h /\ low = -h
    OBVIOUS
  <2>3. \A n : n \in (-h) .. (h - 1) <=> n \in Int /\ low <= n /\ n < low + P
    BY <2>2
  <2>4. pow2(bits) = P
    BY <1>2, <2>2
  <2> QED  BY <1>1, <2>1, <2>2, <2>3, <2>4
<1>4. CASE kind = "uint"
  <2>1. PICK P \in Nat \ {0} : P = 2 * h
    OBVIOUS
  <2>2. lowest(kind, bits) = 0 /\ Holds(kind, bits) = 0 .. (P - 1)
    BY <1>2, <1>4, <2>1 DEF lowest, Holds
  <2>3. \A n : n \in 0 .. (P - 1) <=> n \in Int /\ 0 <= n /\ n < 0 + P
    OBVIOUS
  <2>4. pow2(bits) = P
    BY <1>2, <2>1
  <2> QED  BY <1>1, <2>1, <2>2, <2>3, <2>4
<1> QED
  BY <1>3, <1>4 DEF integers

\* Numbers of a type that are a multiple of its range apart are the same.
LEMMA HoldsOne ==
  ASSUME NEW kind \in integers, NEW bits \in Nat \ {0},
         NEW a \in Holds(kind, bits), NEW b \in Holds(kind, bits), NEW m \in Int,
         a = b + m * pow2(bits)
  PROVE  a = b
<1>1. PICK P \in Nat \ {0}, low \in Int : P = pow2(bits) /\ low = lowest(kind, bits)
  BY HoldsIs
<1>2. /\ a \in Int /\ low <= a /\ a < low + P
      /\ b \in Int /\ low <= b /\ b < low + P
  BY <1>1, HoldsIs
<1>3. a = b + m * P
  BY <1>1
<1>4. m = 0
  <2>1. CASE m >= 1
    <3>1. m * P >= P
      BY <2>1
    <3>2. PICK t \in Int : t = m * P
      OBVIOUS
    <3> QED  BY <1>2, <1>3, <3>1, <3>2
  <2>2. CASE m <= -1
    <3>1. m * P <= -P
      BY <2>2
    <3>2. PICK t \in Int : t = m * P
      OBVIOUS
    <3> QED  BY <1>2, <1>3, <3>1, <3>2
  <2> QED  BY <2>1, <2>2
<1> QED
  BY <1>2, <1>3, <1>4

\* wrap gives a number of the type, a multiple of its range from the one it is given.
LEMMA WrapIs ==
  ASSUME NEW kind \in integers, NEW bits \in Nat \ {0}, NEW n \in Int
  PROVE  \E k \in Holds(kind, bits), m \in Int :
            wrap(kind, bits, n) = num(kind, bits, k) /\ k = n + m * pow2(bits)
<1>1. PICK P \in Nat \ {0}, h \in Nat \ {0}, low \in Int :
        P = pow2(bits) /\ h = pow2(bits - 1) /\ P = 2 * h /\ low = lowest(kind, bits)
  BY HoldsIs
<1>2. PICK q \in Int, r \in Int : q = n \div P /\ r = n % P
  BY DivMod
<1>3. 0 <= r /\ r < P /\ n = P * q + r
  BY <1>2, DivMod
<1>4. \A k \in Int : low <= k /\ k < low + P => k \in Holds(kind, bits)
  BY <1>1, HoldsIs
<1>5. P * q = q * P /\ q * P \in Int /\ (-q) * P = -(q * P)
      /\ (-q - 1) * P = -(q * P) - P
  OBVIOUS
<1>6. wrap(kind, bits, n) = num(kind, bits, IF kind = "int" /\ r >= h THEN r - P ELSE r)
  BY <1>1, <1>2 DEF wrap
<1>7. PICK t \in Int : t = q * P
  BY <1>5
<1>8. CASE kind = "int" /\ r >= h
  <2>1. low = -h
    BY <1>1, <1>8 DEF lowest
  <2>2. r - P \in Holds(kind, bits)
    <3>1. low <= r - P /\ r - P < low + P /\ r - P \in Int
      BY <1>1, <1>3, <1>8, <2>1
    <3> QED  BY <1>4, <3>1
  <2>3. r - P = n + (-q - 1) * P
    BY <1>3, <1>5, <1>7
  <2>4. wrap(kind, bits, n) = num(kind, bits, r - P)
    BY <1>6, <1>8
  <2>5. -q - 1 \in Int
    OBVIOUS
  <2> QED  BY <1>1, <2>2, <2>3, <2>4, <2>5
<1>9. CASE ~(kind = "int" /\ r >= h)
  <2>1. r \in Holds(kind, bits)
    <3>1. low = (IF kind = "int" THEN -h ELSE 0)
      BY <1>1 DEF lowest
    <3>2. low <= r /\ r < low + P
      BY <1>1, <1>3, <1>9, <3>1
    <3> QED  BY <1>4, <3>2
  <2>2. r = n + (-q) * P
    BY <1>3, <1>5, <1>7
  <2>3. wrap(kind, bits, n) = num(kind, bits, r)
    BY <1>6, <1>9
  <2>4. -q \in Int
    OBVIOUS
  <2> QED  BY <1>1, <2>1, <2>2, <2>3, <2>4
<1> QED
  BY <1>8, <1>9

\* wrap leaves a number of the type alone.
LEMMA WrapHeld ==
  ASSUME NEW kind \in integers, NEW bits \in Nat \ {0}, NEW n \in Holds(kind, bits)
  PROVE  wrap(kind, bits, n) = num(kind, bits, n)
<1>1. n \in Int
  BY HoldsIs
<1>2. PICK k \in Holds(kind, bits), m \in Int :
        wrap(kind, bits, n) = num(kind, bits, k) /\ k = n + m * pow2(bits)
  BY <1>1, WrapIs
<1>3. k = n
  BY <1>2, HoldsOne
<1> QED
  BY <1>2, <1>3

\* wrap does not tell numbers apart that are a multiple of the range apart.
LEMMA WrapMore ==
  ASSUME NEW kind \in integers, NEW bits \in Nat \ {0}, NEW n \in Int, NEW m \in Int
  PROVE  wrap(kind, bits, n + m * pow2(bits)) = wrap(kind, bits, n)
<1>1. pow2(bits) \in Nat \ {0}
  BY HoldsIs
<1>2. (n + m * pow2(bits)) % pow2(bits) = n % pow2(bits)
  BY <1>1, DivModMore
<1> QED
  BY <1>2 DEF wrap

-----------------------------------------------------------------------------
(* Bits.                                                                     *)

\* A bit is one or none.
LEMMA BitIs ==
  ASSUME NEW n \in Int, NEW i \in Nat
  PROVE  bit(n, i) \in {0, 1}
<1>1. PICK q \in Int : q = n \div pow2(i)
  BY Pow2, DivMod
<1>2. q % 2 \in {0, 1}
  OBVIOUS
<1> QED
  BY <1>1, <1>2 DEF bit

\* The low bits of a number and the next one are its low bits, one more of them.
LEMMA BitNext ==
  ASSUME NEW n \in Int, NEW i \in Nat
  PROVE  n % pow2(i + 1) = (n % pow2(i)) + bit(n, i) * pow2(i)
<1>1. PICK P \in Nat \ {0} : P = pow2(i)
  BY Pow2
<1>2. PICK b \in Int : b = bit(n, i)
  BY BitIs
<1>3. n % (2 * P) = (n % P) + P * b
  BY <1>1, <1>2, DivTwice DEF bit
<1>4. P * b = b * P
  OBVIOUS
<1>5. pow2(i + 1) = 2 * P
  BY <1>1, Pow2Next
<1> QED
  BY <1>1, <1>2, <1>3, <1>4, <1>5

\* A multiple of a power does not change the bits below it.
LEMMA BitMore ==
  ASSUME NEW n \in Int, NEW m \in Int, NEW bits \in Nat, NEW i \in Nat, i < bits
  PROVE  bit(n + m * pow2(bits), i) = bit(n, i)
<1>1. PICK P \in Nat \ {0} : P = pow2(i)
  BY Pow2
<1>2. PICK k \in Nat \ {0} : pow2(bits) = k * pow2(i + 1)
  BY Pow2Multiple
<1>3. pow2(i + 1) = 2 * P
  BY <1>1, Pow2Next
<1>4. m * (k * (2 * P)) = ((m * k) * 2) * P
  OBVIOUS
<1>5. PICK j \in Int : j = m * k
  OBVIOUS
<1>6. (n + (j * 2) * P) \div P = (n \div P) + j * 2
  BY DivModMore
<1>7. PICK q \in Int : q = n \div P
  BY DivMod
<1>8. (q + j * 2) % 2 = q % 2
  BY DivModMore
<1> QED
  BY <1>1, <1>2, <1>3, <1>4, <1>5, <1>6, <1>7, <1>8 DEF bit

\* The numbers that bitwise counts up, bit by bit.
nextBit(table, n, d, i) == table[bit(n, i)][bit(d, i)]
IsPattern(f, table, n, d, k) ==
    f = [i \in 0 .. k |-> IF i = 0 THEN 0
                          ELSE f[i - 1] + nextBit(table, n, d, i - 1) * pow2(i - 1)]
IsTable(table) == \A a, b \in {0, 1} : table[a][b] \in {0, 1}

\* One more bit can be counted.
LEMMA PatternGoesOn ==
  ASSUME NEW table, NEW n, NEW d, NEW j \in Nat, NEW g, IsPattern(g, table, n, d, j)
  PROVE  \E f : IsPattern(f, table, n, d, j + 1)
<1> DEFINE k == j + 1
           more == nextBit(table, n, d, j) * pow2(j)
           f == [i \in 0 .. k |-> IF i = k THEN g[j] + more ELSE g[i]]
<1>1. ASSUME NEW i \in 0 .. k
      PROVE  f[i] = IF i = 0 THEN 0
                    ELSE f[i - 1] + nextBit(table, n, d, i - 1) * pow2(i - 1)
  <2>1. CASE i = k
    <3>1. f[k] = g[j] + more /\ f[j] = g[j] /\ k - 1 = j /\ k # 0
      OBVIOUS
    <3> HIDE DEF f
    <3> QED  BY <2>1, <3>1
  <2>2. CASE i # k
    <3>1. i \in 0 .. j /\ f[i] = g[i] /\ g[0] = 0
      BY <2>2 DEF IsPattern
    <3>2. CASE i = 0
      BY <3>1, <3>2
    <3>3. CASE i # 0
      <4>1. i - 1 \in 0 .. k /\ i - 1 # k /\ f[i - 1] = g[i - 1]
        BY <3>1, <3>3
      <4>2. g[i] = g[i - 1] + nextBit(table, n, d, i - 1) * pow2(i - 1)
        BY <3>1, <3>3 DEF IsPattern
      <4> HIDE DEF f
      <4> QED  BY <3>1, <3>3, <4>1, <4>2
    <3> QED  BY <3>2, <3>3
  <2> QED  BY <2>1, <2>2
<1>2. f = [i \in 0 .. k |-> f[i]]
  OBVIOUS
<1> HIDE DEF f
<1>3. IsPattern(f, table, n, d, k)
  BY <1>1, <1>2 DEF IsPattern
<1> QED
  BY <1>3

\* So any number of bits can be.
LEMMA PatternExists ==
  ASSUME NEW table, NEW n, NEW d, NEW k \in Nat
  PROVE  \E f : IsPattern(f, table, n, d, k)
<1> DEFINE S == {j \in Nat : \E f : IsPattern(f, table, n, d, j)}
           f == [i \in 0 .. 0 |-> 0]
<1>1. 0 \in S
  <2>1. IsPattern(f, table, n, d, 0)
    BY DEF IsPattern
  <2> HIDE DEF f
  <2> QED  BY <2>1
<1>2. \A j \in S : j + 1 \in S
  BY PatternGoesOn
<1> HIDE DEF S
<1>3. S = Nat
  BY <1>1, <1>2, Induction DEF S
<1> QED
  BY <1>3 DEF S

\* bitwise is the last number counted.
LEMMA PatternRun ==
  ASSUME NEW table, NEW n, NEW d
  PROVE  \E f : IsPattern(f, table, n, d, Word) /\ bitwise(table, n, d) = f[Word]
<1> DEFINE f == CHOOSE f : IsPattern(f, table, n, d, Word)
<1>1. IsPattern(f, table, n, d, Word)
  BY PatternExists, WordAssumption
<1>2. bitwise(table, n, d) = f[Word]
  BY DEF bitwise, IsPattern, nextBit
<1> QED
  BY <1>1, <1>2

\* What bitwise makes is a number of Word bits, and each is what the table says.
LEMMA BitwiseIs ==
  ASSUME NEW table, IsTable(table), NEW n \in Int, NEW d \in Int
  PROVE  /\ bitwise(table, n, d) \in Int
         /\ 0 <= bitwise(table, n, d) /\ bitwise(table, n, d) < pow2(Word)
         /\ \A j \in Nat : j < Word =>
                bit(bitwise(table, n, d), j) = table[bit(n, j)][bit(d, j)]
<1>1. PICK f : IsPattern(f, table, n, d, Word) /\ bitwise(table, n, d) = f[Word]
  BY PatternRun
<1> DEFINE S == {k \in Nat : k <= Word =>
                   /\ f[k] \in Int /\ 0 <= f[k] /\ f[k] < pow2(k)
                   /\ \A j \in Nat : j < k => bit(f[k], j) = nextBit(table, n, d, j)}
<1>2. 0 \in S
  <2>1. f[0] = 0
    BY <1>1, WordAssumption DEF IsPattern
  <2> QED  BY <2>1, Pow2Next
<1>3. ASSUME NEW k \in S PROVE k + 1 \in S
  <2>1. SUFFICES ASSUME k + 1 <= Word
        PROVE /\ f[k + 1] \in Int /\ 0 <= f[k + 1] /\ f[k + 1] < pow2(k + 1)
              /\ \A j \in Nat : j < k + 1 => bit(f[k + 1], j) = nextBit(table, n, d, j)
    OBVIOUS
  <2>2. k \in Nat /\ k <= Word
    BY <2>1, WordAssumption
  <2>3. PICK low \in Int : low = f[k]
    BY <2>2
  <2>4. PICK P \in Nat \ {0} : P = pow2(k)
    BY <2>2, Pow2
  <2>5. /\ 0 <= low /\ low < P
        /\ \A j \in Nat : j < k => bit(low, j) = nextBit(table, n, d, j)
    BY <2>2, <2>3, <2>4
  <2>6. PICK b \in {0, 1} : b = nextBit(table, n, d, k)
    <3>1. bit(n, k) \in {0, 1} /\ bit(d, k) \in {0, 1}
      BY <2>2, BitIs
    <3> QED  BY <3>1 DEF nextBit, IsTable
  <2>7. f[k + 1] = low + b * P
    <3>1. k + 1 \in 0 .. Word /\ k + 1 # 0 /\ (k + 1) - 1 = k
      BY <2>1, <2>2, WordAssumption
    <3> QED  BY <1>1, <2>3, <2>4, <2>6, <3>1 DEF IsPattern
  <2>8. pow2(k + 1) = 2 * P
    BY <2>2, <2>4, Pow2Next
  <2> HIDE DEF S
  <2>9. 0 <= low + b * P /\ low + b * P < 2 * P /\ low + b * P \in Int
    <3>1. CASE b = 0
      BY <2>5, <3>1
    <3>2. CASE b = 1
      BY <2>5, <3>2
    <3> QED  BY <2>6, <3>1, <3>2
  <2>10. ASSUME NEW j \in Nat, j < k PROVE bit(low + b * P, j) = nextBit(table, n, d, j)
    <3>1. bit(low + b * P, j) = bit(low, j)
      BY <2>2, <2>4, <2>6, <2>10, BitMore
    <3> QED  BY <2>5, <2>10, <3>1
  <2>11. bit(low + b * P, k) = b
    <3>1. low \div P = 0
      <4>1. low = P * 0 + low
        OBVIOUS
      <4> QED  BY <2>5, <4>1, DivModIs
    <3>2. (low + b * P) \div P = (low \div P) + b
      <4>1. b \in Int /\ low \in Int /\ P \in Nat \ {0}
        BY <2>3, <2>4, <2>6
      <4> QED  BY <4>1, DivModMore
    <3>3. (0 + b) % 2 = b
      BY <2>6
    <3> QED  BY <2>4, <3>1, <3>2, <3>3 DEF bit
  <2>12. \A j \in Nat : j < k + 1 => j < k \/ j = k
    BY <2>2
  <2> QED  BY <2>6, <2>7, <2>8, <2>9, <2>10, <2>11, <2>12
<1> HIDE DEF S
<1>4. S = Nat
  BY <1>2, <1>3, Induction DEF S
<1>5. Word \in S /\ Word <= Word
  BY <1>4, WordAssumption
<1> QED
  BY <1>1, <1>5 DEF S, nextBit

\* A number whose bits are what the table says is what bitwise makes, but for what is
\* above the Word.
LEMMA BitwiseOf ==
  ASSUME NEW table, NEW n \in Int, NEW d \in Int, NEW z \in Int,
         \A j \in Nat : bit(z, j) = table[bit(n, j)][bit(d, j)]
  PROVE  bitwise(table, n, d) = z % pow2(Word)
<1>1. PICK f : IsPattern(f, table, n, d, Word) /\ bitwise(table, n, d) = f[Word]
  BY PatternRun
<1> DEFINE S == {k \in Nat : k <= Word => f[k] = z % pow2(k)}
<1>2. 0 \in S
  <2>1. f[0] = 0
    BY <1>1, WordAssumption DEF IsPattern
  <2>2. z % 1 = 0
    OBVIOUS
  <2> QED  BY <2>1, <2>2, Pow2Next
<1>3. ASSUME NEW k \in S PROVE k + 1 \in S
  <2>1. SUFFICES ASSUME k + 1 <= Word PROVE f[k + 1] = z % pow2(k + 1)
    OBVIOUS
  <2>2. k \in Nat /\ k <= Word
    BY <2>1, WordAssumption
  <2>3. f[k] = z % pow2(k)
    BY <2>2
  <2>4. k + 1 \in 0 .. Word /\ k + 1 # 0 /\ (k + 1) - 1 = k
    BY <2>1, <2>2, WordAssumption
  <2>5. f[k + 1] = f[k] + nextBit(table, n, d, k) * pow2(k)
    BY <1>1, <2>4 DEF IsPattern
  <2>6. bit(z, k) = nextBit(table, n, d, k)
    BY <2>2 DEF nextBit
  <2> QED  BY <2>2, <2>3, <2>5, <2>6, BitNext
<1> HIDE DEF S
<1>4. S = Nat
  BY <1>2, <1>3, Induction DEF S
<1>5. Word \in S /\ Word <= Word
  BY <1>4, WordAssumption
<1> QED
  BY <1>1, <1>5 DEF S

-----------------------------------------------------------------------------
(* What is made of two numbers.                                              *)

\* The signs and sizes of two numbers are those of their product.
LEMMA SizeIs ==
  ASSUME NEW n \in Int
  PROVE  /\ size(n) \in Nat /\ sign(n) \in {-1, 1}
         /\ sign(n) * n = size(n) /\ n = sign(n) * size(n)
  BY DEF size, sign

\* Division toward zero: what is left is smaller than the divisor and of the sign of
\* what is divided, and the quotient is no larger than that.
LEMMA QuoIs ==
  ASSUME NEW n \in Int, NEW d \in Int, d # 0
  PROVE  /\ quo(n, d) \in Int /\ rem(n, d) \in Int
         /\ size(n - quo(n, d) * d) < size(d) /\ size(quo(n, d) * d) <= size(n)
         /\ size(rem(n, d)) < size(d) /\ (n - rem(n, d)) % size(d) = 0
         /\ (0 <= rem(n, d) /\ rem(n, d) <= n) \/ (n <= rem(n, d) /\ rem(n, d) <= 0)
         /\ -size(n) <= quo(n, d) /\ quo(n, d) <= size(n)
         /\ n >= 0 /\ d >= 0 => 0 <= quo(n, d)
<1>1. PICK A \in Nat, D \in Nat \ {0} : A = size(n) /\ D = size(d)
  BY DEF size
<1>2. PICK Q \in Int, R \in Int : Q = A \div D /\ R = A % D
  BY DivMod
<1>3. 0 <= R /\ R < D /\ A = D * Q + R
  BY <1>2, DivMod
<1>4. Q >= 0
  <2>1. CASE Q < 0
    <3>1. D * Q <= -D
      BY <2>1
    <3>2. PICK t \in Int : t = D * Q
      OBVIOUS
    <3> QED  BY <1>3, <3>1, <3>2
  <2> QED  BY <2>1
<1>5. PICK t \in Nat : t = D * Q /\ t = Q * D /\ Q <= t
  BY <1>4
<1>6. t <= A /\ A = t + R /\ Q <= A
  BY <1>3, <1>5
<1>7. PICK s \in {-1, 1}, u \in {-1, 1} :
        s = sign(n) /\ u = sign(d) /\ n = s * A /\ d = u * D /\ (n >= 0 => s = 1)
        /\ (d >= 0 => u = 1)
  BY <1>1, SizeIs DEF sign
<1>8. quo(n, d) = (s * u) * Q
  <2>1. s * n = A /\ u * d = D
    BY <1>1, <1>7, SizeIs
  <2> QED  BY <1>2, <1>7, <2>1 DEF quo
<1>9. PICK q \in Int : q = quo(n, d) /\ q = (s * u) * Q
  BY <1>8
<1>10. q * d = s * t /\ d * q = s * t
  <2>1. CASE s = 1 /\ u = 1
    BY <1>5, <1>7, <1>9, <2>1
  <2>2. CASE s = 1 /\ u = -1
    BY <1>5, <1>7, <1>9, <2>2
  <2>3. CASE s = -1 /\ u = 1
    BY <1>5, <1>7, <1>9, <2>3
  <2>4. CASE s = -1 /\ u = -1
    BY <1>5, <1>7, <1>9, <2>4
  <2> QED  BY <1>7, <2>1, <2>2, <2>3, <2>4
<1>11. n - q * d = s * R /\ rem(n, d) = s * R
  BY <1>6, <1>7, <1>9, <1>10 DEF rem
<1>12. size(s * R) = R /\ size(s * t) = t /\ s * R \in Int
  BY <1>3, <1>7 DEF size
<1>13. (n - rem(n, d)) % D = 0
  <2>1. n - rem(n, d) = s * t
    BY <1>6, <1>7, <1>11
  <2>2. s * t = D * (s * Q) + 0 /\ s * Q \in Int /\ s * t \in Int
    BY <1>5, <1>7
  <2>3. PICK k \in Int, z \in Int : k = s * Q /\ z = s * t
    BY <2>2
  <2>4. z % D = 0
    <3>1. z = D * k + 0 /\ 0 <= 0 /\ 0 < D
      BY <1>1, <2>2, <2>3
    <3>2. D \in Nat \ {0} /\ k \in Int /\ z \in Int /\ 0 \in Int
      BY <1>1, <2>3
    <3> QED  BY <3>1, <3>2, DivModIs
  <2> QED  BY <2>1, <2>3, <2>4
<1>14. (0 <= s * R /\ s * R <= n) \/ (n <= s * R /\ s * R <= 0)
  <2>1. R <= A /\ 0 <= R /\ A \in Int /\ R \in Int
    BY <1>1, <1>2, <1>3, <1>6
  <2>2. CASE s = 1
    <3>1. n = A /\ s * R = R
      BY <1>1, <1>2, <1>7, <2>2
    <3> QED  BY <1>1, <1>2, <1>3, <2>1, <3>1
  <2>3. CASE s = -1
    <3>1. n = -A /\ s * R = -R
      BY <1>1, <1>2, <1>7, <2>3
    <3>2. -A <= -R /\ -R <= 0
      BY <2>1
    <3> QED  BY <3>1, <3>2
  <2> QED  BY <1>7, <2>2, <2>3
<1>15. -A <= q /\ q <= A /\ (n >= 0 /\ d >= 0 => 0 <= q)
  BY <1>4, <1>6, <1>7, <1>9
<1> QED
  <2>1. quo(n, d) \in Int /\ rem(n, d) \in Int
    BY <1>9, <1>11, <1>12
  <2>2. size(n - quo(n, d) * d) < size(d) /\ size(quo(n, d) * d) <= size(n)
    BY <1>1, <1>3, <1>6, <1>9, <1>10, <1>11, <1>12
  <2>3. size(rem(n, d)) < size(d) /\ (n - rem(n, d)) % size(d) = 0
    BY <1>1, <1>3, <1>11, <1>12, <1>13
  <2>4. (0 <= rem(n, d) /\ rem(n, d) <= n) \/ (n <= rem(n, d) /\ rem(n, d) <= 0)
    BY <1>11, <1>14
  <2>5. /\ -size(n) <= quo(n, d) /\ quo(n, d) <= size(n)
        /\ n >= 0 /\ d >= 0 => 0 <= quo(n, d)
    BY <1>1, <1>9, <1>15
  <2> QED  BY <2>1, <2>2, <2>3, <2>4, <2>5

\* A type holds what is between zero and a number that it holds.
LEMMA HoldsBetween ==
  ASSUME NEW kind \in integers, NEW bits \in Nat \ {0}, NEW n \in Holds(kind, bits),
         NEW k \in Int, (0 <= k /\ k <= n) \/ (n <= k /\ k <= 0)
  PROVE  k \in Holds(kind, bits)
<1>1. PICK P \in Nat \ {0}, h \in Nat \ {0}, low \in Int :
        P = pow2(bits) /\ h = pow2(bits - 1) /\ P = 2 * h /\ low = lowest(kind, bits)
  BY HoldsIs
<1>2. low \in {-h, 0}
  BY <1>1 DEF lowest
<1>3. n \in Int /\ low <= n /\ n < low + P
  BY <1>1, HoldsIs
<1>4. low <= k /\ k < low + P
  <2>1. CASE low = 0
    BY <1>1, <1>3, <2>1
  <2>2. CASE low = -h
    <3>1. h \in Nat \ {0} /\ P = h + h /\ n \in Int
      BY <1>1, <1>3
    <3>2. -h <= n /\ n < h
      BY <1>3, <2>2, <3>1
    <3>3. -h <= k /\ k < h
      BY <3>1, <3>2
    <3> QED  BY <2>2, <3>1, <3>3
  <2> QED  BY <1>2, <2>1, <2>2
<1> QED
  BY <1>1, <1>4, HoldsIs

\* What the least int divided by less than none is, is out of range by one.
LEMMA QuoHeld ==
  ASSUME NEW kind \in integers, NEW bits \in Nat \ {0}, NEW n \in Holds(kind, bits),
         NEW d \in Holds(kind, bits), d # 0
  PROVE  \E k \in Int : /\ wrap(kind, bits, quo(n, d)) = num(kind, bits, k)
                        /\ quo(n, d) \in {k, -k}
<1>1. PICK P \in Nat \ {0}, h \in Nat \ {0}, low \in Int :
        P = pow2(bits) /\ h = pow2(bits - 1) /\ P = 2 * h /\ low = lowest(kind, bits)
  BY HoldsIs
<1>2. n \in Int /\ d \in Int /\ low <= n /\ n < low + P /\ low <= d
  BY <1>1, HoldsIs
<1>3. \A k \in Int : low <= k /\ k < low + P => k \in Holds(kind, bits)
  BY <1>1, HoldsIs
<1>4. PICK q \in Int : q = quo(n, d)
  BY <1>2, QuoIs
<1>5. -size(n) <= q /\ q <= size(n) /\ (n >= 0 /\ d >= 0 => 0 <= q)
  BY <1>2, <1>4, QuoIs
<1>6. CASE q \in Holds(kind, bits)
  BY <1>4, <1>6, WrapHeld
<1>7. CASE q \notin Holds(kind, bits)
  <2>1. ~(low <= q /\ q < low + P)
    BY <1>3, <1>7
  <2>2. kind = "int" /\ low = -h /\ q = h
    <3>1. CASE kind = "uint"
      <4>1. low = 0
        BY <1>1, <3>1 DEF lowest
      <4> QED  BY <1>2, <1>5, <2>1, <4>1 DEF size
    <3>2. CASE kind = "int"
      <4>1. low = -h
        BY <1>1, <3>2 DEF lowest
      <4>2. size(n) \in Int /\ size(n) <= h
        <5>1. -h <= n /\ n < h
          BY <1>1, <1>2, <4>1
        <5> QED  BY <1>1, <1>2, <5>1 DEF size
      <4>3. PICK z \in Int : z = size(n)
        BY <4>2
      <4>4. -h <= q /\ q <= h /\ ~(-h <= q /\ q < (-h) + 2 * h)
        <5>1. -z <= q /\ q <= z /\ z <= h
          BY <1>5, <4>2, <4>3
        <5>2. -h <= q /\ q <= h
          BY <1>1, <1>4, <4>3, <5>1
        <5> QED  BY <1>1, <2>1, <4>1, <5>2
      <4>5. q = h
        <5>1. h \in Int /\ q \in Int /\ q <= h /\ h <= q
          BY <1>1, <1>4, <4>4
        <5> QED  BY <5>1
      <4> QED  BY <3>2, <4>1, <4>5
    <3> QED  BY <3>1, <3>2 DEF integers
  <2>3. -h \in Holds(kind, bits) /\ -h \in Int
    <3>1. low <= -h /\ -h < low + P /\ -h \in Int
      BY <1>1, <2>2
    <3> QED  BY <1>3, <3>1
  <2>4. wrap(kind, bits, -h) = num(kind, bits, -h)
    BY <2>3, WrapHeld
  <2>5. -h = h + (-1) * P
    BY <1>1
  <2>6. wrap(kind, bits, h + (-1) * pow2(bits)) = wrap(kind, bits, h)
    BY WrapMore
  <2>7. wrap(kind, bits, h) = num(kind, bits, -h)
    BY <1>1, <2>4, <2>5, <2>6
  <2>8. -(-h) = h
    OBVIOUS
  <2> QED  BY <1>4, <2>2, <2>3, <2>7, <2>8
<1> QED
  BY <1>6, <1>7

\* A shift to the right, of a number held: what is between the number and zero.
LEMMA ShiftIs ==
  ASSUME NEW kind \in integers, NEW bits \in 1 .. Word, NEW n \in Holds(kind, bits),
         NEW d \in Nat
  PROVE  \E k \in Holds(kind, bits) :
            /\ k \in Int /\ k = exactly(n, ">>", d)
            /\ k * pow2(d) <= n /\ n < (k + 1) * pow2(d)
<1>1. bits \in Nat \ {0} /\ Word \in Nat \ {0} /\ bits <= Word /\ bits - 1 \in Nat
  BY WordAssumption
<1>2. PICK P \in Nat \ {0}, h \in Nat \ {0}, low \in Int :
        P = pow2(bits) /\ h = pow2(bits - 1) /\ P = 2 * h /\ low = lowest(kind, bits)
  BY <1>1, HoldsIs
<1>3. low \in {-h, 0}
  BY <1>2 DEF lowest
<1>4. n \in Int /\ low <= n /\ n < low + P
  BY <1>1, <1>2, HoldsIs
<1>5. PICK D \in Nat \ {0} : D = pow2(d)
  BY Pow2
<1>6. CASE d >= Word
  <2>1. P <= D
    <3>1. bits \in Nat /\ bits <= d
      BY <1>1, <1>6
    <3>2. pow2(bits) <= pow2(d)
      BY <3>1, Pow2Multiple
    <3> QED  BY <1>2, <1>5, <3>2
  <2>2. exactly(n, ">>", d) = IF n < 0 THEN -1 ELSE 0
    BY <1>6 DEF exactly
  <2>3. CASE n < 0
    <3>1. -1 \in Holds(kind, bits)
      BY <1>1, <1>4, <2>3, HoldsBetween
    <3>2. (-1) * D <= n /\ n < (-1 + 1) * D
      BY <1>2, <1>3, <1>4, <2>1, <2>3
    <3> QED  BY <1>5, <2>2, <2>3, <3>1, <3>2
  <2>4. CASE n >= 0
    <3>1. 0 \in Holds(kind, bits)
      BY <1>1, <1>4, <2>4, HoldsBetween
    <3>2. 0 * D <= n /\ n < (0 + 1) * D
      BY <1>2, <1>3, <1>4, <2>1, <2>4
    <3>3. ~(n < 0)
      BY <1>4, <2>4
    <3> QED  BY <1>5, <2>2, <3>1, <3>2, <3>3
  <2> QED  BY <1>4, <2>3, <2>4
<1>7. CASE d < Word
  <2>1. exactly(n, ">>", d) = n \div D
    BY <1>1, <1>5, <1>7 DEF exactly
  <2>2. PICK k \in Int, r \in Int : k = n \div D /\ r = n % D
    BY <1>4, DivMod
  <2>3. 0 <= r /\ r < D /\ n = D * k + r
    BY <1>4, <2>2, DivMod
  <2>4. PICK t \in Int : t = D * k /\ t = k * D /\ (k + 1) * D = t + D
    OBVIOUS
  <2>5. k * D <= n /\ n < (k + 1) * D
    BY <1>4, <2>3, <2>4
  <2>6. (0 <= k /\ k <= n) \/ (n <= k /\ k <= 0)
    <3>1. CASE k >= 0
      <4>1. t >= k
        BY <2>4, <3>1
      <4>2. n = t + r
        BY <2>3, <2>4
      <4>3. n >= k
        BY <1>4, <2>3, <4>1, <4>2
      <4> QED  BY <1>4, <2>2, <3>1, <4>3
    <3>2. CASE k < 0
      <4>1. t + D <= k + 1
        <5>1. (k + 1) * D <= k + 1
          BY <3>2
        <5> QED  BY <2>4, <5>1
      <4> QED  BY <2>3, <2>4, <3>2, <4>1
    <3> QED  BY <3>1, <3>2
  <2>7. k \in Holds(kind, bits)
    BY <1>1, <2>6, HoldsBetween
  <2> QED  BY <1>5, <2>1, <2>2, <2>5, <2>7
<1> QED
  BY <1>1, <1>6, <1>7

\* The results of computeInt are the machine's: a sum, a difference, a product, a shift
\* to the left.
LEMMA SameIs ==
  ASSUME NEW x, NEW y, NEW symbol \in {"+", "-", "*", "<<"},
         x.kind \in integers, x.bits \in Nat \ {0}, x.n \in Int, y.n \in Int,
         symbol = "<<" => y.n >= 0
  PROVE  isResult(wrap(x.kind, x.bits, exactly(x.n, symbol, y.n)), x, symbol, y)
<1>1. PICK n \in Int, d \in Int : n = x.n /\ d = y.n
  OBVIOUS
<1>2. exactly(n, symbol, d) \in Int
  <2>1. CASE symbol = "+"
    BY <1>1, <2>1 DEF exactly
  <2>2. CASE symbol = "-"
    BY <1>1, <2>2 DEF exactly
  <2>3. CASE symbol = "*"
    BY <1>1, <2>3 DEF exactly
  <2>4. CASE symbol = "<<"
    <3>1. PICK D \in Nat : D = pow2(d)
      BY <1>1, <2>4, Pow2
    <3>2. n * D \in Int
      BY <1>1, <3>1
    <3> QED  BY <2>4, <3>1, <3>2 DEF exactly
  <2> QED  BY <2>1, <2>2, <2>3, <2>4
<1>3. PICK e \in Int : e = exactly(n, symbol, d)
  BY <1>2
<1>4. PICK k \in Holds(x.kind, x.bits), m \in Int :
        wrap(x.kind, x.bits, e) = num(x.kind, x.bits, k) /\ k = e + m * pow2(x.bits)
  BY <1>3, WrapIs
<1>5. PICK r : r = wrap(x.kind, x.bits, e) /\ r.n = k
  BY <1>4 DEF num
<1>6. k \in Int /\ pow2(x.bits) \in Nat \ {0}
  BY <1>4, HoldsIs
<1>7. (k - e) % pow2(x.bits) = 0
  BY <1>3, <1>4, <1>6, SameRest
<1>8. same(x, r, e)
  BY <1>5, <1>7 DEF same
<1>9. isResult(r, x, symbol, y)
  <2>1. CASE symbol = "+"
    BY <1>1, <1>3, <1>8, <2>1 DEF exactly, isResult
  <2>2. CASE symbol = "-"
    BY <1>1, <1>3, <1>8, <2>2 DEF exactly, isResult
  <2>3. CASE symbol = "*"
    BY <1>1, <1>3, <1>8, <2>3 DEF exactly, isResult
  <2>4. CASE symbol = "<<"
    BY <1>1, <1>3, <1>8, <2>4 DEF exactly, isResult, Shifted
  <2> QED  BY <2>1, <2>2, <2>3, <2>4
<1> QED
  BY <1>1, <1>3, <1>5, <1>9

\* A quotient and a rest.
LEMMA DividedIs ==
  ASSUME NEW x, NEW y, NEW symbol \in {"/", "%"},
         x.kind \in integers, x.bits \in Nat \ {0},
         x.n \in Holds(x.kind, x.bits), y.n \in Holds(x.kind, x.bits), y.n # 0
  PROVE  isResult(wrap(x.kind, x.bits, exactly(x.n, symbol, y.n)), x, symbol, y)
<1>1. PICK n \in Int, d \in Int : n = x.n /\ d = y.n /\ d # 0
  BY HoldsIs
<1>2. CASE symbol = "/"
  <2>1. PICK q \in Int : q = quo(n, d)
    BY <1>1, QuoIs
  <2>2. PICK k \in Int : wrap(x.kind, x.bits, q) = num(x.kind, x.bits, k) /\ q \in {k, -k}
    BY <1>1, <2>1, QuoHeld
  <2>3. PICK j \in Holds(x.kind, x.bits), m \in Int :
          wrap(x.kind, x.bits, q) = num(x.kind, x.bits, j) /\ j = q + m * pow2(x.bits)
    BY <2>1, WrapIs
  <2>4. PICK r : r = wrap(x.kind, x.bits, q) /\ r.n = k /\ k = j
    BY <2>2, <2>3 DEF num
  <2>5. same(x, r, q)
    <3>1. pow2(x.bits) \in Nat \ {0}
      BY HoldsIs
    <3>2. k = q + m * pow2(x.bits) /\ k \in Int /\ q \in Int /\ m \in Int
      BY <2>1, <2>2, <2>3, <2>4
    <3>3. (k - q) % pow2(x.bits) = 0
      BY <3>1, <3>2, SameRest
    <3> QED  BY <2>4, <3>3 DEF same
  <2>6. size(x.n - q * y.n) < size(y.n) /\ size(q * y.n) <= size(x.n)
    BY <1>1, <2>1, QuoIs
  <2>7. q \in {r.n, -r.n}
    BY <2>2, <2>4
  <2>8. isResult(r, x, "/", y)
    BY <2>5, <2>6, <2>7 DEF isResult
  <2>9. exactly(x.n, "/", y.n) = q
    BY <1>1, <2>1 DEF exactly
  <2> QED  BY <1>2, <2>4, <2>8, <2>9
<1>3. CASE symbol = "%"
  <2>1. PICK k \in Int : k = rem(n, d)
    BY <1>1, QuoIs
  <2>2. /\ size(k) < size(d) /\ (n - k) % size(d) = 0
        /\ (0 <= k /\ k <= n) \/ (n <= k /\ k <= 0)
    BY <1>1, <2>1, QuoIs
  <2>3. k \in Holds(x.kind, x.bits)
    BY <1>1, <2>2, HoldsBetween
  <2>4. PICK r : r = wrap(x.kind, x.bits, k) /\ r.n = k
    BY <2>3, WrapHeld DEF num
  <2>5. k * n >= 0
    BY <2>2
  <2>6. isResult(r, x, "%", y)
    BY <1>1, <2>2, <2>4, <2>5 DEF isResult
  <2>7. exactly(x.n, "%", y.n) = k
    BY <1>1, <2>1 DEF exactly
  <2> QED  BY <1>3, <2>4, <2>6, <2>7
<1> QED
  BY <1>2, <1>3

\* A shift to the right.
LEMMA ShiftedIs ==
  ASSUME NEW x, NEW y, x.kind \in integers, x.bits \in 1 .. Word,
         x.n \in Holds(x.kind, x.bits), y.n \in Nat
  PROVE  isResult(wrap(x.kind, x.bits, exactly(x.n, ">>", y.n)), x, ">>", y)
<1>1. PICK k \in Holds(x.kind, x.bits) :
        /\ k \in Int /\ k = exactly(x.n, ">>", y.n)
        /\ k * pow2(y.n) <= x.n /\ x.n < (k + 1) * pow2(y.n)
  BY ShiftIs
<1>2. x.bits \in Nat \ {0}
  BY WordAssumption
<1>3. PICK r : r = wrap(x.kind, x.bits, k) /\ r.n = k
  BY <1>1, <1>2, WrapHeld DEF num
<1>4. isResult(r, x, ">>", y)
  BY <1>1, <1>3 DEF isResult
<1> QED
  BY <1>1, <1>3, <1>4

bitSymbols == {"&", "|", "^", "&^"}
tableOf(symbol) == CASE symbol = "&" -> And [] symbol = "|" -> Or
                     [] symbol = "^" -> Xor [] symbol = "&^" -> AndNot

\* The tables give bits for bits, those of the promise.
LEMMA Tables ==
  /\ \A symbol \in bitSymbols : IsTable(tableOf(symbol))
  /\ \A a, b \in {0, 1} : /\ And[a][b] = a * b
                          /\ Or[a][b] = a + b - a * b
                          /\ Xor[a][b] = (a + b) % 2
                          /\ AndNot[a][b] = a * (1 - b)
<1>1. \A a, b \in {0, 1} : And[a][b] = (IF a = 1 /\ b = 1 THEN 1 ELSE 0)
  BY DEF And
<1>2. \A a, b \in {0, 1} : Or[a][b] = (IF a = 1 \/ b = 1 THEN 1 ELSE 0)
  BY DEF Or
<1>3. \A a, b \in {0, 1} : Xor[a][b] = (IF a # b THEN 1 ELSE 0)
  BY DEF Xor
<1>4. \A a, b \in {0, 1} : AndNot[a][b] = (IF a = 1 /\ b = 0 THEN 1 ELSE 0)
  BY DEF AndNot
<1>5. IsTable(And) /\ IsTable(Or) /\ IsTable(Xor) /\ IsTable(AndNot)
  BY <1>1, <1>2, <1>3, <1>4 DEF IsTable
<1>6. \A symbol \in bitSymbols : IsTable(tableOf(symbol))
  BY <1>5 DEF tableOf, bitSymbols
<1>7. ASSUME NEW a \in {0, 1}, NEW b \in {0, 1}
      PROVE  /\ And[a][b] = a * b
             /\ Or[a][b] = a + b - a * b
             /\ Xor[a][b] = (a + b) % 2
             /\ AndNot[a][b] = a * (1 - b)
  BY <1>1, <1>2, <1>3, <1>4
<1> QED
  BY <1>6, <1>7

\* What is made of the bits of two words, cut to the bits of the type, bit by bit.
LEMMA BitsAre ==
  ASSUME NEW table, IsTable(table), NEW kind \in integers, NEW bits \in 1 .. Word,
         NEW n \in Int, NEW d \in Int
  PROVE  /\ bitwise(table, n, d) \in Int
         /\ \A i \in 0 .. bits - 1 :
               bit(wrap(kind, bits, bitwise(table, n, d)).n, i) = table[bit(n, i)][bit(d, i)]
<1>1. bits \in Nat \ {0} /\ Word \in Nat \ {0} /\ bits <= Word
  BY WordAssumption
<1>2. PICK e \in Int : e = bitwise(table, n, d)
  BY BitwiseIs
<1>3. PICK k \in Holds(kind, bits), m \in Int :
        wrap(kind, bits, e) = num(kind, bits, k) /\ k = e + m * pow2(bits)
  BY <1>1, <1>2, WrapIs
<1>4. wrap(kind, bits, e).n = e + m * pow2(bits)
  BY <1>3 DEF num
<1>5. ASSUME NEW i \in 0 .. bits - 1
      PROVE  bit(e + m * pow2(bits), i) = table[bit(n, i)][bit(d, i)]
  <2>1. i \in Nat /\ i < bits /\ i < Word
    BY <1>1
  <2>2. bit(e + m * pow2(bits), i) = bit(e, i)
    BY <1>1, <1>2, <1>3, <2>1, BitMore
  <2> QED  BY <1>2, <2>1, <2>2, BitwiseIs
<1> QED
  BY <1>2, <1>4, <1>5

\* An operator on bits.
LEMMA BitResultIs ==
  ASSUME NEW x, NEW y, NEW symbol \in bitSymbols,
         x.kind \in integers, x.bits \in 1 .. Word, x.n \in Int, y.n \in Int
  PROVE  isResult(wrap(x.kind, x.bits, exactly(x.n, symbol, y.n)), x, symbol, y)
<1>1. PICK table : table = tableOf(symbol) /\ IsTable(table)
  BY Tables
<1>2. exactly(x.n, symbol, y.n) = bitwise(table, x.n, y.n)
  BY <1>1 DEF exactly, tableOf, bitSymbols
<1>3. PICK r : r = wrap(x.kind, x.bits, bitwise(table, x.n, y.n))
  OBVIOUS
<1>4. ASSUME NEW i \in 0 .. x.bits - 1
      PROVE  /\ bit(x.n, i) \in {0, 1} /\ bit(y.n, i) \in {0, 1}
             /\ bit(r.n, i) = table[bit(x.n, i)][bit(y.n, i)]
  <2>1. i \in Nat
    BY WordAssumption
  <2> QED  BY <1>1, <1>3, <2>1, BitsAre, BitIs
<1>5. isResult(r, x, symbol, y)
  <2>1. CASE symbol = "&"
    <3>1. table = And
      BY <1>1, <2>1 DEF tableOf
    <3>2. \A i \in 0 .. x.bits - 1 : bit(r.n, i) = bit(x.n, i) * bit(y.n, i)
      BY <1>4, <3>1, Tables
    <3> QED  BY <2>1, <3>2 DEF isResult, bitByBit
  <2>2. CASE symbol = "|"
    <3>1. table = Or
      BY <1>1, <2>2 DEF tableOf
    <3>2. \A i \in 0 .. x.bits - 1 :
             bit(r.n, i) = bit(x.n, i) + bit(y.n, i) - bit(x.n, i) * bit(y.n, i)
      BY <1>4, <3>1, Tables
    <3> QED  BY <2>2, <3>2 DEF isResult, bitByBit
  <2>3. CASE symbol = "^"
    <3>1. table = Xor
      BY <1>1, <2>3 DEF tableOf
    <3>2. \A i \in 0 .. x.bits - 1 : bit(r.n, i) = (bit(x.n, i) + bit(y.n, i)) % 2
      BY <1>4, <3>1, Tables
    <3> QED  BY <2>3, <3>2 DEF isResult, bitByBit
  <2>4. CASE symbol = "&^"
    <3>1. table = AndNot
      BY <1>1, <2>4 DEF tableOf
    <3>2. \A i \in 0 .. x.bits - 1 : bit(r.n, i) = bit(x.n, i) * (1 - bit(y.n, i))
      BY <1>4, <3>1, Tables
    <3> QED  BY <2>4, <3>2 DEF isResult, bitByBit
  <2> QED  BY <2>1, <2>2, <2>3, <2>4 DEF bitSymbols
<1> QED
  BY <1>2, <1>3, <1>5

-----------------------------------------------------------------------------
(* The functions of the templates.                                           *)

\* An integer is of some bits, in the range of its type, and none of the others.
LEMMA IntegerIs ==
  ASSUME NEW x, isNumber(x), x.kind \in integers
  PROVE  /\ x = num(x.kind, x.bits, x.n) /\ x.bits \in 1 .. Word /\ x.bits \in Nat \ {0}
         /\ x.n \in Holds(x.kind, x.bits) /\ x.n \in Int
<1>1. /\ x = num(x.kind, x.bits, x.n) /\ x.bits \in 1 .. Word
      /\ x.n \in Holds(x.kind, x.bits)
  <2>1. CASE x \in {float(x.n), num("string", 0, x.n)}
    <3>1. x.kind \in {"float", "string"}
      BY <2>1 DEF float, num
    <3> QED  BY <3>1 DEF integers
  <2> QED  BY <2>1 DEF isNumber
<1>2. x.bits \in Nat \ {0}
  BY <1>1, WordAssumption
<1> QED
  BY <1>1, <1>2, HoldsIs

\* A number cut to an integer type is one of that type.
LEMMA Wrapped ==
  ASSUME NEW kind \in integers, NEW bits \in Nat \ {0}, NEW n \in Int
  PROVE  LET r == wrap(kind, bits, n)
         IN /\ r.kind = kind /\ r.bits = bits /\ r.n \in Holds(kind, bits)
            /\ r \notin {Error, Open}
<1>1. PICK k \in Holds(kind, bits) : wrap(kind, bits, n) = num(kind, bits, k)
  BY WrapIs
<1>2. num(kind, bits, k).kind \notin {"error", "float"}
  BY DEF num, integers
<1>3. Error.kind = "error" /\ Open.kind = "float"
  BY DEF Error, Open, float, num
<1> QED
  BY <1>1, <1>2, <1>3 DEF num

Traps(symbol, y) == \/ symbol \in {"/", "%"} /\ y.n = 0
                    \/ symbol \in {"<<", ">>"} /\ y.n < 0

\* Of two integers of a type the code computes an integer, unless the machine would trap.
LEMMA ExactlyIs ==
  ASSUME NEW kind \in integers, NEW bits \in 1 .. Word, NEW n \in Holds(kind, bits),
         NEW d \in Holds(kind, bits), NEW symbol \in symbols,
         symbol \in {"/", "%"} => d # 0, symbol \in {"<<", ">>"} => d >= 0
  PROVE  exactly(n, symbol, d) \in Int
<1>1. bits \in Nat \ {0}
  BY WordAssumption
<1>2. n \in Int /\ d \in Int
  BY <1>1, HoldsIs
<1>3. CASE symbol \in {"+", "-", "*"}
  BY <1>2, <1>3 DEF exactly
<1>4. CASE symbol \in {"/", "%"}
  BY <1>2, <1>4, QuoIs DEF exactly
<1>5. CASE symbol \in bitSymbols
  BY <1>2, <1>5, Tables, BitwiseIs DEF exactly, bitSymbols, tableOf
<1>6. CASE symbol = "<<"
  <2>1. PICK D \in Nat : D = pow2(d)
    BY <1>2, <1>6, Pow2
  <2>2. n * D \in Int
    BY <1>2
  <2> QED  BY <1>6, <2>1, <2>2 DEF exactly
<1>7. CASE symbol = ">>"
  <2>1. d \in Nat
    BY <1>2, <1>7
  <2> QED  BY <1>7, <2>1, ShiftIs
<1> QED
  BY <1>3, <1>4, <1>5, <1>6, <1>7 DEF symbols, bitSymbols

\* What Compute makes of two integers of a type: Error where the machine would trap, and
\* otherwise the machine's result, a number of that type.
LEMMA Computed ==
  ASSUME NEW x, NEW y, NEW symbol \in symbols, isNumber(x), isNumber(y),
         x.kind \in integers, x.kind = y.kind, x.bits = y.bits
  PROVE  LET r == Compute(x, symbol, y)
         IN /\ Traps(symbol, y) => r = Error
            /\ ~Traps(symbol, y) =>
                 /\ r = wrap(x.kind, x.bits, exactly(x.n, symbol, y.n))
                 /\ r.kind = x.kind /\ r.bits = x.bits /\ r.n \in Holds(x.kind, x.bits)
                 /\ r \notin {Error, Open}
                 /\ isResult(r, x, symbol, y)
<1>1. /\ x.bits \in 1 .. Word /\ x.bits \in Nat \ {0}
      /\ x.n \in Holds(x.kind, x.bits) /\ y.n \in Holds(x.kind, x.bits)
      /\ x.n \in Int /\ y.n \in Int
  BY IntegerIs
<1>2. Compute(x, symbol, y) = computeInt(x, symbol, y)
  BY DEF Compute
<1>3. Traps(symbol, y) => computeInt(x, symbol, y) = Error
  BY DEF Traps, computeInt
<1>4. ASSUME ~Traps(symbol, y)
      PROVE  LET r == computeInt(x, symbol, y)
             IN /\ r = wrap(x.kind, x.bits, exactly(x.n, symbol, y.n))
                /\ r.kind = x.kind /\ r.bits = x.bits /\ r.n \in Holds(x.kind, x.bits)
                /\ r \notin {Error, Open}
                /\ isResult(r, x, symbol, y)
  <2>1. computeInt(x, symbol, y) = wrap(x.kind, x.bits, exactly(x.n, symbol, y.n))
    BY <1>4 DEF Traps, computeInt
  <2>2. /\ symbol \in {"/", "%"} => y.n # 0
        /\ symbol \in {"<<", ">>"} => y.n >= 0
    BY <1>1, <1>4 DEF Traps
  <2>3. exactly(x.n, symbol, y.n) \in Int
    BY <1>1, <2>2, ExactlyIs
  <2>4. PICK r : r = wrap(x.kind, x.bits, exactly(x.n, symbol, y.n))
    OBVIOUS
  <2>5. /\ r.kind = x.kind /\ r.bits = x.bits /\ r.n \in Holds(x.kind, x.bits)
        /\ r \notin {Error, Open}
    BY <1>1, <2>3, <2>4, Wrapped
  <2>6. isResult(r, x, symbol, y)
    <3>1. CASE symbol \in {"+", "-", "*", "<<"}
      BY <1>1, <2>2, <2>4, <3>1, SameIs
    <3>2. CASE symbol \in {"/", "%"}
      BY <1>1, <2>2, <2>4, <3>2, DividedIs
    <3>3. CASE symbol \in bitSymbols
      BY <1>1, <2>4, <3>3, BitResultIs
    <3>4. CASE symbol = ">>"
      <4>1. y.n \in Nat
        BY <1>1, <2>2, <3>4
      <4> QED  BY <1>1, <2>4, <3>4, <4>1, ShiftedIs
    <3> QED  BY <3>1, <3>2, <3>3, <3>4 DEF symbols, bitSymbols
  <2> QED  BY <2>1, <2>4, <2>5, <2>6
<1> QED
  BY <1>2, <1>3, <1>4

\* Compute of two numbers that are not both integers of a type.
LEMMA NotComputed ==
  ASSUME NEW x, NEW y, NEW symbol
  PROVE  /\ x.kind # y.kind \/ x.bits # y.bits => Compute(x, symbol, y) = Error
         /\ x.kind \notin integers => Compute(x, symbol, y) \in {Error, Open}
  BY DEF Compute

\* The complement of a number has the other bits.
LEMMA Complement ==
  ASSUME NEW n \in Int, NEW i \in Nat
  PROVE  bit((-n) - 1, i) = Xor[bit(n, i)][bit(-1, i)]
<1>1. PICK P \in Nat \ {0} : P = pow2(i)
  BY Pow2
<1>2. PICK q \in Int, r \in Int : q = n \div P /\ r = n % P
  BY <1>1, DivMod
<1>3. 0 <= r /\ r < P /\ n = P * q + r
  BY <1>1, <1>2, DivMod
<1>4. PICK z \in Int, k \in Int, s \in Int :
        z = (-n) - 1 /\ k = (-q) - 1 /\ s = (P - 1) - r
  BY <1>1, <1>2
<1>5. 0 <= s /\ s < P /\ z = P * k + s
  <2>1. P * k = -(P * q) - P
    BY <1>4
  <2>2. PICK t \in Int : t = P * q
    OBVIOUS
  <2> QED  BY <1>1, <1>3, <1>4, <2>1, <2>2
<1>6. z \div P = k
  BY <1>1, <1>5, DivModIs
<1>7. (-1) \div P = -1
  <2>1. PICK p \in Int, one \in Int : p = P - 1 /\ one = -1
    BY <1>1
  <2>2. one = P * one + p /\ 0 <= p /\ p < P
    BY <1>1, <2>1
  <2> QED  BY <1>1, <2>1, <2>2, DivModIs
<1>8. (-1) % 2 = 1
  <2>1. PICK one \in Int : one = -1
    OBVIOUS
  <2>2. one = 2 * one + 1 /\ 0 <= 1 /\ 1 < 2
    BY <2>1
  <2>3. 2 \in Nat \ {0} /\ 1 \in Int
    OBVIOUS
  <2>4. one % 2 = 1
    BY <2>1, <2>2, <2>3, DivModIs
  <2> QED  BY <2>1, <2>4
<1>9. q % 2 \in {0, 1} /\ k % 2 = 1 - (q % 2)
  BY <1>4
<1>10. \A b \in {0, 1} : Xor[b][1] = 1 - b
  BY DEF Xor
<1>11. bit(z, i) = k % 2 /\ bit(n, i) = q % 2 /\ bit(-1, i) = 1
  BY <1>1, <1>2, <1>6, <1>7, <1>8 DEF bit
<1> QED
  BY <1>4, <1>9, <1>10, <1>11

\* So BitNot turns every bit.
LEMMA NotIs ==
  ASSUME NEW x, isNumber(x), isInt(x)
  PROVE  BitNot(x) = Bit(x, "^", int(-1))
<1>1. PICK n \in Int : n = x.n /\ n \in Holds("int", Word)
  BY IntegerIs DEF isInt, integers
<1>2. Word \in Nat \ {0} /\ "int" \in integers
  BY WordAssumption DEF integers
<1>3. PICK z \in Int : z = (-n) - 1
  OBVIOUS
<1>4. z \in Holds("int", Word)
  <2>1. PICK h \in Nat \ {0} : h = pow2(Word - 1) /\ pow2(Word) = 2 * h
    BY <1>2, HoldsIs
  <2>2. Holds("int", Word) = (-h) .. (h - 1)
    BY <2>1 DEF Holds
  <2>3. -h <= n /\ n <= h - 1
    BY <1>1, <2>1, <2>2
  <2>4. -h <= z /\ z <= h - 1
    BY <1>1, <1>3, <2>1, <2>3
  <2> QED  BY <1>3, <2>1, <2>2, <2>4
<1>5. \A j \in Nat : bit(z, j) = Xor[bit(n, j)][bit(-1, j)]
  BY <1>3, Complement
<1>6. bitwise(Xor, n, -1) = z % pow2(Word)
  BY <1>5, BitwiseOf
<1>7. PICK P \in Nat \ {0} : P = pow2(Word)
  BY <1>2, HoldsIs
<1>8. PICK q \in Int, r \in Int : q = z \div P /\ r = z % P
  BY <1>7, DivMod
<1>9. r = z + (-q) * P
  <2>1. z = P * q + r
    BY <1>7, <1>8, DivMod
  <2>2. (-q) * P = -(P * q)
    BY <1>7
  <2>3. PICK t \in Int : t = P * q
    BY <1>7
  <2> QED  BY <1>8, <2>1, <2>2, <2>3
<1>10. wrap("int", Word, r) = wrap("int", Word, z)
  <2>1. PICK m \in Int : m = -q
    BY <1>8
  <2>2. r = z + m * pow2(Word)
    BY <1>7, <1>9, <2>1
  <2> QED  BY <1>2, <1>3, <2>1, <2>2, WrapMore
<1>11. wrap("int", Word, z) = int(z)
  BY <1>2, <1>4, WrapHeld DEF int
<1>12. exactly(n, "^", -1) = r
  BY <1>6, <1>7, <1>8 DEF exactly
<1>13. Bit(x, "^", int(-1)) = wrap("int", Word, exactly(n, "^", -1))
  BY <1>1 DEF Bit, isInt, int, num
<1>14. BitNot(x) = int(z)
  BY <1>1, <1>3 DEF BitNot
<1> QED
  BY <1>10, <1>11, <1>12, <1>13, <1>14

\* A shift by a number that is not negative is a shift by its pattern.
LEMMA PatternIs ==
  ASSUME NEW n \in Holds("int", Word), n >= 0
  PROVE  pattern(n) = n
<1>1. Word \in Nat \ {0} /\ "int" \in integers
  BY WordAssumption DEF integers
<1>2. PICK h \in Nat \ {0}, P \in Nat \ {0} :
        h = pow2(Word - 1) /\ P = pow2(Word) /\ P = 2 * h
  BY <1>1, HoldsIs
<1>3. n \in Int /\ n < P
  BY <1>2 DEF Holds
<1>4. n = P * 0 + n
  BY <1>2, <1>3
<1>5. n % P = n
  BY <1>2, <1>3, <1>4, DivModIs
<1> QED
  BY <1>2, <1>5 DEF pattern

resultOf(x, symbol, y) ==
    IF symbol \in {"*", "/", "%"} THEN Product(x, symbol, y) ELSE Compute(x, symbol, y)

\* A result, but for int and float mixed, is that of Compute.
LEMMA ResultOf ==
  ASSUME NEW x, NEW y, NEW symbol
  PROVE  /\ resultOf(x, symbol, y) \in {Open, Compute(x, symbol, y)}
         /\ x.kind \in integers /\ x.kind = y.kind
              => resultOf(x, symbol, y) = Compute(x, symbol, y)
         /\ symbol \notin {"*", "/", "%"} => resultOf(x, symbol, y) = Compute(x, symbol, y)
<1>1. x.kind \in integers /\ x.kind = y.kind => ~Mixed(x, y)
  BY DEF Mixed, isInt, isFloat, integers
<1> QED
  BY <1>1 DEF resultOf, Product

\* A result is the machine's.
LEMMA ResultFits ==
  ASSUME NEW x, NEW y, NEW symbol \in symbols, isNumber(x), isNumber(y),
         x.kind \in integers, resultOf(x, symbol, y) \notin {Error, Open}
  PROVE  LET r == resultOf(x, symbol, y)
         IN /\ r.kind = x.kind /\ r.bits = x.bits /\ r.n \in Holds(x.kind, x.bits)
            /\ isResult(r, x, symbol, y)
<1>1. PICK r : r = resultOf(x, symbol, y) /\ r = Compute(x, symbol, y) /\ r # Error
  BY ResultOf
<1>2. x.kind = y.kind /\ x.bits = y.bits
  BY <1>1, NotComputed
<1>3. ~Traps(symbol, y)
  BY <1>1, <1>2, Computed
<1>4. /\ r.kind = x.kind /\ r.bits = x.bits /\ r.n \in Holds(x.kind, x.bits)
      /\ isResult(r, x, symbol, y)
  BY <1>1, <1>2, <1>3, Computed
<1> QED
  BY <1>1, <1>4

\* So is what Add and Sub make of integers of different types.
LEMMA SumIs ==
  ASSUME NEW x, NEW y, NEW symbol \in {"+", "-"}, isNumber(x), isNumber(y),
         x.kind # "string", Sum(x, symbol, y) \notin {Error, Open}
  PROVE  LET r == Sum(x, symbol, y)
         IN r.n \in Holds(x.kind, x.bits) /\ isResult(r, x, symbol, y)
<1>1. symbol \in symbols
  BY DEF symbols
<1>2. PICK r : r = Sum(x, symbol, y) /\ r \notin {Error, Open}
  OBVIOUS
<1>3. CASE x.kind \in integers /\ isInt(y)
  <2>1. r = wrap(x.kind, x.bits, exactly(x.n, symbol, y.n))
    <3>1. ~Mixed(x, y)
      BY <1>2 DEF Sum
    <3> QED  BY <1>2, <1>3, <3>1 DEF Sum
  <2>2. y.kind \in integers
    BY <1>3 DEF isInt, integers
  <2>3. x.bits \in Nat \ {0} /\ x.n \in Int /\ y.n \in Int
    BY <1>3, <2>2, IntegerIs
  <2>4. exactly(x.n, symbol, y.n) \in Int
    BY <2>3 DEF exactly
  <2>5. r.n \in Holds(x.kind, x.bits)
    BY <1>3, <2>1, <2>3, <2>4, Wrapped
  <2>6. isResult(r, x, symbol, y)
    BY <1>3, <2>1, <2>3, SameIs
  <2> QED  BY <1>2, <2>5, <2>6
<1>4. CASE ~(x.kind \in integers /\ isInt(y))
  <2>1. r = Compute(x, symbol, y)
    <3>1. ~Mixed(x, y)
      BY <1>2 DEF Sum
    <3> QED  BY <1>2, <1>4, <3>1 DEF Sum
  <2>2. x.kind \in integers
    BY <1>2, <2>1, NotComputed
  <2>3. r = resultOf(x, symbol, y)
    BY <2>1, ResultOf
  <2> QED  BY <1>1, <1>2, <2>2, <2>3, ResultFits
<1> QED
  BY <1>3, <1>4

\* Integers of a type are refused where the machine would trap, and nowhere else.
LEMMA ErrorsAreTraps ==
  ASSUME NEW x, NEW y, NEW symbol \in symbols, isNumber(x), isNumber(y),
         x.kind \in integers, x.kind = y.kind, x.bits = y.bits
  PROVE  resultOf(x, symbol, y) = Error <=> Traps(symbol, y)
<1>1. resultOf(x, symbol, y) = Compute(x, symbol, y)
  BY ResultOf
<1>2. Traps(symbol, y) => Compute(x, symbol, y) = Error
  BY Computed
<1>3. ~Traps(symbol, y) => Compute(x, symbol, y) # Error
  BY Computed
<1> QED
  BY <1>1, <1>2, <1>3

\* Inc, Dec and Neg are the sum, the difference and the negative.
LEMMA StepsAre ==
  ASSUME NEW x, isNumber(x)
  PROVE  /\ x.kind \in integers => /\ Inc(x) = Sum(x, "+", int(1))
                                   /\ Dec(x) = Sum(x, "-", int(1))
         /\ x.kind = "int" => Neg(x) = Compute(num("int", x.bits, 0), "-", x)
<1>1. ASSUME x.kind \in integers
      PROVE  Inc(x) = Sum(x, "+", int(1)) /\ Dec(x) = Sum(x, "-", int(1))
  <2>1. PICK one : one = int(1)
    OBVIOUS
  <2>2. isInt(one) /\ one.n = 1 /\ one.kind = "int"
    BY <2>1 DEF isInt, int, num
  <2>3. ~Mixed(x, one)
    BY <1>1, <2>2 DEF Mixed, isFloat, integers
  <2>4. /\ Sum(x, "+", one) = wrap(x.kind, x.bits, exactly(x.n, "+", one.n))
        /\ Sum(x, "-", one) = wrap(x.kind, x.bits, exactly(x.n, "-", one.n))
    BY <1>1, <2>2, <2>3 DEF Sum
  <2>5. exactly(x.n, "+", one.n) = x.n + 1 /\ exactly(x.n, "-", one.n) = x.n - 1
    BY <2>2 DEF exactly
  <2> QED  BY <1>1, <2>1, <2>4, <2>5 DEF Inc, Dec
<1>2. ASSUME x.kind = "int"
      PROVE  Neg(x) = Compute(num("int", x.bits, 0), "-", x)
  <2>1. PICK none : none = num("int", x.bits, 0)
    OBVIOUS
  <2>2. none.kind = "int" /\ none.bits = x.bits /\ none.n = 0
    BY <2>1 DEF num
  <2>3. Compute(none, "-", x) = computeInt(none, "-", x)
    BY <1>2, <2>2 DEF Compute, integers
  <2>4. computeInt(none, "-", x) = wrap("int", x.bits, exactly(0, "-", x.n))
    BY <2>2 DEF computeInt, symbols
  <2>5. exactly(0, "-", x.n) = 0 - x.n
    BY DEF exactly
  <2>6. 0 - x.n = -x.n
    <3>1. x.n \in Int
      BY <1>2, IntegerIs DEF integers
    <3> QED  BY <3>1
  <2>7. Neg(x) = wrap("int", x.bits, -x.n)
    BY <1>2 DEF Neg
  <2> QED  BY <2>1, <2>3, <2>4, <2>5, <2>6, <2>7
<1> QED
  BY <1>1, <1>2

\* The functions on bits compute what the operators compute.
LEMMA BitsCompute ==
  ASSUME NEW x, NEW y, NEW symbol \in symbols, isNumber(x), isNumber(y), isInt(x),
         symbol \notin {"+", "-", "*", "/", "%"}, resultOf(x, symbol, y) # Error
  PROVE  Bit(x, symbol, y) = resultOf(x, symbol, y)
<1>1. resultOf(x, symbol, y) = Compute(x, symbol, y)
  BY ResultOf
<1>2. x.kind = "int" /\ x.bits = Word /\ x.kind \in integers
  BY DEF isInt, integers
<1>3. x.kind = y.kind /\ x.bits = y.bits /\ isInt(y)
  BY <1>1, <1>2, NotComputed DEF isInt
<1>4. ~Traps(symbol, y)
  BY <1>1, <1>2, <1>3, Computed
<1>5. Compute(x, symbol, y) = wrap("int", Word, exactly(x.n, symbol, y.n))
  BY <1>2, <1>3, <1>4, Computed
<1>6. y.n \in Int /\ y.n \in Holds("int", Word)
  BY <1>2, <1>3, IntegerIs
<1>7. symbol \in {"<<", ">>"} => pattern(y.n) = y.n
  BY <1>4, <1>6, PatternIs DEF Traps
<1>8. Bit(x, symbol, y) = wrap("int", Word, exactly(x.n, symbol, y.n))
  BY <1>3, <1>7 DEF Bit
<1> QED
  BY <1>1, <1>5, <1>8

\* So the arithmetic of every input is that of the machine.
LEMMA SumsFit ==
  ASSUME input \in SumInputs
  PROVE  SumFits
<1>1. PICK x, y, symbol : /\ x = input.x /\ y = input.y /\ symbol = input.symbol
                           /\ symbol \in symbols
  BY NumberAssumption
<1>2. isNumber(x) /\ x.kind # "string" /\ isNumber(y) /\ y.kind # "string"
  BY <1>1, NumberAssumption
<1>3. PICK r, mixed : r = resultOf(x, symbol, y) /\ mixed = Sum(x, symbol, y)
  OBVIOUS
<1>4. r \notin {Error, Open} /\ x.kind \in integers =>
        /\ r.kind = x.kind /\ r.bits = x.bits /\ r.n \in Holds(x.kind, x.bits)
        /\ isResult(r, x, symbol, y)
  BY <1>1, <1>2, <1>3, ResultFits
<1>5. symbol \in {"+", "-"} /\ mixed \notin {Error, Open} =>
        mixed.n \in Holds(x.kind, x.bits) /\ isResult(mixed, x, symbol, y)
  BY <1>2, <1>3, SumIs
<1>6. x.kind \in integers /\ x.kind = y.kind /\ x.bits = y.bits =>
        (r = Error <=> \/ symbol \in {"/", "%"} /\ y.n = 0
                       \/ symbol \in {"<<", ">>"} /\ y.n < 0)
  BY <1>1, <1>2, <1>3, ErrorsAreTraps DEF Traps
<1>7. /\ x.kind \in integers => Inc(x) = Sum(x, "+", int(1)) /\ Dec(x) = Sum(x, "-", int(1))
      /\ x.kind = "int" => Neg(x) = Compute(num("int", x.bits, 0), "-", x)
  BY <1>2, StepsAre
<1>8. isInt(x) => BitNot(x) = Bit(x, "^", int(-1))
  BY <1>2, NotIs
<1>9. r # Error /\ isInt(x) /\ symbol \notin {"+", "-", "*", "/", "%"} =>
        Bit(x, symbol, y) = r
  BY <1>1, <1>2, <1>3, BitsCompute
<1> QED
  BY <1>1, <1>3, <1>4, <1>5, <1>6, <1>7, <1>8, <1>9 DEF SumFits, resultOf

-----------------------------------------------------------------------------
(* Keys.                                                                     *)

\* A type holds what the Word of its kind holds, and less of it.
LEMMA HoldsNarrow ==
  ASSUME NEW kind \in integers, NEW bits \in 1 .. Word
  PROVE  /\ Holds(kind, bits) \subseteq Holds(kind, Word)
         /\ \E low \in Int, top \in Int : /\ low <= 0 /\ 0 <= top
                                          /\ Holds(kind, bits) = low .. top
<1>1. bits \in Nat \ {0} /\ Word \in Nat \ {0} /\ bits <= Word /\ bits - 1 \in Nat
      /\ Word - 1 \in Nat /\ bits - 1 <= Word - 1
  BY WordAssumption
<1>2. PICK P \in Nat \ {0}, h \in Nat \ {0} : P = pow2(bits) /\ h = pow2(bits - 1)
  BY <1>1, HoldsIs
<1>3. PICK Q \in Nat \ {0}, g \in Nat \ {0} : Q = pow2(Word) /\ g = pow2(Word - 1)
  BY <1>1, HoldsIs
<1>4. pow2(bits) <= pow2(Word) /\ pow2(bits - 1) <= pow2(Word - 1)
  BY <1>1, Pow2Multiple
<1>5. P <= Q /\ h <= g
  BY <1>2, <1>3, <1>4
<1>6. CASE kind = "int"
  <2>1. Holds(kind, bits) = (-h) .. (h - 1) /\ Holds(kind, Word) = (-g) .. (g - 1)
    BY <1>2, <1>3, <1>6 DEF Holds
  <2>2. PICK low \in Int, top \in Int : low = -h /\ top = h - 1 /\ low <= 0 /\ 0 <= top
    BY <1>2
  <2>3. Holds(kind, bits) \subseteq Holds(kind, Word)
    <3>1. ASSUME NEW k \in Holds(kind, bits) PROVE k \in Int /\ -h <= k /\ k <= h - 1
      BY <1>2, <2>1
    <3>2. ASSUME NEW k \in Int, -h <= k, k <= h - 1 PROVE k \in (-g) .. (g - 1)
      <4>1. -g <= k /\ k <= g - 1
        BY <1>2, <1>3, <1>5, <3>2
      <4> QED  BY <1>3, <4>1
    <3> QED  BY <2>1, <3>1, <3>2
  <2>4. Holds(kind, bits) = low .. top
    BY <2>1, <2>2
  <2> QED  BY <2>2, <2>3, <2>4
<1>7. CASE kind = "uint"
  <2>1. Holds(kind, bits) = 0 .. (P - 1) /\ Holds(kind, Word) = 0 .. (Q - 1)
    BY <1>2, <1>3, <1>7 DEF Holds
  <2>2. PICK low \in Int, top \in Int : low = 0 /\ top = P - 1 /\ low <= 0 /\ 0 <= top
    BY <1>2
  <2>3. Holds(kind, bits) \subseteq Holds(kind, Word)
    BY <1>2, <1>3, <1>5, <2>1
  <2>4. Holds(kind, bits) = low .. top
    BY <2>1, <2>2
  <2> QED  BY <2>2, <2>3, <2>4
<1> QED
  BY <1>6, <1>7 DEF integers

\* The widest of an integer kind that a key is made first.
widened(key, kind) == IF kind = "int" THEN toInt64ForKey(key) ELSE toUint64ForKey(key)
isBoundary(key) == key.kind = "float" /\ key.n \in {2 * pow2(Word - 1), 2 * pow2(Word)}

\* What is made of a float first: nothing of one that is out of range or no number, and
\* otherwise the integer next to it toward zero; and of what the bound lets through
\* anything.
IsNext(c, key, kind) ==
    /\ c = Error \/ (c = num(kind, Word, c.n) /\ c.n \in Int)
    /\ kind = "int" /\ c # Error => c.n \in Holds("int", Word)
    /\ key.n = NaN => c = Error
    /\ key.n # NaN /\ ~isBoundary(key) =>
         IF c = Error THEN key.n < 0 \/ \A n \in Holds(kind, Word) : 2 * n + 2 <= key.n
         ELSE /\ size(2 * c.n - key.n) < 2
              /\ key.n >= 0 => 0 <= c.n /\ 2 * c.n <= key.n

\* Error is no number of an integer kind.
LEMMA NoError ==
  ASSUME NEW kind \in integers, NEW bits, NEW n
  PROVE  num(kind, bits, n) # Error
<1>1. num(kind, bits, n).kind = kind /\ Error.kind = "error"
  BY DEF num, Error
<1> QED
  BY <1>1 DEF integers

\* The half of a number, toward zero.
LEMMA HalfIs ==
  ASSUME NEW n \in Int
  PROVE  /\ quo(n, 2) \in Int
         /\ size(2 * quo(n, 2) - n) < 2
         /\ n >= 0 => 0 <= quo(n, 2) /\ 2 * quo(n, 2) <= n
         /\ n < 0 => n <= 2 * quo(n, 2) /\ quo(n, 2) <= 0
         /\ n >= 0 => n \div 2 = quo(n, 2)
<1>1. CASE n >= 0
  <2>1. sign(n) = 1 /\ sign(2) = 1
    BY <1>1 DEF sign
  <2>2. quo(n, 2) = n \div 2
    BY <2>1 DEF quo
  <2>3. PICK q \in Int, r \in Int : q = n \div 2 /\ n = 2 * q + r /\ 0 <= r /\ r < 2
    BY DivMod
  <2>4. size(2 * q - n) < 2 /\ 0 <= q /\ 2 * q <= n
    BY <1>1, <2>3 DEF size
  <2> QED  BY <1>1, <2>2, <2>3, <2>4
<1>2. CASE n < 0
  <2>1. sign(n) = -1 /\ sign(2) = 1
    BY <1>2 DEF sign
  <2>2. PICK m \in Int : m = -n
    OBVIOUS
  <2>3. PICK q \in Int, r \in Int : q = m \div 2 /\ m = 2 * q + r /\ 0 <= r /\ r < 2
    BY <2>2, DivMod
  <2>4. (-1) * n = m
    BY <2>2
  <2>5. quo(n, 2) = -q
    BY <2>1, <2>3, <2>4 DEF quo
  <2>6. PICK k \in Int : k = -q
    BY <2>3
  <2>7. size(2 * k - n) < 2 /\ n <= 2 * k /\ k <= 0
    BY <1>2, <2>2, <2>3, <2>6 DEF size
  <2> QED  BY <1>2, <2>5, <2>6, <2>7
<1> QED
  BY <1>1, <1>2

\* Of an integer or a string the widest is the same number, or nothing.
LEMMA WidenedWhole ==
  ASSUME NEW key, key.kind \in integers \cup {"string"}, NEW kind \in integers
  PROVE  widened(key, kind) = {IF key.n # NaN /\ key.n \in Holds(kind, Word)
                               THEN num(kind, Word, key.n) ELSE Error}
  BY DEF widened, toInt64ForKey, toUint64ForKey, integers, int

\* Of a float the widest is the integer next to it.
LEMMA WidenedFloat ==
  ASSUME NEW key, key.kind = "float", key.n \in Int \cup {NaN}, NEW kind \in integers,
         NEW c \in widened(key, kind)
  PROVE  IsNext(c, key, kind)
<1>1. Word \in Nat \ {0} /\ {"int", "uint"} \subseteq integers
  BY WordAssumption DEF integers
<1>2. PICK h \in Nat \ {0}, P \in Nat \ {0} :
        h = pow2(Word - 1) /\ P = pow2(Word) /\ P = 2 * h
  BY <1>1, HoldsIs
<1>3. Error = Error /\ (c = Error => c.n = NaN)
  BY DEF Error, num
<1>4. CASE key.n = NaN
  <2>1. c = Error
    BY <1>4 DEF widened, toInt64ForKey, toUint64ForKey, fromFloat, integers
  <2> QED  BY <1>4, <2>1 DEF IsNext
<1>5. CASE key.n # NaN /\ kind = "int"
  <2>1. PICK f \in Int : f = key.n
    BY <1>5
  <2>2. c \in fromFloat(key)
    BY <1>5 DEF widened, toInt64ForKey, integers
  <2>3. Holds("int", Word) = (-h) .. (h - 1)
    BY <1>2 DEF Holds
  <2>4. CASE f > 2 * h \/ f < -(2 * h)
    <3>1. c = Error
      BY <1>2, <1>5, <2>1, <2>2, <2>4 DEF fromFloat
    <3>2. f < 0 \/ \A n \in Holds("int", Word) : 2 * n + 2 <= f
      <4>1. CASE f < -(2 * h)
        BY <1>2, <2>1, <4>1
      <4>2. CASE f > 2 * h
        BY <1>2, <2>1, <2>3, <4>2
      <4> QED  BY <2>4, <4>1, <4>2
    <3> QED  BY <1>5, <2>1, <3>1, <3>2 DEF IsNext
  <2>5. CASE f = 2 * h
    <3>1. c \in {int(n) : n \in Holds("int", Word)}
      <4>1. ~(f > 2 * h \/ f < -(2 * h))
        BY <1>2, <2>1, <2>5
      <4> QED  BY <1>2, <1>5, <2>1, <2>2, <2>5, <4>1 DEF fromFloat
    <3>2. PICK n \in Holds("int", Word) : c = num("int", Word, n)
      BY <3>1 DEF int
    <3>3. c.n = n /\ n \in Int
      BY <1>2, <2>3, <3>2 DEF num
    <3>4. isBoundary(key)
      BY <1>2, <2>1, <2>5 DEF isBoundary
    <3> QED  BY <1>5, <3>2, <3>3, <3>4 DEF IsNext
  <2>6. CASE ~(f > 2 * h \/ f < -(2 * h)) /\ f # 2 * h
    <3>1. c = int(quo(f, 2))
      BY <1>2, <1>5, <2>1, <2>2, <2>6 DEF fromFloat
    <3>2. PICK q \in Int : q = quo(f, 2)
      BY <2>1, HalfIs
    <3>3. c = num("int", Word, q) /\ c.n = q /\ c # Error
      BY <1>1, <3>1, <3>2, NoError DEF int, num
    <3>4. /\ size(2 * q - f) < 2
          /\ f >= 0 => 0 <= q /\ 2 * q <= f
          /\ f < 0 => f <= 2 * q /\ q <= 0
      BY <2>1, <3>2, HalfIs
    <3>5. -(2 * h) <= f /\ f < 2 * h
      BY <1>2, <2>1, <2>6
    <3>6. -h <= q /\ q <= h - 1
      <4>1. CASE f >= 0
        BY <1>2, <2>1, <3>2, <3>4, <3>5, <4>1
      <4>2. CASE f < 0
        BY <1>2, <2>1, <3>2, <3>4, <3>5, <4>2
      <4> QED  BY <2>1, <4>1, <4>2
    <3>7. q \in Holds("int", Word)
      BY <1>2, <2>3, <3>2, <3>6
    <3> QED  BY <1>5, <2>1, <3>2, <3>3, <3>4, <3>7 DEF IsNext
  <2> QED  BY <2>4, <2>5, <2>6
<1>6. CASE key.n # NaN /\ kind = "uint"
  <2>1. PICK f \in Int : f = key.n
    BY <1>6
  <2>2. c \in toUint64ForKey(key)
    BY <1>6 DEF widened
  <2>3. Holds("uint", Word) = 0 .. (P - 1)
    BY <1>2 DEF Holds
  <2>4. CASE f < 0 \/ f > 2 * P
    <3>1. c = Error
      BY <1>2, <1>6, <2>1, <2>2, <2>4 DEF toUint64ForKey, integers
    <3>2. f < 0 \/ \A n \in Holds("uint", Word) : 2 * n + 2 <= f
      <4>1. ASSUME f > 2 * P, NEW n \in Holds("uint", Word) PROVE 2 * n + 2 <= f
        <5>1. n \in Int /\ n <= P - 1
          BY <1>2, <2>3
        <5> QED  BY <1>2, <2>1, <4>1, <5>1
      <4> QED  BY <2>4, <4>1
    <3> QED  BY <1>6, <2>1, <3>1, <3>2 DEF IsNext
  <2>5. CASE f = 2 * P
    <3>1. c \in {num("uint", Word, n) : n \in Holds("uint", Word)}
      <4>1. ~(f < 0 \/ f > 2 * P)
        BY <1>2, <2>1, <2>5
      <4> QED  BY <1>2, <1>6, <2>1, <2>2, <2>5, <4>1 DEF toUint64ForKey, integers
    <3>2. PICK n \in Holds("uint", Word) : c = num("uint", Word, n)
      BY <3>1
    <3>3. c.n = n /\ n \in Int
      BY <1>2, <2>3, <3>2 DEF num
    <3>4. isBoundary(key)
      BY <1>2, <2>1, <2>5 DEF isBoundary
    <3> QED  BY <1>6, <3>2, <3>3, <3>4 DEF IsNext
  <2>6. CASE ~(f < 0 \/ f > 2 * P) /\ f # 2 * P
    <3>1. c = num("uint", Word, f \div 2)
      BY <1>2, <1>6, <2>1, <2>2, <2>6 DEF toUint64ForKey, integers
    <3>2. f >= 0
      BY <2>1, <2>6
    <3>3. PICK q \in Int : q = quo(f, 2) /\ f \div 2 = q
      BY <2>1, <3>2, HalfIs
    <3>4. c = num("uint", Word, q) /\ c.n = q /\ c # Error
      BY <1>1, <3>1, <3>3, NoError DEF num
    <3>5. size(2 * q - f) < 2 /\ 0 <= q /\ 2 * q <= f
      BY <2>1, <3>2, <3>3, HalfIs
    <3> QED  BY <1>6, <2>1, <3>2, <3>3, <3>4, <3>5 DEF IsNext
  <2> QED  BY <2>4, <2>5, <2>6
<1> QED
  BY <1>4, <1>5, <1>6 DEF integers

\* What convertKey makes of what was made first: the same number of the type, if that
\* holds it.
fitted(c, kind, bits) ==
    IF c # Error /\ c.n \in Holds(kind, bits) THEN num(kind, bits, c.n) ELSE Error

\* A key that is of the type is converted to itself, another by way of the widest.
LEMMA Converted ==
  ASSUME NEW key, NEW kind \in integers, NEW bits, NEW c \in convertKey(key, kind, bits)
  PROVE  \/ key.kind = kind /\ key.bits = bits /\ c = key
         \/ \E w \in widened(key, kind) : c = fitted(w, kind, bits)
<1>1. CASE key.kind = kind /\ key.bits = bits
  BY <1>1 DEF convertKey, integers
<1>2. CASE ~(key.kind = kind /\ key.bits = bits) /\ kind = "int"
  <2>1. c \in {fitted(w, "int", bits) : w \in toInt64ForKey(key)}
    BY <1>2 DEF convertKey, fitted
  <2> QED  BY <1>2, <2>1 DEF widened
<1>3. CASE ~(key.kind = kind /\ key.bits = bits) /\ kind = "uint"
  <2>1. c \in {fitted(w, "uint", bits) : w \in toUint64ForKey(key)}
    BY <1>3 DEF convertKey, fitted
  <2> QED  BY <1>3, <2>1 DEF widened
<1> QED
  BY <1>1, <1>2, <1>3 DEF integers

\* The conditions on what a key is converted to.
IsKey(c, key, kind, bits) ==
    LET target == Holds(kind, bits)
    IN /\ c # Error => c.kind = kind /\ c.bits = bits /\ c.n \in target
       /\ key.n = NaN => c = Error
       /\ key.n # NaN /\ key.kind # "float" =>
            IF key.n \in target THEN c.n = key.n ELSE c = Error
       /\ key.n # NaN /\ key.kind = "float" /\ ~isBoundary(key) =>
            IF c = Error THEN \A n \in target : size(2 * n - key.n) >= 2 \/ key.n < 0
            ELSE size(2 * c.n - key.n) < 2
       /\ kind = "int" /\ bits = Word => c \in toInt(key)

\* A key of the type is its own.
LEMMA OwnKey ==
  ASSUME NEW key, isNumber(key), key.kind \in integers
  PROVE  IsKey(key, key, key.kind, key.bits)
<1>1. /\ key = num(key.kind, key.bits, key.n) /\ key.bits \in 1 .. Word
      /\ key.n \in Holds(key.kind, key.bits) /\ key.n \in Int
  BY IntegerIs
<1>2. key.n # NaN /\ key.kind # "float"
  BY <1>1, NumberAssumption DEF integers
<1>3. ASSUME key.kind = "int", key.bits = Word PROVE key \in toInt(key)
  <2>1. toInt(key) = widened(key, "int")
    BY DEF toInt, widened
  <2>2. toInt(key) = {num("int", Word, key.n)}
    BY <1>1, <1>2, <1>3, <2>1, WidenedWhole
  <2> QED  BY <1>1, <1>3, <2>2
<1> QED
  BY <1>1, <1>2, <1>3 DEF IsKey

\* Neither an integer nor a string is cut to fit.
LEMMA WholeKey ==
  ASSUME NEW key, isNumber(key), key.kind \in integers \cup {"string"},
         NEW kind \in integers, NEW bits \in 1 .. Word,
         NEW w \in widened(key, kind)
  PROVE  IsKey(fitted(w, kind, bits), key, kind, bits)
<1>1. PICK c : c = fitted(w, kind, bits)
  OBVIOUS
<1>2. key.n # NaN => key.n \in Int
  <2>1. CASE key.kind \in integers
    BY <2>1, IntegerIs
  <2>2. CASE key.kind \notin integers
    BY <2>2 DEF isNumber
  <2> QED  BY <2>1, <2>2
<1>3. Holds(kind, bits) \subseteq Holds(kind, Word)
  BY HoldsNarrow
<1>4. w = IF key.n # NaN /\ key.n \in Holds(kind, Word) THEN num(kind, Word, key.n) ELSE Error
  BY WidenedWhole
<1>5. num(kind, Word, key.n) # Error /\ num(kind, Word, key.n).n = key.n
      /\ num(kind, bits, key.n) # Error
  BY NoError DEF num
<1>6. c = IF key.n # NaN /\ key.n \in Holds(kind, bits) THEN num(kind, bits, key.n) ELSE Error
  BY <1>1, <1>3, <1>4, <1>5 DEF fitted
<1>7. ASSUME kind = "int", bits = Word PROVE c \in toInt(key)
  <2>1. c = w
    BY <1>4, <1>6, <1>7
  <2>2. w \in toInt64ForKey(key)
    BY <1>7 DEF widened
  <2> QED  BY <2>1, <2>2 DEF toInt
<1>8. key.kind # "float"
  BY DEF integers
<1>9. num(kind, bits, key.n).kind = kind /\ num(kind, bits, key.n).bits = bits
      /\ num(kind, bits, key.n).n = key.n
  BY DEF num
<1>10. IsKey(c, key, kind, bits)
  BY <1>5, <1>6, <1>7, <1>8, <1>9 DEF IsKey
<1> QED
  BY <1>1, <1>10

\* A float becomes the integer next to it, or there is none in the type.
LEMMA FloatKey ==
  ASSUME NEW key, key.kind = "float", key.n \in Int \cup {NaN},
         NEW kind \in integers, NEW bits \in 1 .. Word,
         NEW w \in widened(key, kind)
  PROVE  IsKey(fitted(w, kind, bits), key, kind, bits)
<1>1. PICK c : c = fitted(w, kind, bits)
  OBVIOUS
<1>2. IsNext(w, key, kind)
  BY WidenedFloat
<1>3. w = Error \/ (w = num(kind, Word, w.n) /\ w.n \in Int)
  BY <1>2 DEF IsNext
<1>4. Holds(kind, bits) \subseteq Holds(kind, Word)
  BY HoldsNarrow
<1>5. PICK low \in Int, top \in Int : low <= 0 /\ 0 <= top /\ Holds(kind, bits) = low .. top
  BY HoldsNarrow
<1>6. num(kind, bits, w.n) # Error /\ num(kind, bits, w.n).kind = kind
      /\ num(kind, bits, w.n).bits = bits /\ num(kind, bits, w.n).n = w.n
  BY NoError DEF num
<1>7. c # Error => /\ w # Error /\ w.n \in Holds(kind, bits) /\ c = num(kind, bits, w.n)
                   /\ c.n = w.n
  BY <1>1, <1>6 DEF fitted
<1>8. c # Error => c.kind = kind /\ c.bits = bits /\ c.n \in Holds(kind, bits)
  BY <1>6, <1>7
<1>9. key.n = NaN => c = Error
  BY <1>1, <1>2 DEF fitted, IsNext
<1>10. ASSUME key.n # NaN, ~isBoundary(key)
       PROVE  IF c = Error
              THEN \A n \in Holds(kind, bits) : size(2 * n - key.n) >= 2 \/ key.n < 0
              ELSE size(2 * c.n - key.n) < 2
  <2>1. PICK f \in Int : f = key.n
    BY <1>10
  <2>2. IF w = Error THEN f < 0 \/ \A n \in Holds(kind, Word) : 2 * n + 2 <= f
        ELSE size(2 * w.n - f) < 2 /\ (f >= 0 => 0 <= w.n /\ 2 * w.n <= f)
    BY <1>2, <1>10, <2>1 DEF IsNext
  <2>3. CASE c # Error
    BY <1>7, <2>1, <2>2, <2>3
  <2>4. CASE c = Error
    <3>1. SUFFICES ASSUME NEW n \in Holds(kind, bits), f >= 0
                   PROVE  size(2 * n - f) >= 2
      BY <2>1, <2>4
    <3>2. n \in Int /\ low <= n /\ n <= top
      BY <1>5
    <3>3. 2 * n + 2 <= f
      <4>1. CASE w = Error
        <5>1. n \in Holds(kind, Word)
          BY <1>4
        <5> QED  BY <2>1, <2>2, <3>1, <4>1, <5>1
      <4>2. CASE w # Error
        <5>1. w.n \notin Holds(kind, bits)
          BY <1>1, <1>6, <2>4, <4>2 DEF fitted
        <5>2. PICK q \in Int : q = w.n /\ 0 <= q /\ 2 * q <= f
          BY <1>3, <2>2, <3>1, <4>2
        <5>3. q > top
          BY <1>5, <5>1, <5>2
        <5> QED  BY <1>5, <2>1, <3>2, <5>2, <5>3
      <4> QED  BY <4>1, <4>2
    <3>4. PICK z \in Int : z = 2 * n - f /\ z <= -2
      BY <2>1, <3>2, <3>3
    <3>5. size(z) >= 2
      BY <3>4 DEF size
    <3> QED  BY <3>4, <3>5
  <2> QED  BY <2>3, <2>4
<1>11. ASSUME kind = "int", bits = Word PROVE c \in toInt(key)
  <2>1. w # Error => w.n \in Holds("int", Word) /\ w = num("int", Word, w.n)
    BY <1>2, <1>3, <1>11 DEF IsNext
  <2>2. c = w
    BY <1>1, <1>11, <2>1 DEF fitted
  <2>3. w \in toInt64ForKey(key)
    BY <1>11 DEF widened
  <2> QED  BY <2>2, <2>3 DEF toInt
<1>12. IsKey(c, key, kind, bits)
  BY <1>8, <1>9, <1>10, <1>11 DEF IsKey
<1> QED
  BY <1>1, <1>12

\* So every key fits.
LEMMA KeysFit ==
  ASSUME input \in KeyInputs
  PROVE  KeyFits
<1>1. PICK key, kind, bits :
        /\ key = input.key /\ kind = input.kind /\ bits = input.bits
        /\ isNumber(key) /\ kind \in integers /\ bits \in 1 .. Word
  BY NumberAssumption
<1>2. ASSUME NEW c \in convertKey(key, kind, bits)
      PROVE  IsKey(c, key, kind, bits)
  <2>1. CASE key.kind = kind /\ key.bits = bits /\ c = key
    BY <1>1, <2>1, OwnKey
  <2>2. CASE \E w \in widened(key, kind) : c = fitted(w, kind, bits)
    <3>1. PICK w \in widened(key, kind) : c = fitted(w, kind, bits)
      BY <2>2
    <3>2. CASE key.kind \in integers \cup {"string"}
      BY <1>1, <3>1, <3>2, WholeKey
    <3>3. CASE key.kind \notin integers \cup {"string"}
      <4>1. key.kind = "float" /\ key.n \in Int \cup {NaN}
        <5>1. key.n \in Int \cup {NaN} /\ key \in {float(key.n), num("string", 0, key.n)}
          BY <1>1, <3>3 DEF isNumber
        <5> QED  BY <3>3, <5>1 DEF float, num
      <4> QED  BY <1>1, <3>1, <4>1, FloatKey
    <3> QED  BY <3>2, <3>3
  <2> QED  BY <1>1, <2>1, <2>2, Converted
<1> QED
  BY <1>1, <1>2 DEF KeyFits, IsKey, isBoundary

-----------------------------------------------------------------------------
\* NumbersFit: whatever numbers a template adds, multiplies, shifts or indexes with,
\* of whatever width, it gets what the machine would give it, or an error.
THEOREM NumbersAreFit == Spec => []NumbersFit
<1>1. InputInv => NumbersFit
  <2>1. SUFFICES ASSUME InputInv PROVE NumbersFit
    OBVIOUS
  <2>2. input.of = "sum" => input \in SumInputs
    BY <2>1, StaticInputsAssumption, DomainInputsAssumption, SegmentInputsAssumption,
       ForwardInputsAssumption, ConfigInputsAssumption, TLSAssumption,
       ClientInputsAssumption, NumberInputsAssumption DEF InputInv, Nothing
  <2>3. input.of = "key" => input \in KeyInputs
    BY <2>1, StaticInputsAssumption, DomainInputsAssumption, SegmentInputsAssumption,
       ForwardInputsAssumption, ConfigInputsAssumption, TLSAssumption,
       ClientInputsAssumption, NumberInputsAssumption DEF InputInv, Nothing
  <2> QED  BY <2>2, <2>3, SumsFit, KeysFit DEF NumbersFit
<1>. QED
  BY <1>1, InputInvariant, PTL

=============================================================================
