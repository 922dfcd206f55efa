---------------------------- MODULE NumericProofs ----------------------------
(***************************************************************************)
(* Proofs about Numeric, for all widths, precisions and exponents.         *)
(*                                                                         *)
(* A magnitude of a precision lies on the grid of the last bit that is     *)
(* kept, and so none lies between two neighbours on it (Grid).  Rounding   *)
(* chooses one of the two (RoundedIs): it is the nearest                   *)
(* (RoundedNearest) and jumps over no magnitude (RoundedBetween).  What is *)
(* read is a chain of roundings and casts of what was constructed.         *)
(***************************************************************************)
EXTENDS Numeric, WellFoundedInduction, TLAPS

-----------------------------------------------------------------------------
(* Powers of two                                                            *)

\* Induction, for a set of numbers.
LEMMA SetInduction ==
    ASSUME NEW S, 0 \in S, \A n \in Nat : n \in S => n + 1 \in S
    PROVE  Nat \subseteq S
<1> DEFINE T == Nat \ S
<1> SUFFICES ASSUME T # {} PROVE FALSE
  OBVIOUS
<1>1. PICK x \in T : \A y \in T : ~(<<y, x>> \in OpToRel(<, Nat))
  BY NatLessThanWellFounded, WFMin
<1>2. x - 1 \in Nat /\ (x - 1) + 1 = x
  OBVIOUS
<1>3. x - 1 \in T
  BY <1>2, Zenon
<1>4. <<x - 1, x>> \in OpToRel(<, Nat)
  BY <1>2 DEF OpToRel
<1> QED
  BY <1>1, <1>3, <1>4

\* A function that has the equation of Pow2 up to n.
Doubles(f, n) == f \in [0 .. n -> Nat] /\ f[0] = 1 /\ \A k \in 0 .. n - 1 : f[k + 1] = 2 * f[k]

LEMMA DoublesExists == \A n \in Nat : \E f : Doubles(f, n)
<1> DEFINE S == {n \in Nat : \E f : Doubles(f, n)}
<1>1. 0 \in S
  <2> DEFINE f == [k \in 0 .. 0 |-> 1]
  <2>1. Doubles(f, 0)
    BY DEF Doubles
  <2> QED
    BY <2>1
<1>2. ASSUME NEW n \in Nat, n \in S PROVE n + 1 \in S
  <2>1. PICK f : Doubles(f, n)
    BY <1>2
  <2> DEFINE g == [k \in 0 .. n + 1 |-> IF k <= n THEN f[k] ELSE 2 * f[n]]
  <2>2. f \in [0 .. n -> Nat] /\ f[0] = 1 /\ \A k \in 0 .. n - 1 : f[k + 1] = 2 * f[k]
    BY <2>1 DEF Doubles
  <2>3. g \in [0 .. n + 1 -> Nat] /\ g[0] = 1
    BY <2>2
  <2>4. ASSUME NEW k \in 0 .. (n + 1) - 1 PROVE g[k + 1] = 2 * g[k]
    BY <2>2
  <2>5. Doubles(g, n + 1)
    <3> HIDE DEF g
    <3> QED
      BY <2>3, <2>4 DEF Doubles
  <2> QED
    BY <2>5
<1> HIDE DEF S
<1>3. Nat \subseteq S
  BY <1>1, <1>2, SetInduction
<1> QED
  BY <1>3 DEF S

LEMMA DoublesAgree ==
    ASSUME NEW m \in Nat, NEW n \in Nat, m <= n, NEW f, Doubles(f, m), NEW g, Doubles(g, n)
    PROVE  \A k \in 0 .. m : f[k] = g[k]
<1> DEFINE S == {k \in Nat : k <= m => f[k] = g[k]}
<1>1. 0 \in S
  BY DEF Doubles
<1>2. ASSUME NEW k \in Nat, k \in S PROVE k + 1 \in S
  <2> SUFFICES ASSUME k + 1 <= m PROVE f[k + 1] = g[k + 1]
    OBVIOUS
  <2>1. k \in 0 .. m - 1 /\ k \in 0 .. n - 1
    OBVIOUS
  <2>2. f[k + 1] = 2 * f[k] /\ g[k + 1] = 2 * g[k]
    BY <2>1 DEF Doubles
  <2> QED
    BY <1>2, <2>2
<1> HIDE DEF S
<1>3. Nat \subseteq S
  BY <1>1, <1>2, SetInduction
<1> QED
  BY <1>3 DEF S

\* Pow2 has its equation.
LEMMA Pow2Is == Pow2 = [n \in Nat |-> IF n = 0 THEN 1 ELSE 2 * Pow2[n - 1]]
<1> DEFINE F(n) == CHOOSE f : Doubles(f, n)
           p == [n \in Nat |-> F(n)[n]]
<1>1. \A n \in Nat : Doubles(F(n), n)
  BY DoublesExists
<1>2. ASSUME NEW n \in Nat PROVE p[n] = IF n = 0 THEN 1 ELSE 2 * p[n - 1]
  <2>1. CASE n = 0
    <3>1. F(0)[0] = 1
      BY <1>1 DEF Doubles
    <3> QED
      BY <2>1, <3>1
  <2>2. CASE n # 0
    <3>1. n - 1 \in Nat /\ n - 1 <= n /\ n - 1 \in 0 .. n - 1 /\ (n - 1) + 1 = n
      BY <2>2
    <3>2. Doubles(F(n - 1), n - 1) /\ Doubles(F(n), n)
      BY <1>1, <3>1
    <3> HIDE DEF F
    <3>3. F(n - 1)[n - 1] = F(n)[n - 1]
      BY <3>1, <3>2, DoublesAgree
    <3>4. F(n)[n] = 2 * F(n)[n - 1]
      BY <3>1, <3>2 DEF Doubles
    <3> QED
      BY <2>2, <3>1, <3>3, <3>4
  <2> QED
    BY <2>1, <2>2
<1>3. p = [n \in Nat |-> IF n = 0 THEN 1 ELSE 2 * p[n - 1]]
  <2> DEFINE q == [n \in Nat |-> IF n = 0 THEN 1 ELSE 2 * p[n - 1]]
  <2>1. p = [n \in Nat |-> p[n]]
    OBVIOUS
  <2> HIDE DEF p
  <2>2. p = q
    BY <1>2, <2>1
  <2> QED
    BY <2>2
<1>4. \E f : f = [n \in Nat |-> IF n = 0 THEN 1 ELSE 2 * f[n - 1]]
  BY <1>3
<1> QED
  BY <1>4, Zenon DEF Pow2

LEMMA PowFacts ==
    /\ \A n \in Nat : Pow2[n] \in Nat \ {0}
    /\ Pow2[0] = 1
    /\ \A n \in Nat : Pow2[n + 1] = 2 * Pow2[n]
<1>1. Pow2[0] = 1
  BY Pow2Is
<1>2. \A n \in Nat : Pow2[n + 1] = 2 * Pow2[n]
  <2> TAKE n \in Nat
  <2>1. n + 1 \in Nat /\ n + 1 # 0 /\ (n + 1) - 1 = n
    OBVIOUS
  <2> QED
    BY <2>1, Pow2Is
<1> DEFINE S == {n \in Nat : Pow2[n] \in Nat \ {0}}
<1>3. 0 \in S
  BY <1>1
<1>4. \A n \in Nat : n \in S => n + 1 \in S
  BY <1>2
<1> HIDE DEF S
<1>5. Nat \subseteq S
  BY <1>3, <1>4, SetInduction
<1> QED
  BY <1>1, <1>2, <1>5 DEF S

LEMMA PowPos == ASSUME NEW n \in Nat PROVE Pow2[n] \in Nat /\ Pow2[n] >= 1
  BY PowFacts

\* A sum of exponents is a product of powers.
LEMMA PowAdd ==
    ASSUME NEW a \in Nat, NEW b \in Nat
    PROVE  Pow2[a + b] = Pow2[a] * Pow2[b]
<1> DEFINE S == {n \in Nat : Pow2[a + n] = Pow2[a] * Pow2[n]}
<1>1. 0 \in S
  <2>1. Pow2[a] \in Nat /\ a + 0 = a
    BY PowPos
  <2> QED
    BY <2>1, PowFacts
<1>2. ASSUME NEW n \in Nat, n \in S PROVE n + 1 \in S
  <2>1. Pow2[a + (n + 1)] = 2 * Pow2[a + n]
    <3>1. a + n \in Nat /\ a + (n + 1) = (a + n) + 1
      OBVIOUS
    <3> QED
      BY <3>1, PowFacts
  <2>2. Pow2[a + n] = Pow2[a] * Pow2[n] /\ Pow2[n + 1] = 2 * Pow2[n]
    BY <1>2, PowFacts
  <2>3. Pow2[a] \in Nat /\ Pow2[n] \in Nat
    BY PowPos
  <2>4. \A x, y \in Nat : 2 * (x * y) = x * (2 * y)
    OBVIOUS
  <2> QED
    BY <2>1, <2>2, <2>3, <2>4
<1> HIDE DEF S
<1>3. Nat \subseteq S
  BY <1>1, <1>2, SetInduction
<1> QED
  BY <1>3 DEF S

\* Of two powers the larger is a multiple of the smaller.
LEMMA PowSplit ==
    ASSUME NEW a \in Nat, NEW b \in Nat, a <= b
    PROVE  b - a \in Nat /\ Pow2[b] = Pow2[b - a] * Pow2[a]
<1>1. b - a \in Nat /\ (b - a) + a = b
  OBVIOUS
<1> QED
  BY <1>1, PowAdd

\* A product grows with its factors.
LEMMA Times ==
    /\ \A x, y \in Nat : x * y \in Nat /\ x * y = y * x
    /\ \A x, y, z \in Nat : (x * y) * z = x * (y * z)
    /\ \A x, y, z \in Nat : (x + y) * z = x * z + y * z
    /\ \A x, y, z \in Nat : x <= y => x * z <= y * z
    /\ \A x, y, z \in Nat : x < y /\ z >= 1 => x * z < y * z
  OBVIOUS

LEMMA PowMono ==
    ASSUME NEW a \in Nat, NEW b \in Nat, a <= b
    PROVE  Pow2[a] <= Pow2[b]
<1>1. b - a \in Nat /\ Pow2[b] = Pow2[b - a] * Pow2[a]
  BY PowSplit
<1>2. Pow2[a] \in Nat /\ Pow2[b - a] \in Nat /\ 1 <= Pow2[b - a]
  BY <1>1, PowPos
<1>3. 1 * Pow2[a] <= Pow2[b - a] * Pow2[a]
  BY <1>2, Times
<1> QED
  BY <1>1, <1>2, <1>3

LEMMA PowStrict ==
    ASSUME NEW a \in Nat, NEW b \in Nat, a < b
    PROVE  2 * Pow2[a] <= Pow2[b]
<1>1. a + 1 \in Nat /\ a + 1 <= b
  OBVIOUS
<1>2. Pow2[a + 1] <= Pow2[b]
  BY <1>1, PowMono
<1> QED
  BY <1>2, PowFacts

LEMMA PowAbove == \A n \in Nat : n < Pow2[n]
<1> DEFINE S == {n \in Nat : n < Pow2[n]}
<1>1. 0 \in S
  BY PowFacts
<1>2. ASSUME NEW n \in Nat, n \in S PROVE n + 1 \in S
  <2>1. Pow2[n + 1] = 2 * Pow2[n] /\ Pow2[n] \in Nat /\ n < Pow2[n]
    BY <1>2, PowFacts
  <2> QED
    BY <2>1
<1> HIDE DEF S
<1>3. Nat \subseteq S
  BY <1>1, <1>2, SetInduction
<1> QED
  BY <1>3 DEF S

\* Division.
LEMMA DivMod ==
    ASSUME NEW x \in Int, NEW d \in Nat, d >= 1
    PROVE  /\ x \div d \in Int /\ x % d \in 0 .. d - 1
           /\ x = (x \div d) * d + (x % d)
  OBVIOUS

LEMMA DivModOnly ==
    ASSUME NEW x \in Int, NEW d \in Nat, d >= 1, NEW q \in Int, NEW r \in 0 .. d - 1, x = q * d + r
    PROVE  q = x \div d /\ r = x % d
  OBVIOUS

-----------------------------------------------------------------------------
(* Magnitudes and their grid                                                *)

LEMMA BitLengthIs ==
    ASSUME NEW n \in Nat
    PROVE  /\ BitLength(n) \in Nat
           /\ n < Pow2[BitLength(n)]
           /\ BitLength(n) = 0 \/ n >= Pow2[BitLength(n) - 1]
<1> DEFINE Fits(l) == n < Pow2[l] /\ (l = 0 \/ n >= Pow2[l - 1])
           S == {k \in Nat : n < Pow2[k] => \E l \in 0 .. k : Fits(l)}
<1>1. 0 \in S
  OBVIOUS
<1>2. ASSUME NEW k \in Nat, k \in S PROVE k + 1 \in S
  <2> SUFFICES ASSUME n < Pow2[k + 1] PROVE \E l \in 0 .. k + 1 : Fits(l)
    OBVIOUS
  <2>1. CASE n < Pow2[k]
    <3>1. PICK l \in 0 .. k : Fits(l)
      BY <1>2, <2>1
    <3> QED
      BY <3>1
  <2>2. CASE ~(n < Pow2[k])
    <3>1. (k + 1) - 1 = k /\ Pow2[k] \in Nat
      BY PowPos
    <3>2. Fits(k + 1)
      BY <2>2, <3>1
    <3> QED
      BY <3>2
  <2> QED
    BY <2>1, <2>2
<1> HIDE DEF S
<1>3. n \in S
  BY <1>1, <1>2, SetInduction
<1>4. \E l \in 0 .. n : Fits(l)
  BY <1>3, PowAbove DEF S
<1>5. BitLength(n) = CHOOSE l \in 0 .. n : Fits(l)
  BY DEF BitLength
<1> HIDE DEF Fits
<1>6. BitLength(n) \in 0 .. n /\ Fits(BitLength(n))
  BY <1>4, <1>5, Zenon
<1> QED
  BY <1>6 DEF Fits

\* What the code knows of a precision: a fraction has a bit, and the finite numbers
\* reach further than the subnormal ones.
LEMMA PrecisionFacts ==
    ASSUME NEW p \in Precisions
    PROVE  /\ Bits(p) \in Nat /\ Bits(p) >= 1
           /\ Least(p) \in Nat /\ Least(p) <= One
           /\ Top(p) \in Nat
           /\ Least(p) + Bits(p) < Top(p)
           /\ One + Width64 < Top(p)
  BY SizesAssumption DEF Precisions, Bits, Least, Top

\* A magnitude is a whole number of units, less than 2^Top.
LEMMA MagnitudeIs ==
    ASSUME NEW p \in Precisions, NEW v \in Magnitudes(p)
    PROVE  /\ v \in Nat /\ v < Pow2[Top(p)]
           /\ \E m, g \in Nat : m < Pow2[Bits(p)] /\ g >= Least(p) /\ v = m * Pow2[g]
<1>1. PICK m \in 0 .. Pow2[Bits(p)] - 1, g \in Least(p) .. Top(p) - Bits(p) : v = m * Pow2[g]
  BY DEF Magnitudes
<1>2. /\ g \in Nat /\ g >= Least(p)
      /\ Bits(p) \in Nat /\ Bits(p) + g \in Nat /\ Bits(p) + g <= Top(p) /\ Top(p) \in Nat
  BY PrecisionFacts
<1>3. m \in Nat /\ Pow2[Bits(p)] \in Nat /\ m < Pow2[Bits(p)] /\ Pow2[g] \in Nat /\ Pow2[g] >= 1
  BY <1>2, PowPos
<1>4. m * Pow2[g] \in Nat /\ m * Pow2[g] < Pow2[Bits(p)] * Pow2[g]
  BY <1>3, Times
<1>5. Pow2[Bits(p)] * Pow2[g] <= Pow2[Top(p)]
  <2>1. Pow2[Bits(p) + g] = Pow2[Bits(p)] * Pow2[g]
    BY <1>2, PowAdd
  <2> QED
    BY <1>2, <2>1, PowMono
<1>6. Pow2[Bits(p)] * Pow2[g] \in Nat /\ Pow2[Top(p)] \in Nat
  BY <1>2, <1>3, PowPos
<1> QED
  BY <1>1, <1>2, <1>3, <1>4, <1>5, <1>6

\* And what has no more bits than the precision, and a place it knows, is a magnitude.
LEMMA IsMagnitude ==
    ASSUME NEW p \in Precisions, NEW m \in Nat, NEW g \in Nat,
           m <= Pow2[Bits(p)], g >= Least(p), m * Pow2[g] < Pow2[Top(p)]
    PROVE  m * Pow2[g] \in Magnitudes(p)
<1> DEFINE B == Bits(p)
           T == Top(p)
<1>1. /\ B \in Nat /\ B >= 1 /\ T \in Nat /\ Least(p) \in Nat /\ B + Least(p) < T
      /\ T - B \in Nat /\ B + (T - B) = T
  BY PrecisionFacts
<1>2. Pow2[B] \in Nat /\ Pow2[g] \in Nat /\ Pow2[g] >= 1 /\ Pow2[T] \in Nat
  BY <1>1, PowPos
<1> HIDE DEF B, T
<1>3. ASSUME NEW k \in Nat, NEW h \in Nat, k < Pow2[B], h >= Least(p), k * Pow2[h] < Pow2[T]
      PROVE  k * Pow2[h] \in Magnitudes(p)
  <2>1. CASE h <= T - B
    <3>1. k \in 0 .. Pow2[B] - 1 /\ h \in Least(p) .. T - B
      BY <1>1, <1>2, <1>3, <2>1
    <3> QED
      BY <3>1 DEF Magnitudes, B, T
  <2>2. CASE h > T - B
    <3> DEFINE e == h - (T - B)
               w == Pow2[e]
               t == Pow2[T - B]
    <3>1. e \in Nat /\ Pow2[h] = w * t
      BY <1>1, <2>2, PowSplit
    <3>2. w \in Nat /\ t \in Nat /\ t >= 1
      BY <1>1, <3>1, PowPos
    <3>3. Pow2[T] = Pow2[B] * t
      BY <1>1, PowAdd
    <3> HIDE DEF w, t, e
    <3>4. k * Pow2[h] = (k * w) * t /\ k * w \in Nat
      BY <3>1, <3>2, Times
    <3>5. k * w < Pow2[B]
      <4>1. (k * w) * t < Pow2[B] * t
        BY <1>3, <3>3, <3>4
      <4>2. Pow2[B] <= k * w => Pow2[B] * t <= (k * w) * t
        BY <1>2, <3>2, <3>4, Times
      <4>3. Pow2[B] * t \in Nat /\ (k * w) * t \in Nat
        BY <1>2, <3>2, <3>4, Times
      <4> QED
        BY <1>2, <3>4, <4>1, <4>2, <4>3
    <3>6. k * w \in 0 .. Pow2[B] - 1 /\ T - B \in Least(p) .. T - B
      BY <1>1, <1>2, <3>4, <3>5
    <3> QED
      BY <3>4, <3>6 DEF Magnitudes, B, T, t
  <2> QED
    BY <1>1, <2>1, <2>2
<1>4. CASE m < Pow2[B]
  BY <1>3, <1>4 DEF B, T
<1>5. CASE m = Pow2[B]
  <2>1. B - 1 \in Nat /\ (B - 1) + 1 = B
    BY <1>1
  <2>2. Pow2[B] = 2 * Pow2[B - 1] /\ Pow2[B - 1] \in Nat /\ Pow2[B - 1] >= 1 /\ Pow2[g + 1] = 2 * Pow2[g]
    BY <2>1, PowFacts, PowPos
  <2>3. \A x, y \in Nat : (2 * x) * y = x * (2 * y)
    OBVIOUS
  <2>4. m * Pow2[g] = Pow2[B - 1] * Pow2[g + 1]
    BY <1>2, <1>5, <2>2, <2>3
  <2>5. Pow2[B - 1] < Pow2[B] /\ g + 1 \in Nat /\ g + 1 >= Least(p)
    BY <1>1, <2>2
  <2> QED
    BY <1>3, <2>2, <2>4, <2>5 DEF T
<1> QED
  BY <1>2, <1>4, <1>5 DEF B

\* Between two neighbours q and q + 1 on the grid of 2^u there is no magnitude, if the
\* grid is as fine as it gets, or q uses all bits.
LEMMA Grid ==
    ASSUME NEW p \in Precisions, NEW u \in Nat, NEW q \in Nat,
           u = Least(p) \/ q >= Pow2[Bits(p) - 1], NEW v \in Magnitudes(p)
    PROVE  v <= q * Pow2[u] \/ v >= (q + 1) * Pow2[u]
<1>1. PICK m, g \in Nat : m < Pow2[Bits(p)] /\ g >= Least(p) /\ v = m * Pow2[g]
  BY MagnitudeIs
<1> DEFINE U == Pow2[u]
<1>2. U \in Nat /\ U >= 1
  BY PowPos
<1>3. CASE g >= u
  <2> DEFINE k == m * Pow2[g - u]
  <2>1. g - u \in Nat /\ Pow2[g] = Pow2[g - u] * U
    BY <1>3, PowSplit
  <2>2. k \in Nat /\ v = k * U
    BY <1>1, <1>2, <2>1, PowPos, Times
  <2> HIDE DEF k, U
  <2>3. k <= q \/ k >= q + 1
    BY <2>2
  <2> QED
    BY <1>2, <2>2, <2>3, Times DEF U
<1>4. CASE g < u
  <2>1. q >= Pow2[Bits(p) - 1] /\ Bits(p) - 1 \in Nat /\ (Bits(p) - 1) + 1 = Bits(p)
    BY <1>1, <1>4, PrecisionFacts
  <2> DEFINE H == Pow2[Bits(p) - 1]
             G == Pow2[g]
  <2>2. Pow2[Bits(p)] = 2 * H /\ H \in Nat /\ 2 * G <= U /\ G \in Nat
    BY <1>4, <2>1, PowFacts, PowStrict
  <2> HIDE DEF H, G, U
  <2>3. v <= (2 * H) * G
    <3>1. m <= 2 * H /\ 2 * H \in Nat
      BY <1>1, <2>2
    <3> QED
      BY <1>1, <2>2, <3>1, Times DEF G
  <2>4. (2 * H) * G = H * (2 * G) /\ 2 * G \in Nat
    BY <2>2
  <2>5. H * (2 * G) <= H * U
    <3>1. (2 * G) * H <= U * H
      BY <1>2, <2>2, <2>4, Times
    <3> QED
      BY <1>2, <2>2, <2>4, <3>1, Times
  <2>6. H * U <= q * U
    BY <1>2, <2>1, <2>2, Times DEF H
  <2>7. v \in Nat /\ H * U \in Nat /\ q * U \in Nat /\ H * (2 * G) \in Nat
    BY <1>2, <2>2, <2>4, MagnitudeIs, Times
  <2>8. v <= q * U
    BY <2>3, <2>4, <2>5, <2>6, <2>7
  <2> QED
    BY <2>8 DEF U
<1> QED
  BY <1>3, <1>4

-----------------------------------------------------------------------------
(* Rounding                                                                 *)

LEMMA MaxOfTwo ==
    ASSUME NEW a \in Int, NEW b \in Int
    PROVE  Max({a, b}) = IF a >= b THEN a ELSE b
<1>1. \E x \in {a, b} : \A y \in {a, b} : x >= y
  <2>1. CASE a >= b
    BY <2>1
  <2>2. CASE b >= a
    BY <2>2
  <2> QED
    BY <2>1, <2>2
<1>2. Max({a, b}) \in {a, b} /\ \A y \in {a, b} : Max({a, b}) >= y
  BY <1>1, Zenon DEF Max
<1> QED
  BY <1>2

\* n * 2^shift units, and a number of units, in the same fractions of a unit.
Over(shift)  == Pow2[Max({shift, 0})]
Under(shift) == Pow2[Max({-shift, 0})]

LEMMA Scale ==
    ASSUME NEW s \in Int
    PROVE  /\ Over(s) \in Nat /\ Over(s) >= 1 /\ Under(s) \in Nat /\ Under(s) >= 1
           /\ s >= 0 => Over(s) = Pow2[s] /\ Under(s) = 1
           /\ s <= 0 => Over(s) = 1 /\ Under(s) = Pow2[-s]
<1>1. CASE s >= 0
  <2>1. Max({s, 0}) = s /\ Max({-s, 0}) = 0
    <3>1. -s \in Int
      OBVIOUS
    <3> QED
      BY <1>1, <3>1, MaxOfTwo
  <2>2. s \in Nat /\ (s <= 0 => s = 0 /\ -s = 0)
    BY <1>1
  <2> QED
    BY <2>1, <2>2, PowPos, PowFacts DEF Over, Under
<1>2. CASE s < 0
  <2>1. Max({s, 0}) = 0 /\ Max({-s, 0}) = -s
    <3>1. -s \in Int /\ -s >= 0
      BY <1>2
    <3> QED
      BY <1>2, <3>1, MaxOfTwo
  <2>2. -s \in Nat
    BY <1>2
  <2> QED
    BY <1>2, <2>1, <2>2, PowPos, PowFacts DEF Over, Under
<1> QED
  BY <1>1, <1>2

\* A unit of the grid 2^u that is not finer than 2^s, in multiples of 2^s.
LEMMA GridUnit ==
    ASSUME NEW s \in Int, NEW u \in Nat, s < u
    PROVE  u - s \in Nat /\ Pow2[u] * Under(s) = Pow2[u - s] * Over(s)
<1>1. u - s \in Nat
  OBVIOUS
<1>2. CASE s >= 0
  <2>1. s \in Nat /\ Pow2[u] = Pow2[u - s] * Pow2[s] /\ Over(s) = Pow2[s] /\ Under(s) = 1
    BY <1>2, Scale, PowSplit
  <2>2. Pow2[u] \in Nat
    BY PowPos
  <2> QED
    BY <1>1, <2>1, <2>2
<1>3. CASE s < 0
  <2>1. -s \in Nat /\ u + (-s) = u - s /\ Over(s) = 1 /\ Under(s) = Pow2[-s]
    BY <1>3, Scale
  <2>2. Pow2[u - s] = Pow2[u] * Pow2[-s] /\ Pow2[u - s] \in Nat
    BY <1>1, <2>1, PowAdd, PowPos
  <2> QED
    BY <2>1, <2>2
<1> QED
  BY <1>1, <1>2, <1>3

\* How n * 2^s is rounded: between q and q + 1 on a grid of 2^u, up by the carry c.
RoundsOn(n, s, p, u, q, c) ==
    LET x == (q + c) * Pow2[u]
        N == n * Over(s)
        U == Pow2[u] * Under(s)
    IN  /\ u >= Least(p) /\ q < Pow2[Bits(p)]
        /\ u = Least(p) \/ q >= Pow2[Bits(p) - 1]
        /\ Rounded(n, s, p) = IF x < Pow2[Top(p)] THEN x ELSE Inf
        /\ q * U <= N /\ N < (q + 1) * U
        /\ c = 0 => 2 * N <= 2 * (q * U) + U
        /\ c = 1 => 2 * N >= 2 * (q * U) + U

\* The place of the last bit that is kept.
Ulp(n, s, p) == Max({BitLength(n) + s - Bits(p), Least(p)})

LEMMA UlpIs ==
    ASSUME NEW n \in Nat, NEW s \in Int, NEW p \in Precisions
    PROVE  /\ Ulp(n, s, p) \in Nat /\ Ulp(n, s, p) >= Least(p)
           /\ Ulp(n, s, p) >= BitLength(n) + s - Bits(p)
           /\ Ulp(n, s, p) # Least(p) => Ulp(n, s, p) = BitLength(n) + s - Bits(p)
<1>1. BitLength(n) + s - Bits(p) \in Int /\ Least(p) \in Int /\ Least(p) \in Nat
  BY BitLengthIs, PrecisionFacts
<1> QED
  BY <1>1, MaxOfTwo DEF Ulp

\* Nothing is lost where the number has no bits below the grid.
LEMMA RoundsExactly ==
    ASSUME NEW n \in Nat, NEW s \in Int, NEW p \in Precisions, s >= Ulp(n, s, p)
    PROVE  \E u, q \in Nat, c \in {0, 1} : RoundsOn(n, s, p, u, q, c)
<1> DEFINE l == BitLength(n)
           B == Bits(p)
           ulp == Ulp(n, s, p)
<1>1. /\ ulp \in Nat /\ s \in Nat /\ l \in Nat /\ B \in Nat /\ B >= 1 /\ ulp >= Least(p) /\ ulp >= l + s - B /\ s >= ulp
      /\ ulp # Least(p) => ulp = l + s - B
      /\ n < Pow2[l] /\ (l = 0 \/ n >= Pow2[l - 1])
      /\ Least(p) \in Nat
  BY UlpIs, BitLengthIs, PrecisionFacts
<1>2. Rounded(n, s, p) = IF n * Pow2[s] < Pow2[Top(p)] THEN n * Pow2[s] ELSE Inf
  BY DEF Rounded, Ulp
<1>3. Over(s) = Pow2[s] /\ Under(s) = 1 /\ Pow2[s] \in Nat
  BY <1>1, Scale, PowPos
<1> HIDE DEF l, B, ulp
<1>4. ASSUME NEW u \in Nat, NEW q \in Nat, q * Pow2[u] = n * Pow2[s],
             u >= Least(p), q < Pow2[B], u = Least(p) \/ q >= Pow2[B - 1]
      PROVE  RoundsOn(n, s, p, u, q, 0)
  <2> DEFINE x == q * Pow2[u]
  <2>1. Pow2[u] \in Nat /\ Pow2[u] >= 1
    BY PowPos
  <2>2. x \in Nat /\ (q + 1) * Pow2[u] = x + Pow2[u] /\ x = n * Over(s) /\ q + 0 = q /\ Pow2[u] * Under(s) = Pow2[u]
    BY <1>3, <1>4, <2>1, Times
  <2>3. Rounded(n, s, p) = IF x < Pow2[Top(p)] THEN x ELSE Inf
    BY <1>2, <1>4
  <2>4. /\ x <= n * Over(s) /\ n * Over(s) < (q + 1) * Pow2[u]
        /\ 2 * (n * Over(s)) <= 2 * x + Pow2[u]
    <3> HIDE DEF x
    <3> QED
      BY <2>1, <2>2
  <2> QED
    BY <1>4, <2>2, <2>3, <2>4 DEF RoundsOn, B
<1>5. CASE l = 0
  <2>1. n = 0
    BY <1>1, <1>5, PowFacts
  <2>2. 0 * Pow2[Least(p)] = n * Pow2[s] /\ 0 < Pow2[B]
    BY <1>1, <1>3, <2>1, PowPos
  <2>3. RoundsOn(n, s, p, Least(p), 0, 0)
    BY <1>1, <1>4, <2>2
  <2> QED
    BY <1>1, <2>3
<1>6. CASE l # 0
  <2> DEFINE d == Pow2[s - ulp]
             q == n * d
  <2>1. s - ulp \in Nat /\ Pow2[s] = d * Pow2[ulp]
    BY <1>1, PowSplit
  <2>2. d \in Nat /\ d >= 1 /\ Pow2[ulp] \in Nat
    BY <1>1, <2>1, PowPos
  <2>3. q \in Nat /\ q * Pow2[ulp] = n * Pow2[s]
    BY <2>1, <2>2, Times
  <2>4. q < Pow2[B]
    <3>1. l + (s - ulp) \in Nat /\ l + (s - ulp) <= B
      BY <1>1
    <3>2. Pow2[l] * d = Pow2[l + (s - ulp)] /\ Pow2[l + (s - ulp)] <= Pow2[B]
      BY <1>1, <2>1, <3>1, PowAdd, PowMono
    <3>3. n * d < Pow2[l] * d /\ Pow2[l] * d \in Nat /\ Pow2[B] \in Nat
      BY <1>1, <2>2, Times, PowPos
    <3> QED
      BY <2>3, <3>2, <3>3
  <2>5. ulp # Least(p) => q >= Pow2[B - 1]
    <3> SUFFICES ASSUME ulp # Least(p) PROVE q >= Pow2[B - 1]
      OBVIOUS
    <3>1. l - 1 \in Nat /\ n >= Pow2[l - 1] /\ (l - 1) + (s - ulp) = B - 1
      BY <1>1, <1>6
    <3>2. Pow2[B - 1] = Pow2[l - 1] * d /\ Pow2[l - 1] \in Nat
      <4>1. Pow2[(l - 1) + (s - ulp)] = Pow2[l - 1] * d
        BY <2>1, <3>1, PowAdd
      <4> QED
        BY <3>1, <4>1, PowPos
    <3> QED
      BY <2>2, <3>1, <3>2, Times
  <2> HIDE DEF q
  <2>6. RoundsOn(n, s, p, ulp, q, 0)
    BY <1>1, <1>4, <2>3, <2>4, <2>5
  <2> QED
    BY <1>1, <2>3, <2>6
<1> QED
  BY <1>5, <1>6

\* Otherwise the bits below the grid decide.
LEMMA RoundsAway ==
    ASSUME NEW n \in Nat, NEW s \in Int, NEW p \in Precisions, s < Ulp(n, s, p)
    PROVE  \E u, q \in Nat, c \in {0, 1} : RoundsOn(n, s, p, u, q, c)
<1> DEFINE l == BitLength(n)
           B == Bits(p)
           ulp == Ulp(n, s, p)
           part == Pow2[ulp - s]
           q == n \div part
           r == n % part
           up == 2 * r > part \/ (2 * r = part /\ q % 2 = 1)
           c == IF up THEN 1 ELSE 0
           U == Pow2[ulp]
<1>1. /\ ulp \in Nat /\ l \in Nat /\ B \in Nat /\ B >= 1 /\ ulp >= Least(p) /\ ulp >= l + s - B
      /\ ulp # Least(p) => ulp = l + s - B
      /\ n < Pow2[l] /\ (l = 0 \/ n >= Pow2[l - 1])
      /\ Least(p) \in Nat
  BY UlpIs, BitLengthIs, PrecisionFacts
<1>2. ulp - s \in Nat /\ U * Under(s) = part * Over(s)
  BY <1>1, GridUnit
<1>3. part \in Nat /\ part >= 1 /\ U \in Nat /\ U >= 1
  BY <1>1, <1>2, PowPos
<1>4. q \in Int /\ r \in 0 .. part - 1 /\ n = q * part + r
  <2> HIDE DEF part
  <2> QED
    BY <1>3, DivMod
<1>5. Rounded(n, s, p) = IF (q + c) * U < Pow2[Top(p)] THEN (q + c) * U ELSE Inf
  <2>1. ~(s >= ulp)
    BY <1>1
  <2>2. Rounded(n, s, p) =
            LET magnitude == (IF up THEN q + 1 ELSE q) * U
            IN  IF magnitude < Pow2[Top(p)] THEN magnitude ELSE Inf
    BY <2>1 DEF Rounded, Ulp
  <2>3. (IF up THEN q + 1 ELSE q) = q + c
    <3> HIDE DEF up, q
    <3> QED
      BY <1>4
  <2> QED
    BY <2>2, <2>3
<1>6. c \in {0, 1} /\ (c = 0 => 2 * r <= part) /\ (c = 1 => 2 * r >= part)
  <2>1. r \in Nat
    BY <1>3, <1>4
  <2> HIDE DEF q, r, part
  <2> QED
    BY <1>3, <2>1
<1> HIDE DEF l, B, ulp, part, q, r, up, c, U
<1>7. q \in Nat
  <2>1. q < 0 => q * part <= -part
    <3>1. \A x \in Int, y \in Nat : x < 0 => x * y <= -y
      OBVIOUS
    <3> QED
      BY <1>3, <1>4, <3>1
  <2>2. q * part \in Int
    BY <1>3, <1>4
  <2> QED
    BY <1>3, <1>4, <2>1, <2>2
<1>8. q < Pow2[B]
  <2>1. B + (ulp - s) \in Nat /\ l <= B + (ulp - s)
    BY <1>1, <1>2
  <2>2. Pow2[B + (ulp - s)] = Pow2[B] * part /\ Pow2[l] <= Pow2[B + (ulp - s)]
    BY <1>1, <1>2, <2>1, PowAdd, PowMono DEF part
  <2>3. Pow2[B] \in Nat /\ Pow2[l] \in Nat /\ Pow2[B] * part \in Nat /\ q * part \in Nat
    BY <1>1, <1>3, <1>7, PowPos, Times
  <2>4. q * part < Pow2[B] * part
    BY <1>1, <1>4, <2>2, <2>3
  <2>5. Pow2[B] <= q => Pow2[B] * part <= q * part
    BY <1>3, <1>7, <2>3, Times
  <2> QED
    BY <1>7, <2>3, <2>4, <2>5
<1>9. ulp # Least(p) => q >= Pow2[B - 1]
  <2> SUFFICES ASSUME ulp # Least(p), ~(q >= Pow2[B - 1]) PROVE FALSE
    OBVIOUS
  <2>1. B - 1 \in Nat /\ ulp = l + s - B /\ l # 0 /\ l - 1 = (B - 1) + (ulp - s) /\ l - 1 \in Nat
    BY <1>1, <1>2
  <2>2. Pow2[l - 1] = Pow2[B - 1] * part /\ Pow2[B - 1] \in Nat /\ n >= Pow2[l - 1]
    <3>1. Pow2[(B - 1) + (ulp - s)] = Pow2[B - 1] * part
      BY <1>2, <2>1, PowAdd DEF part
    <3> QED
      BY <1>1, <2>1, <3>1, PowPos
  <2>3. (q + 1) * part <= Pow2[B - 1] * part
    BY <1>3, <1>7, <2>2, Times
  <2>4. (q + 1) * part = q * part + part /\ q * part \in Nat /\ Pow2[B - 1] * part \in Nat
    BY <1>3, <1>7, <2>2, Times
  <2> QED
    BY <1>3, <1>4, <2>2, <2>3, <2>4
<1>10. /\ q * (U * Under(s)) <= n * Over(s)
       /\ n * Over(s) < (q + 1) * (U * Under(s))
       /\ c = 0 => 2 * (n * Over(s)) <= 2 * (q * (U * Under(s))) + U * Under(s)
       /\ c = 1 => 2 * (n * Over(s)) >= 2 * (q * (U * Under(s))) + U * Under(s)
  <2> DEFINE o == Over(s)
             V == part * o
             Q == q * part
  <2>1. o \in Nat /\ o >= 1
    BY Scale
  <2>2. r \in Nat /\ r < part /\ Q \in Nat /\ n = Q + r
    BY <1>3, <1>4, <1>7, Times
  <2> HIDE DEF o, Q
  <2>3. /\ n * o = Q * o + r * o /\ Q * o = q * V /\ r * o < V /\ 0 <= r * o
        /\ Q * o \in Nat /\ r * o \in Nat /\ V \in Nat /\ (q + 1) * V = q * V + V
    <3>1. n * o = Q * o + r * o
      BY <2>1, <2>2, Times
    <3>2. Q * o = q * (part * o)
      BY <1>3, <1>7, <2>1, Times DEF Q
    <3>3. r * o < part * o
      BY <1>3, <2>1, <2>2, Times
    <3>4. Q * o \in Nat /\ r * o \in Nat /\ V \in Nat
      BY <1>3, <2>1, <2>2, Times
    <3>5. (q + 1) * V = q * V + V
      <4> HIDE DEF V
      <4> QED
        BY <1>7, <3>4
    <3> QED
      BY <3>1, <3>2, <3>3, <3>4, <3>5
  <2>4. 2 * r <= part => 2 * (r * o) <= V
    <3>1. 2 * r <= part => (2 * r) * o <= part * o
      BY <1>3, <2>1, <2>2, Times
    <3>2. (2 * r) * o = 2 * (r * o)
      BY <2>1, <2>2
    <3> QED
      BY <3>1, <3>2
  <2>5. 2 * r >= part => 2 * (r * o) >= V
    <3>1. 2 * r >= part => part * o <= (2 * r) * o
      BY <1>3, <2>1, <2>2, Times
    <3>2. (2 * r) * o = 2 * (r * o)
      BY <2>1, <2>2
    <3> QED
      BY <2>3, <3>1, <3>2
  <2>6. U * Under(s) = V
    BY <1>2 DEF o
  <2> DEFINE A == n * o
             R == r * o
             W == q * V
             W1 == (q + 1) * V
  <2>7. A = W + R /\ W \in Nat /\ R \in Nat /\ V \in Nat /\ W1 = W + V /\ R < V
    BY <2>3
  <2>8. (c = 0 => 2 * R <= V) /\ (c = 1 => 2 * R >= V)
    BY <1>6, <2>4, <2>5
  <2>9. W <= A /\ A < W1 /\ (c = 0 => 2 * A <= 2 * W + V) /\ (c = 1 => 2 * A >= 2 * W + V)
    <3> HIDE DEF A, R, W, W1, V
    <3> QED
      BY <2>7, <2>8
  <2> QED
    BY <2>6, <2>9 DEF o
<1>11. RoundsOn(n, s, p, ulp, q, c)
  BY <1>1, <1>5, <1>8, <1>9, <1>10 DEF RoundsOn, B, U
<1> QED
  BY <1>1, <1>6, <1>7, <1>11

LEMMA RoundedIs ==
    ASSUME NEW n \in Nat, NEW s \in Int, NEW p \in Precisions
    PROVE  \E u, q \in Nat, c \in {0, 1} : RoundsOn(n, s, p, u, q, c)
<1>1. s >= Ulp(n, s, p) \/ s < Ulp(n, s, p)
  BY UlpIs
<1> QED
  BY <1>1, RoundsExactly, RoundsAway

\* Nothing that the precision has lies between a number and what it is rounded to.
LEMMA RoundedBetween ==
    ASSUME NEW n \in Nat, NEW s \in Int, NEW p \in Precisions, NEW v \in Magnitudes(p)
    PROVE  LET given == Rounded(n, s, p)
           IN  /\ v * Under(s) >= n * Over(s) => given \in Nat /\ given # Inf /\ given <= v
               /\ v * Under(s) <= n * Over(s) => given = Inf \/ (given \in Nat /\ given >= v)
<1>1. PICK u, q \in Nat, c \in {0, 1} : RoundsOn(n, s, p, u, q, c)
  BY RoundedIs
<1> DEFINE P == Pow2[u]
           under == Under(s)
           U == P * under
           N == n * Over(s)
           x == (q + c) * P
           low == q * P
           Q == q * U
           V == v * under
<1>2. /\ u = Least(p) \/ q >= Pow2[Bits(p) - 1]
      /\ Rounded(n, s, p) = IF x < Pow2[Top(p)] THEN x ELSE Inf
      /\ Q <= N /\ N < (q + 1) * U
      /\ c = 0 => 2 * N <= 2 * Q + U
      /\ c = 1 => 2 * N >= 2 * Q + U
  BY <1>1 DEF RoundsOn
<1>3. v \in Nat /\ v < Pow2[Top(p)] /\ Pow2[Top(p)] \in Nat
  BY MagnitudeIs, PrecisionFacts, PowPos
<1>4. v <= q * P \/ v >= (q + 1) * P
  BY <1>2, Grid
<1>5. P \in Nat /\ P >= 1 /\ under \in Nat /\ under >= 1
  BY PowPos, Scale
<1> HIDE DEF P, under
<1>6. /\ U \in Nat /\ U >= 1 /\ low \in Nat /\ (q + 1) * P = low + P
      /\ x = low + c * P /\ x \in Nat /\ Q = low * under
  <2>1. U \in Nat /\ low \in Nat /\ (q + 1) * P = low + P /\ Q = low * under
    BY <1>5, Times
  <2>2. 1 * under <= P * under
    BY <1>5, Times
  <2>3. c \in Nat /\ x = low + c * P /\ c * P \in Nat
    BY <1>5, Times
  <2> QED
    BY <1>5, <2>1, <2>2, <2>3
<1>7. (low + P) * under = Q + U /\ (q + 1) * U = Q + U /\ Q \in Nat /\ N \in Nat /\ V \in Nat
  <2>1. (low + P) * under = Q + U
    BY <1>5, <1>6, Times
  <2>2. (q + 1) * U = Q + U
    <3> HIDE DEF U
    <3> QED
      BY <1>6
  <2>3. Q \in Nat /\ N \in Nat /\ V \in Nat
    BY <1>3, <1>5, <1>6, Scale, Times
  <2> QED
    BY <2>1, <2>2, <2>3
<1> HIDE DEF U, Q, N, V, low, x
<1>8. Q <= N /\ N < Q + U /\ (c = 1 => N > Q)
  BY <1>2, <1>6, <1>7
<1>9. (v <= low => V <= Q) /\ (v >= low + P => V >= Q + U) /\ (v < low => V < Q)
  BY <1>3, <1>5, <1>6, <1>7, Times DEF V, Q
<1>10. (c = 0 => x = low) /\ (c = 1 => x = low + P)
  BY <1>5, <1>6
<1>11. x \in Nat => x # Inf
  BY InfAssumption
<1>12. ASSUME V >= N PROVE x <= v
  <2>1. CASE v >= low + P
    BY <1>3, <1>5, <1>6, <1>10, <2>1
  <2>2. CASE v <= low
    <3>1. V = N /\ N = Q
      BY <1>7, <1>8, <1>9, <1>12, <2>2
    <3>2. c = 0 /\ ~(v < low)
      BY <1>7, <1>8, <1>9, <3>1
    <3> QED
      BY <1>3, <1>6, <1>10, <3>2
  <2> QED
    BY <1>4, <1>6, <2>1, <2>2 DEF low
<1>13. ASSUME V <= N PROVE x >= v
  <2>1. ~(v >= low + P)
    BY <1>6, <1>7, <1>8, <1>9, <1>13
  <2>2. v <= low
    BY <1>4, <1>6, <2>1 DEF low
  <2> QED
    BY <1>3, <1>5, <1>6, <1>10, <2>2
<1>14. /\ V >= N => Rounded(n, s, p) \in Nat /\ Rounded(n, s, p) # Inf /\ Rounded(n, s, p) <= v
       /\ V <= N => Rounded(n, s, p) = Inf \/ (Rounded(n, s, p) \in Nat /\ Rounded(n, s, p) >= v)
  BY <1>2, <1>3, <1>6, <1>11, <1>12, <1>13
<1> QED
  BY <1>14 DEF V, N, under

\* What is rounded is a magnitude of the precision, if it is finite.
LEMMA RoundedType ==
    ASSUME NEW n \in Nat, NEW s \in Int, NEW p \in Precisions
    PROVE  Rounded(n, s, p) \in Magnitudes(p) \cup {Inf}
<1>1. PICK u, q \in Nat, c \in {0, 1} : RoundsOn(n, s, p, u, q, c)
  BY RoundedIs
<1> DEFINE x == (q + c) * Pow2[u]
<1>2. /\ u >= Least(p) /\ q < Pow2[Bits(p)]
      /\ Rounded(n, s, p) = IF x < Pow2[Top(p)] THEN x ELSE Inf
  BY <1>1 DEF RoundsOn
<1>3. q + c \in Nat /\ q + c <= Pow2[Bits(p)]
  BY <1>2, PrecisionFacts, PowPos
<1> QED
  BY <1>2, <1>3, IsMagnitude

\* And none is nearer.
LEMMA RoundedNearest ==
    ASSUME NEW n \in Nat, NEW s \in Int, NEW p \in Precisions
    PROVE  Nearest(n, s, Rounded(n, s, p), p)
<1>1. PICK u, q \in Nat, c \in {0, 1} : RoundsOn(n, s, p, u, q, c)
  BY RoundedIs
<1> DEFINE P == Pow2[u]
           under == Under(s)
           U == P * under
           N == n * Over(s)
           x == (q + c) * P
           low == q * P
           Q == q * U
           top == Pow2[Top(p)]
           Off(v) == IF v * under > N THEN v * under - N ELSE N - v * under
<1>2. /\ u = Least(p) \/ q >= Pow2[Bits(p) - 1]
      /\ Rounded(n, s, p) = IF x < top THEN x ELSE Inf
      /\ Q <= N /\ N < (q + 1) * U
      /\ c = 0 => 2 * N <= 2 * Q + U
      /\ c = 1 => 2 * N >= 2 * Q + U
  BY <1>1 DEF RoundsOn
<1>3. P \in Nat /\ P >= 1 /\ under \in Nat /\ under >= 1 /\ top \in Nat
  BY PowPos, Scale, PrecisionFacts
<1>4. \A v \in Magnitudes(p) : v \in Nat /\ v < top /\ (v <= q * P \/ v >= (q + 1) * P)
  BY <1>2, Grid, MagnitudeIs
<1> HIDE DEF P, under, top
<1>5. /\ U \in Nat /\ U >= 1 /\ low \in Nat /\ (q + 1) * P = low + P
      /\ x = low + c * P /\ x \in Nat /\ Q = low * under
  <2>1. U \in Nat /\ low \in Nat /\ (q + 1) * P = low + P /\ Q = low * under
    BY <1>3, Times
  <2>2. 1 * under <= P * under
    BY <1>3, Times
  <2>3. c \in Nat /\ x = low + c * P /\ c * P \in Nat
    BY <1>3, Times
  <2> QED
    BY <1>3, <2>1, <2>2, <2>3
<1>6. (low + P) * under = Q + U /\ (q + 1) * U = Q + U /\ Q \in Nat /\ N \in Nat
  <2>1. (low + P) * under = Q + U
    BY <1>3, <1>5, Times
  <2>2. (q + 1) * U = Q + U
    <3> HIDE DEF U
    <3> QED
      BY <1>5
  <2>3. Q \in Nat /\ N \in Nat
    BY <1>3, <1>5, Scale, Times
  <2> QED
    BY <2>1, <2>2, <2>3
<1>7. (c = 0 => x = low) /\ (c = 1 => x = low + P)
  BY <1>3, <1>5
<1>8. ASSUME NEW v \in Magnitudes(p)
      PROVE  /\ v * under \in Nat
             /\ v <= low => v * under <= Q
             /\ v >= low + P => v * under >= Q + U
             /\ v <= low \/ v >= low + P
  <2>1. v \in Nat /\ (v <= low \/ v >= low + P)
    BY <1>4, <1>5
  <2>2. low + P \in Nat
    BY <1>3, <1>5
  <2>3. v * under \in Nat /\ (v <= low => v * under <= low * under)
        /\ (v >= low + P => (low + P) * under <= v * under)
    BY <1>3, <1>5, <2>1, <2>2, Times
  <2> QED
    BY <1>5, <1>6, <2>1, <2>3
<1>9. (c = 0 => x * under = Q) /\ (c = 1 => x * under = Q + U)
  BY <1>5, <1>6, <1>7
<1> HIDE DEF U, Q, N, low, x
<1>10. CASE x < top
  <2>1. Rounded(n, s, p) = x /\ x # Inf /\ x \in Magnitudes(p)
    BY <1>2, <1>5, <1>10, InfAssumption, RoundedType
  <2>2. ASSUME NEW v \in Magnitudes(p) PROVE Off(x) <= Off(v)
    BY <1>2, <1>5, <1>6, <1>8, <1>9, <2>2
  <2> QED
    BY <2>1, <2>2 DEF Nearest, Over, Under, under, N
<1>11. CASE ~(x < top)
  <2>1. Rounded(n, s, p) = Inf
    BY <1>2, <1>11
  <2>2. ASSUME NEW v \in Magnitudes(p) PROVE v * under < N
    <3>1. v \in Nat /\ v < x
      BY <1>3, <1>4, <1>5, <1>11
    <3>2. CASE c = 0
      <4>1. v < low
        BY <1>7, <3>1, <3>2
      <4>2. v * under < low * under
        BY <1>3, <1>5, <3>1, <4>1, Times
      <4> QED
        BY <1>2, <1>5, <1>6, <1>8, <4>2
    <3>3. CASE c = 1
      <4>1. v <= low
        BY <1>5, <1>7, <1>8, <3>1, <3>3
      <4> QED
        BY <1>2, <1>5, <1>6, <1>8, <3>3, <4>1
    <3> QED
      BY <3>2, <3>3
  <2> QED
    BY <2>1, <2>2 DEF Nearest, Over, Under, under, N
<1> QED
  BY <1>3, <1>5, <1>10, <1>11

\* A number that is a magnitude stays what it is.
LEMMA RoundedSame ==
    ASSUME NEW n \in Nat, NEW s \in Int, NEW p \in Precisions, NEW v \in Magnitudes(p),
           v * Under(s) = n * Over(s)
    PROVE  Rounded(n, s, p) = v
<1>1. v \in Nat /\ v * Under(s) \in Nat
  BY MagnitudeIs, Scale
<1> QED
  BY <1>1, RoundedBetween

-----------------------------------------------------------------------------
(* A constant, from its construction to an answer                           *)

IntHeld(alternative, type, x) ==
    /\ made = [by |-> alternative, type |-> type, x |-> x]
    /\ mValue = [alternative |-> alternative, word |-> Word(x, type)]

FloatHeld(precision, negative, magnitude) ==
    LET l == BitLength(magnitude)
        exp == IF magnitude = 0 THEN 0 ELSE l - One
    IN  /\ made = [by |-> "float", precision |-> precision, negative |-> negative, magnitude |-> magnitude]
        /\ mValue = [alternative |-> "FloatConst",
                     mMantissa |-> (magnitude * Pow2[Bits(precision)]) \div Pow2[l],
                     mExponent |-> exp - MantissaBits(precision),
                     mNegative |-> negative, mPrecision |-> precision]

ScientificHeld(mantissa, exponent, negative, precision) ==
    /\ made = [by |-> "scientific", mantissa |-> mantissa, exponent |-> exponent, negative |-> negative]
    /\ mValue = [alternative |-> "FloatConst", mMantissa |-> mantissa, mExponent |-> exponent,
                 mNegative |-> negative, mPrecision |-> precision]

HeldInv ==
    \/ \E alternative \in {"IntConst", "RawBits"}, type \in IntTypes :
          \E x \in ValuesOf(type) : IntHeld(alternative, type, x)
    \/ \E precision \in Precisions, negative \in BOOLEAN :
          \E magnitude \in Magnitudes(precision) : FloatHeld(precision, negative, magnitude)
    \/ \E mantissa \in 0 .. Pow2[Width64] - 1, exponent \in Exponents,
          negative \in BOOLEAN, precision \in Precisions :
          ScientificHeld(mantissa, exponent, negative, precision)

FloatAnswer(precision) == [accessor |-> "float", as |-> precision, answer |-> AsFloat(mValue, precision)]
IntAnswer(type)        == [accessor |-> "int", as |-> type, answer |-> AsInt(mValue, type)]

AnswerInv ==
    \/ \E precision \in Precisions : answered = FloatAnswer(precision)
    \/ \E type \in IntTypes : answered = IntAnswer(type)

\* A constant holds what its constructor put into it, and the answer is what the
\* accessor makes of that.
NumInv ==
    /\ made # None => HeldInv
    /\ answered # None => made # None /\ AnswerInv

LEMMA NumInit == NumericInit => NumInv
  BY DEF NumericInit, NumInv

LEMMA NumStep == NumInv /\ [NumericNext]_numvars => NumInv'
<1> SUFFICES ASSUME NumInv, [NumericNext]_numvars PROVE NumInv'
  OBVIOUS
<1>1. CASE Construct
  <2>1. made = None /\ answered = None /\ answered' = None
    BY <1>1 DEF Construct, NumInv
  <2>2. HeldInv'
    <3>1. CASE ConstructInt
      BY <3>1 DEF ConstructInt, HeldInv, IntHeld
    <3>2. CASE ConstructFloat
      BY <3>2 DEF ConstructFloat, HeldInv, FloatHeld
    <3>3. CASE ConstructScientific
      BY <3>3 DEF ConstructScientific, HeldInv, ScientificHeld
    <3> QED
      BY <1>1, <3>1, <3>2, <3>3 DEF Construct
  <2> QED
    BY <2>1, <2>2 DEF NumInv
<1>2. CASE ReadFloat
  <2>1. HeldInv' /\ made' # None
    BY <1>2 DEF ReadFloat, NumInv, HeldInv, IntHeld, FloatHeld, ScientificHeld
  <2>2. AnswerInv'
    BY <1>2 DEF ReadFloat, AnswerInv, FloatAnswer
  <2> QED
    BY <2>1, <2>2 DEF NumInv
<1>3. CASE ReadInt
  <2>1. HeldInv' /\ made' # None
    BY <1>3 DEF ReadInt, NumInv, HeldInv, IntHeld, FloatHeld, ScientificHeld
  <2>2. AnswerInv'
    BY <1>3 DEF ReadInt, AnswerInv, IntAnswer
  <2> QED
    BY <2>1, <2>2 DEF NumInv
<1>4. CASE UNCHANGED numvars
  BY <1>4 DEF numvars, NumInv, HeldInv, IntHeld, FloatHeld, ScientificHeld, AnswerInv, FloatAnswer, IntAnswer
<1> QED
  BY <1>1, <1>2, <1>3, <1>4 DEF NumericNext, Answer

LEMMA NumInvHolds == NumericSpec => []NumInv
  BY NumInit, NumStep, PTL DEF NumericSpec

\* By how a constant was made one knows what it holds.
LEMMA HeldBy ==
    ASSUME NumInv, made # None
    PROVE  /\ made.by \in {"IntConst", "RawBits"} =>
                \E type \in IntTypes : \E x \in ValuesOf(type) : IntHeld(made.by, type, x)
           /\ made.by = "float" =>
                \E precision \in Precisions, negative \in BOOLEAN :
                \E magnitude \in Magnitudes(precision) : FloatHeld(precision, negative, magnitude)
           /\ made.by = "scientific" =>
                \E mantissa \in 0 .. Pow2[Width64] - 1, exponent \in Exponents,
                   negative \in BOOLEAN, precision \in Precisions :
                   ScientificHeld(mantissa, exponent, negative, precision)
<1>1. HeldInv
  BY DEF NumInv
<1>2. \A a, t, x : IntHeld(a, t, x) => made.by = a
  BY DEF IntHeld
<1>3. \A p, n, m : FloatHeld(p, n, m) => made.by = "float"
  BY DEF FloatHeld
<1>4. \A m, e, n, p : ScientificHeld(m, e, n, p) => made.by = "scientific"
  BY DEF ScientificHeld
<1> QED
  BY <1>1, <1>2, <1>3, <1>4 DEF HeldInv

LEMMA AnsweredAs ==
    ASSUME NumInv, answered # None
    PROVE  /\ made # None
           /\ answered.accessor = "float" =>
                answered.as \in Precisions /\ answered.answer = AsFloat(mValue, answered.as)
           /\ answered.accessor = "int" =>
                answered.as \in IntTypes /\ answered.answer = AsInt(mValue, answered.as)
<1>1. made # None /\ AnswerInv
  BY DEF NumInv
<1>2. CASE \E precision \in Precisions : answered = FloatAnswer(precision)
  <2>1. PICK precision \in Precisions : answered = FloatAnswer(precision)
    BY <1>2
  <2> QED
    BY <1>1, <2>1 DEF FloatAnswer
<1>3. CASE \E type \in IntTypes : answered = IntAnswer(type)
  <2>1. PICK type \in IntTypes : answered = IntAnswer(type)
    BY <1>3
  <2> QED
    BY <1>1, <2>1 DEF IntAnswer
<1> QED
  BY <1>1, <1>2, <1>3 DEF AnswerInv

-----------------------------------------------------------------------------
(* Integers                                                                 *)

\* The widths of the types, and the range of each: 2^width values, half of them
\* negative if it has a sign.
LEMMA WidthFacts ==
    ASSUME NEW type \in IntTypes
    PROVE  /\ type.signed \in BOOLEAN
           /\ type.width \in Nat /\ type.width >= 1 /\ type.width <= Width64 /\ Width64 \in Nat
           /\ Pow2[type.width] = 2 * Pow2[type.width - 1]
           /\ Pow2[type.width - 1] \in Nat /\ Pow2[type.width - 1] >= 1
<1>1. /\ type.signed \in BOOLEAN
      /\ type.width \in Nat /\ type.width >= 1 /\ type.width <= Width64 /\ Width64 \in Nat
  <2>1. type.width \in {Width64, Width32, Width16, Width8} /\ type.signed \in BOOLEAN
    BY DEF IntTypes
  <2> QED
    BY <2>1, SizesAssumption
<1>2. type.width - 1 \in Nat /\ (type.width - 1) + 1 = type.width
  BY <1>1
<1> QED
  BY <1>1, <1>2, PowFacts, PowPos

LEMMA ValuesAreInts ==
    ASSUME NEW type \in IntTypes, NEW x \in ValuesOf(type)
    PROVE  x \in Int
  BY WidthFacts DEF ValuesOf

\* A cast gives a value of the type, and the same modulo 2^width.
LEMMA CastIs ==
    ASSUME NEW type \in IntTypes, NEW y \in Int
    PROVE  /\ Cast(y, type) \in ValuesOf(type)
           /\ \E k \in Int : Cast(y, type) = y + k * Pow2[type.width]
<1> DEFINE P == Pow2[type.width]
           H == Pow2[type.width - 1]
           low == y % P
           q == y \div P
<1>1. P = 2 * H /\ H \in Nat /\ H >= 1 /\ type.signed \in BOOLEAN
  BY WidthFacts
<1>2. q \in Int /\ low \in 0 .. P - 1 /\ y = q * P + low
  <2>1. P \in Nat /\ P >= 1
    BY <1>1
  <2> HIDE DEF P
  <2> QED
    BY <2>1, DivMod
<1>3. Cast(y, type) = IF type.signed /\ low >= H THEN low - P ELSE low
  BY DEF Cast
<1>4. ValuesOf(type) = IF type.signed THEN -H .. H - 1 ELSE 0 .. P - 1
  BY DEF ValuesOf
<1> HIDE DEF P, H, low, q
<1>5. Cast(y, type) \in ValuesOf(type)
  BY <1>1, <1>2, <1>3, <1>4
<1>6. \E k \in Int : Cast(y, type) = y + k * P
  <2>1. /\ -q \in Int /\ -q - 1 \in Int /\ q * P \in Int /\ P \in Nat
        /\ (-q) * P = -(q * P) /\ (-q - 1) * P = -(q * P) - P
    BY <1>1, <1>2
  <2>2. Cast(y, type) = low \/ Cast(y, type) = low - P
    BY <1>3
  <2>3. low = y + (-q) * P /\ low - P = y + (-q - 1) * P
    BY <1>2, <2>1
  <2> QED
    BY <2>1, <2>2, <2>3
<1> QED
  BY <1>5, <1>6 DEF P

\* Two values of a type that agree in all its bits are the same.
LEMMA SameValue ==
    ASSUME NEW type \in IntTypes, NEW x \in ValuesOf(type), NEW y \in ValuesOf(type),
           NEW k \in Int, y = x + k * Pow2[type.width]
    PROVE  y = x
<1> DEFINE P == Pow2[type.width]
           H == Pow2[type.width - 1]
<1>1. P = 2 * H /\ H \in Nat /\ H >= 1 /\ type.signed \in BOOLEAN
  BY WidthFacts
<1>2. ValuesOf(type) = IF type.signed THEN -H .. H - 1 ELSE 0 .. P - 1
  BY DEF ValuesOf
<1> HIDE DEF P, H
<1>3. x \in Int /\ y \in Int /\ y - x < P /\ x - y < P
  BY <1>1, <1>2
<1>4. k * P \in Int /\ (k >= 1 => k * P >= P) /\ (k <= -1 => k * P <= -P)
  BY <1>1
<1>5. y = x + k * P
  BY DEF P
<1>6. k = 0
  BY <1>1, <1>3, <1>4, <1>5
<1> QED
  BY <1>1, <1>3, <1>5, <1>6

\* The word a constant keeps has the bits of every type that it can be read as.
LEMMA CastOfWord ==
    ASSUME NEW type \in IntTypes, NEW x \in Int, NEW from
    PROVE  /\ Cast(Word(x, from), type) \in ValuesOf(type)
           /\ \E k \in Int : Cast(Word(x, from), type) = x + k * Pow2[type.width]
<1> DEFINE P == Pow2[type.width]
           W == Pow2[Width64]
           w == Word(x, from)
           d == Pow2[Width64 - type.width]
           q == x \div W
<1>1. W = d * P /\ d \in Nat /\ P \in Nat /\ W \in Nat /\ W >= 1
  <2>1. type.width \in Nat /\ type.width <= Width64 /\ Width64 \in Nat
    BY WidthFacts
  <2>2. Width64 - type.width \in Nat /\ Pow2[Width64] = Pow2[Width64 - type.width] * Pow2[type.width]
    BY <2>1, PowSplit
  <2> QED
    BY <2>1, <2>2, PowPos
<1>2. w = x % W
  BY DEF Word
<1> HIDE DEF W
<1>3. q \in Int /\ w \in Int /\ x = q * W + w
  <2>1. q \in Int /\ x % W \in 0 .. W - 1 /\ x = q * W + (x % W)
    BY <1>1, DivMod
  <2> HIDE DEF q, w
  <2> QED
    BY <1>1, <1>2, <2>1
<1> HIDE DEF q, w, d
<1>4. PICK j \in Int : Cast(w, type) = w + j * P
  BY <1>3, CastIs
<1>5. Cast(w, type) = x + (j - q * d) * P /\ j - q * d \in Int
  <2> HIDE DEF P
  <2>1. q * d \in Int /\ (j - q * d) * P = j * P - (q * d) * P /\ (q * d) * P = q * (d * P)
    BY <1>1, <1>3
  <2>2. j * P \in Int /\ q * W \in Int /\ q * (d * P) = q * W
    BY <1>1, <1>3
  <2> QED
    BY <1>3, <1>4, <2>1, <2>2
<1> QED
  BY <1>3, <1>5, CastIs DEF w

\* For every choice of the widths, and so for those of the code: an integer constant
\* answers each accessor with its value, or with what its low bits say in the type
\* (tokens.hpp:259-404, 502-655).
THEOREM IntTheorem == NumericSpec => []IntReadsBack
<1>1. NumInv => IntReadsBack
  <2> SUFFICES ASSUME NumInv, Answered({"IntConst", "RawBits"}, "int")
               PROVE  /\ answered.answer \in ValuesOf(answered.as)
                      /\ (answered.answer - made.x) % Pow2[answered.as.width] = 0
                      /\ made.x \in ValuesOf(answered.as) => answered.answer = made.x
    BY DEF IntReadsBack
  <2>1. answered # None /\ made.by \in {"IntConst", "RawBits"} /\ answered.accessor = "int"
    BY DEF Answered
  <2>2. made # None /\ answered.as \in IntTypes /\ answered.answer = AsInt(mValue, answered.as)
    BY <2>1, AnsweredAs
  <2>3. PICK from \in IntTypes : \E x \in ValuesOf(from) : IntHeld(made.by, from, x)
    BY <2>1, <2>2, HeldBy
  <2>4. PICK x \in ValuesOf(from) : IntHeld(made.by, from, x)
    BY <2>3
  <2>5. made.x = x /\ mValue.word = Word(x, from) /\ mValue.alternative # "FloatConst"
    <3>1. mValue.alternative = made.by
      BY <2>4 DEF IntHeld
    <3> QED
      BY <2>1, <2>4, <3>1 DEF IntHeld
  <2>6. answered.answer = Cast(Word(x, from), answered.as)
    BY <2>2, <2>5 DEF AsInt
  <2> DEFINE as == answered.as
             y == answered.answer
             P == Pow2[as.width]
  <2>7. x \in Int /\ as \in IntTypes
    BY <2>2, ValuesAreInts
  <2> HIDE DEF as
  <2>8. y \in ValuesOf(as) /\ \E k \in Int : y = x + k * P
    BY <2>6, <2>7, CastOfWord DEF as
  <2>9. PICK k \in Int : y = x + k * P
    BY <2>8
  <2>10. y \in Int /\ P \in Nat /\ P >= 1
    BY <2>7, <2>8, ValuesAreInts, WidthFacts, PowPos
  <2> HIDE DEF y, P
  <2>11. (y - x) % P = 0
    <3>1. y - x = k * P + 0 /\ 0 \in 0 .. P - 1 /\ y - x \in Int
      BY <2>7, <2>9, <2>10
    <3> QED
      BY <2>10, <3>1, DivModOnly
  <2>12. x \in ValuesOf(as) => y = x
    BY <2>7, <2>8, <2>9, SameValue DEF P
  <2> QED
    BY <2>5, <2>8, <2>11, <2>12 DEF y, P, as
<1> QED
  BY <1>1, NumInvHolds, PTL

\* For every choice of the widths and precisions: an int64_t constant that is read as a
\* floating point number is the nearest one of that precision, with its sign, whether it
\* has one bit too many or half of them (tokens.hpp:459-499).
THEOREM IntAsFloatTheorem == NumericSpec => []IntAsFloatNearest
<1>1. NumInv => IntAsFloatNearest
  <2> SUFFICES ASSUME NumInv, Answered({"IntConst"}, "float"), made.x \in ValuesOf(Int64)
               PROVE  /\ answered.answer.negative = (made.x < 0)
                      /\ Nearest(IF made.x < 0 THEN -made.x ELSE made.x, One,
                                 answered.answer.magnitude, answered.as)
    BY DEF IntAsFloatNearest
  <2>1. answered # None /\ made.by = "IntConst" /\ answered.accessor = "float"
    BY DEF Answered
  <2>2. made # None /\ answered.as \in Precisions /\ answered.answer = AsFloat(mValue, answered.as)
    BY <2>1, AnsweredAs
  <2>3. PICK from \in IntTypes : \E x \in ValuesOf(from) : IntHeld("IntConst", from, x)
    BY <2>1, <2>2, HeldBy
  <2>4. PICK x \in ValuesOf(from) : IntHeld("IntConst", from, x)
    BY <2>3
  <2>5. made.x = x /\ mValue.word = Word(x, from) /\ mValue.alternative = "IntConst"
    BY <2>4 DEF IntHeld
  <2>6. ReadAs(mValue) = x
    <3>1. Int64 \in IntTypes /\ Int64.width = Width64
      BY DEF Int64, IntTypes
    <3>2. x \in Int /\ x \in ValuesOf(Int64)
      BY <2>5, ValuesAreInts
    <3>3. ReadAs(mValue) = Cast(Word(x, from), Int64)
      BY <2>5 DEF ReadAs
    <3> QED
      BY <3>1, <3>2, <3>3, CastOfWord, SameValue
  <2> DEFINE n == IF x < 0 THEN -x ELSE x
  <2>7. AsFloat(mValue, answered.as) =
            [negative |-> x < 0, magnitude |-> Rounded(n, One, answered.as)]
    BY <2>5, <2>6 DEF AsFloat
  <2>8. n \in Nat /\ One \in Int
    BY ValuesAreInts, SizesAssumption
  <2>9. Nearest(n, One, Rounded(n, One, answered.as), answered.as)
    BY <2>2, <2>8, RoundedNearest
  <2> QED
    BY <2>2, <2>5, <2>7, <2>9
<1> QED
  BY <1>1, NumInvHolds, PTL

-----------------------------------------------------------------------------
(* Floating point numbers                                                   *)

\* A double holds every float.
LEMMA FloatsAreDoubles == Magnitudes("FLOAT32") \subseteq Magnitudes("FLOAT64")
<1> SUFFICES ASSUME NEW v \in Magnitudes("FLOAT32") PROVE v \in Magnitudes("FLOAT64")
  OBVIOUS
<1>1. "FLOAT32" \in Precisions /\ "FLOAT64" \in Precisions
  BY DEF Precisions
<1>2. /\ Bits("FLOAT32") <= Bits("FLOAT64") /\ Top("FLOAT32") <= Top("FLOAT64")
      /\ Least("FLOAT64") <= Least("FLOAT32")
  BY SizesAssumption DEF Bits, Top, Least
<1>3. PICK m, g \in Nat : m < Pow2[Bits("FLOAT32")] /\ g >= Least("FLOAT32") /\ v = m * Pow2[g]
  BY <1>1, MagnitudeIs
<1>4. v \in Nat /\ v < Pow2[Top("FLOAT32")]
  BY <1>1, MagnitudeIs
<1>5. /\ Bits("FLOAT32") \in Nat /\ Bits("FLOAT64") \in Nat /\ Top("FLOAT32") \in Nat
      /\ Top("FLOAT64") \in Nat /\ Least("FLOAT32") \in Nat /\ Least("FLOAT64") \in Nat
  BY <1>1, PrecisionFacts
<1>6. /\ Pow2[Bits("FLOAT32")] <= Pow2[Bits("FLOAT64")] /\ Pow2[Top("FLOAT32")] <= Pow2[Top("FLOAT64")]
      /\ Pow2[Bits("FLOAT32")] \in Nat /\ Pow2[Bits("FLOAT64")] \in Nat
      /\ Pow2[Top("FLOAT32")] \in Nat /\ Pow2[Top("FLOAT64")] \in Nat
  BY <1>2, <1>5, PowMono, PowPos
<1>7. m <= Pow2[Bits("FLOAT64")] /\ g >= Least("FLOAT64") /\ m * Pow2[g] < Pow2[Top("FLOAT64")]
  BY <1>2, <1>3, <1>4, <1>5, <1>6
<1> QED
  BY <1>1, <1>3, <1>7, IsMagnitude

LEMMA DoubleIs ==
    /\ "FLOAT64" \in Precisions /\ "FLOAT32" \in Precisions
    /\ Least("FLOAT64") = 0 /\ Bits("FLOAT64") = Bits64 /\ Top("FLOAT64") = Top64
    /\ Bits64 \in Nat /\ Top64 \in Nat /\ One \in Nat /\ Width64 \in Nat
    /\ Bits64 <= Width64 /\ One + Width64 <= Top64 /\ One >= 1
    /\ \A p \in Precisions : Bits(p) <= Bits64
  BY SizesAssumption DEF Precisions, Least, Bits, Top

\* Less than 2^Bits64 ones, or units, are a double.
LEMMA WholeDouble ==
    ASSUME NEW m \in Nat, m <= Pow2[Bits64]
    PROVE  m \in Magnitudes("FLOAT64") /\ m * Pow2[One] \in Magnitudes("FLOAT64")
<1> DEFINE O == Pow2[One]
           B == Pow2[Bits64]
           T == Pow2[Top64]
<1>1. /\ O \in Nat /\ O >= 2 /\ B \in Nat /\ B >= 1 /\ T \in Nat /\ 2 * (B * O) <= T
  <2>1. Bits64 + One \in Nat /\ Bits64 + One < Top64
    BY SizesAssumption
  <2>2. Pow2[Bits64 + One] = B * O /\ 2 * Pow2[Bits64 + One] <= T
    BY <2>1, DoubleIs, PowAdd, PowStrict
  <2>3. Pow2[0 + 1] = 2 /\ Pow2[0 + 1] <= O
    BY DoubleIs, PowFacts, PowMono
  <2> QED
    BY <2>2, <2>3, DoubleIs, PowPos
<1>2. m * O \in Nat /\ m * O <= B * O /\ B * O \in Nat /\ m <= m * O
  <2>1. m * 1 <= m * O
    <3>1. 1 * m <= O * m
      BY <1>1, Times
    <3> QED
      BY <1>1, <3>1, Times
  <2> QED
    BY <1>1, <2>1, Times
<1>3. B * O >= 1
  <2>1. 1 * O <= B * O
    BY <1>1, Times
  <2> QED
    BY <1>1, <1>2, <2>1
<1>4. m * O < T /\ m < T
  BY <1>1, <1>2, <1>3
<1>5. m * O \in Magnitudes("FLOAT64")
  BY <1>4, DoubleIs, IsMagnitude
<1>6. m = m * Pow2[0]
  BY PowFacts
<1>7. m \in Magnitudes("FLOAT64")
  BY <1>4, <1>6, DoubleIs, IsMagnitude
<1> QED
  BY <1>5, <1>7

\* x is y times 2^(d - c).
InRatio(x, y, c, d) == x * Pow2[c] = y * Pow2[d]

\* One equation between multiples of powers gives another.
LEMMA CrossPowers ==
    ASSUME NEW x \in Nat, NEW y \in Nat, NEW a \in Nat, NEW b \in Nat, NEW c \in Nat, NEW d \in Nat,
           InRatio(x, y, c, d), a + d = c + b
    PROVE  InRatio(x, y, a, b)
<1> DEFINE A == Pow2[a]
           B == Pow2[b]
           C == Pow2[c]
           D == Pow2[d]
<1>1. A \in Nat /\ B \in Nat /\ C \in Nat /\ D \in Nat /\ C >= 1 /\ B >= 1 /\ D >= 1
  BY PowPos
<1>2. A * D = C * B
  <2>1. A * D = Pow2[a + d] /\ C * B = Pow2[c + b]
    BY PowAdd
  <2> QED
    BY <2>1, Zenon
<1>3. x * C = y * D
  BY DEF InRatio
<1> HIDE DEF A, B, C, D
<1>4. (x * A) * D = (y * B) * D
  <2>1. (x * A) * D = x * (C * B)
    BY <1>1, <1>2, Times
  <2>2. x * (C * B) = (x * C) * B
    BY <1>1, Times
  <2>3. (y * D) * B = (y * B) * D
    BY <1>1
  <2> QED
    BY <1>3, <2>1, <2>2, <2>3
<1>5. x * A \in Nat /\ y * B \in Nat
  BY <1>1, Times
<1>6. \A v, w, z \in Nat : z >= 1 /\ v * z = w * z => v = w
  <2> TAKE v, w, z \in Nat
  <2>1. z >= 1 => (v < w => v * z < w * z) /\ (w < v => w * z < v * z)
    BY Times
  <2>2. v * z \in Nat /\ w * z \in Nat
    OBVIOUS
  <2> QED
    BY <2>1, <2>2
<1>7. x * A = y * B
  BY <1>1, <1>4, <1>5, <1>6
<1> QED
  BY <1>7 DEF A, B, InRatio

\* frexp() and the product with 2^Bits lose nothing.
LEMMA MantissaExact ==
    ASSUME NEW p \in Precisions, NEW n \in Magnitudes(p)
    PROVE  LET l == BitLength(n)
               m == (n * Pow2[Bits(p)]) \div Pow2[l]
           IN  /\ m \in Nat /\ m <= Pow2[Bits(p)]
               /\ m * Pow2[l] = n * Pow2[Bits(p)]
<1> DEFINE l == BitLength(n)
           B == Bits(p)
           L == Pow2[l]
           K == Pow2[B]
           m == (n * K) \div L
<1>1. /\ n \in Nat /\ l \in Nat /\ n < L /\ (l = 0 \/ n >= Pow2[l - 1]) /\ B \in Nat
      /\ L \in Nat /\ L >= 1 /\ K \in Nat /\ K >= 1
  BY MagnitudeIs, BitLengthIs, PrecisionFacts, PowPos
<1>2. PICK k, g \in Nat : k < K /\ n = k * Pow2[g]
  BY MagnitudeIs
<1> HIDE DEF l, B
<1>3. \E c \in Nat : n * K = c * L
  <2>1. CASE l <= B
    <3> DEFINE e == Pow2[B - l]
    <3>1. K = e * L /\ e \in Nat
      BY <1>1, <2>1, PowSplit, PowPos
    <3> HIDE DEF e, K, L
    <3>2. n * K = (n * e) * L /\ n * e \in Nat
      BY <1>1, <3>1, Times
    <3> QED
      BY <3>2
  <2>2. CASE l > B
    <3> DEFINE G == Pow2[g]
    <3>1. l - 1 \in Nat /\ n >= Pow2[l - 1] /\ G \in Nat /\ G >= 1 /\ Pow2[l - 1] \in Nat
      BY <1>1, <2>2, PowPos
    <3>2. l <= B + g
      <4> SUFFICES ASSUME ~(l <= B + g) PROVE FALSE
        OBVIOUS
      <4>1. B + g \in Nat /\ B + g <= l - 1
        BY <1>1, <3>1
      <4>2. Pow2[B + g] = K * G /\ Pow2[B + g] <= Pow2[l - 1]
        BY <1>1, <3>1, <4>1, PowAdd, PowMono
      <4> HIDE DEF K, G
      <4>3. k * G < K * G /\ K * G \in Nat /\ n = k * G
        BY <1>1, <1>2, <3>1, Times DEF G
      <4> QED
        BY <1>1, <3>1, <4>2, <4>3
    <3> DEFINE h == g - (l - B)
               e == Pow2[h]
    <3>3. h \in Nat /\ g + B = h + l
      BY <1>1, <2>2, <3>2
    <3>4. G * K = e * L /\ e \in Nat
      <4>1. G * K = Pow2[g + B] /\ e * L = Pow2[h + l] /\ e \in Nat
        BY <1>1, <3>3, PowAdd, PowPos
      <4> QED
        BY <3>3, <4>1, Zenon
    <3>5. n = k * G
      BY <1>2
    <3> HIDE DEF e, K, L, G
    <3>6. n * K = (k * e) * L /\ k * e \in Nat
      <4>1. (k * G) * K = k * (G * K) /\ k * (e * L) = (k * e) * L
        BY <1>1, <3>1, <3>4, Times
      <4> QED
        BY <3>4, <3>5, <4>1, Times
    <3> QED
      BY <3>6
  <2> QED
    BY <1>1, <2>1, <2>2
<1>4. PICK c \in Nat : n * K = c * L
  BY <1>3
<1> HIDE DEF K, L
<1>5. c = m
  <2>1. n * K \in Int /\ n * K = c * L + 0 /\ 0 \in 0 .. L - 1
    BY <1>1, <1>4
  <2> QED
    BY <1>1, <2>1, DivModOnly
<1>6. c <= K
  <2> SUFFICES ASSUME K <= c PROVE c <= K
    BY <1>1
  <2>1. K * L <= c * L /\ n * K <= L * K /\ K * L = L * K
    BY <1>1, Times
  <2>2. \A v, w, z \in Nat : z >= 1 /\ v * z <= w * z => v <= w
    <3> TAKE v, w, z \in Nat
    <3>1. z >= 1 => (w < v => w * z < v * z)
      BY Times
    <3>2. v * z \in Nat /\ w * z \in Nat
      OBVIOUS
    <3> QED
      BY <3>1, <3>2
  <2> QED
    BY <1>1, <1>4, <2>1, <2>2
<1>7. m \in Nat /\ m <= K /\ m * L = n * K
  BY <1>4, <1>5, <1>6
<1> QED
  BY <1>7 DEF K, L, l, B

\* A number that was taken apart is put together again, and rounded once more as a float.
LEMMA FloatRead ==
    ASSUME NEW p \in Precisions, NEW negative, NEW n \in Magnitudes(p), FloatHeld(p, negative, n),
           NEW q \in Precisions
    PROVE  Magnitude(mValue, q) = Rounded(n, 0, q)
<1> DEFINE l == BitLength(n)
           B == Bits(p)
           m == (n * Pow2[B]) \div Pow2[l]
           e == (IF n = 0 THEN 0 ELSE l - One) - B
           O == Pow2[One]
<1>1. /\ mValue.mMantissa = m /\ mValue.mExponent = e /\ mValue.mPrecision = p
  BY DEF FloatHeld, MantissaBits
<1>2. m \in Nat /\ m <= Pow2[B] /\ m * Pow2[l] = n * Pow2[B]
  BY MantissaExact
<1>3. /\ n \in Nat /\ l \in Nat /\ n < Pow2[l] /\ B \in Nat /\ B <= Bits64 /\ One \in Nat
      /\ e \in Int /\ O \in Nat /\ n \in Magnitudes("FLOAT64")
  <2>1. n \in Magnitudes("FLOAT64")
    BY FloatsAreDoubles DEF Precisions
  <2> QED
    BY <2>1, MagnitudeIs, BitLengthIs, PrecisionFacts, DoubleIs, PowPos
<1> HIDE DEF m
<1>4. m <= Pow2[Bits64]
  <2>1. Pow2[B] <= Pow2[Bits64] /\ Pow2[B] \in Nat /\ Pow2[Bits64] \in Nat
    BY <1>3, DoubleIs, PowMono, PowPos
  <2> QED
    BY <1>2, <2>1
<1>5. Rounded(m, One, "FLOAT64") = m * O
  <2>1. m * O \in Magnitudes("FLOAT64")
    BY <1>2, <1>4, WholeDouble
  <2>2. One >= 0 /\ One \in Int /\ Under(One) = 1 /\ Over(One) = O
    BY <1>3, Scale
  <2>3. m * O \in Nat
    BY <1>2, <1>3, Times
  <2>4. (m * O) * Under(One) = m * Over(One)
    BY <2>2, <2>3
  <2> QED
    BY <1>2, <2>1, <2>2, <2>4, DoubleIs, RoundedSame
<1>6. n * Under(e) = (m * O) * Over(e)
  <2>1. CASE n = 0
    <3>1. m = 0
      BY <1>2, <1>3, <2>1, PowPos
    <3> QED
      BY <1>3, <2>1, <3>1, Scale
  <2>2. CASE n # 0
    <3>1. e = l - One - B
      BY <1>3, <2>2
    <3>2. CASE e >= 0
      <4>1. e \in Nat /\ Over(e) = Pow2[e] /\ Under(e) = 1 /\ Pow2[e] \in Nat
        BY <1>3, <3>2, Scale, PowPos
      <4> HIDE DEF e, l, B
      <4>2. One + e \in Nat /\ (One + e) + B = l + 0
        BY <1>3, <3>1, <4>1
      <4>3. m * Pow2[One + e] = n * Pow2[0]
        <5>1. /\ m \in Nat /\ n \in Nat /\ l \in Nat /\ B \in Nat /\ 0 \in Nat /\ One + e \in Nat
              /\ InRatio(m, n, l, B) /\ (One + e) + B = l + 0
          BY <1>2, <1>3, <4>2 DEF InRatio
        <5>2. InRatio(m, n, One + e, 0)
          BY <5>1, CrossPowers
        <5> QED
          BY <5>2 DEF InRatio
      <4>4. Pow2[One + e] = O * Pow2[e]
        BY <1>3, <4>1, PowAdd
      <4>5. (m * O) * Pow2[e] = m * (O * Pow2[e])
        BY <1>2, <1>3, <4>1, Times
      <4> QED
        BY <1>3, <4>1, <4>3, <4>4, <4>5, PowFacts
    <3>3. CASE e < 0
      <4>1. -e \in Nat /\ Over(e) = 1 /\ Under(e) = Pow2[-e] /\ m * O \in Nat
        BY <1>2, <1>3, <3>3, Scale, Times
      <4> HIDE DEF e, l, B
      <4>2. One + B = l + (-e)
        BY <1>3, <3>1
      <4>3. m * Pow2[One] = n * Pow2[-e]
        <5>1. /\ m \in Nat /\ n \in Nat /\ l \in Nat /\ B \in Nat /\ -e \in Nat /\ One \in Nat
              /\ InRatio(m, n, l, B) /\ One + B = l + (-e)
          BY <1>2, <1>3, <4>1, <4>2 DEF InRatio
        <5>2. InRatio(m, n, One, -e)
          BY <5>1, CrossPowers
        <5> QED
          BY <5>2 DEF InRatio
      <4> QED
        BY <4>1, <4>3
    <3> QED
      BY <1>3, <3>2, <3>3
  <2> QED
    BY <2>1, <2>2
<1>7. Scaled(mValue) = n
  <2>1. m * O \in Nat
    BY <1>2, <1>3, Times
  <2>2. Rounded(m * O, e, "FLOAT64") = n
    BY <1>3, <1>6, <2>1, DoubleIs, RoundedSame
  <2> QED
    BY <1>1, <1>5, <2>2 DEF Scaled
<1>8. ASSUME NEW r \in Precisions, n \in Magnitudes(r) PROVE Rounded(n, 0, r) = n
  <2>1. Under(0) = 1 /\ Over(0) = 1
    BY Scale, PowFacts
  <2> QED
    BY <1>3, <1>8, <2>1, RoundedSame
<1>9. n # Inf
  BY <1>3, InfAssumption
<1>10. CASE p = "FLOAT64"
  <2>1. q = "FLOAT64" => Rounded(n, 0, q) = n
    BY <1>3, <1>8
  <2> QED
    BY <1>1, <1>7, <1>9, <1>10, <2>1 DEF Magnitude, Narrow, Precisions
<1>11. CASE p = "FLOAT32"
  <2>1. Narrow(n, "FLOAT32") = n
    BY <1>8, <1>9, <1>11 DEF Narrow
  <2>2. Rounded(n, 0, q) = n
    BY <1>3, <1>8, <1>11 DEF Precisions
  <2> QED
    BY <1>1, <1>7, <1>11, <2>1, <2>2 DEF Magnitude, Precisions
<1> QED
  BY <1>10, <1>11 DEF Precisions

\* For every choice of the precisions: a floating point number, the least ones and both
\* zeros too, is put together again as it was, and where it is read with fewer bits it is
\* the nearest that there is (tokens.hpp:160-214).
THEOREM FloatTheorem == NumericSpec => []FloatReadsBack
<1>1. NumInv => FloatReadsBack
  <2> SUFFICES ASSUME NumInv, Answered({"float"}, "float")
               PROVE  /\ answered.answer.negative = made.negative
                      /\ made.magnitude \in Magnitudes(answered.as) =>
                            answered.answer.magnitude = made.magnitude
                      /\ Nearest(made.magnitude, 0, answered.answer.magnitude, answered.as)
    BY DEF FloatReadsBack
  <2>1. answered # None /\ made.by = "float" /\ answered.accessor = "float"
    BY DEF Answered
  <2>2. made # None /\ answered.as \in Precisions /\ answered.answer = AsFloat(mValue, answered.as)
    BY <2>1, AnsweredAs
  <2>3. PICK p \in Precisions, negative \in BOOLEAN :
            \E n \in Magnitudes(p) : FloatHeld(p, negative, n)
    BY <2>1, <2>2, HeldBy
  <2>4. PICK n \in Magnitudes(p) : FloatHeld(p, negative, n)
    BY <2>3
  <2>5. /\ made.magnitude = n /\ made.negative = negative
        /\ mValue.alternative = "FloatConst" /\ mValue.mNegative = negative
    BY <2>4 DEF FloatHeld
  <2>6. n \in Nat /\ 0 \in Int
    BY MagnitudeIs
  <2>7. /\ answered.answer.negative = negative
        /\ answered.answer.magnitude = Rounded(n, 0, answered.as)
    BY <2>2, <2>4, <2>5, FloatRead DEF AsFloat
  <2>8. Nearest(n, 0, Rounded(n, 0, answered.as), answered.as)
    BY <2>2, <2>6, RoundedNearest
  <2>9. n \in Magnitudes(answered.as) => Rounded(n, 0, answered.as) = n
    <3>1. Under(0) = 1 /\ Over(0) = 1
      BY Scale, PowFacts
    <3> QED
      BY <2>2, <2>6, <3>1, RoundedSame
  <2> QED
    BY <2>5, <2>7, <2>8, <2>9
<1> QED
  BY <1>1, NumInvHolds, PTL

\* For every choice of the widths and precisions: read as an integer, a floating point
\* number loses its fraction and nothing else, if the type can hold what is left
\* (tokens.hpp:502-655).
THEOREM TruncatesTheorem == NumericSpec => []FloatTruncates
<1>1. NumInv => FloatTruncates
  <2> SUFFICES ASSUME NumInv, Answered({"float"}, "int")
               PROVE  LET whole == made.magnitude \div Pow2[One]
                          x == IF made.negative THEN -whole ELSE whole
                      IN  x \in ValuesOf(answered.as) => answered.answer = x
    BY DEF FloatTruncates
  <2>1. answered # None /\ made.by = "float" /\ answered.accessor = "int"
    BY DEF Answered
  <2>2. made # None /\ answered.answer = AsInt(mValue, answered.as)
    BY <2>1, AnsweredAs
  <2>3. PICK p \in Precisions, negative \in BOOLEAN :
            \E n \in Magnitudes(p) : FloatHeld(p, negative, n)
    BY <2>1, <2>2, HeldBy
  <2>4. PICK n \in Magnitudes(p) : FloatHeld(p, negative, n)
    BY <2>3
  <2>5. /\ made.magnitude = n /\ made.negative = negative
        /\ mValue.alternative = "FloatConst" /\ mValue.mNegative = negative
    BY <2>4 DEF FloatHeld
  <2>6. Magnitude(mValue, "FLOAT64") = n /\ n # Inf
    <3>1. n \in Nat /\ n \in Magnitudes("FLOAT64") /\ Under(0) = 1 /\ Over(0) = 1 /\ 0 \in Int
      BY MagnitudeIs, FloatsAreDoubles, Scale, PowFacts DEF Precisions
    <3>2. Rounded(n, 0, "FLOAT64") = n
      BY <3>1, DoubleIs, RoundedSame
    <3> QED
      BY <2>4, <3>1, <3>2, DoubleIs, FloatRead, InfAssumption
  <2>7. Truncated(mValue) = n \div Pow2[One]
    BY <2>6 DEF Truncated
  <2> QED
    BY <2>2, <2>5, <2>7 DEF AsInt
<1> QED
  BY <1>1, NumInvHolds, PTL

-----------------------------------------------------------------------------
(* Scientific notation                                                      *)

\* A finite number that is rounded keeps its side of every magnitude, and so does one
\* that was rounded to Inf before.
LEMMA NarrowBetween ==
    ASSUME NEW n \in Nat \cup {Inf}, NEW p \in Precisions, NEW v \in Magnitudes(p)
    PROVE  /\ n # Inf /\ n <= v => Narrow(n, p) # Inf /\ Narrow(n, p) \in Nat /\ Narrow(n, p) <= v
           /\ n = Inf \/ n >= v => Narrow(n, p) = Inf \/ (Narrow(n, p) \in Nat /\ Narrow(n, p) >= v)
<1>1. CASE n = Inf
  BY <1>1 DEF Narrow
<1>2. CASE n # Inf
  <2>1. n \in Nat /\ v \in Nat /\ 0 \in Int /\ Under(0) = 1 /\ Over(0) = 1
    BY <1>2, MagnitudeIs, Scale, PowFacts
  <2>2. n * Over(0) = n /\ v * Under(0) = v
    BY <2>1
  <2>3. Narrow(n, p) = Rounded(n, 0, p)
    BY <1>2 DEF Narrow
  <2> QED
    BY <1>2, <2>1, <2>2, <2>3, RoundedBetween
<1> QED
  BY <1>1, <1>2

LEMMA NarrowType ==
    ASSUME NEW n \in Nat \cup {Inf}, NEW p \in Precisions
    PROVE  Narrow(n, p) \in Magnitudes(p) \cup {Inf}
<1>1. CASE n = Inf
  BY <1>1 DEF Narrow
<1>2. CASE n # Inf
  <2>1. n \in Nat /\ 0 \in Int
    BY <1>2
  <2> QED
    BY <1>2, <2>1, RoundedType DEF Narrow
<1> QED
  BY <1>1, <1>2

\* Ones in units: the exponent counts the ones.
LEMMA OnesInUnits ==
    ASSUME NEW e \in Int
    PROVE  \E c \in Nat : /\ c >= 1
                          /\ Under(e) = c * Under(e + One)
                          /\ Pow2[One] * Over(e) = c * Over(e + One)
<1>1. One \in Nat /\ e + One \in Int
  BY DoubleIs
<1>2. CASE e >= 0
  <2>1. e \in Nat /\ e + One \in Nat /\ One + e = e + One
    BY <1>1, <1>2
  <2>2. Under(e) = 1 /\ Under(e + One) = 1 /\ Over(e) = Pow2[e] /\ Over(e + One) = Pow2[e + One]
    BY <1>1, <1>2, <2>1, Scale
  <2>3. Pow2[One + e] = Pow2[One] * Pow2[e] /\ Pow2[One + e] \in Nat
    BY <1>1, <2>1, PowAdd, PowPos
  <2>4. Under(e) = 1 * Under(e + One) /\ Pow2[One] * Over(e) = 1 * Over(e + One)
    BY <2>1, <2>2, <2>3
  <2> QED
    BY <2>4
<1>3. CASE e < 0 /\ e + One >= 0
  <2>1. -e \in Nat /\ e + One \in Nat /\ (-e) + (e + One) = One /\ e <= 0 /\ -e \in Int
    BY <1>1, <1>3
  <2>2. Under(e) = Pow2[-e] /\ Under(e + One) = 1 /\ Over(e) = 1 /\ Over(e + One) = Pow2[e + One]
    BY <1>1, <1>3, <2>1, Scale
  <2>3. Pow2[One] = Pow2[-e] * Pow2[e + One] /\ Pow2[-e] \in Nat /\ Pow2[-e] >= 1 /\ Pow2[One] \in Nat
    <3>1. Pow2[(-e) + (e + One)] = Pow2[-e] * Pow2[e + One]
      BY <2>1, PowAdd
    <3> QED
      BY <1>1, <2>1, <3>1, PowPos
  <2>4. Under(e) = Pow2[-e] * Under(e + One) /\ Pow2[One] * Over(e) = Pow2[-e] * Over(e + One)
    BY <2>2, <2>3
  <2> QED
    BY <2>3, <2>4
<1>4. CASE e + One < 0
  <2>1. -e \in Nat /\ -(e + One) \in Nat /\ One + (-(e + One)) = -e /\ e <= 0 /\ e + One <= 0
    BY <1>1, <1>4
  <2>2. /\ Under(e) = Pow2[-e] /\ Under(e + One) = Pow2[-(e + One)]
        /\ Over(e) = 1 /\ Over(e + One) = 1
    BY <1>1, <2>1, Scale
  <2>3. Pow2[-e] = Pow2[One] * Pow2[-(e + One)] /\ Pow2[One] \in Nat /\ Pow2[One] >= 1
    <3>1. Pow2[One + (-(e + One))] = Pow2[One] * Pow2[-(e + One)]
      BY <1>1, <2>1, PowAdd
    <3> QED
      BY <1>1, <2>1, <3>1, PowPos
  <2>4. Under(e) = Pow2[One] * Under(e + One) /\ Pow2[One] * Over(e) = Pow2[One] * Over(e + One)
    BY <2>2, <2>3
  <2> QED
    BY <2>3, <2>4
<1> QED
  BY <1>1, <1>2, <1>3, <1>4

\* The mantissa converted to a double, which is finite.
First(m) == Rounded(m, One, "FLOAT64")

LEMMA FirstIs ==
    ASSUME NEW m \in Nat, m < Pow2[Width64]
    PROVE  /\ First(m) \in Nat /\ First(m) < Pow2[Top64]
           /\ m * Pow2[One] \in Nat /\ m * Pow2[One] < Pow2[Top64]
           /\ \A v \in Magnitudes("FLOAT64") :
                 /\ v >= m * Pow2[One] => First(m) <= v
                 /\ v <= m * Pow2[One] => First(m) >= v
<1> DEFINE N == m * Pow2[One]
           W == Pow2[Width64]
           O == Pow2[One]
           T == Pow2[Top64]
<1>1. "FLOAT64" \in Precisions /\ Top("FLOAT64") = Top64 /\ One \in Nat /\ One \in Int /\ Width64 \in Nat
  BY DoubleIs
<1>2. W \in Nat /\ W >= 1 /\ O \in Nat /\ O >= 1 /\ T \in Nat
  BY <1>1, DoubleIs, PowPos
<1>3. W * O \in Magnitudes("FLOAT64") /\ W * O \in Nat /\ W * O < T
  <2>1. Width64 + One \in Nat /\ Width64 + One < Top64
    BY SizesAssumption
  <2>2. Pow2[Width64 + One] = W * O /\ 2 * Pow2[Width64 + One] <= T
    BY <1>1, <2>1, DoubleIs, PowAdd, PowStrict
  <2>3. W * O \in Nat /\ W * O >= 1
    BY <1>1, <2>1, <2>2, PowPos
  <2>4. W * O < T
    BY <1>2, <2>2, <2>3
  <2>5. 1 * Pow2[Width64 + One] = W * O
    BY <2>2, <2>3
  <2>6. 1 <= Pow2[Bits64] /\ Width64 + One >= 0
    BY <1>1, <2>1, DoubleIs, PowPos
  <2>7. 1 * Pow2[Width64 + One] \in Magnitudes("FLOAT64")
    BY <2>1, <2>4, <2>5, <2>6, DoubleIs, IsMagnitude
  <2> QED
    BY <2>3, <2>4, <2>5, <2>7
<1>4. N \in Nat /\ N <= W * O
  BY <1>2, Times
<1>5. Under(One) = 1 /\ Over(One) = O
  BY <1>1, Scale
<1>6. ASSUME NEW v \in Magnitudes("FLOAT64")
      PROVE  /\ v >= N => First(m) \in Nat /\ First(m) # Inf /\ First(m) <= v
             /\ v <= N => First(m) = Inf \/ (First(m) \in Nat /\ First(m) >= v)
  <2>1. v \in Nat /\ v * Under(One) = v /\ m * Over(One) = N
    <3>1. v \in Nat
      BY <1>1, MagnitudeIs
    <3> QED
      BY <1>5, <3>1
  <2> QED
    BY <1>1, <2>1, RoundedBetween DEF First
<1>7. First(m) \in Nat /\ First(m) # Inf /\ First(m) <= W * O
  BY <1>3, <1>4, <1>6
<1> HIDE DEF W, O, T, N
<1>8. First(m) < T /\ N < T
  BY <1>2, <1>3, <1>4, <1>7
<1> QED
  BY <1>4, <1>6, <1>7, <1>8 DEF N, O, T

\* The mantissa's rounding puts it on no other side of a double v: where v / 2^e is no
\* double, it is a fraction, or too large.
LEMMA FirstKeepsSide ==
    ASSUME NEW m \in Nat, m < Pow2[Width64], NEW e \in Int, NEW v \in Magnitudes("FLOAT64")
    PROVE  LET exact == (m * Pow2[One]) * Over(e)
           IN  /\ v * Under(e) > exact => v * Under(e) >= First(m) * Over(e)
               /\ v * Under(e) < exact => v * Under(e) <= First(m) * Over(e)
<1> DEFINE N == m * Pow2[One]
           F == First(m)
           T == Pow2[Top64]
           B == Pow2[Bits64]
<1>1. /\ F \in Nat /\ F < T /\ N \in Nat /\ N < T
      /\ \A w \in Magnitudes("FLOAT64") : (w >= N => F <= w) /\ (w <= N => F >= w)
  BY FirstIs
<1>2. /\ "FLOAT64" \in Precisions /\ Top("FLOAT64") = Top64 /\ Bits("FLOAT64") = Bits64
      /\ Least("FLOAT64") = 0
      /\ T \in Nat /\ B \in Nat /\ B >= 1
  BY DoubleIs, PowPos
<1>3. PICK k, g \in Nat : k < B /\ v = k * Pow2[g]
  BY <1>2, MagnitudeIs
<1>4. v \in Nat /\ v < T
  BY <1>2, MagnitudeIs
<1> HIDE DEF N, F, T, B
\* A number of at most Bits64 bits, in place, that is less than 2^Top64 is a double.
<1>5. ASSUME NEW h \in Nat, k * Pow2[h] < T PROVE k * Pow2[h] \in Magnitudes("FLOAT64")
  <2>1. k <= Pow2[Bits("FLOAT64")] /\ h >= Least("FLOAT64") /\ k * Pow2[h] < Pow2[Top("FLOAT64")]
    BY <1>2, <1>3, <1>5 DEF B, T
  <2> QED
    BY <1>2, <2>1, IsMagnitude
<1>6. CASE e <= 0
  <2>1. -e \in Nat /\ Over(e) = 1 /\ Under(e) = Pow2[-e] /\ Pow2[-e] \in Nat
    BY <1>6, Scale, PowPos
  <2> DEFINE y == v * Pow2[-e]
  <2>2. y \in Nat /\ y = k * Pow2[g + (-e)] /\ g + (-e) \in Nat
    <3>1. Pow2[g + (-e)] = Pow2[g] * Pow2[-e] /\ Pow2[g] \in Nat /\ g + (-e) \in Nat
      <4>1. \A d \in Nat : Pow2[g + d] = Pow2[g] * Pow2[d] /\ g + d \in Nat
        BY PowAdd
      <4> QED
        BY <2>1, <4>1, PowPos, Zenon
    <3>2. (k * Pow2[g]) * Pow2[-e] = k * (Pow2[g] * Pow2[-e])
      BY <2>1, <3>1, Times
    <3> QED
      BY <1>3, <1>4, <2>1, <3>1, <3>2, Times
  <2>3. y < T => y \in Magnitudes("FLOAT64")
    BY <1>5, <2>2
  <2> HIDE DEF y
  <2>4. (y > N => y >= F) /\ (y < N => y <= F)
    BY <1>1, <1>2, <2>2, <2>3
  <2>5. N * Over(e) = N /\ F * Over(e) = F /\ v * Under(e) = y
    BY <1>1, <2>1 DEF y
  <2> QED
    BY <2>4, <2>5 DEF N, F
<1>7. CASE e > 0
  <2> DEFINE E == Pow2[e]
  <2>1. e \in Nat /\ Over(e) = E /\ Under(e) = 1 /\ E \in Nat /\ E >= 1
    BY <1>7, Scale, PowPos
  <2>2. (v > N * E => v >= F * E) /\ (v < N * E => v <= F * E)
    <3>1. CASE g >= e
      <4> DEFINE y == k * Pow2[g - e]
      <4>1. g - e \in Nat /\ Pow2[g] = Pow2[g - e] * E /\ Pow2[g - e] \in Nat
        BY <2>1, <3>1, PowSplit, PowPos
      <4>2. y \in Nat
        BY <4>1, Times
      <4> HIDE DEF E
      <4>3. v = y * E
        BY <1>3, <2>1, <4>1, Times
      <4>4. y <= v
        <5>1. 1 * y <= E * y
          BY <2>1, <4>2, Times
        <5> QED
          BY <2>1, <4>2, <4>3, <5>1, Times
      <4>5. y \in Magnitudes("FLOAT64")
        BY <1>2, <1>4, <1>5, <4>1, <4>2, <4>4
      <4> HIDE DEF y
      <4>6. (y >= N => F * E <= y * E) /\ (y <= N => y * E <= F * E)
        BY <1>1, <2>1, <4>2, <4>5, Times
      <4>7. (y < N => y * E < N * E) /\ (N < y => N * E < y * E)
        BY <1>1, <2>1, <4>2, Times
      <4>8. y * E \in Nat /\ N * E \in Nat /\ F * E \in Nat
        BY <1>1, <2>1, <4>2, Times
      <4> QED
        BY <1>1, <4>2, <4>3, <4>6, <4>7, <4>8
    <3>2. CASE g < e
      <4>1. v <= B * E
        <5>1. Pow2[g] <= E /\ Pow2[g] \in Nat
          BY <2>1, <3>2, PowMono, PowPos
        <5> HIDE DEF E
        <5>2. k * Pow2[g] <= B * Pow2[g] /\ Pow2[g] * B <= E * B
          BY <1>2, <1>3, <2>1, <5>1, Times
        <5>3. Pow2[g] * B = B * Pow2[g] /\ E * B = B * E /\ k * Pow2[g] \in Nat /\ B * Pow2[g] \in Nat /\ B * E \in Nat
          BY <1>2, <2>1, <5>1, Times
        <5> QED
          BY <1>3, <5>2, <5>3
      <4> HIDE DEF E
      <4>2. CASE N <= B
        <5>1. N \in Magnitudes("FLOAT64")
          BY <1>1, <4>2, WholeDouble DEF B
        <5>2. F = N
          BY <1>1, <5>1
        <5>3. N * E \in Nat
          BY <1>1, <2>1, Times
        <5> QED
          BY <1>4, <5>2, <5>3
      <4>3. CASE N > B
        <5>1. B \in Magnitudes("FLOAT64")
          BY <1>2, WholeDouble DEF B
        <5>2. F >= B
          BY <1>1, <1>2, <4>3, <5>1
        <5>3. B * E <= F * E /\ B * E <= N * E
          BY <1>1, <1>2, <2>1, <4>3, <5>2, Times
        <5>4. B * E \in Nat /\ F * E \in Nat /\ N * E \in Nat
          BY <1>1, <1>2, <2>1, Times
        <5> QED
          BY <1>4, <4>1, <5>3, <5>4
      <4> QED
        BY <1>1, <1>2, <4>2, <4>3
    <3> QED
      BY <2>1, <3>1, <3>2
  <2>3. v * Under(e) = v
    BY <1>4, <2>1
  <2> QED
    BY <2>1, <2>2, <2>3 DEF N, F
<1> QED
  BY <1>6, <1>7

\* ldexp() of it: a double on the same side of v, or Inf.
LEMMA ScaledBetween ==
    ASSUME NEW m \in Nat, m < Pow2[Width64], NEW e \in Int, NEW v \in Magnitudes("FLOAT64")
    PROVE  LET given == Rounded(First(m), e, "FLOAT64")
           IN  /\ v * Under(e + One) > m * Over(e + One) => given \in Nat /\ given # Inf /\ given <= v
               /\ v * Under(e + One) < m * Over(e + One) => given = Inf \/ (given \in Nat /\ given >= v)
<1> DEFINE O == Pow2[One]
           u == Under(e)
           o == Over(e)
           u1 == Under(e + One)
           o1 == Over(e + One)
<1>1. PICK c \in Nat : c >= 1 /\ u = c * u1 /\ O * o = c * o1
  BY OnesInUnits
<1>2. /\ v \in Nat /\ O \in Nat /\ u \in Nat /\ o \in Nat /\ u1 \in Nat /\ o1 \in Nat
      /\ First(m) \in Nat /\ "FLOAT64" \in Precisions /\ e + One \in Int
  BY DoubleIs, MagnitudeIs, PowPos, Scale, FirstIs
<1>3. /\ v * u > (m * O) * o => v * u >= First(m) * o
      /\ v * u < (m * O) * o => v * u <= First(m) * o
  BY FirstKeepsSide
<1> HIDE DEF O, u, o, u1, o1
<1>4. v * u = (v * u1) * c /\ (m * O) * o = (m * o1) * c
  <2>1. v * (c * u1) = (v * u1) * c
    BY <1>2
  <2>2. (m * O) * o = m * (O * o) /\ m * (c * o1) = (m * o1) * c
    BY <1>2, Times
  <2> QED
    BY <1>1, <2>1, <2>2
<1>5. v * u1 \in Nat /\ m * o1 \in Nat
  BY <1>2, Times
<1>6. /\ v * u1 > m * o1 => v * u > (m * O) * o
      /\ v * u1 < m * o1 => v * u < (m * O) * o
  BY <1>1, <1>4, <1>5, Times
<1>7. LET given == Rounded(First(m), e, "FLOAT64")
      IN  /\ v * u >= First(m) * o => given \in Nat /\ given # Inf /\ given <= v
          /\ v * u <= First(m) * o => given = Inf \/ (given \in Nat /\ given >= v)
  BY <1>2, RoundedBetween DEF u, o
<1> QED
  BY <1>3, <1>6, <1>7 DEF u1, o1

\* For every choice of the widths, precisions and exponents: a constant in scientific
\* notation, though it is rounded up to three times, never jumps over a number that the
\* precision asked for has: it is one of the two next to the exact value, or that value
\* (tokens.hpp:168-206).
THEOREM ScientificTheorem == NumericSpec => []ScientificIsNext
<1>1. NumInv => ScientificIsNext
  <2> SUFFICES ASSUME NumInv, Answered({"scientific"}, "float")
               PROVE  ScientificIsNext
    BY DEF ScientificIsNext
  <2>1. answered # None /\ made.by = "scientific" /\ answered.accessor = "float"
    BY DEF Answered
  <2>2. made # None /\ answered.as \in Precisions /\ answered.answer = AsFloat(mValue, answered.as)
    BY <2>1, AnsweredAs
  <2>3. PICK m \in 0 .. Pow2[Width64] - 1, e \in Exponents, negative \in BOOLEAN, p \in Precisions :
            ScientificHeld(m, e, negative, p)
    BY <2>1, <2>2, HeldBy
  <2>4. /\ made.mantissa = m /\ made.exponent = e /\ made.negative = negative
        /\ mValue.alternative = "FloatConst" /\ mValue.mNegative = negative
        /\ mValue.mMantissa = m /\ mValue.mExponent = e /\ mValue.mPrecision = p
    BY <2>3 DEF ScientificHeld
  <2> DEFINE as == answered.as
             G == Rounded(First(m), e, "FLOAT64")
             stored == IF p = "FLOAT64" THEN G ELSE Narrow(G, "FLOAT32")
             given == IF as = "FLOAT32" THEN Narrow(stored, "FLOAT32") ELSE stored
  <2>5. answered.answer.negative = negative /\ answered.answer.magnitude = given
    <3>1. Scaled(mValue) = G
      BY <2>4 DEF Scaled, First
    <3>2. Magnitude(mValue, as) = given
      BY <2>4, <3>1 DEF Magnitude
    <3> QED
      BY <2>2, <2>4, <3>2 DEF AsFloat
  <2>6. m \in Nat /\ m < Pow2[Width64] /\ e \in Int /\ p \in Precisions /\ as \in Precisions
    BY <2>2, ExponentsAssumption, DoubleIs, PowPos
  <2>7. "FLOAT64" \in Precisions /\ "FLOAT32" \in Precisions /\ First(m) \in Nat
    BY <2>6, DoubleIs, FirstIs
  <2> HIDE DEF as
  <2>8. G \in Magnitudes("FLOAT64") \cup {Inf}
    BY <2>6, <2>7, RoundedType
  <2>9. \A r \in Precisions : Magnitudes(r) \subseteq Nat
    BY MagnitudeIs
  <2> HIDE DEF G
  <2>10. stored \in Magnitudes(p) \cup {Inf}
    <3>1. G \in Nat \cup {Inf}
      BY <2>7, <2>8, <2>9
    <3> QED
      BY <2>6, <2>7, <2>8, <3>1, NarrowType DEF Precisions
  <2>11. given \in Magnitudes(as) \cup {Inf}
    <3>1. stored \in Nat \cup {Inf}
      BY <2>6, <2>9, <2>10
    <3>2. CASE as = "FLOAT32"
      <4> HIDE DEF stored
      <4> QED
        BY <2>7, <3>1, <3>2, NarrowType
    <3>3. CASE as = "FLOAT64"
      <4> HIDE DEF stored
      <4>1. given = stored
        BY <3>3
      <4> QED
        BY <2>6, <2>10, <3>3, <4>1, FloatsAreDoubles DEF Precisions
    <3> QED
      BY <2>6, <3>2, <3>3 DEF Precisions
  <2> DEFINE shift == e + One
             exact == m * Over(shift)
  <2>12. ASSUME NEW v \in Magnitudes(p) \cap Magnitudes(as)
         PROVE  /\ v * Under(shift) > exact => given # Inf /\ given <= v
                /\ v * Under(shift) < exact => given = Inf \/ given >= v
    <3>1. v \in Magnitudes("FLOAT64") /\ (p = "FLOAT32" \/ as = "FLOAT32" => v \in Magnitudes("FLOAT32"))
      BY <2>6, FloatsAreDoubles DEF Precisions
    <3>2. /\ v * Under(shift) > exact => G \in Nat /\ G # Inf /\ G <= v
          /\ v * Under(shift) < exact => G = Inf \/ (G \in Nat /\ G >= v)
      BY <2>6, <3>1, ScaledBetween DEF G
    <3>3. G \in Nat \cup {Inf}
      BY <2>7, <2>8, <2>9
    <3>4. stored \in Nat \cup {Inf}
      BY <2>6, <2>9, <2>10
    <3>5. /\ G # Inf /\ G <= v => stored # Inf /\ stored <= v
          /\ G = Inf \/ G >= v => stored = Inf \/ stored >= v
      <4>1. CASE p = "FLOAT64"
        BY <4>1
      <4>2. CASE p # "FLOAT64"
        <5>1. p = "FLOAT32" /\ v \in Magnitudes("FLOAT32")
          BY <2>6, <3>1, <4>2 DEF Precisions
        <5>2. stored = Narrow(G, "FLOAT32")
          BY <4>2
        <5> HIDE DEF stored
        <5> QED
          BY <2>7, <3>3, <5>1, <5>2, NarrowBetween
      <4> QED
        BY <4>1, <4>2
    <3> HIDE DEF stored
    <3>6. /\ stored # Inf /\ stored <= v => given # Inf /\ given <= v
          /\ stored = Inf \/ stored >= v => given = Inf \/ given >= v
      <4>1. CASE as = "FLOAT32"
        <5>1. given = Narrow(stored, "FLOAT32") /\ v \in Magnitudes("FLOAT32")
          BY <3>1, <4>1
        <5> HIDE DEF given
        <5> QED
          BY <2>7, <3>4, <5>1, NarrowBetween
      <4>2. CASE as # "FLOAT32"
        BY <4>2
      <4> QED
        BY <4>1, <4>2
    <3> QED
      BY <3>2, <3>5, <3>6
  <2> HIDE DEF given
  <2> QED
    BY <2>4, <2>5, <2>11, <2>12 DEF ScientificIsNext, Over, Under, as
<1> QED
  BY <1>1, NumInvHolds, PTL
=============================================================================
