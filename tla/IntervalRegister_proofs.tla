------------------------ MODULE IntervalRegister_proofs ------------------------
(***************************************************************************)
(* The interval operators, of IntervalValue and of Range, contain the      *)
(* numbers the program computes, at every width of the numbers and of the  *)
(* ints some operators compute in, where the operators do not go wrong.    *)
(***************************************************************************)
EXTENDS IntervalRegister, FiniteSetTheorems, WellFoundedInduction, TLAPS

-----------------------------------------------------------------------------
(* Induction, as a set of numbers, and recursion on numbers. *)

Before == {p \in Nat \X Nat : p[1] < p[2]}

\* A set of numbers that holds 0 and every successor has them all.
LEMMA Inductive ==
  ASSUME NEW T, 0 \in T, \A n \in Nat : n \in T => n + 1 \in T
  PROVE  Nat \subseteq T
<1> SUFFICES ASSUME Nat \ T # {} PROVE FALSE
  OBVIOUS
<1>1. IsWellFoundedOn(Before, Nat)
  BY NatLessThanWellFounded DEF OpToRel, Before
<1>2. PICK m \in Nat \ T : \A n \in Nat \ T : ~ (<<n, m>> \in Before)
  BY <1>1, WFMin
<1>3. m # 0 /\ m - 1 \in Nat /\ m - 1 < m
  BY <1>2
<1>4. m - 1 \in T
  BY <1>2, <1>3 DEF Before
<1> QED
  BY <1>2, <1>3, <1>4

\* The values up to n of the function that starts with x and goes on by step.
UpTo(x, step, n) ==
  {f \in [0 .. n -> Int] : f[0] = x /\ \A k \in 0 .. n - 1 : f[k + 1] = step[<<k, f[k]>>]}

LEMMA RecursionExists ==
  ASSUME NEW x \in Int, NEW step \in [Nat \X Int -> Int]
  PROVE  \E g \in [Nat -> Int] : g[0] = x /\ \A k \in Nat : g[k + 1] = step[<<k, g[k]>>]
<1> DEFINE Partial(n) == UpTo(x, step, n)
           T == {n \in Nat : Partial(n) # {}}
<1>1. Nat \subseteq T
  <2>1. 0 \in T
    <3>1. [k \in 0 .. 0 |-> x] \in Partial(0)
      BY DEF UpTo
    <3> QED
      BY <3>1
  <2>2. ASSUME NEW n \in Nat, n \in T PROVE n + 1 \in T
    <3>1. PICK f : f \in Partial(n)
      BY <2>2
    <3>2. f \in [0 .. n -> Int] /\ f[0] = x /\ \A k \in 0 .. n - 1 : f[k + 1] = step[<<k, f[k]>>]
      BY <3>1 DEF UpTo
    <3>3. PICK y \in Int : y = step[<<n, f[n]>>]
      BY <3>2
    <3>4. PICK h : h = [k \in 0 .. n + 1 |-> IF k = n + 1 THEN y ELSE f[k]]
      OBVIOUS
    <3>5. \A k \in 0 .. n : h[k] = f[k]
      BY <3>4, <2>2
    <3>6. h[n + 1] = y
      BY <3>4
    <3>7. h \in [0 .. n + 1 -> Int]
      BY <3>2, <3>4
    <3>8. ASSUME NEW k \in 0 .. n PROVE h[k + 1] = step[<<k, h[k]>>]
      <4>1. CASE k = n
        BY <4>1, <3>3, <3>5, <3>6
      <4>2. CASE k # n
        <5>1. k \in 0 .. n - 1 /\ k + 1 \in 0 .. n
          BY <4>2
        <5> QED
          BY <5>1, <3>2, <3>5
      <4> QED
        BY <4>1, <4>2
    <3>9. (n + 1) - 1 = n /\ 0 \in 0 .. n
      OBVIOUS
    <3>10. h[0] = x
      BY <3>2, <3>5, <3>9
    <3> HIDE <3>4
    <3>11. h \in Partial(n + 1)
      BY <3>7, <3>8, <3>9, <3>10 DEF UpTo
    <3> QED
      BY <3>11
  <2> HIDE DEF T
  <2> QED
    BY <2>1, <2>2, Inductive
<1>2. ASSUME NEW m \in Nat, NEW n \in Nat, NEW f \in Partial(m), NEW h \in Partial(n), m <= n
      PROVE  \A k \in 0 .. m : f[k] = h[k]
  <2> DEFINE S == {k \in Nat : k <= m => f[k] = h[k]}
  <2>0. /\ f[0] = x /\ \A k \in 0 .. m - 1 : f[k + 1] = step[<<k, f[k]>>]
        /\ h[0] = x /\ \A k \in 0 .. n - 1 : h[k + 1] = step[<<k, h[k]>>]
    BY DEF UpTo
  <2>1. 0 \in S
    BY <2>0
  <2>2. ASSUME NEW k \in Nat, k \in S PROVE k + 1 \in S
    <3> SUFFICES ASSUME k + 1 <= m PROVE f[k + 1] = h[k + 1]
      OBVIOUS
    <3>1. k \in 0 .. m - 1 /\ k \in 0 .. n - 1 /\ k <= m
      BY <1>2
    <3> QED
      BY <3>1, <2>0, <2>2
  <2>3. Nat \subseteq S
    <3> HIDE DEF S
    <3> QED
      BY <2>1, <2>2, Inductive
  <2> QED
    BY <2>3
<1>3. PICK run : run = [n \in Nat |-> CHOOSE f \in Partial(n) : TRUE]
  OBVIOUS
<1>4. \A n \in Nat : run[n] \in Partial(n)
  BY <1>1, <1>3
<1>5. PICK g : g = [n \in Nat |-> run[n][n]]
  OBVIOUS
<1>6. \A n \in Nat : run[n] \in [0 .. n -> Int] /\ g[n] = run[n][n]
  BY <1>4, <1>5 DEF UpTo
<1>7. g \in [Nat -> Int]
  <2>1. \A n \in Nat : run[n][n] \in Int
    BY <1>6
  <2> QED
    BY <1>5, <2>1
<1>8. g[0] = x
  BY <1>4, <1>6 DEF UpTo
<1>9. ASSUME NEW k \in Nat PROVE g[k + 1] = step[<<k, g[k]>>]
  <2>1. run[k] \in Partial(k) /\ run[k + 1] \in Partial(k + 1) /\ k <= k + 1 /\ k \in 0 .. k
    BY <1>4
  <2>2. run[k][k] = run[k + 1][k]
    BY <1>2, <2>1
  <2>3. run[k + 1][k + 1] = step[<<k, run[k + 1][k]>>]
    <3>1. k \in 0 .. (k + 1) - 1
      OBVIOUS
    <3>2. PICK h : h = run[k + 1]
      OBVIOUS
    <3>3. h \in UpTo(x, step, k + 1)
      BY <2>1, <3>2
    <3>4. h[k + 1] = step[<<k, h[k]>>]
      BY <3>1, <3>3 DEF UpTo
    <3> QED
      BY <3>2, <3>4
  <2>4. g[k] = run[k][k] /\ g[k + 1] = run[k + 1][k + 1]
    BY <1>6
  <2> QED
    BY <2>2, <2>3, <2>4
<1> QED
  BY <1>7, <1>8, <1>9

-----------------------------------------------------------------------------
(* Powers of two. *)

LEMMA Pow2Def == Pow2 \in [Nat -> Int] /\ Pow2[0] = 1 /\ \A n \in Nat : Pow2[n + 1] = 2 * Pow2[n]
<1>1. PICK step : step = [p \in Nat \X Int |-> 2 * p[2]]
  OBVIOUS
<1>2. step \in [Nat \X Int -> Int] /\ \A k \in Nat, m \in Int : step[<<k, m>>] = 2 * m
  BY <1>1
<1>3. PICK g \in [Nat -> Int] : g[0] = 1 /\ \A k \in Nat : g[k + 1] = step[<<k, g[k]>>]
  <2>1. 1 \in Int
    OBVIOUS
  <2> HIDE <1>1
  <2> QED
    BY <2>1, <1>2, RecursionExists
<1>4. \A k \in Nat : g[k + 1] = 2 * g[k]
  BY <1>2, <1>3
<1>5. \A n \in Nat : g[n] = IF n = 0 THEN 1 ELSE 2 * g[n - 1]
  <2>1. ASSUME NEW n \in Nat, n # 0 PROVE g[n] = 2 * g[n - 1]
    <3>1. PICK k \in Nat : k = n - 1 /\ n = k + 1
      BY <2>1
    <3> QED
      BY <1>4, <3>1
  <2> QED
    BY <1>3, <2>1
<1>6. g = [n \in Nat |-> IF n = 0 THEN 1 ELSE 2 * g[n - 1]]
  BY <1>5
<1>7. Pow2 = [n \in Nat |-> IF n = 0 THEN 1 ELSE 2 * Pow2[n - 1]]
  BY <1>6 DEF Pow2
<1>8. Pow2[0] = 1 /\ \A n \in Nat : Pow2[n + 1] = 2 * Pow2[n]
  BY <1>7
<1>9. Pow2 \in [Nat -> Int]
  <2> DEFINE T == {n \in Nat : Pow2[n] \in Int}
  <2>1. 0 \in T /\ \A n \in Nat : n \in T => n + 1 \in T
    BY <1>8
  <2>2. Nat \subseteq T
    <3> HIDE DEF T
    <3> QED
      BY <2>1, Inductive
  <2>3. \A n \in Nat : Pow2[n] \in Int
    BY <2>2
  <2>4. PICK F : F = [n \in Nat |-> IF n = 0 THEN 1 ELSE 2 * Pow2[n - 1]]
    OBVIOUS
  <2> QED
    BY <1>7, <2>3, <2>4
<1> QED
  BY <1>8, <1>9

LEMMA Pow2Positive == \A n \in Nat : Pow2[n] \in Nat \ {0} /\ Pow2[n] >= 1
<1> DEFINE T == {n \in Nat : Pow2[n] >= 1}
<1>1. 0 \in T /\ \A n \in Nat : n \in T => n + 1 \in T
  BY Pow2Def
<1>2. Nat \subseteq T
  <2> HIDE DEF T
  <2> QED
    BY <1>1, Inductive
<1> QED
  BY <1>2, Pow2Def

LEMMA Pow2Grows == \A m, n \in Nat : m <= n => Pow2[m] <= Pow2[n]
<1> SUFFICES ASSUME NEW m \in Nat PROVE \A n \in Nat : m <= n => Pow2[m] <= Pow2[n]
  OBVIOUS
<1> DEFINE T == {n \in Nat : m <= n => Pow2[m] <= Pow2[n]}
<1>1. 0 \in T
  <2>1. m <= 0 => m = 0
    OBVIOUS
  <2> QED
    BY <2>1, Pow2Def
<1>2. ASSUME NEW n \in Nat, n \in T PROVE n + 1 \in T
  <2>1. Pow2[n + 1] = 2 * Pow2[n] /\ Pow2[n] >= 1 /\ Pow2[n] \in Int
    BY Pow2Def, Pow2Positive
  <2>2. CASE m <= n
    BY <1>2, <2>1, <2>2, Pow2Def
  <2>3. CASE ~ (m <= n)
    BY <2>3, Pow2Def
  <2> QED
    BY <2>2, <2>3
<1>3. Nat \subseteq T
  <2> HIDE DEF T
  <2> QED
    BY <1>1, <1>2, Inductive
<1> QED
  BY <1>3

-----------------------------------------------------------------------------
(* Products and quotients of integers. *)

LEMMA ProductGrows ==
  ASSUME NEW p \in Int, NEW q \in Int, NEW r \in Int, p <= q, r >= 0
  PROVE  p * r <= q * r
<1>1. (q - p) * r >= 0
  <2>1. q - p >= 0 /\ q - p \in Int
    OBVIOUS
  <2> QED
    BY <2>1
<1>2. (q - p) * r = q * r - p * r
  OBVIOUS
<1> QED
  BY <1>1, <1>2

LEMMA ProductFalls ==
  ASSUME NEW p \in Int, NEW q \in Int, NEW r \in Int, p <= q, r <= 0
  PROVE  q * r <= p * r
<1>1. PICK t \in Int : t = -r /\ t >= 0
  OBVIOUS
<1>2. p * t <= q * t
  BY <1>1, ProductGrows
<1>3. p * t = -(p * r) /\ q * t = -(q * r)
  BY <1>1
<1> QED
  BY <1>2, <1>3

\* Where a product of two numbers of two intervals lies between.
LEMMA ProductCorners ==
  ASSUME NEW a \in Int, NEW b \in Int, NEW c \in Int, NEW d \in Int,
         NEW x \in a .. b, NEW y \in c .. d
  PROVE  /\ \E p \in {a, b}, q \in {c, d} : p * q <= x * y
         /\ \E p \in {a, b}, q \in {c, d} : x * y <= p * q
<1>1. /\ \E p \in {a, b} : p * y <= x * y
      /\ \E p \in {a, b} : x * y <= p * y
  <2>1. CASE y >= 0
    <3>1. a * y <= x * y /\ x * y <= b * y
      BY <2>1, ProductGrows
    <3> QED
      BY <3>1
  <2>2. CASE y <= 0
    <3>1. b * y <= x * y /\ x * y <= a * y
      BY <2>2, ProductFalls
    <3> QED
      BY <3>1
  <2> QED
    BY <2>1, <2>2
<1>2. ASSUME NEW p \in Int
      PROVE  /\ \E q \in {c, d} : p * q <= p * y
             /\ \E q \in {c, d} : p * y <= p * q
  <2>1. CASE p >= 0
    <3>1. c * p <= y * p /\ y * p <= d * p
      BY <2>1, ProductGrows
    <3>2. c * p = p * c /\ d * p = p * d /\ y * p = p * y
      OBVIOUS
    <3> QED
      BY <3>1, <3>2
  <2>2. CASE p <= 0
    <3>1. d * p <= y * p /\ y * p <= c * p
      BY <2>2, ProductFalls
    <3>2. c * p = p * c /\ d * p = p * d /\ y * p = p * y
      OBVIOUS
    <3> QED
      BY <3>1, <3>2
  <2> QED
    BY <2>1, <2>2
<1>3. PICK p \in {a, b} : p * y <= x * y
  BY <1>1
<1>4. PICK q \in {c, d} : p * q <= p * y
  BY <1>2, <1>3
<1>5. PICK r \in {a, b} : x * y <= r * y
  BY <1>1
<1>6. PICK s \in {c, d} : r * y <= r * s
  BY <1>2, <1>5
<1>7. p * q <= x * y
  <2>1. p * q \in Int /\ p * y \in Int /\ x * y \in Int
    OBVIOUS
  <2> QED
    BY <1>3, <1>4, <2>1
<1>8. x * y <= r * s
  <2>1. r * s \in Int /\ r * y \in Int /\ x * y \in Int
    OBVIOUS
  <2> QED
    BY <1>5, <1>6, <2>1
<1> QED
  BY <1>7, <1>8

\* A division rounds down.
LEMMA Floor ==
  ASSUME NEW x \in Int, NEW n \in Nat \ {0}
  PROVE  /\ x \div n \in Int
         /\ n * (x \div n) <= x
         /\ x < n * (x \div n) + n
  OBVIOUS

\* The quotient is the only number between.
LEMMA FloorAtLeast ==
  ASSUME NEW x \in Int, NEW n \in Nat \ {0}, NEW q \in Int, n * q <= x
  PROVE  q <= x \div n
<1>1. PICK k \in Int : k = x \div n /\ x < n * k + n
  BY Floor
<1> SUFFICES ASSUME k + 1 <= q PROVE FALSE
  BY <1>1
<1>2. (k + 1) * n <= q * n
  BY ProductGrows
<1>3. (k + 1) * n = n * k + n /\ q * n = n * q
  BY <1>1
<1> QED
  BY <1>1, <1>2, <1>3

LEMMA FloorAtMost ==
  ASSUME NEW x \in Int, NEW n \in Nat \ {0}, NEW q \in Int, x < n * q + n
  PROVE  x \div n <= q
<1>1. PICK k \in Int : k = x \div n /\ n * k <= x
  BY Floor
<1> SUFFICES ASSUME q + 1 <= k PROVE FALSE
  BY <1>1
<1>2. (q + 1) * n <= k * n
  BY ProductGrows
<1>3. (q + 1) * n = n * q + n /\ k * n = n * k
  BY <1>1
<1> QED
  BY <1>1, <1>2, <1>3

LEMMA FloorGrows ==
  ASSUME NEW x \in Int, NEW z \in Int, NEW n \in Nat \ {0}, x <= z
  PROVE  x \div n <= z \div n
<1>1. PICK q \in Int : q = x \div n /\ n * q <= x
  BY Floor
<1>2. n * q <= z
  <2>1. n * q \in Int
    OBVIOUS
  <2> QED
    BY <1>1, <2>1
<1> QED
  BY <1>1, <1>2, FloorAtLeast

LEMMA FloorSign ==
  ASSUME NEW x \in Int, NEW n \in Nat \ {0}
  PROVE  /\ x >= 0 => x \div n \in 0 .. x
         /\ x < 0 => x \div n \in x .. -1
<1>1. x \div n \in Int /\ n >= 1
  BY Floor
<1>2. ASSUME x >= 0 PROVE 0 <= x \div n /\ x \div n <= x
  <2>1. 1 * x <= n * x /\ n * 0 = 0 /\ 1 * x = x /\ n * x \in Int
    BY <1>1, <1>2, ProductGrows
  <2>2. n * 0 <= x /\ x < n * x + n
    BY <1>1, <1>2, <2>1
  <2> QED
    BY <2>2, FloorAtLeast, FloorAtMost
<1>3. ASSUME x < 0 PROVE x <= x \div n /\ x \div n <= -1
  <2>1. n * x <= 1 * x /\ 1 * x = x /\ n * (-1) = -n
    BY <1>1, <1>3, ProductFalls
  <2>2. n * x <= x /\ x < n * (-1) + n
    BY <1>1, <1>3, <2>1
  <2>3. -1 \in Int
    OBVIOUS
  <2> QED
    BY <2>2, <2>3, FloorAtLeast, FloorAtMost
<1> QED
  BY <1>1, <1>2, <1>3

LEMMA FloorOfLess ==
  ASSUME NEW x \in Int, NEW n \in Nat \ {0}, 0 <= x, x < n
  PROVE  x \div n = 0
<1>1. PICK q \in Int : q = x \div n /\ q \in 0 .. x
  BY Floor, FloorSign
<1>2. x < n * 0 + n
  OBVIOUS
<1>3. q <= 0
  BY <1>1, <1>2, FloorAtMost
<1> QED
  BY <1>1, <1>3

LEMMA FloorOfMore ==
  ASSUME NEW x \in Int, NEW m \in Nat \ {0}, NEW n \in Nat \ {0}, m <= n
  PROVE  /\ x >= 0 => x \div n <= x \div m
         /\ x < 0 => x \div m <= x \div n
<1>1. ASSUME x >= 0 PROVE x \div n <= x \div m
  <2>1. PICK q \in Int : q = x \div n /\ n * q <= x /\ q >= 0
    BY <1>1, Floor, FloorSign
  <2>2. m * q <= n * q /\ m * q \in Int /\ n * q \in Int
    BY <2>1, ProductGrows
  <2>3. m * q <= x
    BY <2>1, <2>2
  <2> QED
    BY <2>1, <2>3, FloorAtLeast
<1>2. ASSUME x < 0 PROVE x \div m <= x \div n
  <2>1. PICK q \in Int : q = x \div m /\ m * q <= x /\ q <= 0
    BY <1>2, Floor, FloorSign
  <2>2. n * q <= m * q /\ m * q \in Int /\ n * q \in Int
    BY <2>1, ProductFalls
  <2>3. n * q <= x
    BY <2>1, <2>2
  <2> QED
    BY <2>1, <2>3, FloorAtLeast
<1> QED
  BY <1>1, <1>2

-----------------------------------------------------------------------------
(* Division towards zero. *)

LEMMA QuotientOfPositive ==
  ASSUME NEW x \in Int, NEW y \in Nat \ {0}
  PROVE  /\ x >= 0 => Quotient(x, y) = x \div y
         /\ x < 0 => Quotient(x, y) = -((-x) \div y)
  BY DEF Quotient, Abs

LEMMA QuotientOfOpposite ==
  ASSUME NEW x \in Int, NEW y \in Int, y # 0
  PROVE  Quotient(x, -y) = -Quotient(x, y)
<1>1. PICK A \in Nat : A = Abs(x) /\ A = Abs(x)
  BY DEF Abs
<1>2. PICK B \in Nat \ {0} : B = Abs(y) /\ B = Abs(-y)
  BY DEF Abs
<1>3. A \div B \in Int
  BY Floor
<1>4. CASE x = 0
  <2>1. A \div B = 0
    <3>1. A = 0
      BY <1>1, <1>4 DEF Abs
    <3> QED
      BY <3>1, FloorSign
  <2>2. Quotient(x, y) \in {A \div B, -(A \div B)} /\ Quotient(x, -y) \in {A \div B, -(A \div B)}
    BY <1>1, <1>2 DEF Quotient
  <2> QED
    BY <2>1, <2>2
<1>5. CASE x # 0
  <2>1. ((x < 0) = (-y < 0)) <=> ~ ((x < 0) = (y < 0))
    OBVIOUS
  <2> QED
    BY <1>1, <1>2, <1>3, <2>1 DEF Quotient
<1> QED
  BY <1>4, <1>5

LEMMA QuotientType ==
  ASSUME NEW x \in Int, NEW y \in Int, y # 0
  PROVE  /\ Quotient(x, y) \in Int
         /\ - Abs(x) <= Quotient(x, y) /\ Quotient(x, y) <= Abs(x)
         /\ (x >= 0) = (y > 0) => Quotient(x, y) >= 0
         /\ (x >= 0) # (y > 0) => Quotient(x, y) <= 0
<1>1. PICK A \in Nat : A = Abs(x)
  BY DEF Abs
<1>2. PICK B \in Nat \ {0} : B = Abs(y)
  BY DEF Abs
<1>3. PICK q \in Int : q = A \div B /\ 0 <= q /\ q <= A
  BY FloorSign
<1>4. Quotient(x, y) = IF (x < 0) = (y < 0) THEN q ELSE -q
  BY <1>1, <1>2, <1>3 DEF Quotient
<1>5. (x >= 0) = (y > 0) <=> (x < 0) = (y < 0)
  OBVIOUS
<1> QED
  BY <1>1, <1>3, <1>4, <1>5

LEMMA QuotientGrows ==
  ASSUME NEW x \in Int, NEW z \in Int, NEW y \in Nat \ {0}, x <= z
  PROVE  Quotient(x, y) <= Quotient(z, y)
<1>1. CASE x >= 0
  BY <1>1, QuotientOfPositive, FloorGrows
<1>2. CASE z < 0
  <2>1. (-z) \div y <= (-x) \div y /\ (-z) \div y \in Int /\ (-x) \div y \in Int
    BY FloorGrows, Floor
  <2>2. Quotient(x, y) = -((-x) \div y) /\ Quotient(z, y) = -((-z) \div y)
    BY <1>2, QuotientOfPositive
  <2> QED
    BY <2>1, <2>2
<1>3. CASE x < 0 /\ z >= 0
  <2>1. Quotient(x, y) <= 0 /\ Quotient(z, y) >= 0
    BY <1>3, QuotientType
  <2>2. Quotient(x, y) \in Int /\ Quotient(z, y) \in Int
    BY QuotientType
  <2> QED
    BY <2>1, <2>2
<1> QED
  BY <1>1, <1>2, <1>3

LEMMA QuotientOfMore ==
  ASSUME NEW x \in Int, NEW m \in Nat \ {0}, NEW n \in Nat \ {0}, m <= n
  PROVE  /\ x >= 0 => Quotient(x, n) <= Quotient(x, m)
         /\ x < 0 => Quotient(x, m) <= Quotient(x, n)
<1>1. ASSUME x >= 0 PROVE Quotient(x, n) <= Quotient(x, m)
  BY <1>1, QuotientOfPositive, FloorOfMore
<1>2. ASSUME x < 0 PROVE Quotient(x, m) <= Quotient(x, n)
  <2>1. (-x) \div n <= (-x) \div m /\ (-x) \div n \in Int /\ (-x) \div m \in Int
    <3>1. PICK t \in Int : t = -x /\ t >= 0
      BY <1>2
    <3>2. t \div n <= t \div m /\ t \div n \in Int /\ t \div m \in Int
      BY <3>1, FloorOfMore, Floor
    <3> QED
      BY <3>1, <3>2
  <2>2. Quotient(x, m) = -((-x) \div m) /\ Quotient(x, n) = -((-x) \div n)
    BY <1>2, QuotientOfPositive
  <2> QED
    BY <2>1, <2>2
<1> QED
  BY <1>1, <1>2

LEMMA QuotientCornersAbove ==
  ASSUME NEW a \in Int, NEW b \in Int, NEW c \in Nat \ {0}, NEW d \in Nat \ {0},
         NEW x \in a .. b, NEW y \in c .. d
  PROVE  /\ \E p \in {a, b}, q \in {c, d} : Quotient(p, q) <= Quotient(x, y)
         /\ \E p \in {a, b}, q \in {c, d} : Quotient(x, y) <= Quotient(p, q)
<1>1. y \in Nat \ {0} /\ x \in Int /\ c <= y /\ y <= d
  OBVIOUS
<1>2. Quotient(a, y) <= Quotient(x, y) /\ Quotient(x, y) <= Quotient(b, y)
  BY <1>1, QuotientGrows
<1>3. ASSUME NEW p \in Int
      PROVE  /\ \E q \in {c, d} : Quotient(p, q) <= Quotient(p, y)
             /\ \E q \in {c, d} : Quotient(p, y) <= Quotient(p, q)
  <2>1. CASE p >= 0
    <3>1. Quotient(p, d) <= Quotient(p, y) /\ Quotient(p, y) <= Quotient(p, c)
      BY <1>1, <2>1, QuotientOfMore
    <3> QED
      BY <3>1
  <2>2. CASE p < 0
    <3>1. Quotient(p, c) <= Quotient(p, y) /\ Quotient(p, y) <= Quotient(p, d)
      BY <1>1, <2>2, QuotientOfMore
    <3> QED
      BY <3>1
  <2> QED
    BY <2>1, <2>2
<1>4. \A p, q \in Int : q # 0 => Quotient(p, q) \in Int
  BY QuotientType
<1>5. PICK q \in {c, d} : Quotient(a, q) <= Quotient(a, y)
  BY <1>3
<1>6. PICK r \in {c, d} : Quotient(b, y) <= Quotient(b, r)
  BY <1>3
<1>7. Quotient(a, q) <= Quotient(x, y)
  <2>1. Quotient(a, q) \in Int /\ Quotient(a, y) \in Int /\ Quotient(x, y) \in Int
    BY <1>1, <1>4
  <2> QED
    BY <1>2, <1>5, <2>1
<1>8. Quotient(x, y) <= Quotient(b, r)
  <2>1. Quotient(b, r) \in Int /\ Quotient(b, y) \in Int /\ Quotient(x, y) \in Int
    BY <1>1, <1>4
  <2> QED
    BY <1>2, <1>6, <2>1
<1> QED
  BY <1>7, <1>8

\* Where a quotient lies between, if no divisor is zero.
LEMMA QuotientCorners ==
  ASSUME NEW a \in Int, NEW b \in Int, NEW c \in Int, NEW d \in Int,
         NEW x \in a .. b, NEW y \in c .. d, c > 0 \/ d < 0
  PROVE  /\ \E p \in {a, b}, q \in {c, d} : Quotient(p, q) <= Quotient(x, y)
         /\ \E p \in {a, b}, q \in {c, d} : Quotient(x, y) <= Quotient(p, q)
<1>1. CASE c > 0
  <2>1. c \in Nat \ {0} /\ d \in Nat \ {0}
    BY <1>1
  <2> QED
    BY <2>1, QuotientCornersAbove
<1>2. CASE d < 0
  <2>1. PICK e \in Nat \ {0}, f \in Nat \ {0} : e = -d /\ f = -c /\ -y \in e .. f
    BY <1>2
  <2>2. PICK p \in {a, b}, q \in {e, f} : Quotient(p, q) <= Quotient(x, -y)
    BY <2>1, QuotientCornersAbove
  <2>3. PICK r \in {a, b}, s \in {e, f} : Quotient(x, -y) <= Quotient(r, s)
    BY <2>1, QuotientCornersAbove
  <2>4. \A t, u \in Int : u # 0 => Quotient(t, u) \in Int
    BY QuotientType
  <2>5. \A t, u \in Int : u # 0 => Quotient(t, -u) = -Quotient(t, u)
    BY QuotientOfOpposite
  <2>6. -p \in Int /\ -q \in {c, d} /\ -s \in {c, d} /\ q # 0 /\ s # 0 /\ y # 0 /\ y \in Int
    BY <1>2, <2>1
  <2>7. Quotient(x, y) <= Quotient(p, -q)
    <3>1. Quotient(x, -y) = -Quotient(x, y) /\ Quotient(p, -q) = -Quotient(p, q)
      BY <2>5, <2>6
    <3>2. Quotient(x, y) \in Int /\ Quotient(p, q) \in Int
      BY <2>4, <2>6
    <3> QED
      BY <2>2, <3>1, <3>2
  <2>8. Quotient(r, -s) <= Quotient(x, y)
    <3>1. Quotient(x, -y) = -Quotient(x, y) /\ Quotient(r, -s) = -Quotient(r, s)
      BY <2>5, <2>6
    <3>2. Quotient(x, y) \in Int /\ Quotient(r, s) \in Int
      BY <2>4, <2>6
    <3> QED
      BY <2>3, <3>1, <3>2
  <2> QED
    BY <2>6, <2>7, <2>8
<1> QED
  BY <1>1, <1>2

LEMMA RemainderType ==
  ASSUME NEW x \in Int, NEW y \in Int, y # 0
  PROVE  /\ Remainder(x, y) \in Int
         /\ - Abs(x) <= Remainder(x, y) /\ Remainder(x, y) <= Abs(x)
         /\ - Abs(y) < Remainder(x, y) /\ Remainder(x, y) < Abs(y)
         /\ x >= 0 => Remainder(x, y) >= 0
         /\ x <= 0 => Remainder(x, y) <= 0
<1>1. PICK A \in Nat : A = Abs(x)
  BY DEF Abs
<1>2. PICK B \in Nat \ {0} : B = Abs(y)
  BY DEF Abs
<1>3. PICK q \in Int : q = A \div B /\ B * q <= A /\ A < B * q + B /\ q >= 0
  BY Floor, FloorSign
<1>4. Quotient(x, y) = IF (x < 0) = (y < 0) THEN q ELSE -q
  BY <1>1, <1>2, <1>3 DEF Quotient
<1>5. PICK m \in Int : m = B * q /\ 0 <= m
  <2>1. 0 * q <= B * q /\ B * q \in Int /\ 0 * q = 0
    BY <1>3, ProductGrows
  <2> QED
    BY <2>1
<1>6. y * Quotient(x, y) = IF x < 0 THEN -m ELSE m
  <2>1. CASE y < 0
    <3>1. y = -B /\ (-B) * q = -(B * q) /\ (-B) * (-q) = B * q
      BY <1>2, <2>1 DEF Abs
    <3> QED
      BY <1>4, <1>5, <2>1, <3>1
  <2>2. CASE y > 0
    <3>1. y = B /\ B * (-q) = -(B * q)
      BY <1>2, <2>2 DEF Abs
    <3> QED
      BY <1>4, <1>5, <2>2, <3>1
  <2> QED
    BY <2>1, <2>2
<1>7. Remainder(x, y) = IF x < 0 THEN x + m ELSE x - m
  BY <1>5, <1>6 DEF Remainder
<1>8. x = IF x < 0 THEN -A ELSE A
  BY <1>1 DEF Abs
<1> QED
  BY <1>1, <1>2, <1>3, <1>5, <1>7, <1>8

-----------------------------------------------------------------------------
(* Least and greatest elements. *)

LEMMA MinOf ==
  ASSUME NEW a \in Int, NEW S, S # {}, \A z \in S : z \in Int /\ a <= z
  PROVE  Min(S) \in S /\ \A z \in S : Min(S) <= z
<1>1. PICK D : D = {z - a : z \in S}
  OBVIOUS
<1>2. D \subseteq Nat /\ D # {}
  BY <1>1
<1>3. IsWellFoundedOn(Before, Nat)
  BY NatLessThanWellFounded DEF OpToRel, Before
<1>4. PICK m \in D : \A n \in D : ~ (<<n, m>> \in Before)
  BY <1>2, <1>3, WFMin
<1>5. PICK x \in S : m = x - a
  BY <1>1
<1>6. \A z \in S : x <= z
  <2> TAKE z \in S
  <2>1. z - a \in D /\ z - a \in Nat /\ m \in Nat
    BY <1>1, <1>2
  <2>2. ~ (z - a < m)
    BY <1>4, <2>1 DEF Before
  <2> QED
    BY <1>5, <2>1, <2>2
<1>7. \E z \in S : \A u \in S : z <= u
  BY <1>6
<1> QED
  BY <1>7 DEF Min

LEMMA MaxOf ==
  ASSUME NEW b \in Int, NEW S, S # {}, \A z \in S : z \in Int /\ z <= b
  PROVE  Max(S) \in S /\ \A z \in S : z <= Max(S)
<1>1. PICK D : D = {b - z : z \in S}
  OBVIOUS
<1>2. D \subseteq Nat /\ D # {}
  BY <1>1
<1>3. IsWellFoundedOn(Before, Nat)
  BY NatLessThanWellFounded DEF OpToRel, Before
<1>4. PICK m \in D : \A n \in D : ~ (<<n, m>> \in Before)
  BY <1>2, <1>3, WFMin
<1>5. PICK x \in S : m = b - x
  BY <1>1
<1>6. \A z \in S : z <= x
  <2> TAKE z \in S
  <2>1. b - z \in D /\ b - z \in Nat /\ m \in Nat
    BY <1>1, <1>2
  <2>2. ~ (b - z < m)
    BY <1>4, <2>1 DEF Before
  <2> QED
    BY <1>5, <2>1, <2>2
<1>7. \E z \in S : \A u \in S : z >= u
  BY <1>6
<1> QED
  BY <1>7 DEF Max

LEMMA MinOfTwo ==
  ASSUME NEW x \in Int, NEW y \in Int
  PROVE  Min({x, y}) = IF x <= y THEN x ELSE y
<1>1. \E z \in {x, y} : \A u \in {x, y} : z <= u
  OBVIOUS
<1>2. Min({x, y}) \in {x, y} /\ \A u \in {x, y} : Min({x, y}) <= u
  BY <1>1 DEF Min
<1> QED
  BY <1>2

LEMMA MaxOfTwo ==
  ASSUME NEW x \in Int, NEW y \in Int
  PROVE  Max({x, y}) = IF x <= y THEN y ELSE x
<1>1. \E z \in {x, y} : \A u \in {x, y} : z >= u
  OBVIOUS
<1>2. Max({x, y}) \in {x, y} /\ \A u \in {x, y} : Max({x, y}) >= u
  BY <1>1 DEF Max
<1> QED
  BY <1>2

-----------------------------------------------------------------------------
(* The ends of the numbers. *)

LEMMA Ends ==
  /\ Infinity \in Int /\ Infinity >= 2
  /\ Numbers = 1 - Infinity .. Infinity - 1
  /\ Bits \in Nat /\ Bits >= 1 /\ Pow2[Bits] = Infinity
<1>1. Bits \in Nat /\ Bits >= 1
  BY BitsAssumption
<1>2. Pow2[1] = 2
  <2>1. Pow2[0 + 1] = 2 * Pow2[0]
    BY Pow2Def
  <2> QED
    BY <2>1, Pow2Def
<1>3. Pow2[1] <= Pow2[Bits] /\ Pow2[Bits] \in Int
  BY <1>1, Pow2Grows, Pow2Positive
<1> QED
  BY <1>1, <1>2, <1>3 DEF Infinity, Numbers

Reach == -Infinity .. Infinity

LEMMA InReach == \A z : z \in Reach <=> z \in Int /\ -Infinity <= z /\ z <= Infinity
<1>1. PICK P \in Int : P = Infinity
  BY Ends
<1>2. Reach = -P .. P
  BY <1>1 DEF Reach
<1> QED
  BY <1>1, <1>2

LEMMA InNumbers == \A z : z \in Numbers <=> z \in Int /\ -Infinity < z /\ z < Infinity
<1>1. PICK P \in Int : P = Infinity /\ Numbers = 1 - P .. P - 1
  BY Ends
<1> QED
  BY <1>1

-----------------------------------------------------------------------------
(* Ints, and the powers of two that are one. *)

LEMMA Pow2Above == \A n \in Nat : n < Pow2[n]
<1> DEFINE T == {n \in Nat : n < Pow2[n]}
<1>1. 0 \in T
  BY Pow2Def
<1>2. ASSUME NEW n \in Nat, n \in T PROVE n + 1 \in T
  <2>1. Pow2[n + 1] = 2 * Pow2[n] /\ Pow2[n] \in Int /\ n < Pow2[n]
    BY <1>2, Pow2Def
  <2> QED
    BY <2>1
<1>3. Nat \subseteq T
  <2> HIDE DEF T
  <2> QED
    BY <1>1, <1>2, Inductive
<1> QED
  BY <1>3

LEMMA RemainderBelow ==
  ASSUME NEW x \in Int, NEW n \in Nat \ {0}
  PROVE  /\ x % n \in Nat /\ x % n < n
         /\ 0 <= x /\ x < n => x % n = x
<1>1. PICK q \in Int : q = x \div n
  BY Floor
<1>2. x % n \in 0 .. n - 1 /\ x = n * q + (x % n)
  BY <1>1
<1>3. ASSUME 0 <= x, x < n PROVE x % n = x
  <2>1. q = 0 /\ n * 0 = 0
    BY <1>1, <1>3, FloorOfLess
  <2> QED
    BY <1>2, <2>1
<1> QED
  BY <1>2, <1>3

\* The numbers of an int end at Pow2[IntBits].
LEMMA IntEnds ==
  /\ IntBits \in Nat /\ 2 <= IntBits /\ IntBits <= Bits
  /\ Pow2[IntBits] \in Int /\ Pow2[IntBits] >= 2 /\ Pow2[IntBits] <= Infinity
  /\ IntBits < Pow2[IntBits]
  /\ IntBits - 1 \in Nat /\ Pow2[IntBits] = 2 * Pow2[IntBits - 1]
<1>1. IntBits \in Nat /\ 2 <= IntBits /\ IntBits <= Bits /\ Bits \in Nat
  BY IntBitsAssumption, Ends
<1>2. IntBits - 1 \in Nat /\ (IntBits - 1) + 1 = IntBits
  BY <1>1
<1>3. Pow2[IntBits] = 2 * Pow2[IntBits - 1]
  BY <1>2, Pow2Def
<1>4. Pow2[IntBits - 1] \in Int /\ Pow2[IntBits - 1] >= 1
  BY <1>2, Pow2Positive
<1>5. Pow2[IntBits] <= Infinity
  BY <1>1, Pow2Grows, Ends
<1>6. IntBits < Pow2[IntBits]
  BY <1>1, Pow2Above
<1> QED
  BY <1>1, <1>2, <1>3, <1>4, <1>5, <1>6

\* An int is between these ends, and a number between them stays what it is.
LEMMA ToIntIs ==
  ASSUME NEW x \in Int
  PROVE  /\ ToInt(x) \in Int /\ -Pow2[IntBits] <= ToInt(x) /\ ToInt(x) < Pow2[IntBits]
         /\ -Pow2[IntBits] <= x /\ x < Pow2[IntBits] => ToInt(x) = x
<1>1. PICK e \in Int : e = Pow2[IntBits] /\ e >= 2
  BY IntEnds
<1>2. PICK n \in Nat \ {0} : n = Pow2[IntBits + 1] /\ n = 2 * e
  BY <1>1, IntEnds, Pow2Def
<1>3. PICK y \in Int : y = x + e
  BY <1>1
<1>4. y % n \in Nat /\ y % n < n /\ (0 <= y /\ y < n => y % n = y)
  BY <1>2, <1>3, RemainderBelow
<1>5. PICK r \in Nat : r = y % n /\ r < n /\ (0 <= y /\ y < n => r = y)
  BY <1>4
<1>6. ToInt(x) = r - e
  BY <1>1, <1>2, <1>3, <1>5 DEF ToInt
<1>7. r - e \in Int /\ -e <= r - e /\ r - e < e
  <2>1. r < 2 * e
    BY <1>2, <1>5
  <2> QED
    BY <1>1, <2>1
<1>8. ASSUME -e <= x, x < e PROVE r - e = x
  <2>1. 0 <= y /\ y < n
    BY <1>1, <1>2, <1>3, <1>8
  <2> QED
    BY <1>3, <1>5, <2>1
<1> QED
  BY <1>1, <1>6, <1>7, <1>8

\* 1 << n is an int, and the power of two as long as that is one.
LEMMA OneShiftedIs ==
  ASSUME NEW n \in Int
  PROVE  /\ OneShifted(n) \in Int
         /\ -Pow2[IntBits] <= OneShifted(n) /\ OneShifted(n) < Pow2[IntBits]
         /\ 0 <= n /\ n < IntBits => OneShifted(n) = Pow2[n]
<1>1. PICK k \in Nat : k = n % (IntBits + 1) /\ (0 <= n /\ n < IntBits => k = n)
  <2>1. IntBits + 1 \in Nat \ {0} /\ IntBits \in Nat
    BY IntEnds
  <2> QED
    BY <2>1, RemainderBelow
<1>2. Pow2[k] \in Int /\ Pow2[k] >= 1
  BY Pow2Positive
<1>3. OneShifted(n) = ToInt(Pow2[k])
  BY <1>1 DEF OneShifted
<1>4. ASSUME 0 <= n, n < IntBits PROVE OneShifted(n) = Pow2[n]
  <2>1. k = n /\ k <= IntBits - 1 /\ IntBits - 1 \in Nat
    BY <1>1, <1>4, IntEnds
  <2>2. Pow2[k] <= Pow2[IntBits - 1] /\ Pow2[IntBits - 1] \in Int
    BY <2>1, Pow2Grows, Pow2Positive
  <2>3. -Pow2[IntBits] <= Pow2[k] /\ Pow2[k] < Pow2[IntBits]
    BY <1>2, <2>2, IntEnds
  <2> QED
    BY <1>2, <1>3, <2>1, <2>3, ToIntIs
<1> QED
  BY <1>2, <1>3, <1>4, ToIntIs

-----------------------------------------------------------------------------
(* Intervals and the numbers they have. *)

\* Two bounds, finite or not.
IsInterval(v) == v = <<lb(v), ub(v)>> /\ lb(v) \in Reach /\ ub(v) \in Reach

\* An interval that has the number x.
Has(v, x) == IsInterval(v) /\ x \in Numbers /\ Contains(v, x)

LEMMA NotBottom == \A v : IsInterval(v) => v # Bottom
  BY DEF IsInterval, Bottom

LEMMA PairIsInterval ==
  ASSUME NEW x \in Reach, NEW y \in Reach
  PROVE  IsInterval(<<x, y>>)
  BY DEF IsInterval, lb, ub

LEMMA HullBounds ==
  ASSUME NEW S \in SUBSET Reach, S # {}
  PROVE  /\ IsInterval(Hull(S))
         /\ lb(Hull(S)) \in S /\ \A z \in S : lb(Hull(S)) <= z
         /\ ub(Hull(S)) \in S /\ \A z \in S : z <= ub(Hull(S))
<1>1. PICK a \in Int, b \in Int : a = -Infinity /\ b = Infinity
  BY Ends
<1>2. Min(S) \in S /\ \A z \in S : Min(S) <= z
  <2>1. \A z \in S : z \in Int /\ a <= z
    BY <1>1, InReach
  <2> QED
    BY <2>1, MinOf
<1>3. Max(S) \in S /\ \A z \in S : z <= Max(S)
  <2>1. \A z \in S : z \in Int /\ z <= b
    BY <1>1, InReach
  <2> QED
    BY <2>1, MaxOf
<1>4. lb(Hull(S)) = Min(S) /\ ub(Hull(S)) = Max(S)
  BY DEF Hull, lb, ub
<1>5. IsInterval(Hull(S))
  BY <1>2, <1>3, PairIsInterval DEF Hull
<1> QED
  BY <1>2, <1>3, <1>4, <1>5

\* The interval between a set of bounds, one of them below a number and one above.
LEMMA HullHas ==
  ASSUME NEW S \in SUBSET Reach, NEW x \in Numbers,
         \E z \in S : z <= x, \E z \in S : x <= z
  PROVE  Has(Hull(S), x)
<1>1. PICK z \in S : z <= x
  OBVIOUS
<1>2. PICK u \in S : x <= u
  OBVIOUS
<1>3. PICK e, f : e = lb(Hull(S)) /\ f = ub(Hull(S))
  OBVIOUS
<1>4. e \in S /\ f \in S /\ e <= z /\ u <= f /\ IsInterval(Hull(S))
  BY <1>1, <1>2, <1>3, HullBounds
<1>5. x \in Int /\ z \in Int /\ u \in Int /\ e \in Int /\ f \in Int
  BY <1>1, <1>2, <1>4, InNumbers, InReach
<1>6. e <= x /\ x <= f
  BY <1>1, <1>2, <1>4, <1>5
<1> QED
  BY <1>3, <1>4, <1>6 DEF Has, Contains

-----------------------------------------------------------------------------
(* Bits. *)

LEMMA FloorTwice ==
  ASSUME NEW x \in Int, NEW n \in Nat \ {0}
  PROVE  x \div (2 * n) = (x \div n) \div 2
<1>1. PICK q \in Int : q = x \div n /\ n * q <= x /\ x < n * q + n
  BY Floor
<1>2. PICK r \in Int : r = q \div 2 /\ 2 * r <= q /\ q <= 2 * r + 1
  OBVIOUS
<1>3. 2 * n \in Nat \ {0}
  OBVIOUS
<1>4. (2 * r) * n <= q * n /\ q * n <= (2 * r + 1) * n
  BY <1>2, ProductGrows
<1>5. (2 * r) * n = (2 * n) * r /\ (2 * r + 1) * n = (2 * n) * r + n /\ q * n = n * q
  BY <1>1, <1>2
<1>6. (2 * n) * r \in Int /\ n * q \in Int
  BY <1>1, <1>2
<1>7. (2 * n) * r <= x /\ x < (2 * n) * r + 2 * n
  BY <1>1, <1>4, <1>5, <1>6
<1>8. x \div (2 * n) \in Int
  BY <1>3, Floor
<1> QED
  BY <1>2, <1>3, <1>7, <1>8, FloorAtLeast, FloorAtMost

LEMMA BitType == \A x \in Int, i \in Nat : Bit(x, i) \in {0, 1}
<1> TAKE x \in Int, i \in Nat
<1>1. PICK n \in Nat \ {0} : n = Pow2[i]
  BY Pow2Positive
<1>2. x \div n \in Int
  BY Floor
<1> QED
  BY <1>1, <1>2 DEF Bit

\* What the bits below n are worth, for every n.
IsSum(low, b) ==
  /\ low \in [0 .. Bits -> Int]
  /\ low[0] = 0
  /\ \A n \in 0 .. Bits - 1 : low[n + 1] = low[n] + Pow2[n] * b[n]

LEMMA OfBitsSum ==
  ASSUME NEW b \in [0 .. Bits -> {0, 1}]
  PROVE  \E low : IsSum(low, b) /\ OfBits(b) = low[Bits] - Infinity * b[Bits]
<1>1. PICK step : step = [p \in Nat \X Int |->
                            IF p[1] \in 0 .. Bits THEN p[2] + Pow2[p[1]] * b[p[1]] ELSE p[2]]
  OBVIOUS
<1>2. step \in [Nat \X Int -> Int] /\ \A k \in 0 .. Bits, m \in Int : step[<<k, m>>] = m + Pow2[k] * b[k]
  <2>1. \A k \in 0 .. Bits : Pow2[k] \in Int /\ b[k] \in Int /\ k \in Nat
    BY Pow2Positive, Ends
  <2> QED
    BY <1>1, <2>1
<1>3. PICK g \in [Nat -> Int] : g[0] = 0 /\ \A k \in Nat : g[k + 1] = step[<<k, g[k]>>]
  <2>1. 0 \in Int
    OBVIOUS
  <2> HIDE <1>1
  <2> QED
    BY <2>1, <1>2, RecursionExists
<1>4. ASSUME NEW k \in 0 .. Bits - 1 PROVE g[k + 1] = g[k] + Pow2[k] * b[k]
  <2>1. k \in 0 .. Bits /\ k \in Nat
    BY Ends
  <2>2. g[k] \in Int /\ g[k + 1] = step[<<k, g[k]>>]
    BY <1>3, <2>1
  <2> QED
    BY <1>2, <2>1, <2>2
<1>5. PICK f : f = [n \in 0 .. Bits |-> g[n]]
  OBVIOUS
<1>6. f = [n \in 0 .. Bits |-> IF n = 0 THEN 0 ELSE f[n - 1] + Pow2[n - 1] * b[n - 1]]
  <2>1. ASSUME NEW n \in 0 .. Bits, n # 0 PROVE f[n] = f[n - 1] + Pow2[n - 1] * b[n - 1]
    <3>1. PICK k \in 0 .. Bits - 1 : k = n - 1 /\ n = k + 1
      BY <2>1, Ends
    <3>2. f[n] = g[k + 1] /\ f[k] = g[k]
      BY <3>1, <1>5, Ends
    <3> QED
      BY <1>4, <3>1, <3>2
  <2>2. 0 \in 0 .. Bits => f[0] = 0
    BY <1>3, <1>5
  <2> QED
    BY <1>5, <2>1, <2>2
<1>7. PICK low : low = [n \in 0 .. Bits |-> IF n = 0 THEN 0 ELSE low[n - 1] + Pow2[n - 1] * b[n - 1]]
                 /\ OfBits(b) = low[Bits] - Infinity * b[Bits]
  BY <1>6 DEF OfBits
<1>8. low[0] = 0 /\ \A n \in 0 .. Bits - 1 : low[n + 1] = low[n] + Pow2[n] * b[n]
  <2>1. 0 \in 0 .. Bits
    BY Ends
  <2>2. ASSUME NEW n \in 0 .. Bits - 1 PROVE low[n + 1] = low[n] + Pow2[n] * b[n]
    <3>1. n + 1 \in 0 .. Bits /\ n + 1 # 0 /\ (n + 1) - 1 = n
      BY Ends
    <3> QED
      BY <1>7, <3>1
  <2> QED
    BY <1>7, <2>1, <2>2
<1>9. \A n \in 0 .. Bits : low[n] \in Int
  <2> DEFINE T == {n \in Nat : n <= Bits => low[n] \in Int}
  <2>1. 0 \in T
    BY <1>8
  <2>2. ASSUME NEW n \in Nat, n \in T PROVE n + 1 \in T
    <3> SUFFICES ASSUME n + 1 <= Bits PROVE low[n + 1] \in Int
      OBVIOUS
    <3>1. n \in 0 .. Bits - 1 /\ n \in 0 .. Bits /\ n <= Bits
      BY Ends
    <3>2. low[n] \in Int /\ Pow2[n] \in Int /\ b[n] \in Int
      BY <2>2, <3>1, Pow2Positive
    <3> QED
      BY <1>8, <3>1, <3>2
  <2>3. Nat \subseteq T
    <3> HIDE DEF T
    <3> QED
      BY <2>1, <2>2, Inductive
  <2> QED
    BY <2>3, Ends
<1>10. low \in [0 .. Bits -> Int]
  <2>1. PICK F : F = [n \in 0 .. Bits |-> IF n = 0 THEN 0 ELSE low[n - 1] + Pow2[n - 1] * b[n - 1]]
    OBVIOUS
  <2> QED
    BY <1>7, <1>9, <2>1
<1> QED
  BY <1>7, <1>8, <1>10 DEF IsSum

\* A number is its bits below n and a multiple of 2 to the n.
LEMMA SumOfNumber ==
  ASSUME NEW x \in Int, NEW b, \A i \in 0 .. Bits : b[i] = Bit(x, i), NEW low, IsSum(low, b)
  PROVE  \A n \in 0 .. Bits : low[n] = x - Pow2[n] * (x \div Pow2[n])
<1> DEFINE T == {n \in Nat : n <= Bits => low[n] = x - Pow2[n] * (x \div Pow2[n])}
<1>1. 0 \in T
  <2>1. Pow2[0] = 1 /\ x \div 1 = x /\ low[0] = 0
    BY Pow2Def DEF IsSum
  <2> QED
    BY <2>1
<1>2. ASSUME NEW n \in Nat, n \in T PROVE n + 1 \in T
  <2> SUFFICES ASSUME n + 1 <= Bits PROVE low[n + 1] = x - Pow2[n + 1] * (x \div Pow2[n + 1])
    OBVIOUS
  <2>1. n \in 0 .. Bits - 1 /\ n \in 0 .. Bits /\ n <= Bits
    BY Ends
  <2>2. PICK p \in Nat \ {0} : p = Pow2[n] /\ Pow2[n + 1] = 2 * p
    BY Pow2Def, Pow2Positive
  <2>3. PICK q \in Int : q = x \div p
    BY Floor
  <2>4. PICK r \in Int : r = q \div 2 /\ q % 2 = q - 2 * r
    OBVIOUS
  <2>5. x \div Pow2[n + 1] = r
    BY <2>2, <2>3, <2>4, FloorTwice
  <2>6. b[n] = q - 2 * r
    BY <2>1, <2>2, <2>3, <2>4 DEF Bit
  <2>7. low[n] = x - p * q
    BY <1>2, <2>1, <2>2, <2>3
  <2>8. low[n + 1] = (x - p * q) + p * (q - 2 * r)
    BY <2>1, <2>2, <2>6, <2>7 DEF IsSum
  <2>9. (x - p * q) + p * (q - 2 * r) = x - (2 * p) * r
    OBVIOUS
  <2> QED
    BY <2>2, <2>5, <2>8, <2>9
<1>3. Nat \subseteq T
  <2> HIDE DEF T
  <2> QED
    BY <1>1, <1>2, Inductive
<1> QED
  BY <1>3, Ends

LEMMA SumOfMore ==
  ASSUME NEW l, NEW m, NEW b, NEW c, IsSum(l, b), IsSum(m, c),
         \A n \in 0 .. Bits : b[n] \in {0, 1} /\ c[n] \in {0, 1} /\ b[n] <= c[n]
  PROVE  l[Bits] <= m[Bits]
<1> DEFINE T == {n \in Nat : n <= Bits => l[n] <= m[n]}
<1>1. 0 \in T
  BY DEF IsSum
<1>2. ASSUME NEW n \in Nat, n \in T PROVE n + 1 \in T
  <2> SUFFICES ASSUME n + 1 <= Bits PROVE l[n + 1] <= m[n + 1]
    OBVIOUS
  <2>1. n \in 0 .. Bits - 1 /\ n \in 0 .. Bits /\ n <= Bits
    BY Ends
  <2>2. PICK p \in Nat : p = Pow2[n]
    BY Pow2Positive
  <2>3. l[n + 1] = l[n] + p * b[n] /\ m[n + 1] = m[n] + p * c[n] /\ l[n] \in Int /\ m[n] \in Int
    BY <2>1, <2>2 DEF IsSum
  <2>4. p * b[n] <= p * c[n] /\ p * b[n] \in Int /\ p * c[n] \in Int
    BY <2>1
  <2>5. l[n] <= m[n]
    BY <1>2, <2>1
  <2> QED
    BY <2>3, <2>4, <2>5
<1>3. Nat \subseteq T
  <2> HIDE DEF T
  <2> QED
    BY <1>1, <1>2, Inductive
<1> QED
  BY <1>3, Ends

\* Numbers without the bits from k on are less than 2 to the k.
LEMMA SumBelow ==
  ASSUME NEW b, \A n \in 0 .. Bits : b[n] \in {0, 1}, NEW low, IsSum(low, b),
         NEW k \in 0 .. Bits, \A n \in k .. Bits - 1 : b[n] = 0
  PROVE  low[Bits] >= 0 /\ low[Bits] < Pow2[k]
<1> DEFINE T == {n \in Nat : n <= Bits => low[n] >= 0 /\ low[n] < Pow2[n]}
           S == {n \in Nat : n <= Bits /\ k <= n => low[n] = low[k]}
<1>1. 0 \in T
  <2>1. low[0] = 0 /\ Pow2[0] = 1
    BY Pow2Def DEF IsSum
  <2> QED
    BY <2>1
<1>2. ASSUME NEW n \in Nat, n \in T PROVE n + 1 \in T
  <2> SUFFICES ASSUME n + 1 <= Bits PROVE low[n + 1] >= 0 /\ low[n + 1] < Pow2[n + 1]
    OBVIOUS
  <2>1. n \in 0 .. Bits - 1 /\ n \in 0 .. Bits /\ n <= Bits
    BY Ends
  <2>2. PICK p \in Nat : p = Pow2[n] /\ Pow2[n + 1] = 2 * p
    BY Pow2Def, Pow2Positive
  <2>3. low[n + 1] = low[n] + p * b[n] /\ low[n] \in Int
    BY <2>1, <2>2 DEF IsSum
  <2>4. p * b[n] \in {0, p}
    BY <2>1
  <2>5. low[n] >= 0 /\ low[n] < p
    BY <1>2, <2>1, <2>2
  <2> QED
    BY <2>2, <2>3, <2>4, <2>5
<1>3. Nat \subseteq T
  <2> HIDE DEF T
  <2> QED
    BY <1>1, <1>2, Inductive
<1>4. 0 \in S
  OBVIOUS
<1>5. ASSUME NEW n \in Nat, n \in S PROVE n + 1 \in S
  <2> SUFFICES ASSUME n + 1 <= Bits, k <= n + 1, k # n + 1 PROVE low[n + 1] = low[k]
    OBVIOUS
  <2>1. n \in 0 .. Bits - 1 /\ n \in k .. Bits - 1 /\ n <= Bits /\ k <= n
    BY Ends
  <2>2. PICK p \in Nat : p = Pow2[n]
    BY Pow2Positive
  <2>3. low[n + 1] = low[n] + p * b[n] /\ low[n] \in Int /\ b[n] = 0
    BY <2>1, <2>2 DEF IsSum
  <2>4. low[n] = low[k]
    BY <1>5, <2>1
  <2> QED
    BY <2>3, <2>4
<1>6. Nat \subseteq S
  <2> HIDE DEF S
  <2> QED
    BY <1>4, <1>5, Inductive
<1>7. Bits \in Nat /\ k <= Bits /\ k \in Nat
  BY Ends
<1>8. Bits \in S /\ k \in T
  BY <1>3, <1>6, <1>7
<1>9. low[Bits] = low[k]
  BY <1>7, <1>8
<1> QED
  BY <1>7, <1>8, <1>9

LEMMA NoBitAbove ==
  ASSUME NEW k \in Nat, NEW i \in Nat, k <= i, NEW x \in Int, 0 <= x, x < Pow2[k]
  PROVE  Bit(x, i) = 0
<1>1. PICK n \in Nat \ {0} : n = Pow2[i] /\ x < n
  BY Pow2Grows, Pow2Positive
<1>2. x \div n = 0
  BY <1>1, FloorOfLess
<1> QED
  BY <1>1, <1>2 DEF Bit

\* The bits of a number from 0 to Infinity - 1 are worth the number.
LEMMA BitsOfNumber ==
  ASSUME NEW x \in 0 .. Infinity - 1
  PROVE  \E low : IsSum(low, [i \in 0 .. Bits |-> Bit(x, i)]) /\ low[Bits] = x
<1>1. PICK b \in [0 .. Bits -> {0, 1}] : b = [i \in 0 .. Bits |-> Bit(x, i)]
  <2>1. x \in Int
    BY Ends
  <2>2. \A i \in 0 .. Bits : Bit(x, i) \in {0, 1}
    BY <2>1, BitType, Ends
  <2> QED
    BY <2>2
<1>2. PICK low : IsSum(low, b)
  BY OfBitsSum
<1>3. x \in Int /\ 0 <= x /\ x < Infinity /\ Bits \in 0 .. Bits
  BY Ends
<1>4. \A i \in 0 .. Bits : b[i] = Bit(x, i)
  BY <1>1
<1>5. low[Bits] = x - Pow2[Bits] * (x \div Pow2[Bits])
  BY <1>2, <1>3, <1>4, SumOfNumber
<1>6. PICK n \in Nat \ {0} : n = Pow2[Bits] /\ x < n
  BY <1>3, Ends
<1>7. x \div n = 0 /\ n * 0 = 0
  BY <1>3, <1>6, FloorOfLess
<1>8. low[Bits] = x
  BY <1>3, <1>5, <1>6, <1>7
<1> QED
  BY <1>1, <1>2, <1>8

LEMMA AndSymmetric == \A x, y \in Int : BitAnd(x, y) = BitAnd(y, x)
<1> SUFFICES ASSUME NEW x \in Int, NEW y \in Int PROVE BitAnd(x, y) = BitAnd(y, x)
  OBVIOUS
<1>1. \A i \in 0 .. Bits : Bit(x, i) * Bit(y, i) = Bit(y, i) * Bit(x, i)
  BY BitType, Ends
<1>2. [i \in 0 .. Bits |-> Bit(x, i) * Bit(y, i)] = [i \in 0 .. Bits |-> Bit(y, i) * Bit(x, i)]
  BY <1>1
<1> QED
  BY <1>2 DEF BitAnd

LEMMA AndNumber ==
  ASSUME NEW x \in 0 .. Infinity - 1, NEW y \in Int
  PROVE  BitAnd(x, y) \in 0 .. x
<1>1. PICK b : b = [i \in 0 .. Bits |-> Bit(x, i) * Bit(y, i)]
  OBVIOUS
<1>2. PICK c : c = [i \in 0 .. Bits |-> Bit(x, i)]
  OBVIOUS
<1>3. \A n \in 0 .. Bits : b[n] \in {0, 1} /\ c[n] \in {0, 1} /\ b[n] <= c[n]
  <2>1. x \in Int
    BY Ends
  <2> TAKE n \in 0 .. Bits
  <2>2. Bit(x, n) \in {0, 1} /\ Bit(y, n) \in {0, 1}
    BY <2>1, BitType, Ends
  <2>3. b[n] = Bit(x, n) * Bit(y, n) /\ c[n] = Bit(x, n)
    BY <1>1, <1>2
  <2> QED
    BY <2>2, <2>3
<1>4. b \in [0 .. Bits -> {0, 1}]
  <2> QED
    BY <1>1, <1>3
<1>5. PICK low : IsSum(low, b) /\ OfBits(b) = low[Bits] - Infinity * b[Bits]
  BY <1>4, OfBitsSum
<1>6. PICK m : IsSum(m, c) /\ m[Bits] = x
  BY <1>2, BitsOfNumber
<1>7. low[Bits] <= x
  BY <1>3, <1>5, <1>6, SumOfMore
<1>8. low[Bits] >= 0 /\ low[Bits] \in Int
  <2>1. Bits \in 0 .. Bits /\ \A n \in Bits .. Bits - 1 : b[n] = 0
    BY Ends
  <2>2. low[Bits] >= 0
    BY <1>3, <1>5, <2>1, SumBelow
  <2> QED
    BY <1>5, <2>1, <2>2 DEF IsSum
<1>9. b[Bits] = 0
  <2>1. x \in Int /\ 0 <= x /\ x < Pow2[Bits] /\ Bits \in Nat /\ Bits <= Bits /\ Bits \in 0 .. Bits
    BY Ends
  <2>2. Bit(x, Bits) = 0
    BY <2>1, NoBitAbove
  <2>3. Bit(y, Bits) \in {0, 1}
    BY <2>1, BitType
  <2> QED
    BY <1>1, <2>1, <2>2, <2>3
<1>10. BitAnd(x, y) = low[Bits]
  <2>1. Infinity * 0 = 0
    BY Ends
  <2> QED
    BY <1>1, <1>5, <1>8, <1>9, <2>1 DEF BitAnd
<1> QED
  BY <1>7, <1>8, <1>10, Ends

\* Or and exclusive or of numbers less than 2 to the k are less than that, and what is
\* set in an operand is set in the former.
LEMMA OrNumber ==
  ASSUME NEW x \in 0 .. Infinity - 1, NEW y \in 0 .. Infinity - 1,
         NEW k \in 0 .. Bits, x < Pow2[k], y < Pow2[k]
  PROVE  /\ BitOr(x, y) \in Int /\ x <= BitOr(x, y) /\ y <= BitOr(x, y) /\ BitOr(x, y) < Pow2[k]
         /\ BitXor(x, y) \in Int /\ 0 <= BitXor(x, y) /\ BitXor(x, y) < Pow2[k]
<1>1. x \in Int /\ y \in Int /\ 0 <= x /\ 0 <= y /\ k \in Nat /\ k <= Bits /\ Bits \in 0 .. Bits
  BY Ends
<1>2. \A i \in 0 .. Bits : Bit(x, i) \in {0, 1} /\ Bit(y, i) \in {0, 1}
  BY <1>1, BitType, Ends
<1>3. \A i \in k .. Bits : Bit(x, i) = 0 /\ Bit(y, i) = 0
  <2> TAKE i \in k .. Bits
  <2>1. i \in Nat /\ k <= i
    BY <1>1
  <2> QED
    BY <1>1, <2>1, NoBitAbove
<1>4. ASSUME NEW b \in [0 .. Bits -> {0, 1}], \A i \in k .. Bits : b[i] = 0
      PROVE  /\ OfBits(b) \in Int /\ 0 <= OfBits(b) /\ OfBits(b) < Pow2[k]
             /\ \E low : IsSum(low, b) /\ OfBits(b) = low[Bits]
  <2>1. PICK low : IsSum(low, b) /\ OfBits(b) = low[Bits] - Infinity * b[Bits]
    BY OfBitsSum
  <2>2. Bits \in k .. Bits /\ (\A i \in 0 .. Bits : b[i] \in {0, 1}) /\ \A i \in k .. Bits - 1 : b[i] = 0
    BY <1>4, <1>1, Ends
  <2>3. low[Bits] \in Int /\ low[Bits] >= 0 /\ low[Bits] < Pow2[k]
    <3>1. low[Bits] \in Int
      BY <1>1, <2>1 DEF IsSum
    <3> QED
      BY <2>1, <2>2, <3>1, SumBelow
  <2>4. Infinity * b[Bits] = 0
    <3>1. b[Bits] = 0
      BY <1>4, <2>2
    <3> QED
      BY <3>1, Ends
  <2> QED
    BY <2>1, <2>3, <2>4
<1>5. PICK b : b = [i \in 0 .. Bits |-> Max({Bit(x, i), Bit(y, i)})]
  OBVIOUS
<1>6. \A i \in 0 .. Bits : b[i] = IF Bit(x, i) <= Bit(y, i) THEN Bit(y, i) ELSE Bit(x, i)
  <2> TAKE i \in 0 .. Bits
  <2>1. Bit(x, i) \in Int /\ Bit(y, i) \in Int
    BY <1>2
  <2> QED
    BY <1>5, <2>1, MaxOfTwo
<1>7. b \in [0 .. Bits -> {0, 1}] /\ \A i \in k .. Bits : b[i] = 0
  <2>1. \A i \in 0 .. Bits : b[i] \in {0, 1}
    BY <1>2, <1>6
  <2>2. \A i \in k .. Bits : i \in 0 .. Bits
    BY <1>1
  <2>3. \A i \in k .. Bits : b[i] = 0
    BY <1>3, <1>6, <2>2
  <2> QED
    BY <1>5, <2>1, <2>3
<1>8. PICK low : IsSum(low, b) /\ OfBits(b) = low[Bits]
  BY <1>4, <1>7
<1>9. ASSUME NEW z \in {x, y} PROVE z <= OfBits(b)
  <2>1. PICK c : c = [i \in 0 .. Bits |-> Bit(z, i)]
    OBVIOUS
  <2>2. \A i \in 0 .. Bits : c[i] \in {0, 1} /\ b[i] \in {0, 1} /\ c[i] <= b[i]
    BY <1>2, <1>6, <2>1
  <2>3. PICK m : IsSum(m, c) /\ m[Bits] = z
    BY <2>1, BitsOfNumber
  <2> QED
    BY <1>8, <2>2, <2>3, SumOfMore
<1>10. PICK d : d = [i \in 0 .. Bits |-> (Bit(x, i) + Bit(y, i)) % 2]
  OBVIOUS
<1>11. d \in [0 .. Bits -> {0, 1}] /\ \A i \in k .. Bits : d[i] = 0
  <2>1. \A i \in 0 .. Bits : (Bit(x, i) + Bit(y, i)) % 2 \in {0, 1}
    BY <1>2
  <2>2. \A i \in k .. Bits : i \in 0 .. Bits
    BY <1>1
  <2>3. \A i \in k .. Bits : d[i] = 0
    BY <1>3, <1>10, <2>2
  <2> QED
    BY <1>10, <2>1, <2>3
<1>12. BitOr(x, y) = OfBits(b) /\ BitXor(x, y) = OfBits(d)
  BY <1>5, <1>10 DEF BitOr, BitXor
<1>13. OfBits(b) \in Int /\ OfBits(b) < Pow2[k] /\ x <= OfBits(b) /\ y <= OfBits(b)
  BY <1>4, <1>7, <1>9
<1>14. OfBits(d) \in Int /\ 0 <= OfBits(d) /\ OfBits(d) < Pow2[k]
  BY <1>4, <1>11
<1> QED
  BY <1>12, <1>13, <1>14

-----------------------------------------------------------------------------
(* The operators of IntervalValue. *)

LEMMA HasBounds ==
  ASSUME NEW v, NEW x, Has(v, x)
  PROVE  /\ lb(v) \in Int /\ ub(v) \in Int /\ x \in Int /\ x \in Numbers
         /\ -Infinity <= lb(v) /\ ub(v) <= Infinity /\ lb(v) <= x /\ x <= ub(v)
         /\ -Infinity < x /\ x < Infinity
         /\ v = <<lb(v), ub(v)>> /\ v # Bottom
  BY InReach, InNumbers, NotBottom DEF Has, IsInterval, Contains

LEMMA PairHas ==
  ASSUME NEW a \in Int, NEW b \in Int, NEW x \in Numbers,
         -Infinity <= a, a <= x, x <= b, b <= Infinity
  PROVE  Has(<<a, b>>, x)
<1>1. a \in Reach /\ b \in Reach
  <2>1. PICK P \in Int : P = Infinity
    BY Ends
  <2>2. x \in Int /\ -P < x /\ x < P
    BY <2>1, InNumbers
  <2>3. -P <= a /\ a <= P /\ -P <= b /\ b <= P
    BY <2>1, <2>2
  <2> QED
    BY <2>1, <2>3, InReach
<1>2. lb(<<a, b>>) = a /\ ub(<<a, b>>) = b
  BY DEF lb, ub
<1>3. IsInterval(<<a, b>>)
  BY <1>1, PairIsInterval
<1> QED
  BY <1>2, <1>3 DEF Has, Contains

LEMMA TopHas == \A x \in Numbers : Has(Top, x)
<1> TAKE x \in Numbers
<1>1. PICK P \in Int : P = Infinity
  BY Ends
<1>2. x \in Int /\ -P < x /\ x < P
  BY <1>1, InNumbers
<1>3. Has(<<-P, P>>, x)
  BY <1>1, <1>2, PairHas
<1> QED
  BY <1>1, <1>3 DEF Top

LEMMA NumberHas == \A x \in Numbers : Has(Number(x), x)
<1> TAKE x \in Numbers
<1>1. PICK P \in Int : P = Infinity
  BY Ends
<1>2. x \in Int /\ -P < x /\ x < P
  BY <1>1, InNumbers
<1>3. Has(<<x, x>>, x)
  BY <1>1, <1>2, PairHas
<1> QED
  BY <1>3 DEF Number

LEMMA JoinHas ==
  ASSUME NEW v, NEW w, IsInterval(v), IsInterval(w), NEW x, Has(v, x) \/ Has(w, x)
  PROVE  Has(joinWith(v, w), x) /\ Has(widenWith(v, w), x)
<1>1. PICK P \in Int : P = Infinity
  BY Ends
<1>2. PICK a \in Int, b \in Int : a = lb(v) /\ b = ub(v) /\ -P <= a /\ a <= P /\ -P <= b /\ b <= P
  BY <1>1, InReach DEF IsInterval
<1>3. PICK c \in Int, d \in Int : c = lb(w) /\ d = ub(w) /\ -P <= c /\ c <= P /\ -P <= d /\ d <= P
  BY <1>1, InReach DEF IsInterval
<1>4. x \in Numbers /\ x \in Int /\ -P < x /\ x < P
  BY <1>1, HasBounds
<1>5. (a <= x /\ x <= b) \/ (c <= x /\ x <= d)
  BY <1>2, <1>3 DEF Has, Contains
<1>6. v # Bottom /\ w # Bottom
  BY NotBottom
<1>7. Has(joinWith(v, w), x)
  <2>1. PICK e \in Int, f \in Int : e = Min({a, c}) /\ f = Max({b, d})
    BY MinOfTwo, MaxOfTwo
  <2>2. -P <= e /\ e <= x /\ x <= f /\ f <= P
    BY <1>2, <1>3, <1>4, <1>5, <2>1, MinOfTwo, MaxOfTwo
  <2>3. joinWith(v, w) = <<e, f>>
    BY <1>2, <1>3, <1>6, <2>1 DEF joinWith
  <2> QED
    BY <1>1, <1>4, <2>2, <2>3, PairHas
<1>8. Has(widenWith(v, w), x)
  <2>1. PICK e \in Int, f \in Int : e = (IF c < a THEN -P ELSE a) /\ f = (IF d > b THEN P ELSE b)
    BY <1>1
  <2>2. -P <= e /\ e <= x /\ x <= f /\ f <= P
    BY <1>1, <1>2, <1>3, <1>4, <1>5, <2>1
  <2>3. widenWith(v, w) = <<e, f>>
    BY <1>1, <1>2, <1>3, <1>6, <2>1 DEF widenWith
  <2> QED
    BY <1>1, <1>4, <2>2, <2>3, PairHas
<1> QED
  BY <1>7, <1>8

LEMMA MeetHas ==
  ASSUME NEW v, NEW w, NEW x, Has(v, x), Has(w, x)
  PROVE  Has(meetWith(v, w), x) /\ Has(narrowWith(v, w), x)
<1>1. PICK P \in Int : P = Infinity
  BY Ends
<1>2. PICK a \in Int, b \in Int : a = lb(v) /\ b = ub(v) /\ -P <= a /\ a <= x /\ x <= b /\ b <= P
  BY <1>1, HasBounds
<1>3. PICK c \in Int, d \in Int : c = lb(w) /\ d = ub(w) /\ -P <= c /\ c <= x /\ x <= d /\ d <= P
  BY <1>1, HasBounds
<1>4. x \in Numbers /\ x \in Int /\ v # Bottom /\ w # Bottom
  BY HasBounds
<1>5. Has(meetWith(v, w), x)
  <2>1. PICK e \in Int, f \in Int : e = Max({a, c}) /\ f = Min({b, d})
    BY MinOfTwo, MaxOfTwo
  <2>2. -P <= e /\ e <= x /\ x <= f /\ f <= P
    BY <1>2, <1>3, <2>1, MinOfTwo, MaxOfTwo
  <2>3. e <= f
    BY <1>4, <2>2
  <2>4. meetWith(v, w) = <<e, f>>
    BY <1>2, <1>3, <1>4, <2>1, <2>3 DEF meetWith, create
  <2> QED
    BY <1>1, <1>4, <2>2, <2>4, PairHas
<1>6. Has(narrowWith(v, w), x)
  <2>1. PICK e \in Int, f \in Int : /\ e = (IF Infinite(a) THEN c ELSE a)
                                    /\ f = (IF Infinite(b) THEN d ELSE b)
    OBVIOUS
  <2>2. -P <= e /\ e <= x /\ x <= f /\ f <= P
    BY <1>2, <1>3, <2>1
  <2>3. narrowWith(v, w) = <<e, f>>
    BY <1>2, <1>3, <1>4, <2>1 DEF narrowWith
  <2> QED
    BY <1>1, <1>4, <2>2, <2>3, PairHas
<1> QED
  BY <1>5, <1>6

LEMMA JoinOfHas ==
  ASSUME NEW values, \A v \in values : v = Bottom \/ IsInterval(v),
         NEW p \in values, NEW x, Has(p, x)
  PROVE  Has(JoinOf(values), x)
<1>1. PICK P \in Int : P = Infinity
  BY Ends
<1>2. PICK found : found = values \ {Bottom}
  OBVIOUS
<1>3. p \in found /\ \A v \in found : IsInterval(v)
  BY <1>2, HasBounds
<1>4. PICK S, T : S = {lb(v) : v \in found} /\ T = {ub(v) : v \in found}
  OBVIOUS
<1>5. lb(p) \in S /\ ub(p) \in T
  BY <1>3, <1>4
<1>6. \A z \in S \union T : z \in Int /\ -P <= z /\ z <= P
  BY <1>1, <1>3, <1>4, InReach DEF IsInterval
<1>7. Min(S) \in S /\ \A z \in S : Min(S) <= z
  <2>1. -P \in Int /\ S # {} /\ \A z \in S : z \in Int /\ -P <= z
    BY <1>5, <1>6
  <2> QED
    BY <2>1, MinOf
<1>8. Max(T) \in T /\ \A z \in T : z <= Max(T)
  <2>1. T # {} /\ \A z \in T : z \in Int /\ z <= P
    BY <1>5, <1>6
  <2> QED
    BY <2>1, MaxOf
<1>9. PICK e \in Int, f \in Int : e = Min(S) /\ f = Max(T) /\ -P <= e /\ f <= P
  BY <1>6, <1>7, <1>8
<1>10. e <= lb(p) /\ ub(p) <= f /\ lb(p) \in Int /\ ub(p) \in Int
  BY <1>5, <1>6, <1>7, <1>8, <1>9
<1>11. x \in Numbers /\ x \in Int /\ lb(p) <= x /\ x <= ub(p)
  BY HasBounds
<1>12. e <= x /\ x <= f
  BY <1>10, <1>11
<1>13. JoinOf(values) = <<e, f>>
  BY <1>2, <1>3, <1>4, <1>9 DEF JoinOf
<1> QED
  BY <1>1, <1>9, <1>11, <1>12, <1>13, PairHas

LEMMA SaturatedIs ==
  ASSUME NEW x \in Int
  PROVE  Saturated(x) = IF x < -Infinity THEN -Infinity ELSE IF x > Infinity THEN Infinity ELSE x
<1>1. PICK P \in Int : P = Infinity /\ P >= 2
  BY Ends
<1>2. PICK y \in Int : y = Min({P, x}) /\ y = IF P <= x THEN P ELSE x
  BY MinOfTwo
<1>3. Max({-P, y}) = IF -P <= y THEN y ELSE -P
  BY MaxOfTwo
<1> QED
  BY <1>1, <1>2, <1>3 DEF Saturated

\* The sum of two lower bounds is no more, and of two upper bounds no less, than a sum of
\* numbers between.
LEMMA SafeAdd ==
  ASSUME NEW a \in Int, NEW b \in Int, NEW x \in Int, NEW y \in Int, x + y \in Numbers,
         -Infinity <= a, a <= Infinity, -Infinity <= b, b <= Infinity,
         x < Infinity, y < Infinity, -Infinity < x, -Infinity < y
  PROVE  /\ safeAdd(a, b) \in Int /\ -Infinity <= safeAdd(a, b) /\ safeAdd(a, b) <= Infinity
         /\ a <= x /\ b <= y => safeAdd(a, b) <= x + y
         /\ x <= a /\ y <= b => x + y <= safeAdd(a, b)
<1>1. PICK P \in Int : P = Infinity /\ P >= 2
  BY Ends
<1>2. -P < x + y /\ x + y < P
  BY <1>1, InNumbers
<1>3. safeAdd(a, b) = IF a = P \/ b = P THEN P ELSE IF a = -P \/ b = -P THEN -P
                      ELSE IF a + b < -P THEN -P ELSE IF a + b > P THEN P ELSE a + b
  <2>1. Saturated(a + b) = IF a + b < -P THEN -P ELSE IF a + b > P THEN P ELSE a + b
    BY <1>1, SaturatedIs
  <2> QED
    BY <1>1, <2>1 DEF safeAdd
<1>4. -P <= a /\ a <= P /\ -P <= b /\ b <= P /\ -P < x /\ -P < y /\ x < P /\ y < P
  BY <1>1
<1>5. safeAdd(a, b) \in Int /\ -P <= safeAdd(a, b) /\ safeAdd(a, b) <= P
  BY <1>1, <1>3
<1>6. a <= x /\ b <= y => safeAdd(a, b) <= x + y
  BY <1>2, <1>3, <1>4
<1>7. x <= a /\ y <= b => x + y <= safeAdd(a, b)
  BY <1>2, <1>3, <1>4
<1> QED
  BY <1>1, <1>5, <1>6, <1>7

LEMMA PlusHas ==
  ASSUME NEW v, NEW w, NEW x, NEW y, Has(v, x), Has(w, y), x + y \in Numbers
  PROVE  Has(Plus(v, w), x + y)
<1>1. PICK P \in Int : P = Infinity /\ P >= 2
  BY Ends
<1>2. PICK a \in Int, b \in Int : a = lb(v) /\ b = ub(v) /\ -P <= a /\ a <= x /\ x <= b /\ b <= P
  BY <1>1, HasBounds
<1>3. PICK c \in Int, d \in Int : c = lb(w) /\ d = ub(w) /\ -P <= c /\ c <= y /\ y <= d /\ d <= P
  BY <1>1, HasBounds
<1>4. x \in Int /\ y \in Int /\ -P < x /\ x < P /\ -P < y /\ y < P
  BY <1>1, HasBounds
<1>5. a <= P /\ -P <= b /\ c <= P /\ -P <= d
  BY <1>2, <1>3, <1>4
<1>6. PICK e \in Int, f \in Int : e = safeAdd(a, c) /\ f = safeAdd(b, d)
                               /\ -P <= e /\ e <= x + y /\ x + y <= f /\ f <= P
  BY <1>1, <1>2, <1>3, <1>4, <1>5, SafeAdd
<1>7. Has(<<e, f>>, x + y)
  BY <1>1, <1>6, PairHas
<1> QED
  BY <1>2, <1>3, <1>6, <1>7, TopHas DEF Plus

LEMMA MinusHas ==
  ASSUME NEW v, NEW w, NEW x, NEW y, Has(v, x), Has(w, y), x - y \in Numbers
  PROVE  Has(Minus(v, w), x - y)
<1>1. PICK P \in Int : P = Infinity /\ P >= 2
  BY Ends
<1>2. PICK a \in Int, b \in Int : a = lb(v) /\ b = ub(v) /\ -P <= a /\ a <= x /\ x <= b /\ b <= P
  BY <1>1, HasBounds
<1>3. PICK c \in Int, d \in Int : c = -ub(w) /\ d = -lb(w) /\ -P <= c /\ c <= -y /\ -y <= d /\ d <= P
  BY <1>1, HasBounds
<1>4. x \in Int /\ y \in Int /\ -P < x /\ x < P /\ -P < -y /\ -y < P
  BY <1>1, HasBounds
<1>5. PICK z \in Int : z = -y /\ x + z = x - y
  BY <1>4
<1>6. a <= P /\ -P <= b /\ c <= P /\ -P <= d
  BY <1>2, <1>3, <1>4
<1>7. PICK e \in Int, f \in Int : e = safeAdd(a, c) /\ f = safeAdd(b, d)
                               /\ -P <= e /\ e <= x + z /\ x + z <= f /\ f <= P
  BY <1>1, <1>2, <1>3, <1>4, <1>5, <1>6, SafeAdd
<1>8. Has(<<e, f>>, x - y)
  BY <1>1, <1>5, <1>7, PairHas
<1> QED
  BY <1>2, <1>3, <1>7, <1>8, TopHas DEF Minus

\* A product of a number and one, y, that need not be a number itself.
LEMMA TimesHas ==
  ASSUME NEW v, NEW w, NEW x, NEW y \in Int, Has(v, x), IsInterval(w), lb(w) <= y, y <= ub(w),
         x * y \in Numbers
  PROVE  Has(Times(v, w), x * y)
<1>1. PICK P \in Int : P = Infinity /\ P >= 2
  BY Ends
<1>2. PICK a \in Int, b \in Int : a = lb(v) /\ b = ub(v) /\ x \in a .. b
  BY <1>1, HasBounds
<1>3. PICK c \in Int, d \in Int : c = lb(w) /\ d = ub(w) /\ y \in c .. d
  BY InReach DEF IsInterval
<1> DEFINE S == {safeMul(p, q) : p \in {a, b}, q \in {c, d}}
<1>4. /\ \A p \in {a, b}, q \in {c, d} : safeMul(p, q) \in S
      /\ \A u \in S : \E p \in {a, b}, q \in {c, d} : u = safeMul(p, q)
  OBVIOUS
<1>4a. Times(v, w) = Hull(S)
  BY <1>2, <1>3 DEF Times, Bounds
<1> HIDE DEF S
<1>5. PICK z \in Int : z = x * y /\ -P < z /\ z < P
  BY <1>1, InNumbers
<1>6. \A p \in {a, b}, q \in {c, d} :
         /\ p * q \in Int
         /\ safeMul(p, q) = IF p * q < -P THEN -P ELSE IF p * q > P THEN P ELSE p * q
  BY <1>1, SaturatedIs DEF safeMul
<1>7. S \in SUBSET Reach
  <2>1. ASSUME NEW p \in {a, b}, NEW q \in {c, d} PROVE safeMul(p, q) \in Reach
    <3>1. safeMul(p, q) \in Int /\ -P <= safeMul(p, q) /\ safeMul(p, q) <= P
      BY <1>1, <1>6
    <3> QED
      BY <1>1, <3>1, InReach
  <2> QED
    BY <1>4, <2>1
<1>8. \E u \in S : u <= z
  <2>1. PICK p \in {a, b}, q \in {c, d} : p * q <= x * y
    BY <1>2, <1>3, ProductCorners
  <2>2. safeMul(p, q) <= z
    BY <1>5, <1>6, <2>1
  <2> QED
    BY <1>4, <2>2
<1>9. \E u \in S : z <= u
  <2>1. PICK p \in {a, b}, q \in {c, d} : x * y <= p * q
    BY <1>2, <1>3, ProductCorners
  <2>2. z <= safeMul(p, q)
    BY <1>5, <1>6, <2>1
  <2> QED
    BY <1>4, <2>2
<1>10. Has(Hull(S), z)
  BY <1>5, <1>7, <1>8, <1>9, HullHas
<1> QED
  BY <1>4a, <1>5, <1>10

LEMMA QuotientOfNegated ==
  ASSUME NEW x \in Int, NEW y \in Int, x # 0, y # 0
  PROVE  Quotient(-x, y) = -Quotient(x, y)
<1>1. PICK A \in Nat : A = Abs(x) /\ A = Abs(-x)
  BY DEF Abs
<1>2. PICK B \in Nat \ {0} : B = Abs(y)
  BY DEF Abs
<1>3. A \div B \in Int
  BY Floor
<1>4. ((-x < 0) = (y < 0)) <=> ~ ((x < 0) = (y < 0))
  OBVIOUS
<1> QED
  BY <1>1, <1>2, <1>3, <1>4 DEF Quotient

LEMMA DivideBoundsIs ==
  ASSUME NEW x \in Reach, NEW y \in Reach, x # 0, y # 0
  PROVE  /\ DivideBounds(x, y) \in Reach
         /\ x \notin {-Infinity, Infinity} => DivideBounds(x, y) = Quotient(x, y)
         /\ x \in {-Infinity, Infinity} =>
              DivideBounds(x, y) = IF (x > 0) = (y > 0) THEN Infinity ELSE -Infinity
<1>1. PICK P \in Int : P = Infinity /\ P >= 2
  BY Ends
<1>2. x \in Int /\ y \in Int /\ -P <= x /\ x <= P /\ -P <= y /\ y <= P
  BY <1>1, InReach
<1>3. CASE x \notin {-P, P}
  <2>1. Quotient(x, y) \in Int /\ -P <= Quotient(x, y) /\ Quotient(x, y) <= P
    <3>1. Abs(x) \in Int /\ Abs(x) <= P
      BY <1>2 DEF Abs
    <3> QED
      BY <1>2, <3>1, QuotientType
  <2>2. y \in {-P, P} => Quotient(x, y) = 0
    <3> SUFFICES ASSUME y \in {-P, P} PROVE Quotient(x, y) = 0
      OBVIOUS
    <3>1. PICK A \in Nat : A = Abs(x) /\ A < P
      BY <1>2, <1>3 DEF Abs
    <3>2. Abs(y) = P /\ P \in Nat \ {0}
      BY <1>1 DEF Abs
    <3>3. A \div P = 0
      BY <3>1, <3>2, FloorOfLess
    <3> QED
      BY <3>1, <3>2, <3>3 DEF Quotient
  <2>3. DivideBounds(x, y) = Quotient(x, y)
    BY <1>1, <1>3, <2>2 DEF DivideBounds, Infinite
  <2> QED
    BY <1>1, <1>3, <2>1, <2>3, InReach
<1>4. CASE x \in {-P, P}
  <2>1. DivideBounds(x, y) = IF (x > 0) = (y > 0) THEN P ELSE -P
    <3>1. CASE y \in {-P, P}
      BY <1>1, <1>4, <3>1 DEF DivideBounds, Infinite
    <3>2. CASE y \notin {-P, P}
      <4>1. DivideBounds(x, y) = IF y >= 0 THEN x ELSE -x
        BY <1>1, <1>4, <3>2 DEF DivideBounds, Infinite
      <4> QED
        BY <1>1, <1>2, <1>4, <4>1
    <3> QED
      BY <3>1, <3>2
  <2>2. P \in Reach /\ -P \in Reach
    BY <1>1, InReach
  <2> QED
    BY <1>1, <1>4, <2>1, <2>2
<1> QED
  BY <1>3, <1>4

LEMMA DivideBoundsOpposite ==
  ASSUME NEW x \in Reach, NEW y \in Reach, x # 0, y # 0
  PROVE  /\ -x \in Reach /\ -y \in Reach
         /\ DivideBounds(-x, y) = -DivideBounds(x, y)
         /\ DivideBounds(x, -y) = -DivideBounds(x, y)
<1>1. PICK P \in Int : P = Infinity /\ P >= 2
  BY Ends
<1>2. x \in Int /\ y \in Int /\ -P <= x /\ x <= P /\ -P <= y /\ y <= P
  BY <1>1, InReach
<1>3. -x \in Reach /\ -y \in Reach /\ -x # 0 /\ -y # 0
  <2>1. -x \in Int /\ -y \in Int /\ -P <= -x /\ -x <= P /\ -P <= -y /\ -y <= P
    BY <1>2
  <2> QED
    BY <1>1, <1>2, <2>1, InReach
<1>4. CASE x \notin {-P, P}
  <2>1. -x \notin {-P, P}
    BY <1>1, <1>2, <1>4
  <2>2. /\ DivideBounds(x, y) = Quotient(x, y)
        /\ DivideBounds(-x, y) = Quotient(-x, y)
        /\ DivideBounds(x, -y) = Quotient(x, -y)
    BY <1>1, <1>3, <1>4, <2>1, DivideBoundsIs
  <2> QED
    BY <1>2, <1>3, <2>2, QuotientOfNegated, QuotientOfOpposite
<1>5. CASE x \in {-P, P}
  <2>1. -x \in {-P, P} /\ - (-P) = P
    BY <1>1, <1>5
  <2>2. /\ DivideBounds(x, y) = IF (x > 0) = (y > 0) THEN P ELSE -P
        /\ DivideBounds(-x, y) = IF (-x > 0) = (y > 0) THEN P ELSE -P
        /\ DivideBounds(x, -y) = IF (x > 0) = (-y > 0) THEN P ELSE -P
    BY <1>1, <1>3, <1>5, <2>1, DivideBoundsIs
  <2>3. /\ ((-x > 0) = (y > 0)) <=> ~ ((x > 0) = (y > 0))
        /\ ((x > 0) = (-y > 0)) <=> ~ ((x > 0) = (y > 0))
    BY <1>2
  <2> QED
    BY <1>1, <1>3, <2>1, <2>2, <2>3
<1> QED
  BY <1>3, <1>4, <1>5

LEMMA PositiveQuotient ==
  ASSUME NEW a \in Reach, NEW b \in Reach, NEW c \in Reach, NEW d \in Reach,
         NEW x \in Numbers, NEW y \in Numbers,
         0 < a, a <= x, x <= b, 0 < c, c <= y, y <= d, Quotient(x, y) \in Numbers
  PROVE  DivideBounds(a, d) <= Quotient(x, y) /\ Quotient(x, y) <= DivideBounds(b, c)
<1>1. PICK P \in Int : P = Infinity /\ P >= 2
  BY Ends
<1>2. /\ a \in Nat \ {0} /\ b \in Nat \ {0} /\ c \in Nat \ {0} /\ d \in Nat \ {0}
      /\ x \in Nat \ {0} /\ y \in Nat \ {0} /\ x < P /\ y < P /\ b <= P
  BY <1>1, InReach, InNumbers
<1>3. PICK z \in Int : z = Quotient(x, y) /\ z < P
  BY <1>1, InNumbers
<1>4. \A p, q \in Nat \ {0} : Quotient(p, q) \in Int
  BY QuotientType
<1>5. DivideBounds(a, d) <= z
  <2>1. a \notin {-P, P}
    BY <1>1, <1>2
  <2>2. DivideBounds(a, d) = Quotient(a, d)
    BY <1>1, <1>2, <2>1, DivideBoundsIs
  <2>3. y <= d /\ a <= x
    OBVIOUS
  <2>4. Quotient(a, d) <= Quotient(a, y)
    BY <1>2, <2>3, QuotientOfMore
  <2>5. Quotient(a, y) <= Quotient(x, y)
    BY <1>2, <2>3, QuotientGrows
  <2>6. Quotient(a, d) \in Int /\ Quotient(a, y) \in Int
    BY <1>2, <1>4
  <2> QED
    BY <1>3, <2>2, <2>4, <2>5, <2>6
<1>6. z <= DivideBounds(b, c)
  <2>1. CASE b = P
    <3>1. b \in {-P, P} /\ (b > 0) = (c > 0) /\ b # 0 /\ c # 0
      BY <1>1, <1>2, <2>1
    <3>2. DivideBounds(b, c) = P
      BY <1>1, <3>1, DivideBoundsIs
    <3> QED
      BY <1>1, <1>3, <3>2
  <2>2. CASE b # P
    <3>1. b \notin {-P, P}
      BY <1>1, <1>2, <2>2
    <3>2. DivideBounds(b, c) = Quotient(b, c)
      BY <1>1, <1>2, <3>1, DivideBoundsIs
    <3>3. c <= y /\ x <= b
      OBVIOUS
    <3>4. Quotient(b, y) <= Quotient(b, c)
      BY <1>2, <3>3, QuotientOfMore
    <3>5. Quotient(x, y) <= Quotient(b, y)
      BY <1>2, <3>3, QuotientGrows
    <3>6. Quotient(b, c) \in Int /\ Quotient(b, y) \in Int
      BY <1>2, <1>4
    <3> QED
      BY <1>3, <3>2, <3>4, <3>5, <3>6
  <2> QED
    BY <2>1, <2>2
<1> QED
  BY <1>3, <1>5, <1>6

\* The interval v without zero on one of its sides.
Signed(p) == IsInterval(p) /\ lb(p) # 0 /\ ub(p) # 0

LEMMA Pieces ==
  ASSUME NEW v, NEW x, Has(v, x)
  PROVE  /\ \A p \in WithoutZero(v) : Signed(p)
         /\ x # 0 => \E p \in WithoutZero(v) : Has(p, x) /\ (lb(p) > 0 \/ ub(p) < 0)
         /\ \A p \in ZeroOf(v) : IsInterval(p)
         /\ x = 0 => Number(0) \in ZeroOf(v)
<1>1. PICK P \in Int : P = Infinity /\ P >= 2
  BY Ends
<1>2. PICK a \in Int, b \in Int : a = lb(v) /\ b = ub(v) /\ -P <= a /\ a <= x /\ x <= b /\ b <= P
  BY <1>1, HasBounds
<1>3. x \in Int /\ x \in Numbers /\ -P < x /\ x < P /\ IsInterval(v)
  BY <1>1, HasBounds DEF Has
<1>4. \A r, s \in Int : lb(<<r, s>>) = r /\ ub(<<r, s>>) = s
  BY DEF lb, ub
<1>5. CASE ~ Contains(v, 0)
  <2>1. WithoutZero(v) = {v} /\ ZeroOf(v) = {}
    BY <1>5 DEF WithoutZero, ZeroOf
  <2>2. a > 0 \/ b < 0
    BY <1>2, <1>5 DEF Contains
  <2>3. x # 0 /\ a # 0 /\ b # 0
    BY <1>2, <1>3, <2>2
  <2> QED
    BY <1>2, <1>3, <2>1, <2>2, <2>3 DEF Signed
<1>6. CASE Contains(v, 0)
  <2>1. a <= 0 /\ 0 <= b
    BY <1>2, <1>6 DEF Contains
  <2>2. WithoutZero(v) = {create(a, -1), create(1, b)} \ {Bottom}
    BY <1>2, <1>6 DEF WithoutZero
  <2>3. /\ a <= -1 => create(a, -1) = <<a, -1>>
        /\ ~ (a <= -1) => create(a, -1) = Bottom
        /\ 1 <= b => create(1, b) = <<1, b>>
        /\ ~ (1 <= b) => create(1, b) = Bottom
    BY DEF create
  <2>4. \A r, s \in Int : <<r, s>> # Bottom
    BY DEF Bottom
  <2>5. \A r, s \in Int : r \in -P .. P /\ s \in -P .. P => IsInterval(<<r, s>>)
    BY <1>1, PairIsInterval DEF Reach
  <2>6. ASSUME NEW p \in WithoutZero(v) PROVE Signed(p)
    <3>1. (a <= -1 /\ p = <<a, -1>>) \/ (1 <= b /\ p = <<1, b>>)
      BY <2>2, <2>3, <2>6
    <3>2. CASE a <= -1 /\ p = <<a, -1>>
      <4>1. a \in -P .. P /\ -1 \in -P .. P
        BY <1>1, <1>2, <1>3
      <4>2. IsInterval(p) /\ lb(p) = a /\ ub(p) = -1
        BY <1>4, <2>5, <3>2, <4>1
      <4> QED
        BY <3>2, <4>2 DEF Signed
    <3>3. CASE 1 <= b /\ p = <<1, b>>
      <4>1. b \in -P .. P /\ 1 \in -P .. P
        BY <1>1, <1>2, <1>3
      <4>2. IsInterval(p) /\ lb(p) = 1 /\ ub(p) = b
        BY <1>4, <2>5, <3>3, <4>1
      <4> QED
        BY <3>3, <4>2 DEF Signed
    <3> QED
      BY <3>1, <3>2, <3>3
  <2>7. ASSUME x # 0 PROVE \E p \in WithoutZero(v) : Has(p, x) /\ (lb(p) > 0 \/ ub(p) < 0)
    <3>1. CASE x > 0
      <4>1. 1 <= b /\ 1 <= x /\ -P <= 1
        BY <1>1, <1>2, <1>3, <3>1
      <4>2. Has(<<1, b>>, x)
        BY <1>1, <1>2, <1>3, <4>1, PairHas
      <4>3. <<1, b>> \in WithoutZero(v) /\ lb(<<1, b>>) > 0
        BY <1>4, <2>2, <2>3, <2>4, <4>1
      <4> QED
        BY <4>2, <4>3
    <3>2. CASE x < 0
      <4>1. a <= -1 /\ x <= -1 /\ -1 <= P /\ -1 \in Int
        BY <1>1, <1>2, <1>3, <3>2
      <4>2. Has(<<a, -1>>, x)
        BY <1>1, <1>2, <1>3, <4>1, PairHas
      <4>3. <<a, -1>> \in WithoutZero(v)
        BY <2>2, <2>3, <2>4, <4>1
      <4>4. ub(<<a, -1>>) < 0
        BY <1>4
      <4> QED
        BY <4>2, <4>3, <4>4
    <3> QED
      BY <1>3, <2>7, <3>1, <3>2
  <2>8. ZeroOf(v) = {Number(0)}
    BY <1>6 DEF ZeroOf
  <2>9. IsInterval(Number(0))
    <3>1. 0 \in -P .. P
      BY <1>1
    <3> QED
      BY <2>5, <3>1 DEF Number
  <2> QED
    BY <2>6, <2>7, <2>8, <2>9
<1> QED
  BY <1>5, <1>6

LEMMA QuotientOfPieces ==
  ASSUME NEW a \in Reach, NEW b \in Reach, NEW c \in Reach, NEW d \in Reach,
         NEW x \in Numbers, NEW y \in Numbers, a <= x, x <= b, c <= y, y <= d,
         a > 0 \/ b < 0, c > 0 \/ d < 0, Quotient(x, y) \in Numbers
  PROVE  /\ \E p \in {a, b}, q \in {c, d} : DivideBounds(p, q) <= Quotient(x, y)
         /\ \E p \in {a, b}, q \in {c, d} : Quotient(x, y) <= DivideBounds(p, q)
<1>1. PICK P \in Int : P = Infinity /\ P >= 2
  BY Ends
<1>2. a \in Int /\ b \in Int /\ c \in Int /\ d \in Int /\ x \in Int /\ y \in Int
  BY InReach, InNumbers
<1>3. a # 0 /\ b # 0 /\ c # 0 /\ d # 0 /\ x # 0 /\ y # 0
  BY <1>2
<1>4. -a \in Reach /\ -b \in Reach /\ -c \in Reach /\ -d \in Reach /\ -x \in Numbers /\ -y \in Numbers
  <2>1. \A r \in Int : r \in Reach => -r \in Reach
    BY <1>1, InReach
  <2>2. \A r \in Int : r \in Numbers => -r \in Numbers
    BY <1>1, InNumbers
  <2> QED
    BY <1>2, <2>1, <2>2
<1>5. PICK z \in Int : z = Quotient(x, y) /\ z \in Numbers /\ -z \in Numbers
  <2>1. \A r \in Int : r \in Numbers => -r \in Numbers
    BY <1>1, InNumbers
  <2> QED
    BY <2>1, InNumbers
<1>6. \A p \in {a, b}, q \in {c, d} :
         /\ DivideBounds(p, q) \in Int /\ DivideBounds(-p, q) \in Int
         /\ DivideBounds(p, -q) \in Int /\ DivideBounds(-p, -q) \in Int
         /\ DivideBounds(-p, q) = -DivideBounds(p, q)
         /\ DivideBounds(p, -q) = -DivideBounds(p, q)
         /\ DivideBounds(-p, -q) = DivideBounds(p, q)
  <2> TAKE p \in {a, b}, q \in {c, d}
  <2>1. p \in Reach /\ q \in Reach /\ p # 0 /\ q # 0 /\ -p \in Reach /\ -p # 0 /\ p \in Int /\ q \in Int
    BY <1>2, <1>3, <1>4
  <2>2. /\ DivideBounds(-p, q) = -DivideBounds(p, q)
        /\ DivideBounds(p, -q) = -DivideBounds(p, q)
        /\ DivideBounds(-p, -q) = -DivideBounds(-p, q)
    BY <2>1, DivideBoundsOpposite
  <2>3. DivideBounds(p, q) \in Int
    BY <2>1, DivideBoundsIs, InReach
  <2> QED
    BY <2>2, <2>3
<1>7. Quotient(-x, y) = -z /\ Quotient(x, -y) = -z /\ Quotient(-x, -y) = z
  <2>1. Quotient(-x, y) = -z /\ Quotient(x, -y) = -z
    BY <1>2, <1>3, <1>5, QuotientOfNegated, QuotientOfOpposite
  <2>2. -x \in Int /\ -x # 0
    BY <1>2, <1>3
  <2>3. Quotient(-x, -y) = -Quotient(-x, y)
    BY <1>2, <1>3, <2>2, QuotientOfOpposite
  <2> QED
    BY <1>5, <2>1, <2>3
<1>8. CASE a > 0 /\ c > 0
  <2>1. DivideBounds(a, d) <= z /\ z <= DivideBounds(b, c)
    BY <1>5, <1>8, PositiveQuotient
  <2> QED
    BY <1>5, <2>1
<1>9. CASE b < 0 /\ c > 0
  <2>1. 0 < -b /\ -b <= -x /\ -x <= -a
    BY <1>2, <1>9
  <2>2. DivideBounds(-b, d) <= -z /\ -z <= DivideBounds(-a, c)
    <3>1. PICK e \in Reach, f \in Reach, u \in Numbers : e = -b /\ f = -a /\ u = -x
      BY <1>4
    <3>2. 0 < e /\ e <= u /\ u <= f /\ 0 < c
      BY <1>2, <1>9, <2>1, <3>1
    <3>3. Quotient(u, y) = -z /\ Quotient(u, y) \in Numbers
      BY <1>5, <1>7, <3>1
    <3>4. DivideBounds(e, d) <= Quotient(u, y) /\ Quotient(u, y) <= DivideBounds(f, c)
      BY <3>2, <3>3, PositiveQuotient
    <3> QED
      BY <3>1, <3>3, <3>4
  <2>3. DivideBounds(a, c) <= z /\ z <= DivideBounds(b, d)
    BY <1>5, <1>6, <2>2
  <2> QED
    BY <1>5, <2>3
<1>10. CASE a > 0 /\ d < 0
  <2>1. 0 < -d /\ -d <= -y /\ -y <= -c
    BY <1>2, <1>10
  <2>2. DivideBounds(a, -c) <= -z /\ -z <= DivideBounds(b, -d)
    <3>1. PICK g \in Reach, h \in Reach, t \in Numbers : g = -d /\ h = -c /\ t = -y
      BY <1>4
    <3>2. 0 < g /\ g <= t /\ t <= h /\ 0 < a
      BY <1>2, <1>10, <2>1, <3>1
    <3>3. Quotient(x, t) = -z /\ Quotient(x, t) \in Numbers
      BY <1>5, <1>7, <3>1
    <3>4. DivideBounds(a, h) <= Quotient(x, t) /\ Quotient(x, t) <= DivideBounds(b, g)
      BY <3>2, <3>3, PositiveQuotient
    <3> QED
      BY <3>1, <3>3, <3>4
  <2>3. DivideBounds(b, d) <= z /\ z <= DivideBounds(a, c)
    BY <1>5, <1>6, <2>2
  <2> QED
    BY <1>5, <2>3
<1>11. CASE b < 0 /\ d < 0
  <2>1. 0 < -b /\ -b <= -x /\ -x <= -a /\ 0 < -d /\ -d <= -y /\ -y <= -c
    BY <1>2, <1>11
  <2>2. DivideBounds(-b, -c) <= z /\ z <= DivideBounds(-a, -d)
    <3>1. PICK e \in Reach, f \in Reach, u \in Numbers : e = -b /\ f = -a /\ u = -x
      BY <1>4
    <3>2. PICK g \in Reach, h \in Reach, t \in Numbers : g = -d /\ h = -c /\ t = -y
      BY <1>4
    <3>3. 0 < e /\ e <= u /\ u <= f
      BY <2>1, <3>1
    <3>4. 0 < g /\ g <= t /\ t <= h
      BY <2>1, <3>2
    <3>5. Quotient(u, t) = z /\ Quotient(u, t) \in Numbers
      BY <1>5, <1>7, <3>1, <3>2
    <3>6. DivideBounds(e, h) <= Quotient(u, t) /\ Quotient(u, t) <= DivideBounds(f, g)
      BY <3>3, <3>4, <3>5, PositiveQuotient
    <3> QED
      BY <3>1, <3>2, <3>5, <3>6
  <2>3. DivideBounds(b, c) <= z /\ z <= DivideBounds(a, d)
    BY <1>6, <2>2
  <2> QED
    BY <1>5, <2>3
<1> QED
  BY <1>8, <1>9, <1>10, <1>11

LEMMA OverHas ==
  ASSUME NEW v, NEW w, NEW x, NEW y, Has(v, x), Has(w, y), y # 0, Quotient(x, y) \in Numbers
  PROVE  Has(Over(v, w), Quotient(x, y))
<1> DEFINE Quotients(p, q) == {DivideBounds(r, s) : r \in Bounds(p), s \in Bounds(q)}
           found == {Hull(Quotients(p, q)) : p \in WithoutZero(v), q \in WithoutZero(w)}
                    \union ZeroOf(v)
<1>1. PICK q \in WithoutZero(w) : Has(q, y) /\ (lb(q) > 0 \/ ub(q) < 0)
  BY Pieces
<1>2. Over(v, w) = JoinOf(found)
  BY <1>1 DEF Over
<1>3. ASSUME NEW p \in WithoutZero(v), NEW s \in WithoutZero(w)
      PROVE  /\ Quotients(p, s) \in SUBSET Reach /\ Quotients(p, s) # {}
             /\ \A t \in Bounds(p), u \in Bounds(s) : DivideBounds(t, u) \in Quotients(p, s)
  <2>1. Signed(p) /\ Signed(s)
    BY Pieces
  <2>2. \A t \in Bounds(p), u \in Bounds(s) : t \in Reach /\ u \in Reach /\ t # 0 /\ u # 0
    BY <2>1 DEF Signed, IsInterval, Bounds
  <2>3. \A t \in Bounds(p), u \in Bounds(s) : DivideBounds(t, u) \in Reach
    BY <2>2, DivideBoundsIs
  <2>4. lb(p) \in Bounds(p) /\ lb(s) \in Bounds(s)
    BY DEF Bounds
  <2>5. /\ \A t \in Bounds(p), u \in Bounds(s) : DivideBounds(t, u) \in Quotients(p, s)
        /\ \A z \in Quotients(p, s) : \E t \in Bounds(p), u \in Bounds(s) : z = DivideBounds(t, u)
    OBVIOUS
  <2> HIDE DEF Quotients
  <2>6. DivideBounds(lb(p), lb(s)) \in Quotients(p, s)
    BY <2>4, <2>5
  <2>7. \A z \in Quotients(p, s) : z \in Reach
    BY <2>3, <2>5
  <2> QED
    BY <2>5, <2>6, <2>7
<1>4. /\ \A p \in WithoutZero(v), s \in WithoutZero(w) : Hull(Quotients(p, s)) \in found
      /\ ZeroOf(v) \subseteq found
      /\ \A u \in found : \/ u \in ZeroOf(v)
                          \/ \E p \in WithoutZero(v), s \in WithoutZero(w) : u = Hull(Quotients(p, s))
  <2> HIDE DEF Quotients
  <2> QED
    OBVIOUS
<1> HIDE DEF Quotients, found
<1>5. \A u \in found : IsInterval(u)
  <2> TAKE u \in found
  <2>1. CASE u \in ZeroOf(v)
    BY <2>1, Pieces
  <2>2. ASSUME NEW p \in WithoutZero(v), NEW s \in WithoutZero(w), u = Hull(Quotients(p, s))
        PROVE  IsInterval(u)
    BY <1>3, <2>2, HullBounds
  <2> QED
    BY <1>4, <2>1, <2>2
<1>6. CASE x = 0
  <2>1. Number(0) \in found
    BY <1>4, <1>6, Pieces
  <2>2. Quotient(x, y) = 0
    <3>1. y \in Int /\ x \in Int
      BY HasBounds
    <3>2. Abs(x) = 0
      BY <1>6 DEF Abs
    <3>3. Quotient(x, y) \in Int /\ -0 <= Quotient(x, y) /\ Quotient(x, y) <= 0
      BY <3>1, <3>2, QuotientType
    <3> QED
      BY <3>3
  <2>3. Has(Number(0), Quotient(x, y))
    BY <2>2, NumberHas
  <2> QED
    BY <1>2, <1>5, <2>1, <2>3, JoinOfHas
<1>7. CASE x # 0
  <2>1. PICK p \in WithoutZero(v) : Has(p, x) /\ (lb(p) > 0 \/ ub(p) < 0)
    BY <1>7, Pieces
  <2>2. PICK a, b, c, d : a = lb(p) /\ b = ub(p) /\ c = lb(q) /\ d = ub(q)
    OBVIOUS
  <2>3. a \in Reach /\ b \in Reach /\ c \in Reach /\ d \in Reach /\ x \in Numbers /\ y \in Numbers
    BY <1>1, <2>1, <2>2 DEF Has, IsInterval
  <2>4. a <= x /\ x <= b /\ c <= y /\ y <= d /\ (a > 0 \/ b < 0) /\ (c > 0 \/ d < 0)
    BY <1>1, <2>1, <2>2 DEF Has, Contains
  <2>5. /\ \E r \in {a, b}, s \in {c, d} : DivideBounds(r, s) <= Quotient(x, y)
        /\ \E r \in {a, b}, s \in {c, d} : Quotient(x, y) <= DivideBounds(r, s)
    BY <2>3, <2>4, QuotientOfPieces
  <2>6. Bounds(p) = {a, b} /\ Bounds(q) = {c, d}
    BY <2>2 DEF Bounds
  <2>7. /\ \E u \in Quotients(p, q) : u <= Quotient(x, y)
        /\ \E u \in Quotients(p, q) : Quotient(x, y) <= u
    BY <1>1, <1>3, <2>1, <2>5, <2>6
  <2>8. Has(Hull(Quotients(p, q)), Quotient(x, y))
    BY <1>1, <1>3, <2>1, <2>7, HullHas
  <2> QED
    BY <1>1, <1>2, <1>4, <1>5, <2>1, <2>8, JoinOfHas
<1> QED
  BY <1>6, <1>7

LEMMA ModuloHas ==
  ASSUME NEW v, NEW w, NEW x, NEW y, Has(v, x), Has(w, y), y # 0, Remainder(x, y) \in Numbers
  PROVE  Has(Modulo(v, w), Remainder(x, y))
<1>1. PICK P \in Int : P = Infinity /\ P >= 2
  BY Ends
<1>2. PICK a \in Int, b \in Int : a = lb(v) /\ b = ub(v) /\ -P <= a /\ a <= x /\ x <= b /\ b <= P
  BY <1>1, HasBounds
<1>3. PICK c \in Int, d \in Int : c = lb(w) /\ d = ub(w) /\ -P <= c /\ c <= y /\ y <= d /\ d <= P
  BY <1>1, HasBounds
<1>4. x \in Int /\ y \in Int /\ -P < x /\ x < P /\ -P < y /\ y < P /\ x \in Numbers
  BY <1>1, HasBounds
<1>5. PICK r \in Int : r = Remainder(x, y) /\ r \in Numbers
  BY InNumbers
<1>6. PICK A \in Nat, B \in Nat : A = Abs(x) /\ B = Abs(y)
  BY <1>4 DEF Abs
<1>7. /\ -A <= r /\ r <= A /\ -B < r /\ r < B
      /\ x >= 0 => r >= 0
      /\ x <= 0 => r <= 0
  BY <1>4, <1>5, <1>6, RemainderType
<1>8. CASE Contains(w, 0)
  <2>1. CASE v = Number(0)
    <3>1. x = 0
      <4>1. a = 0 /\ b = 0
        BY <1>2, <2>1 DEF Number, lb, ub
      <4> QED
        BY <1>2, <1>4, <4>1
    <3>2. r = 0
      BY <1>7, <3>1
    <3> QED
      BY <1>5, <1>8, <2>1, <3>2, NumberHas DEF Modulo
  <2>2. CASE v # Number(0)
    BY <1>5, <1>8, <2>2, TopHas DEF Modulo
  <2> QED
    BY <2>1, <2>2
<1>9. CASE ~ Contains(w, 0) /\ isNumeral(v) /\ isNumeral(w)
  <2>1. a = b /\ c = d
    BY <1>2, <1>3, <1>9 DEF isNumeral
  <2>2. x = lb(v) /\ y = lb(w)
    BY <1>2, <1>3, <1>4, <2>1
  <2> QED
    BY <1>5, <1>9, <2>2, NumberHas DEF Modulo
<1>10. CASE ~ Contains(w, 0) /\ ~ (isNumeral(v) /\ isNumeral(w))
  <2>1. c > 0 \/ d < 0
    BY <1>3, <1>10 DEF Contains
  <2>2. PICK C \in Int, D \in Int : C = Abs(a) /\ D = Abs(b) /\ A <= (IF C <= D THEN D ELSE C)
                                   /\ C <= P /\ D <= P /\ 0 <= C /\ 0 <= D
    BY <1>2, <1>4, <1>6 DEF Abs
  <2>3. PICK M \in Int : M = Max({Abs(lb(v)), Abs(ub(v))}) /\ A <= M /\ 0 <= M /\ M <= P
    <3>1. Max({C, D}) = IF C <= D THEN D ELSE C
      BY MaxOfTwo
    <3> QED
      BY <1>2, <2>2, <3>1
  <2>4. PICK E \in Int : E = Abs(c) /\ B <= (IF E <= d THEN d ELSE E) /\ E <= P
    BY <1>3, <1>4, <1>6, <2>1 DEF Abs
  <2>5. PICK N \in Int : N = Max({Abs(lb(w)), ub(w)}) /\ B <= N /\ N <= P
    <3>1. Max({E, d}) = IF E <= d THEN d ELSE E
      BY MaxOfTwo
    <3> QED
      BY <1>3, <2>4, <3>1
  <2>6. B >= 1
    BY <1>4, <1>6 DEF Abs
  <2>7. PICK G \in Int : G = safeAdd(N, -1) /\ B - 1 <= G
    <3>1. N # -P /\ -1 # P
      BY <1>1, <2>5, <2>6
    <3>2. Saturated(N + (-1)) = N - 1
      <4>1. N + (-1) = N - 1 /\ N - 1 \in Int /\ ~ (N - 1 < -P) /\ ~ (N - 1 > P)
        BY <1>1, <2>5, <2>6
      <4> QED
        BY <1>1, <4>1, SaturatedIs
    <3>3. CASE -1 = -P
      BY <1>1, <3>3
    <3>4. CASE N = P
      BY <1>1, <2>5, <3>4 DEF safeAdd
    <3>5. CASE N # P /\ -1 # -P
      <4>1. safeAdd(N, -1) = N - 1
        BY <1>1, <3>1, <3>2, <3>5 DEF safeAdd
      <4> QED
        BY <2>5, <4>1
    <3> QED
      BY <3>3, <3>4, <3>5
  <2>8. PICK most \in Int : /\ most = Min({Max({Abs(lb(v)), Abs(ub(v))}), safeAdd(Max({Abs(lb(w)), ub(w)}), -1)})
                            /\ most = IF M <= G THEN M ELSE G
    <3>1. PICK k \in Int : k = Min({M, G}) /\ k = IF M <= G THEN M ELSE G
      BY MinOfTwo
    <3>2. M = Max({Abs(lb(v)), Abs(ub(v))}) /\ G = safeAdd(Max({Abs(lb(w)), ub(w)}), -1)
      BY <2>3, <2>5, <2>7
    <3> QED
      BY <3>1, <3>2
  <2>9. -most <= r /\ r <= most /\ 0 <= most /\ most <= P
    BY <1>6, <1>7, <2>3, <2>6, <2>7, <2>8
  <2>10. PICK e \in Int, f \in Int : e = (IF a < 0 THEN -most ELSE 0)
                                    /\ f = (IF a < 0 /\ b <= 0 THEN 0 ELSE most)
    OBVIOUS
  <2>11. Modulo(v, w) = <<e, f>>
    BY <1>2, <1>10, <2>8, <2>10 DEF Modulo
  <2>12. e <= r
    BY <1>2, <1>4, <1>7, <2>9, <2>10
  <2>13. r <= f
    BY <1>2, <1>4, <1>7, <2>9, <2>10
  <2>14. -P <= e /\ f <= P
    BY <1>1, <2>9, <2>10
  <2> QED
    BY <1>1, <1>5, <2>11, <2>12, <2>13, <2>14, PairHas
<1> QED
  BY <1>8, <1>9, <1>10

LEMMA NumeralIs ==
  ASSUME NEW v, NEW x, Has(v, x), isNumeral(v)
  PROVE  x = lb(v)
  BY HasBounds DEF isNumeral

LEMMA AndHas ==
  ASSUME NEW v, NEW w, NEW x, NEW y, Has(v, x), Has(w, y), BitAnd(x, y) \in Numbers
  PROVE  Has(And(v, w), BitAnd(x, y))
<1>1. PICK P \in Int : P = Infinity /\ P >= 2
  BY Ends
<1>2. PICK a \in Int, b \in Int : a = lb(v) /\ b = ub(v) /\ -P <= a /\ a <= x /\ x <= b /\ b <= P
  BY <1>1, HasBounds
<1>3. PICK c \in Int, d \in Int : c = lb(w) /\ d = ub(w) /\ -P <= c /\ c <= y /\ y <= d /\ d <= P
  BY <1>1, HasBounds
<1>4. x \in Int /\ y \in Int /\ -P < x /\ x < P /\ -P < y /\ y < P
  BY <1>1, HasBounds
<1>5. PICK r \in Int : r = BitAnd(x, y) /\ r \in Numbers
  BY InNumbers
<1>6. x >= 0 => 0 <= r /\ r <= x
  <2> SUFFICES ASSUME x >= 0 PROVE 0 <= r /\ r <= x
    OBVIOUS
  <2>1. x \in 0 .. Infinity - 1
    BY <1>1, <1>4
  <2>2. r \in 0 .. x
    BY <1>4, <1>5, <2>1, AndNumber
  <2> QED
    BY <2>2
<1>7. y >= 0 => 0 <= r /\ r <= y
  <2> SUFFICES ASSUME y >= 0 PROVE 0 <= r /\ r <= y
    OBVIOUS
  <2>1. y \in 0 .. Infinity - 1
    BY <1>1, <1>4
  <2>2. BitAnd(y, x) \in 0 .. y /\ BitAnd(y, x) = r
    BY <1>4, <1>5, <2>1, AndNumber, AndSymmetric
  <2> QED
    BY <2>2
<1>8. CASE isNumeral(v) /\ isNumeral(w)
  <2>1. x = lb(v) /\ y = lb(w)
    BY <1>8, NumeralIs
  <2> QED
    BY <1>5, <1>8, <2>1, NumberHas DEF And
<1>9. ASSUME NEW f \in Int, r <= f, f <= P, 0 <= r PROVE Has(<<0, f>>, r)
  BY <1>1, <1>5, <1>9, PairHas
<1>10. CASE ~ (isNumeral(v) /\ isNumeral(w))
  <2>1. CASE a >= 0 /\ c >= 0
    <3>1. PICK f \in Int : f = Min({ub(v), ub(w)}) /\ r <= f /\ f <= P
      <4>1. Min({b, d}) = IF b <= d THEN b ELSE d
        BY MinOfTwo
      <4>2. r <= b /\ r <= d
        BY <1>2, <1>3, <1>4, <1>6, <1>7, <2>1
      <4> QED
        BY <1>2, <1>3, <4>1, <4>2
    <3>2. And(v, w) = <<0, f>>
      BY <1>2, <1>3, <1>10, <2>1, <3>1 DEF And
    <3>3. 0 <= r
      BY <1>2, <1>4, <1>6, <2>1
    <3> QED
      BY <1>5, <1>9, <3>1, <3>2, <3>3
  <2>2. CASE a >= 0 /\ ~ (c >= 0)
    <3>1. And(v, w) = <<0, b>>
      BY <1>2, <1>3, <1>10, <2>2 DEF And
    <3>2. 0 <= r /\ r <= b
      BY <1>2, <1>4, <1>6, <2>2
    <3> QED
      BY <1>2, <1>5, <1>9, <3>1, <3>2
  <2>3. CASE ~ (a >= 0) /\ c >= 0
    <3>1. And(v, w) = <<0, d>>
      BY <1>2, <1>3, <1>10, <2>3 DEF And
    <3>2. 0 <= r /\ r <= d
      BY <1>3, <1>4, <1>7, <2>3
    <3> QED
      BY <1>3, <1>5, <1>9, <3>1, <3>2
  <2>4. CASE ~ (a >= 0) /\ ~ (c >= 0)
    BY <1>2, <1>3, <1>5, <1>10, <2>4, TopHas DEF And
  <2> QED
    BY <2>1, <2>2, <2>3, <2>4
<1> QED
  BY <1>8, <1>10

\* The power of two above a number.
LEMMA PowerAbove ==
  ASSUME NEW m \in Int, m < Infinity, NEW S \in SUBSET (0 .. Bits), Bits \in S,
         NEW k, k = Min({i \in S : Pow2[i] > m})
  PROVE  /\ k \in S /\ k \in 0 .. Bits /\ m < Pow2[k] /\ Pow2[k] \in Int /\ Pow2[k] <= Infinity
         /\ \A i \in S : m < Pow2[i] => k <= i
<1>1. PICK D : D = {i \in S : Pow2[i] > m}
  OBVIOUS
<1>2. Bits \in D
  BY <1>1, Ends
<1>3. \A i \in D : i \in Int /\ 0 <= i
  BY <1>1, Ends
<1>4. k \in D
  <2>1. D # {} /\ 0 \in Int
    BY <1>2
  <2>2. Min(D) \in D
    BY <1>3, <2>1, MinOf
  <2> QED
    BY <1>1, <2>2
<1>5. k \in 0 .. Bits /\ Pow2[k] > m /\ k \in S
  BY <1>1, <1>4
<1>6. k \in Nat /\ k <= Bits
  BY <1>5, Ends
<1>7. Pow2[k] \in Int /\ Pow2[k] <= Pow2[Bits]
  BY <1>6, Pow2Grows, Pow2Positive, Ends
<1>8. \A i \in D : k <= i
  <2>1. D # {} /\ 0 \in Int
    BY <1>2
  <2>2. \A i \in D : Min(D) <= i
    BY <1>3, <2>1, MinOf
  <2> QED
    BY <1>1, <2>2
<1>9. \A i \in S : m < Pow2[i] => i \in D
  BY <1>1, Pow2Positive
<1> QED
  BY <1>5, <1>7, <1>8, <1>9, Ends

LEMMA JoinedHas ==
  ASSUME NEW v, NEW w, NEW x, NEW y, Has(v, x), Has(w, y), NEW r \in {BitOr(x, y), BitXor(x, y)},
         r \in Numbers, BitsKnown(v, w) => Max({ub(v), ub(w)}) < Pow2[IntBits - 1]
  PROVE  Has(Joined(v, w), r)
<1>1. PICK P \in Int : P = Infinity /\ P >= 2
  BY Ends
<1>2. PICK a \in Int, b \in Int : a = lb(v) /\ b = ub(v) /\ -P <= a /\ a <= x /\ x <= b /\ b <= P
  BY <1>1, HasBounds
<1>3. PICK c \in Int, d \in Int : c = lb(w) /\ d = ub(w) /\ -P <= c /\ c <= y /\ y <= d /\ d <= P
  BY <1>1, HasBounds
<1>4. x \in Int /\ y \in Int /\ -P < x /\ x < P /\ -P < y /\ y < P
  BY <1>1, HasBounds
<1>5. CASE BitsKnown(v, w)
  <2>0. a >= 0 /\ c >= 0 /\ ~ Infinite(b) /\ ~ Infinite(d)
    BY <1>2, <1>3, <1>5 DEF BitsKnown
  <2>1. b < P /\ d < P
    BY <1>1, <1>2, <1>3, <2>0 DEF Infinite
  <2>2. PICK m \in Int : m = Max({b, d}) /\ b <= m /\ d <= m /\ m < P
    BY <2>1, MaxOfTwo
  <2>3. PICK k : k = Min({i \in 1 .. Bits : Pow2[i] > m})
    OBVIOUS
  <2>4. /\ k \in 0 .. Bits /\ m < Pow2[k] /\ Pow2[k] \in Int /\ Pow2[k] <= P
        /\ 0 <= k /\ k < IntBits
    <3>1. /\ (1 .. Bits) \in SUBSET (0 .. Bits) /\ Bits \in 1 .. Bits
          /\ IntBits - 1 \in 1 .. Bits
      BY Ends, IntEnds
    <3>2. m < Pow2[IntBits - 1]
      BY <1>2, <1>3, <1>5, <2>2
    <3>3. PICK S : S = 1 .. Bits
      OBVIOUS
    <3>4. S \in SUBSET (0 .. Bits) /\ Bits \in S /\ k = Min({i \in S : Pow2[i] > m})
      BY <2>3, <3>1, <3>3
    <3>5. /\ k \in 0 .. Bits /\ m < Pow2[k] /\ Pow2[k] \in Int /\ Pow2[k] <= Infinity
          /\ \A i \in S : m < Pow2[i] => k <= i
      BY <1>1, <2>2, <3>4, PowerAbove
    <3>6. k <= IntBits - 1
      BY <3>1, <3>2, <3>3, <3>5
    <3> QED
      BY <1>1, <3>5, <3>6, Ends, IntEnds
  <2>5. PICK f \in Int : f = Pow2[k] - 1 /\ f < P
    BY <2>4
  <2>6. Joined(v, w) = <<0, f>>
    <3>1. k \in Int /\ OneShifted(k) = Pow2[k] /\ Pow2[k] < Pow2[IntBits]
      BY <2>4, OneShiftedIs, IntEnds
    <3>2. -Pow2[IntBits] <= f /\ f < Pow2[IntBits]
      BY <2>4, <2>5, <3>1, IntEnds, Pow2Positive
    <3>3. ToInt(nextPowerOf2(m) - 1) = f
      BY <2>3, <2>5, <3>1, <3>2, ToIntIs DEF nextPowerOf2
    <3> QED
      BY <1>2, <1>3, <1>5, <2>2, <3>3 DEF Joined
  <2>7. x \in 0 .. Infinity - 1 /\ y \in 0 .. Infinity - 1 /\ x < Pow2[k] /\ y < Pow2[k]
    BY <1>1, <1>2, <1>3, <1>4, <2>0, <2>2, <2>4
  <2>8. r \in Int /\ 0 <= r /\ r < Pow2[k]
    <3>1. /\ BitOr(x, y) \in Int /\ x <= BitOr(x, y) /\ BitOr(x, y) < Pow2[k]
          /\ BitXor(x, y) \in Int /\ 0 <= BitXor(x, y) /\ BitXor(x, y) < Pow2[k]
      BY <2>4, <2>7, OrNumber
    <3>2. 0 <= x
      BY <1>2, <1>4, <2>0
    <3> QED
      BY <1>4, <3>1, <3>2
  <2>9. r <= f /\ f <= P /\ -P <= 0
    BY <1>1, <2>4, <2>5, <2>8
  <2> QED
    BY <1>1, <2>6, <2>8, <2>9, PairHas
<1>6. CASE ~ BitsKnown(v, w)
  BY <1>6, TopHas DEF Joined
<1> QED
  BY <1>5, <1>6

LEMMA OrHas ==
  ASSUME NEW v, NEW w, NEW x, NEW y, Has(v, x), Has(w, y),
         NEW op \in {"or", "xor"}, ~GoesWrong(op, v, w)
  PROVE  /\ BitOr(x, y) \in Numbers => Has(Or(v, w), BitOr(x, y))
         /\ BitXor(x, y) \in Numbers => Has(Xor(v, w), BitXor(x, y))
<1>1. CASE isNumeral(v) /\ isNumeral(w)
  <2>1. x = lb(v) /\ y = lb(w)
    BY <1>1, NumeralIs
  <2> QED
    BY <1>1, <2>1, NumberHas DEF Or, Xor
<1>2. CASE ~ (isNumeral(v) /\ isNumeral(w))
  <2>1. BitsKnown(v, w) => Max({ub(v), ub(w)}) < Pow2[IntBits - 1]
    <3> SUFFICES ASSUME BitsKnown(v, w) PROVE Max({ub(v), ub(w)}) < Pow2[IntBits - 1]
      OBVIOUS
    <3>1. PICK m \in Int : m = Max({ub(v), ub(w)})
      BY HasBounds, MaxOfTwo
    <3>2. ~ (m >= Pow2[IntBits - 1])
      BY <1>2, <3>1 DEF GoesWrong
    <3> QED
      BY <3>1, <3>2, IntEnds, Pow2Positive
  <2> QED
    BY <1>2, <2>1, JoinedHas DEF Or, Xor
<1> QED
  BY <1>1, <1>2

LEMMA PositiveIs ==
  ASSUME NEW w, NEW y, Has(w, y), y >= 0
  PROVE  /\ Has(Positive(w), y)
         /\ lb(Positive(w)) = IF lb(w) <= 0 THEN 0 ELSE lb(w)
         /\ ub(Positive(w)) = ub(w)
<1>1. PICK P \in Int : P = Infinity /\ P >= 2
  BY Ends
<1>2. PICK c \in Int, d \in Int : c = lb(w) /\ d = ub(w) /\ -P <= c /\ c <= y /\ y <= d /\ d <= P
  BY <1>1, HasBounds
<1>3. y \in Int /\ y \in Numbers /\ y < P /\ w # Bottom
  BY <1>1, HasBounds
<1>4. PICK u : u = <<0, P>>
  OBVIOUS
<1>5. Has(u, y) /\ lb(u) = 0 /\ ub(u) = P
  <2>1. -P <= 0 /\ 0 <= y /\ y <= P
    BY <1>1, <1>3
  <2> QED
    BY <1>1, <1>3, <1>4, <2>1, PairHas DEF lb, ub
<1>6. PICK e \in Int, f \in Int : e = Max({c, 0}) /\ f = Min({d, P})
                               /\ e = (IF c <= 0 THEN 0 ELSE c) /\ f = d
  BY <1>2, MaxOfTwo, MinOfTwo
<1>7. e <= f
  BY <1>2, <1>3, <1>6
<1>8. meetWith(w, u) = <<e, f>>
  <2>1. u # Bottom
    BY <1>5, HasBounds
  <2> QED
    BY <1>2, <1>3, <1>5, <1>6, <1>7, <2>1 DEF meetWith, create
<1>9. Has(meetWith(w, u), y)
  BY <1>5, MeetHas
<1>10. Positive(w) = meetWith(w, u)
  BY <1>1, <1>4 DEF Positive
<1> QED
  BY <1>2, <1>6, <1>8, <1>9, <1>10 DEF lb, ub

LEMMA ShiftLeftHas ==
  ASSUME NEW v, NEW w, NEW x, NEW y, Has(v, x), Has(w, y), y \in 0 .. Bits,
         ~GoesWrong("shl", v, w), x * Pow2[y] \in Numbers
  PROVE  Has(ShiftLeft(v, w), x * Pow2[y])
<1>1. PICK P \in Int : P = Infinity /\ P >= 2 /\ P = Pow2[Bits] /\ Bits \in Nat
  BY Ends
<1>2. y \in Nat /\ y <= Bits
  BY <1>1
<1>3. PICK by : by = Positive(w)
  OBVIOUS
<1>4. PICK c \in Int, d \in Int : c = lb(by) /\ d = ub(by) /\ 0 <= c /\ c <= y /\ y <= d /\ d = ub(w)
  <2>1. Has(by, y) /\ lb(by) = (IF lb(w) <= 0 THEN 0 ELSE lb(w)) /\ ub(by) = ub(w)
    BY <1>2, <1>3, PositiveIs
  <2>2. lb(by) \in Int /\ ub(by) \in Int /\ lb(by) <= y /\ y <= ub(by) /\ lb(w) \in Int
    BY <2>1, HasBounds
  <2> QED
    BY <2>1, <2>2
<1>5. PICK s \in Int : s = Pow2[y] /\ 1 <= s /\ s <= P
  BY <1>1, <1>2, Pow2Grows, Pow2Positive
<1>6. c \in Nat /\ d \in Nat
  BY <1>2, <1>4
<1>7. PICK e \in Int : /\ e = (IF ToInt(c) >= ShiftLimit \/ Infinite(c) THEN -P ELSE OneShifted(ToInt(c)))
                       /\ -P <= e /\ e <= s
  <2>1. PICK n \in Int : n = ToInt(c) /\ (c < Pow2[IntBits] => n = c)
    BY <1>6, ToIntIs, IntEnds
  <2>2. PICK o \in Int : /\ o = OneShifted(n) /\ -P <= o /\ o < Pow2[IntBits]
                         /\ 0 <= n /\ n < IntBits => o = Pow2[n]
    BY <1>1, <2>1, OneShiftedIs, IntEnds
  <2>3. CASE c < IntBits
    <3>1. n = c /\ o = Pow2[c]
      BY <1>6, <2>1, <2>2, <2>3, IntEnds
    <3>2. Pow2[c] <= Pow2[y]
      BY <1>2, <1>4, <1>6, Pow2Grows
    <3> QED
      BY <1>1, <1>5, <2>1, <2>2, <3>1, <3>2
  <2>4. CASE c >= IntBits
    <3>1. Pow2[IntBits] <= Pow2[y]
      BY <1>2, <1>4, <2>4, IntEnds, Pow2Grows
    <3> QED
      BY <1>1, <1>5, <2>1, <2>2, <3>1, IntEnds
  <2> QED
    BY <1>6, <2>3, <2>4, IntEnds
<1>8. PICK f \in Int : f = (IF Infinite(d) THEN P ELSE OneShifted(ToInt(d))) /\ s <= f /\ f <= P
  <2>1. CASE Infinite(d)
    BY <1>1, <1>5, <2>1
  <2>2. CASE ~ Infinite(d)
    <3>1. d < IntBits
      BY <1>4, <2>2, IntEnds DEF GoesWrong
    <3>2. Pow2[d] \in Int /\ Pow2[d] <= Pow2[Bits] /\ Pow2[y] <= Pow2[d]
      BY <1>1, <1>2, <1>4, <1>6, <3>1, IntEnds, Pow2Grows, Pow2Positive
    <3>3. ToInt(d) = d
      BY <1>6, <3>1, ToIntIs, IntEnds
    <3>4. OneShifted(d) = Pow2[d]
      BY <1>6, <3>1, OneShiftedIs
    <3> QED
      BY <1>1, <1>5, <2>2, <3>2, <3>3, <3>4
  <2> QED
    BY <2>1, <2>2
<1>9. IsInterval(<<e, f>>) /\ lb(<<e, f>>) = e /\ ub(<<e, f>>) = f
  <2>1. e \in Reach /\ f \in Reach
    <3>1. e <= P /\ -P <= f
      BY <1>1, <1>5, <1>7, <1>8
    <3> QED
      BY <1>1, <1>7, <1>8, <3>1, InReach
  <2> QED
    BY <2>1, PairIsInterval DEF lb, ub
<1>10. Has(Times(v, <<e, f>>), x * s)
  BY <1>5, <1>7, <1>8, <1>9, TimesHas
<1>11. by # Bottom
  BY <1>2, <1>3, PositiveIs, HasBounds
<1>12. ShiftLeft(v, w) = IF v = Top /\ w = Top THEN Top ELSE Times(v, <<e, f>>)
  BY <1>1, <1>3, <1>4, <1>7, <1>8, <1>11 DEF ShiftLeft
<1> QED
  BY <1>5, <1>10, <1>12, TopHas

LEMMA ShiftBoundsType ==
  ASSUME NEW x \in Reach, NEW y \in Reach, y >= 0
  PROVE  ShiftBounds(x, y) \in Reach
<1>1. PICK P \in Int : P = Infinity /\ P >= 2
  BY Ends
<1>2. x \in Int /\ y \in Int /\ -P <= x /\ x <= P /\ y \in Nat
  BY <1>1, InReach
<1>3. PICK n \in Nat \ {0} : n = Pow2[y % (Bits + 1)]
  <2>1. Bits + 1 \in Nat \ {0}
    BY Ends
  <2> QED
    BY <1>2, <2>1, RemainderBelow, Pow2Positive
<1>4. PICK q \in Int : q = x \div n /\ -P <= q /\ q <= P
  BY <1>2, FloorSign
<1>5. ShiftBounds(x, y) \in {x, 0, -1, q}
  BY <1>3, <1>4 DEF ShiftBounds
<1>6. ShiftBounds(x, y) \in Int /\ -P <= ShiftBounds(x, y) /\ ShiftBounds(x, y) <= P
  BY <1>1, <1>2, <1>4, <1>5
<1> QED
  BY <1>1, <1>6, InReach

\* A shift of a number is below one bound and above another.
LEMMA ShiftOfPieces ==
  ASSUME NEW a \in Reach, NEW b \in Reach, NEW c \in Reach, NEW d \in Reach,
         NEW x \in Numbers, NEW y \in Numbers, a <= x, x <= b, 0 <= c, c <= y, y <= d,
         y <= Bits, d <= Bits \/ d = Infinity, a > 0 \/ b < 0
  PROVE  /\ x \div Pow2[y] \in Numbers
         /\ \E p \in {a, b}, q \in {c, d} : ShiftBounds(p, q) <= x \div Pow2[y]
         /\ \E p \in {a, b}, q \in {c, d} : x \div Pow2[y] <= ShiftBounds(p, q)
<1>1. PICK P \in Int : P = Infinity /\ P >= 2
  BY Ends
<1>2. /\ a \in Int /\ b \in Int /\ x \in Int /\ -P <= a /\ b <= P /\ -P < x /\ x < P
      /\ c \in Nat /\ d \in Nat /\ y \in Nat /\ y < P /\ d <= P /\ c < P
  BY <1>1, InReach, InNumbers
<1>3. PICK m \in Nat \ {0}, n \in Nat \ {0}, r \in Nat \ {0} :
           m = Pow2[c] /\ n = Pow2[y] /\ r = Pow2[d] /\ m <= n /\ n <= r
  BY <1>2, Pow2Grows, Pow2Positive
<1>4. PICK z \in Int : z = x \div Pow2[y] /\ z = x \div n
  <2>1. x \div n \in Int
    BY <1>2, Floor
  <2> QED
    BY <1>3, <2>1
<1>5. z \in Numbers
  <2>1. z \in 0 .. x \/ z \in x .. -1
    BY <1>2, <1>3, <1>4, FloorSign
  <2>2. -P < z /\ z < P
    BY <1>2, <1>4, <2>1
  <2> QED
    BY <1>1, <2>2, InNumbers
<1>6. \A t, u \in Int : u \in Nat \ {0} => t \div u \in Int
  BY Floor
<1>7. \A t \in Int : t # 0 /\ t # P /\ t # -P =>
         /\ ShiftBounds(t, c) = t \div m
         /\ d # P => ShiftBounds(t, d) = t \div r
         /\ d = P => ShiftBounds(t, d) = IF t >= 0 THEN 0 ELSE -1
  <2> TAKE t \in Int
  <2>1. c # P /\ c # -P /\ d # -P
    BY <1>1, <1>2
  <2>2. c % (Bits + 1) = c /\ (d # P => d % (Bits + 1) = d)
    <3>1. Bits + 1 \in Nat \ {0} /\ c < Bits + 1 /\ (d # P => d < Bits + 1)
      BY <1>1, <1>2, Ends
    <3> QED
      BY <1>2, <3>1, RemainderBelow
  <2> QED
    BY <1>1, <1>3, <2>1, <2>2 DEF ShiftBounds, Infinite
<1>8. \A t \in {P, -P} : \A u : ShiftBounds(t, u) = t
  BY <1>1 DEF ShiftBounds, Infinite
<1>9. CASE a > 0
  <2>1. a # 0 /\ a # P /\ a # -P /\ a >= 0 /\ b # 0 /\ b # -P /\ b >= 0 /\ x >= 0
    BY <1>1, <1>2, <1>9
  <2>2. ShiftBounds(a, d) <= z
    <3>1. z >= 0
      BY <1>2, <1>4, <2>1, FloorSign
    <3>2. CASE d = P
      <4>1. ShiftBounds(a, d) = 0
        BY <1>2, <1>7, <2>1, <3>2
      <4> QED
        BY <3>1, <4>1
    <3>3. CASE d # P
      <4>1. ShiftBounds(a, d) = a \div r
        BY <1>2, <1>7, <2>1, <3>3
      <4>2. a \div r <= a \div n
        BY <1>2, <1>3, <2>1, FloorOfMore
      <4>3. a \div n <= x \div n
        BY <1>2, <1>3, FloorGrows
      <4>4. a \div r \in Int /\ a \div n \in Int
        BY <1>2, <1>3, <1>6
      <4> QED
        BY <1>4, <4>1, <4>2, <4>3, <4>4
    <3> QED
      BY <3>2, <3>3
  <2>3. z <= ShiftBounds(b, c)
    <3>1. CASE b = P
      BY <1>1, <1>5, <1>8, <3>1, InNumbers
    <3>2. CASE b # P
      <4>1. ShiftBounds(b, c) = b \div m
        BY <1>2, <1>7, <2>1, <3>2
      <4>2. b \div n <= b \div m
        BY <1>2, <1>3, <2>1, FloorOfMore
      <4>3. x \div n <= b \div n
        BY <1>2, <1>3, FloorGrows
      <4>4. b \div m \in Int /\ b \div n \in Int
        BY <1>2, <1>3, <1>6
      <4> QED
        BY <1>4, <4>1, <4>2, <4>3, <4>4
    <3> QED
      BY <3>1, <3>2
  <2> QED
    BY <1>4, <1>5, <2>2, <2>3
<1>10. CASE b < 0
  <2>1. a # 0 /\ a # P /\ a < 0 /\ b # 0 /\ b # -P /\ b # P /\ b < 0 /\ ~ (b >= 0) /\ x < 0
    BY <1>1, <1>2, <1>10
  <2>2. ShiftBounds(a, c) <= z
    <3>1. CASE a = -P
      BY <1>1, <1>5, <1>8, <3>1, InNumbers
    <3>2. CASE a # -P
      <4>1. ShiftBounds(a, c) = a \div m
        BY <1>2, <1>7, <2>1, <3>2
      <4>2. a \div m <= a \div n
        BY <1>2, <1>3, <2>1, FloorOfMore
      <4>3. a \div n <= x \div n
        BY <1>2, <1>3, FloorGrows
      <4>4. a \div m \in Int /\ a \div n \in Int
        BY <1>2, <1>3, <1>6
      <4> QED
        BY <1>4, <4>1, <4>2, <4>3, <4>4
    <3> QED
      BY <3>1, <3>2
  <2>3. z <= ShiftBounds(b, d)
    <3>1. z <= -1
      BY <1>2, <1>4, <2>1, FloorSign
    <3>2. CASE d = P
      <4>1. ShiftBounds(b, d) = -1
        BY <1>2, <1>7, <2>1, <3>2
      <4> QED
        BY <3>1, <4>1
    <3>3. CASE d # P
      <4>1. ShiftBounds(b, d) = b \div r
        BY <1>2, <1>7, <2>1, <3>3
      <4>2. b \div n <= b \div r
        BY <1>2, <1>3, <2>1, FloorOfMore
      <4>3. x \div n <= b \div n
        BY <1>2, <1>3, FloorGrows
      <4>4. b \div r \in Int /\ b \div n \in Int
        BY <1>2, <1>3, <1>6
      <4> QED
        BY <1>4, <4>1, <4>2, <4>3, <4>4
    <3> QED
      BY <3>2, <3>3
  <2> QED
    BY <1>4, <1>5, <2>2, <2>3
<1> QED
  BY <1>9, <1>10

LEMMA ShiftRightHas ==
  ASSUME NEW v, NEW w, NEW x, NEW y, Has(v, x), Has(w, y), y \in 0 .. Bits,
         ~GoesWrong("shr", v, w)
  PROVE  Has(ShiftRight(v, w), x \div Pow2[y])
<1> DEFINE Shifted(p) == {ShiftBounds(r, s) : r \in Bounds(p), s \in Bounds(Positive(w))}
           found == {Hull(Shifted(p)) : p \in WithoutZero(v)} \union ZeroOf(v)
<1>1. PICK c, d : /\ c = lb(Positive(w)) /\ d = ub(Positive(w)) /\ c \in Reach /\ d \in Reach
                  /\ 0 <= c /\ c <= y /\ y <= d /\ Positive(w) # Bottom
                  /\ y <= Bits /\ (d <= Bits \/ d = Infinity)
  <2>1. /\ Has(Positive(w), y) /\ lb(Positive(w)) = (IF lb(w) <= 0 THEN 0 ELSE lb(w))
        /\ ub(Positive(w)) = ub(w) /\ y >= 0 /\ y <= Bits
    <3>1. Bits \in Int
      BY Ends
    <3>2. y >= 0 /\ y <= Bits
      BY <3>1
    <3>3. /\ Has(Positive(w), y) /\ lb(Positive(w)) = (IF lb(w) <= 0 THEN 0 ELSE lb(w))
          /\ ub(Positive(w)) = ub(w)
      BY <3>2, PositiveIs, Zenon
    <3> QED
      BY <3>2, <3>3
  <2>2. lb(w) \in Int
    BY HasBounds
  <2>3. 0 <= lb(Positive(w))
    BY <2>1, <2>2
  <2>4. ub(w) <= Bits \/ ub(w) = Infinity
    <3>1. ub(w) \in Int /\ ub(w) >= y
      BY HasBounds
    <3>2. ~ (ub(w) > Bits /\ ~Infinite(ub(w)))
      BY DEF GoesWrong
    <3> QED
      BY <2>1, <3>1, <3>2, Ends DEF Infinite
  <2> QED
    BY <2>1, <2>3, <2>4, HasBounds DEF Has, IsInterval
<1>2. x \in Int /\ y \in Nat /\ x \in Numbers /\ y \in Numbers
  BY HasBounds
<1>3. ShiftRight(v, w) = IF v = Top /\ w = Top THEN Top ELSE JoinOf(found)
  BY <1>1 DEF ShiftRight
<1>4. Bounds(Positive(w)) = {c, d}
  BY <1>1 DEF Bounds
<1>5. ASSUME NEW p \in WithoutZero(v)
      PROVE  /\ Shifted(p) \in SUBSET Reach /\ Shifted(p) # {}
             /\ \A t \in Bounds(p), u \in {c, d} : ShiftBounds(t, u) \in Shifted(p)
  <2>1. Signed(p)
    BY Pieces
  <2>2. d >= 0
    <3>1. d \in Int /\ c \in Int /\ y \in Int
      BY <1>1, <1>2, InReach
    <3> QED
      BY <1>1, <3>1
  <2>3. \A t \in Bounds(p), u \in {c, d} : t \in Reach /\ u \in Reach /\ u >= 0
    BY <1>1, <2>1, <2>2 DEF Signed, IsInterval, Bounds
  <2>4. \A t \in Bounds(p), u \in {c, d} : ShiftBounds(t, u) \in Reach
    BY <2>3, ShiftBoundsType
  <2>5. lb(p) \in Bounds(p)
    BY DEF Bounds
  <2>6. /\ \A t \in Bounds(p), u \in {c, d} : ShiftBounds(t, u) \in Shifted(p)
        /\ \A z \in Shifted(p) : \E t \in Bounds(p), u \in {c, d} : z = ShiftBounds(t, u)
    BY <1>4
  <2> HIDE DEF Shifted
  <2>7. ShiftBounds(lb(p), c) \in Shifted(p)
    BY <2>5, <2>6
  <2>8. \A z \in Shifted(p) : z \in Reach
    BY <2>4, <2>6
  <2> QED
    BY <2>6, <2>7, <2>8
<1>6. /\ \A p \in WithoutZero(v) : Hull(Shifted(p)) \in found
      /\ ZeroOf(v) \subseteq found
      /\ \A u \in found : u \in ZeroOf(v) \/ \E p \in WithoutZero(v) : u = Hull(Shifted(p))
  <2> HIDE DEF Shifted
  <2> QED
    OBVIOUS
<1> HIDE DEF Shifted, found
<1>7. \A u \in found : IsInterval(u)
  <2> TAKE u \in found
  <2>1. CASE u \in ZeroOf(v)
    BY <2>1, Pieces
  <2>2. ASSUME NEW p \in WithoutZero(v), u = Hull(Shifted(p)) PROVE IsInterval(u)
    BY <1>5, <2>2, HullBounds
  <2> QED
    BY <1>6, <2>1, <2>2
<1>8. CASE x = 0
  <2>1. Number(0) \in found
    BY <1>6, <1>8, Pieces
  <2>2. x \div Pow2[y] = 0
    <3>1. PICK n \in Nat \ {0} : n = Pow2[y]
      BY <1>2, Pow2Positive
    <3>2. 0 \div n = 0
      BY FloorOfLess
    <3> QED
      BY <1>8, <3>1, <3>2
  <2>3. Has(Number(0), x \div Pow2[y])
    BY <1>2, <1>8, <2>2, NumberHas
  <2>4. Has(JoinOf(found), x \div Pow2[y])
    BY <1>7, <2>1, <2>3, JoinOfHas
  <2> QED
    BY <1>2, <1>3, <1>8, <2>2, <2>4, TopHas
<1>9. CASE x # 0
  <2>1. PICK p \in WithoutZero(v) : Has(p, x) /\ (lb(p) > 0 \/ ub(p) < 0)
    BY <1>9, Pieces
  <2>2. PICK a, b : a = lb(p) /\ b = ub(p) /\ Bounds(p) = {a, b}
    BY DEF Bounds
  <2>3. a \in Reach /\ b \in Reach /\ a <= x /\ x <= b /\ (a > 0 \/ b < 0)
    BY <2>1, <2>2 DEF Has, IsInterval, Contains
  <2>4. /\ x \div Pow2[y] \in Numbers
        /\ \E r \in {a, b}, s \in {c, d} : ShiftBounds(r, s) <= x \div Pow2[y]
        /\ \E r \in {a, b}, s \in {c, d} : x \div Pow2[y] <= ShiftBounds(r, s)
    BY <1>1, <1>2, <2>3, ShiftOfPieces
  <2>5. /\ \E u \in Shifted(p) : u <= x \div Pow2[y]
        /\ \E u \in Shifted(p) : x \div Pow2[y] <= u
    BY <1>5, <2>1, <2>2, <2>4
  <2>6. Has(Hull(Shifted(p)), x \div Pow2[y])
    BY <1>5, <2>1, <2>4, <2>5, HullHas
  <2>7. Has(JoinOf(found), x \div Pow2[y])
    BY <1>6, <1>7, <2>1, <2>6, JoinOfHas
  <2> QED
    BY <1>3, <2>4, <2>7, TopHas
<1> QED
  BY <1>8, <1>9

\* Every operator of IntervalValue contains what the operator of the program yields.
LEMMA ArithmeticHas ==
  ASSUME NEW op \in Operators, NEW v, NEW w, NEW x, NEW y, Has(v, x), Has(w, y),
         Defined(op, x, y), Result(op, x, y) \in Numbers,
         ~GoesWrong(op, v, w)
  PROVE  Has(Arithmetic(op, v, w), Result(op, x, y))
<1>1. Bottom \notin {v, w}
  BY HasBounds
<1>2. x \in Int /\ y \in Int
  BY HasBounds
<1>3. CASE op = "add"
  BY <1>1, <1>3, PlusHas DEF Arithmetic, Result
<1>4. CASE op = "sub"
  BY <1>1, <1>4, MinusHas DEF Arithmetic, Result
<1>5. CASE op = "mul"
  <2>1. IsInterval(w) /\ lb(w) <= y /\ y <= ub(w)
    BY DEF Has, Contains
  <2>2. Result(op, x, y) = x * y /\ Arithmetic(op, v, w) = Times(v, w)
    BY <1>1, <1>5 DEF Arithmetic, Result
  <2> QED
    BY <1>2, <2>1, <2>2, TimesHas
<1>6. CASE op = "div"
  <2>1. y # 0 /\ Result(op, x, y) = Quotient(x, y) /\ Arithmetic(op, v, w) = Over(v, w)
    BY <1>1, <1>6 DEF Arithmetic, Result, Defined
  <2> QED
    BY <2>1, OverHas
<1>7. CASE op = "rem"
  <2>1. y # 0 /\ Result(op, x, y) = Remainder(x, y) /\ Arithmetic(op, v, w) = Modulo(v, w)
    BY <1>1, <1>7 DEF Arithmetic, Result, Defined
  <2> QED
    BY <2>1, ModuloHas
<1>8. CASE op = "and"
  BY <1>1, <1>8, AndHas DEF Arithmetic, Result
<1>9. CASE op = "or"
  BY <1>1, <1>9, OrHas DEF Arithmetic, Result
<1>10. CASE op = "xor"
  BY <1>1, <1>10, OrHas DEF Arithmetic, Result
<1>11. CASE op = "shl"
  <2>1. y \in 0 .. Bits /\ Result(op, x, y) = x * Pow2[y] /\ Arithmetic(op, v, w) = ShiftLeft(v, w)
    BY <1>1, <1>11 DEF Arithmetic, Result, Defined
  <2> QED
    BY <1>11, <2>1, ShiftLeftHas
<1>12. CASE op = "shr"
  <2>1. y \in 0 .. Bits /\ Result(op, x, y) = x \div Pow2[y] /\ Arithmetic(op, v, w) = ShiftRight(v, w)
    BY <1>1, <1>12 DEF Arithmetic, Result, Defined
  <2> QED
    BY <1>12, <2>1, ShiftRightHas
<1> QED
  BY <1>3, <1>4, <1>5, <1>6, <1>7, <1>8, <1>9, <1>10, <1>11, <1>12 DEF Operators

LEMMA CompareHas ==
  ASSUME NEW pred \in Predicates, NEW v, NEW w, NEW x, NEW y, Has(v, x), Has(w, y)
  PROVE  Has(Compare(pred, v, w), IF Holds(pred, x, y) THEN 1 ELSE 0)
<1>1. PICK P \in Int : P = Infinity /\ P >= 2
  BY Ends
<1>2. PICK a \in Int, b \in Int : a = lb(v) /\ b = ub(v) /\ a <= x /\ x <= b
  BY HasBounds
<1>3. PICK c \in Int, d \in Int : c = lb(w) /\ d = ub(w) /\ c <= y /\ y <= d
  BY HasBounds
<1>4. x \in Int /\ y \in Int /\ Bottom \notin {v, w}
  BY HasBounds
<1>5. 0 \in Numbers /\ 1 \in Numbers
  BY <1>1, InNumbers
<1>6. PICK r \in {0, 1} : r = (IF Holds(pred, x, y) THEN 1 ELSE 0) /\ (r = 1 <=> Holds(pred, x, y))
  OBVIOUS
<1>7. ASSUME NEW q \in Predicates, Always(q, v, w) PROVE Holds(q, x, y)
  <2>1. CASE q = "EQ"
    <3>1. a = b /\ c = a /\ d = b
      BY <1>2, <1>3, <1>7, <2>1 DEF Always, isNumeral
    <3> QED
      BY <1>2, <1>3, <1>4, <2>1, <3>1 DEF Holds
  <2>2. CASE q = "NE"
    <3> SUFFICES ASSUME x = y PROVE FALSE
      BY <2>2 DEF Holds
    <3>1. Has(meetWith(v, w), x)
      BY MeetHas
    <3>2. meetWith(v, w) = Bottom
      BY <1>7, <2>2 DEF Always
    <3> QED
      BY <3>1, <3>2, HasBounds
  <2>3. CASE q = "GT"
    <3>1. a > d
      BY <1>2, <1>3, <1>7, <2>3 DEF Always
    <3>2. x > y
      BY <1>2, <1>3, <1>4, <3>1
    <3> QED
      BY <2>3, <3>2 DEF Holds
  <2>4. CASE q = "GE"
    <3>1. a >= d
      BY <1>2, <1>3, <1>7, <2>4 DEF Always
    <3>2. x >= y
      BY <1>2, <1>3, <1>4, <3>1
    <3> QED
      BY <2>4, <3>2 DEF Holds
  <2>5. CASE q = "LT"
    <3>1. b < c
      BY <1>2, <1>3, <1>7, <2>5 DEF Always
    <3>2. x < y
      BY <1>2, <1>3, <1>4, <3>1
    <3> QED
      BY <2>5, <3>2 DEF Holds
  <2>6. CASE q = "LE"
    <3>1. b <= c
      BY <1>2, <1>3, <1>7, <2>6 DEF Always
    <3>2. x <= y
      BY <1>2, <1>3, <1>4, <3>1
    <3> QED
      BY <2>6, <3>2 DEF Holds
  <2> QED
    BY <2>1, <2>2, <2>3, <2>4, <2>5, <2>6 DEF Predicates
<1>8. Opposite[pred] \in Predicates /\ (Holds(Opposite[pred], x, y) => ~ Holds(pred, x, y))
  <2>1. CASE pred = "EQ"
    <3>1. Opposite[pred] = "NE"
      BY <2>1 DEF Opposite
    <3>2. (Holds(Opposite[pred], x, y) <=> x # y) /\ (Holds(pred, x, y) <=> x = y)
      BY <2>1, <3>1 DEF Holds
    <3> QED
      BY <1>4, <3>1, <3>2 DEF Predicates
  <2>2. CASE pred = "NE"
    <3>1. Opposite[pred] = "EQ"
      BY <2>2 DEF Opposite
    <3>2. (Holds(Opposite[pred], x, y) <=> x = y) /\ (Holds(pred, x, y) <=> x # y)
      BY <2>2, <3>1 DEF Holds
    <3> QED
      BY <1>4, <3>1, <3>2 DEF Predicates
  <2>3. CASE pred = "GT"
    <3>1. Opposite[pred] = "LE"
      BY <2>3 DEF Opposite
    <3>2. (Holds(Opposite[pred], x, y) <=> x <= y) /\ (Holds(pred, x, y) <=> x > y)
      BY <2>3, <3>1 DEF Holds
    <3> QED
      BY <1>4, <3>1, <3>2 DEF Predicates
  <2>4. CASE pred = "GE"
    <3>1. Opposite[pred] = "LT"
      BY <2>4 DEF Opposite
    <3>2. (Holds(Opposite[pred], x, y) <=> x < y) /\ (Holds(pred, x, y) <=> x >= y)
      BY <2>4, <3>1 DEF Holds
    <3> QED
      BY <1>4, <3>1, <3>2 DEF Predicates
  <2>5. CASE pred = "LT"
    <3>1. Opposite[pred] = "GE"
      BY <2>5 DEF Opposite
    <3>2. (Holds(Opposite[pred], x, y) <=> x >= y) /\ (Holds(pred, x, y) <=> x < y)
      BY <2>5, <3>1 DEF Holds
    <3> QED
      BY <1>4, <3>1, <3>2 DEF Predicates
  <2>6. CASE pred = "LE"
    <3>1. Opposite[pred] = "GT"
      BY <2>6 DEF Opposite
    <3>2. (Holds(Opposite[pred], x, y) <=> x > y) /\ (Holds(pred, x, y) <=> x <= y)
      BY <2>6, <3>1 DEF Holds
    <3> QED
      BY <1>4, <3>1, <3>2 DEF Predicates
  <2> QED
    BY <2>1, <2>2, <2>3, <2>4, <2>5, <2>6 DEF Predicates
<1>9. CASE Top \in {v, w}
  BY <1>4, <1>5, <1>6, <1>9, TopHas DEF Compare
<1>10. CASE Top \notin {v, w} /\ Always(pred, v, w)
  <2>1. r = 1
    BY <1>6, <1>7, <1>10
  <2> QED
    BY <1>4, <1>5, <1>6, <1>10, <2>1, NumberHas DEF Compare
<1>11. CASE Top \notin {v, w} /\ ~ Always(pred, v, w) /\ Always(Opposite[pred], v, w)
  <2>1. r = 0
    BY <1>6, <1>7, <1>8, <1>11
  <2> QED
    BY <1>4, <1>5, <1>6, <1>11, <2>1, NumberHas DEF Compare
<1>12. CASE Top \notin {v, w} /\ ~ Always(pred, v, w) /\ ~ Always(Opposite[pred], v, w)
  <2>1. Compare(pred, v, w) = <<0, 1>>
    BY <1>4, <1>12 DEF Compare
  <2>2. Has(<<0, 1>>, r)
    <3>1. r \in Numbers /\ -P <= 0 /\ 0 <= r /\ r <= 1 /\ 1 <= P
      BY <1>1, <1>5
    <3> QED
      BY <1>1, <3>1, PairHas
  <2> QED
    BY <1>6, <2>1, <2>2
<1> QED
  BY <1>9, <1>10, <1>11, <1>12

-----------------------------------------------------------------------------
(* The operators of Range. *)

\* The numbers of the machine are the numbers and the one without an opposite.
Machine == R!NINF .. R!INF

\* A range that has the number x.
RangeHas(r, x) ==
  r = <<r[1], r[2]>> /\ r[1] \in Machine /\ r[2] \in Machine /\ x \in Machine /\ Contains(r, x)

LEMMA SameNumbers ==
  /\ R!NINF = -Infinity /\ R!INF = Infinity - 1 /\ R!TOP = <<-Infinity, Infinity - 1>>
  /\ \A n : R!V!Pow2[n] = Pow2[n]
  /\ \A x : R!V!Abs(x) = Abs(x)
  /\ \A x, y : /\ R!V!Quotient(x, y) = Quotient(x, y)
               /\ R!V!Remainder(x, y) = Remainder(x, y)
               /\ R!V!BitAnd(x, y) = BitAnd(x, y)
               /\ R!V!BitOr(x, y) = BitOr(x, y)
               /\ R!V!BitXor(x, y) = BitXor(x, y)
  /\ \A S : R!Min(S) = Min(S) /\ R!Max(S) = Max(S) /\ R!V!Max(S) = Max(S)
<1>1. R!V!Pow2 = Pow2
  BY DEF R!V!Pow2, Pow2
<1>2. R!NINF = -Infinity /\ R!INF = Infinity - 1
  BY <1>1 DEF R!NINF, R!INF, Infinity
<1>3. R!TOP = <<-Infinity, Infinity - 1>>
  BY <1>2 DEF R!TOP
<1>4. \A x : R!V!Abs(x) = Abs(x)
  BY DEF R!V!Abs, Abs
<1>5. \A x, y : R!V!Quotient(x, y) = Quotient(x, y)
  BY <1>4 DEF R!V!Quotient, Quotient
<1>6. \A x, y : R!V!Remainder(x, y) = Remainder(x, y)
  BY <1>5 DEF R!V!Remainder, Remainder
<1>7. \A x, i : R!V!Bit(x, i) = Bit(x, i)
  BY <1>1 DEF R!V!Bit, Bit
<1>8. \A b : R!V!OfBits(b) = OfBits(b)
  BY <1>1 DEF R!V!OfBits, OfBits, R!V!Infinity, Infinity
<1>9. \A S : R!Min(S) = Min(S) /\ R!Max(S) = Max(S) /\ R!V!Max(S) = Max(S)
  BY DEF R!Min, R!Max, R!V!Max, Min, Max
<1>10. ASSUME NEW x, NEW y
       PROVE  R!V!BitAnd(x, y) = BitAnd(x, y)
  <2>1. [i \in 0 .. Bits |-> R!V!Bit(x, i) * R!V!Bit(y, i)] = [i \in 0 .. Bits |-> Bit(x, i) * Bit(y, i)]
    BY <1>7
  <2> QED
    BY <1>8, <2>1 DEF R!V!BitAnd, BitAnd
<1>11. ASSUME NEW x, NEW y
       PROVE  R!V!BitOr(x, y) = BitOr(x, y)
  <2>1. [i \in 0 .. Bits |-> R!V!Max({R!V!Bit(x, i), R!V!Bit(y, i)})]
          = [i \in 0 .. Bits |-> Max({Bit(x, i), Bit(y, i)})]
    BY <1>7, <1>9
  <2> QED
    BY <1>8, <2>1 DEF R!V!BitOr, BitOr
<1>12. ASSUME NEW x, NEW y
       PROVE  R!V!BitXor(x, y) = BitXor(x, y)
  <2>1. [i \in 0 .. Bits |-> (R!V!Bit(x, i) + R!V!Bit(y, i)) % 2]
          = [i \in 0 .. Bits |-> (Bit(x, i) + Bit(y, i)) % 2]
    BY <1>7
  <2> QED
    BY <1>8, <2>1 DEF R!V!BitXor, BitXor
<1> QED
  BY <1>1, <1>2, <1>3, <1>4, <1>5, <1>6, <1>9, <1>10, <1>11, <1>12

LEMMA InMachine == \A z : z \in Machine <=> z \in Int /\ -Infinity <= z /\ z < Infinity
<1>1. PICK P \in Int : P = Infinity
  BY Ends
<1>2. Machine = -P .. P - 1
  BY <1>1, SameNumbers DEF Machine
<1> QED
  BY <1>1, <1>2

LEMMA RangeBounds ==
  ASSUME NEW r, NEW x, RangeHas(r, x)
  PROVE  /\ r[1] \in Int /\ r[2] \in Int /\ x \in Int /\ x \in Machine
         /\ -Infinity <= r[1] /\ r[2] < Infinity /\ r[1] <= x /\ x <= r[2]
         /\ -Infinity <= x /\ x < Infinity
         /\ r = <<r[1], r[2]>> /\ ~ R!isBottom(r)
<1>1. PICK P \in Int : P = Infinity
  BY Ends
<1>2. r[1] <= x /\ x <= r[2]
  BY DEF RangeHas, Contains, lb, ub
<1>3. r[1] \in Int /\ r[2] \in Int /\ x \in Int /\ -P <= r[1] /\ r[2] < P /\ -P <= x /\ x < P
  BY <1>1, InMachine DEF RangeHas
<1>4. ~ R!isBottom(r)
  BY <1>2, <1>3 DEF R!isBottom
<1> QED
  BY <1>1, <1>2, <1>3, <1>4 DEF RangeHas

LEMMA RangePair ==
  ASSUME NEW a \in Int, NEW b \in Int, NEW x \in Machine,
         -Infinity <= a, a <= x, x <= b, b < Infinity
  PROVE  RangeHas(<<a, b>>, x)
<1>1. PICK P \in Int : P = Infinity
  BY Ends
<1>2. x \in Int /\ -P <= x /\ x < P
  BY <1>1, InMachine
<1>3. a < P /\ -P <= b
  BY <1>1, <1>2
<1>4. a \in Machine /\ b \in Machine
  BY <1>1, <1>3, InMachine
<1> QED
  BY <1>4 DEF RangeHas, Contains, lb, ub

LEMMA RangeTopHas == \A x \in Machine : RangeHas(R!TOP, x)
<1> TAKE x \in Machine
<1>1. PICK P \in Int : P = Infinity
  BY Ends
<1>2. x \in Int /\ -P <= x /\ x < P
  BY <1>1, InMachine
<1>3. RangeHas(<<-P, P - 1>>, x)
  BY <1>1, <1>2, RangePair
<1> QED
  BY <1>1, <1>3, SameNumbers

LEMMA ConstantHas == \A x \in Machine : RangeHas(R!Constant(x), x)
<1> TAKE x \in Machine
<1>1. x \in Int /\ -Infinity <= x /\ x < Infinity /\ x <= x
  BY InMachine
<1>2. RangeHas(<<x, x>>, x)
  BY <1>1, RangePair
<1> QED
  BY <1>2 DEF R!Constant

LEMMA RangeSaturated ==
  ASSUME NEW x \in Int
  PROVE  R!Saturated(x) = IF x < -Infinity THEN -Infinity ELSE IF x > Infinity - 1 THEN Infinity - 1 ELSE x
<1>1. PICK P \in Int : P = Infinity /\ P >= 2
  BY Ends
<1>2. R!NINF = -P /\ R!INF = P - 1
  BY <1>1, SameNumbers
<1>3. PICK y \in Int : y = Min({P - 1, x}) /\ y = IF P - 1 <= x THEN P - 1 ELSE x
  BY MinOfTwo
<1>4. Max({-P, y}) = IF -P <= y THEN y ELSE -P
  BY MaxOfTwo
<1>5. R!Saturated(x) = R!Max({R!NINF, R!Min({R!INF, x})})
  BY DEF R!Saturated
<1>6. R!Saturated(x) = Max({-P, Min({P - 1, x})})
  BY <1>2, <1>5, SameNumbers
<1>7. R!Saturated(x) = IF -P <= y THEN y ELSE -P
  BY <1>3, <1>4, <1>6
<1> QED
  BY <1>1, <1>3, <1>7

\* Bounds that are cut at the ends of the machine still have the number between.
LEMMA SaturatedPair ==
  ASSUME NEW e \in Int, NEW f \in Int, NEW x \in Machine, e <= x, x <= f
  PROVE  RangeHas(<<R!Saturated(e), R!Saturated(f)>>, x)
<1>1. PICK P \in Int : P = Infinity /\ P >= 2
  BY Ends
<1>2. x \in Int /\ -P <= x /\ x < P
  BY <1>1, InMachine
<1>3. PICK g \in Int, h \in Int : g = R!Saturated(e) /\ h = R!Saturated(f)
                               /\ -P <= g /\ g <= x /\ x <= h /\ h < P
  BY <1>1, <1>2, RangeSaturated
<1> QED
  BY <1>1, <1>3, RangePair

LEMMA RangeJoinHas ==
  ASSUME NEW r, NEW s, r = <<r[1], r[2]>>, r[1] \in Machine, r[2] \in Machine,
         s = <<s[1], s[2]>>, s[1] \in Machine, s[2] \in Machine,
         NEW x, RangeHas(r, x) \/ RangeHas(s, x)
  PROVE  RangeHas(R!join(r, s), x) /\ RangeHas(R!widening(r, s), x)
<1>1. PICK P \in Int : P = Infinity /\ R!NINF = -P /\ R!INF = P - 1 /\ P >= 2
  BY Ends, SameNumbers
<1>2. PICK a \in Int, b \in Int : a = r[1] /\ b = r[2] /\ -P <= a /\ a < P /\ -P <= b /\ b < P
  BY <1>1, InMachine
<1>3. PICK c \in Int, d \in Int : c = s[1] /\ d = s[2] /\ -P <= c /\ c < P /\ -P <= d /\ d < P
  BY <1>1, InMachine
<1>4. x \in Machine /\ x \in Int /\ -P <= x /\ x < P
  BY <1>1, RangeBounds
<1>5. (a <= x /\ x <= b) \/ (c <= x /\ x <= d)
  BY <1>2, <1>3, RangeBounds
<1>6. /\ R!isBottom(r) <=> a > b
      /\ R!isBottom(s) <=> c > d
  BY <1>2, <1>3 DEF R!isBottom
<1>7. CASE a > b
  <2>1. R!join(r, s) = s /\ R!widening(r, s) = s
    BY <1>6, <1>7 DEF R!join, R!widening
  <2>2. ~ RangeHas(r, x)
    BY <1>2, <1>4, <1>7, RangeBounds
  <2> QED
    BY <2>1, <2>2
<1>8. CASE ~ (a > b) /\ c > d
  <2>1. R!join(r, s) = r /\ R!widening(r, s) = r
    BY <1>6, <1>8 DEF R!join, R!widening
  <2>2. ~ RangeHas(s, x)
    BY <1>3, <1>4, <1>8, RangeBounds
  <2> QED
    BY <2>1, <2>2
<1>9. CASE ~ (a > b) /\ ~ (c > d)
  <2>1. PICK e \in Int, f \in Int : e = Min({a, c}) /\ f = Max({b, d})
    BY MinOfTwo, MaxOfTwo
  <2>2. -P <= e /\ e <= x /\ x <= f /\ f < P
    <3>1. e = (IF a <= c THEN a ELSE c) /\ f = (IF b <= d THEN d ELSE b)
      BY <2>1, MinOfTwo, MaxOfTwo
    <3> QED
      BY <1>2, <1>3, <1>4, <1>5, <3>1
  <2>3. R!join(r, s) = <<e, f>>
    BY <1>2, <1>3, <1>6, <1>9, <2>1, SameNumbers DEF R!join
  <2>4. PICK g \in Int, h \in Int : g = (IF c < a THEN -P ELSE a) /\ h = (IF d > b THEN P - 1 ELSE b)
    OBVIOUS
  <2>5. -P <= g /\ g <= x /\ x <= h /\ h < P
    BY <1>2, <1>3, <1>4, <1>5, <2>4
  <2>6. R!widening(r, s) = <<g, h>>
    BY <1>1, <1>2, <1>3, <1>6, <1>9, <2>4 DEF R!widening
  <2> QED
    BY <1>1, <1>4, <2>2, <2>3, <2>5, <2>6, RangePair
<1> QED
  BY <1>7, <1>8, <1>9

LEMMA RangeMeetHas ==
  ASSUME NEW r, NEW s, NEW x, RangeHas(r, x), RangeHas(s, x)
  PROVE  RangeHas(R!meet(r, s), x)
<1>1. PICK a \in Int, b \in Int : a = r[1] /\ b = r[2] /\ -Infinity <= a /\ a <= x /\ x <= b /\ b < Infinity
  BY RangeBounds
<1>2. PICK c \in Int, d \in Int : c = s[1] /\ d = s[2] /\ -Infinity <= c /\ c <= x /\ x <= d /\ d < Infinity
  BY RangeBounds
<1>3. x \in Machine /\ x \in Int /\ ~ R!isBottom(r) /\ ~ R!isBottom(s)
  BY RangeBounds
<1>4. PICK e \in Int, f \in Int : e = Max({a, c}) /\ f = Min({b, d})
  BY MinOfTwo, MaxOfTwo
<1>5. -Infinity <= e /\ e <= x /\ x <= f /\ f < Infinity
  BY <1>1, <1>2, <1>4, MinOfTwo, MaxOfTwo
<1>6. R!meet(r, s) = <<e, f>>
  BY <1>1, <1>2, <1>3, <1>4, SameNumbers DEF R!meet
<1> QED
  BY <1>3, <1>5, <1>6, RangePair

\* Ranges between results of which one is below the number and one above.
LEMMA RangeHull ==
  ASSUME NEW S \in SUBSET Machine, NEW x \in Machine, \E z \in S : z <= x, \E z \in S : x <= z
  PROVE  RangeHas(R!Hull(S), x)
<1>1. PICK P \in Int : P = Infinity
  BY Ends
<1>2. \A z \in S : z \in Int /\ -P <= z /\ z <= P
  BY <1>1, InMachine
<1>3. S # {}
  OBVIOUS
<1>4. Min(S) \in S /\ \A z \in S : Min(S) <= z
  <2>1. \A z \in S : z \in Int /\ -P <= z
    BY <1>2
  <2> QED
    BY <1>1, <1>3, <2>1, MinOf
<1>5. Max(S) \in S /\ \A z \in S : z <= Max(S)
  <2>1. \A z \in S : z \in Int /\ z <= P
    BY <1>2
  <2> QED
    BY <1>1, <1>3, <2>1, MaxOf
<1>6. PICK a \in Int, b \in Int : a = Min(S) /\ b = Max(S)
  BY <1>2, <1>4, <1>5
<1>7. -Infinity <= a /\ b < Infinity
  BY <1>4, <1>5, <1>6, InMachine
<1>8. x \in Int /\ a <= x
  <2>1. PICK z \in S : z <= x
    OBVIOUS
  <2> QED
    BY <1>2, <1>4, <1>6, <2>1, InMachine
<1>9. x <= b
  <2>1. PICK z \in S : x <= z
    OBVIOUS
  <2> QED
    BY <1>2, <1>5, <1>6, <1>8, <2>1
<1>10. R!Hull(S) = <<a, b>>
  BY <1>6, SameNumbers DEF R!Hull
<1> QED
  BY <1>7, <1>8, <1>9, <1>10, RangePair

LEMMA RangeAddHas ==
  ASSUME NEW r, NEW s, NEW x, NEW y, RangeHas(r, x), RangeHas(s, y), x + y \in Machine
  PROVE  RangeHas(R!add(r, s), x + y)
<1>1. PICK a \in Int, b \in Int : a = r[1] /\ b = r[2] /\ x \in Int /\ a <= x /\ x <= b
  BY RangeBounds
<1>2. PICK c \in Int, d \in Int : c = s[1] /\ d = s[2] /\ y \in Int /\ c <= y /\ y <= d
  BY RangeBounds
<1>3. a + c \in Int /\ b + d \in Int /\ a + c <= x + y /\ x + y <= b + d
  BY <1>1, <1>2
<1>4. RangeHas(<<R!Saturated(a + c), R!Saturated(b + d)>>, x + y)
  BY <1>3, SaturatedPair
<1> QED
  BY <1>1, <1>2, <1>4 DEF R!add

LEMMA RangeSubHas ==
  ASSUME NEW r, NEW s, NEW x, NEW y, RangeHas(r, x), RangeHas(s, y), x - y \in Machine,
         s[1] # R!NINF
  PROVE  RangeHas(R!sub(r, s), x - y)
<1>1. PICK a \in Int, b \in Int : a = r[1] /\ b = r[2] /\ x \in Int /\ a <= x /\ x <= b
  BY RangeBounds
<1>2. PICK c \in Int, d \in Int : c = s[1] /\ d = s[2] /\ y \in Int /\ c <= y /\ y <= d /\ -Infinity <= c
  BY RangeBounds
<1>3. PICK P \in Int : P = Infinity /\ R!NINF = -P
  BY Ends, SameNumbers
<1>4. c # -P /\ d # -P
  BY <1>2, <1>3
<1>5. R!Negated(c) = -c /\ R!Negated(d) = -d
  BY <1>3, <1>4 DEF R!Negated
<1>6. a + (-d) \in Int /\ b + (-c) \in Int /\ a + (-d) <= x - y /\ x - y <= b + (-c)
  BY <1>1, <1>2
<1>7. RangeHas(<<R!Saturated(a + (-d)), R!Saturated(b + (-c))>>, x - y)
  BY <1>6, SaturatedPair
<1> QED
  BY <1>1, <1>2, <1>5, <1>7 DEF R!sub

LEMMA RangeMulHas ==
  ASSUME NEW r, NEW s, NEW x, NEW y, RangeHas(r, x), RangeHas(s, y), x * y \in Machine
  PROVE  RangeHas(R!mul(r, s), x * y)
<1>1. PICK a \in Int, b \in Int : a = r[1] /\ b = r[2] /\ x \in a .. b
  BY RangeBounds
<1>2. PICK c \in Int, d \in Int : c = s[1] /\ d = s[2] /\ y \in c .. d
  BY RangeBounds
<1>3. PICK P \in Int : P = Infinity /\ P >= 2
  BY Ends
<1>4. PICK z \in Int : z = x * y /\ -P <= z /\ z < P
  BY <1>3, InMachine
<1> DEFINE S == {R!Saturated(p * q) : p \in R!Ends(r), q \in R!Ends(s)}
<1>5. R!Ends(r) = {a, b} /\ R!Ends(s) = {c, d}
  BY <1>1, <1>2 DEF R!Ends
<1>6. \A p \in {a, b}, q \in {c, d} : R!Saturated(p * q) \in S
  BY <1>5
<1>7. \A u \in S : \E p \in {a, b}, q \in {c, d} : u = R!Saturated(p * q)
  BY <1>5
<1>8. R!mul(r, s) = R!Hull(S)
  BY DEF R!mul
<1> HIDE DEF S
<1>9. \A k \in Int : R!Saturated(k) \in Int /\ -P <= R!Saturated(k) /\ R!Saturated(k) < P
  BY <1>3, RangeSaturated
<1>10. \A k, u \in Int : u = R!Saturated(k) /\ k <= z => u <= z
  BY <1>3, <1>4, RangeSaturated
<1>11. \A k, u \in Int : u = R!Saturated(k) /\ z <= k => z <= u
  BY <1>3, <1>4, RangeSaturated
<1>12. S \subseteq Machine
  <2> SUFFICES ASSUME NEW u \in S PROVE u \in Machine
    OBVIOUS
  <2>1. PICK p \in {a, b}, q \in {c, d} : u = R!Saturated(p * q)
    BY <1>7
  <2>2. p * q \in Int
    OBVIOUS
  <2> QED
    BY <1>3, <1>9, <2>1, <2>2, InMachine
<1>13. \E u \in S : u <= z
  <2>1. PICK p \in {a, b}, q \in {c, d} : p * q <= x * y
    BY <1>1, <1>2, ProductCorners
  <2>2. PICK k \in Int : k = p * q
    OBVIOUS
  <2>3. k <= z
    BY <1>4, <2>1, <2>2
  <2>4. PICK u \in Int : u = R!Saturated(k)
    BY <1>9
  <2>5. u <= z
    BY <1>10, <2>3, <2>4
  <2>6. u \in S
    BY <1>6, <2>2, <2>4
  <2> QED
    BY <2>5, <2>6
<1>14. \E u \in S : z <= u
  <2>1. PICK p \in {a, b}, q \in {c, d} : x * y <= p * q
    BY <1>1, <1>2, ProductCorners
  <2>2. PICK k \in Int : k = p * q
    OBVIOUS
  <2>3. z <= k
    BY <1>4, <2>1, <2>2
  <2>4. PICK u \in Int : u = R!Saturated(k)
    BY <1>9
  <2>5. z <= u
    BY <1>11, <2>3, <2>4
  <2>6. u \in S
    BY <1>6, <2>2, <2>4
  <2> QED
    BY <2>5, <2>6
<1>15. RangeHas(R!Hull(S), z)
  BY <1>4, <1>12, <1>13, <1>14, RangeHull
<1> QED
  BY <1>4, <1>8, <1>15

LEMMA RangeDivHas ==
  ASSUME NEW r, NEW s, NEW x, NEW y, RangeHas(r, x), RangeHas(s, y), y # 0,
         Quotient(x, y) \in Machine,
         s[1] # R!NINF, ~ (r[1] = R!NINF /\ -1 \in R!Ends(s))
  PROVE  RangeHas(R!div(r, s), Quotient(x, y))
<1>1. PICK a \in Int, b \in Int : a = r[1] /\ b = r[2] /\ x \in Int /\ a <= x /\ x <= b
                               /\ -Infinity <= a /\ b < Infinity
  BY RangeBounds
<1>2. PICK c \in Int, d \in Int : c = s[1] /\ d = s[2] /\ y \in Int /\ c <= y /\ y <= d
  BY RangeBounds
<1>3. PICK P \in Int : P = Infinity /\ R!NINF = -P /\ P >= 2
  BY Ends, SameNumbers
<1>4. R!isSubset(R!Constant(0), s) <=> c <= 0 /\ 0 <= d
  BY <1>2 DEF R!isSubset, R!Constant
<1>5. CASE c <= 0 /\ 0 <= d
  BY <1>4, <1>5, RangeTopHas DEF R!div
<1>6. CASE ~ (c <= 0 /\ 0 <= d)
  <2> DEFINE S == {R!V!Quotient(p, q) : p \in R!Ends(r), q \in R!Ends(s)}
  <2>1. R!Ends(r) = {a, b} /\ R!Ends(s) = {c, d}
    BY <1>1, <1>2 DEF R!Ends
  <2>2. \A p \in {a, b}, q \in {c, d} : Quotient(p, q) \in S
    <3> SUFFICES ASSUME NEW p \in {a, b}, NEW q \in {c, d} PROVE Quotient(p, q) \in S
      OBVIOUS
    <3>1. R!V!Quotient(p, q) \in S
      BY <2>1
    <3> QED
      BY <3>1, SameNumbers
  <2>3. \A u \in S : \E p \in {a, b}, q \in {c, d} : u = Quotient(p, q)
    BY <2>1, SameNumbers
  <2>4. R!div(r, s) = R!Hull(S)
    BY <1>4, <1>6 DEF R!div
  <2> HIDE DEF S
  <2>5. c > 0 \/ d < 0
    BY <1>2, <1>6
  <2>6. S \subseteq Machine
    <3> SUFFICES ASSUME NEW u \in S PROVE u \in Machine
      OBVIOUS
    <3>1. PICK p \in {a, b}, q \in {c, d} : u = Quotient(p, q)
      BY <2>3
    <3>2. p \in Int /\ q \in Int /\ q # 0 /\ -P <= p /\ p < P /\ (p = -P => a = -P)
      BY <1>1, <1>2, <1>3, <2>5
    <3>3. p = -P => q # -1
      BY <1>1, <1>3, <2>1, <3>2
    <3>4. /\ u \in Int /\ - Abs(p) <= u /\ u <= Abs(p)
          /\ (p >= 0) # (q > 0) => u <= 0
      BY <3>1, <3>2, QuotientType
    <3>5. Abs(p) = IF p < 0 THEN -p ELSE p
      BY DEF Abs
    <3>6. CASE p # -P
      <4>1. -P <= u /\ u < P
        BY <1>3, <3>2, <3>4, <3>5, <3>6
      <4> QED
        BY <1>3, <3>4, <4>1, InMachine
    <3>7. CASE p = -P /\ q > 0
      <4>1. -P <= u /\ u < P
        BY <1>3, <3>2, <3>4, <3>5, <3>7
      <4> QED
        BY <1>3, <3>4, <4>1, InMachine
    <3>8. CASE p = -P /\ ~ (q > 0)
      <4>1. PICK m \in Nat \ {0} : m = -q /\ 2 <= m
        BY <3>2, <3>3, <3>8
      <4>2. Abs(q) = m
        BY <3>2, <3>8, <4>1 DEF Abs
      <4>3. u = P \div m
        <5>1. (p < 0) = (q < 0)
          BY <1>3, <3>2, <3>8
        <5>2. Abs(p) = P
          BY <1>3, <3>5, <3>8
        <5> QED
          BY <3>1, <4>2, <5>1, <5>2 DEF Quotient
      <4>4. u <= P \div 2
        <5>1. 2 \in Nat \ {0} /\ P >= 0
          BY <1>3
        <5> QED
          BY <4>1, <4>3, <5>1, FloorOfMore
      <4>5. PICK h \in Int : h = P \div 2 /\ h < P
        <5>1. 2 \in Nat \ {0}
          OBVIOUS
        <5>2. P \div 2 \in Int /\ 2 * (P \div 2) <= P
          BY <5>1, Floor
        <5> QED
          BY <1>3, <5>2
      <4>6. -P <= u /\ u < P
        BY <1>3, <3>2, <3>4, <3>5, <3>8, <4>4, <4>5
      <4> QED
        BY <1>3, <3>4, <4>6, InMachine
    <3> QED
      BY <3>6, <3>7, <3>8
  <2>7. x \in a .. b /\ y \in c .. d
    BY <1>1, <1>2
  <2>8. \E u \in S : u <= Quotient(x, y)
    <3>1. PICK p \in {a, b}, q \in {c, d} : Quotient(p, q) <= Quotient(x, y)
      BY <2>5, <2>7, QuotientCorners
    <3> QED
      BY <2>2, <3>1
  <2>9. \E u \in S : Quotient(x, y) <= u
    <3>1. PICK p \in {a, b}, q \in {c, d} : Quotient(x, y) <= Quotient(p, q)
      BY <2>5, <2>7, QuotientCorners
    <3> QED
      BY <2>2, <3>1
  <2> QED
    BY <2>4, <2>6, <2>8, <2>9, RangeHull
<1> QED
  BY <1>5, <1>6

LEMMA RangeConstantIs ==
  ASSUME NEW r, NEW x, RangeHas(r, x), R!isConstant(r)
  PROVE  x = r[1]
<1>1. PICK a \in Int, b \in Int : a = r[1] /\ b = r[2] /\ x \in Int /\ a <= x /\ x <= b
  BY RangeBounds
<1> QED
  BY <1>1 DEF R!isConstant

LEMMA RangeModHas ==
  ASSUME NEW r, NEW s, NEW x, NEW y, RangeHas(r, x), RangeHas(s, y), y # 0,
         Remainder(x, y) \in Machine, s[1] # R!NINF
  PROVE  RangeHas(R!mod(r, s), Remainder(x, y))
<1>1. PICK a \in Int, b \in Int : a = r[1] /\ b = r[2] /\ x \in Int /\ a <= x /\ x <= b
                               /\ -Infinity <= a /\ b < Infinity
  BY RangeBounds
<1>2. PICK c \in Int, d \in Int : c = s[1] /\ d = s[2] /\ y \in Int /\ c <= y /\ y <= d
                               /\ -Infinity <= c /\ d < Infinity
  BY RangeBounds
<1>3. PICK P \in Int : P = Infinity /\ R!NINF = -P /\ P >= 2
  BY Ends, SameNumbers
<1>4. R!isSubset(R!Constant(0), s) <=> c <= 0 /\ 0 <= d
  BY <1>2 DEF R!isSubset, R!Constant
<1>5. PICK t \in Int : /\ t = Remainder(x, y)
                       /\ - Abs(x) <= t /\ t <= Abs(x) /\ - Abs(y) < t /\ t < Abs(y)
                       /\ x >= 0 => t >= 0
  BY <1>1, <1>2, RemainderType
<1>6. PICK most \in Int : /\ most = Max({R!V!Abs(q) : q \in R!Ends(s)}) - 1
                          /\ most < P - 1 /\ -most <= t /\ t <= most
  <2>1. \A z \in Int : Abs(z) = IF z < 0 THEN -z ELSE z
    BY DEF Abs
  <2>2. PICK f \in Int, g \in Int : f = Abs(c) /\ g = Abs(d)
    BY <1>2, <2>1
  <2>3. {R!V!Abs(q) : q \in R!Ends(s)} = {f, g}
    BY <1>2, <2>2, SameNumbers DEF R!Ends
  <2>4. PICK m \in Int : m = Max({f, g}) /\ m = IF f <= g THEN g ELSE f
    BY MaxOfTwo
  <2>5. f < P /\ g < P
    BY <1>2, <1>3, <2>1, <2>2
  <2>6. Abs(y) <= m
    BY <1>2, <2>1, <2>2, <2>4
  <2>7. PICK k \in Int : k = Abs(y) /\ k <= m /\ -k < t /\ t < k
    BY <1>2, <1>5, <2>1, <2>6
  <2>8. PICK n \in Int : n = m - 1
    OBVIOUS
  <2>9. n < P - 1 /\ -n <= t /\ t <= n
    BY <2>4, <2>5, <2>7, <2>8
  <2>10. n = Max({R!V!Abs(q) : q \in R!Ends(s)}) - 1
    BY <2>3, <2>4, <2>8
  <2> QED
    BY <2>9, <2>10
<1>7. R!mod(r, s) = IF R!isSubset(R!Constant(0), s) THEN R!TOP
        ELSE IF R!isConstant(r) /\ R!isConstant(s) THEN R!Constant(Remainder(r[1], s[1]))
        ELSE IF R!isConstant(s) /\ r[1] >= 0 THEN <<0, Min({r[2], most})>>
        ELSE <<-most, most>>
  BY <1>6, SameNumbers DEF R!mod
<1>8. CASE R!isSubset(R!Constant(0), s)
  BY <1>7, <1>8, RangeTopHas
<1>9. CASE ~ R!isSubset(R!Constant(0), s) /\ R!isConstant(r) /\ R!isConstant(s)
  <2>1. x = r[1] /\ y = s[1]
    BY <1>9, RangeConstantIs
  <2> QED
    BY <1>7, <1>9, <2>1, ConstantHas
<1>10. CASE ~ R!isSubset(R!Constant(0), s) /\ ~ R!isConstant(r) /\ R!isConstant(s) /\ r[1] >= 0
  <2>1. PICK m \in Int : m = Min({b, most}) /\ m = IF b <= most THEN b ELSE most
    BY MinOfTwo
  <2>2. 0 <= t /\ t <= x
    BY <1>1, <1>5, <1>10 DEF Abs
  <2>3. -P <= 0 /\ t <= m /\ m < P
    <3>1. t <= b /\ t <= most /\ b < P /\ most < P
      BY <1>1, <1>3, <1>6, <2>2
    <3> QED
      BY <1>3, <2>1, <3>1
  <2>4. RangeHas(<<0, m>>, t)
    BY <1>3, <1>5, <2>2, <2>3, RangePair
  <2> QED
    BY <1>1, <1>5, <1>7, <1>10, <2>1, <2>4
<1>11. CASE /\ ~ R!isSubset(R!Constant(0), s) /\ ~ (R!isConstant(r) /\ R!isConstant(s))
            /\ ~ (R!isConstant(s) /\ r[1] >= 0)
  <2>1. -P <= -most /\ most < P
    BY <1>3, <1>6
  <2>2. RangeHas(<<-most, most>>, t)
    BY <1>3, <1>5, <1>6, <2>1, RangePair
  <2> QED
    BY <1>5, <1>7, <1>11, <2>2
<1> QED
  BY <1>8, <1>9, <1>10, <1>11

LEMMA RangeAndHas ==
  ASSUME NEW r, NEW s, NEW x, NEW y, RangeHas(r, x), RangeHas(s, y), BitAnd(x, y) \in Machine
  PROVE  RangeHas(R!bit_and(r, s), BitAnd(x, y))
<1>1. PICK a \in Int, b \in Int : a = r[1] /\ b = r[2] /\ x \in Int /\ a <= x /\ x <= b
                               /\ x < Infinity /\ b < Infinity
  BY RangeBounds
<1>2. PICK c \in Int, d \in Int : c = s[1] /\ d = s[2] /\ y \in Int /\ c <= y /\ y <= d
                               /\ y < Infinity /\ d < Infinity
  BY RangeBounds
<1>3. PICK P \in Int : P = Infinity /\ P >= 2
  BY Ends
<1>4. PICK t \in Int : t = BitAnd(x, y) /\ t \in Machine
  BY InMachine
<1>5. x >= 0 => 0 <= t /\ t <= x
  <2> SUFFICES ASSUME x >= 0 PROVE 0 <= t /\ t <= x
    OBVIOUS
  <2>1. x \in 0 .. Infinity - 1
    BY <1>1, <1>3
  <2>2. BitAnd(x, y) \in 0 .. x
    BY <1>2, <2>1, AndNumber
  <2> QED
    BY <1>1, <1>4, <2>2
<1>6. y >= 0 => 0 <= t /\ t <= y
  <2> SUFFICES ASSUME y >= 0 PROVE 0 <= t /\ t <= y
    OBVIOUS
  <2>1. y \in 0 .. Infinity - 1
    BY <1>2, <1>3
  <2>2. BitAnd(y, x) \in 0 .. y
    BY <1>1, <2>1, AndNumber
  <2>3. BitAnd(y, x) = BitAnd(x, y)
    BY <1>1, <1>2, AndSymmetric
  <2> QED
    BY <1>2, <1>4, <2>2, <2>3
<1>7. R!bit_and(r, s) = IF R!isConstant(r) /\ R!isConstant(s) THEN R!Constant(BitAnd(r[1], s[1]))
        ELSE IF r[1] >= 0 /\ s[1] >= 0 THEN <<0, Min({r[2], s[2]})>>
        ELSE IF r[1] >= 0 THEN <<0, r[2]>>
        ELSE IF s[1] >= 0 THEN <<0, s[2]>>
        ELSE R!TOP
  BY SameNumbers DEF R!bit_and
<1>8. CASE R!isConstant(r) /\ R!isConstant(s)
  <2>1. x = r[1] /\ y = s[1]
    BY <1>8, RangeConstantIs
  <2> QED
    BY <1>7, <1>8, <2>1, ConstantHas
<1>9. CASE ~ (R!isConstant(r) /\ R!isConstant(s)) /\ a >= 0 /\ c >= 0
  <2>1. PICK m \in Int : m = Min({b, d}) /\ m = IF b <= d THEN b ELSE d
    BY MinOfTwo
  <2>2. 0 <= t /\ t <= x /\ t <= y
    BY <1>1, <1>2, <1>5, <1>6, <1>9
  <2>3. t <= b /\ t <= d /\ b < P /\ d < P
    BY <1>1, <1>2, <1>3, <2>2
  <2>4. -P <= 0 /\ t <= m /\ m < P
    BY <1>3, <2>1, <2>3
  <2>5. RangeHas(<<0, m>>, t)
    BY <1>3, <1>4, <2>2, <2>4, RangePair
  <2> QED
    BY <1>1, <1>2, <1>4, <1>7, <1>9, <2>1, <2>5
<1>10. CASE ~ (R!isConstant(r) /\ R!isConstant(s)) /\ a >= 0 /\ ~ (c >= 0)
  <2>1. -P <= 0 /\ 0 <= t /\ t <= b /\ b < P
    BY <1>1, <1>3, <1>5, <1>10
  <2>2. RangeHas(<<0, b>>, t)
    BY <1>3, <1>4, <2>1, RangePair
  <2> QED
    BY <1>1, <1>2, <1>4, <1>7, <1>10, <2>2
<1>11. CASE ~ (R!isConstant(r) /\ R!isConstant(s)) /\ ~ (a >= 0) /\ c >= 0
  <2>1. -P <= 0 /\ 0 <= t /\ t <= d /\ d < P
    BY <1>2, <1>3, <1>6, <1>11
  <2>2. RangeHas(<<0, d>>, t)
    BY <1>3, <1>4, <2>1, RangePair
  <2> QED
    BY <1>1, <1>2, <1>4, <1>7, <1>11, <2>2
<1>12. CASE ~ (R!isConstant(r) /\ R!isConstant(s)) /\ ~ (a >= 0) /\ ~ (c >= 0)
  BY <1>1, <1>2, <1>7, <1>12, RangeTopHas
<1> QED
  BY <1>8, <1>9, <1>10, <1>11, <1>12

LEMMA CoveringIs ==
  ASSUME NEW r, NEW s, NEW x, NEW y, RangeHas(r, x), RangeHas(s, y), r[1] >= 0, s[1] >= 0
  PROVE  \E k \in 0 .. Bits : /\ x < Pow2[k] /\ y < Pow2[k] /\ Pow2[k] \in Int /\ Pow2[k] <= Infinity
                              /\ R!Covering(r, s) = Pow2[k] - 1
<1>1. PICK b \in Int : b = r[2] /\ x \in Int /\ x <= b /\ b < Infinity
  BY RangeBounds
<1>2. PICK d \in Int : d = s[2] /\ y \in Int /\ y <= d /\ d < Infinity
  BY RangeBounds
<1>3. PICK m \in Int : m = Max({b, d}) /\ m = IF b <= d THEN d ELSE b
  BY MaxOfTwo
<1>4. m < Infinity /\ x <= m /\ y <= m
  <2>1. PICK P \in Int : P = Infinity
    BY Ends
  <2> QED
    BY <1>1, <1>2, <1>3, <2>1
<1>5. PICK k : k = Min({i \in 0 .. Bits : Pow2[i] > m})
  OBVIOUS
<1>6. Bits \in 0 .. Bits
  BY Ends
<1>7. k \in 0 .. Bits /\ m < Pow2[k] /\ Pow2[k] \in Int /\ Pow2[k] <= Infinity
  BY <1>4, <1>5, <1>6, PowerAbove
<1>8. PICK p \in Int : p = Pow2[k]
  BY <1>7
<1>9. x < p /\ y < p
  BY <1>1, <1>2, <1>4, <1>7, <1>8
<1>10. R!Covering(r, s) = Pow2[k] - 1
  <2>1. {i \in 0 .. Bits : R!V!Pow2[i] > R!Max({r[2], s[2]})} = {i \in 0 .. Bits : Pow2[i] > m}
    BY <1>1, <1>2, <1>3, SameNumbers
  <2> QED
    BY <1>5, <2>1, SameNumbers DEF R!Covering
<1> QED
  BY <1>7, <1>8, <1>9, <1>10

LEMMA RangeOrHas ==
  ASSUME NEW r, NEW s, NEW x, NEW y, RangeHas(r, x), RangeHas(s, y)
  PROVE  /\ BitOr(x, y) \in Machine => RangeHas(R!bit_or(r, s), BitOr(x, y))
         /\ BitXor(x, y) \in Machine => RangeHas(R!bit_xor(r, s), BitXor(x, y))
<1>1. PICK a \in Int : a = r[1] /\ x \in Int /\ a <= x /\ x < Infinity
  BY RangeBounds
<1>2. PICK c \in Int : c = s[1] /\ y \in Int /\ c <= y /\ y < Infinity
  BY RangeBounds
<1>3. PICK P \in Int : P = Infinity /\ P >= 2
  BY Ends
<1>4. R!bit_or(r, s) = IF R!isConstant(r) /\ R!isConstant(s) THEN R!Constant(BitOr(r[1], s[1]))
        ELSE IF r[1] >= 0 /\ s[1] >= 0 THEN <<Max({r[1], s[1]}), R!Covering(r, s)>>
        ELSE R!TOP
  BY SameNumbers DEF R!bit_or
<1>5. R!bit_xor(r, s) = IF R!isConstant(r) /\ R!isConstant(s) THEN R!Constant(BitXor(r[1], s[1]))
        ELSE IF r[1] >= 0 /\ s[1] >= 0 THEN <<0, R!Covering(r, s)>>
        ELSE R!TOP
  BY SameNumbers DEF R!bit_xor
<1>6. CASE R!isConstant(r) /\ R!isConstant(s)
  <2>1. x = r[1] /\ y = s[1]
    BY <1>6, RangeConstantIs
  <2> QED
    BY <1>4, <1>5, <1>6, <2>1, ConstantHas
<1>7. CASE ~ (R!isConstant(r) /\ R!isConstant(s)) /\ a >= 0 /\ c >= 0
  <2>1. PICK k \in 0 .. Bits : /\ x < Pow2[k] /\ y < Pow2[k] /\ Pow2[k] \in Int /\ Pow2[k] <= Infinity
                               /\ R!Covering(r, s) = Pow2[k] - 1
    BY <1>1, <1>2, <1>7, CoveringIs
  <2>2. x \in 0 .. Infinity - 1 /\ y \in 0 .. Infinity - 1
    BY <1>1, <1>2, <1>3, <1>7
  <2>3. /\ BitOr(x, y) \in Int /\ x <= BitOr(x, y) /\ y <= BitOr(x, y) /\ BitOr(x, y) < Pow2[k]
        /\ BitXor(x, y) \in Int /\ 0 <= BitXor(x, y) /\ BitXor(x, y) < Pow2[k]
    BY <2>1, <2>2, OrNumber
  <2>4. PICK p \in Int : p = Pow2[k] - 1 /\ p < P
    BY <1>3, <2>1
  <2>5. PICK t \in Int, u \in Int : t = BitOr(x, y) /\ u = BitXor(x, y)
                                 /\ x <= t /\ y <= t /\ t <= p /\ 0 <= u /\ u <= p
    BY <2>1, <2>3, <2>4
  <2>6. PICK m \in Int : m = Max({a, c}) /\ m = IF a <= c THEN c ELSE a
    BY MaxOfTwo
  <2>7. -P <= 0 /\ -P <= m /\ m <= t
    BY <1>1, <1>2, <1>3, <1>7, <2>5, <2>6
  <2>8. t \in Machine => RangeHas(<<m, p>>, t)
    BY <1>3, <2>4, <2>5, <2>7, RangePair
  <2>9. u \in Machine => RangeHas(<<0, p>>, u)
    BY <1>3, <2>4, <2>5, <2>7, RangePair
  <2>10. R!bit_or(r, s) = <<m, p>> /\ R!bit_xor(r, s) = <<0, p>>
    BY <1>1, <1>2, <1>4, <1>5, <1>7, <2>1, <2>4, <2>6
  <2> QED
    BY <2>5, <2>8, <2>9, <2>10
<1>8. CASE ~ (R!isConstant(r) /\ R!isConstant(s)) /\ ~ (a >= 0 /\ c >= 0)
  <2>1. R!bit_or(r, s) = R!TOP /\ R!bit_xor(r, s) = R!TOP
    BY <1>1, <1>2, <1>4, <1>5, <1>8
  <2> QED
    BY <2>1, RangeTopHas
<1> QED
  BY <1>6, <1>7, <1>8

LEMMA RangeShlHas ==
  ASSUME NEW r, NEW s, NEW x, NEW y, RangeHas(r, x), RangeHas(s, y), y \in 0 .. Bits,
         x * Pow2[y] \in Machine
  PROVE  RangeHas(R!shl(r, s), x * Pow2[y])
<1>1. PICK a \in Int, b \in Int : a = r[1] /\ b = r[2] /\ x \in Int /\ a <= x /\ x <= b
  BY RangeBounds
<1>2. PICK c \in Int, d \in Int : c = s[1] /\ d = s[2] /\ y \in Int /\ c <= y /\ y <= d
  BY RangeBounds
<1>3. CASE c < 0 \/ d >= Bits
  BY <1>2, <1>3, RangeTopHas DEF R!shl
<1>4. CASE ~ (c < 0 \/ d >= Bits)
  <2>1. c \in Nat /\ y \in Nat /\ d \in Nat
    BY <1>2, <1>4, Ends
  <2>2. PICK e \in Int, p \in Int, f \in Int : /\ e = Pow2[c] /\ p = Pow2[y] /\ f = Pow2[d]
                                              /\ 1 <= e /\ e <= p /\ p <= f
    <3>1. Pow2[c] <= Pow2[y] /\ Pow2[y] <= Pow2[d]
      BY <1>2, <2>1, Pow2Grows
    <3>2. Pow2[c] \in Int /\ Pow2[y] \in Int /\ Pow2[d] \in Int /\ 1 <= Pow2[c]
      BY <2>1, Pow2Positive
    <3> QED
      BY <3>1, <3>2
  <2>3. PICK g \in Int, z \in Int, h \in Int : /\ g = a * (IF a >= 0 THEN e ELSE f)
                                              /\ z = x * p
                                              /\ h = b * (IF b >= 0 THEN f ELSE e)
    <3>1. a * (IF a >= 0 THEN e ELSE f) \in Int
      OBVIOUS
    <3>2. x * p \in Int
      BY <1>1
    <3>3. b * (IF b >= 0 THEN f ELSE e) \in Int
      OBVIOUS
    <3> QED
      BY <3>1, <3>2, <3>3
  <2>4. PICK k \in Int, l \in Int : k = a * p /\ l = b * p /\ k <= z /\ z <= l
    <3>1. a * p <= x * p /\ x * p <= b * p
      BY <1>1, <2>2, ProductGrows
    <3>2. a * p \in Int /\ b * p \in Int
      OBVIOUS
    <3> QED
      BY <2>3, <3>1, <3>2
  <2>5. g <= k
    <3>1. CASE a >= 0
      <4>1. e * a <= p * a
        BY <2>2, <3>1, ProductGrows
      <4> QED
        BY <2>3, <2>4, <3>1, <4>1
    <3>2. CASE ~ (a >= 0)
      <4>1. f * a <= p * a
        BY <2>2, <3>2, ProductFalls
      <4> QED
        BY <2>3, <2>4, <3>2, <4>1
    <3> QED
      BY <3>1, <3>2
  <2>6. l <= h
    <3>1. CASE b >= 0
      <4>1. p * b <= f * b
        BY <2>2, <3>1, ProductGrows
      <4> QED
        BY <2>3, <2>4, <3>1, <4>1
    <3>2. CASE ~ (b >= 0)
      <4>1. p * b <= e * b
        BY <2>2, <3>2, ProductFalls
      <4> QED
        BY <2>3, <2>4, <3>2, <4>1
    <3> QED
      BY <3>1, <3>2
  <2>7. g <= z /\ z <= h /\ z \in Machine
    BY <2>2, <2>3, <2>4, <2>5, <2>6
  <2>8. RangeHas(<<R!Saturated(g), R!Saturated(h)>>, z)
    BY <2>7, SaturatedPair
  <2>9. R!shl(r, s) = <<R!Saturated(r[1] * Pow2[IF r[1] >= 0 THEN s[1] ELSE s[2]]),
                        R!Saturated(r[2] * Pow2[IF r[2] >= 0 THEN s[2] ELSE s[1]])>>
    BY <1>2, <1>4, SameNumbers DEF R!shl
  <2>10. /\ Pow2[IF a >= 0 THEN c ELSE d] = IF a >= 0 THEN e ELSE f
         /\ Pow2[IF b >= 0 THEN d ELSE c] = IF b >= 0 THEN f ELSE e
    BY <2>2
  <2>11. R!shl(r, s) = <<R!Saturated(g), R!Saturated(h)>>
    BY <1>1, <1>2, <2>3, <2>9, <2>10
  <2> QED
    BY <2>2, <2>3, <2>8, <2>11
<1> QED
  BY <1>3, <1>4

LEMMA RangeShrHas ==
  ASSUME NEW r, NEW s, NEW x, NEW y, RangeHas(r, x), RangeHas(s, y), y \in 0 .. Bits,
         r[1] >= 0 \/ R!isConstant(s)
  PROVE  RangeHas(R!ashr(r, s), x \div Pow2[y])
<1>1. PICK a \in Int, b \in Int : a = r[1] /\ b = r[2] /\ x \in Int /\ a <= x /\ x <= b
                               /\ -Infinity <= a /\ b < Infinity
  BY RangeBounds
<1>2. PICK c \in Int, d \in Int : c = s[1] /\ d = s[2] /\ y \in Int /\ c <= y /\ y <= d
  BY RangeBounds
<1>3. PICK P \in Int : P = Infinity /\ P >= 2
  BY Ends
<1>4. Bits \in Nat
  BY Ends
<1>5. PICK e \in Int, f \in Int : /\ e = Min({d, Bits}) /\ e = IF d <= Bits THEN d ELSE Bits
                                  /\ f = Min({c, Bits}) /\ f = IF c <= Bits THEN c ELSE Bits
  BY <1>4, MinOfTwo
<1>6. y \in Nat /\ y <= e /\ f <= y /\ e \in Nat
  BY <1>2, <1>4, <1>5
<1>7. Pow2[y] \in Nat \ {0} /\ Pow2[e] \in Nat \ {0} /\ Pow2[y] <= Pow2[e]
  BY <1>6, Pow2Positive, Pow2Grows
<1>8. PICK t \in Int : /\ t = x \div Pow2[y]
                       /\ x >= 0 => 0 <= t /\ t <= x
                       /\ x < 0 => x <= t /\ t <= -1
  BY <1>1, <1>7, FloorSign, Floor
<1>9. t \in Machine
  <2>1. -P <= x /\ x < P
    BY <1>1, <1>3
  <2>2. (x >= 0 => 0 <= t /\ t <= x) /\ (x < 0 => x <= t /\ t <= -1)
    BY <1>8
  <2>3. -P <= t /\ t < P
    BY <1>1, <1>3, <2>1, <2>2
  <2> QED
    BY <1>3, <2>3, InMachine
<1>10. CASE c < 0
  BY <1>2, <1>8, <1>9, <1>10, RangeTopHas DEF R!ashr
<1>11. CASE ~ (c < 0)
  <2>1. f \in Nat
    BY <1>4, <1>5, <1>11
  <2>2. Pow2[f] \in Nat \ {0} /\ Pow2[f] <= Pow2[y]
    BY <1>6, <2>1, Pow2Positive, Pow2Grows
  <2>3. PICK g \in Int, h \in Int : g = a \div Pow2[e] /\ h = b \div Pow2[f]
    BY <1>7, <2>2, Floor
  <2>4. R!ashr(r, s) = <<g, h>>
    BY <1>1, <1>2, <1>5, <1>11, <2>3, SameNumbers DEF R!ashr
  <2>5. PICK k \in Int, l \in Int : k = a \div Pow2[y] /\ l = b \div Pow2[y] /\ k <= t /\ t <= l
    <3>1. a \div Pow2[y] \in Int /\ b \div Pow2[y] \in Int
      BY <1>7, Floor
    <3>2. a \div Pow2[y] <= x \div Pow2[y]
      BY <1>1, <1>7, FloorGrows
    <3>3. x \div Pow2[y] <= b \div Pow2[y]
      BY <1>1, <1>7, FloorGrows
    <3> QED
      BY <1>8, <3>1, <3>2, <3>3
  <2>6. CASE a >= 0
    <3>1. b >= 0
      BY <1>1, <2>6
    <3>2. g <= k
      BY <1>7, <2>3, <2>5, <2>6, FloorOfMore
    <3>3. l <= h
      BY <1>7, <2>2, <2>3, <2>5, <3>1, FloorOfMore
    <3>4. 0 <= g /\ h <= b
      BY <1>7, <2>2, <2>3, <2>6, <3>1, FloorSign
    <3>5. -P <= g /\ h < P /\ g <= t /\ t <= h
      BY <1>1, <1>3, <2>5, <3>2, <3>3, <3>4
    <3>6. RangeHas(<<g, h>>, t)
      BY <1>3, <1>9, <3>5, RangePair
    <3> QED
      BY <1>8, <2>4, <3>6
  <2>7. CASE ~ (a >= 0)
    <3>1. c = d
      BY <1>1, <1>2, <2>7 DEF R!isConstant
    <3>2. e = y /\ f = y
      BY <1>2, <1>4, <1>5, <3>1
    <3>3. g = k /\ h = l
      BY <2>3, <2>5, <3>2
    <3>4. a <= g
      BY <1>7, <2>3, <2>7, FloorSign
    <3>5. h < P
      <4>1. b >= 0 => h <= b
        BY <2>2, <2>3, FloorSign
      <4>2. b < 0 => h <= -1
        BY <2>2, <2>3, FloorSign
      <4> QED
        BY <1>1, <1>3, <4>1, <4>2
    <3>6. -P <= g /\ g <= t /\ t <= h
      BY <1>1, <1>3, <2>5, <3>3, <3>4
    <3>7. RangeHas(<<g, h>>, t)
      BY <1>3, <1>9, <3>5, <3>6, RangePair
    <3> QED
      BY <1>8, <2>4, <3>7
  <2> QED
    BY <2>6, <2>7
<1> QED
  BY <1>10, <1>11

LEMMA OperationHas ==
  ASSUME NEW op \in Operators \union {"lshr"}, NEW r, NEW s, NEW x, NEW y,
         RangeHas(r, x), RangeHas(s, y), ~ R!GoesWrong(op, r, s), NEW z \in Machine,
         IF op = "lshr" THEN y \in 0 .. Bits /\ z = LogicalShift(x, y)
         ELSE Defined(op, x, y) /\ z = Result(op, x, y)
  PROVE  RangeHas(R!Operation(op, r, s), z)
<1>1. ~ (R!isBottom(r) \/ R!isBottom(s))
  BY RangeBounds
<1>2. x \in Int /\ y \in Int
  BY RangeBounds
<1>3. CASE op = "add"
  <2>1. z = x + y /\ R!Operation(op, r, s) = R!add(r, s)
    BY <1>1, <1>3 DEF Result, R!Operation
  <2> QED
    BY <2>1, RangeAddHas
<1>4. CASE op = "sub"
  <2>1. z = x - y /\ R!Operation(op, r, s) = R!sub(r, s) /\ s[1] # R!NINF
    BY <1>1, <1>4 DEF Result, R!Operation, R!GoesWrong
  <2> QED
    BY <2>1, RangeSubHas
<1>5. CASE op = "mul"
  <2>1. z = x * y /\ R!Operation(op, r, s) = R!mul(r, s)
    BY <1>1, <1>5 DEF Result, R!Operation
  <2> QED
    BY <2>1, RangeMulHas
<1>6. CASE op = "div"
  <2>1. z = Quotient(x, y) /\ y # 0 /\ R!Operation(op, r, s) = R!div(r, s)
    BY <1>1, <1>6 DEF Result, Defined, R!Operation
  <2>2. s[1] # R!NINF /\ ~ (r[1] = R!NINF /\ -1 \in R!Ends(s))
    BY <1>6 DEF R!GoesWrong
  <2> QED
    BY <2>1, <2>2, RangeDivHas
<1>7. CASE op = "rem"
  <2>1. z = Remainder(x, y) /\ y # 0 /\ R!Operation(op, r, s) = R!mod(r, s) /\ s[1] # R!NINF
    BY <1>1, <1>7 DEF Result, Defined, R!Operation, R!GoesWrong
  <2> QED
    BY <2>1, RangeModHas
<1>8. CASE op = "and"
  <2>1. z = BitAnd(x, y) /\ R!Operation(op, r, s) = R!bit_and(r, s)
    BY <1>1, <1>8 DEF Result, R!Operation
  <2> QED
    BY <2>1, RangeAndHas
<1>9. CASE op = "or"
  <2>1. z = BitOr(x, y) /\ R!Operation(op, r, s) = R!bit_or(r, s)
    BY <1>1, <1>9 DEF Result, R!Operation
  <2> QED
    BY <2>1, RangeOrHas
<1>10. CASE op = "xor"
  <2>1. z = BitXor(x, y) /\ R!Operation(op, r, s) = R!bit_xor(r, s)
    BY <1>1, <1>10 DEF Result, R!Operation
  <2> QED
    BY <2>1, RangeOrHas
<1>11. CASE op = "shl"
  <2>1. z = x * Pow2[y] /\ y \in 0 .. Bits /\ R!Operation(op, r, s) = R!shl(r, s)
    BY <1>1, <1>11 DEF Result, Defined, R!Operation
  <2> QED
    BY <2>1, RangeShlHas
<1>12. CASE op = "shr"
  <2>1. z = x \div Pow2[y] /\ y \in 0 .. Bits /\ R!Operation(op, r, s) = R!ashr(r, s)
    BY <1>1, <1>12 DEF Result, Defined, R!Operation
  <2>2. ~ (r[1] < 0) \/ R!isConstant(s)
    BY <1>12 DEF R!GoesWrong
  <2>3. r[1] \in Int
    BY RangeBounds
  <2>4. r[1] >= 0 \/ R!isConstant(s)
    BY <2>2, <2>3
  <2> QED
    BY <2>1, <2>4, RangeShrHas
<1>13. CASE op = "lshr"
  <2>1. z = LogicalShift(x, y) /\ y \in 0 .. Bits /\ R!Operation(op, r, s) = R!lshr(r, s)
    BY <1>1, <1>13 DEF R!Operation
  <2>2. PICK a \in Int : a = r[1] /\ a <= x
    BY RangeBounds
  <2>3. CASE a < 0
    BY <2>1, <2>2, <2>3, RangeTopHas DEF R!lshr
  <2>4. CASE ~ (a < 0)
    <3>1. z = x \div Pow2[y]
      BY <1>2, <2>1, <2>2, <2>4 DEF LogicalShift
    <3>2. R!Operation(op, r, s) = R!ashr(r, s) /\ r[1] >= 0
      BY <2>1, <2>2, <2>4 DEF R!lshr
    <3> QED
      BY <2>1, <3>1, <3>2, RangeShrHas
  <2> QED
    BY <2>3, <2>4
<1> QED
  BY <1>3, <1>4, <1>5, <1>6, <1>7, <1>8, <1>9, <1>10, <1>11, <1>12, <1>13 DEF Operators

-----------------------------------------------------------------------------
(* The register. *)

\* The inductive invariant: the interval is one of its domain, and has the number.
Contained ==
  /\ domain \in {"IntervalValue", "Range"}
  /\ domain = "IntervalValue" => Has(interval, value)
  /\ domain = "Range" => RangeHas(interval, value)

LEMMA OperandIs ==
  /\ \A w \in Operands : IsInterval(w)
  /\ \A w \in RangeOperands : w = <<w[1], w[2]>> /\ w[1] \in Machine /\ w[2] \in Machine
<1>1. ASSUME NEW w \in Operands
      PROVE  IsInterval(w)
  <2>1. w \in Reach \X Reach
    BY OperandsAssumption DEF Reach
  <2> QED
    BY <2>1 DEF IsInterval, lb, ub
<1>2. ASSUME NEW w \in RangeOperands
      PROVE  w = <<w[1], w[2]>> /\ w[1] \in Machine /\ w[2] \in Machine
  <2>1. w \in Machine \X Machine
    BY OperandsAssumption DEF Machine
  <2> QED
    BY <2>1
<1> QED
  BY <1>1, <1>2

\* A number of an operand is in it.
LEMMA OperandHas ==
  ASSUME Contained, NEW w \in Second, NEW y \in In(w)
  PROVE  /\ domain = "IntervalValue" => w \in Operands /\ Has(w, y)
         /\ domain = "Range" => w \in RangeOperands /\ RangeHas(w, y)
<1>1. CASE domain = "IntervalValue"
  <2>1. w \in Operands /\ y \in Numbers /\ Contains(w, y)
    BY <1>1 DEF Second, In, MachineNumbers
  <2> QED
    BY <1>1, <2>1, OperandIs DEF Has
<1>2. CASE domain = "Range"
  <2>1. w \in RangeOperands /\ y \in Machine /\ Contains(w, y)
    BY <1>2 DEF Second, In, MachineNumbers, Machine
  <2> QED
    BY <1>2, <2>1, OperandIs DEF RangeHas
<1> QED
  BY <1>1, <1>2 DEF Contained

LEMMA InitContained == Init => Contained
<1> SUFFICES ASSUME Init PROVE Contained
  OBVIOUS
<1>1. CASE domain = "IntervalValue"
  <2>1. interval \in Operands /\ value \in Numbers /\ Contains(interval, value)
    BY <1>1 DEF Init, Second, In, MachineNumbers
  <2> QED
    BY <1>1, <2>1, OperandIs DEF Contained, Has
<1>2. CASE domain = "Range"
  <2>1. interval \in RangeOperands /\ value \in Machine /\ Contains(interval, value)
    BY <1>2 DEF Init, Second, In, MachineNumbers, Machine
  <2> QED
    BY <1>2, <2>1, OperandIs DEF Contained, RangeHas
<1> QED
  BY <1>1, <1>2 DEF Init

LEMMA NextContained == Contained /\ [Next]_vars => Contained'
<1> SUFFICES ASSUME Contained, [Next]_vars PROVE Contained'
  OBVIOUS
<1>1. CASE OperateInterval
  <2>1. PICK op \in Operators, w \in Operands :
          /\ domain = "IntervalValue"
          /\ ~GoesWrong(op, interval, w)
          /\ \E y \in In(w) : Defined(op, value, y) /\ value' = Result(op, value, y)
          /\ value' \in Numbers
          /\ interval' = Arithmetic(op, interval, w)
          /\ domain' = domain
    BY <1>1 DEF OperateInterval
  <2>2. PICK y \in In(w) : Defined(op, value, y) /\ value' = Result(op, value, y)
    BY <2>1
  <2>3. w \in Second
    BY <2>1 DEF Second
  <2>4. Has(interval, value) /\ Has(w, y)
    BY <2>1, <2>3, OperandHas DEF Contained
  <2>5. Has(interval', value')
    BY <2>1, <2>2, <2>4, ArithmeticHas
  <2> QED
    BY <2>1, <2>5 DEF Contained
<1>2. CASE OperateRange
  <2>1. PICK op \in Operators \union {"lshr"}, w \in RangeOperands :
          /\ domain = "Range"
          /\ ~R!GoesWrong(op, interval, w)
          /\ \E y \in In(w) :
                IF op = "lshr" THEN y \in 0 .. Bits /\ value' = LogicalShift(value, y)
                ELSE Defined(op, value, y) /\ value' = Result(op, value, y)
          /\ value' \in MachineNumbers
          /\ interval' = R!Operation(op, interval, w)
          /\ domain' = domain
    BY <1>2 DEF OperateRange
  <2>2. PICK y \in In(w) : IF op = "lshr" THEN y \in 0 .. Bits /\ value' = LogicalShift(value, y)
                           ELSE Defined(op, value, y) /\ value' = Result(op, value, y)
    BY <2>1
  <2>3. w \in Second
    BY <2>1 DEF Second
  <2>4. RangeHas(interval, value) /\ RangeHas(w, y)
    BY <2>1, <2>3, OperandHas DEF Contained
  <2>5. value' \in Machine
    BY <2>1 DEF MachineNumbers, Machine
  <2>6. RangeHas(interval', value')
    BY <2>1, <2>2, <2>4, <2>5, OperationHas
  <2> QED
    BY <2>1, <2>6 DEF Contained
<1>3. CASE Test
  <2>1. PICK pred \in Predicates, w \in Operands :
          /\ domain = "IntervalValue"
          /\ \E y \in In(w) : value' = IF Holds(pred, value, y) THEN 1 ELSE 0
          /\ interval' = Compare(pred, interval, w)
          /\ domain' = domain
    BY <1>3 DEF Test
  <2>2. PICK y \in In(w) : value' = IF Holds(pred, value, y) THEN 1 ELSE 0
    BY <2>1
  <2>3. w \in Second
    BY <2>1 DEF Second
  <2>4. Has(interval, value) /\ Has(w, y)
    BY <2>1, <2>3, OperandHas DEF Contained
  <2>5. Has(Compare(pred, interval, w), IF Holds(pred, value, y) THEN 1 ELSE 0)
    BY <2>4, CompareHas
  <2> QED
    BY <2>1, <2>2, <2>5 DEF Contained
<1>4. CASE Merge
  <2>1. PICK w \in Second :
          /\ value' \in {value} \union In(w)
          /\ interval' \in IF domain = "Range" THEN {R!join(interval, w), R!widening(interval, w)}
                           ELSE {joinWith(interval, w), widenWith(interval, w)}
          /\ domain' = domain
    BY <1>4 DEF Merge
  <2>2. CASE domain = "IntervalValue"
    <3>1. w \in Operands /\ Has(interval, value)
      BY <2>2 DEF Contained, Second
    <3>2. IsInterval(w) /\ IsInterval(interval)
      BY <3>1, OperandIs DEF Has
    <3>3. Has(interval, value') \/ Has(w, value')
      BY <2>1, <2>2, <3>1, OperandHas
    <3>4. Has(joinWith(interval, w), value') /\ Has(widenWith(interval, w), value')
      BY <3>2, <3>3, JoinHas
    <3>5. interval' \in {joinWith(interval, w), widenWith(interval, w)}
      BY <2>1, <2>2
    <3>6. Has(interval', value')
      BY <3>4, <3>5
    <3> QED
      BY <2>1, <2>2, <3>6 DEF Contained
  <2>3. CASE domain = "Range"
    <3>1. w \in RangeOperands /\ RangeHas(interval, value)
      BY <2>3 DEF Contained, Second
    <3>2. /\ w = <<w[1], w[2]>> /\ w[1] \in Machine /\ w[2] \in Machine
          /\ interval = <<interval[1], interval[2]>> /\ interval[1] \in Machine /\ interval[2] \in Machine
      BY <3>1, OperandIs DEF RangeHas
    <3>3. RangeHas(interval, value') \/ RangeHas(w, value')
      BY <2>1, <2>3, <3>1, OperandHas
    <3>4. RangeHas(R!join(interval, w), value') /\ RangeHas(R!widening(interval, w), value')
      BY <3>2, <3>3, RangeJoinHas
    <3>5. interval' \in {R!join(interval, w), R!widening(interval, w)}
      BY <2>1, <2>3
    <3>6. RangeHas(interval', value')
      BY <3>4, <3>5
    <3> QED
      BY <2>1, <2>3, <3>6 DEF Contained
  <2> QED
    BY <2>2, <2>3 DEF Contained
<1>5. CASE Narrow
  <2>1. PICK w \in Second :
          /\ Contains(w, value)
          /\ interval' \in IF domain = "Range" THEN {R!meet(interval, w)}
                           ELSE {meetWith(interval, w), narrowWith(interval, w)}
          /\ domain' = domain /\ value' = value
    BY <1>5 DEF Narrow
  <2>2. CASE domain = "IntervalValue"
    <3>1. w \in Operands /\ Has(interval, value)
      BY <2>2 DEF Contained, Second
    <3>2. Has(w, value)
      BY <2>1, <3>1, OperandIs DEF Has
    <3>3. Has(meetWith(interval, w), value) /\ Has(narrowWith(interval, w), value)
      BY <3>1, <3>2, MeetHas
    <3>4. interval' \in {meetWith(interval, w), narrowWith(interval, w)}
      BY <2>1, <2>2
    <3>5. Has(interval', value)
      BY <3>3, <3>4
    <3> QED
      BY <2>1, <2>2, <3>5 DEF Contained
  <2>3. CASE domain = "Range"
    <3>1. w \in RangeOperands /\ RangeHas(interval, value)
      BY <2>3 DEF Contained, Second
    <3>2. RangeHas(w, value)
      BY <2>1, <3>1, OperandIs DEF RangeHas
    <3>3. RangeHas(R!meet(interval, w), value)
      BY <3>1, <3>2, RangeMeetHas
    <3> QED
      BY <2>1, <2>3, <3>3 DEF Contained
  <2> QED
    BY <2>2, <2>3 DEF Contained
<1>6. CASE UNCHANGED vars
  BY <1>6 DEF vars, Contained
<1> QED
  BY <1>1, <1>2, <1>3, <1>4, <1>5, <1>6 DEF Next

\* However many operations, comparisons, joins, widenings and narrowings follow each
\* other, on numbers and ints of however many bits, the number the program computes is
\* within the interval that IntervalValue or Range finds for it, as long as no operation
\* has operands that GoesWrong names.
THEOREM NumberContained == Spec => []ValueContained
<1>1. Contained => ValueContained
  <2> SUFFICES ASSUME Contained PROVE ValueContained
    OBVIOUS
  <2>1. CASE domain = "IntervalValue"
    <3>1. Has(interval, value)
      BY <2>1 DEF Contained
    <3>2. interval # Bottom
      BY <3>1, HasBounds
    <3> QED
      BY <3>1, <3>2 DEF ValueContained, Has
  <2>2. CASE domain = "Range"
    <3>1. RangeHas(interval, value)
      BY <2>2 DEF Contained
    <3>2. interval = <<interval[1], interval[2]>>
      BY <3>1 DEF RangeHas
    <3>3. interval # Bottom
      BY <3>2 DEF Bottom
    <3> QED
      BY <3>1, <3>3 DEF ValueContained, RangeHas
  <2> QED
    BY <2>1, <2>2 DEF Contained
<1> QED
  BY <1>1, InitContained, NextContained, PTL DEF Spec

=============================================================================
