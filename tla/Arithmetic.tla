----------------------------- MODULE Arithmetic -----------------------------
(***************************************************************************)
(* Induction over the natural numbers with a set in the place of the       *)
(* predicate, the existence of the functions that the modules define by    *)
(* recursion, integer division, divisibility and congruence, powers,       *)
(* primes, and the identity that RSA rests on. Nothing here is about the   *)
(* programs.                                                               *)
(***************************************************************************)
EXTENDS Integers, FiniteSetTheorems, WellFoundedInduction, TLAPS

\* A set that contains 0 and, with a number, the next one contains them all.
LEMMA NatSet ==
  ASSUME NEW S, 0 \in S, \A n \in Nat : n \in S => n + 1 \in S
  PROVE  Nat \subseteq S
<1> DEFINE T == Nat \ S
<1> SUFFICES ASSUME T # {} PROVE FALSE
  OBVIOUS
<1>1. PICK x \in T : \A y \in T : ~(<<y, x>> \in OpToRel(<, Nat))
  <2>1. T \subseteq Nat
    OBVIOUS
  <2> HIDE DEF T
  <2> QED
    BY <2>1, NatLessThanWellFounded, WFMin
<1>2. x \in Nat /\ x # 0
  OBVIOUS
<1>3. x - 1 \in Nat /\ (x - 1) + 1 = x /\ x - 1 < x
  BY <1>2
<1>4. <<x - 1, x>> \in OpToRel(<, Nat)
  BY <1>2, <1>3 DEF OpToRel
<1>5. x - 1 \in S
  BY <1>1, <1>3, <1>4
<1> QED
  BY <1>2, <1>3, <1>5

\* The same up to a bound.
LEMMA IntervalSet ==
  ASSUME NEW m \in Nat, NEW S, 0 \in S, \A k \in 0 .. m - 1 : k \in S => k + 1 \in S
  PROVE  0 .. m \subseteq S
<1> DEFINE T == {k \in Nat : k <= m => k \in S}
<1>1. 0 \in T
  OBVIOUS
<1>2. \A k \in Nat : k \in T => k + 1 \in T
  <2> SUFFICES ASSUME NEW k \in Nat, k \in T, k + 1 <= m PROVE k + 1 \in S
    OBVIOUS
  <2>1. k \in 0 .. m - 1 /\ k \in S
    OBVIOUS
  <2> QED
    BY <2>1
<1>3. Nat \subseteq T
  <2> HIDE DEF T
  <2> QED
    BY <1>1, <1>2, NatSet
<1> QED
  BY <1>3

\* What f is after each turn of a loop that begins with a and whose turn i, of
\* m, is the function h[i].
IsLoop(f, m, S, a, h) ==
  f \in [0 .. m -> S] /\ f[0] = a /\ \A i \in 1 .. m : f[i] = h[i][f[i - 1]]

\* Every such loop does something.
LEMMA LoopExists ==
  ASSUME NEW m \in Nat, NEW S, NEW a \in S, NEW h \in [1 .. m -> [S -> S]]
  PROVE  \E f : IsLoop(f, m, S, a, h)
<1> DEFINE Loop(f, k) == f[0] = a /\ \A i \in 1 .. k : f[i] = h[i][f[i - 1]]
           T == {k \in Nat : \E f \in [0 .. k -> S] : Loop(f, k)}
<1>1. 0 \in T
  <2>1. [i \in 0 .. 0 |-> a] \in [0 .. 0 -> S] /\ Loop([i \in 0 .. 0 |-> a], 0)
    OBVIOUS
  <2> QED
    BY <2>1
<1>2. ASSUME NEW k \in 0 .. m - 1, k \in T
      PROVE  k + 1 \in T
  <2>1. PICK f \in [0 .. k -> S] : Loop(f, k)
    BY <1>2
  <2> DEFINE g == [i \in 0 .. k + 1 |-> IF i = k + 1 THEN h[k + 1][f[k]] ELSE f[i]]
  <2>2. f[k] \in S /\ k + 1 \in 1 .. m /\ h[k + 1][f[k]] \in S
    OBVIOUS
  <2>3. g \in [0 .. k + 1 -> S]
    BY <2>2
  <2>4. Loop(g, k + 1)
    <3>1. g[0] = a
      BY <2>1
    <3>2. ASSUME NEW i \in 1 .. k + 1 PROVE g[i] = h[i][g[i - 1]]
      <4>1. CASE i = k + 1
        BY <4>1
      <4>2. CASE i # k + 1
        <5>1. i \in 1 .. k /\ i - 1 \in 0 .. k /\ g[i] = f[i] /\ g[i - 1] = f[i - 1]
          BY <4>2
        <5> QED
          BY <2>1, <5>1
      <4> QED
        BY <4>1, <4>2
    <3> QED
      BY <3>1, <3>2
  <2> HIDE DEF g, Loop
  <2> QED
    BY <2>3, <2>4
<1>3. m \in T
  <2>1. \A k \in 0 .. m - 1 : k \in T => k + 1 \in T
    BY <1>2
  <2> HIDE DEF T
  <2>2. 0 .. m \subseteq T
    BY <1>1, <2>1, IntervalSet
  <2> QED
    BY <2>2
<1> QED
  BY <1>3 DEF IsLoop

\* What a loop returns that goes from x to next[x] until it stops.
IsTailRecursion(f, D, S, Stop, result, next) ==
  f \in [D -> S] /\ \A x \in D : f[x] = IF x \in Stop THEN result[x] ELSE f[next[x]]

\* If it comes closer to its end each time, it returns something for every x.
LEMMA TailRecursionExists ==
  ASSUME NEW D, NEW S, NEW Stop \in SUBSET D, NEW result \in [Stop -> S],
         NEW next \in [D \ Stop -> D], NEW M \in Nat, NEW measure \in [D -> 0 .. M],
         \A x \in D \ Stop : measure[next[x]] < measure[x]
  PROVE  \E f : IsTailRecursion(f, D, S, Stop, result, next)
<1> DEFINE Below(k) == {x \in D : measure[x] < k}
           Loop(f, k) == \A x \in Below(k) : f[x] = IF x \in Stop THEN result[x] ELSE f[next[x]]
           T == {k \in Nat : \E f \in [Below(k) -> S] : Loop(f, k)}
<1>1. 0 \in T
  <2>1. Below(0) = {}
    OBVIOUS
  <2>2. [x \in Below(0) |-> x] \in [Below(0) -> S] /\ Loop([x \in Below(0) |-> x], 0)
    BY <2>1
  <2> HIDE DEF Below, Loop
  <2> QED
    BY <2>2
<1>2. ASSUME NEW k \in Nat, k \in T
      PROVE  k + 1 \in T
  <2>1. PICK f \in [Below(k) -> S] : Loop(f, k)
    BY <1>2
  <2> DEFINE g == [x \in Below(k + 1) |-> IF x \in Stop THEN result[x] ELSE f[next[x]]]
  <2>2. \A x \in Below(k + 1) : x \notin Stop => next[x] \in Below(k)
    OBVIOUS
  <2>3. g \in [Below(k + 1) -> S]
    BY <2>2
  <2>4. \A x \in Below(k) : x \in Below(k + 1) /\ g[x] = f[x]
    <3>1. \A x \in Below(k) : x \in Below(k + 1)
      OBVIOUS
    <3> HIDE DEF Below
    <3> QED
      BY <2>1, <3>1
  <2>5. Loop(g, k + 1)
    <3> HIDE DEF Below
    <3> QED
      BY <2>2, <2>4
  <2> HIDE DEF g, Loop, Below
  <2> QED
    BY <2>3, <2>5
<1>3. M + 1 \in T
  <2> HIDE DEF T
  <2> QED
    BY <1>1, <1>2, NatSet
<1>4. Below(M + 1) = D
  OBVIOUS
<1> QED
  BY <1>3, <1>4 DEF IsTailRecursion

\* A set of natural numbers that is not empty has a least element.
LEMMA MinimumExists ==
  ASSUME NEW S \in SUBSET Nat, S # {}
  PROVE  \E x \in S : \A y \in S : x <= y
<1>1. PICK x \in S : \A y \in S : ~(<<y, x>> \in OpToRel(<, Nat))
  BY NatLessThanWellFounded, WFMin
<1>2. \A y \in S : ~(y < x)
  BY <1>1 DEF OpToRel
<1> QED
  BY <1>2

\* One that is bounded has a greatest.
LEMMA MaximumExists ==
  ASSUME NEW m \in Nat, NEW S \in SUBSET (0 .. m), S # {}
  PROVE  \E x \in S : \A y \in S : y <= x
<1> DEFINE T == {k \in 0 .. m : m - k \in S}
<1>1. T \in SUBSET Nat /\ T # {}
  <2>1. PICK y \in S : TRUE
    OBVIOUS
  <2>2. m - y \in 0 .. m /\ m - (m - y) = y
    OBVIOUS
  <2> QED
    BY <2>2
<1>2. PICK k \in T : \A j \in T : k <= j
  <2> HIDE DEF T
  <2> QED
    BY <1>1, MinimumExists
<1>3. \A y \in S : m - y \in T
  OBVIOUS
<1> QED
  BY <1>2, <1>3

-----------------------------------------------------------------------------
(* Integer division *)

\* What the solver needs to know of the integer quotient.
LEMMA DivisionProperties ==
  ASSUME NEW a \in Nat, NEW n \in Nat, n > 0
  PROVE  a \div n \in Nat /\ n * (a \div n) <= a /\ a < n * (a \div n) + n
OBVIOUS

\* ... and of products,
LEMMA TimesMonotonic ==
  ASSUME NEW n \in Nat, NEW p \in Int, NEW q \in Int, p <= q
  PROVE  n * p <= n * q
OBVIOUS

\* ... and that no other number is the quotient.
LEMMA DivisionIs ==
  ASSUME NEW a \in Nat, NEW n \in Nat, n > 0, NEW q \in Nat, n * q <= a, a < n * q + n
  PROVE  a \div n = q
<1> DEFINE d == a \div n
<1>1. d \in Nat /\ n * d <= a /\ a < n * d + n
  BY DivisionProperties
<1> HIDE DEF d
<1>2. ~(d < q)
  <2> SUFFICES ASSUME d < q PROVE FALSE
    OBVIOUS
  <2>1. n * (d + 1) <= n * q /\ n * (d + 1) = n * d + n
    BY <1>1, TimesMonotonic
  <2> QED
    BY <1>1, <2>1
<1>3. ~(q < d)
  <2> SUFFICES ASSUME q < d PROVE FALSE
    OBVIOUS
  <2>1. n * (q + 1) <= n * d /\ n * (q + 1) = n * q + n
    BY <1>1, TimesMonotonic
  <2> QED
    BY <1>1, <2>1
<1> QED
  BY <1>1, <1>2, <1>3 DEF d

-----------------------------------------------------------------------------
(* Divisibility and residues *)

Divides(m, a) == \E k \in Int : a = m * k

\* a and b have the same residue modulo m.
Congruent(a, b, m) == Divides(m, a - b)

\* Multiples of m add up to multiples of m.
LEMMA DividesSum ==
  ASSUME NEW m \in Int, NEW a \in Int, NEW b \in Int, Divides(m, a), Divides(m, b)
  PROVE  Divides(m, a + b) /\ Divides(m, a - b)
<1>1. PICK j \in Int : a = m * j
  BY DEF Divides
<1>2. PICK k \in Int : b = m * k
  BY DEF Divides
<1>3. a + b = m * (j + k) /\ a - b = m * (j - k) /\ j + k \in Int /\ j - k \in Int
  BY <1>1, <1>2
<1> QED
  BY <1>3 DEF Divides

\* A product can be regrouped.
LEMMA TimesAssociative ==
  ASSUME NEW a \in Int, NEW b \in Int, NEW c \in Int
  PROVE  (a * b) * c = a * (b * c) /\ a * b \in Int /\ b * c \in Int /\ a * b = b * a
OBVIOUS

\* ... and distributed.
LEMMA TimesDistributes ==
  ASSUME NEW a \in Int, NEW b \in Int, NEW c \in Int
  PROVE  /\ a * (b + c) = a * b + a * c /\ a * (b - c) = a * b - a * c
         /\ (b + c) * a = b * a + c * a /\ (b - c) * a = b * a - c * a
OBVIOUS

\* A multiple of a multiple of m is one of m.
LEMMA DividesTimes ==
  ASSUME NEW m \in Int, NEW a \in Int, NEW c \in Int, Divides(m, a)
  PROVE  Divides(m, a * c) /\ Divides(m, c * a)
<1>1. PICK k \in Int : a = m * k
  BY DEF Divides
<1>2. (m * k) * c = m * (k * c) /\ k * c \in Int /\ a * c = c * a
  BY TimesAssociative
<1>3. a * c = m * (k * c)
  BY <1>1, <1>2
<1> QED
  BY <1>2, <1>3 DEF Divides

\* Every number divides 0 and itself.
LEMMA DividesZero ==
  ASSUME NEW m \in Int PROVE Divides(m, 0) /\ Divides(m, m)
<1>1. 0 = m * 0 /\ m = m * 1
  OBVIOUS
<1> QED
  BY <1>1 DEF Divides

\* What divides a divisor.
LEMMA DividesTransitive ==
  ASSUME NEW m \in Int, NEW a \in Int, NEW b \in Int, Divides(m, a), Divides(a, b)
  PROVE  Divides(m, b)
<1>1. PICK k \in Int : b = a * k
  BY DEF Divides
<1> QED
  BY <1>1, DividesTimes

\* Below m only 0 is a multiple of m.
LEMMA DividesSmall ==
  ASSUME NEW m \in Nat, m > 0, NEW a \in Int, 0 - m < a, a < m, Divides(m, a)
  PROVE  a = 0
<1>1. PICK k \in Int : a = m * k
  BY DEF Divides
<1>2. ~(k >= 1)
  <2> SUFFICES ASSUME k >= 1 PROVE FALSE
    OBVIOUS
  <2>1. m * 1 <= m * k /\ m * 1 = m
    BY TimesMonotonic
  <2> QED
    BY <1>1, <2>1
<1>3. ~(k <= 0 - 1)
  <2> SUFFICES ASSUME k <= 0 - 1 PROVE FALSE
    OBVIOUS
  <2>1. m * k <= m * (0 - 1) /\ m * (0 - 1) = 0 - m
    BY TimesMonotonic
  <2> QED
    BY <1>1, <2>1
<1>4. k = 0
  BY <1>2, <1>3
<1> QED
  BY <1>1, <1>4

\* A divisor of a positive number is positive and no larger.
LEMMA DivisorBound ==
  ASSUME NEW m \in Nat, NEW a \in Nat, a > 0, Divides(m, a)
  PROVE  m > 0 /\ m <= a
<1>1. m > 0
  <2> SUFFICES ASSUME m = 0 PROVE FALSE
    OBVIOUS
  <2>1. PICK k \in Int : a = m * k
    BY DEF Divides
  <2> QED
    BY <2>1
<1>2. m <= a
  <2> SUFFICES ASSUME a < m PROVE FALSE
    OBVIOUS
  <2> QED
    BY <1>1, DividesSmall
<1> QED
  BY <1>1, <1>2

\* The residue lies below m and differs by a multiple of m.
LEMMA ResidueProperties ==
  ASSUME NEW a \in Int, NEW m \in Nat, m > 0
  PROVE  /\ a % m \in 0 .. m - 1 /\ a \div m \in Int /\ a = m * (a \div m) + (a % m)
         /\ Congruent(a, a % m, m) /\ Congruent(a % m, a, m)
<1> DEFINE r == a % m
           k == a \div m
<1>1. r \in 0 .. m - 1 /\ k \in Int /\ a = m * k + r
  OBVIOUS
<1> HIDE DEF r, k
<1>2. a - r = m * k /\ r - a = m * (0 - k) /\ 0 - k \in Int
  BY <1>1
<1>3. Divides(m, a - r) /\ Divides(m, r - a)
  BY <1>1, <1>2 DEF Divides
<1> QED
  BY <1>1, <1>3 DEF r, k, Congruent

\* Numbers are congruent exactly when their residues are the same.
LEMMA CongruentMeans ==
  ASSUME NEW a \in Int, NEW b \in Int, NEW m \in Nat, m > 0
  PROVE  Congruent(a, b, m) <=> a % m = b % m
<1> DEFINE r == a % m
           s == b % m
<1>1. /\ r \in 0 .. m - 1 /\ Divides(m, a - r) /\ Divides(m, r - a)
      /\ s \in 0 .. m - 1 /\ Divides(m, b - s) /\ Divides(m, s - b)
  BY ResidueProperties DEF Congruent
<1> HIDE DEF r, s
<1>2. ASSUME Divides(m, a - b) PROVE r = s
  <2> DEFINE u == (r - a) + (a - b)
             v == u + (b - s)
  <2>1. u \in Int /\ v \in Int /\ v = r - s /\ r - a \in Int /\ a - b \in Int /\ b - s \in Int
    BY <1>1
  <2>2. Divides(m, u)
    BY <1>1, <1>2, <2>1, DividesSum
  <2> HIDE DEF u
  <2>3. Divides(m, v)
    BY <1>1, <2>1, <2>2, DividesSum
  <2>4. Divides(m, r - s)
    BY <2>1, <2>3
  <2> DEFINE w == r - s
  <2>5. w \in Int /\ 0 - m < w /\ w < m
    BY <1>1
  <2> HIDE DEF w
  <2>6. w = 0
    BY <2>4, <2>5, DividesSmall DEF w
  <2> QED
    BY <1>1, <2>6 DEF w
<1>3. ASSUME r = s PROVE Divides(m, a - b)
  <2>1. a - r \in Int /\ s - b \in Int /\ (a - r) + (s - b) = a - b
    BY <1>1, <1>3
  <2>2. Divides(m, (a - r) + (s - b))
    BY <1>1, <2>1, DividesSum
  <2> QED
    BY <2>1, <2>2
<1> QED
  BY <1>2, <1>3 DEF Congruent, r, s

\* Congruence is an equivalence,
LEMMA CongruentTransitive ==
  ASSUME NEW a \in Int, NEW b \in Int, NEW c \in Int, NEW m \in Nat, m > 0,
         Congruent(a, b, m), Congruent(b, c, m)
  PROVE  Congruent(a, c, m)
BY CongruentMeans

\* Congruence is reflexive and symmetric ...
LEMMA CongruentSymmetric ==
  ASSUME NEW a \in Int, NEW b \in Int, NEW m \in Nat, m > 0
  PROVE  Congruent(a, a, m) /\ (Congruent(a, b, m) <=> Congruent(b, a, m))
BY CongruentMeans

\* ... and multiplication keeps it.
LEMMA CongruentTimes ==
  ASSUME NEW a \in Int, NEW b \in Int, NEW x \in Int, NEW y \in Int, NEW m \in Int,
         Congruent(a, b, m), Congruent(x, y, m)
  PROVE  Congruent(a * x, b * y, m)
<1>1. Divides(m, a - b) /\ Divides(m, x - y) /\ a - b \in Int /\ x - y \in Int
  BY DEF Congruent
<1>2. Divides(m, (a - b) * x) /\ Divides(m, b * (x - y))
  BY <1>1, DividesTimes
<1>3. /\ (a - b) * x = a * x - b * x /\ b * (x - y) = b * x - b * y
      /\ a * x \in Int /\ b * x \in Int /\ b * y \in Int
  BY TimesDistributes, TimesAssociative
<1> DEFINE u == a * x - b * x
           v == b * x - b * y
<1>4. u \in Int /\ v \in Int /\ Divides(m, u) /\ Divides(m, v) /\ u + v = a * x - b * y
  <2>1. Divides(m, u) /\ Divides(m, v)
    BY <1>2, <1>3
  <2>2. \A k, l, n \in Int : (k - l) + (l - n) = k - n /\ k - l \in Int
    OBVIOUS
  <2> QED
    BY <1>3, <2>1, <2>2
<1> HIDE DEF u, v
<1>5. Divides(m, u + v)
  BY <1>4, DividesSum
<1> QED
  BY <1>4, <1>5 DEF Congruent

-----------------------------------------------------------------------------
(* Powers *)

\* a to the power of k.
Pow(a, k) ==
  LET pow[j \in 0 .. k] == IF j = 0 THEN 1 ELSE a * pow[j - 1]
  IN  pow[k]

\* f is the table of the first powers of a.
IsPow(f, a, k) ==
  f \in [0 .. k -> Int] /\ f[0] = 1 /\ \A j \in 1 .. k : f[j] = a * f[j - 1]

\* The table behind a power.
LEMMA PowTable ==
  ASSUME NEW a \in Int, NEW k \in Nat
  PROVE  \E f : IsPow(f, a, k) /\ Pow(a, k) = f[k]
<1> DEFINE h == [j \in 1 .. k |-> [s \in Int |-> a * s]]
           pow[j \in 0 .. k] == IF j = 0 THEN 1 ELSE a * pow[j - 1]
           Table(f) == f = [j \in 0 .. k |-> IF j = 0 THEN 1 ELSE a * f[j - 1]]
<1>1. h \in [1 .. k -> [Int -> Int]]
  <2>1. \A s \in Int : a * s \in Int
    OBVIOUS
  <2> QED
    BY <2>1
<1>2. \A j \in 1 .. k : \A s \in Int : h[j][s] = a * s
  OBVIOUS
<1> HIDE DEF h
<1>3. PICK f : IsLoop(f, k, Int, 1, h)
  <2> DEFINE one == 1
  <2>1. one \in Int
    OBVIOUS
  <2> HIDE DEF one
  <2>2. \E f : IsLoop(f, k, Int, one, h)
    BY <1>1, <2>1, LoopExists
  <2> QED
    BY <2>2 DEF one
<1>4. /\ f \in [0 .. k -> Int] /\ f[0] = 1
      /\ \A j \in 1 .. k : f[j] = a * f[j - 1]
  <2>1. \A j \in 1 .. k : j - 1 \in 0 .. k
    OBVIOUS
  <2> QED
    BY <1>2, <1>3, <2>1 DEF IsLoop
<1>5. Table(f)
  <2>1. \A j \in 0 .. k : f[j] = IF j = 0 THEN 1 ELSE a * f[j - 1]
    BY <1>4
  <2> QED
    BY <1>4, <2>1
<1>6. Table(pow)
  BY <1>5, Zenon
<1>7. Pow(a, k) = pow[k]
  BY DEF Pow
<1> HIDE DEF pow
<1>8. pow[0] = 1 /\ \A j \in 1 .. k : pow[j] = a * pow[j - 1]
  <2>1. pow = [j \in 0 .. k |-> IF j = 0 THEN 1 ELSE a * pow[j - 1]]
    BY <1>6
  <2>2. \A j \in 0 .. k : pow[j] = IF j = 0 THEN 1 ELSE a * pow[j - 1]
    BY <2>1
  <2> QED
    BY <2>2
<1> DEFINE T == {j \in 0 .. k : pow[j] = f[j]}
<1>9. 0 \in T
  BY <1>4, <1>8
<1>10. \A j \in 0 .. k - 1 : j \in T => j + 1 \in T
  <2> SUFFICES ASSUME NEW j \in 0 .. k - 1, j \in T PROVE j + 1 \in T
    OBVIOUS
  <2>1. j + 1 \in 1 .. k /\ (j + 1) - 1 = j /\ j + 1 \in 0 .. k
    OBVIOUS
  <2>2. pow[j + 1] = a * pow[j] /\ f[j + 1] = a * f[j]
    BY <1>4, <1>8, <2>1
  <2> QED
    BY <2>1, <2>2
<1>11. 0 .. k \subseteq T
  <2> HIDE DEF T
  <2> QED
    BY <1>9, <1>10, IntervalSet
<1>12. pow[k] = f[k]
  BY <1>11
<1> QED
  BY <1>4, <1>7, <1>12 DEF IsPow

\* Two tables agree as far as both go.
LEMMA PowTablesAgree ==
  ASSUME NEW a \in Int, NEW m \in Nat, NEW n \in Nat, m <= n,
         NEW f, IsPow(f, a, m), NEW g, IsPow(g, a, n)
  PROVE  \A j \in 0 .. m : f[j] = g[j]
<1> DEFINE T == {j \in 0 .. m : f[j] = g[j]}
<1>1. 0 \in T
  BY DEF IsPow
<1>2. \A j \in 0 .. m - 1 : j \in T => j + 1 \in T
  <2> SUFFICES ASSUME NEW j \in 0 .. m - 1, j \in T PROVE j + 1 \in T
    OBVIOUS
  <2>1. j + 1 \in 1 .. m /\ j + 1 \in 1 .. n /\ (j + 1) - 1 = j /\ j + 1 \in 0 .. m
    OBVIOUS
  <2>2. f[j + 1] = a * f[j] /\ g[j + 1] = a * g[j]
    BY <2>1 DEF IsPow
  <2> QED
    BY <2>1, <2>2
<1>3. 0 .. m \subseteq T
  <2> HIDE DEF T
  <2> QED
    BY <1>1, <1>2, IntervalSet
<1> QED
  BY <1>3

\* The laws by which powers are computed.
LEMMA PowLaws ==
  ASSUME NEW a \in Int, NEW k \in Nat
  PROVE  Pow(a, k) \in Int /\ Pow(a, 0) = 1 /\ Pow(a, k + 1) = a * Pow(a, k)
<1>1. PICK f : IsPow(f, a, k) /\ Pow(a, k) = f[k]
  BY PowTable
<1> DEFINE l == k + 1
           zero == 0
<1>2. l \in Nat /\ k <= l /\ l \in 1 .. l /\ l - 1 = k /\ zero \in Nat
  OBVIOUS
<1> HIDE DEF l, zero
<1>3. PICK g : IsPow(g, a, l) /\ Pow(a, l) = g[l]
  BY <1>2, PowTable
<1>4. PICK h : IsPow(h, a, zero) /\ Pow(a, zero) = h[zero]
  BY <1>2, PowTable
<1>5. f[k] = g[k]
  <2>1. \A j \in 0 .. k : f[j] = g[j]
    BY <1>1, <1>2, <1>3, PowTablesAgree
  <2> QED
    BY <2>1
<1>6. g[l] = a * g[k]
  BY <1>2, <1>3 DEF IsPow
<1>7. f[k] \in Int
  BY <1>1 DEF IsPow
<1>8. h[0] = 1
  BY <1>4 DEF IsPow
<1> QED
  BY <1>1, <1>3, <1>4, <1>5, <1>6, <1>7, <1>8 DEF l, zero

\* The power of a sum of exponents.
LEMMA PowAdd ==
  ASSUME NEW a \in Int, NEW j \in Nat, NEW k \in Nat
  PROVE  Pow(a, j + k) = Pow(a, j) * Pow(a, k)
<1> DEFINE T == {n \in Nat : Pow(a, j + n) = Pow(a, j) * Pow(a, n)}
<1>1. 0 \in T
  <2>1. Pow(a, j) \in Int /\ Pow(a, 0) = 1 /\ j + 0 = j
    BY PowLaws
  <2> QED
    BY <2>1
<1>2. \A n \in Nat : n \in T => n + 1 \in T
  <2> SUFFICES ASSUME NEW n \in Nat, n \in T PROVE n + 1 \in T
    OBVIOUS
  <2> DEFINE s == j + n
             x == Pow(a, j)
             y == Pow(a, n)
  <2>1. s \in Nat /\ j + (n + 1) = s + 1
    OBVIOUS
  <2>2. Pow(a, s) = x * y
    OBVIOUS
  <2> HIDE DEF s
  <2>3. x \in Int /\ y \in Int /\ Pow(a, s + 1) = a * Pow(a, s) /\ Pow(a, n + 1) = a * y
    BY <2>1, PowLaws
  <2> HIDE DEF x, y
  <2>4. a * (x * y) = x * (a * y)
    BY <2>3
  <2>5. Pow(a, j + (n + 1)) = x * Pow(a, n + 1)
    BY <2>1, <2>2, <2>3, <2>4
  <2> QED
    BY <2>5 DEF x
<1>3. Nat \subseteq T
  <2> HIDE DEF T
  <2> QED
    BY <1>1, <1>2, NatSet
<1> QED
  BY <1>3

\* The power of a product of exponents, and of a product of bases.
LEMMA PowTimes ==
  ASSUME NEW a \in Int, NEW j \in Nat, NEW k \in Nat
  PROVE  Pow(a, j * k) = Pow(Pow(a, j), k)
<1> DEFINE x == Pow(a, j)
           T == {n \in Nat : Pow(a, j * n) = Pow(x, n)}
<1>1. x \in Int
  BY PowLaws
<1>2. 0 \in T
  <2>1. Pow(a, 0) = 1 /\ Pow(x, 0) = 1 /\ j * 0 = 0
    <3> HIDE DEF x
    <3> QED
      BY <1>1, PowLaws
  <2> QED
    BY <2>1
<1>3. \A n \in Nat : n \in T => n + 1 \in T
  <2> SUFFICES ASSUME NEW n \in Nat, n \in T PROVE n + 1 \in T
    OBVIOUS
  <2> DEFINE s == j * n
  <2>1. s \in Nat /\ j * (n + 1) = s + j
    OBVIOUS
  <2>2. Pow(a, s) = Pow(x, n)
    OBVIOUS
  <2> HIDE DEF s
  <2>3. Pow(a, s + j) = Pow(a, s) * x
    BY <2>1, PowAdd
  <2> HIDE DEF x
  <2>4. Pow(x, n + 1) = x * Pow(x, n) /\ Pow(x, n) \in Int
    BY <1>1, PowLaws
  <2> QED
    BY <1>1, <2>1, <2>2, <2>3, <2>4
<1>4. Nat \subseteq T
  <2> HIDE DEF T
  <2> QED
    BY <1>2, <1>3, NatSet
<1> QED
  BY <1>4

\* Powers of congruent numbers are congruent.
LEMMA CongruentPow ==
  ASSUME NEW a \in Int, NEW b \in Int, NEW m \in Nat, m > 0, Congruent(a, b, m), NEW k \in Nat
  PROVE  Congruent(Pow(a, k), Pow(b, k), m)
<1> DEFINE T == {n \in Nat : Congruent(Pow(a, n), Pow(b, n), m)}
<1>1. 0 \in T
  <2>1. Pow(a, 0) = 1 /\ Pow(b, 0) = 1
    BY PowLaws
  <2>2. Congruent(1, 1, m)
    <3> DEFINE one == 1
    <3>1. one \in Int
      OBVIOUS
    <3> HIDE DEF one
    <3>2. Congruent(one, one, m)
      BY <3>1, CongruentSymmetric
    <3> QED
      BY <3>2 DEF one
  <2> QED
    BY <2>1, <2>2
<1>2. \A n \in Nat : n \in T => n + 1 \in T
  <2> SUFFICES ASSUME NEW n \in Nat, n \in T PROVE n + 1 \in T
    OBVIOUS
  <2>1. /\ Pow(a, n) \in Int /\ Pow(b, n) \in Int
        /\ Pow(a, n + 1) = a * Pow(a, n) /\ Pow(b, n + 1) = b * Pow(b, n)
    BY PowLaws
  <2>2. Congruent(Pow(a, n), Pow(b, n), m)
    OBVIOUS
  <2>3. Congruent(a * Pow(a, n), b * Pow(b, n), m)
    BY <2>1, <2>2, CongruentTimes
  <2> QED
    BY <2>1, <2>3
<1>3. Nat \subseteq T
  <2> HIDE DEF T
  <2> QED
    BY <1>1, <1>2, NatSet
<1> QED
  BY <1>3

\* 1 stays 1.
LEMMA PowOfOne ==
  ASSUME NEW k \in Nat PROVE Pow(1, k) = 1
<1> DEFINE T == {n \in Nat : Pow(1, n) = 1}
<1>1. 0 \in T /\ \A n \in Nat : n \in T => n + 1 \in T
  <2> DEFINE one == 1
  <2>1. one \in Int /\ \A x \in Int : one * x = x
    OBVIOUS
  <2> HIDE DEF one
  <2>2. Pow(one, 0) = 1 /\ \A n \in Nat : Pow(one, n) \in Int /\ Pow(one, n + 1) = one * Pow(one, n)
    BY <2>1, PowLaws
  <2>3. Pow(one, 0) = 1 /\ \A n \in Nat : Pow(one, n + 1) = Pow(one, n)
    BY <2>1, <2>2
  <2> QED
    BY <2>3 DEF one
<1>2. Nat \subseteq T
  <2> HIDE DEF T
  <2> QED
    BY <1>1, NatSet
<1> QED
  BY <1>2

-----------------------------------------------------------------------------
(* Primes *)

\* Nothing between 1 and p divides p.
IsPrime(p) == p \in Nat /\ p > 1 /\ \A k \in 2 .. p - 1 : ~Divides(k, p)

\* Euclid's lemma. The least k for which p divides k * a divides every other
\* such k, therefore p, and is not 1.
LEMMA PrimeDivides ==
  ASSUME NEW p, IsPrime(p), NEW a \in Int, NEW b \in Int, Divides(p, a * b), ~Divides(p, a)
  PROVE  Divides(p, b)
<1> DEFINE S == {k \in Nat : k > 0 /\ Divides(p, k * a)}
<1>1. p \in Nat /\ p > 1
  BY DEF IsPrime
<1>2. p \in S
  <2>1. Divides(p, p) /\ p \in Int
    BY <1>1, DividesZero
  <2>2. Divides(p, p * a)
    BY <2>1, DividesTimes
  <2> QED
    BY <1>1, <2>2
<1>3. PICK m \in S : \A k \in S : m <= k
  <2>1. S \in SUBSET Nat /\ S # {}
    BY <1>2
  <2> HIDE DEF S
  <2> QED
    BY <2>1, MinimumExists
<1>4. m \in Nat /\ m > 0 /\ Divides(p, m * a) /\ m <= p
  BY <1>2, <1>3
<1>5. ASSUME NEW j \in Int, Divides(p, j * a) PROVE Divides(m, j)
  <2> DEFINE r == j % m
             k == j \div m
  <2>1. r \in 0 .. m - 1 /\ k \in Int /\ j = m * k + r
    BY <1>4, ResidueProperties
  <2> HIDE DEF r, k
  <2>2. Divides(p, r * a)
    <3> DEFINE x == j * a
               y == (m * a) * k
    <3>1. x \in Int /\ y \in Int /\ Divides(p, x)
      BY <1>4, <1>5, <2>1
    <3>2. Divides(p, y)
      <4> DEFINE z == m * a
      <4>1. z \in Int /\ Divides(p, z) /\ p \in Int
        BY <1>1, <1>4
      <4> HIDE DEF z
      <4>2. Divides(p, z * k)
        BY <2>1, <4>1, DividesTimes
      <4> QED
        BY <4>2 DEF z
    <3>3. x - y = r * a
      <4>1. (m * k + r) * a = (m * k) * a + r * a
        BY <1>4, <2>1, TimesDistributes
      <4>2. (m * k) * a = (m * a) * k
        BY <1>4, <2>1
      <4>3. x = y + r * a
        BY <2>1, <4>1, <4>2
      <4> QED
        BY <2>1, <3>1, <4>3
    <3> HIDE DEF x, y
    <3>4. Divides(p, x - y)
      BY <1>1, <3>1, <3>2, DividesSum
    <3> QED
      BY <3>3, <3>4
  <2>3. r = 0
    <3> SUFFICES ASSUME r # 0 PROVE FALSE
      OBVIOUS
    <3>1. r \in Nat /\ r > 0 /\ r < m
      BY <1>4, <2>1
    <3>2. r \in S
      BY <2>2, <3>1
    <3>3. m <= r
      BY <1>3, <3>2
    <3> QED
      BY <1>4, <3>1, <3>3
  <2>4. j = m * k
    BY <1>4, <2>1, <2>3
  <2> QED
    BY <2>1, <2>4 DEF Divides
<1>6. Divides(m, p)
  BY <1>1, <1>2, <1>5
<1>7. m # 1
  <2>1. 1 * a = a
    OBVIOUS
  <2> QED
    BY <1>4, <2>1
<1>8. m = p
  <2>1. m \notin 2 .. p - 1
    BY <1>6 DEF IsPrime
  <2> QED
    BY <1>1, <1>4, <1>7, <2>1
<1>9. b * a = a * b
  OBVIOUS
<1> QED
  BY <1>5, <1>8, <1>9

\* A factor that a prime does not divide can be cancelled.
LEMMA Cancel ==
  ASSUME NEW p, IsPrime(p), NEW a \in Int, ~Divides(p, a), NEW x \in Int, NEW y \in Int,
         Congruent(a * x, a * y, p)
  PROVE  Congruent(x, y, p)
<1>1. a * x - a * y = a * (x - y) /\ x - y \in Int
  BY TimesDistributes
<1>2. Divides(p, a * (x - y))
  BY <1>1 DEF Congruent
<1> QED
  BY <1>1, <1>2, PrimeDivides DEF Congruent

\* A prime divides no power of a number that it does not divide.
LEMMA PrimeDividesPow ==
  ASSUME NEW p, IsPrime(p), NEW a \in Int, ~Divides(p, a), NEW k \in Nat
  PROVE  ~Divides(p, Pow(a, k))
<1> DEFINE T == {j \in Nat : ~Divides(p, Pow(a, j))}
<1>1. p \in Nat /\ p > 1
  BY DEF IsPrime
<1>2. 0 \in T
  <2> DEFINE one == 1
  <2>1. Pow(a, 0) = one
    BY PowLaws
  <2>2. one \in Nat /\ one > 0 /\ one < p
    BY <1>1
  <2> HIDE DEF one
  <2>3. ~Divides(p, one)
    BY <1>1, <2>2, DivisorBound
  <2> QED
    BY <2>1, <2>3
<1>3. \A j \in Nat : j \in T => j + 1 \in T
  <2> SUFFICES ASSUME NEW j \in Nat, j \in T PROVE j + 1 \in T
    OBVIOUS
  <2>1. Pow(a, j) \in Int /\ Pow(a, j + 1) = a * Pow(a, j)
    BY PowLaws
  <2>2. ~Divides(p, Pow(a, j))
    OBVIOUS
  <2>3. ~Divides(p, a * Pow(a, j))
    BY <2>1, <2>2, PrimeDivides
  <2> QED
    BY <2>1, <2>3
<1>4. Nat \subseteq T
  <2> HIDE DEF T
  <2> QED
    BY <1>2, <1>3, NatSet
<1> QED
  BY <1>4

\* Of two powers that are congruent the difference of the exponents makes 1.
LEMMA PowDifference ==
  ASSUME NEW p, IsPrime(p), NEW a \in Int, ~Divides(p, a),
         NEW j \in Nat, NEW k \in Nat, j <= k, Congruent(Pow(a, j), Pow(a, k), p)
  PROVE  Congruent(Pow(a, k - j), 1, p)
<1> DEFINE l == k - j
           x == Pow(a, j)
           y == Pow(a, l)
<1>1. l \in Nat /\ j + l = k
  OBVIOUS
<1> HIDE DEF l
<1>2. Pow(a, k) = x * y
  BY <1>1, PowAdd
<1>3. x \in Int /\ y \in Int /\ ~Divides(p, x)
  BY <1>1, PowLaws, PrimeDividesPow
<1> HIDE DEF x, y
<1> DEFINE one == 1
<1>4. x * one = x /\ one \in Int
  BY <1>3
<1>5. p \in Nat /\ p > 0
  BY DEF IsPrime
<1> HIDE DEF one
<1>6. Congruent(x * y, x * one, p)
  <2>1. Congruent(x, x * y, p)
    BY <1>2 DEF x
  <2>2. x * y \in Int
    BY <1>3
  <2>3. Congruent(x * y, x, p)
    BY <1>3, <1>5, <2>1, <2>2, CongruentSymmetric
  <2> QED
    BY <1>4, <2>3
<1>7. Congruent(y, one, p)
  BY <1>3, <1>4, <1>6, Cancel
<1> QED
  BY <1>7 DEF y, l, one

\* d is the order of a modulo p.
IsOrder(d, a, p) ==
  /\ d \in Nat /\ d > 0 /\ Congruent(Pow(a, d), 1, p)
  /\ \A k \in Nat : k > 0 /\ Congruent(Pow(a, k), 1, p) => d <= k

\* There are fewer residues than exponents, so that two powers are congruent.
LEMMA OrderExists ==
  ASSUME NEW p, IsPrime(p), NEW a \in Int, ~Divides(p, a)
  PROVE  \E d : IsOrder(d, a, p)
<1> DEFINE S == 0 .. p
           R == 0 .. p - 1
           f == [k \in S |-> Pow(a, k) % p]
           D == {k \in Nat : k > 0 /\ Congruent(Pow(a, k), 1, p)}
<1>1. p \in Nat /\ p > 0
  BY DEF IsPrime
<1>2. \A k \in Nat : Pow(a, k) \in Int
  BY PowLaws
<1>3. f \in [S -> R]
  <2>1. \A k \in S : Pow(a, k) % p \in R
    <3> SUFFICES ASSUME NEW k \in S PROVE Pow(a, k) % p \in R
      OBVIOUS
    <3> DEFINE x == Pow(a, k)
    <3>1. x \in Int
      BY <1>1, <1>2
    <3> HIDE DEF x
    <3> QED
      BY <1>1, <3>1, ResidueProperties DEF x
  <2> QED
    BY <2>1
<1>4. IsFiniteSet(S) /\ IsFiniteSet(R) /\ Cardinality(R) < Cardinality(S)
  <2> DEFINE zero == 0
             l == p - 1
  <2>1. zero \in Int /\ l \in Int /\ p \in Int
    BY <1>1
  <2>2. /\ IsFiniteSet(zero .. p) /\ Cardinality(zero .. p) = IF zero > p THEN 0 ELSE p - zero + 1
        /\ IsFiniteSet(zero .. l) /\ Cardinality(zero .. l) = IF zero > l THEN 0 ELSE l - zero + 1
    <3> HIDE DEF zero, l
    <3> QED
      BY <2>1, FS_Interval
  <2> QED
    BY <1>1, <2>2
<1> HIDE DEF S, R
<1>5. PICK x \in S, y \in S : x # y /\ f[x] = f[y]
  <2> HIDE DEF f
  <2> QED
    BY <1>3, <1>4, FS_PigeonHole
<1>6. x \in Nat /\ y \in Nat /\ Pow(a, x) % p = Pow(a, y) % p
  BY <1>5 DEF S
<1>7. PICK j \in Nat, k \in Nat : j < k /\ Pow(a, j) % p = Pow(a, k) % p
  <2>1. x < y \/ y < x
    BY <1>5, <1>6
  <2> QED
    BY <1>6, <2>1
<1>8. Congruent(Pow(a, j), Pow(a, k), p)
  BY <1>1, <1>2, <1>7, CongruentMeans
<1>9. Congruent(Pow(a, k - j), 1, p)
  BY <1>7, <1>8, PowDifference
<1>10. D \in SUBSET Nat /\ D # {}
  <2>1. k - j \in Nat /\ k - j > 0
    BY <1>7
  <2> QED
    BY <1>9, <2>1
<1>11. PICK d \in D : \A e \in D : d <= e
  <2> HIDE DEF D
  <2> QED
    BY <1>10, MinimumExists
<1> QED
  BY <1>11 DEF IsOrder

-----------------------------------------------------------------------------
(* Fermat's theorem *)

\* The finite set R falls into classes of d elements each.
IsPartition(class, R, d) ==
  /\ class \in [R -> SUBSET R]
  /\ \A x \in R : x \in class[x] /\ Cardinality(class[x]) = d
  /\ \A x \in R : \A y \in class[x] : class[y] = class[x]

\* Then the number of its elements is a multiple of d: take one class away
\* after the other.
LEMMA ClassesDivide ==
  ASSUME NEW R, IsFiniteSet(R), NEW d \in Nat, d > 0, NEW class, IsPartition(class, R, d)
  PROVE  Divides(d, Cardinality(R))
<1> DEFINE Closed(Q) == \A x \in Q : class[x] \subseteq Q
           T == {k \in Nat : \A Q \in SUBSET R :
                   Closed(Q) /\ Cardinality(Q) <= k => Divides(d, Cardinality(Q))}
<1>1. 0 \in T
  <2> SUFFICES ASSUME NEW Q \in SUBSET R, Cardinality(Q) <= 0 PROVE Divides(d, Cardinality(Q))
    OBVIOUS
  <2>1. Cardinality(Q) \in Nat
    BY FS_Subset, FS_CardinalityType
  <2>2. Cardinality(Q) = 0
    BY <2>1
  <2>3. Divides(d, 0)
    BY DividesZero
  <2> QED
    BY <2>2, <2>3
<1>2. \A k \in Nat : k \in T => k + 1 \in T
  <2> SUFFICES ASSUME NEW k \in Nat, k \in T,
                      NEW Q \in SUBSET R, Closed(Q), Cardinality(Q) <= k + 1
               PROVE  Divides(d, Cardinality(Q))
    OBVIOUS
  <2>1. CASE Q = {}
    <3>1. Cardinality({}) = 0 /\ Divides(d, 0)
      BY FS_EmptySet, DividesZero
    <3> QED
      BY <2>1, <3>1
  <2>2. CASE Q # {}
    <3>1. PICK x \in Q : TRUE
      BY <2>2
    <3> DEFINE C == class[x]
               rest == Q \ C
    <3>2. x \in R /\ C \subseteq Q /\ Cardinality(C) = d
      BY <3>1 DEF IsPartition
    <3>3. Closed(rest)
      <4> SUFFICES ASSUME NEW y \in rest, NEW z \in class[y], z \in C PROVE FALSE
        OBVIOUS
      <4>1. y \in R /\ y \in class[y] /\ class[z] = class[y] /\ class[z] = C
        BY <3>2 DEF IsPartition
      <4> QED
        BY <4>1
    <3>4. IsFiniteSet(Q) /\ Q \cap C = C
      BY <3>2, FS_Subset
    <3> HIDE DEF C
    <3>5. IsFiniteSet(rest) /\ Cardinality(rest) = Cardinality(Q) - d
      BY <3>2, <3>4, FS_Difference
    <3>6. Cardinality(Q) \in Nat /\ Cardinality(rest) \in Nat
      BY <3>4, <3>5, FS_CardinalityType
    <3>7. rest \in SUBSET R /\ Cardinality(rest) <= k
      BY <3>5, <3>6
    <3> HIDE DEF rest
    <3>8. Divides(d, Cardinality(rest))
      BY <3>3, <3>7
    <3> DEFINE c == Cardinality(rest)
    <3>9. Divides(d, c) /\ c \in Int /\ Divides(d, d) /\ Cardinality(Q) = c + d
      BY <3>5, <3>6, <3>8, DividesZero
    <3> HIDE DEF c
    <3>10. Divides(d, c + d)
      BY <3>9, DividesSum
    <3> QED
      BY <3>9, <3>10
  <2> QED
    BY <2>1, <2>2
<1>3. Nat \subseteq T
  <2> HIDE DEF T
  <2> QED
    BY <1>1, <1>2, NatSet
<1>4. Closed(R)
  BY DEF IsPartition
<1>5. Cardinality(R) \in Nat
  BY FS_CardinalityType
<1>6. Cardinality(R) \in T
  BY <1>3, <1>5
<1> QED
  BY <1>4, <1>5, <1>6

\* The residues that the powers of a lead to from x.
Orbit(a, p, x) == {(Pow(a, k) * x) % p : k \in Nat}

\* A residue is in the orbit of x if some power leads to it.
LEMMA OrbitMember ==
  ASSUME NEW p \in Nat, p > 0, NEW a \in Int, NEW x \in Int, NEW y \in 0 .. p - 1
  PROVE  y \in Orbit(a, p, x) <=> \E k \in Nat : Congruent(Pow(a, k) * x, y, p)
<1>1. ASSUME NEW k \in Nat
      PROVE  y = (Pow(a, k) * x) % p <=> Congruent(Pow(a, k) * x, y, p)
  <2> DEFINE z == Pow(a, k) * x
  <2>1. z \in Int
    <3>1. Pow(a, k) \in Int
      BY PowLaws
    <3> QED
      BY <3>1
  <2>2. y % p = y
    OBVIOUS
  <2> HIDE DEF z
  <2>3. Congruent(z, y, p) <=> z % p = y % p
    BY <2>1, CongruentMeans
  <2> QED
    BY <2>2, <2>3 DEF z
<1> QED
  BY <1>1 DEF Orbit

\* Going on from a number that a power leads to.
LEMMA OrbitStep ==
  ASSUME NEW p \in Nat, p > 0, NEW a \in Int, NEW x \in Int, NEW y \in Int, NEW z \in Int,
         NEW j \in Nat, NEW k \in Nat,
         Congruent(Pow(a, j) * x, y, p), Congruent(Pow(a, k) * y, z, p)
  PROVE  Congruent(Pow(a, j + k) * x, z, p)
<1> DEFINE u == Pow(a, j)
           v == Pow(a, k)
<1>1. u \in Int /\ v \in Int /\ Pow(a, j + k) = u * v
  BY PowLaws, PowAdd
<1> HIDE DEF u, v
<1>2. Congruent(v * (u * x), v * y, p)
  <2> DEFINE w == u * x
  <2>1. w \in Int /\ Congruent(w, y, p) /\ Congruent(v, v, p)
    BY <1>1, CongruentSymmetric DEF u
  <2> HIDE DEF w
  <2>2. Congruent(v * w, v * y, p)
    BY <1>1, <2>1, CongruentTimes
  <2> QED
    BY <2>2 DEF w
<1>3. v * (u * x) = (u * v) * x /\ (u * v) * x \in Int /\ v * y \in Int
  BY <1>1
<1>4. Congruent((u * v) * x, v * y, p)
  BY <1>2, <1>3
<1>5. Congruent(v * y, z, p)
  BY DEF v
<1>6. Congruent((u * v) * x, z, p)
  <2> DEFINE r == (u * v) * x
             s == v * y
  <2>1. r \in Int /\ s \in Int /\ Congruent(r, s, p) /\ Congruent(s, z, p)
    BY <1>3, <1>4, <1>5
  <2> HIDE DEF r, s
  <2>2. Congruent(r, z, p)
    BY <2>1, CongruentTransitive
  <2> QED
    BY <2>2 DEF r
<1> QED
  BY <1>1, <1>6

\* Powers whose exponent is a multiple of the order are congruent to 1.
LEMMA OrderPow ==
  ASSUME NEW p \in Nat, p > 0, NEW a \in Int, NEW d \in Nat, Congruent(Pow(a, d), 1, p),
         NEW k \in Nat
  PROVE  Congruent(Pow(a, d * k), 1, p)
<1> DEFINE x == Pow(a, d)
           one == 1
<1>1. x \in Int /\ Pow(a, d * k) = Pow(x, k) /\ Pow(one, k) = one /\ one \in Int
  BY PowLaws, PowTimes, PowOfOne
<1> HIDE DEF x, one
<1>2. Congruent(Pow(x, k), Pow(one, k), p)
  BY <1>1, CongruentPow DEF x, one
<1> QED
  BY <1>1, <1>2 DEF one

\* The way back: d * k - k more steps from what k steps lead to.
LEMMA OrbitBack ==
  ASSUME NEW p, IsPrime(p), NEW a \in Int, NEW d, IsOrder(d, a, p),
         NEW x \in Int, NEW y \in Int, NEW k \in Nat, Congruent(Pow(a, k) * x, y, p)
  PROVE  \E j \in Nat : Congruent(Pow(a, j) * y, x, p)
<1>1. p \in Nat /\ p > 0 /\ d \in Nat /\ d > 0 /\ Congruent(Pow(a, d), 1, p)
  BY DEF IsPrime, IsOrder
<1> DEFINE m == d * k
           j == m - k
           u == Pow(a, j)
           v == Pow(a, k)
           w == Pow(a, m)
           one == 1
<1>2. m \in Nat /\ j \in Nat /\ j + k = m
  <2>1. k * 1 <= k * d /\ k * 1 = k /\ k * d = m /\ m \in Int
    BY <1>1, TimesMonotonic
  <2> QED
    BY <2>1
<1>3. Congruent(w, one, p)
  BY <1>1, OrderPow
<1> HIDE DEF j, m
<1>4. u \in Int /\ v \in Int /\ w = u * v /\ w \in Int /\ one \in Int
  <2>1. u \in Int /\ v \in Int
    BY <1>2, PowLaws
  <2>2. Pow(a, j + k) = u * v
    BY <1>2, PowAdd
  <2>3. w = u * v
    BY <1>2, <2>2
  <2> HIDE DEF u, v, w
  <2> QED
    BY <2>1, <2>3
<1>5. Congruent(v * x, y, p)
  OBVIOUS
<1> HIDE DEF u, v, w, one
<1>6. Congruent(u * y, u * (v * x), p)
  <2> DEFINE z == v * x
  <2>1. z \in Int /\ Congruent(y, z, p) /\ Congruent(u, u, p)
    <3>1. z \in Int /\ Congruent(z, y, p)
      BY <1>4, <1>5
    <3> HIDE DEF z
    <3> QED
      BY <1>1, <1>4, <3>1, CongruentSymmetric
  <2> HIDE DEF z
  <2>2. Congruent(u * y, u * z, p)
    BY <1>1, <1>4, <2>1, CongruentTimes
  <2> QED
    BY <2>2 DEF z
<1>7. u * (v * x) = w * x /\ w * x \in Int /\ u * y \in Int /\ one * x = x
  BY <1>4 DEF one
<1>8. Congruent(w * x, one * x, p)
  <2>1. Congruent(x, x, p)
    BY <1>1, CongruentSymmetric
  <2> QED
    BY <1>1, <1>3, <1>4, <2>1, CongruentTimes
<1>9. Congruent(u * y, x, p)
  <2> DEFINE r == u * y
             s == w * x
  <2>1. r \in Int /\ s \in Int /\ Congruent(r, s, p) /\ Congruent(s, x, p)
    BY <1>6, <1>7, <1>8
  <2> HIDE DEF r, s
  <2>2. Congruent(r, x, p)
    BY <1>1, <2>1, CongruentTransitive
  <2> QED
    BY <2>2 DEF r
<1> QED
  BY <1>2, <1>9 DEF u

\* Before the order is reached no residue comes back.
LEMMA OrbitSize ==
  ASSUME NEW p, IsPrime(p), NEW a \in Int, ~Divides(p, a), NEW d, IsOrder(d, a, p),
         NEW x \in 1 .. p - 1
  PROVE  Cardinality(Orbit(a, p, x)) = d
<1> DEFINE f == [k \in 0 .. d - 1 |-> (Pow(a, k) * x) % p]
           O == Orbit(a, p, x)
<1>1. p \in Nat /\ p > 0 /\ d \in Nat /\ d > 0 /\ Congruent(Pow(a, d), 1, p) /\ x \in Int
  BY DEF IsPrime, IsOrder
<1>2. ~Divides(p, x)
  BY <1>1, DivisorBound
<1>3. \A k \in Nat : Pow(a, k) \in Int
  BY PowLaws
<1>4. f \in [0 .. d - 1 -> O]
  BY <1>1 DEF Orbit
<1>5. ASSUME NEW j \in 0 .. d - 1, NEW k \in 0 .. d - 1, j < k, f[j] = f[k] PROVE FALSE
  <2> DEFINE u == Pow(a, j)
             v == Pow(a, k)
  <2>1. j \in Nat /\ k \in Nat /\ j <= k /\ k - j \in Nat /\ k - j > 0 /\ k - j < d
    BY <1>1, <1>5
  <2>2. u \in Int /\ v \in Int /\ (u * x) % p = (v * x) % p
    BY <1>3, <1>5, <2>1
  <2> HIDE DEF u, v
  <2>3. u * x = x * u /\ v * x = x * v /\ x * u \in Int /\ x * v \in Int
    BY <1>1, <2>2
  <2>4. Congruent(x * u, x * v, p)
    <3> DEFINE r == x * u
               s == x * v
    <3>1. r \in Int /\ s \in Int /\ r % p = s % p
      BY <2>2, <2>3
    <3> HIDE DEF r, s
    <3>2. Congruent(r, s, p)
      BY <1>1, <3>1, CongruentMeans
    <3> QED
      BY <3>2 DEF r, s
  <2>5. Congruent(u, v, p)
    BY <1>1, <1>2, <2>2, <2>4, Cancel
  <2>6. Congruent(Pow(a, k - j), 1, p)
    BY <2>1, <2>5, PowDifference DEF u, v
  <2>7. d <= k - j
    BY <2>1, <2>6 DEF IsOrder
  <2> QED
    BY <1>1, <2>1, <2>7
<1>6. ASSUME NEW y \in O PROVE \E k \in 0 .. d - 1 : f[k] = y
  <2>1. PICK k \in Nat : y = (Pow(a, k) * x) % p
    BY DEF Orbit
  <2> DEFINE m == k \div d
             j == k % d
             u == Pow(a, j)
             v == Pow(a, d * m)
             one == 1
  <2>2. m \in Nat /\ j \in 0 .. d - 1 /\ k = d * m + j /\ d * m \in Nat /\ j \in Nat
    <3>1. j \in 0 .. d - 1 /\ k = d * m + j /\ m \in Int
      <4>1. k \in Int
        OBVIOUS
      <4>2. /\ k % d \in 0 .. d - 1 /\ k \div d \in Int
            /\ k = d * (k \div d) + (k % d)
        BY <1>1, <4>1, ResidueProperties
      <4> QED
        BY <4>2
    <3>2. m \in Nat
      BY <1>1, DivisionProperties
    <3> HIDE DEF m, j
    <3> QED
      BY <1>1, <3>1, <3>2
  <2>3. Congruent(v, one, p)
    BY <1>1, <2>2, OrderPow
  <2> HIDE DEF m, j
  <2>4. u \in Int /\ v \in Int /\ one \in Int
    BY <1>3, <2>2
  <2>5. Pow(a, k) = v * u
    <3> DEFINE n == d * m
    <3>1. n \in Nat /\ k = n + j
      BY <2>2
    <3> HIDE DEF n
    <3>2. Pow(a, n + j) = Pow(a, n) * Pow(a, j)
      BY <2>2, <3>1, PowAdd
    <3> QED
      BY <3>1, <3>2 DEF n
  <2> HIDE DEF u, v, one
  <2>6. Congruent(v * (u * x), one * (u * x), p)
    <3> DEFINE z == u * x
    <3>1. z \in Int
      BY <1>1, <2>4
    <3> HIDE DEF z
    <3>2. Congruent(z, z, p)
      BY <1>1, <3>1, CongruentSymmetric
    <3>3. Congruent(v * z, one * z, p)
      BY <1>1, <2>3, <2>4, <3>1, <3>2, CongruentTimes
    <3> QED
      BY <3>3 DEF z
  <2>7. v * (u * x) = (v * u) * x /\ (v * u) * x \in Int /\ one * (u * x) = u * x /\ u * x \in Int
    BY <1>1, <2>4 DEF one
  <2>8. ((v * u) * x) % p = (u * x) % p
    <3> DEFINE r == (v * u) * x
               s == u * x
    <3>1. r \in Int /\ s \in Int /\ Congruent(r, s, p)
      BY <2>6, <2>7
    <3> HIDE DEF r, s
    <3>2. r % p = s % p
      BY <1>1, <3>1, CongruentMeans
    <3> QED
      BY <3>2 DEF r, s
  <2>9. f[j] = y
    BY <2>1, <2>2, <2>5, <2>8 DEF u
  <2> QED
    BY <2>2, <2>9
<1> HIDE DEF f, O
<1>7. \A j, k \in 0 .. d - 1 : f[j] = f[k] => j = k
  <2> SUFFICES ASSUME NEW j \in 0 .. d - 1, NEW k \in 0 .. d - 1, f[j] = f[k], j # k PROVE FALSE
    OBVIOUS
  <2>1. j < k \/ k < j
    BY <1>1
  <2> QED
    BY <1>5, <2>1
<1>8. ExistsBijection(0 .. d - 1, O)
  <2>1. f \in Bijection(0 .. d - 1, O)
    <3>1. f \in Injection(0 .. d - 1, O)
      BY <1>4, <1>7 DEF Injection, IsInjective
    <3>2. f \in Surjection(0 .. d - 1, O)
      BY <1>4, <1>6 DEF Surjection
    <3> QED
      BY <3>1, <3>2 DEF Bijection
  <2> QED
    BY <2>1 DEF ExistsBijection
<1>9. IsFiniteSet(0 .. d - 1) /\ Cardinality(0 .. d - 1) = d
  <2> DEFINE l == d - 1
             zero == 0
  <2>1. l \in Int /\ zero \in Int /\ (IF zero > l THEN 0 ELSE l - zero + 1) = d
    BY <1>1
  <2> HIDE DEF l, zero
  <2>2. IsFiniteSet(zero .. l) /\ Cardinality(zero .. l) = d
    BY <2>1, FS_Interval
  <2> QED
    BY <2>2 DEF l, zero
<1>10. Cardinality(O) = d
  <2> DEFINE K == 0 .. d - 1
  <2>1. IsFiniteSet(K) /\ ExistsBijection(K, O) /\ Cardinality(K) = d
    BY <1>8, <1>9
  <2> HIDE DEF K
  <2> QED
    BY <2>1, FS_Bijection
<1> QED
  BY <1>10 DEF O

\* The orbits are classes of the residues other than 0.
LEMMA OrbitsAreClasses ==
  ASSUME NEW p, IsPrime(p), NEW a \in Int, ~Divides(p, a), NEW d, IsOrder(d, a, p)
  PROVE  IsPartition([x \in 1 .. p - 1 |-> Orbit(a, p, x)], 1 .. p - 1, d)
<1> DEFINE R == 1 .. p - 1
           class == [x \in R |-> Orbit(a, p, x)]
<1>1. p \in Nat /\ p > 0
  BY DEF IsPrime
<1>2. ASSUME NEW x \in R, NEW y \in Orbit(a, p, x)
      PROVE  y \in R /\ \E k \in Nat : Congruent(Pow(a, k) * x, y, p)
  <2>1. PICK k \in Nat : y = (Pow(a, k) * x) % p
    BY DEF Orbit
  <2> DEFINE u == Pow(a, k)
             z == u * x
  <2>2. u \in Int /\ ~Divides(p, u) /\ x \in Int /\ ~Divides(p, x)
    <3>1. x \in Nat /\ x > 0 /\ x < p
      BY <1>1
    <3>2. ~Divides(p, x)
      BY <1>1, <3>1, DivisorBound
    <3>3. u \in Int /\ ~Divides(p, u)
      BY PowLaws, PrimeDividesPow
    <3> QED
      BY <3>1, <3>2, <3>3
  <2>3. ~Divides(p, z) /\ z \in Int
    <3> HIDE DEF u
    <3> QED
      BY <2>2, PrimeDivides
  <2>4. y = z % p
    BY <2>1
  <2> HIDE DEF z
  <2>5. y \in 0 .. p - 1 /\ Congruent(z, y, p) /\ z = p * (z \div p) + y /\ z \div p \in Int
    BY <1>1, <2>3, <2>4, ResidueProperties
  <2>6. y # 0
    <3> SUFFICES ASSUME y = 0 PROVE FALSE
      OBVIOUS
    <3> DEFINE q == z \div p
    <3>1. q \in Int /\ z = p * q + 0
      BY <2>5
    <3> HIDE DEF q
    <3>2. z = p * q
      BY <1>1, <3>1
    <3> QED
      BY <2>3, <3>1, <3>2 DEF Divides
  <2> QED
    BY <1>1, <2>5, <2>6 DEF z, u
<1>3. ASSUME NEW x \in R, NEW y \in R, NEW k \in Nat, Congruent(Pow(a, k) * x, y, p)
      PROVE  Orbit(a, p, y) \subseteq Orbit(a, p, x)
  <2> SUFFICES ASSUME NEW z \in Orbit(a, p, y) PROVE z \in Orbit(a, p, x)
    OBVIOUS
  <2>1. z \in R
    BY <1>2
  <2>2. PICK j \in Nat : Congruent(Pow(a, j) * y, z, p)
    BY <1>2
  <2>3. Congruent(Pow(a, k + j) * x, z, p)
    BY <1>1, <1>3, <2>1, <2>2, OrbitStep
  <2>4. k + j \in Nat /\ x \in Int /\ z \in 0 .. p - 1
    BY <2>1
  <2> QED
    BY <1>1, <2>3, <2>4, OrbitMember
<1>4. ASSUME NEW x \in R PROVE x \in Orbit(a, p, x) /\ Cardinality(Orbit(a, p, x)) = d
  <2>1. Pow(a, 0) = 1 /\ 1 * x = x /\ x \in Int /\ x \in 0 .. p - 1
    BY PowLaws
  <2>2. Congruent(Pow(a, 0) * x, x, p)
    BY <1>1, <2>1, CongruentSymmetric
  <2>3. x \in Orbit(a, p, x)
    BY <1>1, <2>1, <2>2, OrbitMember
  <2> QED
    BY <2>3, OrbitSize
<1>5. ASSUME NEW x \in R, NEW y \in Orbit(a, p, x) PROVE Orbit(a, p, y) = Orbit(a, p, x)
  <2>1. y \in R /\ x \in Int /\ y \in Int
    BY <1>2
  <2>2. PICK k \in Nat : Congruent(Pow(a, k) * x, y, p)
    BY <1>2
  <2>3. PICK j \in Nat : Congruent(Pow(a, j) * y, x, p)
    BY <2>1, <2>2, OrbitBack
  <2> QED
    BY <1>3, <2>1, <2>2, <2>3
<1>6. \A x \in R : Orbit(a, p, x) \in SUBSET R
  BY <1>2
<1>7. class \in [R -> SUBSET R]
  BY <1>6
<1>8. \A x \in R : \A y \in class[x] : y \in R /\ class[y] = class[x]
  BY <1>5, <1>6
<1> QED
  BY <1>4, <1>7, <1>8 DEF IsPartition

\* Fermat's theorem: the order divides p - 1, because the orbits are of its size.
LEMMA Fermat ==
  ASSUME NEW p, IsPrime(p), NEW a \in Int, ~Divides(p, a)
  PROVE  Congruent(Pow(a, p - 1), 1, p)
<1>1. p \in Nat /\ p > 0 /\ p > 1
  BY DEF IsPrime
<1>2. PICK d : IsOrder(d, a, p)
  BY OrderExists
<1>3. d \in Nat /\ d > 0 /\ Congruent(Pow(a, d), 1, p)
  BY <1>2 DEF IsOrder
<1> DEFINE R == 1 .. p - 1
           class == [x \in R |-> Orbit(a, p, x)]
           l == p - 1
<1>4. IsFiniteSet(R) /\ Cardinality(R) = l
  <2> DEFINE one == 1
  <2>1. l \in Int /\ one \in Int /\ (IF one > l THEN 0 ELSE l - one + 1) = l
    BY <1>1
  <2> HIDE DEF l, one
  <2>2. IsFiniteSet(one .. l) /\ Cardinality(one .. l) = l
    BY <2>1, FS_Interval
  <2> QED
    BY <2>2 DEF l, one
<1>5. IsPartition(class, R, d)
  BY <1>2, OrbitsAreClasses
<1> HIDE DEF R, class
<1>6. Divides(d, l)
  BY <1>3, <1>4, <1>5, ClassesDivide
<1>7. PICK k \in Int : l = d * k
  BY <1>6 DEF Divides
<1>8. k \in Nat
  <2> SUFFICES ASSUME k <= 0 PROVE FALSE
    BY <1>7
  <2>1. d * k <= d * 0 /\ d * 0 = 0
    BY <1>3, TimesMonotonic
  <2> QED
    BY <1>1, <1>7, <2>1
<1> QED
  BY <1>1, <1>3, <1>7, <1>8, OrderPow

-----------------------------------------------------------------------------
(* RSA *)

\* Exponents that leave 1 modulo p - 1 do nothing modulo p.
LEMMA PrimePower ==
  ASSUME NEW p, IsPrime(p), NEW x \in Int, NEW k \in Nat
  PROVE  Congruent(Pow(x, (p - 1) * k + 1), x, p)
<1> DEFINE l == p - 1
           m == l * k
           u == Pow(x, l)
           v == Pow(x, m)
           one == 1
<1>1. p \in Nat /\ p > 0 /\ l \in Nat
  BY DEF IsPrime
<1>2. m \in Nat
  <2> HIDE DEF l
  <2> QED
    BY <1>1
<1>3. v \in Int /\ Pow(x, m + 1) = x * v
  <2> HIDE DEF m
  <2> QED
    BY <1>2, PowLaws
<1>4. CASE Divides(p, x)
  <2> HIDE DEF v, m
  <2>1. Divides(p, x * v) /\ x * v \in Int
    <3>1. p \in Int /\ v \in Int /\ x * v \in Int
      BY <1>1, <1>3
    <3> QED
      BY <1>4, <3>1, DividesTimes
  <2>2. Divides(p, x * v - x)
    <3> DEFINE w == x * v
    <3>1. w \in Int /\ Divides(p, w) /\ p \in Int
      BY <1>1, <2>1
    <3> HIDE DEF w
    <3>2. Divides(p, w - x)
      BY <1>4, <3>1, DividesSum
    <3> QED
      BY <3>2 DEF w
  <2>3. Congruent(Pow(x, m + 1), x, p)
    BY <1>3, <2>2 DEF Congruent
  <2> QED
    BY <2>3 DEF m
<1>5. CASE ~Divides(p, x)
  <2>1. Congruent(u, one, p)
    BY <1>5, Fermat
  <2>2. v = Pow(u, k) /\ Pow(one, k) = one /\ u \in Int /\ one \in Int
    <3> HIDE DEF l
    <3> QED
      BY <1>1, PowTimes, PowOfOne, PowLaws
  <2> HIDE DEF u, v, m, one, l
  <2>3. Congruent(v, one, p)
    <3>1. Congruent(Pow(u, k), Pow(one, k), p)
      BY <1>1, <2>1, <2>2, CongruentPow
    <3> QED
      BY <2>2, <3>1
  <2>4. Congruent(x * v, x * one, p)
    <3>1. Congruent(x, x, p)
      BY <1>1, CongruentSymmetric
    <3> QED
      BY <1>1, <1>3, <2>2, <2>3, <3>1, CongruentTimes
  <2>5. x * one = x
    BY DEF one
  <2>6. Congruent(Pow(x, m + 1), x, p)
    BY <1>3, <2>4, <2>5
  <2> QED
    BY <2>6 DEF m, l
<1> QED
  BY <1>4, <1>5

\* What two different primes divide their product divides.
LEMMA PrimesDivide ==
  ASSUME NEW p, IsPrime(p), NEW q, IsPrime(q), p # q, NEW a \in Int, Divides(p, a), Divides(q, a)
  PROVE  Divides(p * q, a)
<1>1. p \in Nat /\ p > 1 /\ q \in Nat /\ q > 1
  BY DEF IsPrime
<1>2. PICK k \in Int : a = p * k
  BY DEF Divides
<1>3. ~Divides(q, p)
  <2> SUFFICES ASSUME Divides(q, p) PROVE FALSE
    OBVIOUS
  <2>1. q <= p
    BY <1>1, DivisorBound
  <2>2. q \in 2 .. p - 1
    BY <1>1, <2>1
  <2> QED
    BY <2>2 DEF IsPrime
<1>4. Divides(q, k)
  BY <1>1, <1>2, <1>3, PrimeDivides
<1>5. PICK j \in Int : k = q * j
  BY <1>4 DEF Divides
<1>6. p * (q * j) = (p * q) * j /\ p * q \in Int
  BY <1>1
<1>7. a = (p * q) * j
  BY <1>2, <1>5, <1>6
<1> QED
  BY <1>7 DEF Divides

\* Exponents d and c that are inverse to each other modulo (p - 1) * (q - 1) are
\* inverse as powers modulo p * q.
LEMMA RsaIdentity ==
  ASSUME NEW p, IsPrime(p), NEW q, IsPrime(q), p # q, NEW x \in Int,
         NEW d \in Nat, NEW c \in Nat, (c * d) % ((p - 1) * (q - 1)) = 1
  PROVE  Congruent(Pow(Pow(x, d), c), x, p * q)
<1> DEFINE a == p - 1
           b == q - 1
           f == a * b
           e == d * c
           k == e \div f
           y == Pow(x, e)
<1>1. p \in Nat /\ p > 1 /\ q \in Nat /\ q > 1 /\ a \in Nat /\ b \in Nat /\ a > 0 /\ b > 0
  BY DEF IsPrime
<1>2. f \in Nat /\ f > 0 /\ e \in Nat /\ e = c * d
  <2> HIDE DEF a, b
  <2>1. \A u, v \in Nat : u > 0 /\ v > 0 => u * v \in Nat /\ u * v > 0
    OBVIOUS
  <2>2. d * c \in Nat /\ d * c = c * d
    OBVIOUS
  <2> QED
    BY <1>1, <2>1, <2>2
<1>3. e % f = 1
  BY <1>2
<1>4. Pow(Pow(x, d), c) = y /\ y \in Int
  <2>1. Pow(x, d * c) = Pow(Pow(x, d), c)
    BY PowTimes
  <2> HIDE DEF e
  <2>2. y \in Int
    BY <1>2, PowLaws
  <2> QED
    BY <2>1, <2>2 DEF e
<1> HIDE DEF e, f
<1>5. k \in Nat /\ e = f * k + 1
  <2>1. e \in Int /\ f \in Nat /\ f > 0
    BY <1>2
  <2>2. e = f * (e \div f) + (e % f)
    BY <2>1, ResidueProperties
  <2>3. e \div f \in Nat
    BY <1>2, DivisionProperties
  <2> QED
    BY <1>3, <2>2, <2>3
<1> HIDE DEF k, a, b
<1>6. b * k \in Nat /\ a * k \in Nat /\ e = a * (b * k) + 1 /\ e = b * (a * k) + 1
  <2>1. (a * b) * k = a * (b * k) /\ (a * b) * k = b * (a * k) /\ b * k \in Nat /\ a * k \in Nat
    BY <1>1, <1>5
  <2> QED
    BY <1>5, <2>1 DEF f
<1>7. Congruent(y, x, p)
  <2> DEFINE j == b * k
  <2>1. j \in Nat /\ e = a * j + 1
    BY <1>6
  <2> HIDE DEF j
  <2>2. Congruent(Pow(x, (p - 1) * j + 1), x, p)
    BY <2>1, PrimePower
  <2> QED
    BY <2>1, <2>2 DEF a
<1>8. Congruent(y, x, q)
  <2> DEFINE j == a * k
  <2>1. j \in Nat /\ e = b * j + 1
    BY <1>6
  <2> HIDE DEF j
  <2>2. Congruent(Pow(x, (q - 1) * j + 1), x, q)
    BY <2>1, PrimePower
  <2> QED
    BY <2>1, <2>2 DEF b
<1> HIDE DEF y
<1>9. Divides(p * q, y - x)
  BY <1>4, <1>7, <1>8, PrimesDivide DEF Congruent
<1> QED
  BY <1>4, <1>9 DEF Congruent
=============================================================================
