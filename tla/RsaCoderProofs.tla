--------------------------- MODULE RsaCoderProofs ---------------------------
(***************************************************************************)
(* Proofs about RsaCoder, for every set of candidates and of random        *)
(* numbers: its types, what its loops compute (pow_mod, Gcd, the Fermat    *)
(* test of a prime), the meaning of the rows of algorithm_Euclid, and      *)
(* that the constructor draws its first key once and ends with keys that   *)
(* are inverse to each other modulo phi. Fermat's test to the base 2 lets  *)
(* 341 pass: that both factors are prime is proved of the candidates the   *)
(* program draws, on which the test is exact.                              *)
(***************************************************************************)
EXTENDS RsaCoder, Arithmetic, TLAPS

\* What one row of the table of algorithm_Euclid may hold.
Rows == Nat \X Int \X Int

\* The types before the first candidate is drawn.
LEMMA TypeInit == RsaInit => KeysTypeOK
BY DEF RsaInit, KeysTypeOK

\* Once both primes are chosen phi is positive.
LEMMA PhiIsPositive ==
  ASSUME KeysTypeOK, pc \notin {"p", "q"}
  PROVE  phi \in Nat /\ phi > 0
<1>1. p - 1 \in Nat \ {0} /\ q - 1 \in Nat \ {0}
  BY DEF KeysTypeOK
<1>2. \A a, b \in Nat \ {0} : a * b \in Nat /\ a * b > 0
  OBVIOUS
<1> QED
  BY <1>1, <1>2 DEF phi

\* The division step on the first components.
LEMMA Remainder ==
  \A a \in Nat, b \in Nat \ {0} :
    /\ a \div b \in Int /\ a % b \in Nat
    /\ a % b = a - (a \div b) * b
OBVIOUS

\* The step on the cofactors, which is linear.
LEMMA Combination ==
  ASSUME NEW x \in Int, NEW y \in Int,
         NEW a1 \in Int, NEW a2 \in Int, NEW b1 \in Int, NEW b2 \in Int, NEW k \in Int
  PROVE  (a1 * x + a2 * y) - k * (b1 * x + b2 * y) = (a1 - k * b1) * x + (a2 - k * b2) * y
OBVIOUS

\* The next row is a row.
LEMMA RowType ==
  ASSUME U \in Rows, V \in Rows, V[1] # 0
  PROVE  /\ U[1] \div V[1] \in Int
         /\ Row(U[1] \div V[1]) \in Rows
<1>1. U[1] \in Nat /\ V[1] \in Nat \ {0}
  BY DEF Rows
<1>2. U[2] \in Int /\ U[3] \in Int /\ V[2] \in Int /\ V[3] \in Int
  BY DEF Rows
<1>3. U[1] \div V[1] \in Int /\ U[1] % V[1] \in Nat
  BY <1>1, Remainder
<1>4. \A k, x, y \in Int : x - k * y \in Int
  OBVIOUS
<1>5. /\ U[2] - (U[1] \div V[1]) * V[2] \in Int
      /\ U[3] - (U[1] \div V[1]) * V[3] \in Int
  BY <1>2, <1>3, <1>4
<1> QED
  BY <1>3, <1>5 DEF Row, Rows

-----------------------------------------------------------------------------
(* Types *)

\* Every step of the constructor keeps the types.
LEMMA TypeStep == KeysTypeOK /\ [Configure]_rsa => KeysTypeOK'
<1> SUFFICES ASSUME KeysTypeOK, [Configure]_rsa
             PROVE  KeysTypeOK'
  OBVIOUS
<1>1. CASE DrawP
  BY <1>1, CandidateAssumption DEF DrawP, KeysTypeOK, FermTest
<1>2. CASE DrawQ
  BY <1>2, CandidateAssumption DEF DrawQ, KeysTypeOK, FermTest
<1>3. CASE DrawKey
  <2>1. phi \in Nat /\ d' \in Nat
    BY <1>3, PhiIsPositive, RandomAssumption DEF DrawKey
  <2> QED
    BY <1>3, <2>1 DEF DrawKey, KeysTypeOK
<1>4. CASE EuclidStep
  <2>1. V' \in Rows
    BY <1>4, RowType DEF EuclidStep, KeysTypeOK, Rows
  <2> QED
    BY <1>4, <2>1 DEF EuclidStep, KeysTypeOK, Rows, keys
<1>5. CASE EuclidEnd
  <2>1. phi \in Nat /\ phi > 0 /\ U[3] \in Int
    BY <1>5, PhiIsPositive DEF EuclidEnd, KeysTypeOK
  <2>2. c' \in Nat
    BY <1>5, <2>1 DEF EuclidEnd
  <2> QED
    BY <1>5, <2>2 DEF EuclidEnd, KeysTypeOK
<1>6. CASE UNCHANGED rsa
  BY <1>6 DEF rsa, keys, KeysTypeOK
<1> QED
  BY <1>1, <1>2, <1>3, <1>4, <1>5, <1>6 DEF Configure

\* The variables of the coder keep their types; the keys are natural numbers
\* although the cofactors of algorithm_Euclid may be negative.
THEOREM TypeCorrect == RsaSpec => []KeysTypeOK
BY TypeInit, TypeStep, PTL DEF RsaSpec

-----------------------------------------------------------------------------
(* The rows of algorithm_Euclid *)

\* Before the algorithm starts there is nothing to show.
LEMMA RowsInit == RsaInit => RowsAreCombinations
BY DEF RsaInit, RowsAreCombinations

\* Both rows stay combinations of phi and d.
LEMMA RowsStep ==
  KeysTypeOK /\ RowsAreCombinations /\ [Configure]_rsa => RowsAreCombinations'
<1> SUFFICES ASSUME KeysTypeOK, RowsAreCombinations, [Configure]_rsa
             PROVE  RowsAreCombinations'
  OBVIOUS
<1>1. CASE DrawKey
  <2>1. phi \in Int /\ phi' = phi /\ d' \in Int
    BY <1>1, PhiIsPositive, RandomAssumption DEF DrawKey, phi
  <2>2. \A x, y \in Int : x = 1 * x + 0 * y /\ y = 0 * x + 1 * y
    OBVIOUS
  <2>3. U' = <<phi, 1, 0>> /\ V' = <<d', 0, 1>>
    BY <1>1 DEF DrawKey
  <2> QED
    BY <2>1, <2>2, <2>3 DEF RowsAreCombinations
<1>2. CASE EuclidStep
  <2> DEFINE k == U[1] \div V[1]
  <2>1. /\ pc = "euclid" /\ V[1] # 0 /\ U' = V /\ V' = Row(k)
        /\ phi' = phi /\ d' = d
    BY <1>2 DEF EuclidStep, keys, phi
  <2>2. phi \in Int /\ d \in Int
    BY <2>1, PhiIsPositive DEF KeysTypeOK
  <2>3. /\ U[1] \in Nat /\ V[1] \in Nat \ {0}
        /\ U[2] \in Int /\ U[3] \in Int /\ V[2] \in Int /\ V[3] \in Int
    BY <2>1 DEF KeysTypeOK
  <2>4. k \in Int /\ U[1] % V[1] = U[1] - k * V[1]
    BY <2>3, Remainder
  <2>5. U[1] = U[2] * phi + U[3] * d /\ V[1] = V[2] * phi + V[3] * d
    BY <2>1 DEF RowsAreCombinations
  <2>6. U[1] - k * V[1] = (U[2] - k * V[2]) * phi + (U[3] - k * V[3]) * d
    <3> HIDE DEF k
    <3>1. (U[2] * phi + U[3] * d) - k * (V[2] * phi + V[3] * d)
            = (U[2] - k * V[2]) * phi + (U[3] - k * V[3]) * d
      BY <2>2, <2>3, <2>4, Combination
    <3> QED
      BY <2>5, <3>1
  <2>7. /\ V'[1] = U[1] % V[1]
        /\ V'[2] = U[2] - k * V[2]
        /\ V'[3] = U[3] - k * V[3]
    BY <2>1 DEF Row
  <2>8. V'[1] = V'[2] * phi' + V'[3] * d'
    BY <2>1, <2>4, <2>6, <2>7
  <2>9. U'[1] = U'[2] * phi' + U'[3] * d'
    BY <2>1, <2>5
  <2> QED
    BY <2>8, <2>9 DEF RowsAreCombinations
<1>3. CASE UNCHANGED rsa
  BY <1>3 DEF rsa, keys, RowsAreCombinations, phi
<1>4. CASE DrawP \/ DrawQ \/ EuclidEnd
  BY <1>4 DEF DrawP, DrawQ, EuclidEnd, RowsAreCombinations
<1> QED
  BY <1>1, <1>2, <1>3, <1>4 DEF Configure

\* Every row algorithm_Euclid goes through is the combination of phi and d
\* that its cofactors say.
THEOREM RowsCorrect == RsaSpec => []RowsAreCombinations
<1>1. KeysTypeOK /\ RowsAreCombinations /\ [Configure]_rsa => (KeysTypeOK /\ RowsAreCombinations)'
  BY TypeStep, RowsStep
<1> QED
  BY <1>1, TypeInit, RowsInit, PTL DEF RsaSpec

-----------------------------------------------------------------------------
(* The exponent *)

\* A multiple of the modulus does not change the residue.
LEMMA ResidueIsUnique ==
  ASSUME NEW b \in Nat, b > 0, NEW r \in Int, NEW s \in Int, NEW k \in Int,
         0 <= r, r < b, 0 <= s, s < b, r - s = k * b
  PROVE  r = s
<1>1. CASE k = 0
  BY <1>1
<1>2. CASE k > 0
  <2>1. k * b >= b
    BY <1>2
  <2> QED
    BY <2>1
<1>3. CASE k < 0
  <2>1. k * b <= 0 - b
    BY <1>3
  <2> QED
    BY <2>1
<1> QED
  BY <1>1, <1>2, <1>3

\* What division and remainder are.
LEMMA Division ==
  \A a \in Int, b \in Nat : b > 0 =>
    /\ a \div b \in Int /\ a % b \in Int
    /\ a = (a \div b) * b + (a % b)
    /\ 0 <= a % b /\ a % b < b
OBVIOUS

\* Multiples do not count modulo b.
LEMMA ResidueOfSum ==
  ASSUME NEW a \in Int, NEW m \in Int, NEW b \in Nat, b > 0
  PROVE  (a + m * b) % b = a % b
<1> DEFINE s == a + m * b
<1>1. s \in Int /\ s = a + m * b
  OBVIOUS
<1> HIDE DEF s
<1>2. /\ a \div b \in Int /\ a % b \in Int /\ a = (a \div b) * b + (a % b)
      /\ 0 <= a % b /\ a % b < b
  BY Division
<1>3. /\ s \div b \in Int /\ s % b \in Int /\ s = (s \div b) * b + (s % b)
      /\ 0 <= s % b /\ s % b < b
  BY <1>1, Division
<1>4. \A j, k, r, t \in Int : j * b + r = (k * b + t) + m * b => r - t = (k + m - j) * b
  OBVIOUS
<1>5. (s % b) - (a % b) = ((a \div b) + m - (s \div b)) * b
  BY <1>1, <1>2, <1>3, <1>4
<1>6. (a \div b) + m - (s \div b) \in Int
  BY <1>2, <1>3
<1>7. s % b = a % b
  BY <1>2, <1>3, <1>5, <1>6, ResidueIsUnique
<1> QED
  BY <1>1, <1>7

\* The cofactor at the end, multiplied by d, leaves the last remainder.
LEMMA CofactorStep ==
  ASSUME KeysTypeOK, RowsAreCombinations, EuclidEnd
  PROVE  (c' * d) % phi = U[1] % phi
<1>1. phi \in Nat /\ phi > 0 /\ d \in Int /\ U[1] \in Int /\ U[2] \in Int /\ U[3] \in Int
  BY PhiIsPositive DEF EuclidEnd, KeysTypeOK
<1>2. U[1] = U[2] * phi + U[3] * d /\ c' = U[3] % phi
  BY DEF EuclidEnd, RowsAreCombinations
<1> DEFINE k == U[3] \div phi
<1>3. k \in Int /\ c' \in Int /\ U[3] = k * phi + c'
  BY <1>1, <1>2, Division
<1> HIDE DEF k
<1>4. \A e, f, g, x, y \in Int : f * x + (k * x + e) * y = e * y + (f + k * y) * x
  BY <1>3
<1>5. U[1] = c' * d + (U[2] + k * d) * phi
  BY <1>1, <1>2, <1>3, <1>4
<1>6. c' * d \in Int /\ U[2] + k * d \in Int
  BY <1>1, <1>3
<1> DEFINE e == c' * d
           m == U[2] + k * d
<1>7. e \in Int /\ m \in Int /\ U[1] = e + m * phi
  BY <1>5, <1>6
<1> HIDE DEF e, m
<1>8. (e + m * phi) % phi = e % phi
  BY <1>1, <1>7, ResidueOfSum
<1>9. e % phi = U[1] % phi
  BY <1>7, <1>8
<1> QED
  BY <1>9 DEF e

\* configure()'s test succeeds if algorithm_Euclid found 1: c is the inverse
\* of d modulo phi up to the divisor found, for all primes and keys drawn.
THEOREM CofactorCorrect == RsaSpec => CofactorIsInverse
<1>1. KeysTypeOK /\ RowsAreCombinations /\ [Configure]_rsa
        => [pc = "euclid" /\ pc' # "euclid" => (c' * d) % phi = U[1] % phi]_rsa
  <2> SUFFICES ASSUME KeysTypeOK, RowsAreCombinations, Configure, pc = "euclid", pc' # "euclid"
               PROVE  (c' * d) % phi = U[1] % phi
    OBVIOUS
  <2>1. EuclidEnd
    BY DEF Configure, DrawP, DrawQ, DrawKey, EuclidStep
  <2> QED
    BY <2>1, CofactorStep
<1> QED
  BY <1>1, TypeCorrect, RowsCorrect, PTL DEF RsaSpec, CofactorIsInverse

-----------------------------------------------------------------------------
(* The functions of NumberTheory *)

\* One iteration of pow_mod keeps result * base ^ exp modulo the modulus.
LEMMA SquareStep ==
  ASSUME NEW m \in Nat, m > 0, NEW r \in Int, NEW x \in Int, NEW k \in Nat
  PROVE  ((IF k % 2 = 1 THEN (r * x) % m ELSE r) * Pow((x * x) % m, k \div 2)) % m
           = (r * Pow(x, k)) % m
<1> DEFINE h == k \div 2
           y == (x * x) % m
           s == (r * x) % m
           two == 2
           one == 1
           z == Pow(x, 2)
           v == Pow(x, two * h)
<1>1. h \in Nat /\ (k = 2 * h \/ k = 2 * h + 1) /\ (k % 2 = 1 <=> k = 2 * h + 1)
  OBVIOUS
<1>2. x * x \in Int /\ r * x \in Int
  OBVIOUS
<1>3. y \in Int /\ s \in Int /\ Congruent(y, x * x, m) /\ Congruent(s, r * x, m)
  BY <1>2, ResidueProperties
<1>4. two \in Nat /\ one \in Nat /\ two = one + 1 /\ one = 0 + 1 /\ two * h \in Nat /\ two * h + 1 \in Nat
  BY <1>1
<1>5. z = x * x
  <2>1. Pow(x, 0) = 1 /\ Pow(x, 0 + 1) = x * Pow(x, 0)
    BY PowLaws
  <2>2. Pow(x, one + 1) = x * Pow(x, one)
    BY <1>4, PowLaws
  <2>3. x * 1 = x
    OBVIOUS
  <2> QED
    BY <1>4, <2>1, <2>2, <2>3
<1>6. z \in Int /\ v \in Int /\ Pow(y, h) \in Int
  BY <1>1, <1>3, <1>4, PowLaws
<1>7. v = Pow(z, h)
  <2>1. Pow(x, two * h) = Pow(Pow(x, two), h)
    <3> HIDE DEF two, h
    <3> QED
      BY <1>1, <1>4, PowTimes
  <2> QED
    BY <2>1
<1>8. Congruent(Pow(y, h), v, m)
  <2> HIDE DEF y, h, v, z
  <2> QED
    BY <1>1, <1>3, <1>5, <1>6, <1>7, CongruentPow
<1>9. CASE k = 2 * h
  <2>1. Congruent(r, r, m)
    BY CongruentSymmetric
  <2>2. Congruent(r * Pow(y, h), r * v, m)
    <3> HIDE DEF y, h, v
    <3> QED
      BY <1>6, <1>8, <2>1, CongruentTimes
  <2>3. r * Pow(y, h) \in Int /\ r * v \in Int
    BY <1>6
  <2>4. (r * Pow(y, h)) % m = (r * v) % m
    BY <2>2, <2>3, CongruentMeans
  <2>5. v = Pow(x, k) /\ k % 2 # 1
    BY <1>1, <1>9
  <2> QED
    BY <2>4, <2>5
<1>10. CASE k = 2 * h + 1
  <2>1. Congruent(s * Pow(y, h), (r * x) * v, m)
    <3> HIDE DEF y, h, v, s
    <3> QED
      BY <1>2, <1>3, <1>6, <1>8, CongruentTimes
  <2>2. s * Pow(y, h) \in Int /\ (r * x) * v \in Int
    BY <1>2, <1>3, <1>6
  <2>3. (s * Pow(y, h)) % m = ((r * x) * v) % m
    BY <2>1, <2>2, CongruentMeans
  <2>4. Pow(x, two * h + 1) = x * v
    <3> HIDE DEF two, h
    <3> QED
      BY <1>4, PowLaws
  <2>5. (r * x) * v = r * (x * v)
    <3> HIDE DEF v
    <3> QED
      BY <1>6, TimesAssociative
  <2>6. Pow(x, k) = x * v /\ k % 2 = 1
    BY <1>1, <1>10, <2>4
  <2> QED
    BY <2>3, <2>5, <2>6
<1> QED
  BY <1>1, <1>9, <1>10

\* Square and multiply computes the power modulo the modulus.
LEMMA PowModMeans ==
  ASSUME NEW base \in Nat, NEW exp \in Nat, NEW mod \in Nat, mod > 0
  PROVE  PowMod(base, exp, mod) = Pow(base, exp) % mod
<1> DEFINE D == (0 .. mod) \X (0 .. mod) \X (0 .. exp)
           loop[s \in D] == IF s[3] = 0 THEN s[1] ELSE loop[PowStep(s, mod)]
           Table(f) == f = [s \in D |-> IF s[3] = 0 THEN s[1] ELSE f[PowStep(s, mod)]]
<1>1. ASSUME NEW s \in D
      PROVE  /\ s[1] \in 0 .. mod /\ s[2] \in 0 .. mod /\ s[3] \in 0 .. exp
             /\ PowStep(s, mod) \in D
             /\ PowStep(s, mod)[1] = IF s[3] % 2 = 1 THEN (s[1] * s[2]) % mod ELSE s[1]
             /\ PowStep(s, mod)[2] = (s[2] * s[2]) % mod
             /\ PowStep(s, mod)[3] = s[3] \div 2
             /\ s[3] # 0 => s[3] \div 2 < s[3]
             /\ s[1] < mod => PowStep(s, mod)[1] < mod
  <2>1. s[1] \in 0 .. mod /\ s[2] \in 0 .. mod /\ s[3] \in 0 .. exp
    OBVIOUS
  <2>2. \A a, b \in 0 .. mod : a * b \in Nat
    OBVIOUS
  <2>3. \A a \in Nat : a % mod \in 0 .. mod - 1
    OBVIOUS
  <2>4. (s[1] * s[2]) % mod \in 0 .. mod - 1 /\ (s[2] * s[2]) % mod \in 0 .. mod - 1
    BY <2>1, <2>2, <2>3
  <2>5. s[3] \div 2 \in 0 .. exp /\ (s[3] # 0 => s[3] \div 2 < s[3])
    BY <2>1
  <2>6. 0 .. mod - 1 \subseteq 0 .. mod /\ \A a \in 0 .. mod - 1 : a < mod
    OBVIOUS
  <2> QED
    BY <2>1, <2>4, <2>5, <2>6 DEF PowStep
<1>2. \E f : Table(f)
  <2> DEFINE Stop == {s \in D : s[3] = 0}
             result == [s \in Stop |-> s[1]]
             next == [s \in D \ Stop |-> PowStep(s, mod)]
             measure == [s \in D |-> s[3]]
             S == 0 .. mod
  <2>1. Stop \in SUBSET D /\ result \in [Stop -> S] /\ next \in [D \ Stop -> D]
        /\ measure \in [D -> 0 .. exp]
    BY <1>1
  <2>2. \A s \in D \ Stop : measure[next[s]] < measure[s]
    BY <1>1
  <2>3. /\ \A s \in D : s \in Stop <=> s[3] = 0
        /\ \A s \in Stop : result[s] = s[1]
        /\ \A s \in D \ Stop : next[s] = PowStep(s, mod)
    OBVIOUS
  <2> HIDE DEF D, Stop, result, next, measure, S
  <2>4. PICK f : IsTailRecursion(f, D, S, Stop, result, next)
    BY <2>1, <2>2, TailRecursionExists
  <2>5. f \in [D -> S] /\ \A s \in D : f[s] = IF s[3] = 0 THEN s[1] ELSE f[PowStep(s, mod)]
    BY <2>3, <2>4 DEF IsTailRecursion
  <2> QED
    BY <2>5
<1>3. Table(loop)
  BY <1>2, Zenon
<1>4. PowMod(base, exp, mod) = loop[<<1 % mod, base % mod, exp>>]
  BY DEF PowMod
<1> HIDE DEF loop
<1>5. \A s \in D : loop[s] = IF s[3] = 0 THEN s[1] ELSE loop[PowStep(s, mod)]
  BY <1>3
<1> HIDE DEF Table
<1> DEFINE T == {k \in 0 .. exp : \A s \in D : s[3] <= k /\ s[1] < mod =>
                   loop[s] = (s[1] * Pow(s[2], s[3])) % mod}
<1>6. 0 \in T
  <2> SUFFICES ASSUME NEW s \in D, s[3] <= 0, s[1] < mod
               PROVE  loop[s] = (s[1] * Pow(s[2], s[3])) % mod
    OBVIOUS
  <2>1. s[3] = 0 /\ s[1] \in 0 .. mod - 1 /\ s[2] \in Int
    BY <1>1
  <2>2. Pow(s[2], s[3]) = 1
    BY <2>1, PowLaws
  <2>3. s[1] * 1 = s[1] /\ s[1] % mod = s[1]
    BY <2>1
  <2> QED
    BY <1>5, <2>1, <2>2, <2>3
<1>7. \A k \in 0 .. exp - 1 : k \in T => k + 1 \in T
  <2> SUFFICES ASSUME NEW k \in 0 .. exp - 1, k \in T,
                      NEW s \in D, s[3] <= k + 1, s[1] < mod
               PROVE  loop[s] = (s[1] * Pow(s[2], s[3])) % mod
    OBVIOUS
  <2>1. s[1] \in Int /\ s[2] \in Int /\ s[3] \in Nat
    BY <1>1
  <2>2. CASE s[3] = 0
    <3>1. s[3] <= k
      BY <2>2
    <3> QED
      BY <3>1
  <2>3. CASE s[3] # 0
    <3> DEFINE t == PowStep(s, mod)
    <3>1. /\ t \in D /\ t[1] < mod
          /\ t[1] = IF s[3] % 2 = 1 THEN (s[1] * s[2]) % mod ELSE s[1]
          /\ t[2] = (s[2] * s[2]) % mod /\ t[3] = s[3] \div 2 /\ t[3] < s[3]
          /\ t[3] \in Nat
      BY <1>1, <2>3
    <3>2. loop[s] = loop[t]
      BY <1>5, <2>3
    <3>3. t[3] <= k
      BY <2>1, <3>1
    <3> HIDE DEF t, D
    <3>4. loop[t] = (t[1] * Pow(t[2], t[3])) % mod
      BY <3>1, <3>3
    <3>5. (t[1] * Pow(t[2], t[3])) % mod = (s[1] * Pow(s[2], s[3])) % mod
      <4>1. ((IF s[3] % 2 = 1 THEN (s[1] * s[2]) % mod ELSE s[1])
               * Pow((s[2] * s[2]) % mod, s[3] \div 2)) % mod
              = (s[1] * Pow(s[2], s[3])) % mod
        BY <2>1, SquareStep
      <4> QED
        BY <3>1, <4>1, Zenon
    <3> QED
      BY <3>2, <3>4, <3>5
  <2> QED
    BY <2>2, <2>3
<1>8. 0 .. exp \subseteq T
  <2> HIDE DEF T
  <2> QED
    BY <1>6, <1>7, IntervalSet
<1> DEFINE a == 1 % mod
           b == base % mod
           one == 1
<1>9. a \in 0 .. mod - 1 /\ b \in 0 .. mod - 1 /\ a < mod /\ <<a, b, exp>> \in D
      /\ Congruent(a, 1, mod) /\ Congruent(b, base, mod)
  <2>1. /\ a \in 0 .. mod - 1 /\ b \in 0 .. mod - 1
        /\ Congruent(a, 1, mod) /\ Congruent(b, base, mod)
    BY ResidueProperties
  <2> QED
    BY <2>1
<1>10. loop[<<a, b, exp>>] = (a * Pow(b, exp)) % mod
  <2>1. exp \in T
    BY <1>8
  <2> HIDE DEF a, b, D
  <2>2. <<a, b, exp>>[1] = a /\ <<a, b, exp>>[2] = b /\ <<a, b, exp>>[3] = exp /\ exp <= exp
    OBVIOUS
  <2> QED
    BY <1>9, <2>1, <2>2
<1>11. /\ Pow(b, exp) \in Int /\ Pow(base, exp) \in Int /\ a \in Int /\ b \in Int /\ one \in Int
       /\ Congruent(a, one, mod)
  BY <1>9, PowLaws
<1> HIDE DEF a, b, one
<1>12. Congruent(Pow(b, exp), Pow(base, exp), mod)
  BY <1>9, <1>11, CongruentPow
<1>13. Congruent(a * Pow(b, exp), one * Pow(base, exp), mod)
  BY <1>11, <1>12, CongruentTimes
<1>14. a * Pow(b, exp) \in Int /\ one * Pow(base, exp) = Pow(base, exp)
  BY <1>11 DEF one
<1>15. (a * Pow(b, exp)) % mod = Pow(base, exp) % mod
  <2> DEFINE x == a * Pow(b, exp)
             y == Pow(base, exp)
  <2>1. x \in Int /\ y \in Int /\ Congruent(x, y, mod)
    BY <1>11, <1>13, <1>14
  <2> HIDE DEF x, y
  <2>2. x % mod = y % mod
    BY <2>1, CongruentMeans
  <2> QED
    BY <2>2 DEF x, y
<1> QED
  BY <1>4, <1>10, <1>15 DEF a, b

\* The test rejects no prime but 2: Fermat's theorem.
LEMMA PrimesPass ==
  ASSUME NEW x, IsPrime(x), x # 2
  PROVE  FermTest(x)
<1> DEFINE two == 2
           one == 1
           e == x - 1
<1>1. x \in Nat /\ x > 2 /\ e \in Nat /\ two \in Nat /\ one \in Int
  BY DEF IsPrime
<1>2. ~Divides(x, two)
  <2>1. Divides(x, two) => x <= two
    BY <1>1, DivisorBound
  <2> QED
    BY <1>1, <2>1
<1> HIDE DEF two
<1>3. Congruent(Pow(two, e), one, x)
  BY <1>1, <1>2, Fermat
<1>4. Pow(two, e) \in Int
  BY <1>1, PowLaws
<1> HIDE DEF e, one
<1>5. Pow(two, e) % x = one % x
  BY <1>1, <1>3, <1>4, CongruentMeans
<1>6. PowMod(two, e, x) = Pow(two, e) % x
  <2>1. two \in Nat /\ e \in Nat /\ x \in Nat /\ x > 0
    BY <1>1
  <2> QED
    BY <2>1, PowModMeans
<1>7. 1 % x = 1
  BY <1>1
<1> QED
  BY <1>1, <1>5, <1>6, <1>7 DEF FermTest, two, e, one

\* A division step keeps the common divisors.
LEMMA CommonDivisors ==
  ASSUME NEW a \in Nat, NEW b \in Nat, b # 0, NEW k \in Int
  PROVE  Divides(k, a) /\ Divides(k, b) <=> Divides(k, b) /\ Divides(k, a % b)
<1> DEFINE h == a \div b
           r == a % b
           s == b * h
<1>1. h \in Int /\ r \in Int /\ s \in Int /\ a = s + r /\ r = a - s /\ a \in Int /\ b \in Int
  <2>1. h \in Int /\ r \in Int /\ a = s + r
    OBVIOUS
  <2>2. s \in Int
    BY <2>1
  <2> QED
    BY <2>1, <2>2
<1>2. Divides(k, b) => Divides(k, s)
  <2> HIDE DEF h
  <2> QED
    BY <1>1, DividesTimes
<1> HIDE DEF h, r, s
<1>3. Divides(k, s) /\ Divides(k, r) => Divides(k, a)
  BY <1>1, DividesSum
<1>4. Divides(k, s) /\ Divides(k, a) => Divides(k, r)
  BY <1>1, DividesSum
<1> QED
  BY <1>2, <1>3, <1>4 DEF r

\* gcd returns the greatest common divisor: the divisors of what it returns are
\* the common divisors of its arguments.
LEMMA GcdMeans ==
  ASSUME NEW m \in Nat, NEW n0 \in Nat
  PROVE  /\ Gcd(m, n0) \in Nat
         /\ \A k \in Int : Divides(k, Gcd(m, n0)) <=> Divides(k, m) /\ Divides(k, n0)
<1> DEFINE E == 0 .. m + n0
           D == E \X E
           loop[s \in D] == IF s[2] = 0 THEN s[1] ELSE loop[<<s[2], s[1] % s[2]>>]
           Table(f) == f = [s \in D |-> IF s[2] = 0 THEN s[1] ELSE f[<<s[2], s[1] % s[2]>>]]
<1>1. ASSUME NEW s \in D
      PROVE  /\ s[1] \in E /\ s[2] \in E
             /\ s[2] # 0 => <<s[2], s[1] % s[2]>> \in D /\ s[1] % s[2] < s[2]
  <2>1. s[1] \in E /\ s[2] \in E
    OBVIOUS
  <2>2. \A a, b \in E : b # 0 => a % b \in E /\ a % b < b
    <3> SUFFICES ASSUME NEW a \in E, NEW b \in E, b # 0 PROVE a % b \in E /\ a % b < b
      OBVIOUS
    <3>1. a % b \in 0 .. b - 1
      OBVIOUS
    <3> QED
      BY <3>1
  <2> QED
    BY <2>1, <2>2
<1>2. \E f : Table(f) /\ f \in [D -> E]
  <2> DEFINE Stop == {s \in D : s[2] = 0}
             result == [s \in Stop |-> s[1]]
             next == [s \in D \ Stop |-> <<s[2], s[1] % s[2]>>]
             measure == [s \in D |-> s[2]]
  <2>1. Stop \in SUBSET D /\ result \in [Stop -> E] /\ next \in [D \ Stop -> D]
        /\ measure \in [D -> 0 .. m + n0] /\ m + n0 \in Nat
    BY <1>1
  <2>2. \A s \in D \ Stop : measure[next[s]] < measure[s]
    BY <1>1
  <2>3. /\ \A s \in D : s \in Stop <=> s[2] = 0
        /\ \A s \in Stop : result[s] = s[1]
        /\ \A s \in D \ Stop : next[s] = <<s[2], s[1] % s[2]>>
    OBVIOUS
  <2> HIDE DEF D, E, Stop, result, next, measure
  <2>4. PICK f : IsTailRecursion(f, D, E, Stop, result, next)
    BY <2>1, <2>2, TailRecursionExists
  <2>5. f \in [D -> E] /\ \A s \in D : f[s] = IF s[2] = 0 THEN s[1] ELSE f[<<s[2], s[1] % s[2]>>]
    BY <2>3, <2>4 DEF IsTailRecursion
  <2> QED
    BY <2>5
<1>3. Table(loop)
  BY <1>2, Zenon
<1>4. Gcd(m, n0) = loop[<<m, n0>>]
  BY DEF Gcd
<1> HIDE DEF loop
<1>5. \A s \in D : loop[s] = IF s[2] = 0 THEN s[1] ELSE loop[<<s[2], s[1] % s[2]>>]
  BY <1>3
<1> HIDE DEF Table
<1> DEFINE Means(s) == /\ loop[s] \in Nat
                       /\ \A k \in Int : Divides(k, loop[s]) <=> Divides(k, s[1]) /\ Divides(k, s[2])
           T == {j \in 0 .. m + n0 : \A s \in D : s[2] <= j => Means(s)}
<1>6. ASSUME NEW s \in D, s[2] = 0
      PROVE  Means(s)
  <2>1. loop[s] = s[1] /\ s[1] \in Nat
    <3>1. s[1] \in Nat
      BY <1>1
    <3> HIDE DEF D
    <3> QED
      BY <1>5, <1>6, <3>1
  <2>2. \A k \in Int : Divides(k, s[2])
    BY <1>6, DividesZero
  <2> QED
    BY <2>1, <2>2
<1>7. 0 \in T
  <2> SUFFICES ASSUME NEW s \in D, s[2] <= 0
               PROVE  Means(s)
    OBVIOUS
  <2>1. s[2] = 0
    BY <1>1
  <2> HIDE DEF Means, D
  <2> QED
    BY <1>6, <2>1
<1>8. \A j \in 0 .. m + n0 - 1 : j \in T => j + 1 \in T
  <2> SUFFICES ASSUME NEW j \in 0 .. m + n0 - 1, j \in T,
                      NEW s \in D, s[2] <= j + 1
               PROVE  Means(s)
    OBVIOUS
  <2>1. CASE s[2] = 0
    <3> HIDE DEF Means, D
    <3> QED
      BY <1>6, <2>1
  <2>2. CASE s[2] # 0
    <3> DEFINE t == <<s[2], s[1] % s[2]>>
    <3>1. /\ s[1] \in Nat /\ s[2] \in Nat
          /\ t \in D /\ t[1] = s[2] /\ t[2] = s[1] % s[2] /\ t[2] < s[2] /\ t[2] \in Nat
      BY <1>1, <2>2
    <3>2. loop[s] = loop[t]
      BY <1>5, <2>2
    <3>3. t[2] <= j
      BY <3>1
    <3> HIDE DEF t, D
    <3>4. Means(t)
      BY <3>1, <3>3
    <3>5. \A k \in Int : Divides(k, t[1]) /\ Divides(k, t[2]) <=> Divides(k, s[1]) /\ Divides(k, s[2])
      BY <2>2, <3>1, CommonDivisors
    <3> QED
      BY <3>2, <3>4, <3>5
  <2> QED
    BY <2>1, <2>2
<1>9. 0 .. m + n0 \subseteq T
  <2>1. m + n0 \in Nat
    OBVIOUS
  <2> HIDE DEF T
  <2> QED
    BY <1>7, <1>8, <2>1, IntervalSet
<1>10. n0 \in T /\ <<m, n0>> \in D
  BY <1>9
<1>11. Means(<<m, n0>>)
  <2> HIDE DEF Means, D
  <2>1. <<m, n0>>[2] = n0 /\ n0 <= n0
    OBVIOUS
  <2> QED
    BY <1>10, <2>1
<1> QED
  BY <1>4, <1>11

-----------------------------------------------------------------------------
(* Keys that are inverse to each other *)

\* The rows keep the common divisors of phi and d, of which there is only 1.
EuclidInv ==
  pc = "euclid" =>
    /\ phi > 2
    /\ \A k \in Int : Divides(k, U[1]) /\ Divides(k, V[1]) => Divides(k, 1)

\* What the constructor promises in the end.
KeysFit ==
  /\ pc \notin {"p", "q"} => p # q
  /\ pc = "ready" => (c * d) % phi = 1

\* The invariant on the keys.
KeysInv == KeysTypeOK /\ RowsAreCombinations /\ EuclidInv /\ KeysFit

\* The invariant before any number is drawn.
LEMMA KeysInit == RsaInit => KeysInv
BY TypeInit, RowsInit DEF RsaInit, KeysInv, EuclidInv, KeysFit

\* An exponent is drawn whose only common divisor with phi is 1.
LEMMA EuclidDraw ==
  ASSUME KeysTypeOK, DrawKey
  PROVE  EuclidInv'
<1>1. /\ d' \in Nat /\ 2 <= d' /\ d' < phi /\ Gcd(d', phi) = 1
      /\ phi' = phi /\ phi \in Nat /\ U'[1] = phi /\ V'[1] = d'
  BY PhiIsPositive, RandomAssumption DEF DrawKey, phi
<1>2. \A k \in Int : Divides(k, Gcd(d', phi)) <=> Divides(k, d') /\ Divides(k, phi)
  <2> DEFINE x == d'
  <2>1. x \in Nat /\ phi \in Nat
    BY <1>1
  <2> HIDE DEF x
  <2>2. \A k \in Int : Divides(k, Gcd(x, phi)) <=> Divides(k, x) /\ Divides(k, phi)
    BY <2>1, GcdMeans
  <2> QED
    BY <2>2 DEF x
<1>3. \A k \in Int : Divides(k, U'[1]) /\ Divides(k, V'[1]) => Divides(k, 1)
  BY <1>1, <1>2
<1>4. phi' > 2
  BY <1>1
<1> QED
  BY <1>3, <1>4 DEF EuclidInv

\* A division step keeps them.
LEMMA EuclidKeeps ==
  ASSUME KeysTypeOK, EuclidInv, EuclidStep
  PROVE  EuclidInv'
<1>1. /\ pc = "euclid" /\ U[1] \in Nat /\ V[1] \in Nat /\ V[1] # 0 /\ phi' = phi
      /\ U'[1] = V[1] /\ V'[1] = U[1] % V[1]
  BY DEF EuclidStep, KeysTypeOK, Row, keys, phi
<1>2. \A k \in Int : Divides(k, U[1]) /\ Divides(k, V[1])
                       <=> Divides(k, V[1]) /\ Divides(k, U[1] % V[1])
  BY <1>1, CommonDivisors
<1>3. \A k \in Int : Divides(k, U'[1]) /\ Divides(k, V'[1]) => Divides(k, 1)
  BY <1>1, <1>2 DEF EuclidInv
<1>4. phi' > 2
  BY <1>1 DEF EuclidInv
<1> QED
  BY <1>3, <1>4 DEF EuclidInv

\* In the end the divisor found is 1, so that the keys pass the test.
LEMMA KeysPass ==
  ASSUME KeysTypeOK, RowsAreCombinations, EuclidInv, EuclidEnd
  PROVE  (c' * d) % phi = 1 /\ pc' = "ready"
<1> DEFINE u == U[1]
           one == 1
<1>1. pc = "euclid" /\ V[1] = 0 /\ u \in Nat /\ phi \in Nat /\ phi > 2
  BY PhiIsPositive DEF EuclidEnd, KeysTypeOK, EuclidInv
<1>2. Divides(u, one)
  <2>1. u \in Int /\ Divides(u, 0) /\ Divides(u, u)
    BY <1>1, DividesZero
  <2> QED
    BY <1>1, <2>1 DEF EuclidInv
<1>3. u > 0 /\ u <= one
  <2>1. one \in Nat /\ one > 0
    OBVIOUS
  <2> HIDE DEF u, one
  <2> QED
    BY <1>1, <1>2, <2>1, DivisorBound
<1>4. U[1] = 1
  BY <1>1, <1>3
<1>5. (c' * d) % phi = U[1] % phi
  BY CofactorStep
<1>6. 1 % phi = 1
  BY <1>1
<1> QED
  BY <1>4, <1>5, <1>6 DEF EuclidEnd

\* Every step of the constructor keeps the invariant.
LEMMA KeysStep == KeysInv /\ [Configure]_rsa => KeysInv'
<1> SUFFICES ASSUME KeysInv, [Configure]_rsa
             PROVE  KeysInv'
  OBVIOUS
<1>1. KeysTypeOK /\ RowsAreCombinations /\ EuclidInv /\ KeysFit
  BY DEF KeysInv
<1>2. KeysTypeOK' /\ RowsAreCombinations'
  BY <1>1, TypeStep, RowsStep
<1>3. CASE DrawP
  BY <1>2, <1>3 DEF DrawP, KeysInv, EuclidInv, KeysFit
<1>4. CASE DrawQ
  BY <1>2, <1>4 DEF DrawQ, KeysInv, EuclidInv, KeysFit
<1>5. CASE DrawKey
  <2>1. EuclidInv'
    BY <1>1, <1>5, EuclidDraw
  <2>2. KeysFit'
    BY <1>1, <1>5 DEF DrawKey, KeysFit
  <2> QED
    BY <1>2, <2>1, <2>2 DEF KeysInv
<1>6. CASE EuclidStep
  <2>1. EuclidInv'
    BY <1>1, <1>6, EuclidKeeps
  <2>2. KeysFit'
    BY <1>1, <1>6 DEF EuclidStep, KeysFit, keys
  <2> QED
    BY <1>2, <2>1, <2>2 DEF KeysInv
<1>7. CASE EuclidEnd
  <2>1. (c' * d) % phi = 1 /\ pc' = "ready"
    BY <1>1, <1>7, KeysPass
  <2>2. pc = "euclid" /\ UNCHANGED <<p, q, d, phi>>
    BY <1>7 DEF EuclidEnd, phi
  <2>3. KeysFit'
    BY <1>1, <2>1, <2>2 DEF KeysFit
  <2> QED
    BY <1>2, <2>1, <2>3 DEF KeysInv, EuclidInv
<1>8. CASE UNCHANGED rsa
  BY <1>1, <1>2, <1>8 DEF rsa, keys, KeysInv, EuclidInv, KeysFit, phi
<1> QED
  BY <1>3, <1>4, <1>5, <1>6, <1>7, <1>8 DEF Configure

\* The primes differ, and keys that are ready are inverse to each other.
THEOREM KeysCorrect == RsaSpec => []KeysInv
BY KeysInit, KeysStep, PTL DEF RsaSpec

\* The loop around gen_keys in configure() is never entered: gen_keys draws d
\* until gcd finds no common divisor with phi, and algorithm_Euclid then finds
\* none either.
THEOREM KeysAreKept == RsaSpec => NoSecondDraw
<1>1. KeysInv /\ [Configure]_rsa => [pc = "euclid" => pc' # "keys"]_rsa
  <2> SUFFICES ASSUME KeysInv, Configure, pc = "euclid"
               PROVE  pc' # "keys"
    OBVIOUS
  <2>1. CASE EuclidEnd
    BY <2>1, KeysPass DEF KeysInv
  <2>2. CASE EuclidStep
    BY <2>2 DEF EuclidStep
  <2> QED
    BY <2>1, <2>2 DEF Configure, DrawP, DrawQ, DrawKey
<1> QED
  BY <1>1, KeysCorrect, PTL DEF RsaSpec, NoSecondDraw

-----------------------------------------------------------------------------
(* The test on the numbers that gen_prime draws *)

\* Residues of powers are multiplied.
LEMMA ResidueOfPowers ==
  ASSUME NEW a \in Int, NEW j \in Nat, NEW k \in Nat, NEW m \in Nat, m > 0
  PROVE  Pow(a, j + k) % m = ((Pow(a, j) % m) * (Pow(a, k) % m)) % m
<1> DEFINE x == Pow(a, j)
           y == Pow(a, k)
           r == x % m
           s == y % m
<1>1. x \in Int /\ y \in Int /\ Pow(a, j + k) = x * y
  BY PowLaws, PowAdd
<1> HIDE DEF x, y
<1>2. r \in Int /\ s \in Int /\ Congruent(x, r, m) /\ Congruent(y, s, m)
  BY <1>1, ResidueProperties
<1> HIDE DEF r, s
<1>3. Congruent(x * y, r * s, m) /\ x * y \in Int /\ r * s \in Int
  BY <1>1, <1>2, CongruentTimes
<1>4. (x * y) % m = (r * s) % m
  BY <1>3, CongruentMeans
<1> QED
  BY <1>1, <1>4 DEF x, y, r, s

\* The powers of 2 that the argument needs.
LEMMA PowersOfTwo ==
  Pow(2, 1) = 2 /\ Pow(2, 2) = 4 /\ Pow(2, 4) = 16 /\ Pow(2, 6) = 64 /\ Pow(2, 14) = 16384
<1> DEFINE P(j) == Pow(2, j)
<1>1. \A j, k \in Nat : P(j + k) = P(j) * P(k)
  BY PowAdd
<1>2. P(0) = 1 /\ P(0 + 1) = 2 * P(0)
  BY PowLaws
<1> HIDE DEF P
<1>3. P(1) = 2
  BY <1>2
<1>4. P(2) = 4
  <2>1. P(1 + 1) = P(1) * P(1)
    BY <1>1
  <2> QED
    BY <1>3, <2>1
<1>5. P(4) = 16
  <2>1. P(2 + 2) = P(2) * P(2)
    BY <1>1
  <2> QED
    BY <1>4, <2>1
<1>6. P(6) = 64
  <2>1. P(4 + 2) = P(4) * P(2)
    BY <1>1
  <2> QED
    BY <1>4, <1>5, <2>1
<1>7. P(12) = 4096
  <2>1. P(6 + 6) = P(6) * P(6)
    BY <1>1
  <2> QED
    BY <1>6, <2>1
<1>8. P(14) = 16384
  <2>1. P(12 + 2) = P(12) * P(2)
    BY <1>1
  <2> QED
    BY <1>4, <1>7, <2>1
<1> QED
  BY <1>3, <1>4, <1>5, <1>6, <1>8 DEF P

\* What a number that passes says about its divisors.
LEMMA PassedDivisor ==
  ASSUME NEW x \in Nat, FermTest(x), NEW m \in Nat, m > 1, Divides(m, x)
  PROVE  Pow(2, x - 1) % m = 1
<1> DEFINE two == 2
           one == 1
           e == x - 1
           y == Pow(two, e)
           r == y % x
<1>1. x > 1 /\ e \in Nat /\ two \in Nat /\ one \in Int /\ two \in Int /\ PowMod(two, e, x) = one
  BY DEF FermTest
<1> HIDE DEF two, e, one
<1>2. y \in Int /\ r = one
  <2>1. y \in Int
    BY <1>1, PowLaws
  <2>2. PowMod(two, e, x) = Pow(two, e) % x
    <3>1. x > 0
      BY <1>1
    <3> QED
      BY <1>1, <3>1, PowModMeans
  <2> QED
    BY <1>1, <2>1, <2>2
<1>3. Congruent(y, r, x)
  <2> HIDE DEF y
  <2> QED
    BY <1>1, <1>2, ResidueProperties
<1>4. Divides(x, y - one)
  BY <1>2, <1>3 DEF Congruent
<1> HIDE DEF y, r
<1>5. Congruent(y, one, m)
  <2>1. y - one \in Int
    BY <1>1, <1>2
  <2> QED
    BY <1>4, <2>1, DividesTransitive DEF Congruent
<1>6. y % m = one % m
  BY <1>1, <1>2, <1>5, CongruentMeans
<1>7. one % m = 1
  BY DEF one
<1> QED
  BY <1>6, <1>7 DEF y, two, e

\* For a prime divisor the exponent can be that of the cofactor: of m * k - 1 =
\* (m - 1) * k + (k - 1) the first part does nothing, by Fermat's theorem.
LEMMA PassedCofactor ==
  ASSUME NEW m, IsPrime(m), m > 2, NEW k \in Nat, k > 0, FermTest(m * k)
  PROVE  Pow(2, k - 1) % m = 1
<1> DEFINE two == 2
           one == 1
           l == m - 1
           i == k - 1
           h == l * k
           x == m * k
<1>1. /\ m \in Nat /\ m > 2 /\ l \in Nat /\ i \in Nat /\ h \in Nat /\ x \in Nat /\ two \in Nat
      /\ x - 1 = h + i /\ one \in Int /\ m > 0 /\ m > 1 /\ two \in Int
  BY DEF IsPrime
<1>2. Divides(m, x)
  BY <1>1 DEF Divides
<1>3. Pow(2, x - 1) % m = 1
  <2> HIDE DEF x
  <2> QED
    BY <1>1, <1>2, PassedDivisor DEF x
<1>4. ~Divides(m, two)
  <2>1. Divides(m, two) => m <= two
    BY <1>1, DivisorBound
  <2> QED
    BY <1>1, <2>1
<1> HIDE DEF two, x, one
<1>5. Congruent(Pow(two, h), one, m)
  <2>1. Congruent(Pow(two, l), one, m)
    BY <1>1, <1>4, Fermat DEF one
  <2> HIDE DEF l
  <2> QED
    BY <1>1, <2>1, OrderPow DEF one
<1> HIDE DEF h, l, i
<1>6. Pow(two, h) \in Int /\ Pow(two, i) \in Int
  BY <1>1, PowLaws
<1>7. Pow(two, h) % m = one % m
  BY <1>1, <1>5, <1>6, CongruentMeans
<1>8. one % m = 1
  BY <1>1 DEF one
<1>9. Pow(two, h + i) % m = ((Pow(two, h) % m) * (Pow(two, i) % m)) % m
  BY <1>1, ResidueOfPowers
<1> DEFINE r == Pow(two, i) % m
<1>10. r \in 0 .. m - 1
  BY <1>1, <1>6
<1> HIDE DEF r
<1>11. Pow(two, h + i) % m = (1 * r) % m
  BY <1>7, <1>8, <1>9, Zenon DEF r
<1>12. (1 * r) % m = r
  BY <1>1, <1>10
<1> QED
  BY <1>1, <1>3, <1>11, <1>12 DEF r, two, i

\* No even number passes but 2.
LEMMA EvenFails ==
  ASSUME NEW k \in Nat, k > 1
  PROVE  ~FermTest(2 * k)
<1> SUFFICES ASSUME FermTest(2 * k) PROVE FALSE
  OBVIOUS
<1> DEFINE two == 2
           x == two * k
           j == x - 2
           y == Pow(2, j)
<1>1. /\ x \in Nat /\ j \in Nat /\ x - 1 = j + 1 /\ two \in Nat /\ two > 1 /\ FermTest(x)
      /\ k \in Int
  OBVIOUS
<1> HIDE DEF two
<1>2. Divides(two, x)
  BY <1>1 DEF Divides
<1> HIDE DEF x
<1>3. Pow(2, x - 1) % two = 1
  BY <1>1, <1>2, PassedDivisor
<1> HIDE DEF j
<1>4. y \in Int /\ Pow(2, j + 1) = 2 * y
  <2>1. 2 \in Int
    OBVIOUS
  <2> QED
    BY <1>1, <2>1, PowLaws
<1> HIDE DEF y
<1>5. (2 * y) % 2 = 0
  BY <1>4
<1> QED
  BY <1>1, <1>3, <1>4, <1>5 DEF two

\* No multiple of 9: 2 has order 6 modulo 9.
LEMMA NineFails ==
  ASSUME NEW i \in Nat
  PROVE  ~FermTest(18 * i + 9)
<1> SUFFICES ASSUME FermTest(18 * i + 9) PROVE FALSE
  OBVIOUS
<1> DEFINE nine == 9
           six == 6
           two == 2
           one == 1
           h == 3 * i + 1
           l == six * h
           x == 18 * i + 9
<1>1. /\ x \in Nat /\ h \in Nat /\ l \in Nat /\ x = nine * (2 * i + 1) /\ 2 * i + 1 \in Int
      /\ x - 1 = l + two /\ nine \in Nat /\ nine > 1 /\ nine > 0 /\ FermTest(x) /\ six \in Nat
      /\ two \in Nat /\ one \in Int
  OBVIOUS
<1>2. /\ Congruent(Pow(2, six), 1, nine) /\ Pow(2, two) % nine = 4
      /\ one % nine = 1
  <2>1. 64 - 1 = 9 * 7 /\ 4 % 9 = 4 /\ 1 % 9 = 1
    OBVIOUS
  <2> QED
    BY <2>1, PowersOfTwo DEF Congruent, Divides
<1> HIDE DEF nine, x, six, two, h
<1>3. Divides(nine, x)
  BY <1>1 DEF Divides
<1>4. Pow(2, x - 1) % nine = 1
  BY <1>1, <1>3, PassedDivisor
<1>5. Congruent(Pow(2, l), one, nine)
  BY <1>1, <1>2, OrderPow
<1> HIDE DEF l, one
<1>6. Pow(2, l) \in Int
  BY <1>1, PowLaws
<1>7. Pow(2, l) % nine = 1
  BY <1>1, <1>2, <1>5, <1>6, CongruentMeans
<1>8. Pow(2, l + two) % nine = ((Pow(2, l) % nine) * (Pow(2, two) % nine)) % nine
  BY <1>1, ResidueOfPowers
<1>9. Pow(2, x - 1) % nine = (1 * 4) % nine
  BY <1>1, <1>2, <1>7, <1>8, Zenon
<1>10. (1 * 4) % 9 = 4
  OBVIOUS
<1> QED
  BY <1>4, <1>9, <1>10 DEF nine

\* The squares of 5, 7 and 11 do not pass.
LEMMA SquaresFail == ~FermTest(25) /\ ~FermTest(49) /\ ~FermTest(121)
<1> DEFINE R(j, m) == Pow(2, j) % m
<1>1. \A j, k \in Nat : \A m \in Nat : m > 0 => R(j + k, m) = (R(j, m) * R(k, m)) % m
  BY ResidueOfPowers
<1>2. \A m \in Nat : m > 0 => R(4, m) = 16 % m /\ R(6, m) = 64 % m
  BY PowersOfTwo
<1>3. \A x \in Nat : FermTest(x) /\ x > 1 => R(x - 1, x) = 1
  <2> SUFFICES ASSUME NEW x \in Nat, FermTest(x), x > 1 PROVE Pow(2, x - 1) % x = 1
    OBVIOUS
  <2>1. Divides(x, x)
    BY DividesZero
  <2> QED
    BY <2>1, PassedDivisor
<1> HIDE DEF R
<1>4. ~FermTest(25)
  <2>1. R(10, 25) = 24
    <3>1. R(4 + 6, 25) = (R(4, 25) * R(6, 25)) % 25
      BY <1>1
    <3> QED
      BY <1>2, <3>1
  <2>2. R(20, 25) = 1
    <3>1. R(10 + 10, 25) = (R(10, 25) * R(10, 25)) % 25
      BY <1>1
    <3> QED
      BY <2>1, <3>1
  <2>3. R(24, 25) = 16
    <3>1. R(20 + 4, 25) = (R(20, 25) * R(4, 25)) % 25
      BY <1>1
    <3> QED
      BY <1>2, <2>2, <3>1
  <2> QED
    BY <1>3, <2>3
<1>5. ~FermTest(49)
  <2>1. R(12, 49) = 29
    <3>1. R(6 + 6, 49) = (R(6, 49) * R(6, 49)) % 49
      BY <1>1
    <3> QED
      BY <1>2, <3>1
  <2>2. R(24, 49) = 8
    <3>1. R(12 + 12, 49) = (R(12, 49) * R(12, 49)) % 49
      BY <1>1
    <3> QED
      BY <2>1, <3>1
  <2>3. R(48, 49) = 15
    <3>1. R(24 + 24, 49) = (R(24, 49) * R(24, 49)) % 49
      BY <1>1
    <3> QED
      BY <2>2, <3>1
  <2> QED
    BY <1>3, <2>3
<1>6. ~FermTest(121)
  <2>1. R(10, 121) = 56
    <3>1. R(4 + 6, 121) = (R(4, 121) * R(6, 121)) % 121
      BY <1>1
    <3> QED
      BY <1>2, <3>1
  <2>2. R(20, 121) = 111
    <3>1. R(10 + 10, 121) = (R(10, 121) * R(10, 121)) % 121
      BY <1>1
    <3> QED
      BY <2>1, <3>1
  <2>3. R(40, 121) = 100
    <3>1. R(20 + 20, 121) = (R(20, 121) * R(20, 121)) % 121
      BY <1>1
    <3> QED
      BY <2>2, <3>1
  <2>4. R(80, 121) = 78
    <3>1. R(40 + 40, 121) = (R(40, 121) * R(40, 121)) % 121
      BY <1>1
    <3> QED
      BY <2>3, <3>1
  <2>5. R(120, 121) = 56
    <3>1. R(80 + 40, 121) = (R(80, 121) * R(40, 121)) % 121
      BY <1>1
    <3> QED
      BY <2>3, <2>4, <3>1
  <2> QED
    BY <1>3, <2>5
<1> QED
  BY <1>4, <1>5, <1>6

\* The odd primes that gen_prime may draw, and 3.
OddPrimes == {3, 5, 7, 11, 13, 17, 19, 23, 29, 31, 37, 41, 43, 47, 53, 59, 61, 67, 71, 73, 79, 83,
              89, 97, 101, 103, 107, 109, 113}

\* They are primes.
LEMMA OddPrimesArePrime == \A m \in OddPrimes : IsPrime(m)
<1> SUFFICES ASSUME NEW m \in OddPrimes, NEW k \in 2 .. m - 1, Divides(k, m)
             PROVE  FALSE
  BY DEF OddPrimes, IsPrime
<1>1. m \in Nat /\ m \in 3 .. 113
  BY DEF OddPrimes
<1>2. PICK h \in Int : m = k * h
  BY DEF Divides
<1>3. h >= 2 /\ (k <= 10 \/ h <= 10)
  <2>1. ~(h <= 1)
    <3> SUFFICES ASSUME h <= 1 PROVE FALSE
      OBVIOUS
    <3>1. k * h <= k * 1 /\ k * 1 = k
      BY TimesMonotonic
    <3> QED
      BY <1>2, <3>1
  <2>2. ~(k >= 11 /\ h >= 11)
    <3> SUFFICES ASSUME k >= 11, h >= 11 PROVE FALSE
      OBVIOUS
    <3>1. k * 11 <= k * h /\ k * 11 >= 121
      BY TimesMonotonic
    <3> QED
      BY <1>1, <1>2, <3>1
  <2> QED
    BY <2>1, <2>2
<1>4. ASSUME NEW a \in 2 .. 10, NEW b \in Int, b >= 2, m = a * b
      PROVE  FALSE
  <2>1. a \in {2, 3, 4, 5, 6, 7, 8, 9, 10}
    OBVIOUS
  <2>2. \A j \in Int : j >= 2 => m # 2 * j /\ m # 3 * j /\ m # 5 * j /\ m # 7 * j
    BY DEF OddPrimes
  <2>3. a \in {2, 3, 5, 7}
    <3>1. 2 * b \in Int /\ 2 * b >= 2 /\ 3 * b \in Int /\ 3 * b >= 2
          /\ 4 * b \in Int /\ 4 * b >= 2 /\ 5 * b \in Int /\ 5 * b >= 2
      BY <1>4
    <3>2. m # 2 * (2 * b) /\ m # 2 * (3 * b) /\ m # 2 * (4 * b) /\ m # 2 * (5 * b) /\ m # 3 * (3 * b)
      BY <2>2, <3>1, Zenon
    <3> QED
      BY <1>4, <2>1, <3>2
  <2> QED
    BY <1>4, <2>2, <2>3
<1>5. m = h * k
  BY <1>2
<1> QED
  BY <1>2, <1>3, <1>4, <1>5

\* An odd number that gen_prime may draw is prime, or an odd multiple of 9, or the square
\* of a prime, or 3, 5, 7 or 15 times a larger prime.
LEMMA OddCandidates ==
  ASSUME NEW i \in 2 .. 61
  PROVE  \/ 2 * i + 1 \in OddPrimes \cup {25, 49, 121}
         \/ \E j \in Nat : 2 * i + 1 = 18 * j + 9
         \/ \E m \in OddPrimes : \/ m > 3 /\ 2 * i + 1 = m * 3
                                 \/ m > 5 /\ 2 * i + 1 = m * 5
                                 \/ m > 7 /\ 2 * i + 1 = m * 7
                                 \/ m \in {5, 7} /\ 2 * i + 1 = m * 15
<1> DEFINE x == 2 * i + 1
           A == {9, 27, 45, 63, 81, 99, 117}
           B == {15, 21, 33, 39, 51, 57, 69, 87, 93, 111, 123}
           C == {35, 55, 65, 85, 95, 115}
           D == {77, 91, 119}
           E == {75, 105}
<1>1. x \in OddPrimes \cup {25, 49, 121} \cup A \cup B \cup C \cup D \cup E
  BY DEF OddPrimes
<1>2. x \in A => \E j \in Nat : x = 18 * j + 9
  <2>1. x \in A => \E j \in {0, 1, 2, 3, 4, 5, 6} : x = 18 * j + 9
    OBVIOUS
  <2> QED
    BY <2>1
<1>3. x \in B => \E m \in OddPrimes : m > 3 /\ x = m * 3
  BY DEF OddPrimes
<1>4. x \in C => \E m \in OddPrimes : m > 5 /\ x = m * 5
  BY DEF OddPrimes
<1>5. x \in D => \E m \in OddPrimes : m > 7 /\ x = m * 7
  BY DEF OddPrimes
<1>6. x \in E => \E m \in OddPrimes : m \in {5, 7} /\ x = m * 15
  BY DEF OddPrimes
<1> HIDE DEF x, A, B, C, D, E
<1>7. \/ x \in OddPrimes \cup {25, 49, 121}
      \/ \E j \in Nat : x = 18 * j + 9
      \/ \E m \in OddPrimes : \/ m > 3 /\ x = m * 3
                              \/ m > 5 /\ x = m * 5
                              \/ m > 7 /\ x = m * 7
                              \/ m \in {5, 7} /\ x = m * 15
  BY <1>1, <1>2, <1>3, <1>4, <1>5, <1>6
<1> QED
  BY <1>7 DEF x

\* Of the numbers that gen_prime may draw exactly the odd primes pass.
LEMMA TestIsExact ==
  ASSUME NEW x \in 5 .. 124, FermTest(x)
  PROVE  x \in OddPrimes
<1> DEFINE i == x \div 2
<1>1. i \in 2 .. 62 /\ (x = 2 * i \/ (x = 2 * i + 1 /\ i \in 2 .. 61))
  OBVIOUS
<1> HIDE DEF i
<1>2. x # 2 * i
  <2>1. i \in Nat /\ i > 1
    BY <1>1
  <2> QED
    BY <2>1, EvenFails
<1>3. x \notin {25, 49, 121}
  BY SquaresFail
<1>4. \A j \in Nat : x # 18 * j + 9
  BY NineFails
<1>5. ASSUME NEW m \in OddPrimes, NEW k \in {3, 5, 7, 15}, x = m * k
      PROVE  Pow(2, k - 1) % m = 1
  <2>1. IsPrime(m) /\ m > 2 /\ k \in Nat /\ k > 0
    BY OddPrimesArePrime DEF OddPrimes
  <2> QED
    BY <1>5, <2>1, PassedCofactor
<1>6. ASSUME NEW m \in OddPrimes, m > 3 PROVE x # m * 3
  <2>1. x = m * 3 => Pow(2, 3 - 1) % m = 1
    BY <1>5
  <2>2. 4 % m # 1
    BY <1>6 DEF OddPrimes
  <2> QED
    BY <2>1, <2>2, PowersOfTwo
<1>7. ASSUME NEW m \in OddPrimes, m > 5 PROVE x # m * 5
  <2>1. x = m * 5 => Pow(2, 5 - 1) % m = 1
    BY <1>5
  <2>2. 16 % m # 1
    BY <1>7 DEF OddPrimes
  <2> QED
    BY <2>1, <2>2, PowersOfTwo
<1>8. ASSUME NEW m \in OddPrimes, m > 7 PROVE x # m * 7
  <2>1. x = m * 7 => Pow(2, 7 - 1) % m = 1
    BY <1>5
  <2>2. 64 % m # 1
    BY <1>8 DEF OddPrimes
  <2> QED
    BY <2>1, <2>2, PowersOfTwo
<1>9. ASSUME NEW m \in OddPrimes, m \in {5, 7} PROVE x # m * 15
  <2>1. x = m * 15 => Pow(2, 15 - 1) % m = 1
    BY <1>5
  <2>2. 16384 % m # 1
    BY <1>9
  <2> QED
    BY <2>1, <2>2, PowersOfTwo
<1>10. CASE x = 2 * i + 1 /\ i \in 2 .. 61
  <2>1. \/ x \in OddPrimes \cup {25, 49, 121}
        \/ \E j \in Nat : x = 18 * j + 9
        \/ \E m \in OddPrimes : \/ m > 3 /\ x = m * 3
                                \/ m > 5 /\ x = m * 5
                                \/ m > 7 /\ x = m * 7
                                \/ m \in {5, 7} /\ x = m * 15
    BY <1>10, OddCandidates
  <2> QED
    BY <2>1, <1>3, <1>4, <1>6, <1>7, <1>8, <1>9
<1> QED
  BY <1>1, <1>2, <1>10

\* The candidates of gen_prime: (gen() % 120) + 5.
CandidatesOfProgram == Candidate \subseteq 5 .. 124

\* Both factors have passed the test.
FactorsPassed == \A x \in {p, q} \ {0} : x \in Candidate /\ FermTest(x)

\* They have when drawn, and stay.
LEMMA FactorsPassedStep == FactorsPassed /\ [Configure]_rsa => FactorsPassed'
<1> SUFFICES ASSUME FactorsPassed, [Configure]_rsa
             PROVE  FactorsPassed'
  OBVIOUS
<1>1. CASE DrawP
  BY <1>1 DEF DrawP, FactorsPassed
<1>2. CASE DrawQ
  BY <1>2 DEF DrawQ, FactorsPassed
<1>3. CASE ~DrawP /\ ~DrawQ
  <2>1. UNCHANGED <<p, q>>
    BY <1>3 DEF Configure, DrawKey, EuclidStep, EuclidEnd, rsa, keys
  <2> QED
    BY <2>1 DEF FactorsPassed
<1> QED
  BY <1>1, <1>2, <1>3

\* Both factors are primes, because they passed the test.
LEMMA PassedArePrime ==
  ASSUME CandidatesOfProgram, FactorsPassed
  PROVE  FactorsArePrime
<1> SUFFICES ASSUME NEW x \in {p, q} \ {0}
             PROVE  x > 1 /\ \A k \in 2 .. x - 1 : x % k # 0
  BY DEF FactorsArePrime
<1>1. x \in 5 .. 124 /\ FermTest(x)
  BY DEF CandidatesOfProgram, FactorsPassed
<1>2. IsPrime(x)
  BY <1>1, TestIsExact, OddPrimesArePrime
<1>3. ASSUME NEW k \in 2 .. x - 1, x % k = 0
      PROVE  FALSE
  <2>1. k \in Nat /\ k > 0 /\ x \in Int
    BY <1>1
  <2>2. x = k * (x \div k) + (x % k) /\ x \div k \in Int
    BY <2>1, ResidueProperties
  <2>3. x = k * (x \div k)
    BY <1>1, <1>3, <2>1, <2>2
  <2>4. Divides(k, x)
    BY <2>2, <2>3 DEF Divides
  <2> QED
    BY <1>2, <2>4 DEF IsPrime
<1> QED
  BY <1>1, <1>3

\* The coder never works with a pseudoprime: base 2 is enough for the numbers
\* that gen_prime draws, of which not one of the composite ones passes the test.
THEOREM PrimesCorrect ==
  ASSUME CandidatesOfProgram
  PROVE  RsaSpec => []FactorsArePrime
<1>1. RsaInit => FactorsPassed
  BY DEF RsaInit, FactorsPassed
<1>2. FactorsPassed => FactorsArePrime
  BY PassedArePrime
<1> QED
  BY <1>1, <1>2, FactorsPassedStep, PTL DEF RsaSpec
=============================================================================
