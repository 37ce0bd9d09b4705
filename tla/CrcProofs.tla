------------------------------ MODULE CrcProofs ------------------------------
(***************************************************************************)
(* Proofs about Crc and the experiments of bmcs/lab5, for every generator  *)
(* whose first and last bits are set, all data and all lengths.            *)
(*                                                                         *)
(* The bits are seen as the set of positions that are 1. The division is   *)
(* linear: what is left of a sum is the sum of what is left. Data with its *)
(* CRC leaves nothing, so that of disturbed data only the error counts:    *)
(* one bit always leaves something, and two leave nothing exactly when     *)
(* their distance is a period of the powers of x.                          *)
(***************************************************************************)
EXTENDS CrcExperiment, Arithmetic, FiniteSetTheorems, SequenceTheorems

-----------------------------------------------------------------------------
(* The long division, on the sets of positions that are 1 *)

\* The bits of the generator G where its first one is at position k.
Under(G, k) == {k + j - 1 : j \in G}

\* What turn k of the outer loop makes of the bits.
Reduced(G, ones, k) == IF k \in ones THEN SymDiff(ones, Under(G, k)) ELSE ones

\* The bits after each turn of a division.
IsDivision(f, G, ones, turns) ==
  /\ f \in [0 .. turns -> SUBSET Int]
  /\ f[0] = ones
  /\ \A k \in 1 .. turns : f[k] = Reduced(G, f[k - 1], k)

\* A turn of the loop leaves a set of positions.
LEMMA ReducedType ==
  ASSUME NEW G \in SUBSET Int, NEW ones \in SUBSET Int, NEW k \in Int
  PROVE  Reduced(G, ones, k) \in SUBSET Int
<1>1. Under(G, k) \in SUBSET Int
  BY DEF Under
<1> QED
  BY <1>1 DEF Reduced, SymDiff

\* Every set of positions can be divided, for any number of turns.
LEMMA DivisionExists ==
  ASSUME NEW G \in SUBSET Int, NEW ones \in SUBSET Int, NEW turns \in Nat
  PROVE  \E f : IsDivision(f, G, ones, turns)
<1> DEFINE S == SUBSET Int
           h == [k \in 1 .. turns |-> [s \in S |-> Reduced(G, s, k)]]
<1>1. \A k \in 1 .. turns : \A s \in S : Reduced(G, s, k) \in S
  BY ReducedType
<1>2. ones \in S
  OBVIOUS
<1> HIDE DEF S
<1>3. h \in [1 .. turns -> [S -> S]]
  BY <1>1
<1>4. \A k \in 1 .. turns : \A s \in S : h[k][s] = Reduced(G, s, k)
  OBVIOUS
<1> HIDE DEF h
<1>5. PICK f : IsLoop(f, turns, S, ones, h)
  BY <1>2, <1>3, LoopExists
<1>6. \A k \in 1 .. turns : f[k - 1] \in S
  BY <1>5 DEF IsLoop
<1> QED
  BY <1>4, <1>5, <1>6 DEF IsDivision, IsLoop, S

\* The loop of the code is one.
LEMMA RemainderIsDivision ==
  ASSUME NEW data \in Seq(Bit), NEW generator \in Seq(Bit), NEW turns \in Nat
  PROVE  \E f : /\ IsDivision(f, Ones(generator), Ones(data), turns)
                /\ Remainder(data, generator, turns) = f[turns]
<1> DEFINE after[k \in 0 .. turns] ==
             IF k = 0 THEN Ones(data)
             ELSE LET ones == after[k-1]
                  IN  IF k \in ones THEN SymDiff(ones, {k + j - 1 : j \in Ones(generator)}) ELSE ones
           After(f) ==
             f = [k \in 0 .. turns |->
                    IF k = 0 THEN Ones(data)
                    ELSE IF k \in f[k - 1]
                         THEN SymDiff(f[k - 1], {k + j - 1 : j \in Ones(generator)}) ELSE f[k - 1]]
<1>1. Ones(data) \in SUBSET Int /\ Ones(generator) \in SUBSET Int
  BY LenProperties DEF Ones
<1>2. PICK f : IsDivision(f, Ones(generator), Ones(data), turns)
  BY <1>1, DivisionExists
<1>3. After(f)
  <2>1. f \in [0 .. turns -> SUBSET Int]
    BY <1>2 DEF IsDivision
  <2>2. \A k \in 0 .. turns : f[k] = IF k = 0 THEN Ones(data) ELSE Reduced(Ones(generator), f[k - 1], k)
    BY <1>2 DEF IsDivision
  <2>3. f = [k \in 0 .. turns |-> IF k = 0 THEN Ones(data) ELSE Reduced(Ones(generator), f[k - 1], k)]
    BY <2>1, <2>2
  <2> QED
    BY <2>3, Zenon DEF Reduced, Under
<1>4. After(after)
  BY <1>3, Zenon
<1> HIDE DEF after
<1>5. IsDivision(after, Ones(generator), Ones(data), turns)
  <2>1. \A k \in 1 .. turns : after[k] = Reduced(Ones(generator), after[k - 1], k)
    <3> SUFFICES ASSUME NEW k \in 1 .. turns
                 PROVE  after[k] = Reduced(Ones(generator), after[k - 1], k)
      OBVIOUS
    <3>1. k \in 0 .. turns /\ k # 0
      OBVIOUS
    <3>2. after[k] = IF k \in after[k - 1]
                     THEN SymDiff(after[k - 1], {k + j - 1 : j \in Ones(generator)})
                     ELSE after[k - 1]
      BY <1>4, <3>1
    <3> QED
      BY <3>2, Zenon DEF Reduced, Under
  <2>2. after[0] = Ones(data)
    BY <1>4
  <2>3. DOMAIN after = 0 .. turns /\ after = [k \in 0 .. turns |-> after[k]]
    BY <1>4
  <2> DEFINE T == {k \in 0 .. turns : after[k] \in SUBSET Int}
  <2>4. 0 \in T
    BY <1>1, <2>2
  <2>5. \A k \in 0 .. turns - 1 : k \in T => k + 1 \in T
    <3> SUFFICES ASSUME NEW k \in 0 .. turns - 1, k \in T PROVE k + 1 \in T
      OBVIOUS
    <3>1. k + 1 \in 1 .. turns /\ (k + 1) - 1 = k
      OBVIOUS
    <3>2. after[k + 1] = Reduced(Ones(generator), after[k], k + 1)
      BY <2>1, <3>1
    <3>3. after[k + 1] \in SUBSET Int
      BY <1>1, <3>2, ReducedType
    <3> QED
      BY <3>1, <3>3
  <2>6. 0 .. turns \subseteq T
    <3> HIDE DEF T
    <3> QED
      BY <2>4, <2>5, IntervalSet
  <2>7. after \in [0 .. turns -> SUBSET Int]
    BY <2>3, <2>6
  <2> QED
    BY <2>1, <2>2, <2>7 DEF IsDivision
<1>6. Remainder(data, generator, turns) = after[turns]
  BY DEF Remainder, after
<1> QED
  BY <1>5, <1>6

-----------------------------------------------------------------------------
(* What a division does to sums *)

\* Which positions a generator placed at k sets.
LEMMA UnderMember ==
  ASSUME NEW G \in SUBSET Int, NEW k \in Int, NEW j \in Int
  PROVE  j \in Under(G, k) <=> j - k + 1 \in G
<1>1. ASSUME j - k + 1 \in G PROVE j \in Under(G, k)
  <2>1. j = k + (j - k + 1) - 1
    OBVIOUS
  <2> QED
    BY <1>1, <2>1 DEF Under
<1>2. ASSUME j \in Under(G, k) PROVE j - k + 1 \in G
  <2>1. PICK m \in G : j = k + m - 1
    BY <1>2 DEF Under
  <2>2. j - k + 1 = m
    BY <2>1
  <2> QED
    BY <2>2
<1> QED
  BY <1>1, <1>2

\* The division of a sum is the sum of the divisions.
LEMMA DivisionOfSum ==
  ASSUME NEW G \in SUBSET Int, NEW s, NEW t, NEW turns \in Nat,
         NEW f, IsDivision(f, G, s, turns), NEW g, IsDivision(g, G, t, turns)
  PROVE  IsDivision([k \in 0 .. turns |-> SymDiff(f[k], g[k])], G, SymDiff(s, t), turns)
<1> DEFINE sum == [k \in 0 .. turns |-> SymDiff(f[k], g[k])]
<1>1. \A k \in 0 .. turns : f[k] \in SUBSET Int /\ g[k] \in SUBSET Int
  BY DEF IsDivision
<1>2. sum \in [0 .. turns -> SUBSET Int]
  BY <1>1 DEF SymDiff
<1>3. sum[0] = SymDiff(s, t)
  BY DEF IsDivision
<1>4. ASSUME NEW k \in 1 .. turns
      PROVE  sum[k] = Reduced(G, sum[k - 1], k)
  <2> DEFINE a == f[k - 1]
             b == g[k - 1]
             U == Under(G, k)
  <2>1. /\ f[k] = IF k \in a THEN SymDiff(a, U) ELSE a
        /\ g[k] = IF k \in b THEN SymDiff(b, U) ELSE b
    BY DEF IsDivision, Reduced
  <2>2. sum[k] = SymDiff(f[k], g[k]) /\ sum[k - 1] = SymDiff(a, b)
    OBVIOUS
  <2> HIDE DEF a, b, U, sum
  <2>3. SymDiff(f[k], g[k]) = IF k \in SymDiff(a, b) THEN SymDiff(SymDiff(a, b), U) ELSE SymDiff(a, b)
    BY <2>1 DEF SymDiff
  <2> QED
    BY <2>2, <2>3 DEF Reduced, U
<1> QED
  BY <1>2, <1>3, <1>4 DEF IsDivision

\* A division is determined by the bits it begins with, turn by turn.
LEMMA DivisionUnique ==
  ASSUME NEW G, NEW ones, NEW m \in Nat, NEW n \in Nat, m <= n,
         NEW f, IsDivision(f, G, ones, m), NEW g, IsDivision(g, G, ones, n)
  PROVE  \A k \in 0 .. m : f[k] = g[k]
<1> DEFINE T == {k \in 0 .. m : f[k] = g[k]}
<1>1. 0 \in T
  BY DEF IsDivision
<1>2. ASSUME NEW k \in 0 .. m - 1, k \in T PROVE k + 1 \in T
  <2>1. k + 1 \in 1 .. m /\ k + 1 \in 1 .. n /\ (k + 1) - 1 = k
    OBVIOUS
  <2>2. f[k + 1] = Reduced(G, f[k], k + 1) /\ g[k + 1] = Reduced(G, g[k], k + 1)
    BY <2>1 DEF IsDivision
  <2> QED
    BY <1>2, <2>1, <2>2
<1>3. 0 .. m \subseteq T
  <2>1. \A k \in 0 .. m - 1 : k \in T => k + 1 \in T
    BY <1>2
  <2> HIDE DEF T
  <2> QED
    BY <1>1, <2>1, IntervalSet
<1> QED
  BY <1>3

-----------------------------------------------------------------------------
(* What a division does to positions *)

\* Turn k clears position k, and no turn reaches beyond the generator.
LEMMA DivisionClears ==
  ASSUME NEW L \in Nat, NEW G \in SUBSET (1 .. L), 1 \in G,
         NEW turns \in Nat, NEW w \in Nat, turns + L - 1 <= w,
         NEW ones \in SUBSET (1 .. w), NEW f, IsDivision(f, G, ones, turns)
  PROVE  \A k \in 0 .. turns : f[k] \subseteq k + 1 .. w
<1> DEFINE T == {k \in 0 .. turns : f[k] \subseteq k + 1 .. w}
<1>1. 0 \in T
  BY DEF IsDivision
<1>2. ASSUME NEW k \in 0 .. turns - 1, k \in T PROVE k + 1 \in T
  <2>1. k + 1 \in 1 .. turns /\ (k + 1) - 1 = k
    OBVIOUS
  <2>2. f[k + 1] = Reduced(G, f[k], k + 1) /\ f[k] \subseteq k + 1 .. w
    BY <1>2, <2>1 DEF IsDivision
  <2>3. Under(G, k + 1) \subseteq k + 1 .. w
    BY DEF Under
  <2>4. k + 1 \in Under(G, k + 1)
    BY UnderMember
  <2>5. f[k + 1] \subseteq k + 2 .. w
    <3> DEFINE a == f[k]
               U == Under(G, k + 1)
    <3>1. f[k + 1] = IF k + 1 \in a THEN SymDiff(a, U) ELSE a
      BY <2>2 DEF Reduced
    <3>2. a \subseteq k + 1 .. w /\ U \subseteq k + 1 .. w /\ k + 1 \in U
      BY <2>2, <2>3, <2>4
    <3> HIDE DEF a, U
    <3>3. \A x \in f[k + 1] : x \in k + 1 .. w /\ x # k + 1
      BY <3>1, <3>2 DEF SymDiff
    <3> QED
      BY <3>3
  <2> QED
    BY <2>1, <2>5
<1>3. 0 .. turns \subseteq T
  <2>1. \A k \in 0 .. turns - 1 : k \in T => k + 1 \in T
    BY <1>2
  <2> HIDE DEF T
  <2> QED
    BY <1>1, <2>1, IntervalSet
<1> QED
  BY <1>3

\* No bit after m and up to n.
NoBit(ones, m, n) == \A k \in Int : m < k /\ k <= n => k \notin ones

\* Where no bit is set the division changes nothing.
LEMMA DivisionSkips ==
  ASSUME NEW G, NEW turns \in Nat, NEW m \in Nat, NEW n \in Nat, m <= n, n <= turns,
         NEW ones, NEW f, IsDivision(f, G, ones, turns),
         NoBit(f[m], m, n)
  PROVE  f[n] = f[m]
<1> DEFINE T == {j \in 0 .. n - m : f[m + j] = f[m]}
<1>1. 0 \in T
  OBVIOUS
<1>2. ASSUME NEW j \in 0 .. (n - m) - 1, j \in T PROVE j + 1 \in T
  <2>1. m + j + 1 \in 1 .. turns /\ m + j + 1 \in m + 1 .. n /\ (m + j + 1) - 1 = m + j
        /\ m + (j + 1) = m + j + 1
    OBVIOUS
  <2>2. f[m + j + 1] = Reduced(G, f[m + j], m + j + 1) /\ f[m + j] = f[m]
    BY <1>2, <2>1 DEF IsDivision
  <2>3. f[m + j + 1] = f[m]
    BY <2>1, <2>2 DEF Reduced, NoBit
  <2> QED
    BY <2>1, <2>3
<1>3. n - m \in T
  <2>1. \A j \in 0 .. (n - m) - 1 : j \in T => j + 1 \in T
    BY <1>2
  <2> HIDE DEF T
  <2>2. 0 .. (n - m) \subseteq T
    BY <1>1, <2>1, IntervalSet
  <2> QED
    BY <2>2
<1>4. m + (n - m) = n
  OBVIOUS
<1> QED
  BY <1>3, <1>4

\* One bit, once divided, is never all gone: each addition reaches further than
\* what was there.
LEMMA OneBitRemains ==
  ASSUME NEW L \in Nat, L > 1, NEW G \in SUBSET (1 .. L), L \in G,
         NEW turns \in Nat, NEW p \in 1 .. turns, NEW f, IsDivision(f, G, {p}, turns)
  PROVE  f[turns] # {}
<1> DEFINE Reaches(k) == \/ f[k] = {p}
                         \/ \E x \in f[k] : x <= k + L - 1 /\ \A y \in f[k] : y <= x
           T == {k \in 0 .. turns : Reaches(k)}
<1>1. 0 \in T
  BY DEF IsDivision
<1>2. ASSUME NEW k \in 0 .. turns - 1, k \in T PROVE k + 1 \in T
  <2>1. k + 1 \in 1 .. turns /\ (k + 1) - 1 = k
    OBVIOUS
  <2>2. f[k + 1] = Reduced(G, f[k], k + 1) /\ f[k] \in SUBSET Int
    BY <2>1 DEF IsDivision
  <2>3. Reaches(k)
    BY <1>2
  <2>4. CASE k + 1 \notin f[k]
    <3>1. f[k + 1] = f[k]
      BY <2>2, <2>4 DEF Reduced
    <3>2. Reaches(k + 1)
      BY <2>2, <2>3, <3>1
    <3> QED
      BY <2>1, <3>2
  <2>5. CASE k + 1 \in f[k]
    <3> DEFINE z == k + L
    <3>1. z \in Under(G, k + 1) /\ \A y \in Under(G, k + 1) : y <= z
      <4>1. \A y \in Under(G, k + 1) : y <= z
        BY DEF Under
      <4>2. z \in Under(G, k + 1)
        BY UnderMember
      <4> QED
        BY <4>1, <4>2
    <3>2. \A y \in f[k] : y < z
      BY <2>2, <2>3, <2>5
    <3>3. f[k + 1] = SymDiff(f[k], Under(G, k + 1))
      BY <2>2, <2>5 DEF Reduced
    <3>4. z \in f[k + 1] /\ \A y \in f[k + 1] : y <= z
      BY <2>2, <3>1, <3>2, <3>3 DEF SymDiff
    <3>5. Reaches(k + 1)
      BY <3>4
    <3> QED
      BY <2>1, <3>5
  <2> QED
    BY <2>4, <2>5
<1>3. turns \in T
  <2>1. \A k \in 0 .. turns - 1 : k \in T => k + 1 \in T
    BY <1>2
  <2> HIDE DEF T
  <2>2. 0 .. turns \subseteq T
    BY <1>1, <2>1, IntervalSet
  <2> QED
    BY <2>2
<1> QED
  BY <1>3

-----------------------------------------------------------------------------
(* Bit strings *)

\* Where the bits are.
LEMMA OnesType ==
  ASSUME NEW bits \in Seq(Bit)
  PROVE  Len(bits) \in Nat /\ Ones(bits) \in SUBSET (1 .. Len(bits)) /\ Ones(bits) \in SUBSET Int
<1>1. Len(bits) \in Nat /\ DOMAIN bits = 1 .. Len(bits)
  BY LenProperties
<1> QED
  BY <1>1 DEF Ones

\* The first and the last bit of a generator are set.
LEMMA GeneratorOnes ==
  ASSUME NEW generator, IsGenerator(generator)
  PROVE  /\ generator \in Seq(Bit) /\ Len(generator) \in Nat /\ Len(generator) > 1
         /\ Ones(generator) \in SUBSET (1 .. Len(generator))
         /\ Ones(generator) \in SUBSET Int
         /\ 1 \in Ones(generator) /\ Len(generator) \in Ones(generator)
<1>1. /\ generator \in Seq(Bit) /\ Len(generator) > 1
      /\ generator[1] = 1 /\ generator[Len(generator)] = 1
  BY DEF IsGenerator, Last
<1>2. Len(generator) \in Nat /\ DOMAIN generator = 1 .. Len(generator)
  BY <1>1, LenProperties
<1> QED
  BY <1>1, <1>2, OnesType DEF Ones

\* The remainder lies in the padding.
LEMMA RemainderBehind ==
  ASSUME NEW data \in Seq(Bit), NEW generator, IsGenerator(generator)
  PROVE  Remainder(data, generator, Len(data)) \subseteq Len(data) + 1 .. Len(data) + Len(generator) - 1
<1> DEFINE n == Len(data)
           L == Len(generator)
           G == Ones(generator)
<1>1. n \in Nat /\ Ones(data) \in SUBSET (1 .. n)
  BY OnesType
<1>2. L \in Nat /\ L > 1 /\ G \in SUBSET (1 .. L) /\ 1 \in G /\ generator \in Seq(Bit)
  BY GeneratorOnes
<1>3. PICK f : IsDivision(f, G, Ones(data), n) /\ Remainder(data, generator, n) = f[n]
  BY <1>1, <1>2, RemainderIsDivision
<1> DEFINE w == n + L - 1
           ones == Ones(data)
<1>4. w \in Nat /\ ones \in SUBSET (1 .. w) /\ n \in 0 .. n /\ n + L - 1 <= w
  BY <1>1, <1>2
<1> HIDE DEF n, L, G, w, ones
<1>5. \A k \in 0 .. n : f[k] \subseteq k + 1 .. w
  BY <1>1, <1>2, <1>3, <1>4, DivisionClears DEF ones
<1> QED
  BY <1>3, <1>4, <1>5 DEF n, L, w

\* The CRC is the remainder, as bits.
LEMMA CrcBits ==
  ASSUME NEW data \in Seq(Bit), NEW generator, IsGenerator(generator)
  PROVE  /\ CalculateCrc(data, generator) \in Seq(Bit)
         /\ Len(CalculateCrc(data, generator)) = Len(generator) - 1
         /\ \A k \in 1 .. Len(generator) - 1 :
              CalculateCrc(data, generator)[k] = 1
              <=> Len(data) + k \in Remainder(data, generator, Len(data))
<1> DEFINE c == Len(generator) - 1
           R == Remainder(data, generator, Len(data))
           crc == [k \in 1 .. c |-> IF Len(data) + k \in R THEN 1 ELSE 0]
<1>1. c \in Nat
  BY GeneratorOnes
<1>2. CalculateCrc(data, generator) = crc
  BY DEF CalculateCrc, CrcOf
<1>3. crc \in [1 .. c -> Bit]
  BY DEF Bit
<1>4. \A k \in 1 .. c : crc[k] = 1 <=> Len(data) + k \in R
  OBVIOUS
<1> HIDE DEF crc, R
<1>5. crc \in Seq(Bit) /\ Len(crc) = c
  <2> HIDE DEF c
  <2> QED
    BY <1>1, <1>3, SeqDef
<1> QED
  BY <1>2, <1>4, <1>5 DEF R

\* check_for_errors looks at the whole remainder.
LEMMA NoErrorsMeans ==
  ASSUME NEW word \in Seq(Bit), NEW generator, IsGenerator(generator)
  PROVE  NoErrors(word, generator) <=> Remainder(word, generator, Len(word)) = {}
<1> DEFINE n == Len(word)
           c == Len(generator) - 1
           crc == CalculateCrc(word, generator)
           R == Remainder(word, generator, n)
<1>1. n \in Nat /\ c \in Nat /\ R \subseteq n + 1 .. n + Len(generator) - 1 /\ Len(generator) \in Nat
  BY OnesType, GeneratorOnes, RemainderBehind
<1>2. DOMAIN crc = 1 .. c /\ \A k \in 1 .. c : crc[k] = 1 <=> n + k \in R
  BY CrcBits, LenProperties
<1> HIDE DEF n, c, crc, R
<1>3. \A x \in R : x - n \in 1 .. c /\ n + (x - n) = x
  BY <1>1 DEF c
<1>4. (\E k \in 1 .. c : crc[k] = 1) <=> R # {}
  BY <1>2, <1>3
<1> QED
  BY <1>2, <1>4 DEF NoErrors, Ones, crc, R, n

\* The bits of data with its CRC: the remainder has been added.
LEMMA WithCrcOnes ==
  ASSUME NEW data \in Seq(Bit), NEW generator, IsGenerator(generator)
  PROVE  /\ WithCrc(data, generator) \in Seq(Bit)
         /\ Len(WithCrc(data, generator)) = Len(data) + (Len(generator) - 1)
         /\ Ones(WithCrc(data, generator)) =
              SymDiff(Ones(data), Remainder(data, generator, Len(data)))
<1> DEFINE n == Len(data)
           c == Len(generator) - 1
           crc == CalculateCrc(data, generator)
           R == Remainder(data, generator, n)
           word == data \o crc
<1>1. n \in Nat /\ c \in Nat /\ Len(generator) \in Nat
      /\ R \subseteq n + 1 .. n + Len(generator) - 1
  BY OnesType, GeneratorOnes, RemainderBehind
<1>2. crc \in Seq(Bit) /\ Len(crc) = c /\ \A k \in 1 .. c : crc[k] = 1 <=> n + k \in R
  BY CrcBits
<1>3. data \in Seq(Bit) /\ DOMAIN data = 1 .. n /\ Len(data) = n
  BY LenProperties
<1> HIDE DEF n, c, crc, R
<1>4. /\ word \in Seq(Bit) /\ Len(word) = n + c
      /\ \A k \in 1 .. n + c : word[k] = IF k <= n THEN data[k] ELSE crc[k - n]
  BY <1>2, <1>3, ConcatProperties
<1>5. DOMAIN word = 1 .. n + c
  BY <1>4, LenProperties
<1> HIDE DEF word
<1>6. ASSUME NEW k \in Int
      PROVE  k \in Ones(word) <=> k \in SymDiff(Ones(data), R)
  <2>1. CASE k \in 1 .. n
    <3>1. k \in 1 .. n + c /\ word[k] = data[k] /\ k \notin R
      BY <1>1, <1>4, <2>1
    <3> QED
      BY <1>3, <1>5, <2>1, <3>1 DEF Ones, SymDiff
  <2>2. CASE k \in n + 1 .. n + c
    <3>1. k - n \in 1 .. c /\ n + (k - n) = k /\ k \in 1 .. n + c /\ ~(k <= n)
      BY <1>1, <2>2
    <3>2. word[k] = 1 <=> k \in R
      BY <1>2, <1>4, <3>1
    <3> QED
      BY <1>3, <1>5, <3>1, <3>2 DEF Ones, SymDiff
  <2>3. CASE k \notin 1 .. n + c
    <3>1. k \notin 1 .. n /\ k \notin R
      BY <1>1, <2>3 DEF c
    <3> QED
      BY <1>3, <1>5, <2>3, <3>1 DEF Ones, SymDiff
  <2> QED
    BY <1>1, <2>1, <2>2, <2>3
<1>7. Ones(word) \in SUBSET Int /\ SymDiff(Ones(data), R) \in SUBSET Int
  <2>1. Ones(word) \in SUBSET Int /\ Ones(data) \in SUBSET Int
    BY <1>4, OnesType
  <2>2. R \in SUBSET Int
    BY <1>1
  <2> QED
    BY <2>1, <2>2 DEF SymDiff
<1>8. Ones(word) = SymDiff(Ones(data), R)
  BY <1>6, <1>7
<1> QED
  BY <1>4, <1>8 DEF WithCrc, word, crc, R, n, c

\* The long division of data with its CRC leaves nothing.
LEMMA CodewordDivides ==
  ASSUME NEW data \in Seq(Bit), NEW generator, IsGenerator(generator),
         NEW word, word = WithCrc(data, generator)
  PROVE  \E f : IsDivision(f, Ones(generator), Ones(word), Len(word)) /\ f[Len(word)] = {}
<1> DEFINE n == Len(data)
           w == Len(word)
           G == Ones(generator)
           R == Remainder(data, generator, n)
<1>1. n \in Nat /\ Ones(data) \in SUBSET Int
  BY OnesType
<1>2. G \in SUBSET Int /\ generator \in Seq(Bit) /\ Len(generator) \in Nat /\ Len(generator) > 1
  BY GeneratorOnes
<1>3. /\ w = n + (Len(generator) - 1) /\ Ones(word) = SymDiff(Ones(data), R)
      /\ R \subseteq n + 1 .. n + Len(generator) - 1
  BY WithCrcOnes, RemainderBehind
<1>4. R \in SUBSET Int /\ w \in Nat /\ n <= w
  BY <1>1, <1>2, <1>3
<1>5. PICK d : IsDivision(d, G, Ones(data), n) /\ R = d[n]
  BY <1>1, <1>2, RemainderIsDivision
<1> HIDE DEF n, w, G, R
<1>6. PICK f : IsDivision(f, G, Ones(data), w)
  BY <1>1, <1>2, <1>4, DivisionExists
<1>7. PICK g : IsDivision(g, G, R, w)
  BY <1>2, <1>4, DivisionExists
<1>8. f[n] = R
  <2>1. \A k \in 0 .. n : d[k] = f[k]
    BY <1>1, <1>4, <1>5, <1>6, DivisionUnique
  <2> QED
    BY <1>1, <1>5, <2>1
<1>9. g[n] = R
  <2> DEFINE zero == 0
  <2>1. R = g[zero]
    BY <1>7 DEF IsDivision
  <2>2. NoBit(g[zero], zero, n)
    BY <1>1, <1>3, <2>1 DEF NoBit
  <2>3. zero \in Nat /\ zero <= n
    BY <1>1
  <2> HIDE DEF zero
  <2>4. n \in Nat /\ w \in Nat /\ n <= w
    BY <1>1, <1>4
  <2>5. g[n] = g[zero]
    BY <1>7, <2>2, <2>3, <2>4, DivisionSkips
  <2> QED
    BY <2>1, <2>5
<1> DEFINE sum == [k \in 0 .. w |-> SymDiff(f[k], g[k])]
<1>10. IsDivision(sum, G, Ones(word), w)
  BY <1>2, <1>3, <1>4, <1>6, <1>7, DivisionOfSum
<1>11. sum[n] = {}
  BY <1>1, <1>4, <1>8, <1>9 DEF SymDiff
<1>12. sum[w] = {}
  <2> HIDE DEF sum
  <2>1. NoBit(sum[n], n, w)
    BY <1>11 DEF NoBit
  <2>2. sum[w] = sum[n]
    BY <1>1, <1>4, <1>10, <2>1, DivisionSkips
  <2> QED
    BY <1>11, <2>2
<1> QED
  BY <1>10, <1>12 DEF w, G

\* Flipping bits adds them.
LEMMA FlippedOnes ==
  ASSUME NEW word \in Seq(Bit), NEW P \in SUBSET (1 .. Len(word))
  PROVE  /\ Flip(word, P) \in Seq(Bit) /\ Len(Flip(word, P)) = Len(word)
         /\ Ones(Flip(word, P)) = SymDiff(Ones(word), P)
<1> DEFINE w == Len(word)
           flipped == [k \in 1 .. w |-> IF k \in P THEN 1 - word[k] ELSE word[k]]
<1>1. w \in Nat /\ DOMAIN word = 1 .. w /\ \A k \in 1 .. w : word[k] \in {0, 1}
  BY LenProperties, ElementOfSeq DEF Bit
<1>2. Flip(word, P) = flipped
  BY <1>1 DEF Flip
<1>3. \A k \in 1 .. w : flipped[k] \in {0, 1} /\ (flipped[k] = 1 <=> k \in SymDiff(Ones(word), P))
  BY <1>1 DEF Ones, SymDiff
<1>4. flipped \in Seq(Bit) /\ Len(flipped) = w /\ DOMAIN flipped = 1 .. w
  <2>1. flipped \in [1 .. w -> Bit]
    BY <1>3 DEF Bit
  <2> QED
    BY <1>1, <2>1, SeqDef
<1>5. SymDiff(Ones(word), P) \subseteq 1 .. w
  BY <1>1 DEF Ones, SymDiff
<1> HIDE DEF flipped
<1>6. Ones(flipped) = SymDiff(Ones(word), P)
  BY <1>3, <1>4, <1>5 DEF Ones
<1> QED
  BY <1>2, <1>4, <1>6

\* Whether an error is found depends on the error alone, not on the data.
LEMMA ErrorDecides ==
  ASSUME NEW data \in Seq(Bit), NEW generator, IsGenerator(generator),
         NEW word, word = WithCrc(data, generator),
         NEW P \in SUBSET (1 .. Len(word)),
         NEW g, IsDivision(g, Ones(generator), P, Len(word))
  PROVE  NoErrors(Flip(word, P), generator) <=> g[Len(word)] = {}
<1> DEFINE w == Len(word)
           G == Ones(generator)
           flipped == Flip(word, P)
<1>1. word \in Seq(Bit) /\ w \in Nat
  BY WithCrcOnes, OnesType
<1>2. flipped \in Seq(Bit) /\ Len(flipped) = w /\ Ones(flipped) = SymDiff(Ones(word), P)
  BY <1>1, FlippedOnes
<1>3. G \in SUBSET Int /\ generator \in Seq(Bit)
  BY GeneratorOnes
<1>4. PICK f : IsDivision(f, G, Ones(word), w) /\ f[w] = {}
  BY CodewordDivides
<1>5. NoErrors(flipped, generator) <=> Remainder(flipped, generator, w) = {}
  BY <1>2, NoErrorsMeans
<1>6. PICK h : IsDivision(h, G, Ones(flipped), w) /\ Remainder(flipped, generator, w) = h[w]
  BY <1>1, <1>2, <1>3, RemainderIsDivision
<1> DEFINE sum == [k \in 0 .. w |-> SymDiff(f[k], g[k])]
<1> HIDE DEF w, G, flipped
<1>7. IsDivision(sum, G, Ones(flipped), w)
  BY <1>1, <1>2, <1>3, <1>4, DivisionOfSum DEF w, G
<1>8. h[w] = sum[w]
  <2> HIDE DEF sum
  <2>1. \A k \in 0 .. w : h[k] = sum[k]
    BY <1>1, <1>6, <1>7, DivisionUnique
  <2> QED
    BY <1>1, <2>1
<1>9. sum[w] = g[w]
  BY <1>1, <1>4 DEF SymDiff
<1> QED
  BY <1>5, <1>6, <1>8, <1>9 DEF w, flipped

\* No single error escapes.
LEMMA SingleIsDetected ==
  ASSUME NEW data \in Seq(Bit), NEW generator, IsGenerator(generator),
         NEW word, word = WithCrc(data, generator), NEW position \in 1 .. Len(word)
  PROVE  ~NoErrors(Flip(word, {position}), generator)
<1> DEFINE w == Len(word)
           G == Ones(generator)
           L == Len(generator)
<1>1. w \in Nat /\ word \in Seq(Bit)
  BY WithCrcOnes, OnesType
<1>2. L \in Nat /\ L > 1 /\ G \in SUBSET (1 .. L) /\ G \in SUBSET Int /\ L \in G
  BY GeneratorOnes
<1>3. {position} \in SUBSET Int /\ {position} \in SUBSET (1 .. w) /\ position \in 1 .. w
  BY <1>1
<1> HIDE DEF w, G, L
<1>4. PICK g : IsDivision(g, G, {position}, w)
  BY <1>1, <1>2, <1>3, DivisionExists
<1>5. g[w] # {}
  BY <1>1, <1>2, <1>3, <1>4, OneBitRemains
<1> QED
  BY <1>3, <1>4, <1>5, ErrorDecides DEF w, G

-----------------------------------------------------------------------------
(* One place to the left *)

\* The positions moved by one to the left.
Left(ones) == {q - 1 : q \in ones}

\* Which positions that are.
LEMMA LeftMember ==
  ASSUME NEW ones \in SUBSET Int, NEW j \in Int
  PROVE  j \in Left(ones) <=> j + 1 \in ones
<1>1. ASSUME j + 1 \in ones PROVE j \in Left(ones)
  <2>1. j = (j + 1) - 1
    OBVIOUS
  <2> QED
    BY <1>1, <2>1 DEF Left
<1>2. ASSUME j \in Left(ones) PROVE j + 1 \in ones
  <2>1. PICK q \in ones : j = q - 1
    BY <1>2 DEF Left
  <2>2. q = j + 1
    BY <2>1
  <2> QED
    BY <2>2
<1> QED
  BY <1>1, <1>2

\* A turn and a step to the left may be exchanged.
LEMMA LeftReduced ==
  ASSUME NEW G \in SUBSET Int, NEW ones \in SUBSET Int, NEW k \in Int
  PROVE  Left(Reduced(G, ones, k + 1)) = Reduced(G, Left(ones), k)
<1> DEFINE U == Under(G, k + 1)
           V == Under(G, k)
<1>1. U \in SUBSET Int /\ V \in SUBSET Int /\ Left(ones) \in SUBSET Int
  BY DEF Under, Left
<1>2. ASSUME NEW j \in Int PROVE j + 1 \in U <=> j \in V
  <2>1. (j + 1) - (k + 1) + 1 = j - k + 1 /\ j + 1 \in Int /\ k + 1 \in Int
    OBVIOUS
  <2> QED
    BY <2>1, UnderMember
<1>3. k \in Left(ones) <=> k + 1 \in ones
  BY LeftMember
<1>4. CASE k + 1 \notin ones
  BY <1>3, <1>4 DEF Reduced
<1>5. CASE k + 1 \in ones
  <2>1. Reduced(G, ones, k + 1) = SymDiff(ones, U) /\ Reduced(G, Left(ones), k) = SymDiff(Left(ones), V)
    BY <1>3, <1>5 DEF Reduced
  <2> HIDE DEF U, V
  <2>2. SymDiff(ones, U) \in SUBSET Int /\ SymDiff(Left(ones), V) \in SUBSET Int
    BY <1>1 DEF SymDiff
  <2>3. ASSUME NEW j \in Int
        PROVE  j \in Left(SymDiff(ones, U)) <=> j \in SymDiff(Left(ones), V)
    <3>1. j \in Left(SymDiff(ones, U)) <=> j + 1 \in SymDiff(ones, U)
      BY <2>2, LeftMember
    <3>2. j \in Left(ones) <=> j + 1 \in ones
      BY LeftMember
    <3> QED
      BY <1>2, <3>1, <3>2 DEF SymDiff
  <2>4. Left(SymDiff(ones, U)) \in SUBSET Int
    BY <2>2 DEF Left
  <2> QED
    BY <2>1, <2>2, <2>3, <2>4
<1> QED
  BY <1>4, <1>5

\* What is left of bits one place to the left is one more turn on what is left
\* of them.
LEMMA DivisionOfLeft ==
  ASSUME NEW G \in SUBSET Int, NEW w \in Nat, w > 0, NEW ones \in SUBSET Int, 1 \notin ones,
         NEW f, IsDivision(f, G, ones, w), NEW g, IsDivision(g, G, Left(ones), w)
  PROVE  g[w] = Reduced(G, Left(f[w]), w)
<1> DEFINE T == {k \in 0 .. w - 1 : g[k] = Left(f[k + 1])}
<1>1. \A k \in 0 .. w : f[k] \in SUBSET Int
  BY DEF IsDivision
<1>2. 0 \in T
  <2>1. f[0] = ones /\ f[1] = Reduced(G, f[0], 1) /\ g[0] = Left(ones)
    BY DEF IsDivision
  <2>2. f[1] = ones
    BY <2>1 DEF Reduced
  <2> QED
    BY <2>1, <2>2
<1>3. ASSUME NEW k \in 0 .. (w - 1) - 1, k \in T PROVE k + 1 \in T
  <2>1. /\ k + 1 \in 1 .. w /\ (k + 1) - 1 = k /\ (k + 1) + 1 \in 1 .. w
        /\ ((k + 1) + 1) - 1 = k + 1 /\ k + 1 \in 0 .. w - 1
    OBVIOUS
  <2>2. g[k + 1] = Reduced(G, g[k], k + 1) /\ f[(k + 1) + 1] = Reduced(G, f[k + 1], (k + 1) + 1)
    BY <2>1 DEF IsDivision
  <2>3. f[k + 1] \in SUBSET Int /\ g[k] = Left(f[k + 1])
    BY <1>1, <1>3
  <2>4. Left(Reduced(G, f[k + 1], (k + 1) + 1)) = Reduced(G, Left(f[k + 1]), k + 1)
    BY <2>1, <2>3, LeftReduced
  <2> QED
    BY <2>1, <2>2, <2>3, <2>4
<1>4. w - 1 \in T
  <2>1. \A k \in 0 .. (w - 1) - 1 : k \in T => k + 1 \in T
    BY <1>3
  <2> HIDE DEF T
  <2>2. w - 1 \in Nat
    OBVIOUS
  <2>3. 0 .. (w - 1) \subseteq T
    BY <1>2, <2>1, <2>2, IntervalSet
  <2> QED
    BY <2>2, <2>3
<1>5. g[w] = Reduced(G, g[w - 1], w) /\ (w - 1) + 1 = w
  BY DEF IsDivision
<1> QED
  BY <1>4, <1>5

-----------------------------------------------------------------------------
(* Powers of x *)

\* What the generator's bits stand for.
Exponents(generator) == {(Len(generator) - 1) - (k - 1) : k \in Ones(generator)}

\* x times a reduced polynomial, reduced.
TimesX(generator, exponents) ==
  LET shifted == {e + 1 : e \in exponents}
  IN  IF Len(generator) - 1 \in shifted THEN SymDiff(shifted, Exponents(generator)) ELSE shifted

\* x^0
One == {0}

\* The powers of x up to d.
IsPowers(f, generator, d) ==
  /\ f \in [0 .. d -> SUBSET Nat]
  /\ f[0] = One
  /\ \A k \in 1 .. d : f[k] = TimesX(generator, f[k - 1])

\* The generator's exponents include 0: its last bit is set.
LEMMA ExponentsType ==
  ASSUME NEW generator, IsGenerator(generator)
  PROVE  Exponents(generator) \in SUBSET Nat /\ 0 \in Exponents(generator)
<1>1. /\ Len(generator) \in Nat /\ Ones(generator) \in SUBSET (1 .. Len(generator))
      /\ Len(generator) \in Ones(generator)
  BY GeneratorOnes
<1>2. (Len(generator) - 1) - (Len(generator) - 1) = 0
  BY <1>1
<1> HIDE DEF Ones
<1> QED
  BY <1>1, <1>2 DEF Exponents

\* Multiplying by x yields natural exponents.
LEMMA TimesXType ==
  ASSUME NEW generator, IsGenerator(generator), NEW s \in SUBSET Nat
  PROVE  TimesX(generator, s) \in SUBSET Nat
<1>1. Exponents(generator) \in SUBSET Nat
  BY ExponentsType
<1>2. {e + 1 : e \in s} \in SUBSET Nat
  OBVIOUS
<1> QED
  BY <1>1, <1>2 DEF TimesX, SymDiff

\* No two polynomials become the same: only the generator sets the bit at 0.
LEMMA TimesXInjective ==
  ASSUME NEW generator, IsGenerator(generator), NEW s \in SUBSET Nat, NEW t \in SUBSET Nat,
         TimesX(generator, s) = TimesX(generator, t)
  PROVE  s = t
<1> DEFINE E == Exponents(generator)
           S == {e + 1 : e \in s}
           T == {e + 1 : e \in t}
<1>1. E \in SUBSET Nat /\ 0 \in E
  BY ExponentsType
<1>2. S \in SUBSET Nat /\ T \in SUBSET Nat /\ 0 \notin S /\ 0 \notin T
  OBVIOUS
<1>3. \A e \in Nat : (e \in s <=> e + 1 \in S) /\ (e \in t <=> e + 1 \in T)
  OBVIOUS
<1>4. /\ \/ TimesX(generator, s) = S
         \/ TimesX(generator, s) = SymDiff(S, E)
      /\ \/ TimesX(generator, t) = T
         \/ TimesX(generator, t) = SymDiff(T, E)
  BY DEF TimesX
<1> HIDE DEF E, S, T
<1>5. S = T
  <2>1. 0 \in SymDiff(S, E) /\ 0 \in SymDiff(T, E)
    BY <1>1, <1>2 DEF SymDiff
  <2>2. S = T \/ SymDiff(S, E) = SymDiff(T, E)
    BY <1>2, <1>4, <2>1
  <2> QED
    BY <2>2 DEF SymDiff
<1> QED
  BY <1>3, <1>5

-----------------------------------------------------------------------------
(* What is left of one bit is a power of x *)

\* Positions as exponents, counted from the last position of the padding.
Exp(top, ones) == {top - q : q \in ones}

\* Which exponents the positions stand for, the last position for 0 when top is
\* that position.
LEMMA ExpMember ==
  ASSUME NEW top \in Int, NEW ones \in SUBSET Int, NEW e \in Int
  PROVE  e \in Exp(top, ones) <=> top - e \in ones
<1>1. ASSUME top - e \in ones PROVE e \in Exp(top, ones)
  <2>1. e = top - (top - e)
    OBVIOUS
  <2> QED
    BY <1>1, <2>1 DEF Exp
<1>2. ASSUME e \in Exp(top, ones) PROVE top - e \in ones
  <2>1. PICK q \in ones : e = top - q
    BY <1>2 DEF Exp
  <2>2. q = top - e
    BY <2>1
  <2> QED
    BY <2>2
<1> QED
  BY <1>1, <1>2

\* Different positions stand for different exponents.
LEMMA ExpInjective ==
  ASSUME NEW top \in Int, NEW s \in SUBSET Int, NEW t \in SUBSET Int, Exp(top, s) = Exp(top, t)
  PROVE  s = t
<1>1. ASSUME NEW q \in Int PROVE q \in s <=> q \in t
  <2>1. top - q \in Int /\ top - (top - q) = q
    OBVIOUS
  <2>2. (top - q \in Exp(top, s) <=> q \in s) /\ (top - q \in Exp(top, t) <=> q \in t)
    BY <2>1, ExpMember
  <2> QED
    BY <2>2
<1> QED
  BY <1>1

\* Turn w on bits one place to the left is multiplication by x.
LEMMA ExpReduced ==
  ASSUME NEW generator, IsGenerator(generator), NEW w \in Nat, NEW top,
         top = w + (Len(generator) - 1), NEW ones \in SUBSET Int
  PROVE  Exp(top, Reduced(Ones(generator), Left(ones), w)) = TimesX(generator, Exp(top, ones))
<1> DEFINE G == Ones(generator)
           D == Len(generator) - 1
           U == Under(G, w)
           l == Left(ones)
           E == Exponents(generator)
           shifted == {e + 1 : e \in Exp(top, ones)}
<1>1. D \in Nat /\ Len(generator) \in Nat /\ G \in SUBSET Int
  BY GeneratorOnes
<1>2. top \in Int /\ top = w + D
  BY <1>1
<1>3. E \in SUBSET Int
  BY ExponentsType
<1>4. U \in SUBSET Int /\ l \in SUBSET Int /\ Exp(top, ones) \in SUBSET Int
  BY <1>1, <1>2 DEF Under, Left, Exp
<1>5. ASSUME NEW e \in Int PROVE e \in shifted <=> e - 1 \in Exp(top, ones)
  <2>1. e = (e - 1) + 1
    OBVIOUS
  <2>2. \A y \in Exp(top, ones) : y + 1 = e => y = e - 1
    BY <1>4
  <2> HIDE DEF D
  <2> QED
    BY <2>1, <2>2
<1>6. ASSUME NEW e \in Int PROVE e \in E <=> top - e \in U
  <2>1. top - e \in U <=> (top - e) - w + 1 \in G
    BY <1>1, <1>2, UnderMember
  <2>2. (top - e) - w + 1 = D - e + 1
    BY <1>1, <1>2
  <2>3. e \in E <=> D - e + 1 \in G
    <3>1. E = {D - (k - 1) : k \in G}
      BY DEF Exponents
    <3>2. ASSUME e \in E PROVE D - e + 1 \in G
      <4>1. PICK k \in G : e = D - (k - 1)
        BY <3>1, <3>2
      <4>2. k = D - e + 1
        BY <1>1, <4>1
      <4> QED
        BY <4>2
    <3>3. ASSUME D - e + 1 \in G PROVE e \in E
      <4>1. e = D - ((D - e + 1) - 1)
        BY <1>1
      <4> QED
        BY <3>1, <3>3, <4>1
    <3> QED
      BY <3>2, <3>3
  <2> QED
    BY <2>1, <2>2, <2>3
<1>7. ASSUME NEW e \in Int PROVE e \in shifted <=> top - e \in l
  <2>1. e - 1 \in Exp(top, ones) <=> top - (e - 1) \in ones
    BY <1>2, ExpMember
  <2>2. top - e \in l <=> (top - e) + 1 \in ones
    BY <1>2, LeftMember
  <2>3. top - (e - 1) = (top - e) + 1
    BY <1>2
  <2> QED
    BY <1>5, <2>1, <2>2, <2>3
<1>8. D \in shifted <=> w \in l
  <2>1. D \in Int /\ top - D = w
    BY <1>1, <1>2
  <2> QED
    BY <1>7, <2>1
<1>9. TimesX(generator, Exp(top, ones)) = IF D \in shifted THEN SymDiff(shifted, E) ELSE shifted
  BY DEF TimesX
<1>10. Reduced(G, l, w) = IF w \in l THEN SymDiff(l, U) ELSE l
  BY DEF Reduced
<1>11. shifted \in SUBSET Int
  BY <1>4
<1> DEFINE A == TimesX(generator, Exp(top, ones))
           B == Reduced(G, l, w)
<1> HIDE DEF G, D, U, l, E, shifted
<1>12. A \in SUBSET Int /\ B \in SUBSET Int
  BY <1>3, <1>4, <1>9, <1>10, <1>11 DEF SymDiff
<1>13. ASSUME NEW e \in Int PROVE e \in A <=> top - e \in B
  BY <1>6, <1>7, <1>8, <1>9, <1>10 DEF SymDiff
<1> HIDE DEF A, B
<1>14. ASSUME NEW e \in Int PROVE e \in A <=> e \in Exp(top, B)
  BY <1>2, <1>12, <1>13, ExpMember
<1>15. Exp(top, B) \in SUBSET Int
  BY <1>2, <1>12 DEF Exp
<1>16. Exp(top, B) = A
  BY <1>12, <1>14, <1>15
<1> QED
  BY <1>16 DEF A, B, G, l

\* What a division of the bit at top - e leaves are the exponents of x^e.
LeavesPower(generator, w, top, pw, e) ==
  \A f : IsDivision(f, Ones(generator), {top - e}, w) => Exp(top, f[w]) = pw[e]

\* The division of a single bit leaves the power of x for its place: by induction
\* over the place, from the right.
LEMMA ResidueIsPower ==
  ASSUME NEW generator, IsGenerator(generator), NEW w \in Nat, w > 0, NEW top,
         top = w + (Len(generator) - 1), NEW pw, IsPowers(pw, generator, top - 1)
  PROVE  \A e \in 0 .. top - 1 : LeavesPower(generator, w, top, pw, e)
<1> DEFINE G == Ones(generator)
           Is(e) == LeavesPower(generator, w, top, pw, e)
           T == {e \in 0 .. top - 1 : Is(e)}
<1>1. G \in SUBSET Int /\ Len(generator) \in Nat /\ Len(generator) > 1
  BY GeneratorOnes
<1>2. top \in Nat /\ w < top /\ 0 < top
  BY <1>1
<1> HIDE DEF G
<1>3. Is(0)
  <2> SUFFICES ASSUME NEW f, IsDivision(f, G, {top - 0}, w) PROVE Exp(top, f[w]) = pw[0]
    BY DEF LeavesPower, G
  <2> DEFINE zero == 0
  <2>1. f[zero] = {top} /\ pw[0] = {0}
    BY <1>2 DEF IsDivision, IsPowers, One
  <2>2. NoBit(f[zero], zero, w)
    BY <1>2, <2>1 DEF NoBit
  <2>3. zero \in Nat /\ zero <= w /\ w <= w
    OBVIOUS
  <2> HIDE DEF zero
  <2>4. f[w] = f[zero]
    BY <2>2, <2>3, DivisionSkips
  <2> QED
    BY <1>2, <2>1, <2>4 DEF Exp
<1>4. ASSUME NEW e \in 0 .. (top - 1) - 1, Is(e) PROVE Is(e + 1)
  <2> SUFFICES ASSUME NEW g, IsDivision(g, G, {top - (e + 1)}, w) PROVE Exp(top, g[w]) = pw[e + 1]
    BY DEF LeavesPower, G
  <2> DEFINE ones == {top - e}
  <2>1. ones \in SUBSET Int /\ 1 \notin ones /\ Left(ones) = {top - (e + 1)}
    BY <1>2 DEF Left
  <2> HIDE DEF ones
  <2>2. PICK f : IsDivision(f, G, ones, w)
    BY <1>1, <2>1, DivisionExists
  <2>3. f[w] \in SUBSET Int
    BY <2>2 DEF IsDivision
  <2>4. IsDivision(g, G, Left(ones), w)
    BY <2>1
  <2>5. g[w] = Reduced(G, Left(f[w]), w)
    <3>1. G \in SUBSET Int /\ ones \in SUBSET Int /\ 1 \notin ones /\ w \in Nat /\ w > 0
      BY <1>1, <2>1
    <3> QED
      BY <2>2, <2>4, <3>1, DivisionOfLeft
  <2>6. Exp(top, g[w]) = TimesX(generator, Exp(top, f[w]))
    BY <2>3, <2>5, ExpReduced DEF G
  <2>7. Exp(top, f[w]) = pw[e]
    BY <1>4, <2>2 DEF ones, LeavesPower, G
  <2>8. e + 1 \in 1 .. top - 1 /\ (e + 1) - 1 = e
    BY <1>2
  <2>9. pw[e + 1] = TimesX(generator, pw[e])
    BY <2>8 DEF IsPowers
  <2> QED
    BY <2>6, <2>7, <2>9
<1>5. 0 .. top - 1 \subseteq T
  <2>1. top - 1 \in Nat /\ 0 \in T
    BY <1>2, <1>3
  <2>2. \A e \in 0 .. (top - 1) - 1 : e \in T => e + 1 \in T
    <3> SUFFICES ASSUME NEW e \in 0 .. (top - 1) - 1, e \in T PROVE e + 1 \in T
      OBVIOUS
    <3>1. Is(e + 1)
      BY <1>4
    <3> QED
      BY <1>2, <3>1
  <2> HIDE DEF T
  <2> QED
    BY <2>1, <2>2, IntervalSet
<1> QED
  BY <1>5 DEF G

\* The powers of x exist, as far as one likes.
LEMMA PowersExist ==
  ASSUME NEW generator, IsGenerator(generator), NEW d \in Nat
  PROVE  \E f : IsPowers(f, generator, d)
<1> DEFINE S == SUBSET Nat
           h == [k \in 1 .. d |-> [s \in S |-> TimesX(generator, s)]]
<1>1. \A s \in S : TimesX(generator, s) \in S
  BY TimesXType
<1>2. One \in S
  BY DEF One
<1> HIDE DEF S
<1>3. h \in [1 .. d -> [S -> S]]
  BY <1>1
<1>4. \A k \in 1 .. d : \A s \in S : h[k][s] = TimesX(generator, s)
  OBVIOUS
<1> HIDE DEF h
<1>5. PICK f : IsLoop(f, d, S, One, h)
  BY <1>2, <1>3, LoopExists
<1>6. \A k \in 1 .. d : f[k - 1] \in S
  BY <1>5 DEF IsLoop
<1> QED
  BY <1>4, <1>5, <1>6 DEF IsPowers, IsLoop, S

\* Two tables of powers agree as far as both go.
LEMMA PowersUnique ==
  ASSUME NEW generator, NEW m \in Nat, NEW n \in Nat, m <= n,
         NEW f, IsPowers(f, generator, m), NEW g, IsPowers(g, generator, n)
  PROVE  \A k \in 0 .. m : f[k] = g[k]
<1> DEFINE T == {k \in 0 .. m : f[k] = g[k]}
<1>1. 0 \in T
  BY DEF IsPowers
<1>2. ASSUME NEW k \in 0 .. m - 1, k \in T PROVE k + 1 \in T
  <2>1. k + 1 \in 1 .. m /\ k + 1 \in 1 .. n /\ (k + 1) - 1 = k
    OBVIOUS
  <2>2. f[k + 1] = TimesX(generator, f[k]) /\ g[k + 1] = TimesX(generator, g[k])
    BY <2>1 DEF IsPowers
  <2> QED
    BY <1>2, <2>1, <2>2
<1>3. 0 .. m \subseteq T
  <2>1. \A k \in 0 .. m - 1 : k \in T => k + 1 \in T
    BY <1>2
  <2> HIDE DEF T
  <2> QED
    BY <1>1, <2>1, IntervalSet
<1> QED
  BY <1>3

\* x^(k+d) and x^k are the same exactly when x^d is 1.
LEMMA PowersCancel ==
  ASSUME NEW generator, IsGenerator(generator), NEW n \in Nat, NEW pw, IsPowers(pw, generator, n),
         NEW d \in 0 .. n
  PROVE  \A k \in 0 .. n - d : pw[k + d] = pw[k] <=> pw[d] = One
<1> DEFINE T == {k \in 0 .. n - d : pw[k + d] = pw[k] <=> pw[d] = One}
<1>1. 0 \in T
  <2>1. pw[0 + d] = pw[d] /\ pw[0] = One
    BY DEF IsPowers
  <2> QED
    BY <2>1
<1>2. ASSUME NEW k \in 0 .. (n - d) - 1, k \in T PROVE k + 1 \in T
  <2>1. /\ k + 1 \in 1 .. n /\ (k + 1) - 1 = k
        /\ (k + d) + 1 \in 1 .. n /\ ((k + d) + 1) - 1 = k + d /\ (k + 1) + d = (k + d) + 1
        /\ k \in 0 .. n /\ k + d \in 0 .. n
    OBVIOUS
  <2>2. /\ pw[k + 1] = TimesX(generator, pw[k]) /\ pw[k] \in SUBSET Nat
        /\ pw[(k + d) + 1] = TimesX(generator, pw[k + d]) /\ pw[k + d] \in SUBSET Nat
    BY <2>1 DEF IsPowers
  <2>3. pw[(k + d) + 1] = pw[k + 1] <=> pw[k + d] = pw[k]
    BY <2>2, TimesXInjective
  <2> QED
    BY <1>2, <2>1, <2>3
<1>3. 0 .. n - d \subseteq T
  <2>1. \A k \in 0 .. (n - d) - 1 : k \in T => k + 1 \in T
    BY <1>2
  <2> HIDE DEF T
  <2>2. n - d \in Nat
    OBVIOUS
  <2> QED
    BY <1>1, <2>1, <2>2, IntervalSet
<1> QED
  BY <1>3

\* Power computes them.
LEMMA PowerIsPowers ==
  ASSUME NEW generator, IsGenerator(generator), NEW d \in Nat
  PROVE  \E f : IsPowers(f, generator, d) /\ Power(generator, d) = f[d]
<1> DEFINE degree == Len(generator) - 1
           exponents == {degree - (k - 1) : k \in Ones(generator)}
           power[k \in 0 .. d] ==
             IF k = 0 THEN {0}
             ELSE LET shifted == {e + 1 : e \in power[k - 1]}
                  IN  IF degree \in shifted THEN SymDiff(shifted, exponents) ELSE shifted
           Powers(f) ==
             f = [k \in 0 .. d |->
                    IF k = 0 THEN {0}
                    ELSE LET shifted == {e + 1 : e \in f[k - 1]}
                         IN  IF degree \in shifted THEN SymDiff(shifted, exponents) ELSE shifted]
<1>1. PICK f : IsPowers(f, generator, d)
  BY PowersExist
<1>2. Powers(f)
  <2>1. f \in [0 .. d -> SUBSET Nat]
    BY <1>1 DEF IsPowers
  <2>2. \A k \in 0 .. d : f[k] = IF k = 0 THEN One ELSE TimesX(generator, f[k - 1])
    BY <1>1 DEF IsPowers
  <2>3. f = [k \in 0 .. d |-> IF k = 0 THEN One ELSE TimesX(generator, f[k - 1])]
    BY <2>1, <2>2
  <2> QED
    BY <2>3, Zenon DEF TimesX, Exponents, One
<1>3. Powers(power)
  BY <1>2, Zenon
<1>4. Power(generator, d) = power[d]
  BY DEF Power
<1> HIDE DEF power
<1>5. power = [k \in 0 .. d |-> IF k = 0 THEN One ELSE TimesX(generator, power[k - 1])]
  BY <1>3, Zenon DEF TimesX, Exponents, One
<1> HIDE DEF Powers, degree, exponents
<1>6. power[0] = One /\ \A k \in 1 .. d : power[k] = TimesX(generator, power[k - 1])
  BY <1>5
<1> DEFINE T == {k \in 0 .. d : power[k] = f[k]}
<1>7. 0 \in T
  BY <1>1, <1>6 DEF IsPowers
<1>8. \A k \in 0 .. d - 1 : k \in T => k + 1 \in T
  <2> SUFFICES ASSUME NEW k \in 0 .. d - 1, k \in T PROVE k + 1 \in T
    OBVIOUS
  <2>1. k + 1 \in 1 .. d /\ (k + 1) - 1 = k
    OBVIOUS
  <2>2. f[k + 1] = TimesX(generator, f[k]) /\ power[k + 1] = TimesX(generator, power[k])
    BY <1>1, <1>6, <2>1 DEF IsPowers
  <2> QED
    BY <2>1, <2>2
<1>9. 0 .. d \subseteq T
  <2> HIDE DEF T
  <2> QED
    BY <1>7, <1>8, IntervalSet
<1>10. power[d] = f[d]
  BY <1>9
<1> QED
  BY <1>1, <1>4, <1>10

\* Whether two errors are missed depends on their distance alone.
LEMMA DoubleIsMissed ==
  ASSUME NEW data \in Seq(Bit), NEW generator, IsGenerator(generator),
         NEW word, word = WithCrc(data, generator),
         NEW a \in 1 .. Len(word), NEW b \in 1 .. Len(word), a < b
  PROVE  NoErrors(Flip(word, {a, b}), generator) <=> Power(generator, b - a) = {0}
<1> DEFINE w == Len(word)
           G == Ones(generator)
           top == w + (Len(generator) - 1)
           k == top - b
           d == b - a
           n == top - 1
           one == {a}
           other == {b}
           P == {a, b}
<1>1. w \in Nat /\ word \in Seq(Bit) /\ w > 0
  BY WithCrcOnes, OnesType
<1>2. G \in SUBSET Int /\ Len(generator) \in Nat /\ Len(generator) > 1
  BY GeneratorOnes
<1>3. /\ n \in Nat /\ d \in 0 .. n /\ k \in 0 .. n - d /\ k + d \in 0 .. n /\ k \in 0 .. n /\ d \in Nat
      /\ top - k = b /\ top - (k + d) = a /\ top \in Nat /\ n = top - 1 /\ d <= n
  BY <1>1, <1>2
<1>4. one \in SUBSET Int /\ other \in SUBSET Int /\ P \in SUBSET (1 .. w) /\ P = SymDiff(one, other)
  BY <1>1 DEF SymDiff
<1>5. one = {top - (k + d)} /\ other = {top - k}
  BY <1>3
<1>6. PICK pw : IsPowers(pw, generator, n)
  BY <1>3, PowersExist
<1>7. \A e \in 0 .. top - 1 : LeavesPower(generator, w, top, pw, e)
  <2>1. top = w + (Len(generator) - 1) /\ IsPowers(pw, generator, top - 1)
    BY <1>6
  <2> HIDE DEF w, k, d, one, other, P, G, top
  <2> QED
    BY <1>1, <2>1, ResidueIsPower
<1> HIDE DEF w, G, top, k, d, n, one, other, P
<1>8. PICK f : IsDivision(f, G, one, w)
  BY <1>1, <1>2, <1>4, DivisionExists
<1>9. PICK g : IsDivision(g, G, other, w)
  BY <1>1, <1>2, <1>4, DivisionExists
<1>10. Exp(top, f[w]) = pw[k + d] /\ Exp(top, g[w]) = pw[k]
  BY <1>3, <1>5, <1>7, <1>8, <1>9 DEF LeavesPower, G
<1>11. f[w] \in SUBSET Int /\ g[w] \in SUBSET Int
  BY <1>1, <1>8, <1>9 DEF IsDivision
<1>12. f[w] = g[w] <=> pw[k + d] = pw[k]
  BY <1>3, <1>10, <1>11, ExpInjective
<1>13. pw[k + d] = pw[k] <=> pw[d] = {0}
  <2>1. \A j \in 0 .. n - d : pw[j + d] = pw[j] <=> pw[d] = One
    BY <1>3, <1>6, PowersCancel
  <2> QED
    BY <1>3, <2>1 DEF One
<1>14. Power(generator, d) = pw[d]
  <2>1. PICK h : IsPowers(h, generator, d) /\ Power(generator, d) = h[d]
    BY <1>3, PowerIsPowers
  <2>2. \A j \in 0 .. d : h[j] = pw[j]
    BY <1>3, <1>6, <2>1, PowersUnique
  <2> QED
    BY <1>3, <2>1, <2>2
<1> DEFINE sum == [j \in 0 .. w |-> SymDiff(f[j], g[j])]
<1>15. IsDivision(sum, G, P, w)
  BY <1>1, <1>2, <1>4, <1>8, <1>9, DivisionOfSum
<1>16. sum[w] = {} <=> f[w] = g[w]
  <2>1. sum[w] = SymDiff(f[w], g[w])
    BY <1>1
  <2> HIDE DEF sum
  <2> QED
    BY <2>1 DEF SymDiff
<1> HIDE DEF sum
<1>17. NoErrors(Flip(word, P), generator) <=> sum[w] = {}
  BY <1>4, <1>15, ErrorDecides DEF w, G
<1> QED
  BY <1>12, <1>13, <1>14, <1>16, <1>17 DEF P, d

-----------------------------------------------------------------------------
(* The experiments *)

\* Where the elements of a sequence are of a kind.
Places(s, V) == {j \in DOMAIN s : s[j] \in V}

\* How many there are, when one is appended.
LEMMA CountOfAppend ==
  ASSUME NEW s \in Seq(Nat), NEW x \in Nat, NEW V
  PROVE  /\ Cardinality(Places(s, V)) \in Nat
         /\ Cardinality(Places(Append(s, x), V)) =
              Cardinality(Places(s, V)) + (IF x \in V THEN 1 ELSE 0)
<1> DEFINE t == Append(s, x)
           n == Len(s)
           old == Places(s, V)
           new == Places(t, V)
<1>1. n \in Nat /\ DOMAIN s = 1 .. n
  BY LenProperties
<1>2. /\ t \in Seq(Nat) /\ Len(t) = n + 1 /\ t[n + 1] = x
      /\ \A j \in 1 .. n : t[j] = s[j]
  BY AppendProperties
<1>3. DOMAIN t = 1 .. n + 1
  BY <1>2, LenProperties
<1> HIDE DEF t, n
<1>4. old \subseteq 1 .. n /\ n + 1 \notin old
  BY <1>1 DEF Places
<1>5. IsFiniteSet(old) /\ Cardinality(old) \in Nat
  <2>1. IsFiniteSet(1 .. n)
    BY <1>1, FS_Interval
  <2>2. IsFiniteSet(old)
    BY <1>4, <2>1, FS_Subset
  <2> QED
    BY <2>2, FS_CardinalityType
<1>6. new = IF x \in V THEN old \cup {n + 1} ELSE old
  BY <1>1, <1>2, <1>3 DEF Places
<1> HIDE DEF old, new
<1>7. Cardinality(old \cup {n + 1}) = Cardinality(old) + 1
  BY <1>4, <1>5, FS_AddElement
<1>8. Cardinality(new) = Cardinality(old) + (IF x \in V THEN 1 ELSE 0)
  BY <1>5, <1>6, <1>7
<1> QED
  BY <1>5, <1>8 DEF old, new, t

\* The distances at which a generator misses two errors.
MissedDistances(generator) == {d \in Nat : Power(generator, d) = {0}}

\* lab5.cpp: the data with its CRC has not been changed, and every flip so far
\* was counted as detected. lab5.py: the tests of the current generator that
\* were missed are those at such a distance.
ExperimentInv ==
  /\ i \in Nat
  /\ experiment = "lab5.cpp" =>
       /\ \E data \in Sample : data_with_crc = WithCrc(data, crc_generator)
       /\ missed_errors = 0 /\ detected_errors = i
  /\ experiment = "lab5.py" =>
       /\ distances \in Seq(Nat)
       /\ i < Len(crc_generators) =>
            missed_errors = Cardinality(Places(distances, MissedDistances(crc_generators[i + 1])))

\* Both experiments begin with counters at 0 that are right.
LEMMA ExperimentInvInit == ExperimentInit => ExperimentInv
<1> SUFFICES ASSUME ExperimentInit PROVE ExperimentInv
  OBVIOUS
<1>1. i = 0 /\ missed_errors = 0 /\ detected_errors = 0 /\ distances = <<>>
  BY DEF ExperimentInit
<1>2. ASSUME experiment = "lab5.cpp"
      PROVE  \E data \in Sample : data_with_crc = WithCrc(data, crc_generator)
  BY <1>2 DEF ExperimentInit
<1>3. distances \in Seq(Nat)
  BY <1>1
<1>4. Cardinality(Places(distances, MissedDistances(crc_generators[i + 1]))) = 0
  <2> DEFINE places == Places(distances, MissedDistances(crc_generators[i + 1]))
  <2>1. places = {}
    BY <1>1 DEF Places
  <2> HIDE DEF places
  <2>2. Cardinality(places) = 0
    BY <2>1, FS_EmptySet
  <2> QED
    BY <2>2 DEF places
<1> QED
  BY <1>1, <1>2, <1>3, <1>4 DEF ExperimentInv

\* A turn of either loop keeps the counters right: SingleIsDetected decides what
\* lab5.cpp counts, DoubleIsMissed what lab5.py does.
LEMMA ExperimentInvNext == ExperimentInv /\ [ExperimentNext]_experimentVars => ExperimentInv'
<1> SUFFICES ASSUME ExperimentInv, [ExperimentNext]_experimentVars PROVE ExperimentInv'
  OBVIOUS
<1>1. CASE FlipNext
  <2>1. /\ experiment = "lab5.cpp" /\ i < Len(data_with_crc) /\ i' = i + 1 /\ i \in Nat
        /\ UNCHANGED <<experiment, data_with_crc>>
        /\ missed_errors = 0 /\ detected_errors = i
    BY <1>1 DEF FlipNext, ExperimentInv
  <2>2. PICK data \in Sample : data_with_crc = WithCrc(data, crc_generator)
    BY <2>1 DEF ExperimentInv
  <2>3. data \in Seq(Bit) /\ IsGenerator(crc_generator)
    BY SampleAssumption, GeneratorAssumption
  <2>4. Len(data_with_crc) \in Nat
    BY <2>2, <2>3, WithCrcOnes, OnesType
  <2> DEFINE position == i + 1
  <2>5. position \in 1 .. Len(data_with_crc)
    BY <2>1, <2>4
  <2> HIDE DEF position
  <2>6. ~NoErrors(Flip(data_with_crc, {position}), crc_generator)
    BY <2>2, <2>3, <2>5, SingleIsDetected
  <2>7. missed_errors' = 0 /\ detected_errors' = i'
    BY <1>1, <2>1, <2>6 DEF FlipNext, Count, position
  <2> QED
    BY <2>1, <2>2, <2>7 DEF ExperimentInv
<1>2. CASE TestPair
  <2> DEFINE generator == crc_generators[i + 1]
             V == MissedDistances(generator)
  <2>1. /\ experiment = "lab5.py" /\ i < Len(crc_generators) /\ i \in Nat
        /\ UNCHANGED <<experiment, i>> /\ distances \in Seq(Nat)
        /\ missed_errors = Cardinality(Places(distances, V))
    BY <1>2 DEF TestPair, ExperimentInv
  <2>2. IsGenerator(generator)
    <3>1. DOMAIN crc_generators = 1 .. Len(crc_generators) /\ Len(crc_generators) \in Nat
      BY GeneratorsAssumption, LenProperties
    <3>2. i + 1 \in DOMAIN crc_generators
      BY <2>1, <3>1
    <3> QED
      BY <3>2, GeneratorsAssumption
  <2> HIDE DEF generator, V
  <2>3. PICK data \in Sample : \E a \in FirstError, b \in DOMAIN WithCrc(data, generator) :
           /\ a < b
           /\ missed_errors' = missed_errors
                + (IF NoErrors(Flip(WithCrc(data, generator), {a, b}), generator) THEN 1 ELSE 0)
           /\ distances' = Append(distances, b - a)
    BY <1>2 DEF TestPair, generator
  <2> DEFINE word == WithCrc(data, generator)
  <2>4. PICK a \in FirstError, b \in DOMAIN word :
           /\ a < b
           /\ missed_errors' = missed_errors
                + (IF NoErrors(Flip(word, {a, b}), generator) THEN 1 ELSE 0)
           /\ distances' = Append(distances, b - a)
    BY <2>3
  <2>5. data \in Seq(Bit)
    BY SampleAssumption
  <2>6. word \in Seq(Bit) /\ DOMAIN word = 1 .. Len(word) /\ Len(word) \in Nat
    BY <2>2, <2>5, WithCrcOnes, LenProperties
  <2>7. a \in Nat \ {0}
    BY FirstErrorAssumption
  <2> HIDE DEF word
  <2>8. a \in 1 .. Len(word) /\ b \in 1 .. Len(word) /\ b - a \in Nat
    BY <2>4, <2>6, <2>7
  <2>9. NoErrors(Flip(word, {a, b}), generator) <=> b - a \in V
    <3>1. word = WithCrc(data, generator)
      BY DEF word
    <3>2. NoErrors(Flip(word, {a, b}), generator) <=> Power(generator, b - a) = {0}
      BY <2>2, <2>4, <2>5, <2>8, <3>1, DoubleIsMissed
    <3> QED
      BY <2>8, <3>2 DEF V, MissedDistances
  <2> DEFINE x == b - a
  <2>10. /\ Cardinality(Places(distances, V)) \in Nat
         /\ Cardinality(Places(Append(distances, x), V)) =
              Cardinality(Places(distances, V)) + (IF x \in V THEN 1 ELSE 0)
    <3>1. x \in Nat
      BY <2>8
    <3> HIDE DEF x
    <3> QED
      BY <2>1, <3>1, CountOfAppend
  <2>11. missed_errors' = Cardinality(Places(distances', V))
    <3>1. missed_errors = Cardinality(Places(distances, V)) /\ distances' = Append(distances, x)
      BY <2>1, <2>4
    <3>2. missed_errors' = missed_errors + (IF x \in V THEN 1 ELSE 0)
      BY <2>4, <2>9
    <3> HIDE DEF x
    <3> QED
      BY <2>10, <3>1, <3>2
  <2>12. distances' \in Seq(Nat)
    BY <2>1, <2>4, <2>8, AppendProperties
  <2> QED
    BY <2>1, <2>11, <2>12 DEF ExperimentInv, V, generator
<1>3. CASE NextGenerator
  <2>1. /\ experiment = "lab5.py" /\ i \in Nat /\ i' = i + 1
        /\ missed_errors' = 0 /\ distances' = <<>> /\ UNCHANGED <<experiment, data_with_crc>>
    BY <1>3 DEF NextGenerator, ExperimentInv
  <2> DEFINE places == Places(distances', MissedDistances(crc_generators[i' + 1]))
  <2>2. places = {}
    BY <2>1 DEF Places
  <2>3. Cardinality(places) = 0
    <3> HIDE DEF places
    <3> QED
      BY <2>2, FS_EmptySet
  <2> QED
    BY <2>1, <2>3 DEF ExperimentInv
<1>4. CASE UNCHANGED experimentVars
  BY <1>4 DEF ExperimentInv, experimentVars, counts
<1> QED
  BY <1>1, <1>2, <1>3, <1>4 DEF ExperimentNext

\* lab5.cpp: whatever the data, every flip of one of its bits, or of the CRC's,
\* is found.
THEOREM SinglesDetected == ExperimentSpec => []SinglesAreDetected
<1>1. ExperimentInv => SinglesAreDetected
  BY DEF ExperimentInv, SinglesAreDetected
<1> QED
  BY <1>1, ExperimentInvInit, ExperimentInvNext, PTL DEF ExperimentSpec

\* lab5.py: how many double errors a generator misses is decided by the order
\* of x modulo the generator, for all data, all positions and every generator
\* whose first and last bits are set.
THEOREM DoublesMissed == ExperimentSpec => []DoublesMissedByOrder
<1>1. ExperimentInv => DoublesMissedByOrder
  <2> SUFFICES ASSUME ExperimentInv, experiment = "lab5.py", i < Len(crc_generators)
               PROVE  missed_errors = Cardinality({t \in DOMAIN distances :
                                         Power(crc_generators[i + 1], distances[t]) = {0}})
    BY DEF DoublesMissedByOrder
  <2>1. /\ distances \in Seq(Nat)
        /\ missed_errors = Cardinality(Places(distances, MissedDistances(crc_generators[i + 1])))
    BY DEF ExperimentInv
  <2>2. \A t \in DOMAIN distances : distances[t] \in Nat
    BY <2>1, LenProperties, ElementOfSeq
  <2>3. Places(distances, MissedDistances(crc_generators[i + 1]))
          = {t \in DOMAIN distances : Power(crc_generators[i + 1], distances[t]) = {0}}
    BY <2>2 DEF MissedDistances, Places
  <2> QED
    BY <2>1, <2>3
<1> QED
  BY <1>1, ExperimentInvInit, ExperimentInvNext, PTL DEF ExperimentSpec
=============================================================================
