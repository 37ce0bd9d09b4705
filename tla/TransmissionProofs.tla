------------------------- MODULE TransmissionProofs -------------------------
(***************************************************************************)
(* Proofs about Transmission, for all messages, registers, generators and  *)
(* numbers of samples per bit, and whatever noise does to a frame.         *)
(*                                                                         *)
(* The check accepts exactly the multiples of the generator: a division    *)
(* that leaves nothing has found the quotient, and a product leaves        *)
(* nothing. A clean frame correlates best at offset 0, because there all   *)
(* ones of the pattern are met, and the first such offset is taken. Noise  *)
(* that hits none of the pattern's ones, or no more samples than the peak  *)
(* stands out by, does not move it. Noise that a found frame brings along  *)
(* is a burst or two bits of the word that is checked, which the CRC sees  *)
(* within the bounds of NoiseWithinCrc.                                    *)
(***************************************************************************)
EXTENDS Transmission, CrcProofs

-----------------------------------------------------------------------------
(* Products of polynomials, as sets of positions *)

\* The factors in Q that reach position k.
Reaching(G, Q, k) == {q \in Q : k - q + 1 \in G}

\* The positions that an odd number of factors reaches.
Product(G, Q) == {k \in Int : Cardinality(Reaching(G, Q, k)) % 2 = 1}

\* One more factor adds the generator at its place.
LEMMA ProductAdd ==
  ASSUME NEW G \in SUBSET Int, NEW Q \in SUBSET Int, IsFiniteSet(Q), NEW q \in Int, q \notin Q
  PROVE  Product(G, Q \cup {q}) = SymDiff(Product(G, Q), Under(G, q))
<1>1. ASSUME NEW k \in Int
      PROVE  k \in Product(G, Q \cup {q}) <=> k \in SymDiff(Product(G, Q), Under(G, q))
  <2> DEFINE old == Reaching(G, Q, k)
             new == Reaching(G, Q \cup {q}, k)
  <2>1. k \in Under(G, q) <=> k - q + 1 \in G
    BY UnderMember
  <2>2. new = IF k - q + 1 \in G THEN old \cup {q} ELSE old
    BY DEF Reaching
  <2>3. old \subseteq Q /\ q \notin old
    BY DEF Reaching
  <2> HIDE DEF old, new
  <2>4. IsFiniteSet(old) /\ Cardinality(old) \in Nat
    BY <2>3, FS_Subset, FS_CardinalityType
  <2>5. Cardinality(old \cup {q}) = Cardinality(old) + 1
    BY <2>3, <2>4, FS_AddElement
  <2> DEFINE c == Cardinality(old)
  <2>6. k \in Product(G, Q) <=> c % 2 = 1
    BY DEF Product, old
  <2>7. k \in Product(G, Q \cup {q}) <=> Cardinality(new) % 2 = 1
    BY DEF Product, new
  <2>8. Cardinality(new) = IF k \in Under(G, q) THEN c + 1 ELSE c
    BY <2>1, <2>2, <2>5
  <2> HIDE DEF c
  <2>9. c \in Nat
    BY <2>4 DEF c
  <2>10. (c + 1) % 2 = 1 <=> ~(c % 2 = 1)
    BY <2>9
  <2> QED
    BY <2>6, <2>7, <2>8, <2>10 DEF SymDiff
<1>2. Product(G, Q \cup {q}) \in SUBSET Int
  BY DEF Product
<1>3. SymDiff(Product(G, Q), Under(G, q)) \in SUBSET Int
  BY DEF Product, SymDiff, Under
<1> QED
  BY <1>1, <1>2, <1>3

\* No factors, no bit set.
LEMMA ProductEmpty ==
  ASSUME NEW G PROVE Product(G, {}) = {}
<1>1. \A k \in Int : Reaching(G, {}, k) = {}
  BY DEF Reaching
<1>2. Cardinality({}) = 0
  BY FS_EmptySet
<1>3. \A k \in Int : Cardinality(Reaching(G, {}, k)) = 0
  BY <1>1, <1>2
<1> QED
  BY <1>3 DEF Product

\* A position that one factor alone reaches is set, one that none reaches is not.
LEMMA ProductMember ==
  ASSUME NEW G, NEW Q, NEW k \in Int
  PROVE  /\ \A q \in Q : Reaching(G, Q, k) = {q} => k \in Product(G, Q)
         /\ Reaching(G, Q, k) = {} => k \notin Product(G, Q)
<1>1. ASSUME NEW q \in Q, Reaching(G, Q, k) = {q} PROVE k \in Product(G, Q)
  <2>1. Cardinality({q}) = 1
    BY FS_Singleton
  <2>2. Cardinality(Reaching(G, Q, k)) = 1
    BY <1>1, <2>1
  <2> QED
    BY <2>2 DEF Product
<1>2. ASSUME Reaching(G, Q, k) = {} PROVE k \notin Product(G, Q)
  <2>1. Cardinality({}) = 0
    BY FS_EmptySet
  <2>2. Cardinality(Reaching(G, Q, k)) = 0
    BY <1>2, <2>1
  <2> QED
    BY <2>2 DEF Product
<1> QED
  BY <1>1, <1>2

\* A product is no longer than its factors together.
LEMMA ProductRange ==
  ASSUME NEW L \in Nat, NEW G \in SUBSET (1 .. L), NEW m \in Nat, NEW Q \in SUBSET (1 .. m)
  PROVE  Product(G, Q) \subseteq 1 .. m + L - 1
<1> SUFFICES ASSUME NEW k \in Product(G, Q) PROVE k \in 1 .. m + L - 1
  OBVIOUS
<1>1. k \in Int
  BY DEF Product
<1>2. Reaching(G, Q, k) # {}
  BY <1>1, ProductMember
<1>3. PICK q \in Q : k - q + 1 \in G
  BY <1>2 DEF Reaching
<1>4. q \in 1 .. m /\ k - q + 1 \in 1 .. L
  BY <1>3
<1> QED
  BY <1>1, <1>4

-----------------------------------------------------------------------------
(* The long division finds the quotient *)

\* Dividing a product takes its factors away from the left.
LEMMA DivisionOfProduct ==
  ASSUME NEW L \in Nat, NEW G \in SUBSET (1 .. L), 1 \in G, NEW n \in Nat, NEW Q \in SUBSET (1 .. n),
         NEW f, IsDivision(f, G, Product(G, Q), n)
  PROVE  f[n] = {}
<1> DEFINE Rest(k) == Q \cap (k + 1 .. n)
           T == {k \in 0 .. n : f[k] = Product(G, Rest(k))}
<1>1. 0 \in T
  <2>1. Rest(0) = Q
    <3>1. \A q \in Q : q \in 0 + 1 .. n
      OBVIOUS
    <3> QED
      BY <3>1
  <2> HIDE DEF Rest
  <2> QED
    BY <2>1 DEF IsDivision
<1>2. ASSUME NEW k \in 0 .. n - 1, k \in T PROVE k + 1 \in T
  <2> DEFINE A == Rest(k)
             B == Rest(k + 1)
             p == k + 1
  <2>1. p \in 1 .. n /\ p - 1 = k /\ p \in Int
    OBVIOUS
  <2>2. f[p] = Reduced(G, Product(G, A), p)
    BY <1>2, <2>1 DEF IsDivision
  <2>3. A \subseteq p .. n /\ B \subseteq A /\ p \notin B /\ B \in SUBSET Int
        /\ A = (IF p \in Q THEN B \cup {p} ELSE B)
    OBVIOUS
  <2>4. IsFiniteSet(B)
    <3>1. IsFiniteSet(1 .. n) /\ B \subseteq 1 .. n
      BY FS_Interval
    <3> QED
      BY <3>1, FS_Subset
  <2>5. \A q \in A : p - q + 1 \in G => q = p
    BY <2>1, <2>3
  <2>6. p - p + 1 \in G
    BY <2>1
  <2> HIDE DEF A, B, p
  <2>7. CASE p \in Q
    <3>1. A = B \cup {p}
      BY <2>3, <2>7
    <3>2. Product(G, A) = SymDiff(Product(G, B), Under(G, p))
      BY <2>1, <2>3, <2>4, <3>1, ProductAdd
    <3>3. Reaching(G, A, p) = {p} /\ p \in A
      BY <2>5, <2>6, <3>1 DEF Reaching
    <3>4. p \in Product(G, A)
      BY <2>1, <3>3, ProductMember
    <3>5. f[p] = SymDiff(SymDiff(Product(G, B), Under(G, p)), Under(G, p))
      BY <2>2, <3>2, <3>4 DEF Reduced
    <3>6. f[p] = Product(G, B)
      BY <3>5 DEF SymDiff
    <3> QED
      BY <2>1, <3>6 DEF B, p
  <2>8. CASE p \notin Q
    <3>1. A = B
      BY <2>3, <2>8
    <3>2. Reaching(G, A, p) = {}
      BY <2>3, <2>5, <3>1 DEF Reaching
    <3>3. p \notin Product(G, A)
      BY <2>1, <3>2, ProductMember
    <3>4. f[p] = Product(G, B)
      BY <2>2, <3>1, <3>3 DEF Reduced
    <3> QED
      BY <2>1, <3>4 DEF B, p
  <2> QED
    BY <2>7, <2>8
<1>3. n \in T
  <2>1. \A k \in 0 .. n - 1 : k \in T => k + 1 \in T
    BY <1>2
  <2> HIDE DEF T
  <2>2. 0 .. n \subseteq T
    BY <1>1, <2>1, IntervalSet
  <2> QED
    BY <2>2
<1>4. Rest(n) = {}
  OBVIOUS
<1> HIDE DEF Rest
<1> QED
  BY <1>3, <1>4, ProductEmpty

\* The positions are the product of the generator and some factors.
HasQuotient(G, ones, n) == \E Q \in SUBSET (1 .. n) : ones = Product(G, Q)

\* The places where the generator was added, when nothing is left in the end,
\* are factors of what was divided.
LEMMA QuotientOfDivision ==
  ASSUME NEW L \in Nat, NEW G \in SUBSET (1 .. L), NEW n \in Nat, NEW ones \in SUBSET Int,
         NEW f, IsDivision(f, G, ones, n), f[n] = {}
  PROVE  HasQuotient(G, ones, n)
<1> DEFINE Q == {k \in 1 .. n : k \in f[k - 1]}
           Done(k) == Q \cap (1 .. k)
           T == {k \in 0 .. n : f[k] = SymDiff(ones, Product(G, Done(k)))}
<1>1. 0 \in T
  <2>1. Done(0) = {}
    OBVIOUS
  <2>2. f[0] = ones
    BY DEF IsDivision
  <2> HIDE DEF Done
  <2> QED
    BY <2>1, <2>2, ProductEmpty DEF SymDiff
<1>2. ASSUME NEW k \in 0 .. n - 1, k \in T PROVE k + 1 \in T
  <2> DEFINE A == Done(k)
             B == Done(k + 1)
             p == k + 1
  <2>1. p \in 1 .. n /\ p - 1 = k /\ p \in Int
    OBVIOUS
  <2>2. f[p] = Reduced(G, f[k], p) /\ f[k] = SymDiff(ones, Product(G, A))
    BY <1>2, <2>1 DEF IsDivision
  <2>3. p \notin A /\ A \in SUBSET Int /\ B = (IF p \in f[k] THEN A \cup {p} ELSE A)
    BY <2>1
  <2>4. IsFiniteSet(A)
    <3>1. IsFiniteSet(1 .. n) /\ A \subseteq 1 .. n
      BY FS_Interval
    <3> QED
      BY <3>1, FS_Subset
  <2> HIDE DEF A, B, p
  <2>5. CASE p \in f[k]
    <3>1. Product(G, B) = SymDiff(Product(G, A), Under(G, p))
      BY <2>1, <2>3, <2>4, <2>5, ProductAdd
    <3>2. f[p] = SymDiff(SymDiff(ones, Product(G, A)), Under(G, p))
      BY <2>2, <2>5 DEF Reduced
    <3>3. f[p] = SymDiff(ones, Product(G, B))
      BY <3>1, <3>2 DEF SymDiff
    <3> QED
      BY <2>1, <3>3 DEF B, p
  <2>6. CASE p \notin f[k]
    <3>1. f[p] = SymDiff(ones, Product(G, B))
      BY <2>2, <2>3, <2>6 DEF Reduced
    <3> QED
      BY <2>1, <3>1 DEF B, p
  <2> QED
    BY <2>5, <2>6
<1>3. n \in T
  <2>1. \A k \in 0 .. n - 1 : k \in T => k + 1 \in T
    BY <1>2
  <2> HIDE DEF T
  <2>2. 0 .. n \subseteq T
    BY <1>1, <2>1, IntervalSet
  <2> QED
    BY <2>2
<1>4. Done(n) = Q /\ Q \in SUBSET (1 .. n)
  OBVIOUS
<1> HIDE DEF Q
<1>5. SymDiff(ones, Product(G, Q)) = {}
  BY <1>3, <1>4
<1>6. ones = Product(G, Q)
  BY <1>5 DEF SymDiff
<1> QED
  BY <1>4, <1>6 DEF HasQuotient

\* A quotient is no longer than what is divided without its CRC: the last
\* factor sets a bit that no other reaches.
LEMMA QuotientFits ==
  ASSUME NEW L \in Nat, NEW G \in SUBSET (1 .. L), L \in G, NEW n \in Nat,
         NEW Q \in SUBSET (1 .. n), Product(G, Q) \subseteq 1 .. n
  PROVE  Q \subseteq 1 .. n - (L - 1)
<1> SUFFICES ASSUME NEW p \in Q, p > n - (L - 1) PROVE FALSE
  OBVIOUS
<1>1. PICK q \in Q : \A r \in Q : r <= q
  <2>1. Q \in SUBSET (0 .. n) /\ Q # {}
    OBVIOUS
  <2> QED
    BY <2>1, MaximumExists
<1> DEFINE k == q + L - 1
<1>2. q \in 1 .. n /\ q >= p /\ k \in Int /\ k - q + 1 = L
  BY <1>1
<1>3. \A r \in Q : k - r + 1 \in G => r = q
  BY <1>1, <1>2
<1>4. Reaching(G, Q, k) = {q}
  BY <1>1, <1>2, <1>3 DEF Reaching
<1>5. k \in Product(G, Q)
  <2> HIDE DEF k
  <2> QED
    BY <1>1, <1>2, <1>4, ProductMember
<1> QED
  BY <1>2, <1>5

\* The bits of a multiple are those of the product.
LEMMA MultipleOnes ==
  ASSUME NEW n \in Nat, NEW Q \in SUBSET (1 .. n)
  PROVE  /\ Multiple(n, Q) \in Seq(Bit) /\ Len(Multiple(n, Q)) = n
         /\ Ones(Multiple(n, Q)) = Product(Ones(crc_generator), Q) \cap (1 .. n)
<1> DEFINE G == Ones(crc_generator)
           word == Multiple(n, Q)
<1>1. \A k \in 1 .. n : Cardinality(Reaching(G, Q, k)) \in Nat
  <2> SUFFICES ASSUME NEW k \in 1 .. n PROVE Cardinality(Reaching(G, Q, k)) \in Nat
    OBVIOUS
  <2>1. IsFiniteSet(1 .. n)
    BY FS_Interval
  <2>2. Reaching(G, Q, k) \subseteq 1 .. n
    BY DEF Reaching
  <2> QED
    BY <2>1, <2>2, FS_Subset, FS_CardinalityType
<1>2. word = [k \in 1 .. n |-> Cardinality(Reaching(G, Q, k)) % 2]
  BY DEF Multiple, Reaching
<1>3. \A k \in 1 .. n : word[k] = Cardinality(Reaching(G, Q, k)) % 2
  BY <1>2
<1>4. \A k \in 1 .. n : word[k] \in {0, 1}
  BY <1>1, <1>3
<1>5. DOMAIN word = 1 .. n /\ word = [k \in 1 .. n |-> word[k]]
  BY <1>2
<1> HIDE DEF word
<1>6. word \in [1 .. n -> Bit]
  BY <1>4, <1>5 DEF Bit
<1>7. word \in Seq(Bit) /\ Len(word) = n
  BY <1>6, SeqDef, LenProperties
<1>8. Ones(word) = Product(G, Q) \cap (1 .. n)
  BY <1>3, <1>5 DEF Ones, Product
<1> QED
  BY <1>7, <1>8 DEF word

\* A bit string is what its positions say.
LEMMA BitsEqual ==
  ASSUME NEW s \in Seq(Bit), NEW t \in Seq(Bit), Len(s) = Len(t), Ones(s) = Ones(t)
  PROVE  s = t
<1>1. /\ Len(s) \in Nat /\ DOMAIN s = 1 .. Len(s) /\ DOMAIN t = 1 .. Len(s)
      /\ \A k \in 1 .. Len(s) : s[k] \in Bit /\ t[k] \in Bit
  BY LenProperties, ElementOfSeq
<1>2. \A k \in 1 .. Len(s) : s[k] = t[k]
  BY <1>1 DEF Ones, Bit
<1> QED
  BY <1>2, SeqEqual

\* The check accepts the multiples of the generator and nothing else.
LEMMA AcceptedMeans ==
  ASSUME NEW word \in Seq(Bit), crcLen <= Len(word)
  PROVE  NoErrors(word, crc_generator) <=>
           \E Q \in SUBSET (1 .. Len(word) - crcLen) : word = Multiple(Len(word), Q)
<1> DEFINE n == Len(word)
           G == Ones(crc_generator)
           L == Len(crc_generator)
           ones == Ones(word)
<1>1. IsGenerator(crc_generator)
  BY GeneratorAssumption
<1>2. /\ crc_generator \in Seq(Bit) /\ L \in Nat /\ L > 1 /\ G \in SUBSET (1 .. L) /\ G \in SUBSET Int
      /\ 1 \in G /\ L \in G
  BY <1>1, GeneratorOnes
<1>3. n \in Nat /\ ones \in SUBSET (1 .. n) /\ ones \in SUBSET Int
  BY OnesType
<1>4. PICK f : IsDivision(f, G, ones, n) /\ Remainder(word, crc_generator, n) = f[n]
  BY <1>2, <1>3, RemainderIsDivision
<1>5. NoErrors(word, crc_generator) <=> f[n] = {}
  BY <1>1, <1>4, NoErrorsMeans
<1>6. crcLen = L - 1 /\ n - crcLen \in Nat /\ n - crcLen <= n
  BY <1>2, <1>3 DEF crcLen
<1> HIDE DEF n, G, L, ones
<1>7. ASSUME f[n] = {}
      PROVE  \E Q \in SUBSET (1 .. n - crcLen) : word = Multiple(n, Q)
  <2>1. PICK Q \in SUBSET (1 .. n) : ones = Product(G, Q)
    <3>1. HasQuotient(G, ones, n)
      BY <1>2, <1>3, <1>4, <1>7, QuotientOfDivision
    <3> QED
      BY <3>1 DEF HasQuotient
  <2>2. Q \subseteq 1 .. n - (L - 1)
    BY <1>2, <1>3, <2>1, QuotientFits
  <2>3. Multiple(n, Q) \in Seq(Bit) /\ Len(Multiple(n, Q)) = n /\ Ones(Multiple(n, Q)) = ones
    BY <1>3, <2>1, MultipleOnes DEF G
  <2>4. word = Multiple(n, Q)
    BY <2>3, BitsEqual DEF n, ones
  <2> QED
    BY <1>6, <2>2, <2>4
<1>8. ASSUME NEW Q \in SUBSET (1 .. n - crcLen), word = Multiple(n, Q)
      PROVE  f[n] = {}
  <2>1. Q \in SUBSET (1 .. n)
    BY <1>3, <1>6
  <2>2. Product(G, Q) \subseteq 1 .. n
    <3> DEFINE m == n - crcLen
    <3>1. m \in Nat /\ m + L - 1 = n
      BY <1>2, <1>3, <1>6
    <3> HIDE DEF m
    <3>2. Q \in SUBSET (1 .. m)
      BY DEF m
    <3> QED
      BY <1>2, <3>1, <3>2, ProductRange
  <2>3. ones = Product(G, Q)
    <3>1. ones = Product(G, Q) \cap (1 .. n)
      BY <1>3, <1>8, <2>1, MultipleOnes DEF G, ones
    <3> QED
      BY <2>2, <3>1
  <2>4. IsDivision(f, G, Product(G, Q), n)
    BY <1>4, <2>3
  <2> QED
    BY <1>2, <1>3, <2>1, <2>4, DivisionOfProduct
<1> QED
  BY <1>5, <1>7, <1>8 DEF n

-----------------------------------------------------------------------------
(* The Gold sequence *)

\* One clock of both registers.
Clocked(before) ==
  LET reg1 == before[1]
      reg2 == before[2]
  IN  <<<<Xor(reg1[2], Last(reg1))>> \o Front(reg1),
        <<Xor(Xor(reg2[1], reg2[2]), reg2[3])>> \o Front(reg2)>>

\* The values of a shift register.
Register(n) == {reg \in Seq(Bit) : Len(reg) = n}
BothRegisters == Register(Len(reg1_initial)) \X Register(Len(reg2_initial))

\* Bits add up to a bit.
LEMMA XorType ==
  ASSUME NEW a \in Bit, NEW b \in Bit PROVE Xor(a, b) \in Bit
BY DEF Xor, Bit

\* Shifting a bit in keeps a register's length.
LEMMA ShiftedType ==
  ASSUME NEW n \in Nat, n > 2, NEW reg \in Register(n), NEW b \in Bit
  PROVE  <<b>> \o Front(reg) \in Register(n)
<1>1. reg \in Seq(Bit) /\ Len(reg) = n
  BY DEF Register
<1>2. \A k \in 1 .. n - 1 : reg[k] \in Bit
  BY <1>1, ElementOfSeq
<1>3. Front(reg) \in Seq(Bit) /\ Len(Front(reg)) = n - 1
  <2>1. 1 \in Int /\ n - 1 \in Int /\ 1 <= n - 1 /\ Front(reg) = SubSeq(reg, 1, n - 1)
    BY <1>1 DEF Front
  <2>2. SubSeq(reg, 1, n - 1) \in Seq(Bit) /\ Len(SubSeq(reg, 1, n - 1)) = (n - 1) - 1 + 1
    BY <1>2, <2>1, SubSeqProperties
  <2> QED
    BY <2>1, <2>2
<1>4. <<b>> \in Seq(Bit) /\ Len(<<b>>) = 1
  OBVIOUS
<1> DEFINE s == <<b>>
           t == Front(reg)
<1> HIDE DEF s, t
<1>5. s \o t \in Seq(Bit) /\ Len(s \o t) = 1 + (n - 1)
  BY <1>3, <1>4, ConcatProperties DEF s, t
<1> QED
  BY <1>5 DEF Register, s, t

\* A clock keeps both registers' lengths.
LEMMA ClockedType ==
  ASSUME NEW both \in BothRegisters PROVE Clocked(both) \in BothRegisters
<1> DEFINE m == Len(reg1_initial)
           n == Len(reg2_initial)
           reg1 == both[1]
           reg2 == both[2]
<1>1. m \in Nat /\ n \in Nat /\ m > 2 /\ n > 2
  BY RegistersAssumption, LenProperties
<1>2. reg1 \in Register(m) /\ reg2 \in Register(n)
  BY DEF BothRegisters
<1> HIDE DEF m, n, reg1, reg2
<1>3. \A k \in 1 .. m : reg1[k] \in Bit
  BY <1>2, ElementOfSeq DEF Register
<1>4. \A k \in 1 .. n : reg2[k] \in Bit
  BY <1>2, ElementOfSeq DEF Register
<1> DEFINE b == Xor(reg1[2], Last(reg1))
           c == Xor(Xor(reg2[1], reg2[2]), reg2[3])
<1>5. b \in Bit
  <2>1. reg1[2] \in Bit /\ Last(reg1) \in Bit
    BY <1>1, <1>2, <1>3 DEF Last, Register
  <2> QED
    BY <2>1, XorType
<1>6. c \in Bit
  <2>1. reg2[1] \in Bit /\ reg2[2] \in Bit /\ reg2[3] \in Bit
    BY <1>1, <1>4
  <2>2. Xor(reg2[1], reg2[2]) \in Bit
    BY <2>1, XorType
  <2> QED
    BY <2>1, <2>2, XorType
<1>7. Clocked(both) = <<<<b>> \o Front(reg1), <<c>> \o Front(reg2)>>
  BY DEF Clocked, reg1, reg2
<1> HIDE DEF b, c
<1>8. <<b>> \o Front(reg1) \in Register(m) /\ <<c>> \o Front(reg2) \in Register(n)
  BY <1>1, <1>2, <1>5, <1>6, ShiftedType
<1> DEFINE s == <<b>> \o Front(reg1)
           t == <<c>> \o Front(reg2)
<1> HIDE DEF s, t
<1>9. <<s, t>> \in Register(m) \X Register(n)
  BY <1>8 DEF s, t
<1> QED
  BY <1>7, <1>9 DEF s, t, BothRegisters, m, n

\* The registers keep their lengths and hold bits.
LEMMA RegistersType == Registers \in [0 .. length -> BothRegisters]
<1> DEFINE S == BothRegisters
           a == <<reg1_initial, reg2_initial>>
           h == [k \in 1 .. length |-> [s \in S |-> Clocked(s)]]
           after[k \in 0 .. length] ==
             IF k = 0 THEN <<reg1_initial, reg2_initial>>
             ELSE LET before == after[k - 1]
                      reg1   == before[1]
                      reg2   == before[2]
                  IN  <<<<Xor(reg1[2], Last(reg1))>> \o Front(reg1),
                        <<Xor(Xor(reg2[1], reg2[2]), reg2[3])>> \o Front(reg2)>>
           After(f) == f = [k \in 0 .. length |->
                              IF k = 0 THEN <<reg1_initial, reg2_initial>>
                              ELSE LET before == f[k - 1]
                                       reg1   == before[1]
                                       reg2   == before[2]
                                   IN  <<<<Xor(reg1[2], Last(reg1))>> \o Front(reg1),
                                         <<Xor(Xor(reg2[1], reg2[2]), reg2[3])>> \o Front(reg2)>>]
<1>1. a \in S /\ length \in Nat
  BY RegistersAssumption, LengthAssumption DEF BothRegisters, Register
<1>2. \A s \in S : Clocked(s) \in S
  BY ClockedType
<1> HIDE DEF S, a
<1>3. h \in [1 .. length -> [S -> S]]
  BY <1>2
<1>4. \A k \in 1 .. length : \A s \in S : h[k][s] = Clocked(s)
  OBVIOUS
<1> HIDE DEF h
<1>5. PICK f : IsLoop(f, length, S, a, h)
  BY <1>1, <1>3, LoopExists
<1>6. f \in [0 .. length -> S] /\ \A k \in 0 .. length : f[k] = IF k = 0 THEN a ELSE Clocked(f[k - 1])
  BY <1>1, <1>4, <1>5 DEF IsLoop
<1>7. After(f)
  <2>1. f = [k \in 0 .. length |-> IF k = 0 THEN a ELSE Clocked(f[k - 1])]
    BY <1>6
  <2> QED
    BY <2>1, Zenon DEF Clocked, a
<1>8. After(after)
  BY <1>7, Zenon
<1>9. Registers = after
  BY DEF Registers
<1> HIDE DEF after
<1>10. after = [k \in 0 .. length |-> IF k = 0 THEN a ELSE Clocked(after[k - 1])]
  BY <1>8, Zenon DEF Clocked, a
<1> HIDE DEF After
<1> DEFINE T == {k \in 0 .. length : after[k] \in S}
<1>11. 0 \in T
  BY <1>1, <1>10
<1>12. \A k \in 0 .. length - 1 : k \in T => k + 1 \in T
  <2> SUFFICES ASSUME NEW k \in 0 .. length - 1, k \in T PROVE k + 1 \in T
    OBVIOUS
  <2>1. k + 1 \in 0 .. length /\ (k + 1) - 1 = k /\ k + 1 # 0
    BY <1>1
  <2>2. after[k + 1] = Clocked(after[k])
    BY <1>10, <2>1
  <2> QED
    BY <1>2, <2>1, <2>2
<1>13. 0 .. length \subseteq T
  <2> HIDE DEF T
  <2> QED
    BY <1>1, <1>11, <1>12, IntervalSet
<1>14. after \in [0 .. length -> S]
  BY <1>10, <1>13
<1> QED
  BY <1>9, <1>14 DEF S

\* create_gold_sequence returns as many bits as were asked for.
LEMMA GoldType == gold_sequence \in Seq(Bit) /\ Len(gold_sequence) = length
<1> DEFINE Out(k) == Xor(Last(Registers[k - 1][1]), Last(Registers[k - 1][2]))
<1>1. ASSUME NEW k \in 1 .. length PROVE Out(k) \in Bit
  <2> DEFINE both == Registers[k - 1]
  <2>1. k - 1 \in 0 .. length
    BY LengthAssumption
  <2>2. both \in BothRegisters
    BY <2>1, RegistersType
  <2> HIDE DEF both
  <2>3. both[1] \in Register(Len(reg1_initial)) /\ both[2] \in Register(Len(reg2_initial))
    BY <2>2 DEF BothRegisters
  <2>4. Len(reg1_initial) \in Nat /\ Len(reg2_initial) \in Nat
        /\ Len(reg1_initial) > 2 /\ Len(reg2_initial) > 2
    BY RegistersAssumption, LenProperties
  <2>5. Last(both[1]) \in Bit /\ Last(both[2]) \in Bit
    BY <2>3, <2>4, ElementOfSeq DEF Last, Register
  <2> QED
    BY <2>5, XorType DEF both
<1>2. gold_sequence = [k \in 1 .. length |-> Out(k)]
  BY DEF gold_sequence
<1> HIDE DEF Out
<1>3. gold_sequence \in [1 .. length -> Bit]
  BY <1>1, <1>2
<1>4. length \in Nat
  BY LengthAssumption
<1> QED
  BY <1>3, <1>4, SeqDef, LenProperties

-----------------------------------------------------------------------------
(* Samples and bits *)

\* Sample k belongs to bit (k - 1) \div n + 1.
LEMMA SamplesProperties ==
  ASSUME NEW bits \in Seq(Bit), NEW n \in Nat, n > 0
  PROVE  /\ Samples(bits, n) \in Seq(Bit) /\ Len(Samples(bits, n)) = n * Len(bits)
         /\ n * Len(bits) \in Nat
         /\ \A k \in 1 .. n * Len(bits) :
              /\ (k - 1) \div n + 1 \in 1 .. Len(bits)
              /\ Samples(bits, n)[k] = bits[(k - 1) \div n + 1]
<1> DEFINE m == Len(bits)
           w == n * m
           s == Samples(bits, n)
<1>1. m \in Nat /\ \A b \in 1 .. m : bits[b] \in Bit
  BY LenProperties, ElementOfSeq
<1>2. w \in Nat /\ m * n = w
  BY <1>1
<1>3. s = [k \in 1 .. w |-> bits[(k - 1) \div n + 1]]
  BY <1>2 DEF Samples
<1>4. ASSUME NEW k \in 1 .. w PROVE (k - 1) \div n + 1 \in 1 .. m
  <2> DEFINE d == (k - 1) \div n
             a == k - 1
  <2>1. a \in Nat /\ a < w
    BY <1>2
  <2>2. d \in Nat /\ n * d <= a
    <3> HIDE DEF a
    <3> QED
      BY <2>1, DivisionProperties DEF a
  <2> HIDE DEF d, a
  <2>3. d < m
    <3> SUFFICES ASSUME m <= d PROVE FALSE
      BY <1>1, <2>2
    <3>1. n * m <= n * d
      BY <1>1, <2>2, TimesMonotonic
    <3> QED
      BY <1>2, <2>1, <2>2, <3>1
  <2> QED
    BY <1>1, <2>2, <2>3 DEF d
<1> HIDE DEF w, s, m
<1>5. \A k \in 1 .. w : s[k] = bits[(k - 1) \div n + 1]
  BY <1>3
<1>6. s \in [1 .. w -> Bit]
  BY <1>1, <1>3, <1>4
<1>7. s \in Seq(Bit) /\ Len(s) = w
  BY <1>2, <1>6, SeqDef, LenProperties
<1> QED
  BY <1>2, <1>4, <1>5, <1>7 DEF w, s, m

\* As many bits are read as groups of samples have begun.
LEMMA InterpretType ==
  ASSUME NEW s \in Seq(Bit), NEW n \in Nat, n > 0
  PROVE  /\ Interpret(s, n) \in Seq(Bit)
         /\ Len(Interpret(s, n)) = (Len(s) + n - 1) \div n
<1> DEFINE N == (Len(s) + n - 1) \div n
           a == Len(s) + n - 1
           word == Interpret(s, n)
<1>1. a \in Nat
  BY LenProperties
<1>2. N \in Nat
  <2> HIDE DEF a
  <2> QED
    BY <1>1, DivisionProperties DEF a
<1> HIDE DEF N
<1>3. word \in [1 .. N -> Bit]
  BY DEF Interpret, Bit, N
<1> HIDE DEF word
<1>4. word \in Seq(Bit) /\ Len(word) = N
  BY <1>2, <1>3, SeqDef, LenProperties
<1> QED
  BY <1>4 DEF word, N

\* Flipping keeps a bit string's length, whatever the positions are.
LEMMA FlipType ==
  ASSUME NEW bits \in Seq(Bit), NEW H
  PROVE  /\ Flip(bits, H) \in Seq(Bit) /\ Len(Flip(bits, H)) = Len(bits)
         /\ \A k \in 1 .. Len(bits) :
              Flip(bits, H)[k] = IF k \in H THEN 1 - bits[k] ELSE bits[k]
<1> DEFINE n == Len(bits)
           flipped == [k \in 1 .. n |-> IF k \in H THEN 1 - bits[k] ELSE bits[k]]
<1>1. n \in Nat /\ DOMAIN bits = 1 .. n /\ \A k \in 1 .. n : bits[k] \in Bit
  BY LenProperties, ElementOfSeq
<1>2. Flip(bits, H) = flipped
  BY <1>1 DEF Flip
<1>3. flipped \in [1 .. n -> Bit]
  BY <1>1 DEF Bit
<1>4. flipped \in Seq(Bit) /\ Len(flipped) = n
  <2> HIDE DEF flipped, n
  <2> QED
    BY <1>1, <1>3, SeqDef, LenProperties
<1>5. \A k \in 1 .. n : flipped[k] = IF k \in H THEN 1 - bits[k] ELSE bits[k]
  OBVIOUS
<1> QED
  BY <1>2, <1>4, <1>5

\* Flipping nothing changes nothing.
LEMMA FlipNothing ==
  ASSUME NEW s \in Seq(Bit) PROVE Flip(s, {}) = s
<1>1. s = [k \in DOMAIN s |-> s[k]]
  BY LenProperties
<1> QED
  BY <1>1 DEF Flip

\* All of a sequence.
LEMMA WholeSubSeq ==
  ASSUME NEW s \in Seq(Bit) PROVE SubSeq(s, 1, Len(s)) = s
<1> DEFINE m == Len(s)
           one == 1
           cut == SubSeq(s, one, m)
<1>1. /\ one \in Int /\ m \in Int /\ m \in Nat /\ m - one + 1 = m
      /\ (IF one <= m THEN m - one + 1 ELSE 0) = m
      /\ \A k \in one .. m : s[k] \in Bit
      /\ \A k \in 1 .. m : one + k - 1 = k
  BY LenProperties, ElementOfSeq
<1> HIDE DEF m, one
<1>2. cut \in Seq(Bit) /\ Len(cut) = m /\ \A k \in 1 .. m : cut[k] = s[one + k - 1]
  BY <1>1, SubSeqProperties
<1>3. \A k \in 1 .. m : cut[k] = s[k]
  BY <1>1, <1>2
<1> HIDE DEF cut
<1>4. cut = s
  BY <1>2, <1>3, SeqEqual DEF m
<1> QED
  BY <1>4 DEF cut, one, m

\* The samples of bit b.
Span(b, n) == n * (b - 1) + 1 .. n * b

\* A bit of which no sample was hit is read as it was sent.
LEMMA InterpretFlipped ==
  ASSUME NEW bits \in Seq(Bit), NEW n \in Nat, n > 0, NEW H
  PROVE  /\ Interpret(Flip(Samples(bits, n), H), n) \in Seq(Bit)
         /\ Len(Interpret(Flip(Samples(bits, n), H), n)) = Len(bits)
         /\ \A b \in 1 .. Len(bits) :
              H \cap Span(b, n) = {} => Interpret(Flip(Samples(bits, n), H), n)[b] = bits[b]
<1> DEFINE m == Len(bits)
           sent == Samples(bits, n)
           s == Flip(sent, H)
           word == Interpret(s, n)
           w == n * m
           Group(b) == {k \in (b - 1) * n + 1 .. b * n : k <= Len(s)}
           Set(b) == {k \in Group(b) : s[k] = 1}
<1>1. m \in Nat /\ \A b \in 1 .. m : bits[b] \in {0, 1}
  BY LenProperties, ElementOfSeq DEF Bit
<1>2. /\ sent \in Seq(Bit) /\ Len(sent) = w /\ w \in Nat
      /\ \A k \in 1 .. w : sent[k] = bits[(k - 1) \div n + 1]
  BY SamplesProperties
<1>3. /\ s \in Seq(Bit) /\ Len(s) = w
      /\ \A k \in 1 .. w : k \notin H => s[k] = bits[(k - 1) \div n + 1]
  <2> HIDE DEF sent, w
  <2>1. /\ Flip(sent, H) \in Seq(Bit) /\ Len(Flip(sent, H)) = Len(sent)
        /\ \A k \in 1 .. Len(sent) :
             Flip(sent, H)[k] = IF k \in H THEN 1 - sent[k] ELSE sent[k]
    BY <1>2, FlipType
  <2> HIDE DEF s
  <2>2. s \in Seq(Bit) /\ Len(s) = w /\ \A k \in 1 .. w : k \notin H => s[k] = sent[k]
    BY <1>2, <2>1 DEF s
  <2> QED
    BY <1>2, <2>2
<1>4. (w + n - 1) \div n = m
  <2> DEFINE a == w + n - 1
  <2>1. a \in Nat /\ n * m <= a /\ a < n * m + n
    BY <1>2
  <2> HIDE DEF a, w
  <2> QED
    BY <1>1, <2>1, DivisionIs DEF a
<1>5. word \in Seq(Bit) /\ Len(word) = m
  BY <1>3, <1>4, InterpretType
<1>6. word = [b \in 1 .. m |-> IF 2 * Cardinality(Set(b)) > Cardinality(Group(b)) THEN 1 ELSE 0]
  BY <1>3, <1>4 DEF Interpret
<1> HIDE DEF m, sent, s, word, w
<1>7. ASSUME NEW b \in 1 .. m, H \cap Span(b, n) = {}
      PROVE  (IF 2 * Cardinality(Set(b)) > Cardinality(Group(b)) THEN 1 ELSE 0) = bits[b]
  <2> DEFINE lo == n * (b - 1) + 1
             hi == n * b
  <2>1. lo \in Nat /\ hi \in Nat /\ hi - lo + 1 = n /\ lo <= hi /\ lo >= 1
        /\ (b - 1) * n + 1 = lo /\ b * n = hi
    BY <1>1
  <2>2. hi <= w
    BY <1>1, TimesMonotonic DEF w
  <2>3. \A k \in lo .. hi : s[k] = bits[b]
    <3> SUFFICES ASSUME NEW k \in lo .. hi PROVE s[k] = bits[b]
      OBVIOUS
    <3> DEFINE a == k - 1
               q == b - 1
    <3>1. a \in Nat /\ q \in Nat /\ n * q <= a /\ a < n * q + n
      BY <1>1, <2>1
    <3>2. k \in 1 .. w
      <4> HIDE DEF lo, hi
      <4>1. k \in Int /\ lo <= k /\ k <= hi
        BY <2>1
      <4> QED
        BY <1>2, <2>1, <2>2, <4>1
    <3>3. a \div n = q
      <4> HIDE DEF a, q
      <4> QED
        BY <3>1, DivisionIs
    <3>4. (k - 1) \div n + 1 = b
      BY <1>1, <3>3
    <3>5. k \notin H
      BY <1>7 DEF Span
    <3> QED
      BY <1>3, <3>2, <3>4, <3>5
  <2> HIDE DEF lo, hi
  <2>4. Group(b) = lo .. hi
    BY <1>3, <2>1, <2>2
  <2>5. Set(b) = IF bits[b] = 1 THEN lo .. hi ELSE {}
    BY <2>3, <2>4
  <2>6. Cardinality(lo .. hi) = n
    BY <2>1, FS_Interval
  <2>7. Cardinality({}) = 0
    BY FS_EmptySet
  <2> DEFINE c == Cardinality(Set(b))
             g == Cardinality(Group(b))
  <2>8. g = n /\ c = (IF bits[b] = 1 THEN n ELSE 0)
    BY <2>4, <2>5, <2>6, <2>7
  <2> HIDE DEF c, g
  <2>9. (IF 2 * c > g THEN 1 ELSE 0) = bits[b]
    BY <1>1, <2>8
  <2> QED
    BY <2>9 DEF c, g
<1>8. \A b \in 1 .. m : H \cap Span(b, n) = {} => word[b] = bits[b]
  BY <1>6, <1>7
<1> QED
  BY <1>5, <1>8 DEF word, s, sent, m

\* What was sampled is read back.
LEMMA InterpretSamples ==
  ASSUME NEW bits \in Seq(Bit), NEW n \in Nat, n > 0
  PROVE  Interpret(Samples(bits, n), n) = bits
<1> DEFINE s == Samples(bits, n)
<1>1. s \in Seq(Bit)
  BY SamplesProperties
<1>2. Flip(s, {}) = s
  <2> HIDE DEF s
  <2> QED
    BY <1>1, FlipNothing
<1>3. \A b : {} \cap Span(b, n) = {}
  OBVIOUS
<1>4. /\ Interpret(Flip(s, {}), n) \in Seq(Bit) /\ Len(Interpret(Flip(s, {}), n)) = Len(bits)
      /\ \A b \in 1 .. Len(bits) : Interpret(Flip(s, {}), n)[b] = bits[b]
  BY <1>3, InterpretFlipped
<1> HIDE DEF s
<1>5. Interpret(s, n) = bits
  BY <1>2, <1>4, SeqEqual
<1> QED
  BY <1>5 DEF s

-----------------------------------------------------------------------------
(* The correlation receiver *)

\* No correlation exceeds the number of ones in the pattern.
LEMMA CorrelationBound ==
  ASSUME NEW s, NEW m \in Nat, NEW ones \in SUBSET (1 .. m), NEW o
  PROVE  /\ Correlation(s, ones, o) \in 0 .. m
         /\ Correlation(s, ones, o) <= Cardinality(ones)
<1> DEFINE both == {k \in ones : s[o + k] = 1}
<1>1. Correlation(s, ones, o) = Cardinality(both) /\ both \subseteq ones
  BY DEF Correlation
<1> HIDE DEF both
<1>2. IsFiniteSet(1 .. m) /\ Cardinality(1 .. m) = m
  <2>1. 1 \in Int /\ m \in Int
    OBVIOUS
  <2>2. IsFiniteSet(1 .. m) /\ Cardinality(1 .. m) = IF 1 > m THEN 0 ELSE m - 1 + 1
    BY <2>1, FS_Interval
  <2> QED
    BY <2>2
<1>3. IsFiniteSet(ones) /\ Cardinality(ones) <= m
  BY <1>2, FS_Subset
<1>4. IsFiniteSet(both) /\ Cardinality(both) <= Cardinality(ones)
  BY <1>1, <1>3, FS_Subset
<1>5. Cardinality(ones) \in Nat /\ Cardinality(both) \in Nat
  BY <1>3, <1>4, FS_CardinalityType
<1> QED
  BY <1>1, <1>3, <1>4, <1>5

\* The best offset is the first of those with the highest correlation.
LEMMA BestOffsetProperties ==
  ASSUME NEW s \in Seq(Bit), NEW pattern \in Seq(Bit), Len(pattern) <= Len(s)
  PROVE  /\ BestOffset(s, pattern) \in 0 .. Len(s) - Len(pattern)
         /\ \A o \in 0 .. Len(s) - Len(pattern) :
              /\ Correlation(s, Ones(pattern), o) <= Correlation(s, Ones(pattern), BestOffset(s, pattern))
              /\ Correlation(s, Ones(pattern), o) = Correlation(s, Ones(pattern), BestOffset(s, pattern))
                   => BestOffset(s, pattern) <= o
<1> DEFINE ones == Ones(pattern)
           m == Len(pattern)
           O == Offsets(s, pattern)
           C(o) == Correlation(s, ones, o)
           scored == {<<C(o), o>> : o \in O}
           values == {score[1] : score \in scored}
           peak == Max(values)
           best == {score[2] : score \in {t \in scored : t[1] = peak}}
<1>1. m \in Nat /\ ones \in SUBSET (1 .. m) /\ Len(s) \in Nat
  BY OnesType
<1>2. O = 0 .. Len(s) - m /\ O \in SUBSET Nat /\ 0 \in O
  BY <1>1 DEF Offsets
<1>3. \A o \in O : C(o) \in 0 .. m
  <2> HIDE DEF m, ones
  <2> QED
    BY <1>1, CorrelationBound
<1>4. BestOffset(s, pattern) = Min(best)
  BY DEF BestOffset
<1> HIDE DEF ones, m, O, C
<1>5. values = {C(o) : o \in O}
  <2>1. \A score \in scored : \E o \in O : score[1] = C(o)
    OBVIOUS
  <2>2. \A o \in O : \E score \in scored : score[1] = C(o)
    <3> SUFFICES ASSUME NEW o \in O PROVE \E score \in scored : score[1] = C(o)
      OBVIOUS
    <3>1. <<C(o), o>> \in scored /\ <<C(o), o>>[1] = C(o)
      OBVIOUS
    <3> QED
      BY <3>1
  <2> HIDE DEF scored
  <2> QED
    BY <2>1, <2>2
<1>6. best = {o \in O : C(o) = peak}
  <2> HIDE DEF peak
  <2> DEFINE at == {t \in scored : t[1] = peak}
  <2>1. \A t \in at : t[2] \in O /\ C(t[2]) = peak
    OBVIOUS
  <2>2. \A o \in O : C(o) = peak => \E t \in at : t[2] = o
    <3> SUFFICES ASSUME NEW o \in O, C(o) = peak PROVE \E t \in at : t[2] = o
      OBVIOUS
    <3>1. <<C(o), o>> \in scored /\ <<C(o), o>>[1] = peak /\ <<C(o), o>>[2] = o
      OBVIOUS
    <3> QED
      BY <3>1
  <2> HIDE DEF at
  <2>3. best = {t[2] : t \in at}
    BY DEF at
  <2> HIDE DEF best
  <2> QED
    BY <2>1, <2>2, <2>3
<1>7. values \in SUBSET (0 .. m) /\ values # {}
  BY <1>2, <1>3, <1>5
<1> HIDE DEF scored, values
<1>8. PICK v \in values : \A y \in values : y <= v
  BY <1>1, <1>7, MaximumExists
<1>9. peak \in values /\ \A y \in values : peak >= y
  <2>1. \A y \in values : v >= y
    BY <1>1, <1>7, <1>8
  <2> QED
    BY <2>1 DEF Max
<1> HIDE DEF peak
<1>10. best \in SUBSET Nat /\ best # {}
  BY <1>2, <1>5, <1>6, <1>9
<1> HIDE DEF best
<1>11. PICK x \in best : \A y \in best : x <= y
  BY <1>10, MinimumExists
<1> DEFINE b == Min(best)
<1>12. b \in best /\ \A y \in best : b <= y
  BY <1>11 DEF Min
<1> HIDE DEF b
<1>13. b \in O /\ C(b) = peak
  BY <1>6, <1>12
<1>14. ASSUME NEW o \in O PROVE C(o) <= C(b) /\ (C(o) = C(b) => b <= o)
  <2>1. C(o) \in values /\ peak \in 0 .. m /\ C(o) \in 0 .. m
    BY <1>3, <1>5, <1>7, <1>9
  <2>2. C(o) <= peak
    BY <1>1, <1>9, <2>1
  <2>3. C(o) = peak => o \in best
    BY <1>6
  <2> QED
    BY <1>12, <1>13, <2>2, <2>3
<1>15. BestOffset(s, pattern) = b
  BY <1>4 DEF b
<1> QED
  BY <1>2, <1>13, <1>14, <1>15 DEF C, O, ones, m

-----------------------------------------------------------------------------
(* The frame *)

\* Frame, for any data.
FrameOf(data) == gold_sequence \o data \o CalculateCrc(data, crc_generator)

\* A frame holds the Gold sequence, the data and the CRC, in that order.
LEMMA FrameProperties ==
  ASSUME NEW data \in Seq(Bit)
  PROVE  /\ FrameOf(data) \in Seq(Bit)
         /\ crcLen \in Nat /\ Len(data) \in Nat /\ length \in Nat
         /\ Len(FrameOf(data)) = length + Len(data) + crcLen
         /\ \A k \in 1 .. length : FrameOf(data)[k] = gold_sequence[k]
         /\ \A k \in 1 .. Len(data) : FrameOf(data)[length + k] = data[k]
         /\ \A k \in 1 .. crcLen :
              FrameOf(data)[length + Len(data) + k] = CalculateCrc(data, crc_generator)[k]
<1> DEFINE crc == CalculateCrc(data, crc_generator)
           d == Len(data)
           head == gold_sequence \o data
           frame == head \o crc
<1>1. IsGenerator(crc_generator)
  BY GeneratorAssumption
<1>2. crc \in Seq(Bit) /\ Len(crc) = crcLen /\ crcLen \in Nat
  <2>1. crc \in Seq(Bit) /\ Len(crc) = Len(crc_generator) - 1
    BY <1>1, CrcBits
  <2>2. Len(crc_generator) \in Nat /\ Len(crc_generator) > 1
    BY <1>1, GeneratorOnes
  <2> QED
    BY <2>1, <2>2 DEF crcLen
<1>3. gold_sequence \in Seq(Bit) /\ Len(gold_sequence) = length /\ length \in Nat /\ d \in Nat
  BY GoldType, LengthAssumption, LenProperties
<1>4. FrameOf(data) = frame
  BY DEF FrameOf
<1> HIDE DEF crc
<1>5. /\ head \in Seq(Bit) /\ Len(head) = length + d
      /\ \A k \in 1 .. length + d :
           head[k] = IF k <= length THEN gold_sequence[k] ELSE data[k - length]
  BY <1>3, ConcatProperties
<1> HIDE DEF head, d
<1>6. /\ frame \in Seq(Bit) /\ Len(frame) = length + d + crcLen
      /\ \A k \in 1 .. length + d + crcLen :
           frame[k] = IF k <= length + d THEN head[k] ELSE crc[k - (length + d)]
  <2> DEFINE h == length + d
  <2>1. head \in Seq(Bit) /\ Len(head) = h /\ crc \in Seq(Bit) /\ Len(crc) = crcLen
    BY <1>2, <1>5
  <2> HIDE DEF h
  <2>2. /\ head \o crc \in Seq(Bit) /\ Len(head \o crc) = Len(head) + Len(crc)
        /\ \A k \in 1 .. Len(head) + Len(crc) :
             (head \o crc)[k] = IF k <= Len(head) THEN head[k] ELSE crc[k - Len(head)]
    BY <2>1, ConcatProperties
  <2> QED
    BY <2>1, <2>2 DEF h
<1> HIDE DEF frame
<1>7. ASSUME NEW k \in 1 .. length PROVE frame[k] = gold_sequence[k]
  <2>1. k \in 1 .. length + d + crcLen /\ k \in 1 .. length + d /\ k <= length + d /\ k <= length
    BY <1>2, <1>3
  <2> QED
    BY <1>5, <1>6, <2>1
<1>8. ASSUME NEW k \in 1 .. d PROVE frame[length + k] = data[k]
  <2> DEFINE p == length + k
  <2>1. /\ p \in 1 .. length + d + crcLen /\ p \in 1 .. length + d
        /\ p <= length + d /\ ~(p <= length) /\ p - length = k
    BY <1>2, <1>3
  <2> HIDE DEF p
  <2>2. frame[p] = data[k]
    BY <1>5, <1>6, <2>1
  <2> QED
    BY <2>2 DEF p
<1>9. ASSUME NEW k \in 1 .. crcLen PROVE frame[length + d + k] = crc[k]
  <2> DEFINE p == length + d + k
  <2>1. p \in 1 .. length + d + crcLen /\ ~(p <= length + d) /\ p - (length + d) = k
    BY <1>2, <1>3
  <2> HIDE DEF p
  <2>2. frame[p] = crc[k]
    BY <1>6, <2>1
  <2> QED
    BY <2>2 DEF p
<1> QED
  BY <1>2, <1>3, <1>4, <1>6, <1>7, <1>8, <1>9 DEF crc, d

\* What the receiver cuts out of the bits it has read: everything behind the
\* place of the Gold sequence, of which the last bits are taken for the CRC.
LEMMA CheckedBits ==
  ASSUME NEW bits \in Seq(Bit), NEW d \in Nat, Len(bits) = length + d + crcLen
  PROVE  /\ Data(bits) \in Seq(Bit) /\ Len(Data(bits)) = d
         /\ \A k \in 1 .. d : Data(bits)[k] = bits[length + k]
         /\ DataWithCrc(bits) \in Seq(Bit) /\ Len(DataWithCrc(bits)) = d + crcLen
         /\ \A k \in 1 .. d + crcLen : DataWithCrc(bits)[k] = bits[length + k]
<1> DEFINE N == Len(bits)
           first == SubSeq(bits, length + 1, length + d)
           second == SubSeq(bits, length + d + 1, N)
<1>1. crcLen \in Nat /\ length \in Nat /\ N \in Nat /\ N = length + d + crcLen
  <2>1. Len(crc_generator) \in Nat /\ Len(crc_generator) > 1
    BY GeneratorAssumption, GeneratorOnes
  <2> QED
    BY <2>1, LengthAssumption DEF crcLen
<1>2. \A k \in 1 .. N : bits[k] \in Bit
  BY ElementOfSeq
<1> HIDE DEF N
<1>3. first \in Seq(Bit) /\ Len(first) = d /\ \A k \in 1 .. d : first[k] = bits[length + k]
  <2> DEFINE lo == length + 1
             hi == length + d
  <2>1. lo \in Int /\ hi \in Int /\ hi - lo + 1 = d /\ (IF lo <= hi THEN hi - lo + 1 ELSE 0) = d
    BY <1>1
  <2>2. \A k \in lo .. hi : bits[k] \in Bit
    BY <1>1, <1>2
  <2>3. \A k \in 1 .. d : lo + k - 1 = length + k
    BY <1>1
  <2> HIDE DEF lo, hi
  <2>4. /\ SubSeq(bits, lo, hi) \in Seq(Bit) /\ Len(SubSeq(bits, lo, hi)) = d
        /\ \A k \in 1 .. d : SubSeq(bits, lo, hi)[k] = bits[lo + k - 1]
    BY <2>1, <2>2, SubSeqProperties
  <2> HIDE DEF first
  <2> QED
    BY <2>3, <2>4 DEF lo, hi, first
<1>4. /\ second \in Seq(Bit) /\ Len(second) = crcLen
      /\ \A k \in 1 .. crcLen : second[k] = bits[length + d + k]
  <2> DEFINE lo == length + d + 1
  <2>1. lo \in Int /\ N \in Int /\ N - lo + 1 = crcLen
        /\ (IF lo <= N THEN N - lo + 1 ELSE 0) = crcLen
    BY <1>1
  <2>2. \A k \in lo .. N : bits[k] \in Bit
    BY <1>1, <1>2
  <2>3. \A k \in 1 .. crcLen : lo + k - 1 = length + d + k
    BY <1>1
  <2> HIDE DEF lo
  <2>4. /\ SubSeq(bits, lo, N) \in Seq(Bit) /\ Len(SubSeq(bits, lo, N)) = crcLen
        /\ \A k \in 1 .. crcLen : SubSeq(bits, lo, N)[k] = bits[lo + k - 1]
    BY <2>1, <2>2, SubSeqProperties
  <2> HIDE DEF second
  <2> QED
    BY <2>3, <2>4 DEF lo, second
<1>5. N - crcLen = length + d /\ N - crcLen + 1 = length + d + 1
  BY <1>1
<1>6. Data(bits) = first
  BY <1>5 DEF Data, N
<1>7. DataWithCrc(bits) = first \o second
  BY <1>5, <1>6 DEF DataWithCrc, N
<1> HIDE DEF first, second
<1>8. /\ first \o second \in Seq(Bit) /\ Len(first \o second) = d + crcLen
      /\ \A k \in 1 .. d + crcLen : (first \o second)[k] = IF k <= d THEN first[k] ELSE second[k - d]
  BY <1>1, <1>3, <1>4, ConcatProperties
<1>9. ASSUME NEW k \in 1 .. d + crcLen PROVE (first \o second)[k] = bits[length + k]
  <2>1. CASE k <= d
    <3>1. k \in 1 .. d
      BY <1>1, <2>1
    <3> QED
      BY <1>3, <1>8, <2>1, <3>1
  <2>2. CASE ~(k <= d)
    <3> DEFINE j == k - d
    <3>1. j \in 1 .. crcLen /\ length + d + j = length + k
      BY <1>1, <2>2
    <3>2. (first \o second)[k] = second[j]
      BY <1>8, <2>2
    <3> HIDE DEF j
    <3> QED
      BY <1>4, <3>1, <3>2
  <2> QED
    BY <2>1, <2>2
<1> QED
  BY <1>3, <1>6, <1>7, <1>8, <1>9

\* Of the frame itself that is the data and its CRC.
LEMMA FrameData ==
  ASSUME NEW data \in Seq(Bit)
  PROVE  /\ Data(FrameOf(data)) = data
         /\ DataWithCrc(FrameOf(data)) = WithCrc(data, crc_generator)
<1> DEFINE frame == FrameOf(data)
           d == Len(data)
           crc == CalculateCrc(data, crc_generator)
<1>1. /\ frame \in Seq(Bit) /\ crcLen \in Nat /\ d \in Nat /\ length \in Nat
      /\ Len(frame) = length + d + crcLen
      /\ \A k \in 1 .. d : frame[length + k] = data[k]
      /\ \A k \in 1 .. crcLen : frame[length + d + k] = crc[k]
  BY FrameProperties
<1>2. crc \in Seq(Bit) /\ Len(crc) = crcLen
  BY GeneratorAssumption, CrcBits DEF crcLen
<1>3. data \in Seq(Bit) /\ Len(data) = d
  OBVIOUS
<1> HIDE DEF frame, d, crc
<1>4. /\ Data(frame) \in Seq(Bit) /\ Len(Data(frame)) = d
      /\ \A k \in 1 .. d : Data(frame)[k] = frame[length + k]
      /\ DataWithCrc(frame) \in Seq(Bit) /\ Len(DataWithCrc(frame)) = d + crcLen
      /\ \A k \in 1 .. d + crcLen : DataWithCrc(frame)[k] = frame[length + k]
  BY <1>1, CheckedBits
<1>5. Data(frame) = data
  BY <1>1, <1>3, <1>4, SeqEqual
<1>6. /\ data \o crc \in Seq(Bit) /\ Len(data \o crc) = d + crcLen
      /\ \A k \in 1 .. d + crcLen : (data \o crc)[k] = IF k <= d THEN data[k] ELSE crc[k - d]
  BY <1>1, <1>2, <1>3, ConcatProperties
<1>7. ASSUME NEW k \in 1 .. d + crcLen PROVE DataWithCrc(frame)[k] = (data \o crc)[k]
  <2>1. CASE k <= d
    <3>1. k \in 1 .. d
      BY <1>1, <2>1
    <3> QED
      BY <1>1, <1>4, <1>6, <2>1, <3>1
  <2>2. CASE ~(k <= d)
    <3> DEFINE j == k - d
    <3>1. j \in 1 .. crcLen /\ length + d + j = length + k
      BY <1>1, <2>2
    <3>2. (data \o crc)[k] = crc[j]
      BY <1>6, <2>2
    <3> HIDE DEF j
    <3> QED
      BY <1>1, <1>4, <3>1, <3>2
  <2> QED
    BY <2>1, <2>2
<1>8. DataWithCrc(frame) = data \o crc
  BY <1>4, <1>6, <1>7, SeqEqual
<1> QED
  BY <1>5, <1>8 DEF frame, crc, WithCrc

\* Data with its own CRC is accepted.
LEMMA CodewordAccepted ==
  ASSUME NEW data \in Seq(Bit)
  PROVE  NoErrors(WithCrc(data, crc_generator), crc_generator)
<1> DEFINE word == WithCrc(data, crc_generator)
           n == Len(word)
           G == Ones(crc_generator)
           ones == Ones(word)
<1>1. IsGenerator(crc_generator) /\ crc_generator \in Seq(Bit)
  BY GeneratorAssumption, GeneratorOnes
<1>2. word \in Seq(Bit)
  BY <1>1, WithCrcOnes
<1>3. PICK f : IsDivision(f, G, ones, n) /\ f[n] = {}
  BY <1>1, CodewordDivides
<1> HIDE DEF word
<1>4. n \in Nat
  BY <1>2, LenProperties
<1>5. PICK g : IsDivision(g, G, ones, n) /\ Remainder(word, crc_generator, n) = g[n]
  BY <1>1, <1>2, <1>4, RemainderIsDivision
<1>6. g[n] = f[n]
  <2> HIDE DEF n, G, ones
  <2>1. \A k \in 0 .. n : g[k] = f[k]
    BY <1>3, <1>4, <1>5, DivisionUnique
  <2> QED
    BY <1>4, <2>1
<1>7. Remainder(word, crc_generator, Len(word)) = {}
  BY <1>3, <1>5, <1>6
<1>8. NoErrors(word, crc_generator)
  BY <1>1, <1>2, <1>7, NoErrorsMeans
<1> QED
  BY <1>8 DEF word

\* The samples of a frame begin with the pattern.
LEMMA PatternLeads ==
  ASSUME NEW data \in Seq(Bit), NEW n \in Nat, n > 0
  PROVE  /\ Samples(FrameOf(data), n) \in Seq(Bit)
         /\ Samples(gold_sequence, n) \in Seq(Bit)
         /\ Len(Samples(gold_sequence, n)) <= Len(Samples(FrameOf(data), n))
         /\ \A k \in Ones(Samples(gold_sequence, n)) : Samples(FrameOf(data), n)[k] = 1
<1> DEFINE frame == FrameOf(data)
           s == Samples(frame, n)
           pattern == Samples(gold_sequence, n)
           ones == Ones(pattern)
           m == n * length
<1>1. /\ frame \in Seq(Bit) /\ length \in Nat /\ Len(frame) \in Nat /\ length <= Len(frame)
      /\ \A k \in 1 .. length : frame[k] = gold_sequence[k]
  <2>1. /\ frame \in Seq(Bit) /\ length \in Nat /\ crcLen \in Nat /\ Len(data) \in Nat
        /\ Len(frame) = length + Len(data) + crcLen
        /\ \A k \in 1 .. length : frame[k] = gold_sequence[k]
    BY FrameProperties
  <2> HIDE DEF frame
  <2> QED
    BY <2>1
<1>2. gold_sequence \in Seq(Bit) /\ Len(gold_sequence) = length
  BY GoldType
<1> HIDE DEF frame
<1>3. /\ s \in Seq(Bit) /\ Len(s) = n * Len(frame) /\ n * Len(frame) \in Nat
      /\ \A k \in 1 .. n * Len(frame) : s[k] = frame[(k - 1) \div n + 1]
  BY <1>1, SamplesProperties
<1>4. /\ pattern \in Seq(Bit) /\ Len(pattern) = m /\ m \in Nat
      /\ \A k \in 1 .. m : (k - 1) \div n + 1 \in 1 .. length
                           /\ pattern[k] = gold_sequence[(k - 1) \div n + 1]
  BY <1>2, SamplesProperties
<1>5. m <= n * Len(frame)
  BY <1>1, TimesMonotonic
<1>6. ones \in SUBSET (1 .. m) /\ \A k \in ones : pattern[k] = 1
  BY <1>4, OnesType DEF Ones
<1> HIDE DEF m, s, pattern
<1>7. \A k \in 1 .. m : s[k] = pattern[k]
  <2> SUFFICES ASSUME NEW k \in 1 .. m PROVE s[k] = pattern[k]
    OBVIOUS
  <2> DEFINE j == (k - 1) \div n + 1
             top == n * Len(frame)
  <2>1. k \in 1 .. top
    <3> HIDE DEF top
    <3>1. top \in Nat /\ m <= top
      BY <1>3, <1>5 DEF top
    <3> QED
      BY <1>4, <3>1
  <2>2. s[k] = frame[j] /\ pattern[k] = gold_sequence[j] /\ j \in 1 .. length
    BY <1>3, <1>4, <2>1
  <2> QED
    BY <1>1, <2>2
<1> HIDE DEF ones
<1>8. s \in Seq(Bit) /\ pattern \in Seq(Bit) /\ Len(pattern) <= Len(s)
      /\ \A k \in ones : s[k] = 1
  BY <1>3, <1>4, <1>5, <1>6, <1>7
<1> QED
  BY <1>8 DEF ones, s, pattern, frame

\* The first of the highest correlations is at offset 0 when none is higher.
LEMMA PeakAtZero ==
  ASSUME NEW s \in Seq(Bit), NEW pattern \in Seq(Bit), Len(pattern) <= Len(s),
         \A o \in 0 .. Len(s) - Len(pattern) :
           Correlation(s, Ones(pattern), o) <= Correlation(s, Ones(pattern), 0)
  PROVE  BestOffset(s, pattern) = 0
<1> DEFINE m == Len(pattern)
           top == Len(s) - m
           ones == Ones(pattern)
           b == BestOffset(s, pattern)
           c == Correlation(s, ones, b)
           c0 == Correlation(s, ones, 0)
<1>1. m \in Nat /\ ones \in SUBSET (1 .. m) /\ top \in Nat
  <2>1. Len(s) \in Nat /\ Len(pattern) \in Nat
    BY LenProperties
  <2> QED
    BY <2>1, OnesType
<1>2. /\ b \in 0 .. top
      /\ \A o \in 0 .. top :
           /\ Correlation(s, ones, o) <= c
           /\ Correlation(s, ones, o) = c => b <= o
      /\ \A o \in 0 .. top : Correlation(s, ones, o) <= c0
  BY BestOffsetProperties
<1>3. \A o : Correlation(s, ones, o) \in 0 .. m
  <2> HIDE DEF m, ones
  <2> QED
    BY <1>1, CorrelationBound
<1> HIDE DEF m, top, ones, b
<1>4. c \in 0 .. m /\ c0 \in 0 .. m
  BY <1>3
<1>5. 0 \in 0 .. top /\ c0 <= c /\ (c0 = c => b <= 0) /\ c <= c0
  BY <1>1, <1>2
<1> HIDE DEF c, c0
<1>6. b <= 0
  BY <1>1, <1>4, <1>5
<1>7. b = 0
  BY <1>1, <1>2, <1>6
<1> QED
  BY <1>7 DEF b

\* At offset 0 the correlation is what noise has left of the pattern's ones.
LEMMA CorrelationAtZero ==
  ASSUME NEW s \in Seq(Bit), NEW pattern \in Seq(Bit), Len(pattern) <= Len(s),
         \A k \in Ones(pattern) : s[k] = 1, NEW H
  PROVE  /\ Correlation(Flip(s, H), Ones(pattern), 0) = Cardinality(Ones(pattern) \ H)
         /\ IsFiniteSet(Ones(pattern)) /\ Cardinality(Ones(pattern)) \in Nat
<1> DEFINE ones == Ones(pattern)
           m == Len(pattern)
           noisy == Flip(s, H)
<1>1. m \in Nat /\ Len(s) \in Nat /\ m <= Len(s) /\ ones \in SUBSET (1 .. m)
  BY OnesType
<1>2. \A k \in 1 .. Len(s) : noisy[k] = IF k \in H THEN 1 - s[k] ELSE s[k]
  BY FlipType
<1>3. IsFiniteSet(1 .. m)
  BY <1>1, FS_Interval
<1>4. \A k \in ones : s[k] = 1
  OBVIOUS
<1> HIDE DEF ones, m, noisy
<1>5. \A k \in ones : 0 + k = k /\ (noisy[k] = 1 <=> k \notin H)
  BY <1>1, <1>2, <1>4
<1>6. {k \in ones : noisy[0 + k] = 1} = ones \ H
  BY <1>5
<1>7. Correlation(noisy, ones, 0) = Cardinality(ones \ H)
  BY <1>6 DEF Correlation
<1>8. IsFiniteSet(ones) /\ Cardinality(ones) \in Nat
  BY <1>1, <1>3, FS_Subset, FS_CardinalityType
<1> QED
  BY <1>7, <1>8 DEF ones, noisy

\* In a frame of which noise spares the pattern's ones the correlation is highest
\* at offset 0: all of the ones are there, and no offset can have more.
LEMMA SparedOffset ==
  ASSUME NEW data \in Seq(Bit), NEW n \in Nat, n > 0,
         NEW H, H \cap Ones(Samples(gold_sequence, n)) = {}
  PROVE  BestOffset(Flip(Samples(FrameOf(data), n), H), Samples(gold_sequence, n)) = 0
<1> DEFINE s == Samples(FrameOf(data), n)
           pattern == Samples(gold_sequence, n)
           ones == Ones(pattern)
           noisy == Flip(s, H)
<1>1. /\ s \in Seq(Bit) /\ pattern \in Seq(Bit) /\ Len(pattern) <= Len(s)
      /\ \A k \in Ones(pattern) : s[k] = 1
  BY PatternLeads
<1> HIDE DEF s, pattern
<1>2. noisy \in Seq(Bit) /\ Len(noisy) = Len(s)
  BY <1>1, FlipType
<1>3. Correlation(noisy, ones, 0) = Cardinality(ones \ H)
  BY <1>1, CorrelationAtZero
<1>4. ones \ H = ones
  BY DEF pattern
<1>5. \A o : Correlation(noisy, ones, o) <= Cardinality(ones)
  <2>1. ones \in SUBSET (1 .. Len(pattern)) /\ Len(pattern) \in Nat
    BY <1>1, OnesType
  <2> HIDE DEF ones, noisy
  <2> QED
    BY <2>1, CorrelationBound
<1> HIDE DEF noisy
<1>6. BestOffset(noisy, pattern) = 0
  BY <1>1, <1>2, <1>3, <1>4, <1>5, PeakAtZero
<1> QED
  BY <1>6 DEF noisy, s, pattern

\* A frame without noise.
LEMMA CleanOffset ==
  ASSUME NEW data \in Seq(Bit), NEW n \in Nat, n > 0
  PROVE  BestOffset(Samples(FrameOf(data), n), Samples(gold_sequence, n)) = 0
<1>1. Samples(FrameOf(data), n) \in Seq(Bit)
  BY PatternLeads
<1>2. Flip(Samples(FrameOf(data), n), {}) = Samples(FrameOf(data), n)
  BY <1>1, FlipNothing
<1>3. BestOffset(Flip(Samples(FrameOf(data), n), {}), Samples(gold_sequence, n)) = 0
  BY SparedOffset
<1> QED
  BY <1>2, <1>3

-----------------------------------------------------------------------------
(* The link *)

\* What Receive computed from the signal.
Received ==
  /\ start_idx = BestOffset(signal, Samples(gold_sequence, samples_per_bit))
  /\ decoded_bits = Interpret(SubSeq(signal, start_idx + 1, Len(signal)), samples_per_bit)
  /\ verdict = IF NoErrors(DataWithCrc(decoded_bits), crc_generator)
               THEN "no errors" ELSE "errors"

\* What is on the air is as long as the frame sent, and the frame's own samples
\* until noise hits them; what was received was computed from it.
LinkInv ==
  /\ bit_sequence \in Message /\ samples_per_bit \in SamplesPerBit
  /\ stage \in {"enter", "air", "done"}
  /\ stage # "enter" =>
       /\ signal \in Seq(Bit)
       /\ Len(signal) = samples_per_bit * Len(FrameOf(bit_sequence))
       /\ hit = {} => signal = Samples(FrameOf(bit_sequence), samples_per_bit)
  /\ stage = "done" => Received

\* Nothing is on the air at first.
LEMMA LinkInvInit == Init => LinkInv
BY DEF Init, LinkInv

\* Noise keeps the length, and only it changes the samples; what was received
\* stays as computed.
LEMMA LinkInvNext == LinkInv /\ [Next]_vars => LinkInv'
<1> SUFFICES ASSUME LinkInv, [Next]_vars PROVE LinkInv'
  OBVIOUS
<1>1. bit_sequence \in Seq(Bit) /\ samples_per_bit \in Nat /\ samples_per_bit > 0
  BY MessageAssumption, SamplesAssumption DEF LinkInv
<1>2. CASE Transmit
  <2> DEFINE sent == Samples(FrameOf(bit_sequence), samples_per_bit)
  <2>1. sent \in Seq(Bit) /\ Len(sent) = samples_per_bit * Len(FrameOf(bit_sequence))
    BY <1>1, FrameProperties, SamplesProperties
  <2>2. signal' = sent /\ stage' = "air" /\ UNCHANGED <<bit_sequence, samples_per_bit>>
    BY <1>2 DEF Transmit, Frame, FrameOf
  <2> HIDE DEF sent
  <2>3. /\ signal' \in Seq(Bit)
        /\ Len(signal') = samples_per_bit' * Len(FrameOf(bit_sequence'))
    BY <2>1, <2>2
  <2>4. signal' = Samples(FrameOf(bit_sequence'), samples_per_bit')
    BY <2>2 DEF sent
  <2> QED
    BY <2>2, <2>3, <2>4 DEF LinkInv
<1>3. CASE Noise
  <2>1. /\ stage = "air" /\ hit = {}
        /\ signal' = [k \in DOMAIN signal |-> IF k \in hit' THEN 1 - signal[k] ELSE signal[k]]
        /\ UNCHANGED <<stage, bit_sequence, samples_per_bit>>
    BY <1>3 DEF Noise
  <2>2. /\ signal \in Seq(Bit)
        /\ Len(signal) = samples_per_bit * Len(FrameOf(bit_sequence))
        /\ signal = Samples(FrameOf(bit_sequence), samples_per_bit)
    BY <2>1 DEF LinkInv
  <2>3. /\ DOMAIN signal = 1 .. Len(signal) /\ Len(signal) \in Nat
        /\ signal = [k \in 1 .. Len(signal) |-> signal[k]]
        /\ \A k \in 1 .. Len(signal) : signal[k] \in Bit
    BY <2>2, LenProperties, ElementOfSeq
  <2>4. signal' \in Seq(Bit) /\ Len(signal') = Len(signal)
    <3> DEFINE n == Len(signal)
               noisy == [k \in 1 .. n |-> IF k \in hit' THEN 1 - signal[k] ELSE signal[k]]
    <3>1. noisy \in [1 .. n -> Bit]
      BY <2>3 DEF Bit
    <3>2. signal' = noisy
      BY <2>1, <2>3
    <3> HIDE DEF n, noisy
    <3>3. noisy \in Seq(Bit) /\ Len(noisy) = n
      BY <2>3, <3>1, SeqDef, LenProperties DEF n
    <3> QED
      BY <3>2, <3>3 DEF n
  <2>5. hit' = {} => signal' = signal
    BY <2>1, <2>3
  <2> QED
    BY <2>1, <2>2, <2>4, <2>5 DEF LinkInv
<1>4. CASE Receive
  <2>1. stage = "air" /\ stage' = "done" /\ UNCHANGED <<bit_sequence, samples_per_bit, signal, hit>>
    BY <1>4 DEF Receive
  <2>2. Received'
    BY <1>4, <2>1 DEF Receive, Received
  <2> QED
    BY <2>1, <2>2 DEF LinkInv
<1>5. CASE UNCHANGED vars
  <2>1. Received => Received'
    BY <1>5 DEF Received, vars
  <2> QED
    BY <1>5, <2>1 DEF LinkInv, vars
<1> QED
  BY <1>2, <1>3, <1>4, <1>5 DEF Next

\* Wherever the correlation peaks, a whole Gold sequence's worth of samples lies
\* behind it: the bits read from there are enough to hold a CRC.
LEMMA ReceivedType ==
  ASSUME NEW s \in Seq(Bit), NEW n \in Nat, n > 0, NEW m \in Nat, length <= m,
         Len(s) = n * m, NEW o \in 0 .. Len(s) - n * length
  PROVE  /\ Interpret(SubSeq(s, o + 1, Len(s)), n) \in Seq(Bit)
         /\ length <= Len(Interpret(SubSeq(s, o + 1, Len(s)), n))
<1> DEFINE w == Len(s)
           r == n * length
           rest == SubSeq(s, o + 1, w)
           bits == Interpret(rest, n)
           l == Len(rest)
           a == l + n - 1
           N == a \div n
<1>1. length \in Nat /\ w \in Nat /\ r \in Nat /\ o \in Nat /\ o <= w - r
  <2>1. length \in Nat /\ w \in Nat
    BY LengthAssumption, LenProperties
  <2> QED
    BY <2>1
<1>2. \A k \in 1 .. w : s[k] \in Bit
  BY ElementOfSeq
<1> HIDE DEF w, r
<1>3. rest \in Seq(Bit) /\ l = w - o
  <2> DEFINE lo == o + 1
  <2>1. lo \in Int /\ w \in Int /\ (IF lo <= w THEN w - lo + 1 ELSE 0) = w - o
        /\ lo >= 1
    BY <1>1
  <2> HIDE DEF lo
  <2>2. \A k \in lo .. w : s[k] \in Bit
    BY <1>1, <1>2, <2>1
  <2>3. SubSeq(s, lo, w) \in Seq(Bit) /\ Len(SubSeq(s, lo, w)) = w - o
    BY <2>1, <2>2, SubSeqProperties
  <2> QED
    BY <2>3 DEF lo
<1> HIDE DEF rest, l
<1>4. bits \in Seq(Bit) /\ Len(bits) = N
  BY <1>3, InterpretType DEF l
<1>5. a \in Nat /\ a >= r + n - 1
  BY <1>1, <1>3
<1> HIDE DEF a
<1>6. N \in Nat /\ a < n * N + n
  BY <1>5, DivisionProperties
<1> HIDE DEF N, bits
<1>7. length <= N
  <2> SUFFICES ASSUME N < length PROVE FALSE
    BY <1>1, <1>6
  <2>1. n * (N + 1) <= n * length /\ n * (N + 1) = n * N + n
    BY <1>1, <1>6, TimesMonotonic
  <2>2. n * N \in Nat /\ n * N + n <= r
    BY <1>6, <2>1 DEF r
  <2> QED
    BY <1>1, <1>5, <1>6, <2>2
<1> QED
  BY <1>4, <1>7 DEF bits, rest, w

\* Of bits enough to hold a CRC the receiver checks a word that ends in one.
LEMMA CheckedType ==
  ASSUME NEW bits \in Seq(Bit), length <= Len(bits)
  PROVE  /\ DataWithCrc(bits) \in Seq(Bit)
         /\ crcLen \in Nat /\ crcLen <= Len(DataWithCrc(bits))
<1> DEFINE n == Len(bits)
           data == SubSeq(bits, length + 1, n - crcLen)
           crc == SubSeq(bits, n - crcLen + 1, n)
<1>1. crcLen \in Nat /\ crcLen <= length /\ length \in Nat /\ n \in Nat /\ length <= n
  <2>1. Len(crc_generator) \in Nat /\ Len(crc_generator) > 1
    BY GeneratorAssumption, GeneratorOnes
  <2>2. n \in Nat
    BY LenProperties
  <2> QED
    BY <2>1, <2>2, LengthAssumption DEF crcLen
<1>2. \A k \in 1 .. n : bits[k] \in Bit
  BY ElementOfSeq
<1> HIDE DEF n
<1>3. data \in Seq(Bit)
  <2> DEFINE lo == length + 1
             hi == n - crcLen
  <2>1. lo \in Int /\ hi \in Int /\ \A k \in lo .. hi : bits[k] \in Bit
    BY <1>1, <1>2
  <2> HIDE DEF lo, hi
  <2>2. SubSeq(bits, lo, hi) \in Seq(Bit)
    BY <2>1, SubSeqProperties
  <2> QED
    BY <2>2 DEF lo, hi
<1>4. crc \in Seq(Bit) /\ Len(crc) = crcLen
  <2> DEFINE lo == n - crcLen + 1
  <2>1. /\ lo \in Int /\ n \in Int /\ \A k \in lo .. n : bits[k] \in Bit
        /\ (IF lo <= n THEN n - lo + 1 ELSE 0) = crcLen
    BY <1>1, <1>2
  <2> HIDE DEF lo
  <2>2. SubSeq(bits, lo, n) \in Seq(Bit) /\ Len(SubSeq(bits, lo, n)) = crcLen
    BY <2>1, SubSeqProperties
  <2> QED
    BY <2>2 DEF lo
<1> HIDE DEF data, crc
<1>5. data \o crc \in Seq(Bit) /\ Len(data \o crc) = Len(data) + crcLen /\ Len(data) \in Nat
  BY <1>3, <1>4, ConcatProperties, LenProperties
<1>6. DataWithCrc(bits) = data \o crc
  BY DEF DataWithCrc, Data, data, crc, n
<1> QED
  BY <1>1, <1>5, <1>6

\* What was read is long enough, for every signal and wherever the peak was.
LEMMA DecodedType ==
  ASSUME LinkInv, stage = "done"
  PROVE  decoded_bits \in Seq(Bit) /\ length <= Len(decoded_bits)
<1> DEFINE n == samples_per_bit
           m == Len(FrameOf(bit_sequence))
           s == signal
           o == start_idx
           pattern == Samples(gold_sequence, n)
<1>1. bit_sequence \in Seq(Bit) /\ n \in Nat /\ n > 0
  BY MessageAssumption, SamplesAssumption DEF LinkInv
<1>2. m \in Nat /\ length \in Nat /\ length <= m
  <2>1. /\ FrameOf(bit_sequence) \in Seq(Bit) /\ length \in Nat /\ crcLen \in Nat
        /\ Len(bit_sequence) \in Nat
        /\ Len(FrameOf(bit_sequence)) = length + Len(bit_sequence) + crcLen
    BY <1>1, FrameProperties
  <2> QED
    BY <2>1
<1>3. /\ s \in Seq(Bit) /\ Len(s) = n * m
      /\ o = BestOffset(s, pattern)
      /\ decoded_bits = Interpret(SubSeq(s, o + 1, Len(s)), n)
  BY DEF LinkInv, Received
<1>4. pattern \in Seq(Bit) /\ Len(pattern) = n * length
  BY <1>1, GoldType, SamplesProperties
<1> HIDE DEF n, m, s, o, pattern
<1>5. Len(pattern) <= Len(s)
  BY <1>1, <1>2, <1>3, <1>4, TimesMonotonic
<1>6. o \in 0 .. Len(s) - n * length
  <2>1. BestOffset(s, pattern) \in 0 .. Len(s) - Len(pattern)
    BY <1>3, <1>4, <1>5, BestOffsetProperties
  <2> QED
    BY <1>3, <1>4, <2>1
<1> QED
  BY <1>1, <1>2, <1>3, <1>6, ReceivedType

\* Whatever noise did to the frame: the receiver accepts exactly the words that
\* are multiples of the generator.
THEOREM AcceptedAreMultiples == Spec => []AcceptedIsMultiple
<1>1. LinkInv => AcceptedIsMultiple
  <2> DEFINE word == DataWithCrc(decoded_bits)
             n == Len(word)
  <2> SUFFICES ASSUME LinkInv, stage = "done", n \in Lengths
               PROVE  verdict = "no errors" <=> word \in Codewords
    BY DEF AcceptedIsMultiple
  <2>1. word \in Seq(Bit) /\ crcLen \in Nat /\ crcLen <= n
    BY DecodedType, CheckedType
  <2>2. verdict = "no errors" <=> NoErrors(word, crc_generator)
    BY DEF LinkInv, Received
  <2> HIDE DEF word
  <2>3. NoErrors(word, crc_generator) <=> \E Q \in SUBSET (1 .. n - crcLen) : word = Multiple(n, Q)
    BY <2>1, AcceptedMeans
  <2>4. ASSUME NEW Q \in SUBSET (1 .. n - crcLen), word = Multiple(n, Q)
        PROVE  word \in Codewords
    BY <2>4 DEF Codewords
  <2>5. ASSUME word \in Codewords
        PROVE  \E Q \in SUBSET (1 .. n - crcLen) : word = Multiple(n, Q)
    <3>1. PICK k \in Lengths : \E Q \in SUBSET (1 .. k - crcLen) : word = Multiple(k, Q)
      BY <2>5 DEF Codewords
    <3>2. PICK Q \in SUBSET (1 .. k - crcLen) : word = Multiple(k, Q)
      BY <3>1
    <3>3. k \in Nat
      <4>1. PICK data \in Message : k = Len(data) + crcLen
        BY DEF Lengths
      <4>2. Len(data) \in Nat
        BY MessageAssumption, LenProperties
      <4> QED
        BY <2>1, <4>1, <4>2
    <3>4. Q \in SUBSET (1 .. k)
      BY <2>1, <3>3
    <3>5. n = k
      BY <3>2, <3>3, <3>4, MultipleOnes
    <3> QED
      BY <3>2, <3>5
  <2> QED
    BY <2>2, <2>3, <2>4, <2>5
<1> QED
  BY <1>1, LinkInvInit, LinkInvNext, PTL DEF Spec

\* A frame without noise is found at its beginning, read back, accepted and
\* decoded to what was sent: for every message, every generator, every pair of
\* registers and every number of samples per bit.
THEOREM CleanFramesAccepted == Spec => []CleanIsAccepted
<1>1. LinkInv => CleanIsAccepted
  <2> DEFINE data == bit_sequence
             n == samples_per_bit
             s == Samples(FrameOf(data), n)
  <2> SUFFICES ASSUME LinkInv, stage = "done", hit = {}
               PROVE  verdict = "no errors" /\ Data(decoded_bits) = data
    BY DEF CleanIsAccepted
  <2>1. data \in Seq(Bit) /\ n \in Nat /\ n > 0
    BY MessageAssumption, SamplesAssumption DEF LinkInv
  <2>2. /\ signal = s
        /\ start_idx = BestOffset(s, Samples(gold_sequence, n))
        /\ decoded_bits = Interpret(SubSeq(s, start_idx + 1, Len(s)), n)
        /\ verdict = IF NoErrors(DataWithCrc(decoded_bits), crc_generator)
                     THEN "no errors" ELSE "errors"
    BY DEF LinkInv, Received
  <2> HIDE DEF data, n
  <2>3. FrameOf(data) \in Seq(Bit)
    BY <2>1, FrameProperties
  <2>4. s \in Seq(Bit) /\ Interpret(s, n) = FrameOf(data)
    BY <2>1, <2>3, SamplesProperties, InterpretSamples
  <2>5. start_idx = 0
    BY <2>1, <2>2, CleanOffset
  <2> HIDE DEF s
  <2>6. SubSeq(s, start_idx + 1, Len(s)) = s
    <3>1. start_idx + 1 = 1
      BY <2>5
    <3> QED
      BY <2>4, <3>1, WholeSubSeq
  <2>7. decoded_bits = FrameOf(data)
    BY <2>2, <2>4, <2>6
  <2> QED
    BY <2>1, <2>2, <2>7, FrameData, CodewordAccepted
<1> QED
  BY <1>1, LinkInvInit, LinkInvNext, PTL DEF Spec

-----------------------------------------------------------------------------
(* Which errors the check sees *)

\* The greatest distance between two places is below n.
Close(P, n) == \A a, b \in P : b - a < n

\* No burst within the length of the CRC escapes: a multiple of the generator
\* reaches from the first place of its first factor to the last of its last.
LEMMA BurstIsDetected ==
  ASSUME NEW data \in Seq(Bit), NEW generator, IsGenerator(generator),
         NEW word, word = WithCrc(data, generator),
         NEW P \in SUBSET (1 .. Len(word)), P # {}, Close(P, Len(generator) - 1)
  PROVE  ~NoErrors(Flip(word, P), generator)
<1> DEFINE w == Len(word)
           G == Ones(generator)
           L == Len(generator)
<1>1. w \in Nat /\ word \in Seq(Bit)
  BY WithCrcOnes, OnesType
<1>2. L \in Nat /\ L > 1 /\ G \in SUBSET (1 .. L) /\ G \in SUBSET Int /\ L \in G /\ 1 \in G
  BY GeneratorOnes
<1>3. P \in SUBSET Int /\ P \in SUBSET (1 .. w) /\ Close(P, L - 1)
  BY <1>1
<1> HIDE DEF w, G, L
<1>4. PICK g : IsDivision(g, G, P, w)
  BY <1>1, <1>2, <1>3, DivisionExists
<1>5. ASSUME g[w] = {} PROVE FALSE
  <2>1. HasQuotient(G, P, w)
    BY <1>1, <1>2, <1>3, <1>4, <1>5, QuotientOfDivision
  <2>2. PICK Q \in SUBSET (1 .. w) : P = Product(G, Q)
    BY <2>1 DEF HasQuotient
  <2>3. Q # {}
    BY <2>2, ProductEmpty
  <2>4. PICK first \in Q : \A r \in Q : first <= r
    <3>1. Q \in SUBSET Nat
      BY <1>1
    <3> QED
      BY <2>3, <3>1, MinimumExists
  <2>5. PICK final \in Q : \A r \in Q : r <= final
    <3>1. Q \in SUBSET (0 .. w)
      BY <1>1
    <3> QED
      BY <1>1, <2>3, <3>1, MaximumExists
  <2> DEFINE k == final + L - 1
  <2>6. first \in Int /\ final \in Int /\ first <= final /\ \A r \in Q : r \in Int
    BY <1>1, <2>4, <2>5
  <2>7. first \in P
    <3>1. \A r \in Q : first - r + 1 \in G => r = first
      BY <1>2, <2>4, <2>6
    <3>2. first - first + 1 \in G
      BY <1>2, <2>6
    <3>3. Reaching(G, Q, first) = {first}
      BY <2>4, <3>1, <3>2 DEF Reaching
    <3> QED
      BY <2>2, <2>4, <2>6, <3>3, ProductMember
  <2>8. k \in P
    <3>1. k \in Int /\ k - final + 1 = L
      BY <1>2, <2>6
    <3>2. \A r \in Q : k - r + 1 \in G => r = final
      BY <1>2, <2>5, <2>6
    <3>3. Reaching(G, Q, k) = {final}
      BY <1>2, <2>5, <3>1, <3>2 DEF Reaching
    <3> HIDE DEF k
    <3> QED
      BY <2>2, <2>5, <3>1, <3>3, ProductMember
  <2>9. k - first < L - 1
    <3> HIDE DEF k
    <3> QED
      BY <1>3, <2>7, <2>8 DEF Close
  <2> QED
    BY <1>2, <2>6, <2>9
<1> QED
  BY <1>3, <1>4, <1>5, ErrorDecides DEF w, G

\* The power of x is not 1 again.
PairIsSeen(generator, d) == Power(generator, d) # {0}

\* Nor does a pair at such a distance.
LEMMA PairIsDetected ==
  ASSUME NEW data \in Seq(Bit), NEW generator, IsGenerator(generator),
         NEW word, word = WithCrc(data, generator),
         \A d \in 1 .. Len(word) - 1 : PairIsSeen(generator, d),
         NEW P \in SUBSET (1 .. Len(word)), P # {},
         NEW x, NEW y, P \subseteq {x, y}
  PROVE  ~NoErrors(Flip(word, P), generator)
<1>1. Len(word) \in Nat
  BY WithCrcOnes, OnesType
<1>2. ASSUME NEW a \in 1 .. Len(word), P = {a} PROVE ~NoErrors(Flip(word, P), generator)
  BY <1>2, SingleIsDetected
<1>3. ASSUME NEW a \in 1 .. Len(word), NEW b \in 1 .. Len(word), a < b, P = {a, b}
      PROVE  ~NoErrors(Flip(word, P), generator)
  <2>1. b - a \in 1 .. Len(word) - 1
    BY <1>1, <1>3
  <2>2. NoErrors(Flip(word, {a, b}), generator) <=> Power(generator, b - a) = {0}
    BY <1>3, DoubleIsMissed
  <2> QED
    BY <1>3, <2>1, <2>2 DEF PairIsSeen
<1>4. \/ \E a \in P : P = {a}
      \/ x \in P /\ y \in P /\ x # y /\ P = {x, y}
  OBVIOUS
<1>5. CASE \E a \in P : P = {a}
  BY <1>2, <1>5
<1>6. CASE x \in P /\ y \in P /\ x # y /\ P = {x, y}
  <2>1. x \in 1 .. Len(word) /\ y \in 1 .. Len(word) /\ (x < y \/ y < x)
    BY <1>1, <1>6
  <2>2. P = {y, x}
    BY <1>6
  <2> QED
    BY <1>3, <1>6, <2>1, <2>2
<1> QED
  BY <1>4, <1>5, <1>6

-----------------------------------------------------------------------------
(* What noise does to a frame that is found *)

\* The bits of data and CRC that were read otherwise than sent.
Errors(bits, data) ==
  {k \in 1 .. Len(data) + crcLen : bits[length + k] # FrameOf(data)[length + k]}

\* The word that is checked is the one that was sent but for the errors.
LEMMA ErrorsFlip ==
  ASSUME NEW data \in Seq(Bit), NEW bits \in Seq(Bit), Len(bits) = Len(FrameOf(data))
  PROVE  /\ Errors(bits, data) \in SUBSET (1 .. Len(WithCrc(data, crc_generator)))
         /\ Len(WithCrc(data, crc_generator)) = Len(data) + crcLen
         /\ DataWithCrc(bits) = Flip(WithCrc(data, crc_generator), Errors(bits, data))
         /\ Errors(bits, data) = {} => Data(bits) = data
<1> DEFINE frame == FrameOf(data)
           word == WithCrc(data, crc_generator)
           d == Len(data)
           N == d + crcLen
           P == Errors(bits, data)
<1>1. /\ frame \in Seq(Bit) /\ crcLen \in Nat /\ d \in Nat /\ length \in Nat
      /\ Len(frame) = length + d + crcLen
  BY FrameProperties
<1>2. word \in Seq(Bit) /\ Len(word) = N
  BY GeneratorAssumption, WithCrcOnes DEF crcLen
<1>3. Data(frame) = data /\ DataWithCrc(frame) = word
  BY FrameData
<1>4. P = {k \in 1 .. N : bits[length + k] # frame[length + k]}
  BY DEF Errors
<1>5. Len(bits) = length + d + crcLen /\ data \in Seq(Bit) /\ Len(data) = d /\ N \in Nat
  BY <1>1
<1> HIDE DEF frame, word, d, P
<1>6. /\ \A k \in 1 .. d : Data(frame)[k] = frame[length + k]
      /\ \A k \in 1 .. d + crcLen : DataWithCrc(frame)[k] = frame[length + k]
  BY <1>1, CheckedBits
<1>7. /\ Data(bits) \in Seq(Bit) /\ Len(Data(bits)) = d
      /\ \A k \in 1 .. d : Data(bits)[k] = bits[length + k]
      /\ DataWithCrc(bits) \in Seq(Bit) /\ Len(DataWithCrc(bits)) = d + crcLen
      /\ \A k \in 1 .. d + crcLen : DataWithCrc(bits)[k] = bits[length + k]
  BY <1>1, <1>5, CheckedBits
<1> DEFINE read == DataWithCrc(bits)
<1> HIDE DEF N, read
<1>8. /\ Flip(word, P) \in Seq(Bit) /\ Len(Flip(word, P)) = N
      /\ \A k \in 1 .. N : Flip(word, P)[k] = IF k \in P THEN 1 - word[k] ELSE word[k]
  BY <1>2, FlipType
<1>9. /\ read \in Seq(Bit) /\ Len(read) = N
      /\ \A k \in 1 .. N : read[k] = bits[length + k] /\ word[k] = frame[length + k]
  BY <1>3, <1>6, <1>7 DEF N, read
<1>10. \A k \in 1 .. N : read[k] \in {0, 1} /\ word[k] \in {0, 1}
  BY <1>2, <1>9, ElementOfSeq DEF Bit
<1>11. ASSUME NEW k \in 1 .. N PROVE read[k] = Flip(word, P)[k]
  <2>1. k \in P <=> read[k] # word[k]
    BY <1>4, <1>9
  <2> QED
    BY <1>8, <1>10, <2>1
<1>12. read = Flip(word, P)
  BY <1>8, <1>9, <1>11, SeqEqual
<1>13. ASSUME P = {} PROVE Data(bits) = data
  <2>1. \A k \in 1 .. d : k \in 1 .. N
    BY <1>1 DEF N
  <2>2. \A k \in 1 .. d : Data(bits)[k] = data[k]
    BY <1>3, <1>4, <1>6, <1>7, <1>13, <2>1
  <2> QED
    BY <1>5, <1>7, <2>2, SeqEqual
<1>14. P \in SUBSET (1 .. Len(word))
  BY <1>2, <1>4
<1> QED
  BY <1>2, <1>12, <1>13, <1>14 DEF P, N, d, word, read

\* What Noise may hit: samples within a burst, or those of two bits.
Struck(H, n) == Close(H, Burst) \/ \E b, c \in Int : H = Span(b, n) \cup Span(c, n)

\* Two samples are at least as far apart as their bits.
LEMMA SpansOrdered ==
  ASSUME NEW n \in Nat, n > 0, NEW a \in Int, NEW b \in Int, a < b,
         NEW h \in Span(a, n), NEW k \in Span(b, n)
  PROVE  h \in Int /\ k \in Int /\ b - a <= k - h
<1> DEFINE lo == n * (b - 1)
           hi == n * a
           gap == b - 1 - a
<1>1. lo \in Int /\ hi \in Int /\ h \in Int /\ k \in Int /\ h <= hi /\ lo + 1 <= k
  BY DEF Span
<1>2. gap \in Nat /\ n * gap = lo - hi
  BY TimesDistributes
<1>3. gap <= n * gap
  <2> HIDE DEF gap
  <2>1. 1 * gap <= n * gap
    <3>1. gap * 1 <= gap * n
      BY <1>2, TimesMonotonic
    <3> QED
      BY <1>2, <3>1, TimesAssociative
  <2> QED
    BY <1>2, <2>1
<1> HIDE DEF lo, hi
<1> QED
  BY <1>1, <1>2, <1>3

\* A sample belongs to one bit.
LEMMA SpansApart ==
  ASSUME NEW n \in Nat, n > 0, NEW b \in Int, NEW c \in Int, NEW k \in Span(b, n), k \in Span(c, n)
  PROVE  b = c
<1>1. ASSUME b < c PROVE FALSE
  <2>1. c - b <= k - k /\ k \in Int
    BY <1>1, SpansOrdered
  <2> QED
    BY <1>1, <2>1
<1>2. ASSUME c < b PROVE FALSE
  <2>1. b - c <= k - k /\ k \in Int
    BY <1>2, SpansOrdered
  <2> QED
    BY <1>2, <2>1
<1> QED
  BY <1>1, <1>2

\* What is read of a frame of which the samples in H were flipped.
ReadBack(data, n, H) == Interpret(Flip(Samples(FrameOf(data), n), H), n)

\* The errors lie within a burst as well, or are at most two.
LEMMA ErrorsAreStruck ==
  ASSUME Burst \in Nat, NEW data \in Seq(Bit), NEW n \in Nat, n > 0, NEW H, Struck(H, n)
  PROVE  \/ Close(Errors(ReadBack(data, n, H), data), Burst)
         \/ \E x, y : Errors(ReadBack(data, n, H), data) \subseteq {x, y}
<1> DEFINE frame == FrameOf(data)
           bits == ReadBack(data, n, H)
           P == Errors(bits, data)
<1>1. /\ frame \in Seq(Bit) /\ crcLen \in Nat /\ Len(data) \in Nat /\ length \in Nat
      /\ Len(frame) = length + Len(data) + crcLen
  BY FrameProperties
<1>2. \A b \in 1 .. Len(frame) : H \cap Span(b, n) = {} => bits[b] = frame[b]
  <2> HIDE DEF frame
  <2>1. \A b \in 1 .. Len(frame) :
          H \cap Span(b, n) = {} => Interpret(Flip(Samples(frame, n), H), n)[b] = frame[b]
    BY <1>1, InterpretFlipped
  <2> QED
    BY <2>1 DEF frame, ReadBack
<1> HIDE DEF bits
<1>3. ASSUME NEW k \in P PROVE k \in Int /\ \E h \in H : h \in Span(length + k, n)
  <2>1. k \in Int /\ length + k \in 1 .. Len(frame) /\ bits[length + k] # frame[length + k]
    BY <1>1 DEF Errors
  <2> DEFINE b == length + k
  <2> HIDE DEF b, P
  <2>2. H \cap Span(b, n) # {}
    BY <1>2, <2>1 DEF b
  <2> QED
    BY <2>1, <2>2 DEF b
<1> HIDE DEF P
<1>4. CASE Close(H, Burst)
  <2>1. ASSUME NEW x \in P, NEW y \in P PROVE y - x < Burst
    <3>1. x \in Int /\ y \in Int /\ length + x \in Int /\ length + y \in Int
      BY <1>1, <1>3
    <3>2. PICK h \in H : h \in Span(length + x, n)
      BY <1>3
    <3>3. PICK k \in H : k \in Span(length + y, n)
      BY <1>3
    <3>4. k - h < Burst /\ h - h < Burst
      BY <1>4 DEF Close
    <3>5. h \in Int
      BY <3>1, <3>2 DEF Span
    <3>6. CASE x < y
      <4>1. length + x < length + y
        BY <1>1, <3>1, <3>6
      <4>2. k \in Int /\ (length + y) - (length + x) <= k - h
        BY <3>1, <3>2, <3>3, <4>1, SpansOrdered
      <4> QED
        BY <1>1, <3>1, <3>4, <3>5, <4>2
    <3>7. CASE ~(x < y)
      BY <3>1, <3>4, <3>5, <3>7
    <3> QED
      BY <3>6, <3>7
  <2> QED
    BY <2>1 DEF Close, P, bits
<1>5. CASE \E b, c \in Int : H = Span(b, n) \cup Span(c, n)
  <2>1. PICK b \in Int, c \in Int : H = Span(b, n) \cup Span(c, n)
    BY <1>5
  <2>2. ASSUME NEW k \in P PROVE k \in {b - length, c - length}
    <3>1. k \in Int /\ length + k \in Int
      BY <1>1, <1>3
    <3>2. PICK h \in H : h \in Span(length + k, n)
      BY <1>3
    <3>3. h \in Span(b, n) \/ h \in Span(c, n)
      BY <2>1
    <3>4. length + k = b \/ length + k = c
      BY <3>1, <3>2, <3>3, SpansApart
    <3> QED
      BY <1>1, <3>1, <3>4
  <2> QED
    BY <2>2 DEF P, bits
<1> QED
  BY <1>4, <1>5 DEF Struck

\* The signal is the frame's but for the samples that were hit, which noise
\* chose; there is no verdict before the frame is received.
NoiseInv ==
  /\ stage = "enter" => hit = {}
  /\ stage # "enter" =>
       /\ signal = Flip(Samples(FrameOf(bit_sequence), samples_per_bit), hit)
       /\ Struck(hit, samples_per_bit)
  /\ stage # "done" => verdict = "none"

\* Nothing has been hit at first.
LEMMA NoiseInvInit == Init => NoiseInv
BY DEF Init, NoiseInv

\* Noise hits the samples of a clean frame, once.
LEMMA NoiseInvNext ==
  ASSUME Burst \in Nat \ {0}
  PROVE  LinkInv /\ NoiseInv /\ [Next]_vars => NoiseInv'
<1> SUFFICES ASSUME LinkInv, NoiseInv, [Next]_vars PROVE NoiseInv'
  OBVIOUS
<1>1. bit_sequence \in Seq(Bit) /\ samples_per_bit \in Nat /\ samples_per_bit > 0
  BY MessageAssumption, SamplesAssumption DEF LinkInv
<1> DEFINE n == samples_per_bit
           sent == Samples(FrameOf(bit_sequence), n)
<1>2. sent \in Seq(Bit) /\ Flip(sent, {}) = sent
  BY <1>1, FrameProperties, SamplesProperties, FlipNothing
<1>3. CASE Transmit
  <2>1. /\ stage = "enter" /\ stage' = "air" /\ signal' = sent
        /\ UNCHANGED <<bit_sequence, samples_per_bit, hit, verdict>>
    BY <1>3 DEF Transmit, Frame, FrameOf
  <2>2. hit = {} /\ verdict = "none"
    BY <2>1 DEF NoiseInv
  <2>3. Struck({}, n)
    BY DEF Struck, Close
  <2> QED
    BY <1>2, <2>1, <2>2, <2>3 DEF NoiseInv
<1>4. CASE Noise
  <2>1. /\ stage = "air" /\ hit = {}
        /\ signal' = Flip(signal, hit')
        /\ UNCHANGED <<stage, bit_sequence, samples_per_bit, verdict>>
    BY <1>4 DEF Noise, Flip
  <2>2. signal = sent /\ verdict = "none"
    BY <2>1 DEF LinkInv, NoiseInv
  <2>3. DOMAIN signal \subseteq Int
    BY <1>2, <2>2, LenProperties
  <2>4. ASSUME NEW first \in DOMAIN signal,
               NEW more \in SUBSET {k \in DOMAIN signal : k > first /\ k < first + Burst},
               hit' = {first} \cup more
        PROVE  Struck(hit', n)
    <3>1. \A k \in hit' : k \in Int /\ first <= k /\ k < first + Burst
      BY <2>3, <2>4
    <3>2. first \in Int
      BY <2>3
    <3>3. \A a, b \in hit' : b - a < Burst
      BY <3>1, <3>2
    <3> QED
      BY <3>3 DEF Struck, Close
  <2>5. ASSUME NEW b \in 1 .. Len(signal) \div n, NEW c \in 1 .. Len(signal) \div n,
               hit' = BitSamples(b) \cup BitSamples(c)
        PROVE  Struck(hit', n)
    <3>1. b \in Int /\ c \in Int
      OBVIOUS
    <3>2. \A x \in Int : BitSamples(x) = Span(x, n)
      BY <1>1, TimesAssociative DEF BitSamples, Span
    <3> QED
      BY <2>5, <3>1, <3>2 DEF Struck
  <2>6. Struck(hit', n)
    BY <1>4, <2>4, <2>5 DEF Noise
  <2> QED
    BY <2>1, <2>2, <2>6 DEF NoiseInv
<1>5. CASE Receive
  <2>1. stage = "air" /\ stage' = "done" /\ UNCHANGED <<bit_sequence, samples_per_bit, signal, hit>>
    BY <1>5 DEF Receive
  <2> QED
    BY <2>1 DEF NoiseInv
<1>6. CASE UNCHANGED vars
  BY <1>6 DEF NoiseInv, vars
<1> QED
  BY <1>3, <1>4, <1>5, <1>6 DEF Next

\* No two errors among n bits are an order of x apart.
PairsAreSeen(n) == \A d \in 1 .. n - 1 : PairIsSeen(crc_generator, d)

\* What noise may do at once is not too much for the CRC: a burst is no longer
\* than it, and no frame so long that two errors may be an order of x apart.
NoiseWithinCrc ==
  /\ Burst \in 1 .. crcLen
  /\ \A m \in Message : PairsAreSeen(Len(m) + crcLen)

\* When the frame is found, what is accepted is what was sent.
LEMMA AcceptedFromInv ==
  ASSUME NoiseWithinCrc, LinkInv, NoiseInv, FrameIsFound, stage = "done",
         NoErrors(DataWithCrc(decoded_bits), crc_generator)
  PROVE  Data(decoded_bits) = bit_sequence
<1> DEFINE data == bit_sequence
           n == samples_per_bit
           frame == FrameOf(data)
           P == Errors(decoded_bits, data)
           word == WithCrc(data, crc_generator)
<1>1. data \in Message /\ data \in Seq(Bit) /\ n \in Nat /\ n > 0
  BY MessageAssumption, SamplesAssumption DEF LinkInv
<1>2. frame \in Seq(Bit)
  BY <1>1, FrameProperties
<1>3. /\ signal = Flip(Samples(frame, n), hit) /\ Struck(hit, n)
      /\ signal \in Seq(Bit) /\ start_idx = 0 /\ Received
  BY DEF NoiseInv, LinkInv, FrameIsFound
<1>4. decoded_bits = Interpret(signal, n)
  <2>1. SubSeq(signal, 1, Len(signal)) = signal
    BY <1>3, WholeSubSeq
  <2>2. start_idx + 1 = 1
    BY <1>3
  <2> QED
    BY <1>3, <2>1, <2>2 DEF Received
<1> HIDE DEF frame
<1>5. decoded_bits = Interpret(Flip(Samples(frame, n), hit), n)
  BY <1>3, <1>4
<1>6. decoded_bits \in Seq(Bit) /\ Len(decoded_bits) = Len(frame)
  BY <1>1, <1>2, <1>5, InterpretFlipped
<1>7. /\ P \in SUBSET (1 .. Len(word)) /\ Len(word) = Len(data) + crcLen
      /\ DataWithCrc(decoded_bits) = Flip(word, P)
      /\ P = {} => Data(decoded_bits) = data
  BY <1>1, <1>6, ErrorsFlip DEF frame
<1>8. Close(P, Burst) \/ \E x, y : P \subseteq {x, y}
  <2>1. Burst \in Nat
    BY DEF NoiseWithinCrc
  <2>2. decoded_bits = ReadBack(data, n, hit)
    BY <1>5 DEF frame, ReadBack
  <2>3. Struck(hit, n)
    BY <1>3
  <2> HIDE DEF data, n, P
  <2>4. \/ Close(Errors(decoded_bits, data), Burst)
        \/ \E x, y : Errors(decoded_bits, data) \subseteq {x, y}
    <3>1. data \in Seq(Bit) /\ n \in Nat /\ n > 0
      BY <1>1
    <3>2. \/ Close(Errors(ReadBack(data, n, hit), data), Burst)
          \/ \E x, y : Errors(ReadBack(data, n, hit), data) \subseteq {x, y}
      BY <2>1, <2>3, <3>1, ErrorsAreStruck
    <3> QED
      BY <2>2, <3>2
  <2> QED
    BY <2>4 DEF P
<1> HIDE DEF data, P, word
<1>9. ~NoErrors(Flip(word, P), crc_generator) \/ P = {}
  <2> SUFFICES ASSUME P # {} PROVE ~NoErrors(Flip(word, P), crc_generator)
    OBVIOUS
  <2>1. CASE Close(P, Burst)
    <3>1. Len(crc_generator) \in Nat /\ Burst \in Nat /\ Burst <= Len(crc_generator) - 1
      BY GeneratorAssumption, GeneratorOnes DEF NoiseWithinCrc, crcLen
    <3>2. \A a, b \in P : a \in Int /\ b \in Int
      BY <1>7
    <3>3. Close(P, Len(crc_generator) - 1)
      BY <2>1, <3>1, <3>2 DEF Close
    <3> QED
      BY <1>1, <1>7, <3>3, GeneratorAssumption, BurstIsDetected DEF word
  <2>2. CASE \E x, y : P \subseteq {x, y}
    <3>1. PICK x, y : P \subseteq {x, y}
      BY <2>2
    <3>2. \A d \in 1 .. Len(word) - 1 : PairIsSeen(crc_generator, d)
      <4>1. PairsAreSeen(Len(data) + crcLen)
        BY <1>1 DEF NoiseWithinCrc
      <4>2. PairsAreSeen(Len(word))
        BY <1>7, <4>1
      <4> QED
        BY <4>2 DEF PairsAreSeen
    <3> QED
      BY <1>1, <1>7, <3>1, <3>2, GeneratorAssumption, PairIsDetected DEF word
  <2> QED
    BY <1>8, <2>1, <2>2
<1> QED
  BY <1>7, <1>9 DEF data

\* "No errors detected!" is printed for the message that was sent and for no
\* other, as long as noise does not move the peak of the correlation: for every
\* generator and every message for which the noise modelled is within the CRC's
\* reach, and every pair of registers and number of samples per bit.
THEOREM AcceptedCorrect ==
  ASSUME NoiseWithinCrc
  PROVE  Spec => [](FrameIsFound => AcceptedIsSent)
<1>1. LinkInv /\ NoiseInv => (FrameIsFound => AcceptedIsSent)
  <2>1. LinkInv /\ NoiseInv /\ verdict = "no errors" =>
          stage = "done" /\ NoErrors(DataWithCrc(decoded_bits), crc_generator)
    BY DEF LinkInv, NoiseInv, Received
  <2> QED
    BY <2>1, AcceptedFromInv DEF AcceptedIsSent
<1>2. LinkInv /\ NoiseInv /\ [Next]_vars => NoiseInv'
  <2>1. Burst \in Nat \ {0}
    BY DEF NoiseWithinCrc
  <2> QED
    BY <2>1, NoiseInvNext
<1> QED
  BY <1>1, <1>2, LinkInvInit, LinkInvNext, NoiseInvInit, PTL DEF Spec

-----------------------------------------------------------------------------
(* Noise that does not move the peak *)

\* Noise adds to the correlation at an offset at most the samples hit that are
\* not ones of the pattern at its place.
LEMMA CorrelationGained ==
  ASSUME NEW s \in Seq(Bit), NEW pattern \in Seq(Bit), Len(pattern) <= Len(s),
         \A k \in Ones(pattern) : s[k] = 1, NEW H, IsFiniteSet(H),
         NEW o \in 0 .. Len(s) - Len(pattern)
  PROVE  /\ Correlation(Flip(s, H), Ones(pattern), o)
              <= Correlation(s, Ones(pattern), o) + Cardinality(H \ Ones(pattern))
         /\ Correlation(Flip(s, H), Ones(pattern), o) \in Nat
         /\ Correlation(s, Ones(pattern), o) \in Nat
         /\ IsFiniteSet(H \ Ones(pattern)) /\ Cardinality(H \ Ones(pattern)) \in Nat
<1> DEFINE ones == Ones(pattern)
           m == Len(pattern)
           top == Len(s)
           noisy == Flip(s, H)
           met == {k \in ones : s[o + k] = 1}
           new == {k \in ones : o + k \in H \ ones}
           both == {k \in ones : noisy[o + k] = 1}
<1>1. m \in Nat /\ top \in Nat /\ m <= top /\ ones \in SUBSET (1 .. m) /\ o \in 0 .. top - m
  BY OnesType
<1>2. \A k \in 1 .. top : noisy[k] = IF k \in H THEN 1 - s[k] ELSE s[k]
  BY FlipType
<1>3. \A k \in 1 .. top : s[k] \in {0, 1}
  BY ElementOfSeq DEF Bit
<1>4. \A k \in ones : s[k] = 1
  OBVIOUS
<1>5. /\ Correlation(noisy, ones, o) = Cardinality(both)
      /\ Correlation(s, ones, o) = Cardinality(met)
  BY DEF Correlation
<1> HIDE DEF ones, m, top, noisy
<1>6. \A k \in ones : o + k \in 1 .. top /\ k \in Int
  BY <1>1
<1>7. ASSUME NEW k \in both PROVE k \in met \cup new
  <2> DEFINE j == o + k
  <2>1. k \in ones /\ j \in 1 .. top /\ noisy[j] = 1
    BY <1>6, <1>7
  <2> HIDE DEF j
  <2>2. s[j] = 1 \/ (j \in H /\ j \notin ones)
    BY <1>2, <1>3, <1>4, <2>1
  <2> QED
    BY <2>1, <2>2 DEF j
<1>8. IsFiniteSet(ones)
  <2>1. IsFiniteSet(1 .. m)
    BY <1>1, FS_Interval
  <2> QED
    BY <1>1, <2>1, FS_Subset
<1>9. IsFiniteSet(H \ ones)
  BY FS_Difference
<1>10. Cardinality(new) <= Cardinality(H \ ones) /\ IsFiniteSet(new)
  <2> DEFINE shift == [k \in new |-> o + k]
             struck == H \ ones
  <2>1. \A k \in new : o + k \in struck
    OBVIOUS
  <2>2. \A j, k \in new : o + j = o + k => j = k
    BY <1>1, <1>6
  <2>3. shift \in Injection(new, struck)
    BY <2>1, <2>2 DEF Injection, IsInjective
  <2> HIDE DEF shift, new, struck
  <2> QED
    BY <1>9, <2>3, FS_Injection DEF struck
<1>11. IsFiniteSet(met) /\ IsFiniteSet(both)
  BY <1>8, FS_Subset
<1> HIDE DEF met, new, both
<1>12. IsFiniteSet(met \cup new) /\ Cardinality(both) <= Cardinality(met \cup new)
  <2>1. IsFiniteSet(met \cup new)
    BY <1>10, <1>11, FS_Union
  <2>2. both \in SUBSET (met \cup new)
    BY <1>7
  <2> QED
    BY <2>1, <2>2, FS_Subset
<1>13. Cardinality(met \cup new) <= Cardinality(met) + Cardinality(new)
  <2>1. Cardinality(met \cup new) = Cardinality(met) + Cardinality(new) - Cardinality(met \cap new)
    BY <1>10, <1>11, FS_Union
  <2>2. IsFiniteSet(met \cap new)
    <3>1. met \cap new \in SUBSET met
      OBVIOUS
    <3> QED
      BY <1>11, <3>1, FS_Subset
  <2>3. /\ Cardinality(met \cap new) \in Nat
        /\ Cardinality(met) \in Nat /\ Cardinality(new) \in Nat
    BY <1>10, <1>11, <2>2, FS_CardinalityType
  <2> QED
    BY <2>1, <2>3
<1>14. /\ Cardinality(met) \in Nat /\ Cardinality(new) \in Nat /\ Cardinality(both) \in Nat
       /\ Cardinality(met \cup new) \in Nat /\ Cardinality(H \ ones) \in Nat
  BY <1>9, <1>10, <1>11, <1>12, FS_CardinalityType
<1>15. Cardinality(both) <= Cardinality(met) + Cardinality(H \ ones)
  BY <1>10, <1>12, <1>13, <1>14
<1> QED
  BY <1>5, <1>9, <1>14, <1>15 DEF ones, noisy

\* A peak that stands out by as many samples as noise hits stays the first peak:
\* each of them lowers it by one or raises another by one, never both.
LEMMA StandingOffset ==
  ASSUME NEW data \in Seq(Bit), NEW n \in Nat, n > 0, NEW H, IsFiniteSet(H),
         \A o \in 1 .. Len(Samples(FrameOf(data), n)) - Len(Samples(gold_sequence, n)) :
           Correlation(Samples(FrameOf(data), n), Ones(Samples(gold_sequence, n)), o)
             + Cardinality(H) <= Cardinality(Ones(Samples(gold_sequence, n)))
  PROVE  BestOffset(Flip(Samples(FrameOf(data), n), H), Samples(gold_sequence, n)) = 0
<1> DEFINE s == Samples(FrameOf(data), n)
           pattern == Samples(gold_sequence, n)
           ones == Ones(pattern)
           noisy == Flip(s, H)
           top == Len(s) - Len(pattern)
<1>1. /\ s \in Seq(Bit) /\ pattern \in Seq(Bit) /\ Len(pattern) <= Len(s)
      /\ \A k \in Ones(pattern) : s[k] = 1
  BY PatternLeads
<1>2. \A o \in 1 .. top : Correlation(s, ones, o) + Cardinality(H) <= Cardinality(ones)
  OBVIOUS
<1> HIDE DEF s, pattern
<1>3. noisy \in Seq(Bit) /\ Len(noisy) = Len(s)
  BY <1>1, FlipType
<1>4. /\ Correlation(noisy, ones, 0) = Cardinality(ones \ H)
      /\ IsFiniteSet(ones) /\ Cardinality(ones) \in Nat
  BY <1>1, CorrelationAtZero
<1>5. \A o \in 0 .. top :
        /\ Correlation(noisy, ones, o) <= Correlation(s, ones, o) + Cardinality(H \ ones)
        /\ Correlation(noisy, ones, o) \in Nat /\ Correlation(s, ones, o) \in Nat
        /\ Cardinality(H \ ones) \in Nat
  BY <1>1, CorrelationGained
<1> HIDE DEF noisy, ones
<1>6. /\ Cardinality(ones \ H) = Cardinality(ones) - Cardinality(ones \cap H)
      /\ Cardinality(H \ ones) = Cardinality(H) - Cardinality(H \cap ones)
      /\ ones \cap H = H \cap ones
  BY <1>4, FS_Difference
<1>7. /\ Cardinality(H) \in Nat /\ Cardinality(H \cap ones) \in Nat
      /\ Cardinality(ones \ H) \in Nat
  <2>1. H \cap ones \in SUBSET H
    OBVIOUS
  <2>2. IsFiniteSet(H \cap ones) /\ IsFiniteSet(ones \ H)
    BY <1>4, <2>1, FS_Subset, FS_Difference
  <2> QED
    BY <2>2, FS_CardinalityType
<1>8. Len(s) \in Nat /\ Len(pattern) \in Nat
  BY <1>1, LenProperties
<1>9. ASSUME NEW o \in 0 .. top PROVE Correlation(noisy, ones, o) <= Correlation(noisy, ones, 0)
  <2>1. CASE o = 0
    BY <1>4, <1>7, <2>1
  <2>2. CASE o # 0
    <3>1. o \in 1 .. top
      BY <1>8, <2>2
    <3> HIDE DEF top
    <3>2. Correlation(s, ones, o) + Cardinality(H) <= Cardinality(ones)
      BY <1>2, <3>1
    <3>3. /\ Correlation(noisy, ones, o) <= Correlation(s, ones, o) + Cardinality(H \ ones)
          /\ Correlation(noisy, ones, o) \in Nat /\ Correlation(s, ones, o) \in Nat
          /\ Cardinality(H \ ones) \in Nat
      BY <1>5
    <3> DEFINE c == Correlation(noisy, ones, o)
               c0 == Correlation(noisy, ones, 0)
               was == Correlation(s, ones, o)
               all == Cardinality(ones)
               h == Cardinality(H)
               inside == Cardinality(H \cap ones)
               outside == Cardinality(H \ ones)
    <3>4. /\ was + h <= all /\ c <= was + outside
          /\ c0 = all - inside /\ outside = h - inside
          /\ c \in Nat /\ was \in Nat /\ all \in Nat /\ h \in Nat /\ inside \in Nat
      <4> HIDE DEF c0
      <4>1. c0 = Cardinality(ones \ H) /\ ones \cap H = H \cap ones
        BY <1>4, <1>6 DEF c0
      <4>2. c0 = all - inside
        BY <1>6, <4>1
      <4> QED
        BY <1>4, <1>6, <1>7, <3>2, <3>3, <4>2
    <3> HIDE DEF c, c0, was, all, h, inside, outside
    <3>5. c <= c0
      BY <3>4
    <3> QED
      BY <3>5 DEF c, c0
  <2> QED
    BY <2>1, <2>2
<1>10. BestOffset(noisy, pattern) = 0
  BY <1>1, <1>3, <1>9, PeakAtZero DEF ones
<1> QED
  BY <1>10 DEF noisy, s, pattern

\* Noise hits none of the samples that are ones of the Gold sequence.
SparesPattern == hit \cap Ones(Samples(gold_sequence, samples_per_bit)) = {}

\* In the frame as it was sent the Gold sequence correlates at its place with as
\* many more samples than at any other as noise hits.
PeakStandsOut ==
  LET sent    == Samples(FrameOf(bit_sequence), samples_per_bit)
      pattern == Samples(gold_sequence, samples_per_bit)
  IN  \A o \in 1 .. Len(sent) - Len(pattern) :
        Correlation(sent, Ones(pattern), o) + Cardinality(hit) <= Cardinality(Ones(pattern))

\* Noise hits finitely many samples, and nothing is found before it is received.
HitInv == IsFiniteSet(hit) /\ (stage # "done" => start_idx = 0)

\* Nothing is hit or found before the first step.
LEMMA HitInvInit == Init => HitInv
BY FS_EmptySet DEF Init, HitInv

\* Noise hits a burst or two samples, once.
LEMMA HitInvNext ==
  ASSUME LinkInv, NoiseInv, HitInv, [Next]_vars
  PROVE  HitInv'
<1>1. CASE Noise
  <2>1. stage = "air" /\ start_idx = 0 /\ UNCHANGED <<stage, start_idx>>
    BY <1>1 DEF Noise, HitInv
  <2>2. signal \in Seq(Bit) /\ Len(signal) \in Nat /\ DOMAIN signal = 1 .. Len(signal)
    BY <2>1, LenProperties DEF LinkInv
  <2>3. IsFiniteSet(DOMAIN signal)
    BY <2>2, FS_Interval
  <2>4. ASSUME NEW first \in DOMAIN signal,
               NEW more \in SUBSET {k \in DOMAIN signal : k > first /\ k < first + Burst},
               hit' = {first} \cup more
        PROVE  IsFiniteSet(hit')
    <3>1. hit' \in SUBSET DOMAIN signal
      BY <2>4
    <3> QED
      BY <2>3, <3>1, FS_Subset
  <2>5. ASSUME NEW b \in 1 .. Len(signal) \div samples_per_bit,
               NEW c \in 1 .. Len(signal) \div samples_per_bit,
               hit' = BitSamples(b) \cup BitSamples(c)
        PROVE  IsFiniteSet(hit')
    <3>1. samples_per_bit \in Nat
      BY SamplesAssumption DEF LinkInv
    <3>2. ASSUME NEW x \in Int PROVE IsFiniteSet(BitSamples(x))
      <4>1. (x - 1) * samples_per_bit + 1 \in Int /\ x * samples_per_bit \in Int
        BY <3>1
      <4> QED
        BY <4>1, FS_Interval DEF BitSamples
    <3>3. IsFiniteSet(BitSamples(b)) /\ IsFiniteSet(BitSamples(c))
      BY <3>2
    <3> QED
      BY <2>5, <3>3, FS_Union
  <2> QED
    BY <1>1, <2>1, <2>4, <2>5 DEF Noise, HitInv
<1>2. CASE Transmit \/ Receive \/ UNCHANGED vars
  BY <1>2 DEF HitInv, Transmit, Receive, vars
<1> QED
  BY <1>1, <1>2 DEF Next

\* A frame is found where it begins, whatever noise does to its data, its CRC
\* and the zeros of its Gold sequence, and if it does anything else, as long as
\* it hits no more samples than the peak stands out by: for every message, pair
\* of registers and number of samples per bit.
THEOREM FrameFound ==
  ASSUME Burst \in Nat \ {0}
  PROVE  Spec => [](SparesPattern \/ PeakStandsOut => FrameIsFound)
<1>1. LinkInv /\ NoiseInv /\ HitInv => (SparesPattern \/ PeakStandsOut => FrameIsFound)
  <2> SUFFICES ASSUME LinkInv, NoiseInv, HitInv, SparesPattern \/ PeakStandsOut, stage = "done"
               PROVE  start_idx = 0
    BY DEF FrameIsFound, HitInv
  <2> DEFINE data == bit_sequence
             n == samples_per_bit
  <2>1. data \in Seq(Bit) /\ n \in Nat /\ n > 0
    BY MessageAssumption, SamplesAssumption DEF LinkInv
  <2>2. /\ start_idx = BestOffset(signal, Samples(gold_sequence, n))
        /\ signal = Flip(Samples(FrameOf(data), n), hit)
    BY DEF LinkInv, Received, NoiseInv
  <2>3. IsFiniteSet(hit)
    BY DEF HitInv
  <2>4. CASE SparesPattern
    <3>1. hit \cap Ones(Samples(gold_sequence, n)) = {}
      BY <2>4 DEF SparesPattern
    <3> HIDE DEF data, n
    <3> QED
      BY <2>1, <2>2, <3>1, SparedOffset
  <2>5. CASE PeakStandsOut
    <3>1. \A o \in 1 .. Len(Samples(FrameOf(data), n)) - Len(Samples(gold_sequence, n)) :
            Correlation(Samples(FrameOf(data), n), Ones(Samples(gold_sequence, n)), o)
              + Cardinality(hit) <= Cardinality(Ones(Samples(gold_sequence, n)))
      BY <2>5 DEF PeakStandsOut
    <3> HIDE DEF data, n
    <3> QED
      BY <2>1, <2>2, <2>3, <3>1, StandingOffset
  <2> QED
    BY <2>4, <2>5
<1>2. LinkInv /\ NoiseInv /\ [Next]_vars => NoiseInv'
  BY NoiseInvNext
<1>3. LinkInv /\ NoiseInv /\ HitInv /\ [Next]_vars => HitInv'
  BY HitInvNext
<1> QED
  BY <1>1, <1>2, <1>3, LinkInvInit, LinkInvNext, NoiseInvInit, HitInvInit, PTL DEF Spec

\* Under such noise "No errors detected!" is the truth, with nothing assumed of
\* what the receiver finds.
THEOREM SparedIsSent ==
  ASSUME NoiseWithinCrc
  PROVE  Spec => [](SparesPattern \/ PeakStandsOut => AcceptedIsSent)
<1>1. Burst \in Nat \ {0}
  BY DEF NoiseWithinCrc
<1> QED
  BY <1>1, AcceptedCorrect, FrameFound, PTL
=============================================================================
