------------------------- MODULE GoldSequenceProofs -------------------------
(***************************************************************************)
(* Proofs about GoldSequence, for all registers: why the table of shifts   *)
(* that lab4.c prints closes, which sequence Gold_sequence returns, the    *)
(* period of its second register, and that check_autocorrelation may well  *)
(* compare a single shift. The lemmas about rotated sequences hold for     *)
(* sequences of any length and any elements.                               *)
(***************************************************************************)
EXTENDS GoldSequence, Arithmetic, FiniteSetTheorems, SequenceTheorems, TLAPS

Bit == {0, 1}

\* The length the program's SEQ_LENGTH stands for.
LEMMA Length == SEQ_LENGTH = 31
BY DEF SEQ_LENGTH, N

\* A sum modulo 2 is a bit.
LEMMA Sum2Type == \A j, k \in Int : Sum2(j, k) \in Bit
BY DEF Sum2, Bit

\* Whatever the number, a register is five bits.
LEMMA BitsType == \A value \in Int : Bits(value) \in [1 .. N -> Bit]
<1> SUFFICES ASSUME NEW value \in Int, NEW k \in 1 .. N
             PROVE  (value \div 2^(k - 1)) % 2 \in Bit
  BY DEF Bits
<1>1. k \in {1, 2, 3, 4, 5}
  BY DEF N
<1>2. 2^(k - 1) \in {1, 2, 4, 8, 16}
  <2>1. 2^0 = 1 /\ 2^1 = 2 /\ 2^2 = 4 /\ 2^3 = 8 /\ 2^4 = 16
    OBVIOUS
  <2>2. k - 1 = 0 \/ k - 1 = 1 \/ k - 1 = 2 \/ k - 1 = 3 \/ k - 1 = 4
    BY <1>1
  <2> HIDE DEF N
  <2> QED
    BY <2>1, <2>2, Zenon
<1>3. \A m \in {1, 2, 4, 8, 16} : (value \div m) % 2 \in Bit
  BY DEF Bit
<1> QED
  BY <1>2, <1>3

\* The sequence that begins n places later.
Rotated(s, n) == [k \in DOMAIN s |-> IF k + n <= Len(s) THEN s[k + n] ELSE s[k + n - Len(s)]]

\* A rotated sequence has the elements and the length of the sequence.
LEMMA RotatedType ==
  ASSUME NEW S, NEW s \in Seq(S), NEW n \in 0 .. Len(s)
  PROVE  Rotated(s, n) \in Seq(S) /\ Len(Rotated(s, n)) = Len(s)
<1>1. Len(s) \in Nat /\ DOMAIN s = 1 .. Len(s) /\ \A k \in 1 .. Len(s) : s[k] \in S
  BY LenProperties, ElementOfSeq
<1>2. Rotated(s, n) \in [1 .. Len(s) -> S]
  BY <1>1 DEF Rotated
<1> QED
  BY <1>1, <1>2, SeqDef

\* The bits of a shifted sequence.
LEMMA ShiftSeqBits ==
  ASSUME NEW S, NEW r \in Seq(S), r # <<>>
  PROVE  /\ ShiftSeq(r) \in Seq(S) /\ Len(ShiftSeq(r)) = Len(r)
         /\ \A k \in 1 .. Len(r) : ShiftSeq(r)[k] = IF k = Len(r) THEN r[1] ELSE r[k + 1]
<1>1. Len(r) \in Nat \ {0}
  BY EmptySeq
<1>2. /\ Head(r) \in S /\ Tail(r) \in Seq(S) /\ Len(Tail(r)) = Len(r) - 1
      /\ \A k \in 1 .. Len(r) - 1 : Tail(r)[k] = r[k + 1]
  BY HeadTailProperties
<1>3. Head(r) = r[1]
  OBVIOUS
<1> DEFINE t == Tail(r)
           h == Head(r)
<1>4. t \in Seq(S) /\ h \in S
  BY <1>2
<1>5. t \in Seq(S) /\ Len(t) = Len(r) - 1
  BY <1>2
<1> HIDE DEF t, h
<1>6. /\ Append(t, h) \in Seq(S) /\ Len(Append(t, h)) = Len(t) + 1
      /\ Append(t, h)[Len(t) + 1] = h
      /\ \A k \in 1 .. Len(t) : Append(t, h)[k] = t[k]
  BY <1>4
<1>7. ShiftSeq(r) = Append(t, h)
  BY DEF ShiftSeq, t, h
<1>8. h = r[1] /\ \A k \in 1 .. Len(r) - 1 : t[k] = r[k + 1]
  BY <1>2, <1>3 DEF t, h
<1>9. Len(t) + 1 = Len(r) /\ \A k \in 1 .. Len(r) : k # Len(r) => k \in 1 .. Len(t)
  BY <1>1, <1>5
<1>10. ASSUME NEW k \in 1 .. Len(r)
       PROVE  Append(t, h)[k] = IF k = Len(r) THEN r[1] ELSE r[k + 1]
  BY <1>1, <1>5, <1>6, <1>8, <1>9
<1> QED
  BY <1>6, <1>7, <1>9, <1>10

\* A shift of the rotated sequence rotates it once more.
LEMMA ShiftRotates ==
  ASSUME NEW S, NEW s \in Seq(S), NEW n \in 0 .. Len(s) - 1
  PROVE  ShiftSeq(Rotated(s, n)) = Rotated(s, n + 1)
<1>1. Len(s) \in Nat /\ Len(s) > 0 /\ DOMAIN s = 1 .. Len(s) /\ n \in Int /\ n + 1 \in 0 .. Len(s)
  BY LenProperties
<1>2. Rotated(s, n) \in Seq(S) /\ Len(Rotated(s, n)) = Len(s) /\ Rotated(s, n) # <<>>
  BY <1>1, RotatedType, EmptySeq
<1>3. /\ ShiftSeq(Rotated(s, n)) \in Seq(S) /\ Len(ShiftSeq(Rotated(s, n))) = Len(s)
      /\ \A k \in 1 .. Len(s) : ShiftSeq(Rotated(s, n))[k] =
                                IF k = Len(s) THEN Rotated(s, n)[1] ELSE Rotated(s, n)[k + 1]
  BY <1>2, ShiftSeqBits
<1>4. Rotated(s, n + 1) \in Seq(S) /\ Len(Rotated(s, n + 1)) = Len(s)
  BY <1>1, RotatedType
<1>5. ASSUME NEW k \in 1 .. Len(s)
      PROVE  ShiftSeq(Rotated(s, n))[k] = Rotated(s, n + 1)[k]
  <2>1. CASE k = Len(s)
    <3>1. ShiftSeq(Rotated(s, n))[k] = Rotated(s, n)[1]
      BY <1>3, <2>1
    <3>2. Rotated(s, n)[1] = s[n + 1]
      BY <1>1 DEF Rotated
    <3>3. Rotated(s, n + 1)[k] = s[n + 1]
      BY <1>1, <2>1 DEF Rotated
    <3> QED
      BY <3>1, <3>2, <3>3
  <2>2. CASE k # Len(s)
    <3>1. ShiftSeq(Rotated(s, n))[k] = Rotated(s, n)[k + 1] /\ k + 1 \in 1 .. Len(s)
      <4>1. k + 1 \in 1 .. Len(s)
        <5>1. \A m \in Nat : \A j \in 1 .. m : j # m => j + 1 \in 1 .. m
          OBVIOUS
        <5> QED
          BY <1>1, <2>2, <5>1
      <4>2. ShiftSeq(Rotated(s, n))[k] = Rotated(s, n)[k + 1]
        BY <1>3, <2>2
      <4> QED
        BY <4>1, <4>2
    <3>2. Rotated(s, n)[k + 1] = IF k + 1 + n <= Len(s) THEN s[k + 1 + n] ELSE s[k + 1 + n - Len(s)]
      BY <1>1, <3>1 DEF Rotated
    <3>3. Rotated(s, n + 1)[k] =
            IF k + (n + 1) <= Len(s) THEN s[k + (n + 1)] ELSE s[k + (n + 1) - Len(s)]
      BY <1>1 DEF Rotated
    <3>4. k + 1 + n = k + (n + 1)
      BY <1>1
    <3> QED
      BY <3>1, <3>2, <3>3, <3>4
  <2> QED
    BY <2>1, <2>2
<1> QED
  BY <1>3, <1>4, <1>5, SeqEqual

\* Rotated all the way round, a sequence is itself.
LEMMA RotatedOnce ==
  ASSUME NEW S, NEW s \in Seq(S)
  PROVE  Rotated(s, 0) = s /\ Rotated(s, Len(s)) = s
<1>1. Len(s) \in Nat /\ DOMAIN s = 1 .. Len(s) /\ s \in [1 .. Len(s) -> S]
  BY LenProperties
<1>2. Rotated(s, 0) = [k \in 1 .. Len(s) |-> s[k]]
  BY <1>1 DEF Rotated
<1>3. Rotated(s, Len(s)) = [k \in 1 .. Len(s) |-> s[k]]
  BY <1>1 DEF Rotated
<1> QED
  BY <1>1, <1>2, <1>3

\* Rotating by n in one direction or by the rest in the other compares the same
\* pairs of bits.
LEMMA AutocorrSymmetric ==
  ASSUME NEW S, NEW s \in Seq(S), NEW n \in 0 .. Len(s)
  PROVE  Autocorr(s, Rotated(s, n)) = Autocorr(s, Rotated(s, Len(s) - n))
<1> DEFINE L == Len(s)
           A == {k \in DOMAIN s : s[k] = Rotated(s, n)[k]}
           B == {k \in DOMAIN s : s[k] = Rotated(s, L - n)[k]}
           f == [k \in A |-> IF k + n <= L THEN k + n ELSE k + n - L]
<1>1. L \in Nat /\ DOMAIN s = 1 .. L /\ L - n \in 0 .. L
  BY LenProperties
<1>2. \A k \in 1 .. L : Rotated(s, n)[k] = IF k + n <= L THEN s[k + n] ELSE s[k + n - L]
  BY <1>1 DEF Rotated
<1>3. \A k \in 1 .. L : Rotated(s, L - n)[k] = IF k <= n THEN s[k + L - n] ELSE s[k - n]
  <2> TAKE k \in 1 .. L
  <2>1. Rotated(s, L - n)[k] = IF k + (L - n) <= L THEN s[k + (L - n)] ELSE s[k + (L - n) - L]
    BY <1>1 DEF Rotated
  <2>2. /\ k + (L - n) <= L <=> k <= n
        /\ k + (L - n) = k + L - n /\ k + (L - n) - L = k - n
    BY <1>1
  <2> QED
    BY <2>1, <2>2
<1>4. \A k \in A : f[k] \in B
  <2> SUFFICES ASSUME NEW k \in A PROVE f[k] \in B
    OBVIOUS
  <2>1. k \in 1 .. L /\ s[k] = Rotated(s, n)[k]
    BY <1>1
  <2>2. CASE k + n <= L
    <3>1. f[k] = k + n /\ k + n \in 1 .. L /\ s[k] = s[k + n]
      BY <1>1, <1>2, <2>1, <2>2
    <3>2. Rotated(s, L - n)[k + n] = s[k]
      <4>1. CASE k + n <= n
        BY <1>1, <2>1, <4>1
      <4>2. CASE ~(k + n <= n)
        <5>1. (k + n) - n = k
          BY <1>1, <2>1
        <5> QED
          BY <1>3, <3>1, <4>2, <5>1
      <4> QED
        BY <4>1, <4>2
    <3> QED
      BY <1>1, <3>1, <3>2
  <2>3. CASE ~(k + n <= L)
    <3>1. f[k] = k + n - L /\ k + n - L \in 1 .. L /\ s[k] = s[k + n - L]
      BY <1>1, <1>2, <2>1, <2>3
    <3>2. k + n - L <= n /\ (k + n - L) + L - n = k
      BY <1>1, <2>1
    <3>3. Rotated(s, L - n)[k + n - L] = s[k]
      BY <1>3, <3>1, <3>2
    <3> QED
      BY <1>1, <3>1, <3>3
  <2> QED
    BY <2>2, <2>3
<1>5. \A m \in B : \E k \in A : f[k] = m
  <2> SUFFICES ASSUME NEW m \in B PROVE \E k \in A : f[k] = m
    OBVIOUS
  <2>1. m \in 1 .. L /\ s[m] = Rotated(s, L - n)[m]
    BY <1>1
  <2> DEFINE k == IF m <= n THEN m + L - n ELSE m - n
  <2>2. k \in 1 .. L /\ s[m] = s[k]
    BY <1>1, <1>3, <2>1
  <2>3. (IF k + n <= L THEN k + n ELSE k + n - L) = m
    BY <1>1, <2>1
  <2>4. Rotated(s, n)[k] = s[m]
    BY <1>2, <2>2, <2>3
  <2>5. k \in A
    BY <1>1, <2>2, <2>4
  <2>6. f[k] = m
    BY <2>3, <2>5
  <2> QED
    BY <2>5, <2>6
<1>6. \A k, m \in A : f[k] = f[m] => k = m
  <2> SUFFICES ASSUME NEW k \in A, NEW m \in A, f[k] = f[m] PROVE k = m
    OBVIOUS
  <2>1. k \in 1 .. L /\ m \in 1 .. L
    BY <1>1
  <2> QED
    BY <1>1, <2>1
<1>7. IsFiniteSet(A)
  <2>1. IsFiniteSet(1 .. L)
    BY <1>1, FS_Interval
  <2>2. A \subseteq 1 .. L
    BY <1>1
  <2> HIDE DEF A
  <2> QED
    BY <2>1, <2>2, FS_Subset
<1>8. Cardinality(A) = Cardinality(B)
  <2>1. f \in [A -> B]
    BY <1>4
  <2>2. f \in Bijection(A, B)
    <3> HIDE DEF f, A, B
    <3>1. DOMAIN f = A
      BY <2>1
    <3>2. IsInjective(f)
      BY <1>6, <3>1 DEF IsInjective
    <3> QED
      BY <1>5, <2>1, <3>2 DEF Bijection, Injection, Surjection
  <2> QED
    BY <1>7, <2>2, FS_Bijection DEF ExistsBijection
<1> QED
  BY <1>8 DEF Autocorr

-----------------------------------------------------------------------------
(* The invariant *)

\* The sequence has its length in every step of its making.
SeqOK == seq \in Seq(Bit) /\ Len(seq) = SEQ_LENGTH

RegistersOK ==
  /\ x \in Seq(Bit) /\ Len(x) = N
  /\ y \in Seq(Bit) /\ Len(y) = N
  /\ start \in Int \X Int

\* The row last printed is the sequence rotated by its number, and each entry
\* of the column the correlation with the sequence rotated by its own.
RowsAreRotations ==
  step = "table" =>
    /\ column \in Seq(Int)
    /\ Len(column) \in 1 .. SEQ_LENGTH + 1
    /\ new_seq = Rotated(seq, Len(column) - 1)
    /\ \A k \in 1 .. Len(column) : column[k] = Autocorr(seq, Rotated(seq, k - 1))

TableInv == RegistersOK /\ SeqOK /\ RowsAreRotations

\* The calloc of generate_sequence.
LEMMA EmptySequence ==
  /\ [k \in 1 .. SEQ_LENGTH |-> 0] \in Seq(Bit)
  /\ Len([k \in 1 .. SEQ_LENGTH |-> 0]) = SEQ_LENGTH
<1>1. [k \in 1 .. 31 |-> 0] \in [1 .. 31 -> Bit]
  BY DEF Bit
<1>2. [k \in 1 .. 31 |-> 0] \in Seq(Bit)
  BY <1>1, SeqDef
<1> QED
  BY <1>2, Length

\* A register is a sequence of bits.
LEMMA RegisterType ==
  ASSUME NEW value \in Int
  PROVE  Bits(value) \in Seq(Bit) /\ Len(Bits(value)) = N
<1>1. Bits(value) \in [1 .. 5 -> Bit]
  BY BitsType DEF N
<1>2. Bits(value) \in Seq(Bit)
  BY <1>1, SeqDef
<1> QED
  BY <1>1, <1>2 DEF N

\* Shifting a bit in keeps the length.
LEMMA ShiftIn ==
  ASSUME NEW r \in Seq(Bit), Len(r) \in Nat \ {0}, NEW bit \in Bit
  PROVE  Append(Tail(r), bit) \in Seq(Bit) /\ Len(Append(Tail(r), bit)) = Len(r)
<1>1. Tail(r) \in Seq(Bit) /\ Len(Tail(r)) = Len(r) - 1
  BY HeadTailProperties, EmptySeq
<1> QED
  BY <1>1

\* Every autocorrelation is a number.
LEMMA AutocorrType ==
  ASSUME NEW s \in Seq(Bit), NEW t
  PROVE  Autocorr(s, t) \in Int
<1>1. Len(s) \in Nat /\ DOMAIN s = 1 .. Len(s)
  BY LenProperties
<1> DEFINE equal == {k \in DOMAIN s : s[k] = t[k]}
<1>2. IsFiniteSet(equal)
  <2>1. IsFiniteSet(1 .. Len(s))
    BY <1>1, FS_Interval
  <2>2. equal \subseteq 1 .. Len(s)
    BY <1>1
  <2> HIDE DEF equal
  <2> QED
    BY <2>1, <2>2, FS_Subset
<1>3. Cardinality(equal) \in Nat
  BY <1>2, FS_CardinalityType
<1> QED
  BY <1>1, <1>3 DEF Autocorr

\* The invariant at the start of main.
LEMMA TableInit == Init => TableInv
<1> SUFFICES ASSUME Init PROVE TableInv
  OBVIOUS
<1>1. start \in Int \X Int
  <2>1. start \in (0 .. 30) \X (5 .. 31)
    BY RegistersAssumption, Length DEF Init
  <2> QED
    BY <2>1
<1> QED
  BY <1>1, EmptySequence, RegisterType DEF Init, TableInv, RegistersOK, SeqOK, RowsAreRotations

\* One turn of the loop of generate_sequence keeps it.
LEMMA InvNextBit == TableInv /\ NextBit => TableInv'
<1> SUFFICES ASSUME TableInv, NextBit PROVE TableInv'
  OBVIOUS
<1>1. \A k \in 1 .. 5 : x[k] \in Int /\ y[k] \in Int
  <2>1. x \in Seq(Bit) /\ y \in Seq(Bit) /\ 1 .. Len(x) = 1 .. 5 /\ 1 .. Len(y) = 1 .. 5
    BY DEF TableInv, RegistersOK, N
  <2>2. \A k \in 1 .. 5 : x[k] \in Bit /\ y[k] \in Bit
    BY <2>1, ElementOfSeq
  <2> QED
    BY <2>2 DEF Bit
<1>2. XFeedback \in Bit /\ YFeedback \in Bit /\ Sum2(x[1], y[1]) \in Bit
  BY <1>1, Sum2Type DEF XFeedback, YFeedback
<1>3. RegistersOK'
  BY <1>2, ShiftIn DEF NextBit, TableInv, RegistersOK, N
<1>4. SeqOK'
  <2>1. seq \in Seq(Bit) /\ Len(seq) = 31 /\ Len(seq) \in Nat \ {0}
    BY Length DEF TableInv, SeqOK
  <2>2. /\ Append(Tail(seq), Sum2(x[1], y[1])) \in Seq(Bit)
        /\ Len(Append(Tail(seq), Sum2(x[1], y[1]))) = Len(seq)
    BY <1>2, <2>1, ShiftIn
  <2> QED
    BY <2>1, <2>2, Length DEF NextBit, SeqOK
<1> QED
  BY <1>3, <1>4 DEF NextBit, TableInv, RowsAreRotations

\* So do the checks, which print the first row,
LEMMA InvCheckSequence == TableInv /\ CheckSequence => TableInv'
<1> SUFFICES ASSUME TableInv, CheckSequence PROVE TableInv'
  OBVIOUS
<1>1. RegistersOK' /\ SeqOK'
  BY DEF CheckSequence, TableInv, RegistersOK, SeqOK
<1>2. Rotated(seq, 0) = seq
  BY RotatedOnce DEF TableInv, SeqOK
<1>3. column' = <<Autocorr(seq, seq)>> /\ new_seq' = seq /\ seq' = seq
  BY DEF CheckSequence
<1>4. column' \in Seq(Int) /\ Len(column') = 1
  BY <1>3, AutocorrType DEF TableInv, SeqOK
<1>5. Len(column') - 1 = 0 /\ Len(column') \in 1 .. SEQ_LENGTH + 1
  BY <1>4, Length
<1>6. column'[1] = Autocorr(seq', Rotated(seq', 1 - 1))
  BY <1>2, <1>3
<1>7. RowsAreRotations'
  BY <1>2, <1>3, <1>4, <1>5, <1>6 DEF RowsAreRotations
<1> QED
  BY <1>1, <1>7 DEF TableInv

\* each further row of the table,
LEMMA InvNextRow == TableInv /\ NextRow => TableInv'
<1> SUFFICES ASSUME TableInv, NextRow PROVE TableInv'
  OBVIOUS
<1>1. RegistersOK' /\ SeqOK'
  BY DEF NextRow, TableInv, RegistersOK, SeqOK
<1>2. /\ step = "table" /\ seq' = seq /\ new_seq' = ShiftSeq(new_seq)
      /\ column' = Append(column, Autocorr(seq, new_seq'))
  BY DEF NextRow
<1> DEFINE m == Len(column)
<1>3. m \in 1 .. SEQ_LENGTH /\ column \in Seq(Int) /\ seq \in Seq(Bit) /\ Len(seq) = SEQ_LENGTH
  <2>1. column \in Seq(Int) /\ m \in 1 .. SEQ_LENGTH + 1
    BY <1>2 DEF TableInv, RowsAreRotations
  <2>2. m <= SEQ_LENGTH
    BY DEF NextRow
  <2>3. m \in 1 .. SEQ_LENGTH
    <3> HIDE DEF m
    <3> QED
      BY <2>1, <2>2, Length
  <2> QED
    BY <2>1, <2>3 DEF TableInv, SeqOK
<1>4. new_seq' = Rotated(seq, m)
  <2>1. new_seq = Rotated(seq, m - 1)
    BY <1>2 DEF TableInv, RowsAreRotations
  <2>2. m - 1 \in 0 .. Len(seq) - 1 /\ (m - 1) + 1 = m
    BY <1>3, Length
  <2> HIDE DEF m
  <2> QED
    BY <1>2, <1>3, <2>1, <2>2, ShiftRotates
<1>5. Autocorr(seq, new_seq') \in Int
  BY <1>3, AutocorrType
<1>6. column' \in Seq(Int) /\ Len(column') = m + 1
  BY <1>2, <1>3, <1>5
<1>7. Len(column') \in 1 .. SEQ_LENGTH + 1 /\ Len(column') - 1 = m
  <2> HIDE DEF m
  <2> QED
    BY <1>3, <1>6, Length
<1>8. ASSUME NEW k \in 1 .. m + 1
      PROVE  column'[k] = Autocorr(seq', Rotated(seq', k - 1))
  <2>1. CASE k = m + 1
    <3>1. k - 1 = m /\ column'[k] = Autocorr(seq, new_seq')
      BY <1>2, <1>3, <1>5, <2>1
    <3> QED
      BY <1>2, <1>4, <3>1
  <2>2. CASE k # m + 1
    <3>1. k \in 1 .. m
      BY <1>3, <2>2
    <3>2. column'[k] = column[k]
      BY <1>2, <1>3, <1>5, <3>1
    <3> QED
      BY <1>2, <3>1, <3>2 DEF TableInv, RowsAreRotations
  <2> QED
    BY <2>1, <2>2
<1>9. RowsAreRotations'
  BY <1>2, <1>4, <1>6, <1>7, <1>8 DEF RowsAreRotations
<1> QED
  BY <1>1, <1>9 DEF TableInv

\* the second generator
LEMMA InvSecondRound == TableInv /\ SecondRound => TableInv'
<1> SUFFICES ASSUME TableInv, SecondRound PROVE TableInv'
  OBVIOUS
<1>1. start[1] + 1 \in Int /\ start[2] - 5 \in Int
  BY DEF TableInv, RegistersOK
<1>2. RegistersOK'
  BY <1>1, RegisterType DEF SecondRound, Generate, RegistersOK
<1>3. SeqOK'
  BY EmptySequence DEF SecondRound, Generate, SeqOK
<1> QED
  BY <1>2, <1>3 DEF SecondRound, Generate, TableInv, RowsAreRotations

\* and the end of main.
LEMMA InvReturn == TableInv /\ Return => TableInv'
BY DEF Return, TableInv, RegistersOK, SeqOK, RowsAreRotations

\* The invariant of lab4.c on which the theorem below rests.
THEOREM TableInvCorrect == Spec => []TableInv
<1>1. TableInv /\ UNCHANGED vars => TableInv'
  BY DEF vars, TableInv, RegistersOK, SeqOK, RowsAreRotations
<1>2. TableInv /\ [Next]_vars => TableInv'
  BY <1>1, InvNextBit, InvCheckSequence, InvNextRow, InvSecondRound, InvReturn DEF Next
<1> QED
  BY TableInit, <1>2, PTL DEF Spec

\* The table of shifts closes, whatever the registers and the sequence are: 31
\* shifts restore the sequence, and the column reads the same from both ends.
THEOREM TableCorrect == Spec => []TableIsPeriodic
<1>1. ASSUME TableInv
      PROVE  TableIsPeriodic
  <2> SUFFICES ASSUME TableIsComplete
               PROVE  /\ new_seq = seq
                      /\ \A k \in 1 .. SEQ_LENGTH + 1 : column[k] = column[SEQ_LENGTH + 2 - k]
    BY DEF TableIsPeriodic
  <2>1. step = "table" /\ Len(column) = SEQ_LENGTH + 1
    BY DEF TableIsComplete
  <2>2. seq \in Seq(Bit) /\ Len(seq) = SEQ_LENGTH
    BY <1>1 DEF TableInv, SeqOK
  <2>3. new_seq = seq
    <3>1. Len(column) - 1 = Len(seq)
      BY <2>1, <2>2, Length
    <3> QED
      BY <1>1, <2>1, <2>2, <3>1, RotatedOnce DEF TableInv, RowsAreRotations
  <2>4. ASSUME NEW k \in 1 .. SEQ_LENGTH + 1
        PROVE  column[k] = column[SEQ_LENGTH + 2 - k]
    <3>1. /\ k - 1 \in 0 .. Len(seq) /\ SEQ_LENGTH + 2 - k \in 1 .. Len(column)
          /\ (SEQ_LENGTH + 2 - k) - 1 = Len(seq) - (k - 1)
      BY <2>1, <2>2, Length
    <3>2. column[k] = Autocorr(seq, Rotated(seq, k - 1))
      BY <1>1, <2>1 DEF TableInv, RowsAreRotations
    <3>3. column[SEQ_LENGTH + 2 - k] = Autocorr(seq, Rotated(seq, Len(seq) - (k - 1)))
      BY <1>1, <2>1, <3>1 DEF TableInv, RowsAreRotations
    <3> QED
      BY <2>2, <3>1, <3>2, <3>3, AutocorrSymmetric
  <2> QED
    BY <2>3, <2>4
<1> QED
  BY <1>1, TableInvCorrect, PTL

-----------------------------------------------------------------------------
(* The sequence *)

\* f goes through the recurrence of the first register, g through that of the
\* second, from the bits of a number.
IsXBits(f, value) ==
  f = [k \in 1 .. SEQ_LENGTH |-> IF k <= N THEN Bits(value)[k] ELSE f[k - 2]]
IsYBits(g, value) ==
  g = [k \in 1 .. SEQ_LENGTH |->
         IF k <= N THEN Bits(value)[k] ELSE Sum2(g[k - 3], g[k - 5])]

\* The first recurrence repeats the last two bits.
LEMMA XBitsMeans ==
  ASSUME start \in Int \X Int
  PROVE  IsXBits(XBits, start[1])
<1> DEFINE bits == Bits(start[1])
           f == [k \in 1 .. 31 |-> IF k <= 5 THEN bits[k] ELSE IF k % 2 = 1 THEN bits[5] ELSE bits[4]]
<1>1. ASSUME NEW k \in 1 .. 31 PROVE f[k] = IF k <= 5 THEN bits[k] ELSE f[k - 2]
  <2> HIDE DEF bits
  <2>1. k > 5 => k - 2 \in 1 .. 31 /\ (k - 2) % 2 = k % 2 /\ k % 2 \in {0, 1}
    OBVIOUS
  <2>2. 4 % 2 = 0 /\ 5 % 2 = 1
    OBVIOUS
  <2>3. CASE k > 5 /\ k - 2 <= 5
    BY <2>1, <2>2, <2>3
  <2>4. CASE k > 5 /\ k - 2 > 5
    BY <2>1, <2>4
  <2>5. CASE k <= 5
    BY <2>5
  <2> QED
    BY <2>3, <2>4, <2>5
<1>2. f = [k \in 1 .. 31 |-> IF k <= 5 THEN bits[k] ELSE f[k - 2]]
  BY <1>1
<1> HIDE DEF f, bits
<1>3. \E g : g = [k \in 1 .. SEQ_LENGTH |-> IF k <= N THEN bits[k] ELSE g[k - 2]]
  BY <1>2, Length DEF N
<1> QED
  BY <1>3, Zenon DEF XBits, IsXBits, bits

\* One clock of the second register.
Clocked(s) == [k \in 1 .. 5 |-> IF k < 5 THEN s[k + 1] ELSE Sum2(s[3], s[1])]

\* The second recurrence is what leaves a register that is clocked.
LEMMA YBitsMeans ==
  ASSUME start \in Int \X Int
  PROVE  IsYBits(YBits, start[2])
<1> DEFINE bits == Bits(start[2])
           S == [1 .. 5 -> Bit]
           h == [k \in 1 .. 31 |-> [s \in S |-> Clocked(s)]]
<1>1. bits \in S
  BY BitsType DEF N
<1>2. ASSUME NEW s \in S PROVE Clocked(s) \in S
  <2>1. s[3] \in Int /\ s[1] \in Int /\ \A k \in 1 .. 5 : k < 5 => s[k + 1] \in Bit
    BY DEF Bit
  <2>2. Sum2(s[3], s[1]) \in Bit
    BY <2>1, Sum2Type
  <2> QED
    BY <2>1, <2>2 DEF Clocked
<1>3. h \in [1 .. 31 -> [S -> S]]
  BY <1>2
<1> HIDE DEF bits
<1>4. PICK w : IsLoop(w, 31, S, bits, h)
  <2>1. 31 \in Nat
    OBVIOUS
  <2> HIDE DEF S, h
  <2> QED
    BY <1>1, <1>3, <2>1, LoopExists
<1>5. w \in [0 .. 31 -> S] /\ w[0] = bits /\ \A k \in 1 .. 31 : w[k] = Clocked(w[k - 1])
  BY <1>4 DEF IsLoop
<1>6. ASSUME NEW k \in 0 .. 30
      PROVE  /\ w[k + 1][1] = w[k][2] /\ w[k + 1][2] = w[k][3] /\ w[k + 1][3] = w[k][4]
             /\ w[k + 1][4] = w[k][5] /\ w[k + 1][5] = Sum2(w[k][3], w[k][1])
  <2>1. k + 1 \in 1 .. 31 /\ (k + 1) - 1 = k
    OBVIOUS
  <2>2. w[k + 1] = Clocked(w[k])
    BY <1>5, <2>1
  <2> QED
    BY <2>2 DEF Clocked
<1> DEFINE g == [k \in 1 .. 31 |-> w[k - 1][1]]
<1>7. ASSUME NEW k \in 1 .. 31
      PROVE  g[k] = IF k <= 5 THEN bits[k] ELSE Sum2(g[k - 3], g[k - 5])
  <2>1. CASE k <= 5
    <3>1. k \in {1, 2, 3, 4, 5}
      BY <2>1
    <3>2. w[0][1] = bits[1] /\ w[1][1] = bits[2]
      BY <1>5, <1>6
    <3>3. w[2][1] = w[1][2] /\ w[1][2] = bits[3]
      BY <1>5, <1>6
    <3>4. w[3][1] = w[2][2] /\ w[2][2] = w[1][3] /\ w[1][3] = bits[4]
      BY <1>5, <1>6
    <3>5. w[4][1] = w[3][2] /\ w[3][2] = w[2][3] /\ w[2][3] = w[1][4] /\ w[1][4] = bits[5]
      BY <1>5, <1>6
    <3> QED
      BY <2>1, <3>1, <3>2, <3>3, <3>4, <3>5
  <2>2. CASE k > 5
    <3> DEFINE m == k - 6
    <3>1. /\ m \in 0 .. 30 /\ m + 1 \in 0 .. 30 /\ m + 2 \in 0 .. 30 /\ m + 3 \in 0 .. 30
          /\ m + 4 \in 0 .. 30 /\ m + 5 \in 0 .. 30
          /\ (m + 1) + 1 = m + 2 /\ (m + 2) + 1 = m + 3 /\ (m + 3) + 1 = m + 4 /\ (m + 4) + 1 = m + 5
          /\ k - 1 = m + 5 /\ (k - 3) - 1 = m + 2 /\ (k - 5) - 1 = m
          /\ k - 3 \in 1 .. 31 /\ k - 5 \in 1 .. 31
      BY <2>2
    <3> HIDE DEF m
    <3>2. w[m + 5][1] = w[m + 4][2] /\ w[m + 4][2] = w[m + 3][3]
      BY <1>6, <3>1
    <3>3. w[m + 3][3] = w[m + 2][4] /\ w[m + 2][4] = w[m + 1][5]
      BY <1>6, <3>1
    <3>4. w[m + 1][5] = Sum2(w[m][3], w[m][1])
      BY <1>6, <3>1
    <3>5. w[m + 2][1] = w[m + 1][2] /\ w[m + 1][2] = w[m][3]
      BY <1>6, <3>1
    <3>6. g[k] = w[m + 5][1] /\ g[k - 3] = w[m + 2][1] /\ g[k - 5] = w[m][1]
      BY <3>1
    <3> HIDE DEF g
    <3> QED
      BY <2>2, <3>2, <3>3, <3>4, <3>5, <3>6
  <2> QED
    BY <2>1, <2>2
<1>8. g = [k \in 1 .. 31 |-> IF k <= 5 THEN bits[k] ELSE Sum2(g[k - 3], g[k - 5])]
  BY <1>7
<1> HIDE DEF g
<1>9. \E f : f = [k \in 1 .. SEQ_LENGTH |-> IF k <= N THEN bits[k] ELSE Sum2(f[k - 3], f[k - 5])]
  BY <1>8, Length DEF N
<1> QED
  BY <1>9, Zenon DEF YBits, IsYBits, bits

\* A register holds the bits of a recurrence that come after the first n.
Holds(r, f, n) == \A k \in 1 .. 5 : n + k <= 31 => r[k] = f[n + k]

\* A sequence ends with the sums of the first n bits.
EndsWith(s, f, g, n) == \A k \in 1 .. n : s[(31 - n) + k] = Sum2(f[k], g[k])

\* What the registers and the sequence have to do with the recurrences.
Sums(f, g) ==
  /\ i \in 0 .. 31
  /\ step = "generate" => Holds(x, f, i) /\ Holds(y, g, i) /\ EndsWith(seq, f, g, i)
  /\ step = "table" => EndsWith(seq, f, g, 31)

\* It is an invariant whatever the recurrences are.
SumInv == \A f, g : IsXBits(f, start[1]) /\ IsYBits(g, start[2]) => Sums(f, g)

\* A register is filled with the first bits.
LEMMA HeldAtFirst ==
  ASSUME NEW value
  PROVE  /\ \A f : IsXBits(f, value) => Holds(Bits(value), f, 0)
         /\ \A g : IsYBits(g, value) => Holds(Bits(value), g, 0)
<1> DEFINE bits == Bits(value)
<1> HIDE DEF bits
<1>1. ASSUME NEW f, \A k \in 1 .. 5 : f[k] = bits[k]
      PROVE  Holds(bits, f, 0)
  BY <1>1 DEF Holds
<1>2. ASSUME NEW f, IsXBits(f, value)
      PROVE  \A k \in 1 .. 5 : f[k] = bits[k]
  BY <1>2, Length DEF IsXBits, N, bits
<1>3. ASSUME NEW g, IsYBits(g, value)
      PROVE  \A k \in 1 .. 5 : g[k] = bits[k]
  BY <1>3, Length DEF IsYBits, N, bits
<1> QED
  BY <1>1, <1>2, <1>3 DEF bits

\* The bits of a sequence into which one is shifted.
LEMMA ShiftedBits ==
  ASSUME NEW n \in Nat \ {0}, NEW r \in Seq(Bit), Len(r) = n, NEW bit \in Bit
  PROVE  /\ Append(Tail(r), bit)[n] = bit
         /\ \A k \in 1 .. n : k # n => Append(Tail(r), bit)[k] = r[k + 1]
<1> DEFINE t == Tail(r)
<1>1. t \in Seq(Bit) /\ Len(t) = n - 1 /\ \A k \in 1 .. n - 1 : t[k] = r[k + 1]
  BY HeadTailProperties, EmptySeq
<1> HIDE DEF t
<1>2. Append(t, bit)[Len(t) + 1] = bit /\ \A k \in 1 .. Len(t) : Append(t, bit)[k] = t[k]
  BY <1>1
<1>3. Len(t) + 1 = n /\ \A k \in 1 .. n : k # n => k \in 1 .. Len(t) /\ k \in 1 .. n - 1
  BY <1>1
<1> QED
  BY <1>1, <1>2, <1>3 DEF t

\* A register holds the next bits when the next but four comes in.
LEMMA HeldNext ==
  ASSUME NEW f, NEW n \in 0 .. 30, NEW r \in Seq(Bit), Len(r) = 5, Holds(r, f, n),
         NEW bit \in Bit, n + 6 <= 31 => bit = f[n + 6]
  PROVE  Holds(Append(Tail(r), bit), f, n + 1)
<1> DEFINE s == Append(Tail(r), bit)
<1>1. s[5] = bit /\ \A k \in 1 .. 5 : k # 5 => s[k] = r[k + 1]
  <2>1. 5 \in Nat \ {0}
    OBVIOUS
  <2> QED
    BY <2>1, ShiftedBits
<1> HIDE DEF s
<1>2. ASSUME NEW k \in 1 .. 5, (n + 1) + k <= 31
      PROVE  s[k] = f[(n + 1) + k]
  <2>1. CASE k = 5
    <3>1. (n + 1) + k = n + 6 /\ n + 6 <= 31
      BY <1>2, <2>1
    <3> QED
      BY <1>1, <2>1, <3>1
  <2>2. CASE k # 5
    <3> DEFINE j == k + 1
    <3>1. j \in 1 .. 5 /\ n + j <= 31 /\ (n + 1) + k = n + j
      BY <1>2, <2>2
    <3>2. s[k] = r[j]
      BY <1>1, <2>2
    <3> HIDE DEF j
    <3>3. r[j] = f[n + j]
      BY <3>1 DEF Holds
    <3> QED
      BY <3>1, <3>2, <3>3
  <2> QED
    BY <2>1, <2>2
<1> QED
  BY <1>2 DEF Holds, s

\* The sequence ends with one sum more when it is shifted in.
LEMMA EndsWithNext ==
  ASSUME NEW f, NEW g, NEW n \in 0 .. 30, NEW s \in Seq(Bit), Len(s) = 31,
         EndsWith(s, f, g, n), NEW bit \in Bit, bit = Sum2(f[n + 1], g[n + 1])
  PROVE  EndsWith(Append(Tail(s), bit), f, g, n + 1)
<1> DEFINE t == Append(Tail(s), bit)
<1>1. t[31] = bit /\ \A k \in 1 .. 31 : k # 31 => t[k] = s[k + 1]
  <2>1. 31 \in Nat \ {0}
    OBVIOUS
  <2> QED
    BY <2>1, ShiftedBits
<1> HIDE DEF t
<1>2. ASSUME NEW k \in 1 .. n + 1
      PROVE  t[(31 - (n + 1)) + k] = Sum2(f[k], g[k])
  <2>1. CASE k = n + 1
    BY <1>1, <2>1
  <2>2. CASE k # n + 1
    <3> DEFINE m == (31 - (n + 1)) + k
    <3>1. k \in 1 .. n /\ m \in 1 .. 31 /\ m # 31 /\ m + 1 = (31 - n) + k
      BY <1>2, <2>2
    <3> HIDE DEF m
    <3>2. t[m] = s[m + 1]
      BY <1>1, <3>1
    <3>3. s[(31 - n) + k] = Sum2(f[k], g[k])
      BY <3>1 DEF EndsWith
    <3> QED
      BY <3>1, <3>2, <3>3 DEF m
  <2> QED
    BY <2>1, <2>2
<1> QED
  BY <1>2 DEF EndsWith, t

\* What the feedback of x & 2 and y & 3 comes to: an even number and a bit.
LEMMA Feedback ==
  ASSUME RegistersOK
  PROVE  /\ \A k \in 1 .. 5 : x[k] \in Bit /\ y[k] \in Bit
         /\ XFeedback = x[4] /\ YFeedback = Sum2(y[3], y[1])
<1>1. \A k \in 1 .. 5 : x[k] \in Bit /\ y[k] \in Bit
  <2>1. x \in Seq(Bit) /\ y \in Seq(Bit) /\ 1 .. Len(x) = 1 .. 5 /\ 1 .. Len(y) = 1 .. 5
    BY DEF RegistersOK, N
  <2> QED
    BY <2>1, ElementOfSeq
<1>2. \A m, k \in Bit : (m + 2 * k) % 2 = m
  BY DEF Bit
<1>3. \A m, j, k \in Bit : (m + (j + 2 * k)) % 2 = (m + j) % 2
  BY DEF Bit
<1>4. x[4] \in Bit /\ x[2] \in Bit /\ y[3] \in Bit /\ y[1] \in Bit /\ y[2] \in Bit
  BY <1>1
<1> QED
  BY <1>1, <1>2, <1>3, <1>4, Zenon DEF XFeedback, YFeedback, Sum2

\* The first register of a call of Gold_sequence holds the first bits.
LEMMA SumInit == Init => SumInv
<1> SUFFICES ASSUME Init, NEW f, NEW g, IsXBits(f, start[1]), IsYBits(g, start[2])
             PROVE  Sums(f, g)
  BY Zenon DEF SumInv
<1>1. step = "generate" /\ x = Bits(start[1]) /\ y = Bits(start[2]) /\ i = 0
  BY DEF Init
<1>2. Holds(x, f, 0) /\ Holds(y, g, 0)
  BY <1>1, HeldAtFirst
<1>3. EndsWith(seq, f, g, 0)
  BY DEF EndsWith
<1> QED
  BY <1>1, <1>2, <1>3 DEF Sums

\* So it does in the second round.
LEMMA SumSecondRound == SecondRound => SumInv'
<1> SUFFICES ASSUME SecondRound, NEW f, NEW g, IsXBits(f, start'[1]), IsYBits(g, start'[2])
             PROVE  Sums(f, g)'
  BY Zenon DEF SumInv
<1>1. step' = "generate" /\ x' = Bits(start'[1]) /\ y' = Bits(start'[2]) /\ i' = 0
  BY DEF SecondRound, Generate
<1>2. Holds(x', f, 0) /\ Holds(y', g, 0)
  BY <1>1, HeldAtFirst
<1>3. EndsWith(seq', f, g, 0)
  BY DEF EndsWith
<1> QED
  BY <1>1, <1>2, <1>3 DEF Sums

\* One turn of the loop of Gold_sequence keeps it: the register that is shifted
\* out of at one end is filled at the other with the next bit of its recurrence.
LEMMA SumNextBit == TableInv /\ SumInv /\ NextBit => SumInv'
<1> SUFFICES ASSUME TableInv, SumInv, NextBit, NEW f, NEW g,
                    IsXBits(f, start'[1]), IsYBits(g, start'[2])
             PROVE  Sums(f, g)'
  BY Zenon DEF SumInv
<1>1. /\ step = "generate" /\ step' = "generate" /\ start' = start /\ i < 31 /\ i' = i + 1
      /\ x' = Append(Tail(x), XFeedback) /\ y' = Append(Tail(y), YFeedback)
      /\ seq' = Append(Tail(seq), Sum2(x[1], y[1]))
  BY Length DEF NextBit
<1>2. IsXBits(f, start[1]) /\ IsYBits(g, start[2])
  BY <1>1
<1>3. Sums(f, g)
  BY <1>2, Zenon DEF SumInv
<1>4. Holds(x, f, i) /\ Holds(y, g, i) /\ EndsWith(seq, f, g, i)
  BY <1>1, <1>3 DEF Sums
<1>5. i \in 0 .. 30
  BY <1>1, <1>3 DEF Sums
<1>6. x \in Seq(Bit) /\ Len(x) = 5 /\ y \in Seq(Bit) /\ Len(y) = 5
  BY DEF TableInv, RegistersOK, N
<1>7. seq \in Seq(Bit) /\ Len(seq) = 31
  BY Length DEF TableInv, SeqOK
<1>8. /\ \A k \in 1 .. 5 : x[k] \in Bit /\ y[k] \in Bit
      /\ XFeedback = x[4] /\ YFeedback = Sum2(y[3], y[1])
  BY Feedback DEF TableInv
<1>9. XFeedback \in Bit /\ YFeedback \in Bit /\ Sum2(x[1], y[1]) \in Bit
  BY <1>8, Sum2Type DEF Bit
<1>10. ASSUME i + 6 <= 31
       PROVE  XFeedback = f[i + 6] /\ YFeedback = g[i + 6]
  <2> DEFINE m == i + 6
  <2>1. /\ m \in 1 .. 31 /\ ~(m <= 5) /\ m - 2 = i + 4 /\ m - 3 = i + 3 /\ m - 5 = i + 1
        /\ i + 4 <= 31 /\ i + 3 <= 31 /\ i + 1 <= 31
    BY <1>5, <1>10
  <2> HIDE DEF m
  <2>2. f[m] = f[m - 2]
    BY <1>2, <2>1, Length DEF IsXBits, N
  <2>3. g[m] = Sum2(g[m - 3], g[m - 5])
    BY <1>2, <2>1, Length DEF IsYBits, N
  <2>4. x[4] = f[i + 4] /\ y[3] = g[i + 3] /\ y[1] = g[i + 1]
    BY <1>4, <2>1 DEF Holds
  <2> QED
    BY <1>8, <2>1, <2>2, <2>3, <2>4 DEF m
<1>11. Sum2(x[1], y[1]) = Sum2(f[i + 1], g[i + 1])
  <2>1. i + 1 <= 31
    BY <1>5
  <2>2. x[1] = f[i + 1] /\ y[1] = g[i + 1]
    BY <1>4, <2>1 DEF Holds
  <2> QED
    BY <2>2
<1>12. Holds(x', f, i + 1)
  BY <1>1, <1>4, <1>5, <1>6, <1>9, <1>10, HeldNext
<1>13. Holds(y', g, i + 1)
  BY <1>1, <1>4, <1>5, <1>6, <1>9, <1>10, HeldNext
<1>14. EndsWith(seq', f, g, i + 1)
  BY <1>1, <1>4, <1>5, <1>7, <1>9, <1>11, EndsWithNext
<1> QED
  BY <1>1, <1>5, <1>12, <1>13, <1>14 DEF Sums

\* After the last turn the end of the sequence is all of it, and then neither
\* it nor the registers change.
LEMMA SumNext == TableInv /\ SumInv /\ [Next]_vars => SumInv'
<1> SUFFICES ASSUME TableInv, SumInv, [Next]_vars PROVE SumInv'
  OBVIOUS
<1>1. CASE NextBit
  BY <1>1, SumNextBit
<1>2. CASE SecondRound
  BY <1>2, SumSecondRound
<1>3. ASSUME \/ CheckSequence \/ NextRow \/ Return \/ UNCHANGED vars,
             NEW f, NEW g, IsXBits(f, start'[1]), IsYBits(g, start'[2])
      PROVE  Sums(f, g)'
  <2>1. start' = start
    BY <1>3 DEF CheckSequence, NextRow, Return, vars
  <2>2. Sums(f, g)
    BY <1>3, <2>1, Zenon DEF SumInv
  <2>3. CASE CheckSequence
    <3>1. step = "generate" /\ i = 31 /\ i' = i /\ step' = "table" /\ seq' = seq
      BY <2>3, Length DEF CheckSequence
    <3>2. EndsWith(seq, f, g, i)
      BY <2>2, <3>1 DEF Sums
    <3> QED
      BY <3>1, <3>2 DEF Sums
  <2>4. CASE NextRow
    BY <2>2, <2>4 DEF NextRow, Sums
  <2>5. CASE Return
    BY <2>2, <2>5 DEF Return, Sums
  <2>6. CASE UNCHANGED vars
    BY <2>2, <2>6 DEF vars, Sums
  <2> QED
    BY <1>3, <2>3, <2>4, <2>5, <2>6
<1>4. (CheckSequence \/ NextRow \/ Return \/ UNCHANGED vars) => SumInv'
  BY <1>3, Zenon DEF SumInv
<1> QED
  BY <1>1, <1>2, <1>4 DEF Next

\* The sequence that Gold_sequence returns is the sum of the two recurrences,
\* the first of which has lost a tap, for all registers.
THEOREM SequenceCorrect == Spec => []SequenceIsSum
<1>1. TableInv /\ SumInv => SequenceIsSum
  <2> SUFFICES ASSUME TableInv, SumInv, step = "table"
               PROVE  seq = [k \in 1 .. SEQ_LENGTH |-> Sum2(XBits[k], YBits[k])]
    BY DEF SequenceIsSum
  <2>1. IsXBits(XBits, start[1]) /\ IsYBits(YBits, start[2])
    BY XBitsMeans, YBitsMeans DEF TableInv, RegistersOK
  <2>2. Sums(XBits, YBits)
    BY <2>1, Zenon DEF SumInv
  <2>3. \A k \in 1 .. 31 : seq[k] = Sum2(XBits[k], YBits[k])
    <3>1. \A k \in 1 .. 31 : (31 - 31) + k = k
      OBVIOUS
    <3> QED
      BY <2>2, <3>1 DEF Sums, EndsWith
  <2>4. seq = [k \in 1 .. 31 |-> seq[k]]
    BY Length, LenProperties DEF TableInv, SeqOK
  <2> QED
    BY <2>3, <2>4, Length
<1> QED
  BY <1>1, TableInvCorrect, SumInit, SumNext, PTL DEF Spec

-----------------------------------------------------------------------------
(* The period of the second register *)

\* The number whose bits are in a register.
Number(b1, b2, b3, b4, b5) == b1 + 2 * b2 + 4 * b3 + 8 * b4 + 16 * b5
NumberIn(r) == Number(r[1], r[2], r[3], r[4], r[5])

\* The numbers the second register goes through from 1 on, and when each
\* comes.
Cycle ==
  <<1, 16, 8, 4, 18, 9, 20, 26, 13, 6, 19, 25, 28, 30, 31, 15, 7, 3, 17, 24,
    12, 22, 27, 29, 14, 23, 11, 21, 10, 5, 2>>
Place ==
  <<0, 30, 17, 3, 29, 9, 16, 2, 5, 28, 26, 20, 8, 24, 15, 1, 18, 4, 10, 6,
    27, 21, 25, 19, 11, 7, 22, 12, 23, 13, 14>>

\* Every number but 0 comes once.
LEMMA PlaceType == \A n \in 1 .. 31 : Place[n] \in 0 .. 30 /\ Cycle[Place[n] + 1] = n
<1> SUFFICES ASSUME NEW n \in 1 .. 31 PROVE Place[n] \in 0 .. 30 /\ Cycle[Place[n] + 1] = n
  OBVIOUS
<1>1. CASE n \in 1 .. 16
  BY <1>1 DEF Place, Cycle
<1>2. CASE n \in 17 .. 31
  BY <1>2 DEF Place, Cycle
<1> QED
  BY <1>1, <1>2

\* A number comes right after another.
ComesNext(n, m) == n \in 1 .. 31 /\ m \in 1 .. 31 /\ Place[m] = (Place[n] + 1) % 31

\* The numbers come in this order.
LEMMA PlaceNext ==
  ASSUME NEW b1 \in Bit, NEW b2 \in Bit, NEW b3 \in Bit, NEW b4 \in Bit, NEW b5 \in Bit,
         Number(b1, b2, b3, b4, b5) # 0
  PROVE  ComesNext(Number(b1, b2, b3, b4, b5), Number(b2, b3, b4, b5, Sum2(b3, b1)))
<1>1. CASE b1 = 0 /\ b2 = 0
  BY <1>1 DEF ComesNext, Place, Number, Bit, Sum2
<1>2. CASE b1 = 0 /\ b2 = 1
  BY <1>2 DEF ComesNext, Place, Number, Bit, Sum2
<1>3. CASE b1 = 1 /\ b2 = 0
  BY <1>3 DEF ComesNext, Place, Number, Bit, Sum2
<1>4. CASE b1 = 1 /\ b2 = 1
  BY <1>4 DEF ComesNext, Place, Number, Bit, Sum2
<1> QED
  BY <1>1, <1>2, <1>3, <1>4 DEF Bit

\* A register that is filled with a number of five bits holds that number.
LEMMA NumberOfBits ==
  ASSUME NEW value \in 0 .. 31
  PROVE  NumberIn(Bits(value)) = value
<1>1. 2^0 = 1 /\ 2^1 = 2 /\ 2^2 = 4 /\ 2^3 = 8 /\ 2^4 = 16
  OBVIOUS
<1>2. /\ Bits(value)[1] = (value \div 1) % 2 /\ Bits(value)[2] = (value \div 2) % 2
      /\ Bits(value)[3] = (value \div 4) % 2 /\ Bits(value)[4] = (value \div 8) % 2
      /\ Bits(value)[5] = (value \div 16) % 2
  BY <1>1 DEF Bits, N
<1>3. value = ((value \div 1) % 2) + 2 * ((value \div 2) % 2) + 4 * ((value \div 4) % 2)
              + 8 * ((value \div 8) % 2) + 16 * ((value \div 16) % 2)
  OBVIOUS
<1> QED
  BY <1>2, <1>3 DEF NumberIn, Number

\* The number in the register is as many places after the one it started with
\* as turns were made.
PeriodInv ==
  /\ start[1] \in Int
  /\ round = 1 => start[2] \in 5 .. 31
  /\ round # 1 => start[2] \in 0 .. 26
  /\ step = "generate" =>
       /\ i \in 0 .. 31
       /\ start[2] # 0 => /\ NumberIn(y) \in 1 .. 31
                          /\ Place[NumberIn(y)] = (Place[start[2]] + i) % 31

\* Gold_sequence starts with the number itself.
LEMMA PeriodStart ==
  ASSUME NEW value \in 0 .. 31
  PROVE  value # 0 => /\ NumberIn(Bits(value)) \in 1 .. 31
                      /\ Place[NumberIn(Bits(value))] = (Place[value] + 0) % 31
<1> SUFFICES ASSUME value # 0
             PROVE  value \in 1 .. 31 /\ Place[value] = (Place[value] + 0) % 31
  BY NumberOfBits
<1>1. value \in 1 .. 31
  OBVIOUS
<1>2. Place[value] \in 0 .. 30
  BY <1>1, PlaceType
<1> DEFINE p == Place[value]
<1> HIDE DEF p
<1>3. p \in 0 .. 30 => p = (p + 0) % 31
  OBVIOUS
<1> QED
  BY <1>1, <1>2, <1>3 DEF p

\* What main sets y to has five bits, and is not 0.
LEMMA PeriodInit == Init => PeriodInv
<1> SUFFICES ASSUME Init PROVE PeriodInv
  OBVIOUS
<1>1. start[1] \in Int /\ start[2] \in 5 .. 31
  <2>1. start \in (0 .. 30) \X (5 .. 31)
    BY RegistersAssumption, Length DEF Init
  <2> QED
    BY <2>1
<1>2. step = "generate" /\ round = 1 /\ i = 0 /\ y = Bits(start[2])
  BY DEF Init
<1>3. start[2] \in 0 .. 31
  BY <1>1
<1>4. start[2] # 0 => /\ NumberIn(Bits(start[2])) \in 1 .. 31
                      /\ Place[NumberIn(Bits(start[2]))] = (Place[start[2]] + 0) % 31
  BY <1>3, PeriodStart
<1> QED
  BY <1>1, <1>2, <1>4 DEF PeriodInv

\* So has what is left after y -= 5, but that may be 0.
LEMMA PeriodSecondRound == PeriodInv /\ SecondRound => PeriodInv'
<1> SUFFICES ASSUME PeriodInv, SecondRound PROVE PeriodInv'
  OBVIOUS
<1>1. start'[1] = start[1] + 1 /\ start'[2] = start[2] - 5
  BY DEF SecondRound, Generate
<1>2. round = 1 /\ round' = 2 /\ step' = "generate" /\ i' = 0 /\ y' = Bits(start'[2])
  BY DEF SecondRound, Generate
<1>3. start'[1] \in Int /\ start'[2] \in 0 .. 26
  BY <1>1, <1>2 DEF PeriodInv
<1>4. start'[2] \in 0 .. 31
  BY <1>3
<1>5. start'[2] # 0 => /\ NumberIn(Bits(start'[2])) \in 1 .. 31
                       /\ Place[NumberIn(Bits(start'[2]))] = (Place[start'[2]] + 0) % 31
  BY <1>4, PeriodStart
<1> QED
  BY <1>2, <1>3, <1>5 DEF PeriodInv

\* One turn of the loop of Gold_sequence is one place.
LEMMA PeriodNextBit == TableInv /\ PeriodInv /\ NextBit => PeriodInv'
<1> SUFFICES ASSUME TableInv, PeriodInv, NextBit PROVE PeriodInv'
  OBVIOUS
<1>1. /\ step = "generate" /\ step' = "generate" /\ start' = start /\ round' = round
      /\ i < 31 /\ i' = i + 1 /\ y' = Append(Tail(y), YFeedback)
  BY Length DEF NextBit
<1>2. i \in 0 .. 30 /\ i' \in 0 .. 31
  <2>1. i \in 0 .. 31
    BY <1>1 DEF PeriodInv
  <2>2. i < 31 /\ i' = i + 1
    BY <1>1
  <2> QED
    BY <2>1, <2>2
<1>3. ASSUME start[2] # 0
      PROVE  NumberIn(y') \in 1 .. 31 /\ Place[NumberIn(y')] = (Place[start[2]] + i') % 31
  <2>1. NumberIn(y) \in 1 .. 31 /\ Place[NumberIn(y)] = (Place[start[2]] + i) % 31
    BY <1>1, <1>3 DEF PeriodInv
  <2>2. (\A k \in 1 .. 5 : y[k] \in Bit) /\ YFeedback = Sum2(y[3], y[1])
    BY Feedback DEF TableInv
  <2>3. y[1] \in Bit /\ y[2] \in Bit /\ y[3] \in Bit /\ y[4] \in Bit /\ y[5] \in Bit
    BY <2>2
  <2>4. YFeedback \in Bit
    BY <2>2, <2>3, Sum2Type DEF Bit
  <2>5. y \in Seq(Bit) /\ Len(y) = 5 /\ 5 \in Nat \ {0}
    BY DEF TableInv, RegistersOK, N
  <2>6. y'[5] = YFeedback /\ \A k \in 1 .. 5 : k # 5 => y'[k] = y[k + 1]
    BY <1>1, <2>4, <2>5, ShiftedBits
  <2>7. NumberIn(y') = Number(y[2], y[3], y[4], y[5], Sum2(y[3], y[1]))
    <3>1. y'[1] = y[2] /\ y'[2] = y[3] /\ y'[3] = y[4] /\ y'[4] = y[5]
      BY <2>6
    <3> QED
      BY <2>2, <2>6, <3>1 DEF NumberIn
  <2>8. NumberIn(y') \in 1 .. 31 /\ Place[NumberIn(y')] = (Place[NumberIn(y)] + 1) % 31
    <3>1. NumberIn(y) = Number(y[1], y[2], y[3], y[4], y[5]) /\ NumberIn(y) # 0
      BY <2>1 DEF NumberIn
    <3>2. ComesNext(NumberIn(y), NumberIn(y'))
      BY <2>3, <2>7, <3>1, PlaceNext
    <3> QED
      BY <3>2 DEF ComesNext
  <2>9. start[2] \in 1 .. 31
    BY <1>3 DEF PeriodInv
  <2>10. Place[start[2]] \in 0 .. 30
    BY <2>9, PlaceType
  <2>11. \A p \in 0 .. 30 : (((p + i) % 31) + 1) % 31 = (p + (i + 1)) % 31
    BY <1>2
  <2> QED
    BY <1>1, <2>1, <2>8, <2>10, <2>11
<1> QED
  BY <1>1, <1>2, <1>3 DEF PeriodInv

\* Nothing else changes the second register before it is filled again.
LEMMA PeriodNext == TableInv /\ PeriodInv /\ [Next]_vars => PeriodInv'
<1> SUFFICES ASSUME TableInv, PeriodInv, [Next]_vars PROVE PeriodInv'
  OBVIOUS
<1>1. CASE NextBit
  BY <1>1, PeriodNextBit
<1>2. CASE SecondRound
  BY <1>2, PeriodSecondRound
<1>3. CASE CheckSequence
  BY <1>3 DEF CheckSequence, PeriodInv
<1>4. CASE NextRow
  BY <1>4 DEF NextRow, PeriodInv
<1>5. CASE Return
  BY <1>5 DEF Return, PeriodInv
<1>6. CASE UNCHANGED vars
  BY <1>6 DEF vars, PeriodInv
<1> QED
  BY <1>1, <1>2, <1>3, <1>4, <1>5, <1>6 DEF Next

\* The second register of Gold_sequence is back where it started after
\* SEQ_LENGTH turns and not before, whatever number but 0 it starts with.
THEOREM PeriodCorrect == Spec => []YIsMaximal
<1>1. TableInv /\ PeriodInv => YIsMaximal
  <2> SUFFICES ASSUME TableInv, PeriodInv, step = "generate", i > 0, start[2] # 0
               PROVE  y = Bits(start[2]) <=> i = 31
    BY Length DEF YIsMaximal
  <2>1. start[2] \in 1 .. 31 /\ start[2] \in 0 .. 31 /\ i \in 1 .. 31
    BY DEF PeriodInv
  <2>2. NumberIn(y) \in 1 .. 31 /\ Place[NumberIn(y)] = (Place[start[2]] + i) % 31
    BY DEF PeriodInv
  <2>3. Place[start[2]] \in 0 .. 30
    BY <2>1, PlaceType
  <2>4. NumberIn(Bits(start[2])) = start[2]
    BY <2>1, NumberOfBits
  <2>5. NumberIn(y) = start[2] <=> Place[NumberIn(y)] = Place[start[2]]
    BY <2>1, <2>2, PlaceType
  <2>6. \A p \in 0 .. 30 : (p + i) % 31 = p <=> i = 31
    BY <2>1
  <2>7. NumberIn(y) = start[2] <=> i = 31
    BY <2>2, <2>3, <2>5, <2>6
  <2>8. ASSUME NumberIn(y) = NumberIn(Bits(start[2]))
        PROVE  y = Bits(start[2])
    <3> DEFINE bits == Bits(start[2])
    <3>1. bits \in [1 .. 5 -> Bit]
      BY <2>1, BitsType DEF N
    <3>2. y \in [1 .. 5 -> Bit]
      <4>1. y \in Seq(Bit) /\ Len(y) = 5
        BY DEF TableInv, RegistersOK, N
      <4> QED
        BY <4>1, LenProperties, ElementOfSeq
    <3>3. \A r \in [1 .. 5 -> Bit] : r[1] \in Bit /\ r[2] \in Bit /\ r[3] \in Bit /\ r[4] \in Bit /\ r[5] \in Bit
      OBVIOUS
    <3> HIDE DEF bits
    <3>4. /\ y[1] \in Bit /\ y[2] \in Bit /\ y[3] \in Bit /\ y[4] \in Bit /\ y[5] \in Bit
          /\ bits[1] \in Bit /\ bits[2] \in Bit /\ bits[3] \in Bit /\ bits[4] \in Bit /\ bits[5] \in Bit
      BY <3>1, <3>2, <3>3
    <3>5. y[1] = bits[1] /\ y[2] = bits[2] /\ y[3] = bits[3] /\ y[4] = bits[4] /\ y[5] = bits[5]
      BY <2>8, <3>4 DEF bits, NumberIn, Number, Bit
    <3>6. \A k \in 1 .. 5 : y[k] = bits[k]
      BY <3>5
    <3>7. y = bits
      BY <3>1, <3>2, <3>6
    <3> QED
      BY <3>7 DEF bits
  <2> QED
    BY <2>4, <2>7, <2>8
<1> QED
  BY <1>1, TableInvCorrect, PeriodInit, PeriodNext, PTL DEF Spec
-----------------------------------------------------------------------------
(* One shift is enough *)

\* 1 if k is in the set; 1 if a sequence of 31 bits has the same bit at k and n
\* places later.
Mark(S, k) == IF k \in S THEN 1 ELSE 0
Agree(s, n, k) == IF s[k] = s[IF k + n <= 31 THEN k + n ELSE k + n - 31] THEN 1 ELSE 0

\* The sums of these for all places.
Marks(S) ==
  Mark(S, 1) + Mark(S, 2) + Mark(S, 3) + Mark(S, 4) + Mark(S, 5) + Mark(S, 6)
  + Mark(S, 7) + Mark(S, 8) + Mark(S, 9) + Mark(S, 10) + Mark(S, 11) + Mark(S, 12)
  + Mark(S, 13) + Mark(S, 14) + Mark(S, 15) + Mark(S, 16) + Mark(S, 17) + Mark(S, 18)
  + Mark(S, 19) + Mark(S, 20) + Mark(S, 21) + Mark(S, 22) + Mark(S, 23) + Mark(S, 24)
  + Mark(S, 25) + Mark(S, 26) + Mark(S, 27) + Mark(S, 28) + Mark(S, 29) + Mark(S, 30)
  + Mark(S, 31)
Agreements(s, n) ==
  Agree(s, n, 1) + Agree(s, n, 2) + Agree(s, n, 3) + Agree(s, n, 4) + Agree(s, n, 5)
  + Agree(s, n, 6) + Agree(s, n, 7) + Agree(s, n, 8) + Agree(s, n, 9) + Agree(s, n, 10)
  + Agree(s, n, 11) + Agree(s, n, 12) + Agree(s, n, 13) + Agree(s, n, 14) + Agree(s, n, 15)
  + Agree(s, n, 16) + Agree(s, n, 17) + Agree(s, n, 18) + Agree(s, n, 19) + Agree(s, n, 20)
  + Agree(s, n, 21) + Agree(s, n, 22) + Agree(s, n, 23) + Agree(s, n, 24) + Agree(s, n, 25)
  + Agree(s, n, 26) + Agree(s, n, 27) + Agree(s, n, 28) + Agree(s, n, 29) + Agree(s, n, 30)
  + Agree(s, n, 31)

\* There are 31 places.
LEMMA PlacesAreFinite == IsFiniteSet(1 .. 31) /\ Cardinality(1 .. 31) = 31
<1>1. 1 \in Int /\ 31 \in Int /\ 31 - 1 + 1 = 31 /\ ~(1 > 31)
  OBVIOUS
<1> QED
  BY <1>1, FS_Interval

\* A set of places is counted by going through them.
LEMMA CountMarks ==
  ASSUME NEW S \in SUBSET (1 .. 31)
  PROVE  Cardinality(S) = Marks(S)
<1> DEFINE upTo(k) == {j \in S : j <= k}
           count == [k \in 0 .. 31 |-> Cardinality(upTo(k))]
<1>0. \A j \in S : j \in Int /\ 1 <= j /\ j <= 31
  OBVIOUS
<1>1. ASSUME NEW k \in 1 .. 31
      PROVE  count[k] = count[k - 1] + Mark(S, k) /\ count[k] \in Nat
  <2>1. k - 1 \in 0 .. 31 /\ k \in 0 .. 31
    OBVIOUS
  <2>2. count[k - 1] = Cardinality(upTo(k - 1)) /\ count[k] = Cardinality(upTo(k))
    BY <2>1
  <2>3. (\A j \in upTo(k - 1) : j \in 1 .. 31) /\ k \notin upTo(k - 1)
    <3>1. ~(k <= k - 1)
      OBVIOUS
    <3> QED
      BY <1>0, <3>1
  <2>4. upTo(k) = IF k \in S THEN upTo(k - 1) \cup {k} ELSE upTo(k - 1)
    <3>1. \A j \in S : j <= k <=> j = k \/ j <= k - 1
      BY <1>0
    <3> QED
      BY <3>1
  <2> HIDE DEF count, upTo
  <2>5. IsFiniteSet(upTo(k - 1))
    <3>1. upTo(k - 1) \subseteq 1 .. 31
      BY <2>3
    <3> QED
      BY <3>1, PlacesAreFinite, FS_Subset
  <2>6. /\ Cardinality(upTo(k - 1)) \in Nat
        /\ Cardinality(upTo(k - 1) \cup {k}) = Cardinality(upTo(k - 1)) + 1
    BY <2>3, <2>5, FS_CardinalityType, FS_AddElement
  <2> QED
    BY <2>2, <2>4, <2>6 DEF Mark
<1>2. count[0] = 0
  <2>1. \A j \in S : ~(j <= 0)
    BY <1>0
  <2>2. upTo(0) = {}
    BY <2>1
  <2> QED
    BY <2>2, FS_EmptySet
<1>3. count[31] = Cardinality(S)
  <2>1. upTo(31) = S
    BY <1>0
  <2> QED
    BY <2>1
<1> HIDE DEF count
<1>4. count[8] = count[0] + Mark(S, 1) + Mark(S, 2) + Mark(S, 3) + Mark(S, 4)
                + Mark(S, 5) + Mark(S, 6) + Mark(S, 7) + Mark(S, 8)
  <2>1. /\ count[1] = count[0] + Mark(S, 1) /\ count[1] \in Nat
        /\ count[2] = count[1] + Mark(S, 2) /\ count[2] \in Nat
        /\ count[3] = count[2] + Mark(S, 3) /\ count[3] \in Nat
        /\ count[4] = count[3] + Mark(S, 4) /\ count[4] \in Nat
        /\ count[5] = count[4] + Mark(S, 5) /\ count[5] \in Nat
        /\ count[6] = count[5] + Mark(S, 6) /\ count[6] \in Nat
        /\ count[7] = count[6] + Mark(S, 7) /\ count[7] \in Nat
        /\ count[8] = count[7] + Mark(S, 8) /\ count[8] \in Nat
    BY <1>1
  <2> QED
    BY <2>1
<1>5. count[16] = count[8] + Mark(S, 9) + Mark(S, 10) + Mark(S, 11) + Mark(S, 12)
                + Mark(S, 13) + Mark(S, 14) + Mark(S, 15) + Mark(S, 16)
  <2>1. /\ count[9] = count[8] + Mark(S, 9) /\ count[9] \in Nat
        /\ count[10] = count[9] + Mark(S, 10) /\ count[10] \in Nat
        /\ count[11] = count[10] + Mark(S, 11) /\ count[11] \in Nat
        /\ count[12] = count[11] + Mark(S, 12) /\ count[12] \in Nat
        /\ count[13] = count[12] + Mark(S, 13) /\ count[13] \in Nat
        /\ count[14] = count[13] + Mark(S, 14) /\ count[14] \in Nat
        /\ count[15] = count[14] + Mark(S, 15) /\ count[15] \in Nat
        /\ count[16] = count[15] + Mark(S, 16) /\ count[16] \in Nat
    BY <1>1
  <2> QED
    BY <2>1
<1>6. count[24] = count[16] + Mark(S, 17) + Mark(S, 18) + Mark(S, 19) + Mark(S, 20)
                + Mark(S, 21) + Mark(S, 22) + Mark(S, 23) + Mark(S, 24)
  <2>1. /\ count[17] = count[16] + Mark(S, 17) /\ count[17] \in Nat
        /\ count[18] = count[17] + Mark(S, 18) /\ count[18] \in Nat
        /\ count[19] = count[18] + Mark(S, 19) /\ count[19] \in Nat
        /\ count[20] = count[19] + Mark(S, 20) /\ count[20] \in Nat
        /\ count[21] = count[20] + Mark(S, 21) /\ count[21] \in Nat
        /\ count[22] = count[21] + Mark(S, 22) /\ count[22] \in Nat
        /\ count[23] = count[22] + Mark(S, 23) /\ count[23] \in Nat
        /\ count[24] = count[23] + Mark(S, 24) /\ count[24] \in Nat
    BY <1>1
  <2> QED
    BY <2>1
<1>7. count[31] = count[24] + Mark(S, 25) + Mark(S, 26) + Mark(S, 27) + Mark(S, 28)
                + Mark(S, 29) + Mark(S, 30) + Mark(S, 31)
  <2>1. /\ count[25] = count[24] + Mark(S, 25) /\ count[25] \in Nat
        /\ count[26] = count[25] + Mark(S, 26) /\ count[26] \in Nat
        /\ count[27] = count[26] + Mark(S, 27) /\ count[27] \in Nat
        /\ count[28] = count[27] + Mark(S, 28) /\ count[28] \in Nat
        /\ count[29] = count[28] + Mark(S, 29) /\ count[29] \in Nat
        /\ count[30] = count[29] + Mark(S, 30) /\ count[30] \in Nat
        /\ count[31] = count[30] + Mark(S, 31) /\ count[31] \in Nat
    BY <1>1
  <2> QED
    BY <2>1
<1> QED
  BY <1>2, <1>3, <1>4, <1>5, <1>6, <1>7 DEF Marks, Mark

\* The correlation is the number of places that agree, less that of the others.
LEMMA CorrelationCounts ==
  ASSUME NEW s \in Seq(Bit), Len(s) = 31, NEW n \in 0 .. 30
  PROVE  Autocorr(s, Rotated(s, n)) = 2 * Agreements(s, n) - 31 /\ Agreements(s, n) \in 0 .. 31
<1> DEFINE equal == {k \in 1 .. 31 : s[k] = Rotated(s, n)[k]}
<1>1. DOMAIN s = 1 .. 31 /\ equal \in SUBSET (1 .. 31)
  BY LenProperties
<1>2. ASSUME NEW k \in 1 .. 31
      PROVE  Mark(equal, k) = Agree(s, n, k) /\ Agree(s, n, k) \in 0 .. 1
  <2>1. Rotated(s, n)[k] = s[IF k + n <= 31 THEN k + n ELSE k + n - 31]
    BY <1>1 DEF Rotated
  <2>2. k \in equal <=> s[k] = Rotated(s, n)[k]
    OBVIOUS
  <2> HIDE DEF equal
  <2> QED
    BY <2>1, <2>2 DEF Mark, Agree
<1>3. Autocorr(s, Rotated(s, n)) = Cardinality(equal) - (31 - Cardinality(equal))
  BY <1>1 DEF Autocorr
<1> HIDE DEF equal
<1>4. Cardinality(equal) = Marks(equal)
  BY <1>1, CountMarks
<1>5. Marks(equal) = Agreements(s, n)
  BY <1>2 DEF Marks, Agreements
<1>6. Agreements(s, n) \in 0 .. 31
  <2>1. IsFiniteSet(equal) /\ Cardinality(equal) <= Cardinality(1 .. 31)
    BY <1>1, PlacesAreFinite, FS_Subset
  <2>2. Cardinality(equal) \in Nat
    BY <2>1, FS_CardinalityType
  <2>3. Cardinality(equal) = Agreements(s, n)
    BY <1>4, <1>5
  <2>4. \A c \in Nat : c <= 31 => c \in 0 .. 31
    OBVIOUS
  <2> HIDE DEF Agreements
  <2> QED
    BY <2>1, <2>2, <2>3, <2>4, PlacesAreFinite
<1>7. Autocorr(s, Rotated(s, n)) = Agreements(s, n) - (31 - Agreements(s, n))
  BY <1>3, <1>4, <1>5
<1>8. \A a \in 0 .. 31 : a - (31 - a) = 2 * a - 31
  OBVIOUS
<1> QED
  BY <1>6, <1>7, <1>8

\* s is the sum of a sequence f that repeats its last two bits and a sequence g
\* of the second register.
SumOf(s, f, g) ==
  /\ f \in [1 .. 31 -> Bit] /\ g \in [1 .. 31 -> Bit]
  /\ \A k \in 6 .. 31 : f[k] = f[k - 2] /\ g[k] = (IF g[k - 3] = g[k - 5] THEN 0 ELSE 1)
  /\ \A k \in 1 .. 31 : s[k] = (IF f[k] = g[k] THEN 0 ELSE 1)

\* All of its bits, from the first five of each.

LEMMA SumBits ==
  ASSUME NEW s, NEW f, NEW g, SumOf(s, f, g)
  PROVE  /\ f[1] \in Bit /\ g[1] \in Bit
         /\ f[2] \in Bit /\ g[2] \in Bit
         /\ f[3] \in Bit /\ g[3] \in Bit
         /\ f[4] \in Bit /\ g[4] \in Bit
         /\ f[5] \in Bit /\ g[5] \in Bit
         /\ g[6] = (IF g[3] = g[1] THEN 0 ELSE 1)
         /\ g[7] = (IF g[4] = g[2] THEN 0 ELSE 1)
         /\ g[8] = (IF g[5] = g[3] THEN 0 ELSE 1)
         /\ g[9] = (IF g[6] = g[4] THEN 0 ELSE 1)
         /\ g[10] = (IF g[7] = g[5] THEN 0 ELSE 1)
         /\ g[11] = (IF g[8] = g[6] THEN 0 ELSE 1)
         /\ g[12] = (IF g[9] = g[7] THEN 0 ELSE 1)
         /\ g[13] = (IF g[10] = g[8] THEN 0 ELSE 1)
         /\ g[14] = (IF g[11] = g[9] THEN 0 ELSE 1)
         /\ g[15] = (IF g[12] = g[10] THEN 0 ELSE 1)
         /\ g[16] = (IF g[13] = g[11] THEN 0 ELSE 1)
         /\ g[17] = (IF g[14] = g[12] THEN 0 ELSE 1)
         /\ g[18] = (IF g[15] = g[13] THEN 0 ELSE 1)
         /\ g[19] = (IF g[16] = g[14] THEN 0 ELSE 1)
         /\ g[20] = (IF g[17] = g[15] THEN 0 ELSE 1)
         /\ g[21] = (IF g[18] = g[16] THEN 0 ELSE 1)
         /\ g[22] = (IF g[19] = g[17] THEN 0 ELSE 1)
         /\ g[23] = (IF g[20] = g[18] THEN 0 ELSE 1)
         /\ g[24] = (IF g[21] = g[19] THEN 0 ELSE 1)
         /\ g[25] = (IF g[22] = g[20] THEN 0 ELSE 1)
         /\ g[26] = (IF g[23] = g[21] THEN 0 ELSE 1)
         /\ g[27] = (IF g[24] = g[22] THEN 0 ELSE 1)
         /\ g[28] = (IF g[25] = g[23] THEN 0 ELSE 1)
         /\ g[29] = (IF g[26] = g[24] THEN 0 ELSE 1)
         /\ g[30] = (IF g[27] = g[25] THEN 0 ELSE 1)
         /\ g[31] = (IF g[28] = g[26] THEN 0 ELSE 1)
         /\ s[1] = (IF f[1] = g[1] THEN 0 ELSE 1)
         /\ s[2] = (IF f[2] = g[2] THEN 0 ELSE 1)
         /\ s[3] = (IF f[3] = g[3] THEN 0 ELSE 1)
         /\ s[4] = (IF f[4] = g[4] THEN 0 ELSE 1)
         /\ s[5] = (IF f[5] = g[5] THEN 0 ELSE 1)
         /\ s[6] = (IF f[4] = g[6] THEN 0 ELSE 1)
         /\ s[7] = (IF f[5] = g[7] THEN 0 ELSE 1)
         /\ s[8] = (IF f[4] = g[8] THEN 0 ELSE 1)
         /\ s[9] = (IF f[5] = g[9] THEN 0 ELSE 1)
         /\ s[10] = (IF f[4] = g[10] THEN 0 ELSE 1)
         /\ s[11] = (IF f[5] = g[11] THEN 0 ELSE 1)
         /\ s[12] = (IF f[4] = g[12] THEN 0 ELSE 1)
         /\ s[13] = (IF f[5] = g[13] THEN 0 ELSE 1)
         /\ s[14] = (IF f[4] = g[14] THEN 0 ELSE 1)
         /\ s[15] = (IF f[5] = g[15] THEN 0 ELSE 1)
         /\ s[16] = (IF f[4] = g[16] THEN 0 ELSE 1)
         /\ s[17] = (IF f[5] = g[17] THEN 0 ELSE 1)
         /\ s[18] = (IF f[4] = g[18] THEN 0 ELSE 1)
         /\ s[19] = (IF f[5] = g[19] THEN 0 ELSE 1)
         /\ s[20] = (IF f[4] = g[20] THEN 0 ELSE 1)
         /\ s[21] = (IF f[5] = g[21] THEN 0 ELSE 1)
         /\ s[22] = (IF f[4] = g[22] THEN 0 ELSE 1)
         /\ s[23] = (IF f[5] = g[23] THEN 0 ELSE 1)
         /\ s[24] = (IF f[4] = g[24] THEN 0 ELSE 1)
         /\ s[25] = (IF f[5] = g[25] THEN 0 ELSE 1)
         /\ s[26] = (IF f[4] = g[26] THEN 0 ELSE 1)
         /\ s[27] = (IF f[5] = g[27] THEN 0 ELSE 1)
         /\ s[28] = (IF f[4] = g[28] THEN 0 ELSE 1)
         /\ s[29] = (IF f[5] = g[29] THEN 0 ELSE 1)
         /\ s[30] = (IF f[4] = g[30] THEN 0 ELSE 1)
         /\ s[31] = (IF f[5] = g[31] THEN 0 ELSE 1)
BY DEF SumOf

\* Whatever f is, no shift correlates or contradicts in more than 23 places
\* if g is not 0.
LEMMA ShiftsDiffer ==
  ASSUME NEW s, NEW f, NEW g, SumOf(s, f, g), \E k \in 1 .. 5 : g[k] # 0, NEW n \in 1 .. 15
  PROVE  Agreements(s, n) \in 8 .. 23
<1>1. ~(g[1] = 0 /\ g[2] = 0 /\ g[3] = 0 /\ g[4] = 0 /\ g[5] = 0)
  OBVIOUS
<1>2. CASE n = 1
  BY <1>1, <1>2, SumBits DEF Agreements, Agree, Bit
<1>3. CASE n = 2
  BY <1>1, <1>3, SumBits DEF Agreements, Agree, Bit
<1>4. CASE n = 3
  BY <1>1, <1>4, SumBits DEF Agreements, Agree, Bit
<1>5. CASE n = 4
  BY <1>1, <1>5, SumBits DEF Agreements, Agree, Bit
<1>6. CASE n = 5
  BY <1>1, <1>6, SumBits DEF Agreements, Agree, Bit
<1>7. CASE n = 6
  BY <1>1, <1>7, SumBits DEF Agreements, Agree, Bit
<1>8. CASE n = 7
  BY <1>1, <1>8, SumBits DEF Agreements, Agree, Bit
<1>9. CASE n = 8
  BY <1>1, <1>9, SumBits DEF Agreements, Agree, Bit
<1>10. CASE n = 9
  BY <1>1, <1>10, SumBits DEF Agreements, Agree, Bit
<1>11. CASE n = 10
  BY <1>1, <1>11, SumBits DEF Agreements, Agree, Bit
<1>12. CASE n = 11
  BY <1>1, <1>12, SumBits DEF Agreements, Agree, Bit
<1>13. CASE n = 12
  BY <1>1, <1>13, SumBits DEF Agreements, Agree, Bit
<1>14. CASE n = 13
  BY <1>1, <1>14, SumBits DEF Agreements, Agree, Bit
<1>15. CASE n = 14
  BY <1>1, <1>15, SumBits DEF Agreements, Agree, Bit
<1>16. CASE n = 15
  BY <1>1, <1>16, SumBits DEF Agreements, Agree, Bit
<1> QED
  BY <1>2, <1>3, <1>4, <1>5, <1>6, <1>7, <1>8, <1>9, <1>10, <1>11, <1>12, <1>13, <1>14, <1>15, <1>16

\* If g is 0, the sequence agrees with its shift, or contradicts it, from the
\* fourth place to the thirtieth.
LEMMA ShiftRepeats ==
  ASSUME NEW s, NEW f, NEW g, SumOf(s, f, g), \A k \in 1 .. 5 : g[k] = 0
  PROVE  Agreements(s, 1) \notin 8 .. 23
<1>1. g[1] = 0 /\ g[2] = 0 /\ g[3] = 0 /\ g[4] = 0 /\ g[5] = 0
  OBVIOUS
<1> QED
  BY <1>1, SumBits DEF Agreements, Agree, Bit

\* A sequence of bits to which each recurrence adds bits.
LEMMA RecurrenceOfBits ==
  ASSUME NEW f, \A k \in 1 .. 5 : f[k] \in Bit,
         \A k \in 6 .. 31 : f[k - 2] \in Bit /\ f[k - 3] \in Bit /\ f[k - 5] \in Bit => f[k] \in Bit
  PROVE  \A k \in 1 .. 31 : f[k] \in Bit
<1> DEFINE T == {k \in 0 .. 31 : \A j \in 1 .. 31 : j <= k => f[j] \in Bit}
<1>1. 0 \in T
  OBVIOUS
<1>2. ASSUME NEW k \in 0 .. 31 - 1, k \in T PROVE k + 1 \in T
  <2>1. \A j \in 1 .. 31 : j <= k => f[j] \in Bit
    BY <1>2
  <2>2. f[k + 1] \in Bit
    <3>1. CASE k + 1 \in 1 .. 5
      BY <3>1
    <3>2. CASE k + 1 \in 6 .. 31
      <4>1. /\ (k + 1) - 2 \in 1 .. 31 /\ (k + 1) - 2 <= k
            /\ (k + 1) - 3 \in 1 .. 31 /\ (k + 1) - 3 <= k
            /\ (k + 1) - 5 \in 1 .. 31 /\ (k + 1) - 5 <= k
        BY <3>2
      <4>2. f[(k + 1) - 2] \in Bit /\ f[(k + 1) - 3] \in Bit /\ f[(k + 1) - 5] \in Bit
        BY <2>1, <4>1
      <4> QED
        BY <3>2, <4>2
    <3> QED
      BY <3>1, <3>2
  <2>3. \A j \in 1 .. 31 : j <= k + 1 => j <= k \/ j = k + 1
    OBVIOUS
  <2> QED
    BY <2>1, <2>2, <2>3
<1> HIDE DEF T
<1>3. 0 .. 31 \subseteq T
  BY <1>1, <1>2, IntervalSet
<1> QED
  BY <1>3 DEF T

\* The sum of two bits.
LEMMA SumOfBits == \A j, k \in Bit : Sum2(j, k) = (IF j = k THEN 0 ELSE 1) /\ Sum2(j, k) \in Bit
BY DEF Sum2, Bit

\* The sequence of main is the sum of the two recurrences; the second is 0 if
\* its register is.
LEMMA SequenceIsSumOf ==
  ASSUME TableInv, PeriodInv, SequenceIsSum, step = "table"
  PROVE  /\ SumOf(seq, XBits, YBits)
         /\ start[2] = 0 => \A k \in 1 .. 5 : YBits[k] = 0
         /\ start[2] # 0 => \E k \in 1 .. 5 : YBits[k] # 0
<1>1. IsXBits(XBits, start[1]) /\ IsYBits(YBits, start[2])
  BY XBitsMeans, YBitsMeans DEF TableInv, RegistersOK
<1>2. start[1] \in Int /\ start[2] \in 0 .. 31
  BY DEF PeriodInv
<1>3. Bits(start[1]) \in [1 .. 5 -> Bit] /\ Bits(start[2]) \in [1 .. 5 -> Bit]
  BY <1>2, BitsType DEF N
<1>4. (\A k \in 1 .. 5 : YBits[k] = Bits(start[2])[k]) /\ (\A k \in 1 .. 5 : XBits[k] = Bits(start[1])[k])
  BY <1>1, Length DEF IsXBits, IsYBits, N
<1>5. \A k \in 6 .. 31 : XBits[k] = XBits[k - 2] /\ YBits[k] = Sum2(YBits[k - 3], YBits[k - 5])
  BY <1>1, Length DEF IsXBits, IsYBits, N
<1>6. \A k \in 1 .. 31 : XBits[k] \in Bit
  BY <1>3, <1>4, <1>5, RecurrenceOfBits
<1>7. \A k \in 1 .. 31 : YBits[k] \in Bit
  <2>1. \A k \in 6 .. 31 : YBits[k - 3] \in Bit /\ YBits[k - 5] \in Bit => YBits[k] \in Bit
    BY <1>5, SumOfBits
  <2> QED
    BY <1>3, <1>4, <2>1, RecurrenceOfBits
<1>8. XBits \in [1 .. 31 -> Bit] /\ YBits \in [1 .. 31 -> Bit]
  <2>1. XBits = [k \in 1 .. 31 |-> XBits[k]] /\ YBits = [k \in 1 .. 31 |-> YBits[k]]
    BY <1>1, Length DEF IsXBits, IsYBits
  <2> QED
    BY <1>6, <1>7, <2>1
<1>9. \A k \in 6 .. 31 : YBits[k] = (IF YBits[k - 3] = YBits[k - 5] THEN 0 ELSE 1)
  <2>1. \A k \in 6 .. 31 : k - 3 \in 1 .. 31 /\ k - 5 \in 1 .. 31
    OBVIOUS
  <2> QED
    BY <1>5, <1>7, <2>1, SumOfBits
<1>10. \A k \in 1 .. 31 : seq[k] = (IF XBits[k] = YBits[k] THEN 0 ELSE 1)
  BY <1>6, <1>7, SumOfBits, Length DEF SequenceIsSum
<1>11. SumOf(seq, XBits, YBits)
  BY <1>5, <1>8, <1>9, <1>10 DEF SumOf
<1>12. NumberIn(Bits(start[2])) = start[2]
  BY <1>2, NumberOfBits
<1>13. LET r == Bits(start[2])
       IN  start[2] = 0 <=> r[1] = 0 /\ r[2] = 0 /\ r[3] = 0 /\ r[4] = 0 /\ r[5] = 0
  <2>1. \A b1, b2, b3, b4, b5 \in Bit :
          Number(b1, b2, b3, b4, b5) = 0 <=> b1 = 0 /\ b2 = 0 /\ b3 = 0 /\ b4 = 0 /\ b5 = 0
    BY DEF Number, Bit
  <2>2. \A k \in 1 .. 5 : Bits(start[2])[k] \in Bit
    BY <1>3
  <2> QED
    BY <1>12, <2>1, <2>2 DEF NumberIn
<1>14. start[2] = 0 <=> \A k \in 1 .. 5 : YBits[k] = 0
  <2>1. \A k \in 1 .. 5 : k \in {1, 2, 3, 4, 5}
    OBVIOUS
  <2> QED
    BY <1>4, <1>13, <2>1
<1> QED
  BY <1>11, <1>14

\* What check_autocorrelation finds of a number of agreements.
LEMMA WithinTolerance ==
  \A a \in 0 .. 31 : /\ 2 * (2 * a - 31) <= 31 /\ 0 - 2 * (2 * a - 31) <= 31 <=> a \in 8 .. 23
                     /\ 2 * (2 * a - 31) \in 0 - 31 .. 31 <=> a \in 8 .. 23
OBVIOUS

\* check_autocorrelation shifts once.
LEMMA OneShift ==
  ASSUME NEW s \in Seq(Bit), Len(s) = 31
  PROVE  Uncorrelated(s) <=> Agreements(s, 1) \in 8 .. 23
<1>1. ShiftSeq(s) = Rotated(s, 1)
  <2>1. 0 \in 0 .. Len(s) - 1 /\ 0 + 1 = 1
    OBVIOUS
  <2>2. ShiftSeq(Rotated(s, 0)) = Rotated(s, 0 + 1)
    BY <2>1, ShiftRotates
  <2> QED
    BY <2>1, <2>2, RotatedOnce
<1>2. 1 \in 0 .. 30
  OBVIOUS
<1>3. Autocorr(s, Rotated(s, 1)) = 2 * Agreements(s, 1) - 31 /\ Agreements(s, 1) \in 0 .. 31
  BY <1>2, CorrelationCounts
<1> HIDE DEF Agreements
<1> QED
  BY <1>1, <1>3, WithinTolerance DEF Uncorrelated

\* Rows from both ends of the table.
LEMMA OtherShifts ==
  ASSUME NEW s \in Seq(Bit), Len(s) = 31, \A n \in 1 .. 15 : Agreements(s, n) \in 8 .. 23,
         NEW n \in 1 .. 30
  PROVE  2 * Autocorr(s, Rotated(s, n)) \in 0 - 31 .. 31
<1>1. ASSUME NEW m \in 1 .. 15
      PROVE  2 * Autocorr(s, Rotated(s, m)) \in 0 - 31 .. 31
  <2>1. m \in 0 .. 30
    OBVIOUS
  <2>2. Autocorr(s, Rotated(s, m)) = 2 * Agreements(s, m) - 31 /\ Agreements(s, m) \in 0 .. 31
    BY <2>1, CorrelationCounts
  <2> HIDE DEF Agreements
  <2> QED
    BY <2>2, WithinTolerance
<1>2. CASE n \in 1 .. 15
  BY <1>1, <1>2
<1>3. CASE n \in 16 .. 30
  <2>1. 31 - n \in 1 .. 15 /\ n \in 0 .. Len(s) /\ Len(s) - n = 31 - n
    BY <1>3
  <2>2. Autocorr(s, Rotated(s, n)) = Autocorr(s, Rotated(s, 31 - n))
    BY <2>1, AutocorrSymmetric
  <2> QED
    BY <1>1, <2>1, <2>2
<1> QED
  BY <1>2, <1>3

\* What is known when a table is printed.
TableFacts == TableInv /\ PeriodInv /\ SequenceIsSum

\* The facts hold always.
LEMMA TableFactsHold == Spec => []TableFacts
<1>1. TableInv /\ PeriodInv /\ SequenceIsSum => TableFacts
  BY DEF TableFacts
<1> QED
  BY <1>1, TableInvCorrect, PeriodInit, PeriodNext, SequenceCorrect, PTL DEF Spec

\* The sequences of the program pass the test of check_autocorrelation exactly when
\* the second register was not 0, whatever the first was.
THEOREM UncorrelatedMeans ==
  Spec => [](step = "table" => (Uncorrelated(seq) <=> start[2] # 0))
<1>1. ASSUME TableFacts, step = "table"
      PROVE  Uncorrelated(seq) <=> start[2] # 0
  <2>1. seq \in Seq(Bit) /\ Len(seq) = 31
    BY <1>1, Length DEF TableFacts, TableInv, SeqOK
  <2>2. /\ SumOf(seq, XBits, YBits)
        /\ start[2] = 0 => \A k \in 1 .. 5 : YBits[k] = 0
        /\ start[2] # 0 => \E k \in 1 .. 5 : YBits[k] # 0
    BY <1>1, SequenceIsSumOf DEF TableFacts
  <2>3. start[2] # 0 => Agreements(seq, 1) \in 8 .. 23
    <3>1. 1 \in 1 .. 15
      OBVIOUS
    <3> QED
      BY <2>2, <3>1, ShiftsDiffer
  <2>4. start[2] = 0 => Agreements(seq, 1) \notin 8 .. 23
    BY <2>2, ShiftRepeats
  <2> QED
    BY <2>1, <2>3, <2>4, OneShift
<1> QED
  BY <1>1, TableFactsHold, PTL

\* check_autocorrelation may well compare a single shift: what it finds, a
\* comparison with every shift would find, for all registers.
THEOREM OneShiftCorrect == Spec => []OneShiftIsEnough
<1>1. ASSUME TableFacts, TableIsComplete
      PROVE  Uncorrelated(seq) <=> \A k \in 2 .. 31 : 2 * column[k] \in 0 - 31 .. 31
  <2>1. step = "table" /\ Len(column) = 32
    BY <1>1, Length DEF TableIsComplete
  <2>2. seq \in Seq(Bit) /\ Len(seq) = 31
    BY <1>1, Length DEF TableFacts, TableInv, SeqOK
  <2>3. \A k \in 1 .. 32 : column[k] = Autocorr(seq, Rotated(seq, k - 1))
    BY <1>1, <2>1 DEF TableFacts, TableInv, RowsAreRotations
  <2>4. /\ SumOf(seq, XBits, YBits)
        /\ start[2] = 0 => \A k \in 1 .. 5 : YBits[k] = 0
        /\ start[2] # 0 => \E k \in 1 .. 5 : YBits[k] # 0
    BY <1>1, <2>1, SequenceIsSumOf DEF TableFacts
  <2>5. CASE start[2] # 0
    <3>1. \A n \in 1 .. 15 : Agreements(seq, n) \in 8 .. 23
      BY <2>4, <2>5, ShiftsDiffer
    <3>2. ASSUME NEW k \in 2 .. 31
          PROVE  2 * column[k] \in 0 - 31 .. 31
      <4>1. k - 1 \in 1 .. 30 /\ k \in 1 .. 32
        OBVIOUS
      <4> QED
        BY <2>2, <2>3, <3>1, <4>1, OtherShifts
    <3>3. 1 \in 1 .. 15
      OBVIOUS
    <3> QED
      BY <2>2, <3>1, <3>2, <3>3, OneShift
  <2>6. CASE start[2] = 0
    <3>1. Agreements(seq, 1) \notin 8 .. 23
      BY <2>4, <2>6, ShiftRepeats
    <3>2. 1 \in 0 .. 30 /\ 2 \in 1 .. 32 /\ 2 \in 2 .. 31 /\ 2 - 1 = 1
      OBVIOUS
    <3>3. column[2] = 2 * Agreements(seq, 1) - 31 /\ Agreements(seq, 1) \in 0 .. 31
      BY <2>2, <2>3, <3>2, CorrelationCounts
    <3>4. ~(2 * column[2] \in 0 - 31 .. 31)
      <4> HIDE DEF Agreements
      <4> QED
        BY <3>1, <3>3, WithinTolerance
    <3> QED
      BY <2>2, <3>1, <3>2, <3>4, OneShift
  <2> QED
    BY <2>5, <2>6
<1>2. TableFacts => OneShiftIsEnough
  BY <1>1, Length DEF OneShiftIsEnough
<1> QED
  BY <1>2, TableFactsHold, PTL
=============================================================================
