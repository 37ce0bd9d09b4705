---------------------------- MODULE GoldSequence ----------------------------
(***************************************************************************)
(* The program bmcs/lab4/lab4.c: two shift registers of N bits produce a   *)
(* Gold sequence, the sequence is tested for the properties of an          *)
(* m-sequence, and a table of its cyclic shifts and their autocorrelation  *)
(* is printed; twice, with registers the source sets to 18, 10 and 19, 5.  *)
(*                                                                         *)
(* An int that holds bits is the tuple of these bits, the lowest first.    *)
(* A correlation is the integer parity - disparity, not yet divided by the *)
(* length.                                                                 *)
(***************************************************************************)
EXTENDS Integers, Sequences, FiniteSets

CONSTANT Registers   \* what main may set x and y to at first

N == 5
SEQ_LENGTH == 2^N - 1

\* x += 1 and y -= 5 must leave numbers of N bits.
ASSUME RegistersAssumption == Registers \subseteq (0 .. SEQ_LENGTH - 1) \X (5 .. SEQ_LENGTH)

VARIABLES
  step,              \* "generate", "table" or "done"
  round,             \* 1 or 2
  start,             \* x and y of main
  x, y,              \* x and y of Gold_sequence
  seq,               \* res of Gold_sequence, then seq of main
  i,                 \* loop counter of Gold_sequence
  new_seq,
  column,            \* the correlations printed
  is_m_sequence      \* what was found last, of the first sequence b

vars == <<step, round, start, x, y, seq, i, new_seq, column, is_m_sequence>>

Bits(value) == [k \in 1 .. N |-> (value \div 2^(k - 1)) % 2]

Sum2(a, b) == (a + b) % 2

\* autocorr
Autocorr(a, b) ==
  LET parity == Cardinality({k \in DOMAIN a : a[k] = b[k]})
  IN  parity - (Len(a) - parity)

\* Faulty variant: the lowest bit is lost.
ShiftSeqOpen(s) == Append(Tail(s), 0)

\* shift_seq
ShiftSeq(s) == Append(Tail(s), Head(s))

\* check_balance
Balanced(s) == LET ones == Cardinality({k \in DOMAIN s : s[k] = 1})
               IN  2 * ones - Len(s) \in -1 .. 1

\* Faulty variant: fabs is missing.
UncorrelatedSigned(s) == 2 * Autocorr(s, ShiftSeq(s)) <= Len(s)

\* check_autocorrelation: the shifted sequence is computed afresh from the
\* same one in every turn of its loop, and TOLERANCE is 0.5.
Uncorrelated(s) == LET correlation == Autocorr(s, ShiftSeq(s))
                   IN  2 * correlation <= Len(s) /\ 0 - 2 * correlation <= Len(s)

\* check_cycle_distribution only prints, and returns 1.
IsMSequence(s) == Balanced(s) /\ Uncorrelated(s)

-----------------------------------------------------------------------------
\* Faulty variant: the tap of lab4.m.
XFeedbackMasked == Sum2(x[4], x[2])

\* x & 2 is 0 or 2 and y & 3 a number of two bits: neither is a bit.
XFeedback == Sum2(x[4], 2 * x[2])

\* Faulty variant: the tap of lab4.m.
YFeedbackMasked == Sum2(y[3], y[2])

YFeedback == Sum2(y[3], y[1] + 2 * y[2])

\* The call of Gold_sequence.
Generate(registers) ==
  /\ step' = "generate"
  /\ start' = registers
  /\ x' = Bits(registers[1]) /\ y' = Bits(registers[2])
  /\ seq' = [k \in 1 .. SEQ_LENGTH |-> 0]
  /\ i' = 0
  /\ new_seq' = <<>> /\ column' = <<>>

Init ==
  /\ step = "generate" /\ round = 1
  /\ start \in Registers
  /\ x = Bits(start[1]) /\ y = Bits(start[2])
  /\ seq = [k \in 1 .. SEQ_LENGTH |-> 0]
  /\ i = 0
  /\ new_seq = <<>> /\ column = <<>>
  /\ is_m_sequence = FALSE

\* One turn of the loop in Gold_sequence.
NextBit ==
  /\ step = "generate" /\ i < SEQ_LENGTH
  /\ seq' = Append(Tail(seq), Sum2(x[1], y[1]))
  /\ x' = Append(Tail(x), XFeedback)
  /\ y' = Append(Tail(y), YFeedback)
  /\ i' = i + 1
  /\ UNCHANGED <<step, round, start, new_seq, column, is_m_sequence>>

\* The number main tests in the first round instead of the sequence.
b == [k \in 1 .. SEQ_LENGTH |-> (k - 1) % 2]

\* is_m_sequence, and the first row of the table.
CheckSequence ==
  /\ step = "generate" /\ i = SEQ_LENGTH
  /\ is_m_sequence' = IsMSequence(IF round = 1 THEN b ELSE seq)
  /\ new_seq' = seq
  /\ column' = <<Autocorr(seq, seq)>>
  /\ step' = "table"
  /\ UNCHANGED <<round, start, x, y, seq, i>>

NextRow ==
  /\ step = "table" /\ Len(column) <= SEQ_LENGTH
  /\ new_seq' = ShiftSeq(new_seq)
  /\ column' = Append(column, Autocorr(seq, new_seq'))
  /\ UNCHANGED <<step, round, start, x, y, seq, i, is_m_sequence>>

TableIsComplete == step = "table" /\ Len(column) = SEQ_LENGTH + 1

SecondRound ==
  /\ TableIsComplete /\ round = 1
  /\ round' = 2
  /\ Generate(<<start[1] + 1, start[2] - 5>>)
  /\ UNCHANGED is_m_sequence

Return ==
  /\ TableIsComplete /\ round = 2
  /\ step' = "done"
  /\ UNCHANGED <<round, start, x, y, seq, i, new_seq, column, is_m_sequence>>

Next == NextBit \/ CheckSequence \/ NextRow \/ SecondRound \/ Return

Spec == Init /\ [][Next]_vars

-----------------------------------------------------------------------------
(* Properties *)

\* The linear recurrences the registers go through, from the bits of x and y.
\* The first has lost its second tap and repeats every other bit.
XBits[k \in 1 .. SEQ_LENGTH] == IF k <= N THEN Bits(start[1])[k] ELSE XBits[k - 2]
YBits[k \in 1 .. SEQ_LENGTH] ==
  IF k <= N THEN Bits(start[2])[k] ELSE Sum2(YBits[k - 3], YBits[k - 5])

\* Shifting registers by their ends yields the sum of the two recurrences, in
\* the order of the bits that the shifts of the table presuppose.
SequenceIsSum ==
  step = "table" => seq = [k \in 1 .. SEQ_LENGTH |-> Sum2(XBits[k], YBits[k])]

\* The second register is of maximal length: it is back at its start after
\* SEQ_LENGTH steps and not before.
YIsMaximal ==
  step = "generate" /\ i > 0 /\ start[2] # 0 => (y = Bits(start[2]) <=> i = SEQ_LENGTH)

\* The table covers one whole period: its last row is its first, and the
\* correlation of a shift is that of the shift in the other direction.
TableIsPeriodic ==
  TableIsComplete =>
    /\ new_seq = seq
    /\ \A k \in 1 .. SEQ_LENGTH + 1 : column[k] = column[SEQ_LENGTH + 2 - k]

\* check_autocorrelation compares a single shift, but finds what a comparison
\* with every shift, as in the table, would find.
OneShiftIsEnough ==
  TableIsComplete =>
    (Uncorrelated(seq) <=> \A k \in 2 .. SEQ_LENGTH :
                             2 * column[k] \in 0 - SEQ_LENGTH .. SEQ_LENGTH)
=============================================================================
