---------------------------- MODULE Transmission ----------------------------
(***************************************************************************)
(* The radio link of bmcs/rgr/rgr.py: a message is framed (Gold sequence,  *)
(* data, CRC) and sampled, noise disturbs the samples, and the receiver    *)
(* finds the frame by correlation, turns samples into bits and validates   *)
(* the CRC.                                                                *)
(*                                                                         *)
(* Samples are 0 or 1: noise either carries a sample across the threshold  *)
(* or leaves it. Characters are their bits.                                *)
(***************************************************************************)
EXTENDS Crc, FiniteSets

CONSTANTS
  Message,             \* bit strings of the names that may be entered
  SamplesPerBit,       \* values of samples_per_bit
  reg1_initial, reg2_initial, length,   \* of the Gold sequence
  Burst                \* bound: samples a burst of noise may reach

ASSUME MessageAssumption == Message \subseteq Seq(Bit)
ASSUME SamplesAssumption == SamplesPerBit \subseteq Nat \ {0}
ASSUME RegistersAssumption ==
  /\ reg1_initial \in Seq(Bit) /\ reg2_initial \in Seq(Bit)
  /\ Len(reg1_initial) > 2 /\ Len(reg2_initial) > 2
\* 31 in the code, where the CRC has 7 bits: what follows the place at which the
\* receiver found the Gold sequence is long enough to hold a CRC.
ASSUME LengthAssumption == length \in Nat /\ length >= Len(crc_generator) - 1

VARIABLES
  stage,               \* "enter", "air", "done" or "off"
  bit_sequence,        \* the message entered
  samples_per_bit,
  signal,              \* signal_samples, then noisy_signal
  hit,                 \* history: the positions noise has changed
  start_idx,           \* where the receiver found the frame
  decoded_bits,        \* what it read from there on
  verdict              \* "none", "no errors" or "errors"

vars == <<stage, bit_sequence, samples_per_bit, signal, hit, start_idx, decoded_bits, verdict>>

-----------------------------------------------------------------------------
(* Algorithms *)

\* The two shift registers after k outputs.
Registers ==
  LET after[k \in 0 .. length] ==
        IF k = 0 THEN <<reg1_initial, reg2_initial>>
        ELSE LET before == after[k - 1]
                 reg1   == before[1]
                 reg2   == before[2]
             IN  <<<<Xor(reg1[2], Last(reg1))>> \o Front(reg1),
                   <<Xor(Xor(reg2[1], reg2[2]), reg2[3])>> \o Front(reg2)>>
  IN  after

\* create_gold_sequence
gold_sequence ==
  [k \in 1 .. length |-> Xor(Last(Registers[k - 1][1]), Last(Registers[k - 1][2]))]

\* bits_to_samples
Samples(bits, n) == [k \in 1 .. Len(bits) * n |-> bits[(k - 1) \div n + 1]]

\* align_signal_with_pattern at one offset, without the common norm: of two
\* 0/1 signals, the number of places where both are 1.
Correlation(samples, ones, offset) == Cardinality({k \in ones : samples[offset + k] = 1})

\* The offsets of numpy's correlate(..., mode='valid').
Offsets(samples, pattern) == 0 .. Len(samples) - Len(pattern)

\* Faulty variant: correlation with a pattern of ones, the signal's energy.
BestOffsetByEnergy(samples, pattern) ==
  LET scored == {<<Correlation(samples, DOMAIN pattern, o), o>> : o \in Offsets(samples, pattern)}
      peak   == Max({score[1] : score \in scored})
  IN  Min({score[2] : score \in {s \in scored : s[1] = peak}})

\* numpy's argmax: the first maximum.
BestOffset(samples, pattern) ==
  LET ones   == Ones(pattern)
      scored == {<<Correlation(samples, ones, o), o>> : o \in Offsets(samples, pattern)}
      peak   == Max({score[1] : score \in scored})
  IN  Min({score[2] : score \in {s \in scored : s[1] = peak}})

\* interpret_samples_as_bits: the mean of each group of samples, the last of
\* which may be short, against 0.5.
Interpret(samples, n) ==
  [b \in 1 .. (Len(samples) + n - 1) \div n |->
     LET group == {k \in (b - 1) * n + 1 .. b * n : k <= Len(samples)}
         ones  == {k \in group : samples[k] = 1}
     IN  IF 2 * Cardinality(ones) > Cardinality(group) THEN 1 ELSE 0]

crcLen == Len(crc_generator) - 1

-----------------------------------------------------------------------------
(* The program *)

Init ==
  /\ stage = "enter"
  /\ bit_sequence \in Message
  /\ samples_per_bit \in SamplesPerBit
  /\ signal = <<>>
  /\ hit = {}
  /\ start_idx = 0
  /\ decoded_bits = <<>>
  /\ verdict = "none"

\* The program is not running.
LinkOff ==
  /\ stage = "off"
  /\ bit_sequence = <<>> /\ samples_per_bit = 0
  /\ signal = <<>> /\ hit = {}
  /\ start_idx = 0 /\ decoded_bits = <<>>
  /\ verdict = "none"

\* Faulty variant: the CRC is sent ahead of the data.
FrameSwapped == gold_sequence \o CalculateCrc(bit_sequence, crc_generator) \o bit_sequence

Frame == gold_sequence \o bit_sequence \o CalculateCrc(bit_sequence, crc_generator)

Transmit ==
  /\ stage = "enter"
  /\ signal' = Samples(Frame, samples_per_bit)
  /\ stage' = "air"
  /\ UNCHANGED <<bit_sequence, samples_per_bit, hit, start_idx, decoded_bits, verdict>>

\* Noise strikes: a burst of at most Burst samples, or one whole bit and one
\* other. np.random.normal may do worse.
BitSamples(b) == (b - 1) * samples_per_bit + 1 .. b * samples_per_bit

Noise ==
  /\ stage = "air"
  /\ hit = {}
  /\ \/ \E first \in DOMAIN signal :
          \E more \in SUBSET {k \in DOMAIN signal : k > first /\ k < first + Burst} :
            hit' = {first} \cup more
     \/ \E b, c \in 1 .. Len(signal) \div samples_per_bit :
          b < c /\ hit' = BitSamples(b) \cup BitSamples(c)
  /\ signal' = [k \in DOMAIN signal |-> IF k \in hit' THEN 1 - signal[k] ELSE signal[k]]
  /\ UNCHANGED <<stage, bit_sequence, samples_per_bit, start_idx, decoded_bits, verdict>>

\* What the receiver takes for data, and for data with its CRC.
Data(bits) == SubSeq(bits, length + 1, Len(bits) - crcLen)
DataWithCrc(bits) == Data(bits) \o SubSeq(bits, Len(bits) - crcLen + 1, Len(bits))

Receive ==
  /\ stage = "air"
  /\ start_idx' = BestOffset(signal, Samples(gold_sequence, samples_per_bit))
  /\ decoded_bits' = Interpret(SubSeq(signal, start_idx' + 1, Len(signal)), samples_per_bit)
  /\ verdict' = IF NoErrors(DataWithCrc(decoded_bits'), crc_generator)
                THEN "no errors" ELSE "errors"
  /\ stage' = "done"
  /\ UNCHANGED <<bit_sequence, samples_per_bit, signal, hit>>

Next == Transmit \/ Noise \/ Receive

Spec == Init /\ [][Next]_vars

-----------------------------------------------------------------------------
(* Properties *)

\* A frame that no noise touched is found, accepted and decoded: nothing in
\* the data or its CRC is taken for the Gold sequence.
CleanIsAccepted ==
  stage = "done" /\ hit = {} => verdict = "no errors" /\ Data(decoded_bits) = bit_sequence

\* "No errors detected!" is printed for the message that was sent and for no
\* other, whatever a burst within the CRC's length or two damaged bits do to
\* the Gold sequence, the data or the CRC.
AcceptedIsSent == verdict = "no errors" => Data(decoded_bits) = bit_sequence

\* Such noise never moves the peak of the correlation to another offset: a
\* frame is not taken to begin inside itself.
FrameIsFound == start_idx = 0

\* The bit string of length n whose polynomial is that of quotient times the
\* generator's: a bit is the parity of the products that fall there.
Multiple(n, quotient) ==
  [k \in 1 .. n |-> Cardinality({q \in quotient : k - q + 1 \in Ones(crc_generator)}) % 2]

\* Every multiple of the generator as long as some frame's data and CRC.
Lengths == {Len(m) + crcLen : m \in Message}
Codewords == UNION {{Multiple(n, q) : q \in SUBSET (1 .. n - crcLen)} : n \in Lengths}

\* The long division agrees with the definition of a cyclic code: exactly the
\* multiples of the generator polynomial are accepted.
AcceptedIsMultiple ==
  stage = "done" =>
    LET word == DataWithCrc(decoded_bits)
    IN  Len(word) \in Lengths => (verdict = "no errors" <=> word \in Codewords)
=============================================================================
