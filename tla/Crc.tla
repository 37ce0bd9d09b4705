-------------------------------- MODULE Crc --------------------------------
(***************************************************************************)
(* The cyclic redundancy check of bmcs/lab5 and bmcs/rgr: calculate_crc    *)
(* and check_for_errors of lab5.cpp, and compute_crc of the two Python     *)
(* programs, which is the same algorithm. A bit string is a sequence over  *)
(* {0, 1}, as vector<int> is in the code.                                  *)
(***************************************************************************)
EXTENDS Integers, Sequences, SequencesExt, FiniteSetsExt

CONSTANT crc_generator     \* of rgr.py and lab5.cpp

Bit == {0, 1}

\* The bits of a polynomial from its leading 1 down to its constant term, also
\* 1: so are all that the programs use.
IsGenerator(generator) ==
  /\ generator \in Seq(Bit) /\ Len(generator) > 1
  /\ generator[1] = 1 /\ Last(generator) = 1

ASSUME GeneratorAssumption == IsGenerator(crc_generator)

Xor(a, b) == (a + b) % 2

\* The positions of the bits that are set.
Ones(bits) == {k \in DOMAIN bits : bits[k] = 1}

\* The positions that are set after so many turns of the outer loop over the
\* padded data: the generator is added, modulo 2, where its leading bit is needed.
Remainder(data, generator, turns) ==
  LET after[k \in 0 .. turns] ==
        IF k = 0 THEN Ones(data)
        ELSE LET ones == after[k - 1]
             IN  IF k \in ones THEN SymDiff(ones, {k + j - 1 : j \in Ones(generator)}) ELSE ones
  IN  after[turns]

CrcOf(ones, data, generator) ==
  [k \in 1 .. Len(generator) - 1 |-> IF Len(data) + k \in ones THEN 1 ELSE 0]

\* Faulty variant: the outer loop stops one bit early.
CalculateCrcShort(data, generator) ==
  CrcOf(Remainder(data, generator, Len(data) - 1), data, generator)

\* The data is reduced bit by bit from the left; what remains in the padding
\* is the CRC.
CalculateCrc(data, generator) ==
  CrcOf(Remainder(data, generator, Len(data)), data, generator)

\* Faulty variant: only the last bit of the remainder is looked at.
NoErrorsInLast(data_with_crc, generator) ==
  Last(CalculateCrc(data_with_crc, generator)) = 0

\* check_for_errors, TRUE when there are none: the remainder of data and CRC
\* together has no bit set.
NoErrors(data_with_crc, generator) == Ones(CalculateCrc(data_with_crc, generator)) = {}
=============================================================================
