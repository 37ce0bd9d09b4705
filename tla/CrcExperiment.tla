--------------------------- MODULE CrcExperiment ---------------------------
(***************************************************************************)
(* The experiments of bmcs/lab5 with the CRC. lab5.cpp flips every bit of  *)
(* one data with CRC in turn and counts the errors its check misses;       *)
(* lab5.py does the same with two bits at random positions, for each       *)
(* generator of a list.                                                    *)
(***************************************************************************)
EXTENDS Crc

CONSTANTS
  Sample,              \* the random data
  crc_generators,      \* lab5.py: the values of the dictionary, in its order
  num_tests,           \* lab5.py: tests of each generator
  FirstError           \* bound: where the first of two errors may be

ASSUME SampleAssumption == Sample \subseteq Seq(Bit)
ASSUME GeneratorsAssumption ==
  /\ crc_generators \in Seq(Seq(Bit))
  /\ \A k \in DOMAIN crc_generators : IsGenerator(crc_generators[k])
ASSUME TestsAssumption == num_tests \in Nat
ASSUME FirstErrorAssumption == FirstError \subseteq Nat \ {0}

VARIABLES
  experiment,          \* "lab5.cpp", "lab5.py" or "none"
  data_with_crc,       \* lab5.cpp: what is disturbed
  i,                   \* lab5.cpp: bits flipped so far; lab5.py: generators done
  missed_errors,
  detected_errors,
  distances            \* history: how far apart the two errors of each test were

counts == <<missed_errors, detected_errors>>
experimentVars == <<experiment, data_with_crc, i, counts, distances>>

WithCrc(data, generator) == data \o CalculateCrc(data, generator)

NoExperiment ==
  /\ experiment = "none"
  /\ data_with_crc = <<>> /\ i = 0
  /\ missed_errors = 0 /\ detected_errors = 0
  /\ distances = <<>>

ExperimentInit ==
  /\ experiment \in {"lab5.cpp", "lab5.py"}
  /\ IF experiment = "lab5.cpp"
     THEN data_with_crc \in {WithCrc(data, crc_generator) : data \in Sample}
     ELSE data_with_crc = <<>>
  /\ i = 0
  /\ missed_errors = 0 /\ detected_errors = 0
  /\ distances = <<>>

Flip(bits, positions) == [k \in DOMAIN bits |-> IF k \in positions THEN 1 - bits[k] ELSE bits[k]]

\* The counter goes up that the check decides for.
Count(erroneous_data, generator) ==
  IF NoErrors(erroneous_data, generator)
  THEN missed_errors' = missed_errors + 1 /\ UNCHANGED detected_errors
  ELSE detected_errors' = detected_errors + 1 /\ UNCHANGED missed_errors

\* One turn of the loop in lab5.cpp.
FlipNext ==
  /\ experiment = "lab5.cpp" /\ i < Len(data_with_crc)
  /\ Count(Flip(data_with_crc, {i + 1}), crc_generator)
  /\ i' = i + 1
  /\ UNCHANGED <<experiment, data_with_crc, distances>>

\* Faulty variant: the counter goes on from one generator to the next.
NextGeneratorCounting ==
  /\ experiment = "lab5.py" /\ i < Len(crc_generators) /\ Len(distances) = num_tests
  /\ i' = i + 1
  /\ distances' = <<>>
  /\ UNCHANGED <<experiment, data_with_crc, counts>>

\* One test of lab5.py, which only counts what was missed.
TestPair ==
  /\ experiment = "lab5.py" /\ i < Len(crc_generators) /\ Len(distances) < num_tests
  /\ LET generator == crc_generators[i + 1]
     IN  \E data \in Sample :
           LET transmitted_data == WithCrc(data, generator)
           IN  \E a \in FirstError, b \in DOMAIN transmitted_data :
                 /\ a < b
                 /\ missed_errors' = missed_errors
                      + (IF NoErrors(Flip(transmitted_data, {a, b}), generator) THEN 1 ELSE 0)
                 /\ distances' = Append(distances, b - a)
  /\ UNCHANGED <<experiment, data_with_crc, i, detected_errors>>

\* The result is noted for the plot, and the next generator counts from 0.
NextGenerator ==
  /\ experiment = "lab5.py" /\ i < Len(crc_generators) /\ Len(distances) = num_tests
  /\ i' = i + 1
  /\ missed_errors' = 0
  /\ distances' = <<>>
  /\ UNCHANGED <<experiment, data_with_crc, detected_errors>>

ExperimentNext == FlipNext \/ TestPair \/ NextGenerator

ExperimentSpec == ExperimentInit /\ [][ExperimentNext]_experimentVars

-----------------------------------------------------------------------------
(* Properties *)

\* "Missed Errors: 0": the check sees every single error, in the data and in
\* the CRC itself.
SinglesAreDetected ==
  experiment = "lab5.cpp" => missed_errors = 0 /\ detected_errors = i

\* x^d modulo the generator, as the exponents that occur. Nothing of the long
\* division is used: x times the last power, and the generator is added if that
\* has the generator's degree.
Power(generator, d) ==
  LET degree == Len(generator) - 1
      exponents == {degree - (k - 1) : k \in Ones(generator)}
      power[k \in 0 .. d] ==
        IF k = 0 THEN {0}
        ELSE LET shifted == {e + 1 : e \in power[k - 1]}
             IN  IF degree \in shifted THEN SymDiff(shifted, exponents) ELSE shifted
  IN  power[d]

\* Two errors are missed exactly when the polynomial x^d + 1 of their distance d
\* is a multiple of the generator: how many a generator misses depends on the
\* order of x alone, and not on its length, the data or where the errors are.
DoublesMissedByOrder ==
  experiment = "lab5.py" /\ i < Len(crc_generators) =>
    missed_errors =
      Cardinality({t \in DOMAIN distances : Power(crc_generators[i + 1], distances[t]) = {0}})

=============================================================================
