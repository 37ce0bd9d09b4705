--------------------------- MODULE MCTransmission ---------------------------
(***************************************************************************)
(* Small instances of the programs that use the CRC for TLC: the radio     *)
(* link with one-letter names and the program's own generator and          *)
(* registers, and the experiments of lab5 with data longer than the        *)
(* distance at which its first three generators miss two errors. One       *)
(* program is run, the others have not been started.                       *)
(***************************************************************************)
EXTENDS Transmission, CrcExperiment

MCInit ==
  \/ Init /\ NoExperiment
  \/ LinkOff /\ ExperimentInit

MCNext ==
  \/ Next /\ UNCHANGED experimentVars
  \/ ExperimentNext /\ UNCHANGED vars

MCSpec == MCInit /\ [][MCNext]_<<vars, experimentVars>>

A == <<0, 1, 0, 0, 0, 0, 0, 1>>
Q == <<0, 1, 0, 1, 0, 0, 0, 1>>
z == <<0, 1, 1, 1, 1, 0, 1, 0>>

MCMessage == {A, Q, z}
MCGenerator == <<1, 0, 1, 1, 1, 1, 1, 1>>
MCReg1 == <<1, 0, 1, 0, 1>>
MCReg2 == <<1, 0, 1, 1, 1>>

MCSample == {[k \in 1 .. 122 |-> ((k * k) \div 3) % 2], [k \in 1 .. 21 |-> 1]}
MCGenerators == <<
  <<1, 0, 1, 1>>,
  <<1, 0, 1, 1, 1, 1, 1, 1>>,
  <<1, 0, 0, 1, 1, 0, 1, 1, 1, 1, 0, 1, 0, 0, 1, 1>>,
  <<1, 0, 1, 0, 0, 1, 0, 1, 0, 0, 1, 0, 1, 1, 1, 1, 1, 1, 1, 0, 1, 0, 1, 1>> >>
MCFirstError == {1, 8}
=============================================================================
