--------------------------- MODULE MCGoldSequence ---------------------------
(***************************************************************************)
(* An instance for TLC: every pair of registers that main can be given.    *)
(***************************************************************************)
EXTENDS GoldSequence

MCRegisters == (0 .. 30) \X (5 .. 31)
=============================================================================
