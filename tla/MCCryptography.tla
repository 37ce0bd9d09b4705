--------------------------- MODULE MCCryptography ---------------------------
(***************************************************************************)
(* An instance for TLC: all numbers gen_prime may draw, a sample of what   *)
(* gen_random returns with a key for every pair of primes and an even      *)
(* number that is none, an empty file, one as short as a header, and one   *)
(* with bytes on either side of the smallest n.                            *)
(***************************************************************************)
EXTENDS Cryptography, Bitwise

MCCandidate == 5 .. 124
MCRandom == {2, 5, 7, 11, 131, 911}
MCInput == {<<>>, <<66>>, <<66, 33, 255>>}
MCBitXor(a, b) == a ^^ b
MCKeyByte == {0, 90, 255}
=============================================================================
