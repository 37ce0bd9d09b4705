------------------------------ MODULE RsaCoder ------------------------------
(***************************************************************************)
(* Class RSAcoder of the cryptography library: the constructor's           *)
(* configure(), which draws primes and keys, with algorithm_Euclid step by *)
(* step, and the maps encode and decode.                                   *)
(***************************************************************************)
EXTENDS NumberTheory

CONSTANTS
  Candidate,       \* what gen_prime draws from: (gen() % 120) + 5
  Random           \* what gen_random returns: (gen() % 1000) + 2

ASSUME CandidateAssumption == Candidate \subseteq Nat
ASSUME RandomAssumption == Random \subseteq Nat

VARIABLES
  pc,              \* "p", "q", "keys", "euclid" or "ready"
  p, q,            \* the primes
  d, c,            \* encode's exponent and decode's
  U, V             \* the two rows of algorithm_Euclid(phi, d)

keys == <<p, q, d, c>>
rsa == <<pc, keys, U, V>>

n == p * q
phi == (p - 1) * (q - 1)

RsaInit ==
  /\ pc = "p"
  /\ p = 0 /\ q = 0 /\ d = 0 /\ c = 0
  /\ U = <<0, 0, 0>> /\ V = <<0, 0, 0>>

\* gen_prime draws until the test accepts.
DrawP ==
  /\ pc = "p"
  /\ p' \in {x \in Candidate : FermTest(x)}
  /\ pc' = "q"
  /\ UNCHANGED <<q, d, c, U, V>>

\* ... and once more while the second prime equals the first.
DrawQ ==
  /\ pc = "q"
  /\ q' \in {x \in Candidate \ {p} : FermTest(x)}
  /\ pc' = "keys"
  /\ UNCHANGED <<p, d, c, U, V>>

\* Faulty variant: any exponent below phi will do.
DrawKeyAny ==
  /\ pc = "keys"
  /\ d' \in {x \in Random : 2 <= x /\ x < phi}
  /\ U' = <<phi, 1, 0>>
  /\ V' = <<d', 0, 1>>
  /\ pc' = "euclid"
  /\ UNCHANGED <<p, q, c>>

\* gen_keys up to the call of algorithm_Euclid(phi, d); d is the smaller
\* argument, so its `swapped' stays false.
DrawKey ==
  /\ pc = "keys"
  /\ d' \in {x \in Random : 2 <= x /\ x < phi /\ Gcd(x, phi) = 1}
  /\ U' = <<phi, 1, 0>>
  /\ V' = <<d', 0, 1>>
  /\ pc' = "euclid"
  /\ UNCHANGED <<p, q, c>>

\* Faulty variant: the cofactors are mixed up.
RowMixed(quotient) ==
  <<U[1] % V[1], U[2] - quotient * V[3], U[3] - quotient * V[2]>>

Row(quotient) ==
  <<U[1] % V[1], U[2] - quotient * V[2], U[3] - quotient * V[3]>>

\* Faulty variant: the remainder does not become the next divisor.
EuclidStepStuck ==
  /\ pc = "euclid" /\ V[1] # 0
  /\ U' = Row(U[1] \div V[1])
  /\ UNCHANGED <<pc, keys, V>>

EuclidStep ==
  /\ pc = "euclid" /\ V[1] # 0
  /\ U' = V
  /\ V' = Row(U[1] \div V[1])
  /\ UNCHANGED <<pc, keys>>

\* Faulty variant: the other cofactor.
EuclidEndOther ==
  /\ pc = "euclid" /\ V[1] = 0
  /\ c' = U[2] % phi
  /\ pc' = IF (c' * d) % phi = 1 THEN "ready" ELSE "keys"
  /\ UNCHANGED <<p, q, d, U, V>>

\* Faulty variant: the remainder of C++ is used as it is.
EuclidEndSigned ==
  /\ pc = "euclid" /\ V[1] = 0
  /\ c' = IF U[3] < 0 THEN 0 - ((0 - U[3]) % phi) ELSE U[3] % phi
  /\ pc' = IF (c' * d) % phi = 1 THEN "ready" ELSE "keys"
  /\ UNCHANGED <<p, q, d, U, V>>

\* The end of gen_keys, and the condition of the loop in configure(): other
\* keys unless these are inverse to each other. Rounding to zero, as C++
\* does, and then adding phi gives the residue of TLA+.
EuclidEnd ==
  /\ pc = "euclid" /\ V[1] = 0
  /\ c' = U[3] % phi
  /\ pc' = IF (c' * d) % phi = 1 THEN "ready" ELSE "keys"
  /\ UNCHANGED <<p, q, d, U, V>>

Configure == DrawP \/ DrawQ \/ DrawKey \/ EuclidStep \/ EuclidEnd

\* Faulty variant: decoding with the encoder's exponent.
RsaDecodeWithD(data) == [i \in DOMAIN data |-> PowMod(data[i], d, n)]

RsaEncode(data) == [i \in DOMAIN data |-> PowMod(data[i], d, n)]
RsaDecode(data) == [i \in DOMAIN data |-> PowMod(data[i], c, n)]

RsaSpec == RsaInit /\ [][Configure]_rsa

-----------------------------------------------------------------------------
(* Properties *)

\* The type invariant of the coder.
KeysTypeOK ==
  /\ pc \in {"p", "q", "keys", "euclid", "ready"}
  /\ p \in Nat /\ q \in Nat /\ d \in Nat /\ c \in Nat
  /\ pc # "p" => p > 1
  /\ pc \notin {"p", "q"} => q > 1
  /\ U \in Nat \X Int \X Int
  /\ V \in Nat \X Int \X Int

\* The probabilistic test is exact on what gen_prime draws: the coder never
\* works with a pseudoprime.
FactorsArePrime ==
  \A x \in {p, q} \ {0} : x > 1 /\ \A k \in 2 .. x - 1 : x % k # 0

\* Each row of the table is the combination of phi and d it claims to be:
\* this makes the cofactor in the last row the inverse of d.
RowsAreCombinations ==
  pc = "euclid" => \A row \in {U, V} : row[1] = row[2] * phi + row[3] * d

\* The exponent that gen_keys ends with is inverse to d modulo phi up to the
\* greatest common divisor found, negative cofactors included.
CofactorIsInverse ==
  [][pc = "euclid" /\ pc' # "euclid" => (c' * d) % phi = U[1] % phi]_rsa

\* Every key drawn is kept: the loop around gen_keys in configure() is never
\* entered.
NoSecondDraw == [][pc = "euclid" => pc' # "keys"]_rsa
=============================================================================
