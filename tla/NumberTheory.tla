---------------------------- MODULE NumberTheory ----------------------------
(***************************************************************************)
(* The number-theoretic functions of the cryptography library              *)
(* (Functions.cpp). A loop is a tail-recursive function of the tuple of    *)
(* the variables it changes. long long is wide enough for all of them:     *)
(* every product is below the square of a modulus that is at most          *)
(* 113 * 109.                                                              *)
(***************************************************************************)
EXTENDS Integers

\* Square and multiply, from the low bit of the exponent: s holds result, base
\* and exp.
PowStep(s, mod) ==
  <<IF s[3] % 2 = 1 THEN (s[1] * s[2]) % mod ELSE s[1], (s[2] * s[2]) % mod, s[3] \div 2>>

PowMod(base, exp, mod) ==
  LET loop[s \in (0 .. mod) \X (0 .. mod) \X (0 .. exp)] ==
        IF s[3] = 0 THEN s[1] ELSE loop[PowStep(s, mod)]
  IN  IF mod <= 0 THEN 0 ELSE loop[<<1 % mod, base % mod, exp>>]

\* gcd, for arguments that are not negative: s holds a and b.
Gcd(m, n) ==
  LET loop[s \in (0 .. m + n) \X (0 .. m + n)] ==
        IF s[2] = 0 THEN s[1] ELSE loop[<<s[2], s[1] % s[2]>>]
  IN  loop[<<m, n>>]

\* Faulty variant: no even number passes, but every odd one.
FermTestOdd(n) == n >= 2 /\ n % 2 = 1

\* Fermat's test to the base 2.
FermTest(n) == n >= 2 /\ PowMod(2, n - 1, n) = 1
=============================================================================
