----------------------------- MODULE BigNumbers -----------------------------
(***************************************************************************)
(* What the library computes with GMP on numbers of any size: powers, the  *)
(* number that digits stand for, and lengths, as recursive functions, the  *)
(* shape in which proofs can reason about them.                            *)
(***************************************************************************)
EXTENDS Integers

Pow(b, n) == LET P[i \in 0 .. n] == IF i = 0 THEN 1 ELSE b * P[i - 1] IN P[n]

(* The number that the first n digits of s stand for, the first one being   *)
(* the most significant.                                                    *)
Digits(b, s, n) == LET V[i \in 0 .. n] == IF i = 0 THEN 0 ELSE b * V[i - 1] + s[i] IN V[n]

(* mpz_sizeinbase(x, 2), which is 1 for zero. *)
BitLength(x) == CHOOSE n \in 1 .. x + 1 : x < Pow(2, n) /\ (n = 1 \/ Pow(2, n - 1) <= x)

(* mpz_powm: x^e modulo n. *)
Power(x, e, n) ==
  LET P[i \in 0 .. e] == IF i = 0 THEN 1 % n
                         ELSE LET half == P[i \div 2]
                                  square == (half * half) % n
                              IN  IF i % 2 = 1 THEN (square * x) % n ELSE square
  IN  P[e]
=============================================================================
