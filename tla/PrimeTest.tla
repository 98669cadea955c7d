------------------------------ MODULE PrimeTest ------------------------------
(***************************************************************************)
(* What one round of the primality tests of prime/prime_test.c decides of  *)
(* a number n, an odd one from 5 on, for a base a.                         *)
(***************************************************************************)
EXTENDS BigNumbers, FiniteSets

(* Reference: what a prime is. *)
IsPrime(n) == n > 1 /\ \A f \in 2 .. n - 1 : n % f # 0

FermatPasses(a, n) == Power(a, n - 1, n) = 1

(* n - 1 = r 2^s with r odd *)
Twos(n) == CHOOSE s \in 1 .. n : (n - 1) % Pow(2, s) = 0 /\ ((n - 1) \div Pow(2, s)) % 2 = 1
OddPart(n) == (n - 1) \div Pow(2, Twos(n))

(* Faulty: a square that comes to 1 is taken for a success. *)
MillerRabinPassesOnOne(a, n) ==
  LET y == Power(a, OddPart(n), n)
  IN  \/ y \in {1, n - 1}
      \/ \E j \in 1 .. Twos(n) : Power(y, Pow(2, j), n) \in {1, n - 1}

(* The loop squares y at most s - 1 times and stops at n - 1; a square that *)
(* comes to 1 first never reaches it.                                       *)
MillerRabinPasses(a, n) ==
  LET y == Power(a, OddPart(n), n)
  IN  \/ y \in {1, n - 1}
      \/ \E j \in 1 .. Twos(n) - 1 : Power(y, Pow(2, j), n) = n - 1

(* The bases of a round are drawn from [0, n - 3) and moved up by two. *)
DrawnBases(n) == 2 .. n - 2
=============================================================================
