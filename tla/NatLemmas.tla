------------------------------ MODULE NatLemmas ------------------------------
(***************************************************************************)
(* Facts that the proofs of other modules cite: about numbers, their       *)
(* remainders, powers and digits; about the multiples of a point of a      *)
(* curve; and that the projective formulas of CurveFormulas compute the    *)
(* group law of the textbook on every curve over a prime field whose       *)
(* generator has an odd prime order, for each of the three kinds of curve: *)
(* the polynomial identities behind them, what a congruence of remainders  *)
(* keeps of them, that no scale vanishes, and the special cases.           *)
(***************************************************************************)
EXTENDS BigNumbers, GroupLaw, SequenceTheorems, WellFoundedInduction, TLAPS

(* Every set of naturals that is not empty has a least element: induction,  *)
(* in the form the provers can use.                                         *)
LEMMA LeastNatural ==
  ASSUME NEW T \in SUBSET Nat, T # {}
  PROVE  \E x \in T : \A y \in T : x <= y
<1> DEFINE R == OpToRel(<, Nat)
<1>1. IsWellFoundedOn(R, Nat)
  BY NatLessThanWellFounded
<1>2. \A x, y \in Nat : x < y => <<x, y>> \in R
  BY DEF OpToRel
<1> HIDE DEF R
<1>3. PICK x \in T : \A y \in T : <<y, x>> \notin R
  BY <1>1, WFMin
<1>4. \A y \in T : ~(y < x)
  BY <1>2, <1>3
<1>5. \A y \in T : x <= y
  BY <1>4
<1> QED
  BY <1>5

(* A common positive factor cancels from an inequality. *)
LEMMA Cancel ==
  ASSUME NEW a \in Int, NEW b \in Int, NEW t \in Nat, t > 0, a * t < b * t
  PROVE  a < b
  OBVIOUS

(* Multiples add up, and are ordered as what is multiplied. *)
LEMMA Sums == ASSUME NEW x \in Nat, NEW y \in Nat, NEW b \in Nat
  PROVE x * b \in Nat /\ y * b \in Nat /\ (x + y) * b = x * b + y * b
  OBVIOUS

LEMMA Order == ASSUME NEW x \in Nat, NEW y \in Nat, NEW b \in Nat, x <= y
  PROVE x * b <= y * b
<1> DEFINE u == y - x
<1>1. u \in Nat /\ y = x + u
  OBVIOUS
<1> HIDE DEF u
<1>2. y * b = x * b + u * b /\ u * b \in Nat /\ x * b \in Nat
  BY <1>1, Sums
<1> QED
  BY <1>2

(* Division with a remainder. *)
LEMMA Division == ASSUME NEW a \in Nat, NEW b \in Nat, b > 0
  PROVE a \div b \in Nat /\ a % b \in 0 .. b - 1 /\ a = (a \div b) * b + (a % b)
  OBVIOUS

(* The quotient of two naturals, by what it is between. *)
LEMMA Quotient ==
  ASSUME NEW a \in Nat, NEW t \in Nat, t > 0
  PROVE  a \div t \in Nat /\ (a \div t) * t <= a /\ a < (a \div t + 1) * t
  OBVIOUS

(* A number between n and n + 1 times another, divided by it. *)
LEMMA QuotientIs ==
  ASSUME NEW a \in Nat, NEW t \in Nat, NEW n \in Nat, t > 0, n * t <= a, a < (n + 1) * t
  PROVE  a \div t = n
<1> DEFINE m == a \div t
<1>1. m \in Nat /\ m * t <= a /\ a < (m + 1) * t
  BY Quotient
<1> HIDE DEF m
<1>2. m * t < (n + 1) * t /\ n * t < (m + 1) * t
  BY <1>1
<1>3. m < n + 1 /\ n < m + 1
  BY <1>1, <1>2, Cancel
<1>4. m = n
  BY <1>1, <1>3
<1> QED
  BY <1>4 DEF m

(* A number shifted by one place less is twice the number shifted by one    *)
(* place more, plus the bit between.                                        *)
LEMMA Halving ==
  ASSUME NEW a \in Nat, NEW t \in Nat, t > 0
  PROVE  /\ a \div (2 * t) \in Nat
         /\ (a \div t) % 2 = 1 => a \div t = 2 * (a \div (2 * t)) + 1
         /\ (a \div t) % 2 # 1 => a \div t = 2 * (a \div (2 * t))
<1> DEFINE n == a \div t
           m == a \div (2 * t)
<1>1. n \in Nat /\ n * t <= a /\ a < (n + 1) * t
  BY Quotient
<1>2. m \in Nat /\ m * (2 * t) <= a /\ a < (m + 1) * (2 * t)
  BY 2 * t \in Nat, 2 * t > 0, Quotient
<1> HIDE DEF n, m
<1>3. (2 * m) * t < (n + 1) * t /\ n * t < (2 * m + 2) * t
  BY <1>1, <1>2
<1>4. 2 * m < n + 1
  BY <1>1, <1>2, <1>3, Cancel
<1>5. n < 2 * m + 2
  BY <1>1, <1>2, <1>3, Cancel
<1>6. /\ m \in Nat
      /\ n % 2 = 1 => n = 2 * m + 1
      /\ n % 2 # 1 => n = 2 * m
  BY <1>1, <1>2, <1>4, <1>5
<1> QED
  BY <1>6 DEF n, m

(* Quotient and remainder of a number given by them. *)
LEMMA DivMod ==
  ASSUME NEW b \in Nat, b > 0, NEW q \in Nat, NEW r \in 0 .. b - 1
  PROVE  (q * b + r) \div b = q /\ (q * b + r) % b = r
<1> DEFINE a == q * b + r
           s == a % b
           d == a \div b
<1>1. q * b \in Nat /\ (q + 1) * b = q * b + 1 * b
  BY Sums
<1>2. a \in Nat /\ q * b <= a /\ a < (q + 1) * b
  BY <1>1
<1> HIDE DEF a
<1>3. d = q
  BY <1>2, QuotientIs
<1>4. s \in 0 .. b - 1 /\ a = d * b + s
  BY <1>2, Division
<1> HIDE DEF s, d
<1>5. s = r
  BY <1>1, <1>3, <1>4 DEF a
<1> QED
  BY <1>3, <1>5 DEF s, d, a

(* Remainders of sums and products are those of what the terms leave.       *)
LEMMA ModSum ==
  ASSUME NEW x \in Nat, NEW y \in Nat, NEW n \in Nat, n > 0
  PROVE  ((x % n) + y) % n = (x + y) % n
<1> DEFINE q == x \div n
           r == x % n
           t == r + y
           d == t \div n
           e == t % n
<1>1. q \in Nat /\ r \in 0 .. n - 1 /\ x = q * n + r
  BY Division
<1> HIDE DEF q, r
<1>2. t \in Nat
  BY <1>1
<1>3. t = r + y
  OBVIOUS
<1> HIDE DEF t
<1>4. d \in Nat /\ e \in 0 .. n - 1 /\ t = d * n + e
  BY <1>2, Division
<1>5. e = t % n
  OBVIOUS
<1> HIDE DEF d, e
<1>6. q * n \in Nat /\ d * n \in Nat /\ (q + d) * n = q * n + d * n
  BY <1>1, <1>4, Sums
<1>7. x + y = (q + d) * n + e
  BY <1>1, <1>3, <1>4, <1>6
<1>8. ((q + d) * n + e) % n = e
  BY <1>1, <1>4, DivMod
<1> QED
  BY <1>3, <1>5, <1>7, <1>8 DEF r

LEMMA ModProduct ==
  ASSUME NEW x \in Nat, NEW y \in Nat, NEW n \in Nat, n > 0
  PROVE  ((x % n) * y) % n = (x * y) % n
<1> DEFINE q == x \div n
           r == x % n
           t == r * y
           d == t \div n
           e == t % n
<1>1. q \in Nat /\ r \in 0 .. n - 1 /\ x = q * n + r
  BY Division
<1> HIDE DEF q, r
<1>2. t \in Nat
  BY <1>1
<1>3. t = r * y
  OBVIOUS
<1> HIDE DEF t
<1>4. d \in Nat /\ e \in 0 .. n - 1 /\ t = d * n + e
  BY <1>2, Division
<1>5. e = t % n
  OBVIOUS
<1> HIDE DEF d, e
<1>6. q * n \in Nat /\ (q * n + r) * y = (q * n) * y + r * y
  BY <1>1, Sums
<1>7. (q * n) * y = (q * y) * n /\ q * y \in Nat
  BY <1>1
<1>8. (q * y) * n + d * n = (q * y + d) * n /\ (q * y) * n \in Nat /\ d * n \in Nat
  BY <1>4, <1>7, Sums
<1>9. x * y = (q * y + d) * n + e
  BY <1>1, <1>3, <1>4, <1>6, <1>7, <1>8
<1>10. q * y + d \in Nat
  BY <1>4, <1>7
<1>11. ((q * y + d) * n + e) % n = e
  BY <1>4, <1>10, DivMod
<1> QED
  BY <1>3, <1>5, <1>9, <1>11 DEF r

-----------------------------------------------------------------------------
(* Induction, with a set for the predicate. *)
LEMMA StrongInduction ==
  ASSUME NEW T, \A n \in Nat : (\A m \in 0 .. n - 1 : m \in T) => n \in T
  PROVE  \A n \in Nat : n \in T
<1> DEFINE Bad == {n \in Nat : n \notin T}
<1> SUFFICES ASSUME Bad # {} PROVE FALSE
  OBVIOUS
<1>1. PICK m \in Bad : \A y \in Bad : m <= y
  BY LeastNatural
<1>2. \A y \in 0 .. m - 1 : y \in T
  BY <1>1
<1> QED
  BY <1>1, <1>2

LEMMA Induction ==
  ASSUME NEW T, 0 \in T, \A n \in Nat : n \in T => n + 1 \in T
  PROVE  \A n \in Nat : n \in T
<1>1. ASSUME NEW n \in Nat, \A m \in 0 .. n - 1 : m \in T PROVE n \in T
  <2>1. CASE n = 0
    BY <2>1
  <2>2. CASE n # 0
    <3>1. n - 1 \in Nat /\ n - 1 \in T /\ n - 1 + 1 = n
      BY <1>1, <2>2
    <3> QED
      BY <3>1
  <2> QED
    BY <2>1, <2>2
<1> QED
  BY <1>1, StrongInduction

(* A recursive definition on 0 .. N, whose value at i is made of i and the  *)
(* value at an earlier place prev[i], has a solution; so the function that  *)
(* the definition chooses is one.                                           *)
Earlier(prev, N) == \A i \in 1 .. N : prev[i] \in 0 .. i - 1
Steps(G, N, S) == \A i \in 1 .. N : \A x \in S : G[<<i, x>>] \in S
Solutions(S, a, N, prev, G) ==
  {f \in [0 .. N -> S] : f[0] = a /\ \A i \in 1 .. N : f[i] = G[<<i, f[prev[i]]>>]}

LEMMA Recursion ==
  ASSUME NEW S, NEW a \in S, NEW N \in Nat, NEW prev, Earlier(prev, N), NEW G, Steps(G, N, S)
  PROVE  \E f : f \in Solutions(S, a, N, prev, G)
<1> USE DEF Earlier, Steps
<1> DEFINE Good(n) == \E f \in [0 .. n -> S] :
                        f[0] = a /\ \A i \in 1 .. n : f[i] = G[<<i, f[prev[i]]>>]
           T == {n \in Nat : n <= N => Good(n)}
<1>1. Good(0)
  <2> DEFINE g == [i \in 0 .. 0 |-> a]
  <2>1. g \in [0 .. 0 -> S] /\ g[0] = a /\ \A i \in 1 .. 0 : g[i] = G[<<i, g[prev[i]]>>]
    OBVIOUS
  <2> HIDE DEF g
  <2> QED
    BY <2>1
<1>2. ASSUME NEW n \in Nat, n + 1 <= N, Good(n) PROVE Good(n + 1)
  <2>1. PICK f \in [0 .. n -> S] : f[0] = a /\ \A i \in 1 .. n : f[i] = G[<<i, f[prev[i]]>>]
    BY <1>2
  <2> DEFINE next == G[<<n + 1, f[prev[n + 1]]>>]
             g == [i \in 0 .. n + 1 |-> IF i = n + 1 THEN next ELSE f[i]]
  <2>2. prev[n + 1] \in 0 .. n /\ next \in S
    BY <1>2, <2>1
  <2> HIDE DEF next
  <2>3. g \in [0 .. n + 1 -> S] /\ g[0] = a /\ g[n + 1] = next /\ \A i \in 0 .. n : g[i] = f[i]
    BY <2>1, <2>2
  <2> HIDE DEF g
  <2>4. ASSUME NEW i \in 1 .. n + 1 PROVE g[i] = G[<<i, g[prev[i]]>>]
    <3>1. CASE i = n + 1
      <4>1. g[prev[n + 1]] = f[prev[n + 1]]
        BY <2>2, <2>3
      <4> QED
        BY <2>3, <3>1, <4>1 DEF next
    <3>2. CASE i # n + 1
      <4>1. i \in 1 .. n /\ i \in 1 .. N
        BY <1>2, <3>2
      <4>2. prev[i] \in 0 .. n
        BY <4>1
      <4>3. g[prev[i]] = f[prev[i]] /\ g[i] = f[i] /\ f[i] = G[<<i, f[prev[i]]>>]
        BY <2>1, <2>3, <4>1, <4>2
      <4> QED
        BY <4>3
    <3> QED
      BY <3>1, <3>2
  <2> QED
    BY <2>3, <2>4
<1> HIDE DEF Good
<1>3. \A n \in Nat : n \in T
  <2>1. 0 \in T
    BY <1>1
  <2>2. ASSUME NEW n \in Nat, n \in T PROVE n + 1 \in T
    BY <1>2, <2>2
  <2> HIDE DEF T
  <2> QED
    BY <2>1, <2>2, Induction
<1>4. Good(N)
  BY <1>3
<1> QED
  BY <1>4 DEF Good, Solutions

(* What holds of the first value, and of each if of the one it is made of,  *)
(* holds of all.                                                            *)
LEMMA Recurring ==
  ASSUME NEW S, NEW N \in Nat, NEW f, f[0] \in S,
         NEW prev, \A i \in 1 .. N : prev[i] \in 0 .. i - 1,
         \A i \in 1 .. N : f[prev[i]] \in S => f[i] \in S
  PROVE  \A i \in 0 .. N : f[i] \in S
<1> DEFINE T == {n \in Nat : n <= N => f[n] \in S}
<1>1. ASSUME NEW n \in Nat, \A m \in 0 .. n - 1 : m \in T PROVE n \in T
  <2> SUFFICES ASSUME n <= N PROVE f[n] \in S
    OBVIOUS
  <2>1. CASE n = 0
    BY <2>1
  <2>2. CASE n # 0
    <3>1. n \in 1 .. N /\ prev[n] \in 0 .. n - 1
      BY <2>2
    <3>2. prev[n] \in T
      BY <1>1, <3>1
    <3>3. f[prev[n]] \in S
      BY <3>1, <3>2
    <3> QED
      BY <3>1, <3>3
  <2> QED
    BY <2>1, <2>2
<1> HIDE DEF T
<1>2. \A n \in Nat : n \in T
  BY <1>1, StrongInduction
<1> QED
  BY <1>2 DEF T

(* The usual case: each value is made of the one before.                    *)
LEMMA StepRecursion ==
  ASSUME NEW S, NEW a \in S, NEW N \in Nat, NEW G, Steps(G, N, S)
  PROVE  \E f : f \in [0 .. N -> S] /\ f[0] = a /\ \A i \in 1 .. N : f[i] = G[<<i, f[i - 1]>>]
<1> DEFINE prev == [i \in 1 .. N |-> i - 1]
<1>1. \A i \in 1 .. N : prev[i] = i - 1
  OBVIOUS
<1> HIDE DEF prev
<1>2. Earlier(prev, N)
  BY <1>1 DEF Earlier
<1>3. PICK f : f \in Solutions(S, a, N, prev, G)
  BY <1>2, Recursion
<1>4. f \in [0 .. N -> S] /\ f[0] = a /\ \A i \in 1 .. N : f[i] = G[<<i, f[prev[i]]>>]
  BY <1>3 DEF Solutions
<1>5. \A i \in 1 .. N : f[i] = G[<<i, f[i - 1]>>]
  BY <1>1, <1>4
<1> QED
  BY <1>4, <1>5

LEMMA StepInduction ==
  ASSUME NEW N \in Nat, NEW T, 0 \in T, \A i \in 1 .. N : i - 1 \in T => i \in T
  PROVE  \A i \in 0 .. N : i \in T
<1> DEFINE U == {n \in Nat : n <= N => n \in T}
<1>1. 0 \in U
  OBVIOUS
<1>2. ASSUME NEW n \in Nat, n \in U PROVE n + 1 \in U
  <2> SUFFICES ASSUME n + 1 <= N PROVE n + 1 \in T
    OBVIOUS
  <2>1. n \in T /\ n + 1 \in 1 .. N /\ n + 1 - 1 = n
    BY <1>2
  <2> QED
    BY <2>1
<1> HIDE DEF U
<1>3. \A n \in Nat : n \in U
  BY <1>1, <1>2, Induction
<1> QED
  BY <1>3 DEF U

-----------------------------------------------------------------------------
(* Powers, by multiplication. *)
LEMMA Powers ==
  ASSUME NEW b \in Nat, NEW n \in Nat
  PROVE  \E P : /\ P[0] = 1 /\ \A i \in 1 .. n : P[i] = b * P[i - 1]
                /\ P[n] = Pow(b, n)
                /\ \A i \in 0 .. n : P[i] \in Nat
<1> DEFINE G == [u \in (1 .. n) \X Nat |-> b * u[2]]
           S == Nat
           one == 1
<1>1. \A i \in 1 .. n : \A x \in S : G[<<i, x>>] = b * x /\ G[<<i, x>>] \in S
  OBVIOUS
<1>2. one \in S
  OBVIOUS
<1> HIDE DEF G, S, one
<1>3. Steps(G, n, S)
  BY <1>1 DEF Steps
<1>4. PICK f : f \in [0 .. n -> S] /\ f[0] = one /\ \A i \in 1 .. n : f[i] = G[<<i, f[i - 1]>>]
  BY <1>2, <1>3, StepRecursion
<1>5. ASSUME NEW i \in 1 .. n PROVE f[i] = b * f[i - 1]
  <2>1. i - 1 \in 0 .. n
    OBVIOUS
  <2>2. f[i - 1] \in S
    BY <1>4, <2>1
  <2> QED
    BY <1>1, <1>4, <2>2
<1>6. f = [i \in 0 .. n |-> IF i = 0 THEN 1 ELSE b * f[i - 1]]
  BY <1>4, <1>5 DEF one
<1> DEFINE It == CHOOSE P : P = [i \in 0 .. n |-> IF i = 0 THEN 1 ELSE b * P[i - 1]]
<1>7. It = [i \in 0 .. n |-> IF i = 0 THEN 1 ELSE b * It[i - 1]]
  BY <1>6
<1>8. Pow(b, n) = It[n]
  BY DEF Pow
<1> HIDE DEF It
<1>9. It[0] = 1 /\ \A i \in 1 .. n : It[i] = b * It[i - 1]
  BY <1>7
<1> DEFINE T == {i \in 0 .. n : It[i] \in Nat}
<1>10. 0 \in T /\ \A i \in 1 .. n : i - 1 \in T => i \in T
  BY <1>9
<1> HIDE DEF T
<1>11. \A i \in 0 .. n : i \in T
  BY <1>10, StepInduction
<1>12. \A i \in 0 .. n : It[i] \in Nat
  BY <1>11 DEF T
<1> QED
  BY <1>8, <1>9, <1>12


LEMMA PowSteps ==
  ASSUME NEW b \in Nat, NEW n \in Nat
  PROVE  Pow(b, n) \in Nat /\ Pow(b, 0) = 1 /\ Pow(b, n + 1) = b * Pow(b, n)
<1>1. PICK P : /\ P[0] = 1 /\ \A i \in 1 .. n : P[i] = b * P[i - 1]
               /\ P[n] = Pow(b, n)
               /\ \A i \in 0 .. n : P[i] \in Nat
  BY Powers
<1>2. PICK Q : /\ Q[0] = 1 /\ \A i \in 1 .. n + 1 : Q[i] = b * Q[i - 1]
               /\ Q[n + 1] = Pow(b, n + 1)
  BY n + 1 \in Nat, Powers, ZenonT(40)
<1>3. PICK Z : Z[0] = 1 /\ Z[0] = Pow(b, 0)
  BY 0 \in Nat, Powers
<1> DEFINE T == {i \in 0 .. n : P[i] = Q[i]}
<1>4. 0 \in T
  BY <1>1, <1>2
<1>5. ASSUME NEW i \in 1 .. n, i - 1 \in T PROVE i \in T
  <2>1. i \in 1 .. n + 1 /\ P[i - 1] = Q[i - 1]
    BY <1>5
  <2> QED
    BY <1>1, <1>2, <2>1
<1> HIDE DEF T
<1>6. \A i \in 0 .. n : i \in T
  BY <1>4, <1>5, StepInduction
<1>7. P[n] = Q[n]
  BY <1>6 DEF T
<1>8. Q[n + 1] = b * Q[n + 1 - 1] /\ n + 1 - 1 = n
  BY <1>2
<1>9. Pow(b, n + 1) = b * Pow(b, n)
  BY <1>1, <1>2, <1>7, <1>8
<1> QED
  BY <1>1, <1>3, <1>9

LEMMA PowPositive ==
  ASSUME NEW b \in Nat, b > 0
  PROVE  \A n \in Nat : Pow(b, n) \in Nat /\ Pow(b, n) > 0
<1> DEFINE T == {n \in Nat : Pow(b, n) > 0}
<1>1. 0 \in T
  BY PowSteps
<1>2. ASSUME NEW n \in Nat, n \in T PROVE n + 1 \in T
  <2> DEFINE p == Pow(b, n)
             q == Pow(b, n + 1)
  <2>1. p \in Nat /\ p > 0 /\ q = b * p
    BY <1>2, PowSteps
  <2> HIDE DEF p, q
  <2>2. q > 0
    BY <2>1
  <2> QED
    BY <2>2 DEF q
<1> HIDE DEF T
<1>3. \A n \in Nat : n \in T
  BY <1>1, <1>2, Induction
<1> QED
  BY <1>3, PowSteps DEF T

Numbers(s, n) == \A i \in 1 .. n : s[i] \in Nat
Summing(V, b, s, n) == /\ V[0] = 0 /\ \A i \in 1 .. n : V[i] = b * V[i - 1] + s[i]
                       /\ V[n] = Digits(b, s, n)
                       /\ \A i \in 0 .. n : V[i] \in Nat

LEMMA DigitSums ==
  ASSUME NEW b \in Nat, NEW n \in Nat, NEW s, Numbers(s, n)
  PROVE  \E V : Summing(V, b, s, n)
<1> USE DEF Numbers
<1> DEFINE G == [u \in (1 .. n) \X Nat |-> b * u[2] + s[u[1]]]
           S == Nat
           zero == 0
<1>1. ASSUME NEW i \in 1 .. n, NEW x \in S PROVE G[<<i, x>>] = b * x + s[i] /\ G[<<i, x>>] \in S
  <2>1. b * x \in Nat /\ s[i] \in Nat
    OBVIOUS
  <2>2. b * x + s[i] \in Nat
    BY <2>1
  <2>3. G[<<i, x>>] = b * x + s[i]
    OBVIOUS
  <2> HIDE DEF G
  <2> QED
    BY <2>2, <2>3
<1>2. zero \in S
  OBVIOUS
<1> HIDE DEF G, S, zero
<1>3. Steps(G, n, S)
  BY <1>1 DEF Steps
<1>4. PICK f : f \in [0 .. n -> S] /\ f[0] = zero /\ \A i \in 1 .. n : f[i] = G[<<i, f[i - 1]>>]
  BY <1>2, <1>3, StepRecursion
<1>5. ASSUME NEW i \in 1 .. n PROVE f[i] = b * f[i - 1] + s[i]
  <2>1. i - 1 \in 0 .. n
    OBVIOUS
  <2>2. f[i - 1] \in S
    BY <1>4, <2>1
  <2> QED
    BY <1>1, <1>4, <2>2
<1>6. f = [i \in 0 .. n |-> IF i = 0 THEN 0 ELSE b * f[i - 1] + s[i]]
  BY <1>4, <1>5 DEF zero
<1> DEFINE It == CHOOSE V : V = [i \in 0 .. n |-> IF i = 0 THEN 0 ELSE b * V[i - 1] + s[i]]
<1>7. It = [i \in 0 .. n |-> IF i = 0 THEN 0 ELSE b * It[i - 1] + s[i]]
  BY <1>6
<1>8. Digits(b, s, n) = It[n]
  BY DEF Digits
<1> HIDE DEF It
<1>9. It[0] = 0 /\ \A i \in 1 .. n : It[i] = b * It[i - 1] + s[i]
  BY <1>7
<1> DEFINE T == {i \in 0 .. n : It[i] \in Nat}
<1>10. 0 \in T /\ \A i \in 1 .. n : i - 1 \in T => i \in T
  BY <1>9
<1> HIDE DEF T
<1>11. \A i \in 0 .. n : i \in T
  BY <1>10, StepInduction
<1>12. \A i \in 0 .. n : It[i] \in Nat
  BY <1>11 DEF T
<1> QED
  BY <1>8, <1>9, <1>12 DEF Summing

LEMMA DigitSteps ==
  ASSUME NEW b \in Nat, NEW n \in Nat, NEW s, Numbers(s, n + 1)
  PROVE  /\ Digits(b, s, n) \in Nat /\ Digits(b, s, 0) = 0
         /\ Digits(b, s, n + 1) = b * Digits(b, s, n) + s[n + 1]
<1>0. Numbers(s, n) /\ Numbers(s, 0)
  BY DEF Numbers
<1>1. PICK P : Summing(P, b, s, n)
  BY <1>0, DigitSums
<1>2. PICK Q : Summing(Q, b, s, n + 1)
  BY n + 1 \in Nat, DigitSums
<1>3. PICK Z : Summing(Z, b, s, 0)
  BY 0 \in Nat, <1>0, DigitSums
<1> USE DEF Summing
<1> DEFINE T == {i \in 0 .. n : P[i] = Q[i]}
<1>4. 0 \in T
  BY <1>1, <1>2
<1>5. ASSUME NEW i \in 1 .. n, i - 1 \in T PROVE i \in T
  <2>1. i \in 1 .. n + 1 /\ P[i - 1] = Q[i - 1]
    BY <1>5
  <2> QED
    BY <1>1, <1>2, <2>1
<1> HIDE DEF T
<1>6. \A i \in 0 .. n : i \in T
  BY <1>4, <1>5, StepInduction
<1>7. P[n] = Q[n]
  BY <1>6 DEF T
<1>8. Q[n + 1] = b * Q[n + 1 - 1] + s[n + 1] /\ n + 1 - 1 = n
  BY <1>2
<1>9. Digits(b, s, n + 1) = b * Digits(b, s, n) + s[n + 1]
  BY <1>1, <1>2, <1>7, <1>8
<1> QED
  BY <1>1, <1>3, <1>9


AreDigits(s, b, n) == \A i \in 1 .. n : s[i] \in 0 .. b - 1

LEMMA NoDigits == ASSUME NEW b \in Nat, NEW s PROVE Digits(b, s, 0) = 0
<1>1. Numbers(s, 0)
  BY DEF Numbers
<1>2. PICK V : Summing(V, b, s, 0)
  BY <1>1, 0 \in Nat, DigitSums
<1> QED
  BY <1>2 DEF Summing

LEMMA DigitsBelow ==
  ASSUME NEW b \in Nat, b > 0, NEW N \in Nat, NEW s, AreDigits(s, b, N)
  PROVE  \A n \in 0 .. N : Digits(b, s, n) \in Nat /\ Digits(b, s, n) < Pow(b, n)
<1> DEFINE T == {n \in 0 .. N : Digits(b, s, n) \in Nat /\ Digits(b, s, n) < Pow(b, n)}
<1>1. \A n \in 0 .. N : Numbers(s, n)
  BY DEF AreDigits, Numbers
<1>2. 0 \in T
  <2>1. Digits(b, s, 0) = 0
    BY NoDigits
  <2>2. Pow(b, 0) = 1
    BY 0 \in Nat, PowSteps
  <2> QED
    BY <2>1, <2>2
<1>3. ASSUME NEW m \in 1 .. N, m - 1 \in T PROVE m \in T
  <2> DEFINE n == m - 1
             d == Digits(b, s, n)
             p == Pow(b, n)
             x == s[n + 1]
  <2>1. n \in Nat /\ m = n + 1 /\ Numbers(s, n + 1) /\ n + 1 \in 1 .. N
    BY <1>1
  <2>2. d \in Nat /\ d < p
    BY <1>3
  <2>3. x \in 0 .. b - 1
    BY <2>1 DEF AreDigits
  <2> HIDE DEF n
  <2>4. p \in Nat /\ Pow(b, n + 1) = b * p
    BY <2>1, PowSteps
  <2>5. Digits(b, s, n + 1) = b * d + x
    BY <2>1, DigitSteps
  <2> HIDE DEF d, p, x
  <2>6. d + 1 <= p
    BY <2>2, <2>4
  <2>7. (d + 1) * b <= p * b
    BY <2>2, <2>4, <2>6, Order
  <2>8. (d + 1) * b = d * b + 1 * b /\ d * b \in Nat
    BY <2>2, Sums
  <2>9. b * d + x \in Nat /\ b * d + x < b * p
    BY <2>2, <2>3, <2>4, <2>7, <2>8
  <2> QED
    BY <2>1, <2>4, <2>5, <2>9
<1> HIDE DEF T
<1>4. \A n \in 0 .. N : n \in T
  BY <1>2, <1>3, StepInduction
<1> QED
  BY <1>4 DEF T

(* A number is written with n digits in one way. *)
LEMMA DigitsUnique ==
  ASSUME NEW b \in Nat, b > 0, NEW N \in Nat, NEW s, NEW t, AreDigits(s, b, N), AreDigits(t, b, N),
         Digits(b, s, N) = Digits(b, t, N)
  PROVE  \A i \in 1 .. N : s[i] = t[i]
<1>1. \A n \in 0 .. N : Numbers(s, n) /\ Numbers(t, n)
  BY DEF AreDigits, Numbers
<1> DEFINE T == {n \in 0 .. N : Digits(b, s, n) = Digits(b, t, n) => \A i \in 1 .. n : s[i] = t[i]}
<1>2. 0 \in T
  OBVIOUS
<1>3. ASSUME NEW m \in 1 .. N, m - 1 \in T PROVE m \in T
  <2> SUFFICES ASSUME Digits(b, s, m) = Digits(b, t, m) PROVE \A i \in 1 .. m : s[i] = t[i]
    OBVIOUS
  <2> DEFINE n == m - 1
             d == Digits(b, s, n)
             e == Digits(b, t, n)
             x == s[n + 1]
             y == t[n + 1]
  <2>1. n \in Nat /\ m = n + 1 /\ Numbers(s, n + 1) /\ Numbers(t, n + 1) /\ n + 1 \in 1 .. N
    BY <1>1
  <2>2. x \in 0 .. b - 1 /\ y \in 0 .. b - 1
    BY <2>1 DEF AreDigits
  <2>3. d = e => \A i \in 1 .. n : s[i] = t[i]
    BY <1>3
  <2> HIDE DEF n
  <2>4. d \in Nat /\ e \in Nat
    BY <2>1, DigitSteps
  <2>5. Digits(b, s, n + 1) = b * d + x /\ Digits(b, t, n + 1) = b * e + y
    BY <2>1, DigitSteps
  <2>6. b * d + x = b * e + y
    BY <2>1, <2>5
  <2> HIDE DEF d, e, x, y
  <2>7. d * b + x = e * b + y
    BY <2>2, <2>4, <2>6
  <2>8. (d * b + x) \div b = d /\ (d * b + x) % b = x
    BY <2>2, <2>4, DivMod
  <2>9. (e * b + y) \div b = e /\ (e * b + y) % b = y
    BY <2>2, <2>4, DivMod
  <2>10. d = e /\ x = y
    BY <2>7, <2>8, <2>9
  <2> QED
    BY <2>1, <2>3, <2>10 DEF x, y
<1> HIDE DEF T
<1>4. \A n \in 0 .. N : n \in T
  BY <1>2, <1>3, StepInduction
<1> QED
  BY <1>4 DEF T

(* Dividing twice. *)
LEMMA DivDiv ==
  ASSUME NEW x \in Nat, NEW p \in Nat, NEW b \in Nat, p > 0, b > 0
  PROVE  (x \div p) \div b = x \div (b * p)
<1> DEFINE q == x \div p
           r == q \div b
<1>1. q \in Nat /\ q * p <= x /\ x < (q + 1) * p
  BY Quotient
<1> HIDE DEF q
<1>2. r \in Nat /\ r * b <= q /\ q < (r + 1) * b
  BY <1>1, Quotient
<1> HIDE DEF r
<1>3. r * b \in Nat /\ (r + 1) * b \in Nat
  BY <1>2
<1>4. (r * b) * p <= q * p /\ q * p \in Nat /\ (r * b) * p \in Nat
  BY <1>1, <1>2, <1>3, Order
<1>5. q + 1 <= (r + 1) * b
  BY <1>1, <1>2, <1>3
<1>6. (q + 1) * p <= ((r + 1) * b) * p
  BY <1>1, <1>3, <1>5, Order
<1>7. (r * b) * p = r * (b * p) /\ ((r + 1) * b) * p = (r + 1) * (b * p) /\ b * p \in Nat /\ b * p > 0
  BY <1>2
<1>8. r * (b * p) <= x /\ x < (r + 1) * (b * p)
  <2>1. (r * b) * p <= x
    BY <1>1, <1>4
  <2>2. (q + 1) * p \in Nat /\ ((r + 1) * b) * p \in Nat
    BY <1>1, <1>3
  <2>3. x < ((r + 1) * b) * p
    BY <1>1, <1>6, <2>2
  <2> QED
    BY <1>7, <2>1, <2>3
<1>9. x \div (b * p) = r
  BY <1>2, <1>7, <1>8, QuotientIs
<1> QED
  BY <1>9 DEF r, q

(* The digits that division finds are those of the number. *)
LEMMA DigitsOf ==
  ASSUME NEW b \in Nat, b > 0, NEW N \in Nat, NEW x \in Nat, x < Pow(b, N), NEW s,
         \A i \in 1 .. N : s[i] = (x \div Pow(b, N - i)) % b
  PROVE  AreDigits(s, b, N) /\ Digits(b, s, N) = x
<1> DEFINE Q(i) == x \div Pow(b, N - i)
<1>1. \A i \in 0 .. N : Q(i) \in Nat /\ Pow(b, N - i) \in Nat /\ Pow(b, N - i) > 0
  <2> SUFFICES ASSUME NEW i \in 0 .. N
               PROVE  Q(i) \in Nat /\ Pow(b, N - i) \in Nat /\ Pow(b, N - i) > 0
    OBVIOUS
  <2> DEFINE p == Pow(b, N - i)
  <2>1. N - i \in Nat
    OBVIOUS
  <2>2. p \in Nat /\ p > 0
    BY <2>1, PowPositive
  <2> HIDE DEF p
  <2>3. x \div p \in Nat
    BY <2>2
  <2> QED
    BY <2>2, <2>3 DEF p
<1> HIDE DEF Q
<1>2. \A i \in 1 .. N : s[i] = Q(i) % b
  BY DEF Q
<1>3. \A i \in 1 .. N : s[i] \in 0 .. b - 1
  BY <1>1, <1>2
<1>4. AreDigits(s, b, N)
  BY <1>3 DEF AreDigits
<1>5. \A n \in 0 .. N : Digits(b, s, n) \in Nat
  BY <1>4, DigitsBelow
<1>6. \A n \in 0 .. N : Numbers(s, n)
  BY <1>3 DEF Numbers
<1> DEFINE T == {n \in 0 .. N : Digits(b, s, n) = Q(n)}
<1>7. 0 \in T
  <2>1. Q(0) = 0
    <3> DEFINE p == Pow(b, N)
    <3>1. p \in Nat /\ p > 0 /\ x < p
      BY PowPositive
    <3> HIDE DEF p
    <3>2. x \div p = 0
      BY <3>1
    <3>3. Q(0) = x \div p
      BY DEF Q, p
    <3> QED
      BY <3>2, <3>3
  <2>2. Digits(b, s, 0) = 0
    BY NoDigits
  <2> QED
    BY <2>1, <2>2
<1>8. ASSUME NEW m \in 1 .. N, m - 1 \in T PROVE m \in T
  <2> DEFINE n == m - 1
             p == Pow(b, N - m)
             q == x \div p
  <2>1. n \in Nat /\ m = n + 1 /\ Numbers(s, n + 1) /\ n \in 0 .. N /\ N - m \in Nat
    BY <1>6
  <2>2. Digits(b, s, n) = Q(n)
    BY <1>8
  <2>3. N - n = (N - m) + 1
    OBVIOUS
  <2> HIDE DEF n
  <2>4. p \in Nat /\ p > 0 /\ Pow(b, (N - m) + 1) = b * p
    BY <2>1, PowSteps, PowPositive
  <2>5. Pow(b, N - n) = b * p
    BY <2>3, <2>4
  <2> HIDE DEF p
  <2>6. q \in Nat
    BY <2>4
  <2> HIDE DEF q
  <2>7. Q(n) = q \div b
    BY <2>4, <2>5, DivDiv DEF Q, q
  <2>8. Q(m) = q
    BY DEF Q, q, p
  <2>9. s[m] = q % b
    BY <1>2, <2>8
  <2>10. Digits(b, s, n + 1) = b * (q \div b) + (q % b)
    BY <2>1, <2>2, <2>7, <2>9, DigitSteps
  <2>11. b * (q \div b) + (q % b) = q
    BY <2>6, Division
  <2> QED
    BY <2>1, <2>8, <2>10, <2>11
<1> HIDE DEF T
<1>9. \A n \in 0 .. N : n \in T
  BY <1>7, <1>8, StepInduction
<1>10. Digits(b, s, N) = Q(N)
  BY <1>9 DEF T
<1>11. Q(N) = x
  <2>1. N - N = 0 /\ Pow(b, 0) = 1
    BY PowSteps, 0 \in Nat
  <2>2. x \div 1 = x
    OBVIOUS
  <2> QED
    BY <2>1, <2>2 DEF Q
<1> QED
  BY <1>4, <1>10, <1>11

-----------------------------------------------------------------------------
(* The laws of powers. *)
LEMMA PowSum ==
  ASSUME NEW b \in Nat, NEW m \in Nat
  PROVE  \A n \in Nat : Pow(b, m + n) = Pow(b, m) * Pow(b, n)
<1> DEFINE T == {n \in Nat : Pow(b, m + n) = Pow(b, m) * Pow(b, n)}
           p == Pow(b, m)
<1>1. p \in Nat
  BY PowSteps
<1>2. 0 \in T
  <2>1. m + 0 = m /\ Pow(b, 0) = 1
    BY PowSteps
  <2> HIDE DEF p
  <2>2. p = p * 1
    BY <1>1
  <2> QED
    BY <2>1, <2>2 DEF p
<1>3. ASSUME NEW n \in Nat, n \in T PROVE n + 1 \in T
  <2> DEFINE q == Pow(b, n)
             r == Pow(b, m + n)
  <2>1. q \in Nat /\ Pow(b, n + 1) = b * q
    BY PowSteps
  <2>2. m + n \in Nat /\ m + (n + 1) = (m + n) + 1
    OBVIOUS
  <2>3. Pow(b, (m + n) + 1) = b * r
    BY <2>2, PowSteps
  <2>4. r = p * q
    BY <1>3
  <2> HIDE DEF p, q, r
  <2>5. b * (p * q) = p * (b * q)
    BY <1>1, <2>1
  <2>6. Pow(b, m + (n + 1)) = p * Pow(b, n + 1)
    BY <2>1, <2>2, <2>3, <2>4, <2>5
  <2> QED
    BY <2>6 DEF p
<1> HIDE DEF T
<1>4. \A n \in Nat : n \in T
  BY <1>2, <1>3, Induction
<1> QED
  BY <1>4 DEF T

LEMMA PowPow ==
  ASSUME NEW b \in Nat, NEW m \in Nat
  PROVE  \A n \in Nat : Pow(b, m * n) = Pow(Pow(b, m), n)
<1> DEFINE p == Pow(b, m)
           T == {n \in Nat : Pow(b, m * n) = Pow(p, n)}
<1>1. p \in Nat
  BY PowSteps
<1>2. 0 \in T
  <2>1. m * 0 = 0 /\ Pow(b, 0) = 1 /\ Pow(p, 0) = 1
    BY <1>1, PowSteps
  <2> QED
    BY <2>1
<1>3. ASSUME NEW n \in Nat, n \in T PROVE n + 1 \in T
  <2> HIDE DEF p
  <2>1. Pow(p, n + 1) = p * Pow(p, n)
    BY <1>1, PowSteps
  <2>2. m * n \in Nat /\ m * (n + 1) = m + m * n
    OBVIOUS
  <2>3. Pow(b, m + m * n) = Pow(b, m) * Pow(b, m * n)
    BY <2>2, PowSum
  <2>4. Pow(b, m * n) = Pow(p, n)
    BY <1>3
  <2> QED
    BY <2>1, <2>2, <2>3, <2>4 DEF p
<1> HIDE DEF T
<1>4. \A n \in Nat : n \in T
  BY <1>2, <1>3, Induction
<1> QED
  BY <1>4 DEF T

LEMMA PowMonotone ==
  ASSUME NEW b \in Nat, b > 0, NEW m \in Nat, NEW n \in Nat, m <= n
  PROVE  Pow(b, m) <= Pow(b, n)
<1> DEFINE d == n - m
           p == Pow(b, m)
           q == Pow(b, d)
<1>1. d \in Nat /\ n = m + d
  OBVIOUS
<1> HIDE DEF d
<1>2. Pow(b, n) = p * q
  BY <1>1, PowSum
<1>3. p \in Nat /\ q \in Nat /\ q > 0
  BY <1>1, PowPositive
<1> HIDE DEF p, q
<1>4. 1 * p <= q * p
  BY <1>3, Order
<1> QED
  BY <1>2, <1>3, <1>4 DEF p

LEMMA PowAbove == \A n \in Nat : n < Pow(2, n)
<1> DEFINE T == {n \in Nat : n < Pow(2, n)}
<1>1. 0 \in T
  BY 2 \in Nat, PowSteps
<1>2. ASSUME NEW n \in Nat, n \in T PROVE n + 1 \in T
  <2> DEFINE p == Pow(2, n)
  <2>1. p \in Nat /\ Pow(2, n + 1) = 2 * p /\ n < p
    BY <1>2, 2 \in Nat, PowSteps
  <2> HIDE DEF p
  <2> QED
    BY <2>1
<1> HIDE DEF T
<1>3. \A n \in Nat : n \in T
  BY <1>1, <1>2, Induction
<1> QED
  BY <1>3 DEF T

(* The length of a number in bits. *)
LEMMA BitLengthIs ==
  ASSUME NEW x \in Nat
  PROVE  /\ BitLength(x) \in Nat /\ BitLength(x) > 0 /\ x < Pow(2, BitLength(x))
         /\ BitLength(x) = 1 \/ Pow(2, BitLength(x) - 1) <= x
<1> DEFINE T == {n \in 1 .. x + 1 : x < Pow(2, n)}
<1>1. \A n \in Nat : Pow(2, n) \in Nat
  BY ONLY 2 \in Nat /\ 2 > 0, PowPositive
<1>2. x + 1 \in T
  <2>1. x + 1 < Pow(2, x + 1)
    BY x + 1 \in Nat, PowAbove
  <2> QED
    BY <1>1, <2>1
<1>3. PICK n \in T : \A y \in T : n <= y
  <2>1. T \in SUBSET Nat /\ T # {}
    BY <1>2
  <2> HIDE DEF T
  <2> QED
    BY <2>1, LeastNatural
<1>4. n = 1 \/ Pow(2, n - 1) <= x
  <2> SUFFICES ASSUME n # 1 PROVE Pow(2, n - 1) <= x
    OBVIOUS
  <2>1. n - 1 \in 1 .. x + 1 /\ ~ n <= n - 1
    OBVIOUS
  <2>2. n - 1 \notin T
    BY <1>3, <2>1
  <2>3. Pow(2, n - 1) \in Nat
    BY <1>1, <2>1
  <2> QED
    BY <2>1, <2>2, <2>3
<1>5. \E k \in 1 .. x + 1 : x < Pow(2, k) /\ (k = 1 \/ Pow(2, k - 1) <= x)
  BY <1>4
<1>6. BitLength(x) \in 1 .. x + 1 /\ x < Pow(2, BitLength(x))
      /\ (BitLength(x) = 1 \/ Pow(2, BitLength(x) - 1) <= x)
  BY <1>5 DEF BitLength
<1> QED
  BY <1>6

(* The digits of Pow(2, B) that a number takes. *)
LEMMA CountIs ==
  ASSUME NEW x \in Nat, NEW B \in Nat, B > 0, NEW c, c = (BitLength(x) + B - 1) \div B
  PROVE  /\ c \in Nat /\ c > 0 /\ x < Pow(Pow(2, B), c)
         /\ c = 1 \/ Pow(Pow(2, B), c - 1) <= x
<1> DEFINE l == BitLength(x)
           t == l + B - 1
<1>1. l \in Nat /\ l > 0 /\ x < Pow(2, l) /\ (l = 1 \/ Pow(2, l - 1) <= x)
  BY BitLengthIs
<1> HIDE DEF l
<1>2. t \in Nat /\ c = t \div B
  BY <1>1 DEF l
<1> HIDE DEF t
<1>3. c \in Nat /\ c * B <= t /\ t < (c + 1) * B /\ c * B \in Nat /\ (c + 1) * B = c * B + B
  BY <1>2, Quotient
<1>4. c * B >= l /\ c * B <= l + B - 1
  BY <1>1, <1>3 DEF t
<1>5. c > 0
  BY <1>1, <1>3, <1>4
<1>6. \A n \in Nat : Pow(2, n) \in Nat
  BY ONLY 2 \in Nat /\ 2 > 0, PowPositive
<1>7. \A m, n \in Nat : m <= n => Pow(2, m) <= Pow(2, n)
  BY ONLY 2 \in Nat /\ 2 > 0, PowMonotone
<1>8. \A n \in Nat : Pow(2, B * n) = Pow(Pow(2, B), n)
  BY 2 \in Nat, PowPow
<1>9. x < Pow(Pow(2, B), c)
  <2>1. Pow(2, l) <= Pow(2, c * B) /\ c * B = B * c
    BY <1>1, <1>3, <1>4, <1>7
  <2> QED
    BY <1>1, <1>3, <1>6, <1>8, <2>1
<1>10. ASSUME c # 1 PROVE Pow(Pow(2, B), c - 1) <= x
  <2>1. c - 1 \in Nat /\ c - 1 > 0 /\ (c - 1) * B = c * B - B /\ B * (c - 1) = (c - 1) * B
    BY <1>3, <1>5, <1>10
  <2>2. (c - 1) * B \in Nat /\ (c - 1) * B > 0
    BY <2>1
  <2>3. (c - 1) * B <= l - 1 /\ l # 1 /\ l - 1 \in Nat
    BY <1>1, <1>4, <2>1, <2>2
  <2>4. Pow(2, (c - 1) * B) <= Pow(2, l - 1)
    BY <1>7, <2>2, <2>3
  <2>5. Pow(2, l - 1) <= x
    BY <1>1, <2>3
  <2>6. Pow(2, (c - 1) * B) \in Nat /\ Pow(2, l - 1) \in Nat
    BY <1>6, <2>2, <2>3
  <2>7. Pow(2, B * (c - 1)) = Pow(Pow(2, B), c - 1)
    BY <1>8, <2>1
  <2> QED
    BY <2>1, <2>4, <2>5, <2>6, <2>7
<1> QED
  BY <1>3, <1>5, <1>9, <1>10

(* The digits before those that a number takes are zero. *)
LEMMA LeadingZeros ==
  ASSUME NEW b \in Nat, b > 0, NEW c \in Nat, NEW n \in Nat, c <= n,
         NEW v \in Nat, v < Pow(b, c)
  PROVE  \A i \in 1 .. n - c : (v \div Pow(b, n - i)) % b = 0
<1> SUFFICES ASSUME NEW i \in 1 .. n - c PROVE (v \div Pow(b, n - i)) % b = 0
  OBVIOUS
<1> DEFINE p == Pow(b, n - i)
           q == Pow(b, c)
<1>1. n - i \in Nat /\ c <= n - i
  OBVIOUS
<1>2. p \in Nat /\ q \in Nat /\ q <= p /\ p > 0
  BY <1>1, PowMonotone, PowPositive
<1>3. v < q
  OBVIOUS
<1> HIDE DEF p, q
<1>4. v < p
  BY <1>2, <1>3
<1>5. v \div p = 0
  BY ONLY v \in Nat, <1>2, <1>4, 0 \in Nat, QuotientIs
<1> QED
  BY <1>5 DEF p

-----------------------------------------------------------------------------
(* Remainders multiply. *)
LEMMA ModProducts ==
  ASSUME NEW x \in Nat, NEW y \in Nat, NEW n \in Nat, n > 0
  PROVE  ((x % n) * (y % n)) % n = (x * y) % n
<1> DEFINE u == x % n
           v == y % n
<1>1. u \in Nat /\ v \in Nat
  OBVIOUS
<1>2. (u * y) % n = (x * y) % n
  BY ModProduct
<1>3. (v * u) % n = (y * u) % n
  <2> HIDE DEF u
  <2> QED
    BY ONLY y \in Nat, n \in Nat, n > 0, <1>1, ModProduct DEF v
<1> HIDE DEF u, v
<1>4. v * u = u * v /\ y * u = u * y
  BY <1>1
<1> QED
  BY <1>2, <1>3, <1>4 DEF u, v

(* Squaring and multiplying, as mpz_powm does, computes the power. *)
PowerStep(x, n, i, h) == IF i % 2 = 1 THEN (((h * h) % n) * x) % n ELSE (h * h) % n

LEMMA PowerSteps ==
  ASSUME NEW x \in Nat, NEW n \in Nat, n > 0, NEW e \in Nat
  PROVE  \E P : /\ P[0] = 1 % n /\ \A i \in 1 .. e : P[i] = PowerStep(x, n, i, P[i \div 2])
                /\ P[e] = Power(x, e, n)
<1> DEFINE S == Nat
           a == 1 % n
           prev == [i \in 1 .. e |-> i \div 2]
           G == [u \in (1 .. e) \X S |-> PowerStep(x, n, u[1], u[2])]
<1>1. ASSUME NEW i \in 1 .. e, NEW h \in S
      PROVE  G[<<i, h>>] = PowerStep(x, n, i, h) /\ G[<<i, h>>] \in S
  <2>1. h * h \in Nat
    OBVIOUS
  <2>2. (h * h) % n \in Nat
    BY <2>1
  <2> DEFINE q == (h * h) % n
  <2>3. q * x \in Nat
    BY <2>2
  <2>4. (q * x) % n \in Nat
    BY <2>3
  <2>5. PowerStep(x, n, i, h) \in Nat
    BY <2>2, <2>4 DEF PowerStep
  <2>6. G[<<i, h>>] = PowerStep(x, n, i, h)
    OBVIOUS
  <2> HIDE DEF G
  <2> QED
    BY <2>5, <2>6
<1>2. a \in S
  OBVIOUS
<1>3. \A i \in 1 .. e : prev[i] = i \div 2 /\ prev[i] \in 0 .. i - 1
  OBVIOUS
<1> HIDE DEF G, S, a, prev
<1>4. Steps(G, e, S) /\ Earlier(prev, e)
  BY <1>1, <1>3 DEF Steps, Earlier
<1>5. PICK f : f \in Solutions(S, a, e, prev, G)
  BY <1>2, <1>4, Recursion
<1>6. f \in [0 .. e -> S] /\ f[0] = a /\ \A i \in 1 .. e : f[i] = G[<<i, f[prev[i]]>>]
  BY <1>5 DEF Solutions
<1>7. \A i \in 1 .. e : f[i] = PowerStep(x, n, i, f[i \div 2])
  <2> SUFFICES ASSUME NEW i \in 1 .. e PROVE f[i] = PowerStep(x, n, i, f[i \div 2])
    OBVIOUS
  <2>1. prev[i] = i \div 2 /\ prev[i] \in 0 .. e
    BY <1>3
  <2>2. f[prev[i]] \in S
    BY <1>6, <2>1
  <2> DEFINE h == f[prev[i]]
  <2>3. f[i] = G[<<i, h>>]
    BY <1>6
  <2>4. h \in S /\ h = f[i \div 2]
    BY <2>1, <2>2
  <2> HIDE DEF h
  <2>5. G[<<i, h>>] = PowerStep(x, n, i, h)
    BY ONLY <1>1, <2>4, i \in 1 .. e
  <2> QED
    BY ONLY <2>3, <2>4, <2>5
<1>8. f = [i \in 0 .. e |-> IF i = 0 THEN 1 % n ELSE PowerStep(x, n, i, f[i \div 2])]
  <2>1. f = [i \in 0 .. e |-> f[i]]
    BY <1>6
  <2>2. ASSUME NEW i \in 0 .. e
        PROVE  f[i] = IF i = 0 THEN 1 % n ELSE PowerStep(x, n, i, f[i \div 2])
    BY <1>6, <1>7 DEF a
  <2> QED
    BY <2>1, <2>2
<1> DEFINE It == CHOOSE P : P = [i \in 0 .. e |-> IF i = 0 THEN 1 % n ELSE PowerStep(x, n, i, P[i \div 2])]
<1>9. It = [i \in 0 .. e |-> IF i = 0 THEN 1 % n ELSE PowerStep(x, n, i, It[i \div 2])]
  BY <1>8
<1>10. Power(x, e, n) = It[e]
  BY DEF Power, PowerStep
<1> HIDE DEF It
<1>11. It[0] = 1 % n /\ \A i \in 1 .. e : It[i] = PowerStep(x, n, i, It[i \div 2])
  BY <1>9
<1> QED
  BY <1>10, <1>11

LEMMA PowerIs ==
  ASSUME NEW x \in Nat, NEW n \in Nat, n > 0, NEW e \in Nat
  PROVE  Power(x, e, n) = Pow(x, e) % n
<1>1. PICK P : /\ P[0] = 1 % n /\ \A i \in 1 .. e : P[i] = PowerStep(x, n, i, P[i \div 2])
               /\ P[e] = Power(x, e, n)
  BY PowerSteps
<1> DEFINE T == {i \in Nat : i <= e => P[i] = Pow(x, i) % n}
<1>2. ASSUME NEW i \in Nat, \A m \in 0 .. i - 1 : m \in T PROVE i \in T
  <2> SUFFICES ASSUME i <= e PROVE P[i] = Pow(x, i) % n
    OBVIOUS
  <2>1. CASE i = 0
    BY <1>1, <2>1, PowSteps
  <2>2. CASE i # 0
    <3> DEFINE h == i \div 2
               b == Pow(x, h)
               r == b % n
               c == b * b
    <3>1. h \in 0 .. i - 1 /\ i \in 1 .. e /\ (i = h + h \/ i = (h + h) + 1) /\ (i % 2 = 1 <=> i = (h + h) + 1)
      BY <2>2
    <3>2. h \in T /\ h <= e
      BY <1>2, <3>1
    <3>3. b \in Nat
      BY <3>1, PowSteps
    <3>4. P[h] = r
      BY <3>2
    <3>5. P[i] = PowerStep(x, n, i, r)
      BY <1>1, <3>1, <3>4
    <3>6. Pow(x, h + h) = c
      <4>1. h \in Nat
        BY <3>1
      <4> HIDE DEF h
      <4>2. Pow(x, h + h) = Pow(x, h) * Pow(x, h)
        BY ONLY x \in Nat, <4>1, PowSum
      <4> QED
        BY <4>2
    <3>7. (r * r) % n = c % n
      BY <3>3, ModProducts
    <3>8. c \in Nat
      BY <3>3
    <3>9. ((c % n) * x) % n = (c * x) % n
      BY <3>8, ModProduct
    <3>10. h + h \in Nat /\ Pow(x, (h + h) + 1) = x * Pow(x, h + h)
      BY <3>1, PowSteps
    <3>11. c * x = x * c
      BY <3>8
    <3> HIDE DEF h, b, c, r
    <3> QED
      BY <3>1, <3>5, <3>6, <3>7, <3>9, <3>10, <3>11 DEF PowerStep
  <2> QED
    BY <2>1, <2>2
<1> HIDE DEF T
<1>3. \A i \in Nat : i \in T
  BY <1>2, StrongInduction
<1> QED
  BY <1>1, <1>3 DEF T

(* The remainder of a power is that of a power of the remainder.            *)
LEMMA PowMod ==
  ASSUME NEW x \in Nat, NEW n \in Nat, n > 0
  PROVE  \A e \in Nat : Pow(x % n, e) % n = Pow(x, e) % n
<1> DEFINE r == x % n
           T == {e \in Nat : Pow(r, e) % n = Pow(x, e) % n}
<1>1. r \in Nat
  OBVIOUS
<1>2. 0 \in T
  BY <1>1, PowSteps
<1>3. ASSUME NEW e \in Nat, e \in T PROVE e + 1 \in T
  <2> DEFINE p == Pow(r, e)
             q == Pow(x, e)
  <2>1. p \in Nat /\ q \in Nat /\ Pow(r, e + 1) = r * p /\ Pow(x, e + 1) = x * q
    BY <1>1, PowSteps
  <2>2. p % n = q % n
    BY <1>3
  <2>3. (r * p) % n = (x * p) % n
    <3> HIDE DEF p
    <3> QED
      BY <2>1, ModProduct
  <2>4. ((p % n) * x) % n = (p * x) % n /\ ((q % n) * x) % n = (q * x) % n
    <3> HIDE DEF p, q
    <3>1. \A y \in Nat : ((y % n) * x) % n = (y * x) % n
      BY ONLY x \in Nat, n \in Nat, n > 0, ModProduct
    <3> QED
      BY ONLY <2>1, <3>1
  <2>5. p * x = x * p /\ q * x = x * q
    <3> HIDE DEF p, q
    <3> QED
      BY <2>1
  <2>6. (r * p) % n = (x * q) % n
    BY <2>2, <2>3, <2>4, <2>5
  <2> QED
    BY <2>1, <2>6
<1> HIDE DEF T
<1>4. \A e \in Nat : e \in T
  BY <1>2, <1>3, Induction
<1> QED
  BY <1>4 DEF T

(* A power of a power, in either order. *)
LEMMA PowerPower ==
  ASSUME NEW x \in Nat, NEW n \in Nat, n > 0, NEW a \in Nat, NEW b \in Nat
  PROVE  Power(Power(x, a, n), b, n) = Pow(x, a * b) % n
<1> DEFINE p == Pow(x, a)
<1>1. p \in Nat /\ p % n \in Nat /\ Power(x, a, n) = p % n
  <2>1. p \in Nat
    BY PowSteps
  <2>2. Power(x, a, n) = p % n
    BY PowerIs
  <2> HIDE DEF p
  <2> QED
    BY <2>1, <2>2
<1> HIDE DEF p
<1>2. Power(p % n, b, n) = Pow(p % n, b) % n
  BY <1>1, PowerIs
<1>3. Pow(p % n, b) % n = Pow(p, b) % n
  BY <1>1, PowMod
<1>4. Pow(x, a * b) = Pow(p, b)
  BY PowPow DEF p
<1> QED
  BY <1>1, <1>2, <1>3, <1>4

-----------------------------------------------------------------------------
(* Whole multiples do not count in a remainder. *)
LEMMA AddMultiple ==
  ASSUME NEW a \in Nat, NEW m \in Nat, NEW n \in Nat, n > 0
  PROVE  (a + m * n) % n = a % n
<1> DEFINE d == a \div n
           r == a % n
<1>1. d \in Nat /\ r \in 0 .. n - 1 /\ a = d * n + r
  BY Division
<1>2. d * n \in Nat /\ m * n \in Nat /\ (d + m) * n = d * n + m * n /\ d + m \in Nat
  BY <1>1, Sums
<1> HIDE DEF d, r
<1>3. a + m * n = (d + m) * n + r
  BY <1>1, <1>2
<1>4. ((d + m) * n + r) % n = r
  BY <1>1, <1>2, DivMod
<1> QED
  BY <1>3, <1>4 DEF r

LEMMA Multiple == ASSUME NEW m \in Nat, NEW n \in Nat, n > 0 PROVE (m * n) % n = 0
<1>1. (0 + m * n) % n = 0 % n
  BY 0 \in Nat, AddMultiple
<1>2. m * n \in Nat /\ 0 % n = 0
  BY Sums
<1> QED
  BY <1>1, <1>2

(* What is left when a multiple of n is taken from another.                 *)
LEMMA MultipleLeft ==
  ASSUME NEW a \in Nat, NEW b \in Nat, NEW n \in Nat, n > 0, a % n = 0, (a + b) % n = 0
  PROVE  b % n = 0
<1> DEFINE d == a \div n
<1>1. d \in Nat /\ a = d * n
  BY Division
<1> HIDE DEF d
<1>2. (b + d * n) % n = b % n
  BY <1>1, AddMultiple
<1> QED
  BY <1>1, <1>2

(* Euclid: a prime that divides a product divides a factor.  The numbers    *)
(* that make a multiple of N of a are the multiples of the least of them,   *)
(* which is a divisor of N.                                                 *)
LEMMA PrimeFactor ==
  ASSUME NEW N \in Nat, N > 1, \A d \in 2 .. N - 1 : N % d # 0,
         NEW a \in Nat, NEW b \in Nat, (b * a) % N = 0, a % N # 0
  PROVE  b % N = 0
<1> DEFINE D == {t \in Nat : t > 0 /\ (t * a) % N = 0}
<1>1. \A t \in Nat : t * a \in Nat
  BY Sums
<1>2. N * a = a * N /\ (a * N) % N = 0
  BY Multiple
<1>3. N \in D
  BY <1>2
<1>4. PICK s \in D : \A t \in D : s <= t
  BY <1>3, LeastNatural
<1>5. s \in Nat /\ s > 0 /\ (s * a) % N = 0 /\ s <= N
  BY <1>3, <1>4
<1>6. ASSUME NEW t \in Nat, (t * a) % N = 0 PROVE t % s = 0
  <2> DEFINE q == t \div s
             r == t % s
  <2>1. q \in Nat /\ r \in 0 .. s - 1 /\ t = q * s + r
    BY <1>5, Division
  <2> HIDE DEF q, r
  <2>2. q * s \in Nat /\ r * a \in Nat /\ s * a \in Nat /\ t * a = (q * s) * a + r * a
    BY <1>5, <2>1, Sums
  <2>3. (q * s) * a = (s * a) * q /\ (s * a) * q \in Nat
    BY <1>5, <2>1, <2>2
  <2>4. ((s * a) * q) % N = 0
    <3>1. (((s * a) % N) * q) % N = ((s * a) * q) % N
      BY <2>1, <2>2, ModProduct
    <3>2. 0 * q = 0 /\ 0 % N = 0
      BY <2>1
    <3> QED
      BY <1>5, <3>1, <3>2
  <2>5. (r * a) % N = 0
    <3> DEFINE g == (s * a) * q
               h == r * a
    <3>1. g \in Nat /\ h \in Nat /\ g % N = 0 /\ t * a = g + h
      BY <2>2, <2>3, <2>4
    <3>2. (t * a) % N = 0
      BY <1>6
    <3> HIDE DEF g, h
    <3>3. g \in Nat /\ h \in Nat /\ N \in Nat /\ N > 0 /\ g % N = 0 /\ (g + h) % N = 0
      BY <3>1, <3>2
    <3>4. h % N = 0
      BY ONLY <3>3, MultipleLeft
    <3> QED
      BY <3>4 DEF h
  <2>6. CASE r > 0
    <3>1. r \in D
      BY <2>1, <2>5, <2>6
    <3> QED
      BY <1>4, <1>5, <2>1, <3>1
  <2> QED
    BY <2>1, <2>6 DEF r
<1>7. N % s = 0
  BY <1>3, <1>6
<1>8. s = 1 \/ s = N
  <2>1. s \in 2 .. N - 1 => N % s # 0
    OBVIOUS
  <2> QED
    BY <1>5, <1>7, <2>1
<1>9. s # 1
  BY <1>5
<1>10. (b * a) % N = 0 => b % s = 0
  BY <1>6
<1> QED
  BY <1>8, <1>9, <1>10

LEMMA OnePower == \A n \in Nat : Pow(1, n) = 1
<1> DEFINE T == {n \in Nat : Pow(1, n) = 1}
<1>1. 0 \in T
  BY 1 \in Nat, 0 \in Nat, PowSteps
<1>2. ASSUME NEW n \in Nat, n \in T PROVE n + 1 \in T
  BY <1>2, 1 \in Nat, PowSteps
<1> HIDE DEF T
<1>3. \A n \in Nat : n \in T
  BY <1>1, <1>2, Induction
<1> QED
  BY <1>3 DEF T

LEMMA PowProduct ==
  ASSUME NEW x \in Nat, NEW y \in Nat
  PROVE  \A n \in Nat : Pow(x * y, n) = Pow(x, n) * Pow(y, n)
<1> DEFINE z == x * y
           T == {n \in Nat : Pow(z, n) = Pow(x, n) * Pow(y, n)}
<1>1. z \in Nat
  BY Sums
<1>2. 0 \in T
  BY <1>1, 0 \in Nat, PowSteps
<1>3. ASSUME NEW n \in Nat, n \in T PROVE n + 1 \in T
  <2> DEFINE u == Pow(x, n)
             v == Pow(y, n)
  <2>1. u \in Nat /\ v \in Nat /\ Pow(z, n) = u * v
    BY <1>3, PowSteps
  <2>2. Pow(z, n + 1) = z * Pow(z, n) /\ Pow(x, n + 1) = x * u /\ Pow(y, n + 1) = y * v
    BY <1>1, <1>3, PowSteps
  <2> HIDE DEF u, v
  <2>3. (x * y) * (u * v) = (x * u) * (y * v)
    BY <2>1
  <2> QED
    BY <2>1, <2>2, <2>3
<1> HIDE DEF T
<1>4. \A n \in Nat : n \in T
  BY <1>2, <1>3, Induction
<1> QED
  BY <1>4 DEF T, z

(* The powers of a number that has an inverse are not 0. *)
LEMMA UnitPower ==
  ASSUME NEW x \in Nat, NEW w \in Nat, NEW n \in Nat, n > 1, (x * w) % n = 1, NEW e \in Nat
  PROVE  Power(x, e, n) # 0
<1> DEFINE u == Pow(x, e)
           v == Pow(w, e)
           z == x * w
<1>1. u \in Nat /\ v \in Nat /\ z \in Nat /\ u * v \in Nat
  BY PowSteps, Sums
<1>2. Pow(z, e) = u * v
  BY PowProduct
<1>3. Pow(z % n, e) % n = Pow(z, e) % n
  BY <1>1, PowMod
<1>4. Pow(1, e) = 1 /\ 1 % n = 1
  BY OnePower
<1>6. Power(x, e, n) = u % n
  BY PowerIs
<1> HIDE DEF u, v, z
<1>5. ((u % n) * v) % n = (u * v) % n
  <2>1. u \in Nat /\ v \in Nat /\ n \in Nat /\ n > 0
    BY <1>1
  <2> QED
    BY ONLY <2>1, ModProduct, ZenonT(40)
<1>7. (u * v) % n = 1
  BY <1>2, <1>3, <1>4 DEF z
<1>8. ASSUME u % n = 0 PROVE FALSE
  <2>1. 0 * v = 0 /\ 0 % n = 0
    BY <1>1
  <2> QED
    BY <1>5, <1>7, <1>8, <2>1
<1> QED
  BY <1>6, <1>8

-----------------------------------------------------------------------------
(* Remainders and the numbers below a product of two others, one of which   *)
(* has an inverse modulo the other.                                         *)
LEMMA IntRemainder ==
  ASSUME NEW a \in Int, NEW m \in Int, NEW n \in Nat, n > 0
  PROVE  (a + m * n) % n = a % n
<1> DEFINE b == a + m * n
           d == a \div n
           e == b \div n
           r == a % n
           s == b % n
<1>1. m * n \in Int /\ b \in Int
  OBVIOUS
<1>2. d \in Int /\ r \in 0 .. n - 1 /\ a = d * n + r
  OBVIOUS
<1>3. b \in Int => e \in Int /\ s \in 0 .. n - 1 /\ b = e * n + s
  <2> HIDE DEF b
  <2> QED
    OBVIOUS
<1> DEFINE w == d + m - e
<1>4. w \in Int /\ w * n = s - r
  <2>1. (d + m - e) * n = d * n + m * n - e * n
    <3> HIDE DEF b, d, e, r, s
    <3> QED
      BY <1>1, <1>2, <1>3
  <2> HIDE DEF d, e, r, s
  <2>2. d * n + m * n = b - r
    BY <1>2
  <2> HIDE DEF b
  <2> QED
    BY <1>1, <1>2, <1>3, <2>1, <2>2
<1> HIDE DEF b, d, e, r, s, w
<1>5. w = 0
  <2>1. CASE w >= 1
    <3>1. w * n >= n
      BY <1>4, <2>1
    <3> QED
      BY <1>1, <1>2, <1>3, <1>4, <3>1
  <2>2. CASE w <= -1
    <3>1. w * n <= -n
      BY <1>4, <2>2
    <3> QED
      BY <1>1, <1>2, <1>3, <1>4, <3>1
  <2> QED
    BY <1>4, <2>1, <2>2
<1>6. w * n = 0
  BY <1>5
<1> QED
  BY <1>1, <1>2, <1>3, <1>4, <1>6 DEF b, r, s

LEMMA SmallRemainder == ASSUME NEW n \in Nat, NEW x \in 0 .. n - 1 PROVE x % n = x
<1>1. n > 0 /\ x \in Nat /\ 0 * n + x = x /\ (0 * n + x) % n = x
  BY DivMod, 0 \in Nat
<1> QED
  BY <1>1

(* Remainders modulo a factor.                                              *)
LEMMA ModFactor ==
  ASSUME NEW a \in Nat, NEW m \in Nat, NEW n \in Nat, m > 0, n > 0
  PROVE  /\ (a % (m * n)) % n = a % n
         /\ (a % (m * n)) % m = a % m
<1> DEFINE N == m * n
           d == a \div N
           r == a % N
<1>1. N \in Nat /\ N > 0
  <2>1. 1 * n <= m * n /\ m * n \in Nat
    BY Sums, Order, 1 \in Nat
  <2> QED
    BY <2>1
<1>2. d \in Nat /\ r \in 0 .. N - 1 /\ a = d * N + r
  <2> HIDE DEF N
  <2> QED
    BY <1>1, Division
<1> HIDE DEF d, r
<1>3. d * m \in Nat /\ d * n \in Nat /\ d * N = (d * m) * n /\ d * N = (d * n) * m
  BY <1>2
<1> DEFINE u == d * m
           v == d * n
<1> HIDE DEF u, v, N
<1>4. r \in Nat /\ (r + u * n) % n = r % n /\ (r + v * m) % m = r % m
  <2>1. r \in Nat /\ u \in Nat /\ v \in Nat /\ m \in Nat /\ n \in Nat /\ m > 0 /\ n > 0
    BY <1>1, <1>2, <1>3 DEF u, v
  <2> QED
    BY ONLY <2>1, AddMultiple, ZenonT(40)
<1>5. a = r + u * n /\ a = r + v * m
  BY <1>1, <1>2, <1>3 DEF u, v
<1> QED
  BY <1>4, <1>5 DEF r, N

(* Equal remainders: the difference is a multiple.                          *)
Beyond(a, b, n) == \E u \in Nat : a = b + u * n

LEMMA Difference ==
  ASSUME NEW a \in Nat, NEW b \in Nat, NEW n \in Nat, n > 0, b <= a, a % n = b % n
  PROVE  Beyond(a, b, n)
<1> DEFINE d == a \div n
           e == b \div n
           r == a % n
<1>1. d \in Nat /\ e \in Nat /\ r \in 0 .. n - 1 /\ a = d * n + r /\ b = e * n + r
  BY Division
<1> HIDE DEF d, e, r
<1>2. e <= d
  <2>1. CASE d < e
    <3>1. d + 1 \in Nat /\ d + 1 <= e
      BY <1>1, <2>1
    <3>2. (d + 1) * n <= e * n /\ (d + 1) * n = d * n + 1 * n
      BY <1>1, <3>1, 1 \in Nat, Order, Sums
    <3>3. d * n \in Nat /\ e * n \in Nat
      BY <1>1, Sums
    <3> QED
      BY <1>1, <3>2, <3>3
  <2> QED
    BY <1>1, <2>1
<1>3. d - e \in Nat /\ d = (d - e) + e
  BY <1>1, <1>2
<1>4. d * n = (d - e) * n + e * n /\ (d - e) * n \in Nat /\ e * n \in Nat
  <2> DEFINE f == d - e
  <2> HIDE DEF f
  <2>1. (f + e) * n = f * n + e * n /\ f * n \in Nat /\ e * n \in Nat
    BY <1>1, <1>3, Sums DEF f
  <2> QED
    BY <1>3, <2>1 DEF f
<1>5. a = b + (d - e) * n
  BY <1>1, <1>4
<1> QED
  BY <1>3, <1>5 DEF Beyond

(* A multiple of p whose other factor has an inverse modulo p.              *)
LEMMA UnitFactor ==
  ASSUME NEW p \in Nat, p > 1, NEW q \in Nat, NEW w \in Nat, ((q % p) * w) % p = 1,
         NEW u \in Nat, (u * q) % p = 0
  PROVE  u % p = 0
<1>1. u * q \in Nat /\ q * w \in Nat /\ (u * q) * w = u * (q * w) /\ (u * q) * w = (q * w) * u
  OBVIOUS
<1>0. p \in Nat /\ p > 0 /\ q \in Nat /\ w \in Nat /\ u \in Nat
  OBVIOUS
<1>2. (q * w) % p = 1
  BY ONLY <1>0, ((q % p) * w) % p = 1, ModProduct
<1>3. (0 * w) % p = ((u * q) * w) % p
  <2> DEFINE y == u * q
  <2> HIDE DEF y
  <2>1. y \in Nat /\ y % p = 0
    BY <1>1 DEF y
  <2>2. ((y % p) * w) % p = (y * w) % p
    BY ONLY <1>0, <2>1, ModProduct
  <2> QED
    BY <2>1, <2>2 DEF y
<1>4. ((q * w) * u) % p = (1 * u) % p
  <2> DEFINE y == q * w
  <2> HIDE DEF y
  <2>1. y \in Nat /\ y % p = 1
    BY <1>1, <1>2 DEF y
  <2>2. ((y % p) * u) % p = (y * u) % p
    BY ONLY <1>0, <2>1, ModProduct
  <2> QED
    BY <2>1, <2>2 DEF y
<1>5. 0 * w = 0 /\ 0 % p = 0 /\ 1 * u = u
  BY SmallRemainder
<1> QED
  BY <1>1, <1>3, <1>4, <1>5

LEMMA Remaindering ==
  ASSUME NEW p \in Nat, p > 1, NEW q \in Nat, q > 1, NEW w \in Nat, ((q % p) * w) % p = 1,
         NEW a \in Nat, NEW b \in Nat, b <= a, a < p * q, a % p = b % p, a % q = b % q
  PROVE  a = b
<1>0. /\ p \in Nat /\ q \in Nat /\ p > 0 /\ q > 0 /\ a \in Nat /\ b \in Nat /\ b <= a
      /\ a % p = b % p /\ a % q = b % q
  OBVIOUS
<1>1. PICK u \in Nat : a = b + u * q
  <2>1. Beyond(a, b, q)
    BY ONLY <1>0, Difference
  <2> QED
    BY <2>1 DEF Beyond
<1>2. PICK t \in Nat : a = b + t * p
  <2>1. p \in Nat /\ p > 0 /\ a \in Nat /\ b \in Nat /\ b <= a /\ a % p = b % p
    BY <1>0
  <2>2. Beyond(a, b, p)
    BY ONLY <2>1, Difference
  <2> QED
    BY <2>2 DEF Beyond
<1>3. (u * q) % p = 0
  <2>1. u * q \in Nat /\ u * q = t * p
    BY <1>1, <1>2
  <2>2. (t * p) % p = 0
    BY Multiple
  <2> QED
    BY <2>1, <2>2
<1>4. u % p = 0
  BY <1>3, UnitFactor
<1>5. u < p
  <2>1. CASE p <= u
    <3>1. p * q <= u * q /\ u * q \in Nat /\ p * q \in Nat
      BY <2>1, Order, Sums
    <3> QED
      BY <1>1, <3>1
  <2> QED
    BY <2>1
<1>6. u = 0
  <2>1. u % p = u
    BY <1>5, SmallRemainder
  <2> QED
    BY <1>4, <2>1
<1>7. 0 * q = 0
  OBVIOUS
<1> QED
  BY <1>1, <1>6, <1>7

LEMMA ChineseRemainder ==
  ASSUME NEW p \in Nat, p > 1, NEW q \in Nat, q > 1, NEW w \in Nat, ((q % p) * w) % p = 1,
         NEW a \in Nat, NEW b \in Nat, a < p * q, b < p * q, a % p = b % p, a % q = b % q
  PROVE  a = b
<1>1. CASE b <= a
  BY <1>1, Remaindering
<1>2. CASE a <= b
  BY <1>2, Remaindering
<1> QED
  BY <1>1, <1>2

(* Fermat's theorem, and what it says of higher powers.                     *)
Fermat(p) == \A x \in 0 .. p - 1 : Power(x, p, p) = x

LEMMA FermatPower ==
  ASSUME NEW p \in Nat, p > 1, Fermat(p), NEW x \in Nat
  PROVE  \A j \in Nat : Pow(x, 1 + j * (p - 1)) % p = x % p
<1>1. Pow(x, p) % p = x % p
  <2> DEFINE y == x % p
  <2>1. y \in 0 .. p - 1
    BY Division
  <2>2. Power(y, p, p) = y
    BY <2>1 DEF Fermat
  <2>3. Power(y, p, p) = Pow(y, p) % p
    <3> HIDE DEF y
    <3> QED
      BY <2>1, PowerIs
  <2>4. Pow(x % p, p) % p = Pow(x, p) % p
    BY PowMod
  <2> QED
    BY <2>2, <2>3, <2>4
<1> DEFINE T == {j \in Nat : Pow(x, 1 + j * (p - 1)) % p = x % p}
<1>2. 0 \in T
  <2>1. 1 + 0 * (p - 1) = 1 /\ 0 + 1 = 1
    OBVIOUS
  <2>2. Pow(x, 0) = 1 /\ Pow(x, 0 + 1) = x * Pow(x, 0)
    BY PowSteps, 0 \in Nat
  <2>3. Pow(x, 1) = x
    BY <2>1, <2>2
  <2> QED
    BY <2>1, <2>3
<1>3. ASSUME NEW j \in Nat, j \in T PROVE j + 1 \in T
  <2> DEFINE e == j * (p - 1)
             f == p - 1
             A == Pow(x, 1 + e)
             B == Pow(x, f)
  <2>1. e \in Nat /\ f \in Nat /\ (j + 1) * f = e + f /\ p = 1 + f
    BY p - 1 \in Nat, 1 \in Nat, Sums
  <2>2. A % p = x % p
    BY <1>3
  <2> HIDE DEF e, f
  <2>3. A \in Nat /\ B \in Nat /\ 1 + e \in Nat
    <3>1. 1 + e \in Nat /\ f \in Nat /\ x \in Nat
      BY <2>1
    <3> QED
      BY ONLY <3>1, PowSteps
  <2>4. Pow(x, (1 + e) + f) = A * B
    BY <2>1, <2>3, PowSum
  <2>5. Pow(x, 1 + f) = x * B
    <3>1. f + 1 = 1 + f /\ Pow(x, f + 1) = x * B
      BY <2>1, PowSteps
    <3> QED
      BY <3>1
  <2> HIDE DEF A, B
  <2>6. ((A % p) * B) % p = (A * B) % p /\ ((x % p) * B) % p = (x * B) % p
    <3>1. A \in Nat /\ B \in Nat /\ x \in Nat /\ p \in Nat /\ p > 0
      BY <2>3
    <3> QED
      BY ONLY <3>1, ModProduct, ZenonT(40)
  <2>7. (A * B) % p = x % p
    BY <1>1, <2>1, <2>2, <2>5, <2>6
  <2>8. 1 + (e + f) = (1 + e) + f
    BY <2>1
  <2> QED
    BY <2>1, <2>4, <2>7, <2>8 DEF f
<1> HIDE DEF T
<1>4. \A j \in Nat : j \in T
  BY <1>2, <1>3, Induction
<1> QED
  BY <1>4 DEF T

(* What is congruent to 1 modulo a product is one more than a multiple of   *)
(* either factor.                                                           *)
LEMMA WholeTurns ==
  ASSUME NEW m \in Nat, m > 0, NEW n \in Nat, n > 0, NEW a \in Nat, a % (m * n) = 1
  PROVE  \E j \in Nat : a = 1 + j * m
<1> DEFINE N == m * n
           t == a \div N
<1>1. N \in Nat /\ N > 0
  <2>1. 1 * n <= m * n /\ m * n \in Nat
    BY Sums, Order, 1 \in Nat
  <2> QED
    BY <2>1
<1>2. t \in Nat /\ a = t * N + 1
  <2> HIDE DEF N
  <2>1. t \in Nat /\ a = t * N + (a % N)
    BY <1>1, Division
  <2> QED
    BY <2>1 DEF N
<1> HIDE DEF t
<1>3. t * n \in Nat /\ t * (m * n) = (t * n) * m
  BY <1>2
<1> DEFINE j == t * n
<1>4. t * N = j * m /\ j \in Nat
  BY <1>3
<1> HIDE DEF j
<1>5. j * m \in Nat
  BY <1>4
<1> HIDE DEF N
<1>6. a = 1 + j * m
  BY <1>2, <1>4, <1>5
<1> QED
  BY <1>4, <1>6

LEMMA FermatTwice ==
  ASSUME NEW p \in Nat, p > 2, NEW q \in Nat, q > 2, Fermat(p), Fermat(q),
         NEW w \in Nat, ((q % p) * w) % p = 1,
         NEW a \in Nat, a % ((p - 1) * (q - 1)) = 1, NEW x \in Nat, x < p * q
  PROVE  Pow(x, a) % (p * q) = x
<1> DEFINE m == p - 1
           n == q - 1
<1>1. m \in Nat /\ m > 1 /\ n \in Nat /\ n > 0
  OBVIOUS
<1>2. a % (m * n) = 1
  OBVIOUS
<1> HIDE DEF m, n
<1>3. PICK j \in Nat : a = 1 + j * m
  <2>1. a \in Nat /\ m \in Nat /\ m > 0 /\ n \in Nat /\ n > 0 /\ a % (m * n) = 1
    BY <1>1, <1>2
  <2> QED
    BY ONLY <2>1, WholeTurns
<1>4. PICK k \in Nat : a = 1 + k * n
  <2>1. a \in Nat /\ m \in Nat /\ m > 0 /\ n \in Nat /\ n > 0 /\ a % (n * m) = 1
    BY <1>1, <1>2
  <2> QED
    BY ONLY <2>1, WholeTurns
<1>5. Pow(x, a) % p = x % p /\ Pow(x, a) % q = x % q
  <2>1. p \in Nat /\ p > 1 /\ q \in Nat /\ q > 1 /\ x \in Nat
    OBVIOUS
  <2>2. \A i \in Nat : Pow(x, 1 + i * (p - 1)) % p = x % p
    BY ONLY <2>1, Fermat(p), FermatPower
  <2>3. \A i \in Nat : Pow(x, 1 + i * (q - 1)) % q = x % q
    BY ONLY <2>1, Fermat(q), FermatPower
  <2> QED
    BY <1>3, <1>4, <2>2, <2>3 DEF m, n
<1> DEFINE A == Pow(x, a)
           r == A % (p * q)
<1>6. A \in Nat
  BY PowSteps
<1> HIDE DEF A
<1>7. p * q \in Nat /\ p * q > 0
  BY Sums
<1>8. r \in Nat /\ r < p * q
  BY <1>6, <1>7, Division
<1>9. r % q = A % q /\ r % p = A % p
  <2>1. A \in Nat /\ p \in Nat /\ q \in Nat /\ p > 0 /\ q > 0
    BY <1>6
  <2> QED
    BY ONLY <2>1, ModFactor, ZenonT(40)
<1> HIDE DEF r
<1>10. r = x
  <2>1. /\ p \in Nat /\ p > 1 /\ q \in Nat /\ q > 1 /\ w \in Nat /\ ((q % p) * w) % p = 1
        /\ r \in Nat /\ x \in Nat /\ r < p * q /\ x < p * q /\ r % p = x % p /\ r % q = x % q
    BY <1>5, <1>8, <1>9 DEF A
  <2> QED
    BY ONLY <2>1, ChineseRemainder
<1> QED
  BY <1>10 DEF r, A

(* Exponents may be reduced modulo p - 1 as long as something is left.      *)
LEMMA ReducedExponent ==
  ASSUME NEW p \in Nat, p > 1, Fermat(p), NEW x \in Nat, NEW d \in Nat, d % (p - 1) # 0
  PROVE  Power(x, d % (p - 1), p) = Pow(x, d) % p
<1> DEFINE m == p - 1
           r == d % m
           j == d \div m
           f == r - 1
<1>1. m \in Nat /\ m > 0
  OBVIOUS
<1>2. j \in Nat /\ r \in Nat /\ d = j * m + r
  <2> HIDE DEF m
  <2> QED
    BY <1>1, Division
<1>3. f \in Nat /\ r = f + 1
  BY <1>2
<1> DEFINE h == 1 + j * m
<1>4. h \in Nat /\ d = f + h /\ j * m \in Nat
  <2> HIDE DEF m, r, j, f
  <2>1. j * m \in Nat
    BY <1>1, <1>2
  <2> QED
    BY <1>2, <1>3, <2>1
<1>5. Pow(x, h) % p = x % p
  BY <1>2, FermatPower
<1> HIDE DEF m, j, f, h
<1> DEFINE F == Pow(x, f)
           H == Pow(x, h)
<1>6. F \in Nat /\ H \in Nat /\ Pow(x, f + 1) = x * F /\ Pow(x, f + h) = F * H
  <2>1. f \in Nat /\ h \in Nat /\ x \in Nat
    BY <1>3, <1>4
  <2>2. F \in Nat /\ H \in Nat /\ Pow(x, f + 1) = x * F
    BY ONLY <2>1, PowSteps
  <2>3. Pow(x, f + h) = F * H
    BY ONLY <2>1, PowSum
  <2> QED
    BY <2>2, <2>3
<1> HIDE DEF F
<1>7. (H * F) % p = (x * F) % p
  <2>1. H \in Nat /\ F \in Nat /\ x \in Nat /\ p \in Nat /\ p > 0 /\ H % p = x % p
    BY <1>5, <1>6
  <2> HIDE DEF H
  <2>2. ((H % p) * F) % p = (H * F) % p
    BY ONLY <2>1, ModProduct
  <2>3. ((x % p) * F) % p = (x * F) % p
    BY ONLY <2>1, ModProduct
  <2> QED
    BY <2>1, <2>2, <2>3
<1> HIDE DEF H
<1>8. F * H = H * F
  BY <1>6
<1>9. Pow(x, r) % p = Pow(x, d) % p
  BY <1>3, <1>4, <1>6, <1>7, <1>8
<1>10. Power(x, r, p) = Pow(x, r) % p
  <2> HIDE DEF r
  <2>1. r \in Nat /\ x \in Nat /\ p \in Nat /\ p > 0
    BY <1>2
  <2> QED
    BY ONLY <2>1, PowerIs
<1> QED
  BY <1>9, <1>10 DEF r, m

(* The exponent d is no multiple of p - 1.                                  *)
LEMMA NoMultiple ==
  ASSUME NEW m \in Nat, m > 1, NEW j \in Nat, NEW e \in Nat, NEW d \in Nat, e * d = 1 + j * m
  PROVE  d % m # 0
<1> SUFFICES ASSUME d % m = 0 PROVE FALSE
  OBVIOUS
<1> DEFINE t == d \div m
<1>1. t \in Nat /\ d = t * m
  BY Division
<1> HIDE DEF t
<1>2. e * (t * m) = (e * t) * m /\ e * t \in Nat
  BY <1>1
<1> DEFINE u == e * t
<1>3. u \in Nat /\ u * m = 1 + j * m
  BY <1>1, <1>2
<1> HIDE DEF u
<1>4. (u * m) % m = 0
  BY <1>3, Multiple
<1>5. (1 + j * m) % m = 1 % m
  BY 1 \in Nat, AddMultiple
<1>6. 1 % m = 1
  <2>1. 1 \in 0 .. m - 1
    OBVIOUS
  <2> QED
    BY ONLY m \in Nat, <2>1, SmallRemainder
<1> QED
  BY <1>3, <1>4, <1>5, <1>6

LEMMA ProductBelow ==
  ASSUME NEW u \in Nat, NEW v \in Nat, NEW p \in Nat, NEW q \in Nat, u < q, v < p
  PROVE  u + v * q \in Nat /\ u + v * q < p * q
<1>1. v + 1 \in Nat /\ v + 1 <= p /\ v * q \in Nat /\ p * q \in Nat
  BY Sums
<1>2. (v + 1) * q <= p * q /\ (v + 1) * q = v * q + 1 * q
  BY <1>1, 1 \in Nat, Sums, Order
<1> QED
  BY <1>1, <1>2

(* Garner's formula: h may be negative, and p may be above or below q.      *)
Halves(p, q, w, a, b, h, v) ==
  /\ p \in Nat /\ p > 1 /\ q \in Nat /\ q > 1 /\ w \in Nat /\ ((q % p) * w) % p = 1
  /\ a \in 0 .. p - 1 /\ b \in 0 .. q - 1
  /\ h = a - b \/ h = a - b + p
  /\ v = (w * h) % p

LEMMA Garner ==
  ASSUME NEW p, NEW q, NEW w, NEW a, NEW b, NEW h, NEW v, Halves(p, q, w, a, b, h, v)
  PROVE  /\ b + v * q \in Nat /\ b + v * q < p * q
         /\ (b + v * q) % p = a /\ (b + v * q) % q = b
<1>0. /\ p \in Nat /\ p > 0 /\ p > 1 /\ q \in Nat /\ q > 0 /\ w \in Nat /\ a \in Nat /\ b \in Nat
      /\ a < p /\ b < q
  BY DEF Halves
<1>11. h \in Int /\ (h = a - b \/ h = a - b + p) /\ v = (w * h) % p /\ ((q % p) * w) % p = 1
  BY DEF Halves
<1> DEFINE g == h + b * p
           i == IF h = a - b THEN 0 ELSE 1
<1>9. i \in Nat /\ h \in Int /\ h = a - b + i * p
  <2>1. 0 * p = 0 /\ 1 * p = p
    BY <1>0
  <2> QED
    BY <1>0, <1>11, <2>1
<1> HIDE DEF i
<1>1. g \in Nat /\ b + g = a + (i + b) * p
  <2>1. i * p \in Nat /\ b * p \in Nat /\ (i + b) * p = i * p + b * p
    BY ONLY <1>0, <1>9, Sums
  <2>2. b * 1 <= b * p
    <3>1. 1 * b <= p * b /\ p * b = b * p /\ 1 * b = b /\ b * 1 = b
      BY <1>0, Order, 1 \in Nat
    <3> QED
      BY <3>1
  <2> QED
    BY <1>0, <1>9, <2>1, <2>2
<1>2. w * h \in Int /\ w * b \in Int /\ w * g = w * h + (w * b) * p /\ w * g \in Nat
  <2>1. w * (h + b * p) = w * h + w * (b * p) /\ w * (b * p) = (w * b) * p
    BY <1>0, <1>9
  <2>2. w * h \in Int /\ w * b \in Int
    BY <1>0, <1>9
  <2>3. w * g \in Nat
    <3> HIDE DEF g
    <3> QED
      BY <1>0, <1>1
  <2> QED
    BY <2>1, <2>2, <2>3
<1>3. v = (w * g) % p
  <2> DEFINE x == w * h
             y == w * b
  <2>1. x \in Int /\ y \in Int
    BY <1>2
  <2> HIDE DEF x, y
  <2>2. (x + y * p) % p = x % p
    BY <1>0, <2>1, IntRemainder
  <2> QED
    BY <1>2, <1>11, <2>2 DEF x, y
<1> HIDE DEF g
<1>4. v \in Nat /\ v < p
  <2> DEFINE x == w * g
  <2> HIDE DEF x
  <2>1. x \in Nat => x % p \in 0 .. p - 1
    BY <1>0, Division
  <2> QED
    BY <1>0, <1>2, <1>3, <2>1 DEF x
<1>5. (v * q) % p = g % p
  <2>1. w * g \in Nat /\ q * w \in Nat /\ (w * g) * q = (q * w) * g
    BY <1>0, <1>1, <1>2
  <2>2. (v * q) % p = ((w * g) * q) % p
    <3> DEFINE x == w * g
    <3>0. x \in Nat
      BY <2>1
    <3> HIDE DEF x
    <3>1. ((x % p) * q) % p = (x * q) % p
      BY ONLY <1>0, <3>0, ModProduct
    <3> QED
      BY <1>3, <3>1 DEF x
  <2>3. (q * w) % p = 1
    BY ONLY <1>0, <1>11, ModProduct
  <2>4. ((q * w) * g) % p = (1 * g) % p
    <3> DEFINE x == q * w
    <3>0. x \in Nat
      BY <2>1
    <3> HIDE DEF x
    <3>1. ((x % p) * g) % p = (x * g) % p
      BY ONLY <1>0, <1>1, <3>0, ModProduct, ZenonT(40)
    <3> QED
      BY <2>3, <3>1 DEF x
  <2>5. 1 * g = g
    BY <1>1
  <2> QED
    BY <2>1, <2>2, <2>4, <2>5
<1> DEFINE y == v * q
<1>6. y \in Nat
  BY <1>0, <1>4
<1> HIDE DEF y
<1>7. (b + y) % p = a
  <2>0. y \in Nat /\ g \in Nat /\ b \in Nat /\ p \in Nat /\ p > 0
    BY <1>0, <1>1, <1>6
  <2>1. ((y % p) + b) % p = (y + b) % p
    BY ONLY <2>0, ModSum
  <2>5. ((g % p) + b) % p = (g + b) % p
    BY ONLY <2>0, ModSum
  <2>2. y + b = b + y /\ g + b = b + g
    BY <1>0, <1>1, <1>6
  <2>3. (a + (i + b) * p) % p = a % p
    <3> DEFINE m == i + b
    <3>1. m \in Nat
      BY <1>0, <1>9
    <3> HIDE DEF m
    <3>2. (a + m * p) % p = a % p
      BY ONLY <1>0, <3>1, AddMultiple
    <3> QED
      BY <3>2 DEF m
  <2>4. a % p = a
    BY <1>0, SmallRemainder
  <2> QED
    BY <1>1, <1>5, <2>1, <2>2, <2>3, <2>4, <2>5 DEF y
<1>8. (b + v * q) % q = b
  <2>1. (b + v * q) % q = b % q
    BY ONLY <1>0, <1>4, AddMultiple
  <2>2. b % q = b
    BY <1>0, SmallRemainder
  <2> QED
    BY <2>1, <2>2
<1>10. b + v * q \in Nat /\ b + v * q < p * q
  <2>1. b < q
    BY <1>0
  <2> QED
    BY ONLY <1>0, <1>4, <2>1, ProductBelow
<1> QED
  BY <1>7, <1>8, <1>10 DEF y

-----------------------------------------------------------------------------
(* The group of the multiples of a point.  At is the place of a multiple in *)
(* the table.                                                               *)
At(a, N) == ((a - 1) % N) + 1

LEMMA AtIs ==
  ASSUME NEW a \in Nat, a > 0, NEW N \in Nat, N > 0
  PROVE  At(a, N) \in 1 .. N /\ \E m \in Nat : a = At(a, N) + m * N
<1> DEFINE b == a - 1
           d == b \div N
<1>1. b \in Nat
  OBVIOUS
<1>2. d \in Nat /\ b % N \in 0 .. N - 1 /\ b = d * N + (b % N)
  BY <1>1, Division
<1> HIDE DEF d
<1>3. a = ((b % N) + 1) + d * N
  BY <1>2
<1> QED
  BY <1>2, <1>3 DEF At

LEMMA AtUnique ==
  ASSUME NEW r \in Nat, NEW m \in Nat, NEW N \in Nat, N > 0, r > 0
  PROVE  At(r + m * N, N) = At(r, N)
<1> DEFINE s == r - 1
<1>1. s \in Nat /\ m \in Nat /\ N \in Nat /\ N > 0 /\ m * N \in Nat
  BY Sums
<1>2. (r + m * N) - 1 = s + m * N
  BY <1>1
<1> HIDE DEF s
<1>3. (s + m * N) % N = s % N
  BY ONLY <1>1, AddMultiple
<1> QED
  BY <1>2, <1>3 DEF At, s

LEMMA AtSmall ==
  ASSUME NEW N \in Nat, NEW r \in 1 .. N PROVE At(r, N) = r
<1> DEFINE s == r - 1
<1>1. s \in 0 .. N - 1 /\ N \in Nat /\ N > 0
  OBVIOUS
<1>2. (r - 1) % N = s
  <2> HIDE DEF s
  <2>1. 0 \in Nat /\ 0 * N + s = s
    BY <1>1
  <2>2. (0 * N + s) % N = s
    BY <1>1, <2>1, DivMod
  <2> QED
    BY <2>1, <2>2 DEF s
<1> QED
  BY <1>2 DEF At

(* Two places are one when a sum differs by whole turns only.               *)
LEMMA AtSum ==
  ASSUME NEW a \in Nat, a > 0, NEW j \in Nat, NEW N \in Nat, N > 0
  PROVE  At(At(a, N) + j, N) = At(a + j, N)
<1> DEFINE r == At(a, N)
<1>1. r \in 1 .. N /\ \E m \in Nat : a = r + m * N
  BY AtIs
<1> HIDE DEF r
<1>2. PICK m \in Nat : a = r + m * N
  BY <1>1
<1>3. r + j \in Nat /\ r + j > 0 /\ m * N \in Nat
  BY <1>1, Sums
<1>4. At((r + j) + m * N, N) = At(r + j, N)
  BY <1>3, AtUnique
<1>5. a + j = (r + j) + m * N
  BY <1>1, <1>2, <1>3
<1> QED
  BY <1>4, <1>5 DEF r

LEMMA AtMultiple ==
  ASSUME NEW a \in Nat, a > 0, NEW N \in Nat, N > 0
  PROVE  At(a, N) = N <=> a % N = 0
<1> DEFINE r == At(a, N)
<1>1. r \in 1 .. N /\ \E m \in Nat : a = r + m * N
  BY AtIs
<1> HIDE DEF r
<1>2. PICK m \in Nat : a = r + m * N
  BY <1>1
<1>3. a % N = r % N
  BY <1>1, <1>2, AddMultiple
<1>4. r % N = 0 <=> r = N
  BY <1>1
<1> QED
  BY <1>3, <1>4 DEF r

-----------------------------------------------------------------------------
(* What MultiplesOf lists for an element of the group: its multiples, as    *)
(* they are found in the table, up to the one that is neutral.              *)
LEMMA MultiplesAre ==
  ASSUME NEW c, NEW T, NEW N, IsCyclic(c, T, N), NEW j \in 1 .. N
  PROVE  LET t == MultiplesOf(c, T[j])
         IN  /\ Len(t) \in 1 .. N /\ (Len(t) * j) % N = 0
             /\ \A i \in 1 .. Len(t) : t[i] = T[At(i * j, N)]
<1> DEFINE M == 2 * c.p + 1
           S == T[j]
           Step(P, n) == IF n = 1 THEN S ELSE Sum(c, P[n - 1], S)
           It == CHOOSE P : P = [n \in 1 .. M |-> Step(P, n)]
           W == [n \in 1 .. M |-> T[At(n * j, N)]]
<1>1. N \in Nat /\ N > 1 /\ M \in Nat /\ N <= M /\ j \in Nat /\ j > 0
  BY DEF IsCyclic
<1>2. \A i, k \in 1 .. N : Sum(c, T[i], T[k]) = T[At(i + k, N)]
  BY DEF IsCyclic, At
<1>3. T[N] = Neutral(c) /\ \A i \in 1 .. N - 1 : T[i] # Neutral(c)
  BY DEF IsCyclic
<1> HIDE DEF M
<1>4. \A n \in 1 .. M : n * j \in Nat /\ n * j > 0 /\ n \in Nat
  <2> TAKE n \in 1 .. M
  <2>1. n \in Nat /\ n >= 1 /\ n * j \in Nat
    BY <1>1, Sums
  <2>2. 1 * j <= n * j
    BY <1>1, <2>1, Order
  <2> QED
    BY <1>1, <2>1, <2>2
<1>5. \A n \in 1 .. M : At(n * j, N) \in 1 .. N
  <2> TAKE n \in 1 .. M
  <2> DEFINE a == n * j
  <2>1. a \in Nat /\ a > 0
    BY <1>4
  <2> HIDE DEF a
  <2>2. N \in Nat /\ N > 0
    BY <1>1
  <2>3. At(a, N) \in 1 .. N
    BY ONLY <2>1, <2>2, AtIs
  <2> QED
    BY <2>3 DEF a
<1>6. \A n \in 2 .. M : Sum(c, T[At((n - 1) * j, N)], S) = T[At(n * j, N)]
  <2> TAKE n \in 2 .. M
  <2> DEFINE a == (n - 1) * j
  <2>1. n - 1 \in 1 .. M /\ n - 1 \in Nat /\ n \in Nat
    BY <1>1
  <2>2. a \in Nat /\ a > 0 /\ At(a, N) \in 1 .. N
    BY <1>4, <1>5, <2>1
  <2>3. n * j = a + 1 * j
    <3>1. (n - 1) + 1 = n
      BY <2>1
    <3>2. ((n - 1) + 1) * j = (n - 1) * j + 1 * j
      BY <1>1, <2>1, 1 \in Nat, Sums
    <3> QED
      BY <3>1, <3>2
  <2> HIDE DEF a
  <2>4. Sum(c, T[At(a, N)], T[j]) = T[At(At(a, N) + j, N)]
    BY <1>2, <2>2
  <2>5. At(At(a, N) + j, N) = At(a + j, N)
    BY <1>1, <2>2, AtSum
  <2> QED
    BY <1>1, <2>3, <2>4, <2>5 DEF a
<1>7. At(1 * j, N) = j
  BY <1>1, AtSmall
<1>8. W = [n \in 1 .. M |-> Step(W, n)]
  <2>1. ASSUME NEW n \in 1 .. M PROVE W[n] = Step(W, n)
    <3>1. CASE n = 1
      BY <1>7, <3>1
    <3>2. CASE n # 1
      <4>1. n \in 2 .. M /\ n - 1 \in 1 .. M
        BY <1>1, <3>2
      <4>2. W[n] = T[At(n * j, N)] /\ W[n - 1] = T[At((n - 1) * j, N)]
        BY <4>1
      <4> HIDE DEF W
      <4> QED
        BY <1>6, <3>2, <4>1, <4>2
    <3> QED
      BY <3>1, <3>2
  <2> QED
    BY <2>1
<1>9. It = [n \in 1 .. M |-> Step(It, n)]
  <2> HIDE DEF W
  <2> QED
    BY <1>8
<1> HIDE DEF W, It
<1>10. \A n \in 1 .. M : It[n] = Step(It, n)
  BY <1>9
<1>11. \A n \in 1 .. M : It[n] = T[At(n * j, N)]
  <2> DEFINE A == {n \in Nat : n \in 1 .. M => It[n] = T[At(n * j, N)]}
  <2>1. 0 \in A
    OBVIOUS
  <2>2. ASSUME NEW n \in Nat, n \in A PROVE n + 1 \in A
    <3>1. CASE n = 0
      BY <1>1, <1>7, <1>10, <3>1
    <3>2. CASE n > 0 /\ n + 1 <= M
      <4>1. n \in 1 .. M /\ n + 1 \in 2 .. M /\ n + 1 \in 1 .. M /\ (n + 1) - 1 = n /\ n + 1 # 1
        BY <1>1, <3>2
      <4>2. It[n] = T[At(n * j, N)]
        BY <2>2, <4>1
      <4>3. It[n + 1] = Sum(c, It[n], S)
        BY <1>10, <4>1
      <4>4. Sum(c, T[At(n * j, N)], S) = T[At((n + 1) * j, N)]
        BY <1>6, <4>1
      <4> QED
        BY <4>2, <4>3, <4>4
    <3> QED
      BY <1>1, <3>1, <3>2
  <2> HIDE DEF A
  <2>3. \A n \in Nat : n \in A
    BY <2>1, <2>2, Induction
  <2> QED
    BY <1>4, <2>3 DEF A
<1>12. \A n \in 1 .. M : It[n] = Neutral(c) <=> (n * j) % N = 0
  <2> TAKE n \in 1 .. M
  <2>1. At(n * j, N) = N <=> (n * j) % N = 0
    BY <1>1, <1>4, AtMultiple
  <2>2. At(n * j, N) \in 1 .. N
    BY <1>5
  <2> QED
    BY <1>1, <1>3, <1>11, <2>1, <2>2
<1> DEFINE Last(n) == It[n] = Neutral(c) /\ \A m \in 1 .. n - 1 : It[m] # Neutral(c)
           order == CHOOSE n \in 1 .. M : Last(n)
           D == {n \in Nat : n \in 1 .. M /\ It[n] = Neutral(c)}
<1>13. N \in D
  <2>1. (j * N) % N = 0 /\ N * j = j * N
    BY <1>1, Multiple
  <2> QED
    BY <1>1, <1>12, <2>1
<1>14. order \in 1 .. M /\ Last(order) /\ order <= N
  <2>1. PICK s \in D : \A t \in D : s <= t
    BY <1>13, LeastNatural
  <2>2. s \in 1 .. M /\ Last(s)
    BY <1>1, <2>1
  <2>3. order \in 1 .. M /\ Last(order)
    BY <2>2
  <2> HIDE DEF order
  <2>4. ~(N \in 1 .. order - 1)
    BY <1>13, <2>3
  <2> QED
    BY <1>1, <2>3, <2>4
<1>15. MultiplesOf(c, S) = SubSeq(It, 1, order)
  BY DEF MultiplesOf, It, M, order, Last, Step
<1> HIDE DEF order, S
<1> DEFINE t == SubSeq(It, 1, order)
<1>16. Len(t) = order /\ \A i \in 1 .. order : t[i] = It[i]
  <2> DEFINE V == {It[n] : n \in 1 .. M}
  <2>1. order \in Int /\ 1 \in Int /\ 1 <= order /\ \A i \in 1 .. order : It[i] \in V
    BY <1>1, <1>14
  <2> HIDE DEF V
  <2>2. /\ Len(t) = IF 1 <= order THEN order - 1 + 1 ELSE 0
        /\ \A i \in 1 .. order - 1 + 1 : t[i] = It[1 + i - 1]
    BY <2>1, SubSeqProperties
  <2> QED
    BY <2>1, <2>2
<1> HIDE DEF t, Last
<1>17. order \in 1 .. N /\ \A i \in 1 .. order : i \in 1 .. M
  BY <1>1, <1>14
<1>18. (order * j) % N = 0
  BY <1>12, <1>14 DEF Last
<1> QED
  BY <1>11, <1>15, <1>16, <1>17, <1>18 DEF S, t

(* The inverse of 1, by which to_affine multiplies an affine point.         *)
LEMMA InverseOfOne ==
  ASSUME NEW c, c.p \in Nat, c.p > 2 PROVE InverseMod(c, 1) = 1
<1>1. \A w \in 1 .. c.p - 1 : (1 * w) % c.p = w
  OBVIOUS
<1>2. 1 \in 1 .. c.p - 1
  OBVIOUS
<1> QED
  BY <1>1, <1>2 DEF InverseMod

(* An affine point with coordinates of the field is its own affine form.    *)
LEMMA AffineIs ==
  ASSUME NEW c, c.p \in Nat, c.p > 2, NEW x \in 0 .. c.p - 1, NEW y \in 0 .. c.p - 1,
         [x |-> x, y |-> y] # Neutral(c)
  PROVE  /\ ~IsInfinityOn(c, Point(x, y, 1))
         /\ AffineOn(c, Point(x, y, 1)) = Point(x, y, 1)
<1>1. ~IsInfinityOn(c, Point(x, y, 1))
  BY DEF IsInfinityOn, Point, Neutral
<1>2. AffineOn(c, Point(x, y, 1)) = Reduced(c, x * 1, y * 1, 1)
  BY <1>1, InverseOfOne DEF AffineOn, Point
<1>3. (x * 1) % c.p = x /\ (y * 1) % c.p = y /\ 1 % c.p = 1
  OBVIOUS
<1> QED
  BY <1>1, <1>2, <1>3 DEF Reduced

-----------------------------------------------------------------------------
(* Numbers that differ by a multiple of m. *)
Same(m, s, t) == \E i \in Int : s = t + i * m

LEMMA SameSelf == ASSUME NEW m \in Nat, NEW s \in Int PROVE Same(m, s, s)
<1>1. 0 \in Int /\ s = s + 0 * m
  OBVIOUS
<1> QED
  BY <1>1 DEF Same

LEMMA SameBack == ASSUME NEW m \in Nat, NEW s \in Int, NEW t \in Int, Same(m, s, t) PROVE Same(m, t, s)
<1>1. PICK i \in Int : s = t + i * m
  BY DEF Same
<1>2. -i \in Int /\ t = s + (-i) * m
  BY <1>1
<1> QED
  BY <1>2 DEF Same

LEMMA SameTrans ==
  ASSUME NEW m \in Nat, NEW s \in Int, NEW t \in Int, NEW u \in Int, Same(m, s, t), Same(m, t, u)
  PROVE  Same(m, s, u)
<1>1. PICK i \in Int : s = t + i * m
  BY DEF Same
<1>2. PICK h \in Int : t = u + h * m
  BY DEF Same
<1>3. i + h \in Int /\ s = u + (i + h) * m
  BY <1>1, <1>2
<1> QED
  BY <1>3 DEF Same

LEMMA SameSum ==
  ASSUME NEW m \in Nat, NEW s \in Int, NEW t \in Int, NEW u \in Int, NEW v \in Int,
         Same(m, s, t), Same(m, u, v)
  PROVE  Same(m, s + u, t + v) /\ Same(m, s - u, t - v)
<1>1. PICK i \in Int : s = t + i * m
  BY DEF Same
<1>2. PICK h \in Int : u = v + h * m
  BY DEF Same
<1>3. /\ i + h \in Int /\ s + u = (t + v) + (i + h) * m
      /\ i - h \in Int /\ s - u = (t - v) + (i - h) * m
  BY <1>1, <1>2
<1> QED
  BY <1>3 DEF Same

LEMMA SameProduct ==
  ASSUME NEW m \in Nat, NEW s \in Int, NEW t \in Int, NEW u \in Int, NEW v \in Int,
         Same(m, s, t), Same(m, u, v)
  PROVE  Same(m, s * u, t * v)
<1>1. PICK i \in Int : s = t + i * m
  BY DEF Same
<1>2. PICK h \in Int : u = v + h * m
  BY DEF Same
<1> DEFINE e == t * h + i * v + i * h * m
<1>3. e \in Int /\ s * u = t * v + e * m
  BY <1>1, <1>2
<1> QED
  BY <1>3 DEF Same

(* Remainders stand for their numbers.                                      *)
LEMMA SameRemainder == ASSUME NEW m \in Nat, m > 0, NEW s \in Int
  PROVE  s % m \in 0 .. m - 1 /\ s % m \in Int /\ Same(m, s % m, s)
<1>1. s % m \in 0 .. m - 1 /\ s \div m \in Int /\ s = (s \div m) * m + (s % m)
  OBVIOUS
<1> DEFINE d == s \div m
           e == s % m
<1>2. -d \in Int /\ e = s + (-d) * m
  BY <1>1
<1> QED
  BY <1>1, <1>2 DEF Same

LEMMA SameMod == ASSUME NEW m \in Nat, m > 0, NEW s \in Int, NEW t \in Int
  PROVE  Same(m, s, t) <=> s % m = t % m
<1>1. ASSUME Same(m, s, t) PROVE s % m = t % m
  <2>1. PICK i \in Int : s = t + i * m
    BY <1>1 DEF Same
  <2> QED
    BY <2>1, IntRemainder
<1>2. ASSUME s % m = t % m PROVE Same(m, s, t)
  <2>1. s % m \in Int /\ Same(m, s % m, s) /\ Same(m, s % m, t)
    BY <1>2, SameRemainder
  <2>2. Same(m, s, s % m)
    BY <2>1, SameBack
  <2> QED
    BY <2>1, <2>2, SameTrans
<1> QED
  BY <1>1, <1>2

LEMMA SameZero == ASSUME NEW m \in Nat, m > 0, NEW s \in Int, NEW t \in Int
  PROVE  Same(m, s, t) <=> (s - t) % m = 0
<1>0. s - t \in Int /\ 0 \in Int /\ 0 % m = 0
  BY SmallRemainder
<1>1. Same(m, s, t) <=> Same(m, s - t, 0)
  <2>1. Same(m, t, t) /\ Same(m, t - t, 0)
    <3>1. t - t = 0
      OBVIOUS
    <3> QED
      BY <3>1, <1>0, SameSelf
  <2>2. ASSUME Same(m, s, t) PROVE Same(m, s - t, 0)
    <3>1. Same(m, s - t, t - t)
      BY <2>1, <2>2, SameSum
    <3>2. t - t = 0
      OBVIOUS
    <3> QED
      BY <3>1, <3>2
  <2>3. ASSUME Same(m, s - t, 0) PROVE Same(m, s, t)
    <3>1. Same(m, (s - t) + t, 0 + t)
      BY <1>0, <2>1, <2>3, SameSum
    <3>2. (s - t) + t = s /\ 0 + t = t
      OBVIOUS
    <3> QED
      BY <3>1, <3>2
  <2> QED
    BY <2>2, <2>3
<1>2. Same(m, s - t, 0) <=> (s - t) % m = 0 % m
  BY <1>0, SameMod
<1> QED
  BY <1>0, <1>1, <1>2

LEMMA SameDifference == ASSUME NEW m \in Nat, m > 0, NEW s \in Int, NEW t \in Int
  PROVE  Same(m, s, t) <=> Same(m, s - t, 0)
<1> DEFINE d == s - t
<1>1. d \in Int /\ 0 \in Int /\ 0 % m = 0
  BY SmallRemainder
<1>2. Same(m, s, t) <=> d % m = 0
  BY SameZero
<1> HIDE DEF d
<1>3. Same(m, d, 0) <=> d % m = 0
  BY <1>1, SameMod
<1> QED
  BY <1>2, <1>3 DEF d

(* Remainders are the same number, or do not stand for each other. *)
LEMMA SameSmall ==
  ASSUME NEW m \in Nat, NEW s \in 0 .. m - 1, NEW t \in 0 .. m - 1, Same(m, s, t)
  PROVE  s = t
<1>1. m > 0 /\ s \in Int /\ t \in Int /\ s % m = s /\ t % m = t
  BY SmallRemainder
<1>2. s % m = t % m
  BY <1>1, SameMod
<1> QED
  BY <1>1, <1>2

-----------------------------------------------------------------------------
(* The field of a prime: no product vanishes, and every number that does    *)
(* not vanish has an inverse.                                               *)
Prime(m) == m \in Nat /\ m > 1 /\ \A t \in 2 .. m - 1 : m % t # 0

LEMMA NoZeroDivisor ==
  ASSUME NEW m, Prime(m), NEW s \in Int, NEW t \in Int, Same(m, s * t, 0), ~Same(m, t, 0)
  PROVE  Same(m, s, 0)
<1>0. m \in Nat /\ m > 0 /\ m > 1 /\ 0 \in Int /\ 0 % m = 0
  BY SmallRemainder DEF Prime
<1> DEFINE u == s % m
           v == t % m
<1>1. u \in Nat /\ v \in Nat /\ u \in Int /\ v \in Int /\ Same(m, u, s) /\ Same(m, v, t)
  BY <1>0, SameRemainder
<1>2. v # 0
  BY <1>0, <1>1, SameBack
<1>3. v % m = v /\ u % m = u
  <2>1. u \in 0 .. m - 1 /\ v \in 0 .. m - 1
    BY <1>0, SameRemainder
  <2> HIDE DEF u, v
  <2> QED
    BY <1>0, <2>1, SmallRemainder
<1> HIDE DEF u, v
<1>4. (u * v) % m = 0
  <2>1. u * v \in Int /\ s * t \in Int
    BY <1>1
  <2>2. Same(m, u * v, s * t)
    BY <1>0, <1>1, SameProduct
  <2>3. Same(m, u * v, 0)
    <3> DEFINE x == u * v
               y == s * t
    <3>1. x \in Int /\ y \in Int /\ Same(m, x, y) /\ Same(m, y, 0)
      BY <2>1, <2>2
    <3> HIDE DEF x, y
    <3>2. Same(m, x, 0)
      BY <1>0, <3>1, SameTrans
    <3> QED
      BY <3>2 DEF x
  <2> DEFINE e == u * v
  <2> HIDE DEF e
  <2>4. e \in Int /\ Same(m, e, 0)
    BY <2>1, <2>3 DEF e
  <2>5. e % m = 0
    BY <1>0, <2>4, SameMod
  <2> QED
    BY <2>5 DEF e
<1>5. u % m = 0
  BY <1>0, <1>1, <1>2, <1>3, <1>4, PrimeFactor DEF Prime
<1>6. Same(m, s, u)
  BY <1>0, <1>1, SameBack
<1> QED
  BY <1>3, <1>5, <1>6

(* Euclid: the least positive remainder of a multiple of v divides m.       *)
LEMMA HasInverse ==
  ASSUME NEW m, Prime(m), NEW v \in 1 .. m - 1
  PROVE  \E w \in 1 .. m - 1 : (v * w) % m = 1
<1>0. m \in Nat /\ m > 0 /\ m > 1 /\ 0 \in Int /\ 1 \in Int /\ v \in Int
  BY DEF Prime
<1> DEFINE D == {t \in 1 .. m - 1 : \E w \in Int : Same(m, v * w, t)}
<1>1. PICK t \in D : \A e \in D : t <= e
  <2>1. v * 1 = v /\ Same(m, v, v)
    BY <1>0, SameSelf
  <2>2. v \in D
    BY <1>0, <2>1
  <2>3. D \in SUBSET Nat /\ D # {}
    BY <2>2
  <2> HIDE DEF D
  <2> QED
    BY <2>3, LeastNatural
<1>2. t \in 1 .. m - 1 /\ t \in Int
  OBVIOUS
<1>3. PICK w \in Int : Same(m, v * w, t)
  OBVIOUS
<1> DEFINE h == -(m \div t)
           e == m % t
<1>4. h \in Int /\ e \in 0 .. t - 1 /\ h * t = e + (-1) * m /\ e \in Int
  <2> DEFINE g == m \div t
  <2>1. g \in Int /\ e \in 0 .. t - 1 /\ m = g * t + e
    BY <1>0, <1>2
  <2>2. h = -g
    OBVIOUS
  <2> HIDE DEF g, h, e
  <2> QED
    BY <1>2, <2>1, <2>2
<1> HIDE DEF h
<1>5. Same(m, v * (h * w), e)
  <2>1. Same(m, h, h)
    BY <1>0, <1>4, SameSelf
  <2> DEFINE g == v * w
             x == h * g
             y == h * t
  <2>2. g \in Int /\ x \in Int /\ y \in Int /\ x = v * (h * w) /\ Same(m, g, t)
    BY <1>0, <1>2, <1>3, <1>4
  <2> HIDE DEF g
  <2>3. Same(m, x, y)
    BY <1>0, <1>2, <1>4, <2>1, <2>2, SameProduct
  <2>4. Same(m, y, e)
    BY <1>4, -1 \in Int DEF Same
  <2> HIDE DEF x, y, e
  <2>5. Same(m, x, e)
    BY <1>0, <1>4, <2>2, <2>3, <2>4, SameTrans
  <2> QED
    BY <2>2, <2>5
<1>6. e = 0
  <2>1. SUFFICES ASSUME e # 0 PROVE FALSE
    OBVIOUS
  <2> HIDE DEF e
  <2>2. e \in 1 .. m - 1 /\ e < t
    <3>1. e \in 0 .. t - 1
      BY <1>4
    <3> QED
      BY ONLY <1>0, <1>2, <2>1, <3>1
  <2>5. h * w \in Int
    BY <1>4
  <2>3. e \in D
    BY <1>5, <2>2, <2>5
  <2>4. t <= e
    BY <1>1, <2>3
  <2> QED
    BY <1>2, <1>4, <2>2, <2>4
<1>7. t = 1
  <2>2. m % t = 0
    BY <1>0, <1>2, <1>4, <1>6 DEF e
  <2> QED
    BY <1>2, <2>2 DEF Prime
<1> DEFINE z == w % m
<1>8. z \in 0 .. m - 1 /\ Same(m, z, w) /\ z \in Int
  BY <1>0, SameRemainder
<1> HIDE DEF z
<1>9. Same(m, v * z, 1)
  <2>1. Same(m, v, v) /\ v * z \in Int /\ v * w \in Int
    BY <1>0, <1>8, SameSelf
  <2>2. Same(m, v * z, v * w)
    BY <1>0, <1>8, <2>1, SameProduct
  <2>3. Same(m, v * w, 1)
    BY <1>3, <1>7
  <2> QED
    BY ONLY <1>0, <2>1, <2>2, <2>3, SameTrans
<1>10. (v * z) % m = 1
  <2>1. 1 % m = 1 /\ v * z \in Int
    BY <1>0, <1>8, SmallRemainder
  <2> DEFINE x == v * z
  <2> HIDE DEF x
  <2>2. x \in Int /\ Same(m, x, 1)
    BY <1>9, <2>1 DEF x
  <2>3. x % m = 1
    BY <1>0, <2>1, <2>2, SameMod
  <2> QED
    BY <2>3 DEF x
<1>11. z # 0
  <2>1. SUFFICES ASSUME z = 0 PROVE FALSE
    OBVIOUS
  <2>2. v * 0 = 0 /\ 0 % m = 0
    BY <1>0, SmallRemainder
  <2> QED
    BY <1>10, <2>1, <2>2
<1> QED
  BY <1>8, <1>10, <1>11

(* What mpz_invert returns for a number that does not vanish.               *)
LEMMA InverseIs ==
  ASSUME NEW c, Prime(c.p), NEW v \in Int, ~Same(c.p, v, 0)
  PROVE  /\ InverseMod(c, v % c.p) \in 1 .. c.p - 1
         /\ Same(c.p, v * InverseMod(c, v % c.p), 1)
<1>0. c.p \in Nat /\ c.p > 0 /\ c.p > 1 /\ 0 \in Int /\ 1 \in Int
  BY DEF Prime
<1> DEFINE m == c.p
           e == v % m
           w == InverseMod(c, e)
<1>1. e \in 0 .. m - 1 /\ e \in Int /\ Same(m, e, v) /\ Same(m, v, e)
  BY <1>0, SameRemainder, SameBack
<1>2. e # 0
  BY <1>1
<1> HIDE DEF e
<1>3. \E u \in 1 .. m - 1 : (e * u) % m = 1
  BY <1>1, <1>2, HasInverse
<1>4. w \in 1 .. m - 1 /\ (e * w) % m = 1
  BY <1>3 DEF InverseMod
<1> HIDE DEF w
<1>5. Same(m, e * w, 1)
  <2> DEFINE x == e * w
  <2>1. x \in Int /\ 1 % m = 1
    BY <1>0, <1>1, <1>4, SmallRemainder
  <2>2. x % m = 1
    BY <1>4
  <2> HIDE DEF x
  <2>3. Same(m, x, 1)
    BY <1>0, <2>1, <2>2, SameMod
  <2> QED
    BY <2>3 DEF x
<1>6. Same(m, v * w, e * w)
  <2>1. w \in Int /\ Same(m, w, w)
    BY <1>0, <1>4, SameSelf
  <2> QED
    BY <1>0, <1>1, <2>1, SameProduct
<1>7. Same(m, v * w, 1)
  <2>1. v * w \in Int /\ e * w \in Int
    BY <1>1, <1>4
  <2> QED
    BY ONLY <1>0, <1>5, <1>6, <2>1, SameTrans
<1> QED
  BY <1>4, <1>7 DEF w, e

-----------------------------------------------------------------------------
(* The complete formulas, on affine points: the products of the coordinates *)
(* and the combinations of them.                                            *)
Parts(x1, y1, x2, y2, a, b, t, u, v, w, xy, yz) ==
  /\ t = y1 * y2
  /\ u = a * (x1 + x2) + 3 * b
  /\ v = 3 * (x1 * x2) + a
  /\ w = 3 * b * (x1 + x2) + a * (x1 * x2 - a)
  /\ xy = x1 * y2 + x2 * y1
  /\ yz = y1 + y2

(* Two points joined by a line of slope l, or touched by it: a and b are    *)
(* then those of their curve, and the three coordinates are those of the    *)
(* third point, scaled.                                                     *)
Touched(x1, y1, x2, l, y2, a, b) ==
  /\ x1 \in Int /\ y1 \in Int /\ x2 \in Int /\ l \in Int
  /\ y2 = y1 + l * (x2 - x1)
  /\ a = 2 * y1 * l + l * l * (x2 - x1) - (x1 * x1 + x1 * x2 + x2 * x2)
  /\ b = y1 * y1 - x1 * x1 * x1 - a * x1

Third(x1, y1, x2, l, x3, y3, s, d) ==
  /\ x3 = l * l - x1 - x2 /\ y3 = l * (x1 - x3) - y1
  /\ s = 2 * y1 + l * (x2 - x1) /\ d = x2 - x1

LEMMA ChordIdentity ==
  ASSUME NEW x1, NEW y1, NEW x2, NEW l, NEW y2, NEW a, NEW b, Touched(x1, y1, x2, l, y2, a, b),
         NEW t, NEW u, NEW v, NEW w, NEW xy, NEW yz, Parts(x1, y1, x2, y2, a, b, t, u, v, w, xy, yz),
         NEW x3, NEW y3, NEW s, NEW d, Third(x1, y1, x2, l, x3, y3, s, d)
  PROVE  /\ xy * (t - u) - yz * w = x3 * (yz * (t + u) + xy * v)
         /\ (t - u) * (t + u) + v * w = y3 * (yz * (t + u) + xy * v)
         /\ yz * (t + u) + xy * v = s * (s * s - (2 * x1 + x2) * d * d) - y1 * d * d * d
  BY SMT DEF Parts, Touched, Third

(* TurnedOver points, the line that touches the first, and the third point on *)
(* it.                                                                      *)
TurnedOver(x1, y1, l, y2, a, b, x3, y3) ==
  /\ x1 \in Int /\ y1 \in Int /\ l \in Int
  /\ y2 = -y1 /\ a = 2 * y1 * l - 3 * x1 * x1 /\ b = y1 * y1 - x1 * x1 * x1 - a * x1
  /\ x3 = l * l - x1 - x1 /\ y3 = l * (x1 - x3) - y1

LEMMA OppositeIdentity ==
  ASSUME NEW x1, NEW y1, NEW l, NEW y2, NEW a, NEW b, NEW x3, NEW y3, TurnedOver(x1, y1, l, y2, a, b, x3, y3),
         NEW t, NEW u, NEW v, NEW w, NEW xy, NEW yz, Parts(x1, y1, x1, y2, a, b, t, u, v, w, xy, yz)
  PROVE  /\ xy * (t - u) - yz * w = 0
         /\ (t - u) * (t + u) + v * w = 8 * y1 * y1 * y1 * y3
         /\ yz * (t + u) + xy * v = 0
  BY SMT DEF Parts, TurnedOver

LEMMA SameCross ==
  ASSUME NEW m \in Nat, NEW z \in Int, NEW y \in Int,
         NEW A \in Int, NEW a \in Int, NEW B \in Int, NEW b \in Int,
         NEW C \in Int, NEW e \in Int, NEW D \in Int, NEW f \in Int,
         Same(m, A, a * z), Same(m, B, b * z), Same(m, C, e * y), Same(m, D, f * y)
  PROVE  Same(m, (A + B) * (C + D) - (A * C + B * D), (z * y) * (a * f + e * b))
<1>1. Same(m, A * D, (a * z) * (f * y)) /\ Same(m, B * C, (b * z) * (e * y))
  <2>1. a * z \in Int /\ f * y \in Int /\ b * z \in Int /\ e * y \in Int
    OBVIOUS
  <2> QED
    BY <2>1, SameProduct
<1> DEFINE g == (a * z) * (f * y)
           h == (b * z) * (e * y)
<1>2. g \in Int /\ h \in Int /\ A * D \in Int /\ B * C \in Int /\ g + h = (z * y) * (a * f + e * b)
      /\ A * D + B * C = (A + B) * (C + D) - (A * C + B * D)
  BY SMT
<1> HIDE DEF g, h
<1>3. Same(m, A * D + B * C, g + h)
  <2> DEFINE x == A * D
             k == B * C
  <2>1. x \in Int /\ k \in Int /\ Same(m, x, g) /\ Same(m, k, h)
    BY <1>1, <1>2 DEF g, h
  <2> HIDE DEF x, k
  <2>2. Same(m, x + k, g + h)
    BY <1>2, <2>1, SameSum
  <2> QED
    BY <2>2 DEF x, k
<1> QED
  BY <1>2, <1>3

(* a s + 3 b t, of numbers scaled by z.                                     *)
LEMMA SameLinear ==
  ASSUME NEW m \in Nat, NEW z \in Int, NEW a \in Int, NEW A \in Int, NEW b \in Int, NEW B \in Int,
         NEW s \in Int, NEW S \in Int, NEW t \in Int, NEW T \in Int,
         Same(m, A, a), Same(m, B, b), Same(m, S, z * s), Same(m, T, z * t)
  PROVE  Same(m, A * S + 3 * B * T, z * (a * s + 3 * b * t))
<1>1. z * s \in Int /\ z * t \in Int
  OBVIOUS
<1>2. Same(m, A * S, a * (z * s)) /\ Same(m, B * T, b * (z * t))
  BY <1>1, SameProduct
<1> DEFINE g == a * (z * s)
           h == b * (z * t)
           x == A * S
           y == B * T
<1>3. /\ g \in Int /\ h \in Int /\ x \in Int /\ y \in Int /\ x + 3 * y = A * S + 3 * B * T
      /\ g + 3 * h = z * (a * s + 3 * b * t)
  BY SMT
<1>4. Same(m, x, g) /\ Same(m, y, h) /\ Same(m, 3, 3)
  BY <1>2, SameSelf
<1> HIDE DEF g, h, x, y
<1>5. Same(m, 3 * y, 3 * h)
  BY <1>3, <1>4, SameProduct
<1>6. 3 * y \in Int /\ 3 * h \in Int
  BY <1>3
<1> DEFINE u == 3 * y
           v == 3 * h
<1>7. u \in Int /\ v \in Int /\ Same(m, u, v)
  BY <1>5, <1>6
<1> HIDE DEF u, v
<1>8. Same(m, x + u, g + v)
  BY <1>3, <1>4, <1>7, SameSum
<1> QED
  BY <1>3, <1>8 DEF u, v

-----------------------------------------------------------------------------
(* What combining does to parts that are scaled by z: the results are       *)
(* scaled by the square of z.                                               *)
LEMMA SameProducts ==
  ASSUME NEW m \in Nat, NEW z \in Int, NEW A \in Int, NEW a \in Int, NEW B \in Int, NEW b \in Int,
         Same(m, A, z * a), Same(m, B, z * b)
  PROVE  Same(m, A * B, (z * z) * (a * b))
<1>1. z * a \in Int /\ z * b \in Int /\ (z * a) * (z * b) = (z * z) * (a * b)
  BY SMT
<1>2. Same(m, A * B, (z * a) * (z * b))
  BY <1>1, SameProduct
<1> QED
  BY <1>1, <1>2

LEMMA SameScaled ==
  ASSUME NEW m \in Nat, NEW z \in Int, NEW A \in Int, NEW a \in Int, NEW B \in Int, NEW b \in Int,
         Same(m, A, z * a), Same(m, B, z * b)
  PROVE  Same(m, A + B, z * (a + b)) /\ Same(m, A - B, z * (a - b))
<1> DEFINE g == z * a
           h == z * b
<1>1. g \in Int /\ h \in Int /\ g + h = z * (a + b) /\ g - h = z * (a - b)
  BY SMT
<1>2. Same(m, A, g) /\ Same(m, B, h)
  OBVIOUS
<1> HIDE DEF g, h
<1>3. Same(m, A + B, g + h) /\ Same(m, A - B, g - h)
  BY <1>1, <1>2, SameSum
<1> QED
  BY <1>1, <1>3

(* The sum and the difference of two products of four scaled numbers.       *)
LEMMA SameTwoProducts ==
  ASSUME NEW m \in Nat, NEW z \in Int, NEW A \in Int, NEW a \in Int, NEW B \in Int, NEW b \in Int,
         NEW C \in Int, NEW e \in Int, NEW D \in Int, NEW f \in Int,
         Same(m, A, z * a), Same(m, B, z * b), Same(m, C, z * e), Same(m, D, z * f)
  PROVE  /\ Same(m, A * B + C * D, (z * z) * (a * b + e * f))
         /\ Same(m, A * B - C * D, (z * z) * (a * b - e * f))
<1> DEFINE y == z * z
           S == A * B
           s == a * b
           T == C * D
           t == e * f
<1>1. y \in Int /\ S \in Int /\ s \in Int /\ T \in Int /\ t \in Int
  BY SMT
<1>2. Same(m, S, y * s) /\ Same(m, T, y * t)
  BY SameProducts
<1> HIDE DEF y, S, s, T, t
<1>3. Same(m, S + T, y * (s + t)) /\ Same(m, S - T, y * (s - t))
  BY <1>1, <1>2, SameScaled
<1> QED
  BY <1>3 DEF y, S, s, T, t

Scales(m, z, t, u, v, w, xy, yz, T, U, V, W, XY, YZ) ==
  /\ m \in Nat /\ z \in Int
  /\ {t, u, v, w, xy, yz, T, U, V, W, XY, YZ} \subseteq Int
  /\ Same(m, T, z * t) /\ Same(m, U, z * u) /\ Same(m, V, z * v) /\ Same(m, W, z * w)
  /\ Same(m, XY, z * xy) /\ Same(m, YZ, z * yz)

LEMMA CombineScales ==
  ASSUME NEW m, NEW z, NEW t, NEW u, NEW v, NEW w, NEW xy, NEW yz,
         NEW T, NEW U, NEW V, NEW W, NEW XY, NEW YZ, Scales(m, z, t, u, v, w, xy, yz, T, U, V, W, XY, YZ)
  PROVE  /\ Same(m, XY * (T - U) - YZ * W, (z * z) * (xy * (t - u) - yz * w))
         /\ Same(m, (T - U) * (T + U) + V * W, (z * z) * ((t - u) * (t + u) + v * w))
         /\ Same(m, YZ * (T + U) + XY * V, (z * z) * (yz * (t + u) + xy * v))
<1>0. /\ m \in Nat /\ z \in Int
      /\ t \in Int /\ u \in Int /\ v \in Int /\ w \in Int /\ xy \in Int /\ yz \in Int
      /\ T \in Int /\ U \in Int /\ V \in Int /\ W \in Int /\ XY \in Int /\ YZ \in Int
      /\ Same(m, T, z * t) /\ Same(m, U, z * u) /\ Same(m, V, z * v) /\ Same(m, W, z * w)
      /\ Same(m, XY, z * xy) /\ Same(m, YZ, z * yz)
  BY DEF Scales
<1> DEFINE D == T - U
           d == t - u
           S == T + U
           s == t + u
<1>1. D \in Int /\ d \in Int /\ S \in Int /\ s \in Int
  BY <1>0
<1>2. Same(m, S, z * s) /\ Same(m, D, z * d)
  BY <1>0, SameScaled
<1> HIDE DEF D, d, S, s
<1>3. Same(m, XY * D - YZ * W, (z * z) * (xy * d - yz * w))
  BY <1>0, <1>1, <1>2, SameTwoProducts
<1>4. Same(m, D * S + V * W, (z * z) * (d * s + v * w))
  BY <1>0, <1>1, <1>2, SameTwoProducts
<1>5. Same(m, YZ * S + XY * V, (z * z) * (yz * s + xy * v))
  BY <1>0, <1>1, <1>2, SameTwoProducts
<1> QED
  BY <1>3, <1>4, <1>5 DEF D, d, S, s

-----------------------------------------------------------------------------
(* A projective point over an affine one.                                   *)
Over(m, R, x, y) ==
  /\ R.x \in Int /\ R.y \in Int /\ R.z \in Int /\ x \in Int /\ y \in Int
  /\ Same(m, R.x, x * R.z) /\ Same(m, R.y, y * R.z)

(* The numbers a sum is computed from, over two affine points, and those it *)
(* is computed with.                                                        *)
Covers(m, z, X1, Y1, Z1, X2, Y2, Z2, x1, y1, x2, y2, A, B, a, b) ==
  /\ m \in Nat /\ X1 \in Int /\ Y1 \in Int /\ Z1 \in Int /\ X2 \in Int /\ Y2 \in Int /\ Z2 \in Int
  /\ x1 \in Int /\ y1 \in Int /\ x2 \in Int /\ y2 \in Int
  /\ A \in Int /\ B \in Int /\ a \in Int /\ b \in Int /\ Same(m, A, a) /\ Same(m, B, b)
  /\ Same(m, X1, x1 * Z1) /\ Same(m, Y1, y1 * Z1) /\ Same(m, X2, x2 * Z2) /\ Same(m, Y2, y2 * Z2)
  /\ z \in Int /\ z = Z1 * Z2

Worked(z, X1, Y1, Z1, X2, Y2, Z2, A, B, t0, t1, XY, YZ, XZ, U, V, W) ==
  /\ t0 \in Int /\ t1 \in Int /\ XY \in Int /\ YZ \in Int /\ XZ \in Int
  /\ U \in Int /\ V \in Int /\ W \in Int
  /\ t0 = X1 * X2 /\ t1 = Y1 * Y2
  /\ XY = (X1 + Y1) * (X2 + Y2) - (X1 * X2 + Y1 * Y2)
  /\ YZ = (Y1 + Z1) * (Y2 + Z2) - (Y1 * Y2 + Z1 * Z2)
  /\ XZ = (X1 + Z1) * (X2 + Z2) - (X1 * X2 + Z1 * Z2)
  /\ U = A * XZ + 3 * B * z
  /\ V = 3 * t0 + A * z
  /\ W = 3 * B * XZ + A * (t0 - A * z)

LEMMA AddScales ==
  ASSUME NEW m, NEW X1, NEW Y1, NEW Z1, NEW X2, NEW Y2, NEW Z2, NEW x1, NEW y1, NEW x2, NEW y2,
         NEW z, NEW A, NEW B, NEW a, NEW b, Covers(m, z, X1, Y1, Z1, X2, Y2, Z2, x1, y1, x2, y2, A, B, a, b),
         NEW t, NEW u, NEW v, NEW w, NEW xy, NEW yz, Parts(x1, y1, x2, y2, a, b, t, u, v, w, xy, yz),
         NEW t0, NEW t1, NEW XY, NEW YZ, NEW XZ, NEW U, NEW V, NEW W,
         Worked(z, X1, Y1, Z1, X2, Y2, Z2, A, B, t0, t1, XY, YZ, XZ, U, V, W)
  PROVE  /\ Same(m, XY * (t1 - U) - YZ * W, (z * z) * (xy * (t - u) - yz * w))
         /\ Same(m, (t1 - U) * (t1 + U) + V * W, (z * z) * ((t - u) * (t + u) + v * w))
         /\ Same(m, YZ * (t1 + U) + XY * V, (z * z) * (yz * (t + u) + xy * v))
<1> SUFFICES ASSUME m \in Nat, X1 \in Int, Y1 \in Int, Z1 \in Int, X2 \in Int, Y2 \in Int, Z2 \in Int,
         x1 \in Int, y1 \in Int, x2 \in Int, y2 \in Int, A \in Int, B \in Int, a \in Int, b \in Int,
         Same(m, A, a), Same(m, B, b),
         Same(m, X1, x1 * Z1), Same(m, Y1, y1 * Z1), Same(m, X2, x2 * Z2), Same(m, Y2, y2 * Z2),
         z \in Int, z = Z1 * Z2, t0 \in Int, t0 = X1 * X2, t1 \in Int, t1 = Y1 * Y2,
         XY \in Int, XY = (X1 + Y1) * (X2 + Y2) - (X1 * X2 + Y1 * Y2),
         YZ \in Int, YZ = (Y1 + Z1) * (Y2 + Z2) - (Y1 * Y2 + Z1 * Z2),
         XZ \in Int, XZ = (X1 + Z1) * (X2 + Z2) - (X1 * X2 + Z1 * Z2),
         U \in Int, U = A * XZ + 3 * B * z, V \in Int, V = 3 * t0 + A * z,
         W \in Int, W = 3 * B * XZ + A * (t0 - A * z)
         PROVE /\ Same(m, XY * (t1 - U) - YZ * W, (z * z) * (xy * (t - u) - yz * w))
               /\ Same(m, (t1 - U) * (t1 + U) + V * W, (z * z) * ((t - u) * (t + u) + v * w))
               /\ Same(m, YZ * (t1 + U) + XY * V, (z * z) * (yz * (t + u) + xy * v))
  BY DEF Covers, Worked
<1>1. 1 \in Int /\ 3 \in Int /\ Same(m, Z1, 1 * Z1) /\ Same(m, Z2, 1 * Z2) /\ z \in Int
  BY SameSelf
<1>2. Same(m, XY, z * (x1 * y2 + x2 * y1))
  <2>1. Same(m, (X1 + Y1) * (X2 + Y2) - (X1 * X2 + Y1 * Y2), (Z1 * Z2) * (x1 * y2 + x2 * y1))
    BY SameCross
  <2>2. XY = (X1 + Y1) * (X2 + Y2) - (X1 * X2 + Y1 * Y2) /\ z = Z1 * Z2
    OBVIOUS
  <2> QED
    BY ONLY <2>1, <2>2, Zenon
<1>3. Same(m, YZ, z * (y1 + y2))
  <2>1. Same(m, (Y1 + Z1) * (Y2 + Z2) - (Y1 * Y2 + Z1 * Z2), (Z1 * Z2) * (y1 * 1 + y2 * 1))
    BY <1>1, SameCross
  <2>2. /\ YZ = (Y1 + Z1) * (Y2 + Z2) - (Y1 * Y2 + Z1 * Z2) /\ z = Z1 * Z2
        /\ y1 * 1 + y2 * 1 = y1 + y2
    OBVIOUS
  <2> QED
    BY ONLY <2>1, <2>2, Zenon
<1>4. Same(m, XZ, z * (x1 + x2))
  <2>1. Same(m, (X1 + Z1) * (X2 + Z2) - (X1 * X2 + Z1 * Z2), (Z1 * Z2) * (x1 * 1 + x2 * 1))
    BY <1>1, SameCross
  <2>2. /\ XZ = (X1 + Z1) * (X2 + Z2) - (X1 * X2 + Z1 * Z2) /\ z = Z1 * Z2
        /\ x1 * 1 + x2 * 1 = x1 + x2
    OBVIOUS
  <2> QED
    BY ONLY <2>1, <2>2, Zenon
<1>5. Same(m, t0, z * (x1 * x2)) /\ Same(m, t1, z * (y1 * y2))
  <2>1. /\ x1 * Z1 \in Int /\ x2 * Z2 \in Int /\ (x1 * Z1) * (x2 * Z2) = z * (x1 * x2)
        /\ y1 * Z1 \in Int /\ y2 * Z2 \in Int /\ (y1 * Z1) * (y2 * Z2) = z * (y1 * y2)
    BY SMT
  <2>2. Same(m, X1 * X2, (x1 * Z1) * (x2 * Z2)) /\ Same(m, Y1 * Y2, (y1 * Z1) * (y2 * Z2))
    BY <2>1, SameProduct
  <2> QED
    BY <2>1, <2>2
<1> DEFINE xx == x1 * x2
           xz == x1 + x2
<1>6. /\ xx \in Int /\ xz \in Int /\ t \in Int /\ xy \in Int /\ yz \in Int /\ u \in Int /\ v \in Int /\ w \in Int
      /\ t0 \in Int /\ t1 \in Int /\ XY \in Int /\ YZ \in Int /\ XZ \in Int /\ U \in Int /\ V \in Int /\ W \in Int
  <2>1. /\ xx \in Int /\ xz \in Int /\ t \in Int /\ xy \in Int /\ yz \in Int
        /\ t0 \in Int /\ t1 \in Int /\ XY \in Int /\ YZ \in Int /\ XZ \in Int
    BY SMT DEF Parts
  <2>2. u = a * xz + 3 * b /\ v = 3 * xx + a /\ w = 3 * b * xz + a * (xx - a)
    BY DEF Parts
  <2> HIDE DEF xx, xz
  <2> QED
    BY <1>1, <2>1, <2>2, SMT
<1>7. /\ Same(m, t1, z * t) /\ Same(m, XY, z * xy) /\ Same(m, YZ, z * yz)
      /\ Same(m, t0, z * xx) /\ Same(m, XZ, z * xz) /\ Same(m, z, z * 1) /\ Same(m, 3, 3)
      /\ u = a * xz + 3 * b * 1 /\ v = 3 * xx + a * 1 /\ w = 3 * b * xz + a * (xx - a)
  <2>1. z * 1 = z /\ Same(m, z, z) /\ 3 * b * 1 = 3 * b /\ a * 1 = a
    BY <1>1, SameSelf
  <2> QED
    BY <1>1, <1>2, <1>3, <1>4, <1>5, <2>1, SameSelf DEF Parts
<1> HIDE DEF xx, xz
<1>8. Same(m, U, z * u)
  <2>1. Same(m, A * XZ + 3 * B * z, z * (a * xz + 3 * b * 1))
    BY <1>1, <1>6, <1>7, SameLinear
  <2> QED
    BY <1>7, <2>1
<1>9. Same(m, V, z * v)
  <2>1. Same(m, 3 * t0, 3 * (z * xx)) /\ Same(m, A * z, a * z)
    <3>1. z * xx \in Int /\ Same(m, z, z)
      BY <1>1, <1>6, SameSelf
    <3> QED
      BY <1>1, <1>6, <1>7, <3>1, SameProduct
  <2>2. /\ 3 * t0 \in Int /\ A * z \in Int /\ 3 * xx \in Int /\ 3 * (z * xx) = z * (3 * xx) /\ a * z = z * a
        /\ z * (3 * xx + a) = z * v
    BY <1>1, <1>6, <1>7, SMT
  <2> DEFINE S == 3 * t0
             s == 3 * xx
             T == A * z
  <2>3. S \in Int /\ s \in Int /\ T \in Int /\ Same(m, S, z * s) /\ Same(m, T, z * a) /\ V = S + T
    BY <2>1, <2>2
  <2> HIDE DEF S, T, s
  <2>4. Same(m, S + T, z * (s + a))
    BY <1>1, <2>3, SameScaled
  <2> QED
    BY <2>2, <2>3, <2>4 DEF s
<1>10. Same(m, W, z * w)
  <2>0. Same(m, z, z)
    BY <1>1, SameSelf
  <2>1. Same(m, A * z, a * z) /\ A * z \in Int /\ a * z = z * a
    BY <1>1, <2>0, SameProduct
  <2> DEFINE T == A * z
  <2>2. T \in Int /\ Same(m, T, z * a)
    BY <2>1
  <2> HIDE DEF T
  <2>3. Same(m, t0 - T, z * (xx - a))
    BY <1>1, <1>6, <1>7, <2>2, SameScaled
  <2> DEFINE S == t0 - T
             s == xx - a
             C == 3 * B
             e == 3 * b
  <2>4. S \in Int /\ s \in Int /\ Same(m, S, z * s) /\ C \in Int /\ e \in Int
    BY <1>6, <2>2, <2>3
  <2>5. Same(m, C, e)
    BY <1>7, SameProduct
  <2> HIDE DEF S, s, C, e
  <2>6. Same(m, C * XZ, e * (z * xz)) /\ Same(m, A * S, a * (z * s))
    <3>1. z * xz \in Int /\ z * s \in Int
      BY <1>1, <1>6, <2>4
    <3> QED
      BY <1>6, <1>7, <2>4, <2>5, <3>1, SameProduct
  <2> DEFINE F == C * XZ
             f == e * xz
             G == A * S
             g == a * s
  <2>7. F \in Int /\ f \in Int /\ G \in Int /\ g \in Int /\ e * (z * xz) = z * f /\ a * (z * s) = z * g
    BY <1>1, <1>6, <2>4, SMT
  <2>8. Same(m, F, z * f) /\ Same(m, G, z * g)
    BY <2>6, <2>7
  <2> HIDE DEF F, f, G, g
  <2>9. Same(m, F + G, z * (f + g))
    BY <1>1, <2>7, <2>8, SameScaled
  <2>10. F + G = W /\ f + g = w
    BY <1>7 DEF F, G, f, g, S, s, C, e, T
  <2> QED
    BY <2>9, <2>10
<1>11. Scales(m, z, t, u, v, w, xy, yz, t1, U, V, W, XY, YZ)
  BY <1>1, <1>6, <1>7, <1>8, <1>9, <1>10 DEF Scales
<1> QED
  BY ONLY <1>11, CombineScales

-----------------------------------------------------------------------------
Coordinates(c) == [x : 0 .. c.p - 1, y : 0 .. c.p - 1, z : 0 .. c.p - 1]

(* The coordinates of a reduced point.                                      *)
LEMMA ReducedIs ==
  ASSUME NEW c, c.p \in Nat, c.p > 0, NEW X \in Int, NEW Y \in Int, NEW Z \in Int
  PROVE  LET R == Reduced(c, X, Y, Z)
         IN  /\ R \in Coordinates(c) /\ R.x \in Int /\ R.y \in Int /\ R.z \in Int
             /\ Same(c.p, R.x, X) /\ Same(c.p, R.y, Y) /\ Same(c.p, R.z, Z)
             /\ R.x = X % c.p /\ R.y = Y % c.p /\ R.z = Z % c.p
<1>1. /\ X % c.p \in 0 .. c.p - 1 /\ Same(c.p, X % c.p, X) /\ X % c.p \in Int
      /\ Y % c.p \in 0 .. c.p - 1 /\ Same(c.p, Y % c.p, Y) /\ Y % c.p \in Int
      /\ Z % c.p \in 0 .. c.p - 1 /\ Same(c.p, Z % c.p, Z) /\ Z % c.p \in Int
  BY SameRemainder
<1> DEFINE A == X % c.p
           B == Y % c.p
           C == Z % c.p
<1>2. Reduced(c, X, Y, Z) = [x |-> A, y |-> B, z |-> C]
  BY DEF Reduced, Point
<1> HIDE DEF A, B, C
<1>3. LET R == [x |-> A, y |-> B, z |-> C]
      IN  R.x = A /\ R.y = B /\ R.z = C
  OBVIOUS
<1> QED
  BY <1>1, <1>2, <1>3 DEF Coordinates, A, B, C

LEMMA GeneralScales ==
  ASSUME NEW c, c.p \in Nat, c.p > 0, c.a \in Int, c.b \in Int,
         NEW P, NEW Q, NEW x1, NEW y1, NEW x2, NEW y2, Over(c.p, P, x1, y1), Over(c.p, Q, x2, y2),
         NEW a \in Int, NEW b \in Int, Same(c.p, c.a, a), Same(c.p, c.b, b),
         NEW t, NEW u, NEW v, NEW w, NEW xy, NEW yz, Parts(x1, y1, x2, y2, a, b, t, u, v, w, xy, yz),
         NEW z, z = P.z * Q.z, NEW R, R = AddGeneral(c, P, Q)
  PROVE  /\ R \in Coordinates(c) /\ R.x \in Int /\ R.y \in Int /\ R.z \in Int /\ z \in Int
         /\ Same(c.p, R.x, (z * z) * (xy * (t - u) - yz * w))
         /\ Same(c.p, R.y, (z * z) * ((t - u) * (t + u) + v * w))
         /\ Same(c.p, R.z, (z * z) * (yz * (t + u) + xy * v))
<1> DEFINE m == c.p
           A == c.a
           B == c.b
           X1 == P.x
           Y1 == P.y
           Z1 == P.z
           X2 == Q.x
           Y2 == Q.y
           Z2 == Q.z
           t0 == X1 * X2
           t1 == Y1 * Y2
           XY == (X1 + Y1) * (X2 + Y2) - (t0 + t1)
           YZ == (Y1 + Z1) * (Y2 + Z2) - (t1 + z)
           XZ == (X1 + Z1) * (X2 + Z2) - (t0 + z)
           U == A * XZ + 3 * B * z
           V == 3 * t0 + A * z
           W == 3 * B * XZ + A * (t0 - A * z)
           X == XY * (t1 - U) - YZ * W
           Y == (t1 - U) * (t1 + U) + V * W
           Z == YZ * (t1 + U) + XY * V
<1>1. R = Reduced(c, X, Y, Z)
  BY DEF AddGeneral, Combine
<1>2. /\ m \in Nat /\ m > 0 /\ A \in Int /\ B \in Int /\ Same(m, A, a) /\ Same(m, B, b)
      /\ X1 \in Int /\ Y1 \in Int /\ Z1 \in Int /\ X2 \in Int /\ Y2 \in Int /\ Z2 \in Int
      /\ x1 \in Int /\ y1 \in Int /\ x2 \in Int /\ y2 \in Int /\ z = Z1 * Z2
      /\ Same(m, X1, x1 * Z1) /\ Same(m, Y1, y1 * Z1) /\ Same(m, X2, x2 * Z2) /\ Same(m, Y2, y2 * Z2)
  BY DEF Over
<1> HIDE DEF m, A, B, X1, Y1, Z1, X2, Y2, Z2
<1>3. z \in Int /\ t0 \in Int /\ t1 \in Int
  BY <1>2
<1>4. /\ XY \in Int /\ YZ \in Int /\ XZ \in Int /\ t0 = X1 * X2 /\ t1 = Y1 * Y2
      /\ XY = (X1 + Y1) * (X2 + Y2) - (X1 * X2 + Y1 * Y2)
      /\ YZ = (Y1 + Z1) * (Y2 + Z2) - (Y1 * Y2 + Z1 * Z2)
      /\ XZ = (X1 + Z1) * (X2 + Z2) - (X1 * X2 + Z1 * Z2)
  BY <1>2, <1>3
<1> HIDE DEF XY, YZ, XZ, t0, t1
<1>5. U \in Int /\ V \in Int /\ W \in Int
  BY <1>2, <1>3, <1>4
<1>6. U = A * XZ + 3 * B * z /\ V = 3 * t0 + A * z /\ W = 3 * B * XZ + A * (t0 - A * z)
  OBVIOUS
<1> HIDE DEF U, V, W
<1>7. X \in Int /\ Y \in Int /\ Z \in Int
  BY <1>3, <1>4, <1>5
<1>8. /\ Same(m, X, (z * z) * (xy * (t - u) - yz * w))
      /\ Same(m, Y, (z * z) * ((t - u) * (t + u) + v * w))
      /\ Same(m, Z, (z * z) * (yz * (t + u) + xy * v))
  <2>1. Covers(m, z, X1, Y1, Z1, X2, Y2, Z2, x1, y1, x2, y2, A, B, a, b)
    BY <1>2, <1>3 DEF Covers
  <2>2. Worked(z, X1, Y1, Z1, X2, Y2, Z2, A, B, t0, t1, XY, YZ, XZ, U, V, W)
    BY ONLY <1>3, <1>4, <1>5, <1>6 DEF Worked
  <2>3. Parts(x1, y1, x2, y2, a, b, t, u, v, w, xy, yz)
    OBVIOUS
  <2> QED
    BY ONLY <2>1, <2>2, <2>3, AddScales
<1>9. R \in Coordinates(c) /\ R.x \in Int /\ R.y \in Int /\ R.z \in Int
      /\ Same(m, R.x, X) /\ Same(m, R.y, Y) /\ Same(m, R.z, Z)
  <2> HIDE DEF X, Y, Z
  <2> QED
    BY <1>1, <1>7, ReducedIs DEF m
<1>10. /\ (z * z) * (xy * (t - u) - yz * w) \in Int
       /\ (z * z) * ((t - u) * (t + u) + v * w) \in Int
       /\ (z * z) * (yz * (t + u) + xy * v) \in Int
  <2>1. t \in Int /\ u \in Int /\ v \in Int /\ w \in Int /\ xy \in Int /\ yz \in Int
    BY <1>2 DEF Parts
  <2> QED
    BY <1>3, <2>1
<1> DEFINE F == (z * z) * (xy * (t - u) - yz * w)
           G == (z * z) * ((t - u) * (t + u) + v * w)
           H == (z * z) * (yz * (t + u) + xy * v)
<1>11. /\ F \in Int /\ G \in Int /\ H \in Int
       /\ Same(m, X, F) /\ Same(m, Y, G) /\ Same(m, Z, H)
  BY <1>8, <1>10
<1> HIDE DEF F, G, H, X, Y, Z
<1>12. Same(m, R.x, F) /\ Same(m, R.y, G) /\ Same(m, R.z, H)
  BY <1>2, <1>7, <1>9, <1>11, SameTrans
<1> QED
  BY <1>3, <1>9, <1>12 DEF F, G, H, m

(* With a = -3 the shorter formulas compute the same.                       *)
LEMMA Minus3Is ==
  ASSUME NEW c, c.a = -3, c.b \in Int, NEW P, NEW Q,
         P.x \in Int, P.y \in Int, P.z \in Int, Q.x \in Int, Q.y \in Int, Q.z \in Int
  PROVE  AddMinus3(c, P, Q) = AddGeneral(c, P, Q)
<1> DEFINE B == c.b
           t0 == P.x * Q.x
           t1 == P.y * Q.y
           t2 == P.z * Q.z
           XY == (P.x + P.y) * (Q.x + Q.y) - (t0 + t1)
           YZ == (P.y + P.z) * (Q.y + Q.z) - (t1 + t2)
           XZ == (P.x + P.z) * (Q.x + Q.z) - (t0 + t2)
<1>1. t0 \in Int /\ t2 \in Int /\ XZ \in Int /\ B \in Int
  OBVIOUS
<1>2. /\ AddMinus3(c, P, Q) =
           Combine(c, t1, -3 * (XZ - B * t2), 3 * (t0 - t2), 3 * (B * XZ - 3 * t2 - t0), XY, YZ)
      /\ AddGeneral(c, P, Q) =
           Combine(c, t1, (-3) * XZ + 3 * B * t2, 3 * t0 + (-3) * t2, 3 * B * XZ + (-3) * (t0 - (-3) * t2), XY, YZ)
  BY DEF AddMinus3, AddGeneral
<1> HIDE DEF t0, t1, t2, XY, YZ, XZ, B
<1>3. /\ -3 * (XZ - B * t2) = (-3) * XZ + 3 * B * t2 /\ 3 * (t0 - t2) = 3 * t0 + (-3) * t2
      /\ 3 * (B * XZ - 3 * t2 - t0) = 3 * B * XZ + (-3) * (t0 - (-3) * t2)
  BY <1>1, SMT
<1> QED
  BY <1>2, <1>3

-----------------------------------------------------------------------------
LEMMA SlopeIs ==
  ASSUME NEW c, Prime(c.p), NEW n \in Int, NEW v \in Int, ~Same(c.p, v, 0)
  PROVE  LET l == n * InverseMod(c, v % c.p) IN l \in Int /\ Same(c.p, l * v, n)
<1> DEFINE m == c.p
           w == InverseMod(c, v % m)
<1>1. w \in 1 .. m - 1 /\ Same(m, v * w, 1) /\ m \in Nat
  BY InverseIs DEF Prime
<1> HIDE DEF w
<1>2. w \in Int /\ v * w \in Int /\ n * w \in Int
  BY <1>1
<1> DEFINE g == v * w
<1>3. g \in Int /\ Same(m, g, 1) /\ Same(m, n, n)
  BY <1>1, <1>2, SameSelf
<1> HIDE DEF g
<1>4. Same(m, n * g, n * 1)
  BY <1>1, <1>3, SameProduct
<1>5. n * g = (n * w) * v /\ n * 1 = n
  BY <1>2 DEF g
<1> QED
  BY <1>2, <1>4, <1>5 DEF w, m

(* An affine point of the curve y^2 = x^3 + a x + b.                        *)
OnWeierstrass(c, S) ==
  /\ S = [x |-> S.x, y |-> S.y]
  /\ S.x \in 0 .. c.p - 1 /\ S.y \in 0 .. c.p - 1
  /\ Same(c.p, S.y * S.y, S.x * S.x * S.x + c.a * S.x + c.b)

(* The line through two points of a curve, or the one that touches it.      *)
Joins(c, l, S, T) ==
  /\ l \in Int
  /\ Same(c.p, l * (T.x - S.x), T.y - S.y)
  /\ Same(c.p, 2 * S.y * l + l * l * (T.x - S.x) - (S.x * S.x + S.x * T.x + T.x * T.x), c.a)

(* Two different points.                                                    *)
LEMMA ChordJoins ==
  ASSUME NEW m, Prime(m), NEW a \in Int, NEW b \in Int, NEW x1 \in Int, NEW y1 \in Int, NEW x2 \in Int, NEW y2 \in Int,
         Same(m, y1 * y1, x1 * x1 * x1 + a * x1 + b), Same(m, y2 * y2, x2 * x2 * x2 + a * x2 + b),
         ~Same(m, x2 - x1, 0), NEW l \in Int, Same(m, l * (x2 - x1), y2 - y1)
  PROVE  Same(m, 2 * y1 * l + l * l * (x2 - x1) - (x1 * x1 + x1 * x2 + x2 * x2), a)
<1>0. m \in Nat /\ m > 0
  BY DEF Prime
<1>1. PICK i \in Int : y1 * y1 = (x1 * x1 * x1 + a * x1 + b) + i * m
  BY DEF Same
<1>2. PICK h \in Int : y2 * y2 = (x2 * x2 * x2 + a * x2 + b) + h * m
  BY DEF Same
<1>3. PICK g \in Int : l * (x2 - x1) = (y2 - y1) + g * m
  BY DEF Same
<1> DEFINE d == x2 - x1
           e == 2 * y1 * l + l * l * d - (x1 * x1 + x1 * x2 + x2 * x2) - a
           f == h - i + 2 * y2 * g + g * g * m
           k == l * d
<1>4. d \in Int /\ k \in Int /\ e \in Int /\ f \in Int
  BY <1>0, SMT
<1>5. e * d = 2 * y1 * k + k * k - (x2 * x2 * x2 - x1 * x1 * x1) - a * (x2 - x1)
  BY SMT
<1>6. k = (y2 - y1) + g * m
  BY <1>3
<1>7. x2 * x2 * x2 = y2 * y2 - a * x2 - b - h * m /\ x1 * x1 * x1 = y1 * y1 - a * x1 - b - i * m
  BY <1>0, <1>1, <1>2, SMT
<1> HIDE DEF e, k
<1>8. e * d = 0 + f * m
  <2> DEFINE X == x2 * x2 * x2
             Y == x1 * x1 * x1
  <2>1. X \in Int /\ Y \in Int /\ e * d = 2 * y1 * k + k * k - (X - Y) - a * (x2 - x1)
    BY <1>5, SMT
  <2>2. X = y2 * y2 - a * x2 - b - h * m /\ Y = y1 * y1 - a * x1 - b - i * m
    BY <1>7
  <2> HIDE DEF X, Y
  <2>3. 2 * y1 * k + k * k - (X - Y) - a * (x2 - x1) = f * m
    BY <1>0, <1>6, <2>2, SMT
  <2> QED
    BY <1>0, <1>4, <2>1, <2>3
<1>9. Same(m, e * d, 0)
  BY <1>4, <1>8 DEF Same
<1>10. Same(m, e, 0)
  BY <1>4, <1>9, NoZeroDivisor
<1> DEFINE n == 2 * y1 * l + l * l * (x2 - x1) - (x1 * x1 + x1 * x2 + x2 * x2)
<1>11. n \in Int /\ e = n - a
  BY <1>4 DEF e
<1> HIDE DEF n, e
<1>12. Same(m, n - a, 0)
  BY <1>10, <1>11
<1>13. Same(m, n, a)
  BY <1>0, <1>11, <1>12, SameDifference
<1> QED
  BY <1>13 DEF n

(* What the textbook's line gives.                                          *)
LEMMA ChordIs ==
  ASSUME NEW c, Prime(c.p), c.a \in Int, c.b \in Int, NEW S, NEW T, OnWeierstrass(c, S), OnWeierstrass(c, T),
         IF S = T THEN ~Same(c.p, 2 * S.y, 0) ELSE S.x # T.x
  PROVE  \E l \in Int : /\ Joins(c, l, S, T)
                        /\ LET U == Chord(c, 0, c.a, S, T) IN
                             /\ U = [x |-> U.x, y |-> U.y] /\ U.x \in 0 .. c.p - 1 /\ U.y \in 0 .. c.p - 1
                             /\ Same(c.p, U.x, l * l - S.x - T.x)
                             /\ Same(c.p, U.y, l * (S.x - (l * l - S.x - T.x)) - S.y)
<1> DEFINE m == c.p
           a == c.a
           x1 == S.x
           y1 == S.y
           x2 == T.x
           y2 == T.y
<1>0. /\ m \in Nat /\ m > 0 /\ a \in Int /\ c.b \in Int /\ 0 \in Int
      /\ x1 \in 0 .. m - 1 /\ x2 \in 0 .. m - 1 /\ y1 \in 0 .. m - 1 /\ y2 \in 0 .. m - 1
      /\ x1 \in Int /\ x2 \in Int /\ y1 \in Int /\ y2 \in Int
  BY DEF Prime, OnWeierstrass
<1> DEFINE n == IF S = T THEN 3 * x1 * x1 + 2 * 0 * x1 + a ELSE y2 - y1
           v == IF S = T THEN 2 * y1 ELSE x2 - x1
           l == n * InverseMod(c, v % m)
           x == (l * l - 0 - x1 - x2) % m
           y == (l * (x1 - x) - y1) % m
<1>1. Chord(c, 0, a, S, T) = [x |-> x, y |-> y]
  BY DEF Chord
<1>2. n \in Int /\ v \in Int
  BY <1>0
<1>3. ~Same(m, v, 0)
  <2>1. CASE S = T
    BY <2>1
  <2>2. CASE S # T
    <3>1. SUFFICES ASSUME Same(m, x2 - x1, 0) PROVE FALSE
      BY <2>2
    <3> HIDE DEF x1, x2, m
    <3>3. Same(m, x2, x1)
      BY <1>0, <3>1, SameDifference
    <3>4. x2 = x1
      BY <1>0, <3>3, SameSmall
    <3> QED
      BY <2>2, <3>4 DEF x1, x2
  <2> QED
    BY <2>1, <2>2
<1>4. l \in Int /\ Same(m, l * v, n)
  <2> HIDE DEF n, v
  <2> QED
    BY <1>2, <1>3, SlopeIs
<1>5. Joins(c, l, S, T)
  <2> HIDE DEF l
  <2>1. CASE S = T
    <3> HIDE DEF m, a
    <3>1. x2 - x1 = 0 /\ y2 - y1 = 0 /\ l * 0 = 0 /\ x1 = x2
      BY <1>0, <1>4, <2>1
    <3>2. l * (x2 - x1) = y2 - y1 /\ y2 - y1 \in Int
      BY <3>1
    <3>3. Same(m, l * (x2 - x1), y2 - y1)
      BY <1>0, <3>2, SameSelf
    <3>4. Same(m, l * (2 * y1), 3 * x1 * x1 + 2 * 0 * x1 + a)
      BY <1>4, <2>1
    <3>5. PICK i \in Int : l * (2 * y1) = (3 * x1 * x1 + 2 * 0 * x1 + a) + i * m
      BY <3>4 DEF Same
    <3>6. 2 * y1 * l + l * l * (x2 - x1) - (x1 * x1 + x1 * x2 + x2 * x2) = a + i * m
      <4> HIDE DEF x1, x2, y1
      <4>1. l * l * (x2 - x1) = 0 /\ x1 * x2 = x1 * x1 /\ x2 * x2 = x1 * x1
        BY <1>0, <1>4, <3>1
      <4>2. 2 * y1 * l = l * (2 * y1) /\ 2 * 0 * x1 = 0 /\ 3 * x1 * x1 = x1 * x1 + x1 * x1 + x1 * x1
        BY <1>0, <1>4
      <4> QED
        BY <1>0, <1>4, <3>5, <4>1, <4>2
    <3> QED
      BY <1>4, <3>3, <3>6 DEF Joins, Same, m, a
  <2>2. CASE S # T
    <3>1. Same(m, l * (x2 - x1), y2 - y1) /\ ~Same(m, x2 - x1, 0)
      BY <1>3, <1>4, <2>2
    <3>2. Same(m, y1 * y1, x1 * x1 * x1 + a * x1 + c.b) /\ Same(m, y2 * y2, x2 * x2 * x2 + a * x2 + c.b)
      BY DEF OnWeierstrass
    <3> HIDE DEF x1, y1, x2, y2, m, a
    <3>3. Same(m, 2 * y1 * l + l * l * (x2 - x1) - (x1 * x1 + x1 * x2 + x2 * x2), a)
      BY <1>0, <1>4, <3>1, <3>2, ChordJoins DEF m
    <3> QED
      BY <1>4, <3>1, <3>3 DEF Joins, x1, y1, x2, y2, m, a
  <2> QED
    BY <2>1, <2>2
<1> HIDE DEF l, m, a, x1, y1, x2, y2
<1>6. /\ x \in 0 .. m - 1 /\ y \in 0 .. m - 1 /\ Same(m, x, l * l - x1 - x2)
      /\ Same(m, y, l * (x1 - (l * l - x1 - x2)) - y1)
  <2> DEFINE X == l * l - 0 - x1 - x2
             Y == l * (x1 - x) - y1
  <2>1. X \in Int /\ X = l * l - x1 - x2
    BY <1>0, <1>4
  <2>2. x \in 0 .. m - 1 /\ x \in Int /\ Same(m, x, X)
    <3> HIDE DEF X
    <3> QED
      BY <1>0, <2>1, SameRemainder DEF X
  <2> HIDE DEF x, X
  <2>3. Y \in Int
    BY <1>0, <1>4, <2>2
  <2>4. y \in 0 .. m - 1 /\ y \in Int /\ Same(m, y, Y)
    <3> HIDE DEF Y
    <3> QED
      BY <1>0, <2>3, SameRemainder DEF Y
  <2>5. Same(m, Y, l * (x1 - X) - y1)
    <3> DEFINE e == x1 - x
               f == x1 - X
               g == l * e
               h == l * f
    <3>1. e \in Int /\ f \in Int /\ g \in Int /\ h \in Int /\ Same(m, x1, x1) /\ Same(m, l, l) /\ Same(m, y1, y1)
      BY <1>0, <1>4, <2>1, <2>2, SameSelf
    <3>2. Same(m, e, f)
      BY <1>0, <2>1, <2>2, <3>1, SameSum
    <3> HIDE DEF e, f
    <3>3. Same(m, g, h)
      BY <1>0, <1>4, <3>1, <3>2, SameProduct
    <3> HIDE DEF g, h
    <3>4. Same(m, g - y1, h - y1)
      BY <1>0, <3>1, <3>3, SameSum
    <3> QED
      BY <3>4 DEF e, f, g, h
  <2>6. l * (x1 - X) - y1 \in Int
    BY <1>0, <1>4, <2>1
  <2> DEFINE F == l * (x1 - X) - y1
  <2>7. F \in Int /\ Same(m, Y, F)
    BY <2>5, <2>6
  <2> HIDE DEF F, Y, y
  <2>8. Same(m, y, F)
    BY <1>0, <2>3, <2>4, <2>7, SameTrans
  <2> QED
    BY <2>1, <2>2, <2>4, <2>8 DEF F
<1> HIDE DEF x, y
<1> QED
  BY <1>1, <1>4, <1>5, <1>6 DEF m, a, x1, y1, x2, y2

-----------------------------------------------------------------------------
(* The complete formulas compute the third point of the line, scaled.       *)
LEMMA ChordScales ==
  ASSUME NEW c, Prime(c.p), c.a \in Int, c.b \in Int, NEW S, NEW T, OnWeierstrass(c, S), OnWeierstrass(c, T),
         NEW l, Joins(c, l, S, T), NEW P, NEW Q, Over(c.p, P, S.x, S.y), Over(c.p, Q, T.x, T.y),
         NEW R, R = AddGeneral(c, P, Q), NEW x3, x3 = l * l - S.x - T.x, NEW y3, y3 = l * (S.x - x3) - S.y,
         NEW z, z = P.z * Q.z, NEW s, s = 2 * S.y + l * (T.x - S.x), NEW d, d = T.x - S.x
  PROVE  /\ R \in Coordinates(c) /\ R.x \in Int /\ R.y \in Int /\ R.z \in Int /\ x3 \in Int /\ y3 \in Int /\ z \in Int
         /\ Same(c.p, R.x, x3 * R.z) /\ Same(c.p, R.y, y3 * R.z)
         /\ Same(c.p, R.z, (z * z) * (s * (s * s - (2 * S.x + T.x) * d * d) - S.y * d * d * d))
<1> DEFINE m == c.p
           x1 == S.x
           y1 == S.y
           x2 == T.x
           y2 == y1 + l * (x2 - x1)
           a == 2 * y1 * l + l * l * (x2 - x1) - (x1 * x1 + x1 * x2 + x2 * x2)
           b == y1 * y1 - x1 * x1 * x1 - a * x1
           t == y1 * y2
           u == a * (x1 + x2) + 3 * b
           v == 3 * (x1 * x2) + a
           w == 3 * b * (x1 + x2) + a * (x1 * x2 - a)
           xy == x1 * y2 + x2 * y1
           yz == y1 + y2
           Z == yz * (t + u) + xy * v
           N == s * (s * s - (2 * x1 + x2) * d * d) - y1 * d * d * d
<1>0. /\ m \in Nat /\ m > 0 /\ c.a \in Int /\ c.b \in Int /\ x1 \in Int /\ y1 \in Int /\ x2 \in Int /\ l \in Int
      /\ T.y \in Int /\ x3 = l * l - x1 - x2 /\ y3 = l * (x1 - x3) - y1 /\ s = 2 * y1 + l * (x2 - x1) /\ d = x2 - x1
  BY DEF Prime, OnWeierstrass, Joins
<1>1. Parts(x1, y1, x2, y2, a, b, t, u, v, w, xy, yz)
  BY DEF Parts
<1>2. /\ Same(m, l * (x2 - x1), T.y - y1) /\ Same(m, a, c.a)
      /\ Same(m, y1 * y1, x1 * x1 * x1 + c.a * x1 + c.b)
  BY DEF Joins, OnWeierstrass
<1> HIDE DEF m, x1, y1, x2
<1>3. y2 \in Int /\ a \in Int /\ b \in Int
  <2>1. a \in Int
    BY <1>0
  <2> HIDE DEF a
  <2> QED
    BY <1>0, <2>1
<1>4. Same(m, T.y, y2)
  <2> DEFINE e == l * (x2 - x1)
             f == T.y - y1
  <2>1. e \in Int /\ f \in Int /\ Same(m, e, f) /\ Same(m, y1, y1)
    BY <1>0, <1>2, SameSelf
  <2>2. y2 = y1 + e /\ y1 + f = T.y
    BY <1>0
  <2> HIDE DEF e, f, y2
  <2>3. Same(m, y1 + e, y1 + f)
    BY <1>0, <2>1, SameSum
  <2> QED
    BY <1>0, <1>3, <2>2, <2>3, SameBack
<1>5. Same(m, c.a, a)
  BY <1>0, <1>2, <1>3, SameBack
<1>6. Same(m, c.b, b)
  <2> DEFINE e == y1 * y1
             k == x1 * x1 * x1
             f == c.a * x1
             g == a * x1
  <2>1. e \in Int /\ k \in Int /\ f \in Int /\ g \in Int /\ Same(m, e, k + f + c.b) /\ b = e - k - g
    BY <1>0, <1>2, <1>3
  <2>2. Same(m, f, g)
    <3>1. Same(m, x1, x1)
      BY <1>0, SameSelf
    <3> HIDE DEF a
    <3> QED
      BY <1>0, <1>3, <1>5, <3>1, SameProduct
  <2> HIDE DEF e, k, f, g, b
  <2>3. PICK i \in Int : e = (k + f + c.b) + i * m
    BY <2>1 DEF Same
  <2>4. PICK h \in Int : f = g + h * m
    BY <2>2 DEF Same
  <2>5. -i - h \in Int /\ c.b = b + (-i - h) * m
    BY <1>0, <2>1, <2>3, <2>4
  <2> QED
    BY <2>5 DEF Same
<1>7. Over(m, P, x1, y1) /\ Over(m, Q, x2, y2)
  <2>1. Over(m, P, x1, y1) /\ Over(m, Q, x2, T.y)
    BY DEF m, x1, y1, x2
  <2>2. /\ Q.x \in Int /\ Q.y \in Int /\ Q.z \in Int
        /\ Same(m, Q.x, x2 * Q.z) /\ Same(m, Q.y, T.y * Q.z)
    BY <2>1 DEF Over
  <2> HIDE DEF y2
  <2>3. Same(m, Q.z, Q.z)
    BY <1>0, <2>2, SameSelf
  <2>4. Same(m, T.y * Q.z, y2 * Q.z)
    BY <1>0, <1>3, <1>4, <2>2, <2>3, SameProduct
  <2> DEFINE e == T.y * Q.z
             f == y2 * Q.z
  <2>5. e \in Int /\ f \in Int /\ Same(m, Q.y, e) /\ Same(m, e, f)
    BY <1>0, <1>3, <2>2, <2>4
  <2> HIDE DEF e, f
  <2>6. Same(m, Q.y, f)
    BY <1>0, <2>2, <2>5, SameTrans
  <2> QED
    BY <1>0, <1>3, <2>1, <2>2, <2>6 DEF Over, f
<1> DEFINE X == xy * (t - u) - yz * w
           Y == (t - u) * (t + u) + v * w
<1>8. /\ R \in Coordinates(c) /\ R.x \in Int /\ R.y \in Int /\ R.z \in Int /\ z \in Int
      /\ Same(m, R.x, (z * z) * X) /\ Same(m, R.y, (z * z) * Y) /\ Same(m, R.z, (z * z) * Z)
  <2> HIDE DEF y2, a, b, t, u, v, w, xy, yz
  <2> QED
    BY <1>0, <1>1, <1>3, <1>5, <1>6, <1>7, GeneralScales DEF m
<1>9. X = x3 * Z /\ Y = y3 * Z /\ Z = N
  <2>1. Touched(x1, y1, x2, l, y2, a, b) /\ Third(x1, y1, x2, l, x3, y3, s, d)
    BY <1>0 DEF Touched, Third
  <2> HIDE DEF y2, a, b, t, u, v, w, xy, yz
  <2> QED
    BY <1>1, <2>1, ChordIdentity
<1>10. Z \in Int /\ x3 \in Int /\ y3 \in Int
  <2>1. x3 \in Int
    BY <1>0
  <2>2. y3 \in Int /\ s \in Int /\ d \in Int
    BY <1>0, <2>1
  <2>3. N \in Int
    BY <1>0, <2>2
  <2> HIDE DEF Z, N
  <2> QED
    BY <1>9, <2>1, <2>2, <2>3
<1> HIDE DEF X, Y, Z
<1>11. Same(m, R.x, x3 * R.z) /\ Same(m, R.y, y3 * R.z)
  <2> DEFINE y == z * z
             g == y * Z
  <2>1. y \in Int /\ g \in Int /\ y * X = x3 * g /\ y * Y = y3 * g
    <3>1. y \in Int
      BY <1>8
    <3> HIDE DEF y
    <3> QED
      BY <1>9, <1>10, <3>1
  <2>2. Same(m, R.z, g) /\ Same(m, R.x, x3 * g) /\ Same(m, R.y, y3 * g)
    BY <1>8, <2>1
  <2> HIDE DEF g, y
  <2>3. Same(m, g, R.z) /\ Same(m, x3, x3) /\ Same(m, y3, y3)
    BY <1>0, <1>8, <1>10, <2>1, <2>2, SameBack, SameSelf
  <2>4. Same(m, x3 * g, x3 * R.z) /\ Same(m, y3 * g, y3 * R.z)
    BY <1>0, <1>8, <1>10, <2>1, <2>3, SameProduct
  <2> DEFINE e == x3 * g
             f == x3 * R.z
             h == y3 * g
             k == y3 * R.z
  <2>5. e \in Int /\ f \in Int /\ h \in Int /\ k \in Int
    BY <1>8, <1>10, <2>1
  <2>6. Same(m, R.x, e) /\ Same(m, e, f) /\ Same(m, R.y, h) /\ Same(m, h, k)
    BY <2>2, <2>4
  <2> HIDE DEF e, f, h, k
  <2>7. Same(m, R.x, f) /\ Same(m, R.y, k)
    BY <1>0, <1>8, <2>5, <2>6, SameTrans
  <2> QED
    BY <2>7 DEF f, k
<1> QED
  BY <1>8, <1>9, <1>10, <1>11 DEF m, x1, y1, x2

-----------------------------------------------------------------------------
LEMMA SumPlace ==
  ASSUME NEW N \in Nat, NEW i \in 1 .. N, NEW j \in 1 .. N
  PROVE  At(i + j, N) = IF i + j <= N THEN i + j ELSE i + j - N
<1>1. CASE i + j <= N
  BY <1>1, AtSmall
<1>2. CASE ~(i + j <= N)
  <2> DEFINE e == i + j - N
  <2>1. e \in Nat /\ e > 0 /\ e \in 1 .. N /\ 1 \in Nat /\ N > 0 /\ i + j = e + 1 * N
    BY <1>2
  <2> HIDE DEF e
  <2>2. At(e + 1 * N, N) = At(e, N) /\ At(e, N) = e
    BY <2>1, AtUnique, AtSmall
  <2> QED
    BY <1>2, <2>1, <2>2 DEF e
<1> QED
  BY <1>1, <1>2

LEMMA CurveFacts ==
  ASSUME NEW c, NEW T, NEW N, IsCurve(c, T, N)
  PROVE  /\ Prime(c.p) /\ c.p \in Nat /\ c.p > 2 /\ c.a \in Int /\ c.b \in Int
         /\ N \in Nat /\ N > 2 /\ \A i \in 1 .. N - 1 : 2 * i # N
         /\ T[N] = Neutral(c) /\ \A i \in 1 .. N - 1 : T[i] # Neutral(c)
         /\ \A i, j \in 1 .. N : Sum(c, T[i], T[j]) = T[At(i + j, N)]
         /\ \A i \in 1 .. N - 1 : IsPointOf(c, T, N, i)
<1>1. /\ c.p \in Nat /\ c.p > 2 /\ c.a \in Int /\ c.b \in Int /\ N \in Nat /\ N > 2
      /\ T[N] = Neutral(c) /\ \A i \in 1 .. N - 1 : T[i] # Neutral(c)
      /\ \A i \in 1 .. N - 1 : IsPointOf(c, T, N, i)
      /\ (\A e \in 2 .. N - 1 : N % e # 0) /\ \A f \in 2 .. c.p - 1 : c.p % f # 0
  BY DEF IsCurve, IsCyclic
<1>2. Prime(c.p)
  BY <1>1 DEF Prime, IsCurve
<1>3. \A i, j \in 1 .. N : Sum(c, T[i], T[j]) = T[At(i + j, N)]
  BY DEF IsCurve, IsCyclic, At
<1>4. \A i \in 1 .. N - 1 : 2 * i # N
  <2>1. SUFFICES ASSUME NEW i \in 1 .. N - 1, 2 * i = N PROVE FALSE
    OBVIOUS
  <2>2. N % 2 # 0
    BY <1>1
  <2>3. (2 * i) % 2 = 0
    OBVIOUS
  <2> QED
    BY <2>1, <2>2, <2>3
<1> QED
  BY <1>1, <1>2, <1>3, <1>4

(* Multiples of different numbers are different points.                     *)
LEMMA PointsDiffer ==
  ASSUME NEW c, NEW T, NEW N, IsCurve(c, T, N), NEW i \in 1 .. N, NEW j \in 1 .. N, T[i] = T[j]
  PROVE  i = j
<1>1. /\ N \in Nat /\ N > 2 /\ T[N] = Neutral(c) /\ \A h \in 1 .. N - 1 : T[h] # Neutral(c)
      /\ \A h, k \in 1 .. N : Sum(c, T[h], T[k]) = T[At(h + k, N)]
  BY CurveFacts
<1>2. CASE i = N \/ j = N
  BY <1>1, <1>2
<1>3. CASE i # N /\ j # N
  <2>1. N - j \in 1 .. N /\ j + (N - j) = N
    BY <1>1, <1>3
  <2>2. T[At(i + (N - j), N)] = T[At(j + (N - j), N)]
    BY <1>1, <2>1
  <2>3. At(j + (N - j), N) = N
    <3> DEFINE h == N - j
    <3>1. h \in 1 .. N /\ j + h = N
      BY <2>1
    <3> HIDE DEF h
    <3>2. At(j + h, N) = IF j + h <= N THEN j + h ELSE j + h - N
      BY <1>1, <3>1, SumPlace
    <3>3. At(j + h, N) = N
      BY <1>1, <3>1, <3>2
    <3> QED
      BY <3>3 DEF h
  <2> DEFINE k == N - j
             e == At(i + k, N)
  <2>4. e = IF i + k <= N THEN i + k ELSE i + k - N
    BY <1>1, <2>1, SumPlace
  <2>5. T[e] = Neutral(c)
    BY <1>1, <2>2, <2>3
  <2> HIDE DEF e
  <2>6. e \in 1 .. N
    <3>1. N - j \in Nat /\ N - j < N /\ i \in Nat /\ i < N /\ i > 0 /\ N - j > 0
      BY <1>1, <1>3
    <3> QED
      BY <1>1, <2>4, <3>1
  <2>7. e = N
    BY <1>1, <2>5, <2>6
  <2> QED
    <3>1. N - j < N /\ i \in Nat /\ i < N /\ i > 0 /\ j \in Nat /\ j < N /\ j > 0 /\ k = N - j
      BY <1>1, <1>3
    <3>2. k \in Nat
      BY <1>1, <3>1
    <3> HIDE DEF k
    <3>3. i + k = N
      BY <1>1, <2>4, <2>7, <3>1, <3>2
    <3> QED
      BY <1>1, <3>1, <3>3
<1> QED
  BY <1>2, <1>3

-----------------------------------------------------------------------------
(* Weierstrass curves.                                                      *)
LEMMA PointOnWeierstrass ==
  ASSUME NEW c, NEW T, NEW N, IsCurve(c, T, N), c.type = "weierstrass", NEW i \in 1 .. N - 1
  PROVE  OnWeierstrass(c, T[i]) /\ T[i] # O
<1> DEFINE S == T[i]
           R == Point(S.x, S.y, 1)
           m == c.p
<1>1. /\ m \in Nat /\ m > 2 /\ m > 0 /\ c.a \in Int /\ c.b \in Int /\ IsPointOf(c, T, N, i)
      /\ S # Neutral(c)
  BY CurveFacts
<1>2. /\ S = [x |-> S.x, y |-> S.y] /\ S.x \in 0 .. m - 1 /\ S.y \in 0 .. m - 1
      /\ IsOnCurve(c, R)
  BY <1>1 DEF IsPointOf
<1>3. ~IsInfinityOn(c, R) /\ AffineOn(c, R) = R
  <2>1. [x |-> S.x, y |-> S.y] # Neutral(c)
    BY <1>1, <1>2
  <2> QED
    BY <1>1, <1>2, <2>1, AffineIs
<1> DEFINE x == S.x
           y == S.y
           f == x * x * x + c.a * x + c.b
<1>4. (y * y - (f % m)) % m = 0
  <2>1. R.x = x /\ R.y = y
    BY DEF Point
  <2>2. Rhs(c, x) = f % m
    BY DEF Rhs
  <2>3. (R.y * R.y - Rhs(c, R.x)) % m = 0
    <3> HIDE DEF R
    <3> QED
      BY <1>2, <1>3 DEF IsOnCurve
  <2> QED
    BY <2>1, <2>2, <2>3
<1>5. x \in Int /\ y \in Int /\ y * y \in Int /\ f \in Int
  <2>1. x \in Int /\ y \in Int
    BY <1>1, <1>2
  <2> HIDE DEF x, y
  <2> QED
    BY <1>1, <2>1
<1>6. Same(m, y * y, f)
  <2> DEFINE g == y * y
             e == f % m
  <2>1. g \in Int /\ e \in Int /\ Same(m, e, f)
    BY <1>1, <1>5, SameRemainder
  <2>2. (g - e) % m = 0
    BY <1>4
  <2> HIDE DEF g, e, f
  <2>3. Same(m, g, e)
    BY <1>1, <2>1, <2>2, SameZero
  <2>4. Same(m, g, f)
    BY <1>1, <1>5, <2>1, <2>3, SameTrans
  <2> QED
    BY <2>4 DEF g
<1>7. S # O
  <2>1. S.x # -1
    BY <1>1, <1>2
  <2> QED
    BY <2>1 DEF O
<1> QED
  BY <1>2, <1>6, <1>7 DEF OnWeierstrass

(* Two points that are not opposite are the same or have different x.       *)
LEMMA NotOpposite ==
  ASSUME NEW c, Prime(c.p), c.a \in Int, c.b \in Int, NEW S, NEW U, OnWeierstrass(c, S), OnWeierstrass(c, U),
         ~(S.x = U.x /\ (S.y + U.y) % c.p = 0)
  PROVE  IF S = U THEN ~Same(c.p, 2 * S.y, 0) ELSE S.x # U.x
<1> DEFINE m == c.p
           x == S.x
           v == S.y
           w == U.y
<1>1. m \in Nat /\ m > 0 /\ v \in Int /\ w \in Int /\ v \in 0 .. m - 1 /\ w \in 0 .. m - 1
      /\ x \in Int /\ c.a \in Int /\ c.b \in Int /\ 0 \in Int
      /\ S = [x |-> S.x, y |-> v] /\ U = [x |-> U.x, y |-> w]
  BY DEF OnWeierstrass, Prime
<1>2. ASSUME S.x = U.x PROVE ~Same(m, v + w, 0)
  <2>1. v + w \in Int /\ (v + w) - 0 = v + w /\ (v + w) % m # 0
    BY <1>1, <1>2
  <2> HIDE DEF m, v, w
  <2> DEFINE e == v + w
  <2>2. e \in Int /\ e - 0 = e /\ e % m # 0
    BY <2>1
  <2> HIDE DEF e
  <2>3. ~Same(m, e, 0)
    BY <1>1, <2>2, SameZero
  <2> QED
    BY <2>3 DEF e
<1>3. CASE S = U
  <2>1. ~Same(m, v + w, 0) /\ v + w = 2 * S.y
    BY <1>1, <1>2, <1>3
  <2> QED
    BY <1>3, <2>1
<1>4. ASSUME S # U, S.x = U.x PROVE FALSE
  <2> DEFINE f == x * x * x + c.a * x + c.b
  <2>1. f \in Int /\ Same(m, v * v, f) /\ Same(m, w * w, f)
    <3>1. f \in Int
      <4> HIDE DEF x
      <4> QED
        BY <1>1
    <3> QED
      BY <1>4, <3>1 DEF OnWeierstrass
  <2> HIDE DEF m, v, w, f, x
  <2> DEFINE g == v * v
             h == w * w
  <2>2. g \in Int /\ h \in Int /\ (v - w) * (v + w) = g - h /\ v - w \in Int /\ v + w \in Int
    BY <1>1, SMT
  <2>3. Same(m, g, f) /\ Same(m, h, f)
    BY <2>1
  <2> HIDE DEF g, h
  <2>4. Same(m, g, h)
    BY <1>1, <2>1, <2>2, <2>3, SameTrans, SameBack
  <2>5. Same(m, g - h, 0)
    BY <1>1, <2>2, <2>4, SameDifference
  <2> DEFINE s == v - w
             t == v + w
  <2>6. s \in Int /\ t \in Int /\ Same(m, s * t, 0) /\ ~Same(m, t, 0)
    BY <1>2, <1>4, <2>2, <2>5
  <2>7. Prime(m)
    BY DEF m
  <2> HIDE DEF s, t
  <2>8. Same(m, s, 0)
    BY ONLY <2>6, <2>7, NoZeroDivisor
  <2>9. Same(m, v, w)
    BY <1>1, <2>8, SameDifference DEF s
  <2>10. v = w
    BY <1>1, <2>9, SameSmall
  <2> QED
    BY <1>1, <1>4, <2>10
<1> QED
  BY <1>3, <1>4

(* A sum of two points that is not neutral is on the line through them.     *)
LEMMA WeierstrassSum ==
  ASSUME NEW c, NEW T, NEW N, IsCurve(c, T, N), c.type = "weierstrass",
         NEW i \in 1 .. N - 1, NEW j \in 1 .. N - 1
  PROVE  /\ i + j = N => T[i].x = T[j].x /\ (T[i].y + T[j].y) % c.p = 0
         /\ i + j # N => /\ T[At(i + j, N)] = Chord(c, 0, c.a, T[i], T[j]) /\ At(i + j, N) \in 1 .. N - 1
                         /\ ~(T[i].x = T[j].x /\ (T[i].y + T[j].y) % c.p = 0)
<1> DEFINE S == T[i]
           U == T[j]
           k == At(i + j, N)
<1>1. /\ N \in Nat /\ N > 2 /\ c.p \in Nat /\ c.p > 2 /\ T[N] = O /\ \A h \in 1 .. N - 1 : T[h] # O
      /\ Prime(c.p) /\ c.a \in Int /\ c.b \in Int
      /\ \A h, g \in 1 .. N : Sum(c, T[h], T[g]) = T[At(h + g, N)]
  BY CurveFacts DEF Neutral
<1>2. S # O /\ U # O /\ OnWeierstrass(c, S) /\ OnWeierstrass(c, U) /\ Sum(c, S, U) = T[k]
  BY <1>1, PointOnWeierstrass
<1>3. k = (IF i + j <= N THEN i + j ELSE i + j - N)
  BY <1>1, SumPlace
<1> HIDE DEF k, S, U
<1>4. T[k] = Tangential(c, 0, c.a, S, U)
  BY <1>2 DEF Sum
<1>5. T[k] = IF S.x = U.x /\ (S.y + U.y) % c.p = 0 THEN O ELSE Chord(c, 0, c.a, S, U)
  BY <1>2, <1>4 DEF Tangential
<1>6. CASE i + j = N
  <2>1. T[k] = O
    BY <1>1, <1>3, <1>6
  <2>2. ASSUME ~(S.x = U.x /\ (S.y + U.y) % c.p = 0) PROVE FALSE
    <3> DEFINE V == Chord(c, 0, c.a, S, U)
    <3>1. IF S = U THEN ~Same(c.p, 2 * S.y, 0) ELSE S.x # U.x
      BY <1>1, <1>2, <2>2, NotOpposite
    <3>2. V.x \in 0 .. c.p - 1
      BY <1>1, <1>2, <3>1, ChordIs
    <3>3. V = O
      BY <1>5, <2>1, <2>2
    <3> HIDE DEF V
    <3>4. V.x = -1
      BY <3>3 DEF O
    <3> QED
      BY <1>1, <3>2, <3>4
  <2> QED
    BY <1>6, <2>2 DEF S, U
<1>7. CASE i + j # N
  <2>1. k \in 1 .. N - 1
    BY <1>1, <1>3, <1>7
  <2>2. T[k] # O
    BY <1>1, <2>1
  <2> QED
    BY <1>5, <1>7, <2>1, <2>2 DEF S, U, k
<1> QED
  BY <1>6, <1>7

(* Products of numbers prime to the modulus.                                *)
LEMMA NonZeroProduct ==
  ASSUME NEW m, Prime(m), NEW s \in Int, NEW t \in Int, ~Same(m, s, 0), ~Same(m, t, 0)
  PROVE  ~Same(m, s * t, 0)
  BY NoZeroDivisor

LEMMA NonZeroCube ==
  ASSUME NEW m, Prime(m), NEW s \in Int, ~Same(m, s, 0)
  PROVE  s * s * s \in Int /\ ~Same(m, s * s * s, 0)
<1> DEFINE g == s * s
<1>1. g \in Int /\ ~Same(m, g, 0)
  BY NonZeroProduct
<1> HIDE DEF g
<1>2. g * s \in Int /\ ~Same(m, g * s, 0)
  BY <1>1, NonZeroProduct
<1> QED
  BY <1>2 DEF g

(* A point of odd order is not its own negative.                            *)
LEMMA NotSelf ==
  ASSUME NEW c, NEW T, NEW N, IsCurve(c, T, N), c.type = "weierstrass", NEW i \in 1 .. N - 1
  PROVE  T[i].y \in Int /\ ~Same(c.p, 2 * T[i].y, 0) /\ ~Same(c.p, T[i].y, 0)
<1> DEFINE y == T[i].y
           m == c.p
<1>1. N \in Nat /\ i + i # N /\ Prime(m) /\ m \in Nat /\ m > 0 /\ 0 \in Int /\ 2 \in Int
  <2>1. N \in Nat /\ 2 * i # N /\ Prime(m) /\ m \in Nat /\ m > 2
    BY CurveFacts
  <2> QED
    BY <2>1
<1>2. y \in Int
  <2>1. T[i].y \in 0 .. m - 1
    BY PointOnWeierstrass DEF OnWeierstrass
  <2> QED
    BY <1>1, <2>1
<1>3. (y + y) % m # 0
  <2>1. ~(T[i].x = T[i].x /\ (T[i].y + T[i].y) % c.p = 0)
    BY <1>1, WeierstrassSum
  <2> QED
    BY <2>1
<1> HIDE DEF y, m
<1>4. 2 * y = y + y /\ 2 * y \in Int /\ (2 * y) - 0 = 2 * y /\ 2 * 0 = 0
  BY <1>2
<1> DEFINE e == 2 * y
<1>5. e \in Int /\ e % m # 0 /\ e - 0 = e
  BY <1>3, <1>4
<1> HIDE DEF e
<1>6. ~Same(m, e, 0)
  BY <1>1, <1>5, SameZero
<1>7. ~Same(m, y, 0)
  <2>1. ASSUME Same(m, y, 0) PROVE FALSE
    <3>1. Same(m, 2 * y, 2 * 0)
      BY <1>1, <1>2, <2>1, SameSelf, SameProduct
    <3> QED
      BY <1>4, <1>6, <3>1 DEF e
  <2> QED
    BY <2>1
<1> QED
  BY <1>2, <1>6, <1>7 DEF y, m, e

(* The point where the line through two multiples meets the curve again,    *)
(* turned over.                                                             *)
LEMMA LineMeets ==
  ASSUME NEW c, NEW T, NEW N, IsCurve(c, T, N), c.type = "weierstrass",
         NEW i \in 1 .. N - 1, NEW j \in 1 .. N - 1, i + j # N
  PROVE  /\ At(i + j, N) \in 1 .. N - 1
         /\ \E l \in Int : LET U == T[At(i + j, N)] IN
              /\ Joins(c, l, T[i], T[j])
              /\ U = [x |-> U.x, y |-> U.y] /\ U.x \in 0 .. c.p - 1 /\ U.y \in 0 .. c.p - 1
              /\ Same(c.p, U.x, l * l - T[i].x - T[j].x)
              /\ Same(c.p, U.y, l * (T[i].x - (l * l - T[i].x - T[j].x)) - T[i].y)
<1> DEFINE S == T[i]
           U == T[j]
<1>1. Prime(c.p) /\ c.a \in Int /\ c.b \in Int
  BY CurveFacts
<1>2. OnWeierstrass(c, S) /\ OnWeierstrass(c, U)
  BY PointOnWeierstrass
<1>3. /\ T[At(i + j, N)] = Chord(c, 0, c.a, S, U) /\ At(i + j, N) \in 1 .. N - 1
      /\ ~(S.x = U.x /\ (S.y + U.y) % c.p = 0)
  BY WeierstrassSum
<1> HIDE DEF S, U
<1>4. IF S = U THEN ~Same(c.p, 2 * S.y, 0) ELSE S.x # U.x
  BY <1>1, <1>2, <1>3, NotOpposite
<1>5. \E l \in Int : /\ Joins(c, l, S, U)
                     /\ LET V == Chord(c, 0, c.a, S, U) IN
                          /\ V = [x |-> V.x, y |-> V.y] /\ V.x \in 0 .. c.p - 1 /\ V.y \in 0 .. c.p - 1
                          /\ Same(c.p, V.x, l * l - S.x - U.x)
                          /\ Same(c.p, V.y, l * (S.x - (l * l - S.x - U.x)) - S.y)
  BY <1>1, <1>2, <1>4, ChordIs
<1> QED
  BY <1>3, <1>4, <1>5 DEF S, U

LEMMA ApartInX ==
  ASSUME NEW c, NEW T, NEW N, IsCurve(c, T, N), c.type = "weierstrass",
         NEW i \in 1 .. N - 1, NEW j \in 1 .. N - 1, i + j # N, T[i] # T[j]
  PROVE  T[i].x # T[j].x
<1>1. Prime(c.p) /\ c.a \in Int /\ c.b \in Int
  BY CurveFacts
<1>2. OnWeierstrass(c, T[i]) /\ OnWeierstrass(c, T[j])
  BY PointOnWeierstrass
<1>3. ~(T[i].x = T[j].x /\ (T[i].y + T[j].y) % c.p = 0)
  BY WeierstrassSum
<1> QED
  BY <1>1, <1>2, <1>3, NotOpposite

(* What the sum is scaled by, from the sum with the second point turned     *)
(* over.                                                                    *)
LEMMA ScaleIs ==
  ASSUME NEW m \in Nat, NEW l \in Int, NEW d \in Int, NEW s \in Int, NEW x1 \in Int, NEW x2 \in Int,
         NEW y1 \in Int, NEW y \in Int, Same(m, l * d, -s),
         Same(m, y, l * (x1 - (l * l - x1 - x2)) - y1)
  PROVE  Same(m, d * d * d * y, s * (s * s - (2 * x1 + x2) * d * d) - y1 * d * d * d)
<1>1. PICK h \in Int : l * d = (-s) + h * m
  BY DEF Same
<1>2. PICK g \in Int : y = (l * (x1 - (l * l - x1 - x2)) - y1) + g * m
  BY DEF Same
<1> DEFINE L == l * d
           w == h * ((2 * x1 + x2) * d * d - (L * L - L * s + s * s)) + d * d * d * g
<1>3. w \in Int
  BY SMT
<1>4. d * d * d * y = (s * (s * s - (2 * x1 + x2) * d * d) - y1 * d * d * d) + w * m
  <2>1. s = h * m - L
    BY <1>1
  <2> QED
    BY <1>2, <2>1, SMT
<1> QED
  BY <1>3, <1>4 DEF Same

(* A projective point of the curve, not infinity, over the affine one S.    *)
Stands(c, P, S) == P \in Coordinates(c) /\ Over(c.p, P, S.x, S.y) /\ ~Same(c.p, P.z, 0)

LEMMA CoordinatesAre ==
  ASSUME NEW c, c.p \in Nat, c.p > 0, NEW P, P \in Coordinates(c)
  PROVE  /\ P.x \in Int /\ P.y \in Int /\ P.z \in Int
         /\ P.x \in 0 .. c.p - 1 /\ P.y \in 0 .. c.p - 1 /\ P.z \in 0 .. c.p - 1
         /\ P = Point(P.x, P.y, P.z)
         /\ Same(c.p, P.x, 0) <=> P.x = 0
         /\ Same(c.p, P.y, 0) <=> P.y = 0
         /\ Same(c.p, P.z, 0) <=> P.z = 0
<1>1. P.x \in 0 .. c.p - 1 /\ P.y \in 0 .. c.p - 1 /\ P.z \in 0 .. c.p - 1 /\ 0 \in 0 .. c.p - 1
      /\ P = [x |-> P.x, y |-> P.y, z |-> P.z]
  BY DEF Coordinates
<1>2. \A s \in 0 .. c.p - 1 : Same(c.p, s, 0) <=> s = 0
  <2>1. SUFFICES ASSUME NEW s \in 0 .. c.p - 1 PROVE Same(c.p, s, 0) <=> s = 0
    OBVIOUS
  <2>2. s \in Int /\ 0 \in 0 .. c.p - 1 /\ Same(c.p, s, s)
    BY SameSelf
  <2>3. Same(c.p, s, 0) => s = 0
    BY <2>2, SameSmall
  <2> QED
    BY <2>2, <2>3
<1> QED
  BY <1>1, <1>2 DEF Point

(* What it means for the checked property.                                  *)
LEMMA StandsIs ==
  ASSUME NEW c, c.p \in Nat, c.p > 0, c.type = "weierstrass", NEW P, P \in Coordinates(c),
         NEW S, S # O, S.x \in Int, S.y \in Int
  PROVE  Represents(c, P, S) <=> Stands(c, P, S)
<1> DEFINE m == c.p
           X == P.x
           Y == P.y
           Z == P.z
           x == S.x
           y == S.y
<1>1. /\ m \in Nat /\ m > 0 /\ X \in Int /\ Y \in Int /\ Z \in Int /\ x \in Int /\ y \in Int
      /\ Same(m, Z, 0) <=> Z = 0
  BY CoordinatesAre
<1>2. Represents(c, P, S) <=> Z # 0 /\ (X - x * Z) % m = 0 /\ (Y - y * Z) % m = 0
  BY DEF Represents
<1>3. Stands(c, P, S) <=> Same(m, X, x * Z) /\ Same(m, Y, y * Z) /\ ~Same(m, Z, 0)
  BY <1>1 DEF Stands, Over
<1> HIDE DEF m, X, Y, Z, x, y
<1> DEFINE g == x * Z
           h == y * Z
<1>4. g \in Int /\ h \in Int
  BY <1>1
<1> HIDE DEF g, h
<1>5. (Same(m, X, g) <=> (X - g) % m = 0) /\ (Same(m, Y, h) <=> (Y - h) % m = 0)
  BY <1>1, <1>4, SameZero
<1> QED
  BY <1>1, <1>2, <1>3, <1>5 DEF g, h

(* A congruent affine point does as well.                                   *)
LEMMA OverSame ==
  ASSUME NEW m \in Nat, NEW P, NEW x, NEW y, Over(m, P, x, y), NEW x2 \in Int, NEW y2 \in Int,
         Same(m, x, x2), Same(m, y, y2)
  PROVE  Over(m, P, x2, y2)
<1> DEFINE X == P.x
           Y == P.y
           Z == P.z
<1>1. X \in Int /\ Y \in Int /\ Z \in Int /\ x \in Int /\ y \in Int /\ Same(m, X, x * Z) /\ Same(m, Y, y * Z)
  BY DEF Over
<1> HIDE DEF X, Y, Z
<1>2. Same(m, x * Z, x2 * Z) /\ Same(m, y * Z, y2 * Z)
  BY <1>1, SameSelf, SameProduct
<1> DEFINE g == x * Z
           h == x2 * Z
           e == y * Z
           f == y2 * Z
<1>3. g \in Int /\ h \in Int /\ e \in Int /\ f \in Int
      /\ Same(m, X, g) /\ Same(m, g, h) /\ Same(m, Y, e) /\ Same(m, e, f)
  BY <1>1, <1>2
<1> HIDE DEF g, h, e, f
<1>4. Same(m, X, h) /\ Same(m, Y, f)
  BY <1>1, <1>3, SameTrans
<1> QED
  BY <1>1, <1>4 DEF Over, X, Y, Z, h, f

(* The scale of a sum that is not infinity is not a multiple of p.          *)
LEMMA ScaleNotZero ==
  ASSUME NEW c, NEW T, NEW N, IsCurve(c, T, N), c.type = "weierstrass",
         NEW i \in 1 .. N - 1, NEW j \in 1 .. N - 1, i + j # N,
         NEW l, Joins(c, l, T[i], T[j]),
         NEW x1, x1 = T[i].x, NEW y1, y1 = T[i].y, NEW x2, x2 = T[j].x,
         NEW d, d = x2 - x1, NEW s, s = 2 * y1 + l * d
  PROVE  ~Same(c.p, s * (s * s - (2 * x1 + x2) * d * d) - y1 * d * d * d, 0)
<1> DEFINE m == c.p
           y2 == T[j].y
           D == s * (s * s - (2 * x1 + x2) * d * d) - y1 * d * d * d
<1>1. /\ N \in Nat /\ N > 2 /\ m \in Nat /\ m > 2 /\ m > 0 /\ Prime(m) /\ 0 \in Int
  <2>1. N \in Nat /\ N > 2 /\ m \in Nat /\ m > 2 /\ Prime(m)
    BY CurveFacts
  <2> QED
    BY <2>1
<1>2. /\ x1 \in 0 .. m - 1 /\ x2 \in 0 .. m - 1 /\ y1 \in Int /\ y2 \in Int
      /\ ~Same(m, 2 * y1, 0)
  BY PointOnWeierstrass, NotSelf DEF OnWeierstrass
<1>3. x1 \in Int /\ x2 \in Int /\ d \in Int /\ l \in Int /\ Same(m, l * d, y2 - y1)
  <2>1. l \in Int /\ Same(m, l * d, y2 - y1)
    BY DEF Joins
  <2> QED
    BY <1>1, <1>2, <2>1
<1>4. s \in Int
  BY <1>2, <1>3
<1>5. CASE T[i] = T[j]
  <2>1. d = 0 /\ s = 2 * y1
    BY <1>2, <1>3, <1>5
  <2>2. D = s * s * s
    <3>1. /\ x1 \in Int /\ x2 \in Int /\ y1 \in Int /\ s \in Int /\ d = 0
          /\ D = s * (s * s - (2 * x1 + x2) * d * d) - y1 * d * d * d
      BY <1>2, <1>3, <1>4, <2>1
    <3> HIDE DEF D
    <3>2. (2 * x1 + x2) * 0 * 0 = 0 /\ y1 * 0 * 0 * 0 = 0
      BY <3>1
    <3>3. D = s * (s * s - 0) - 0
      BY <3>1, <3>2
    <3> QED
      BY <3>1, <3>3
  <2>3. ~Same(m, s, 0)
    BY <1>2, <2>1
  <2>4. ~Same(m, s * s * s, 0)
    BY <1>1, <1>4, <2>3, NonZeroCube
  <2> QED
    BY <2>2, <2>4
<1>6. CASE T[i] # T[j]
  <2> DEFINE h == N - j
             k == At(i + h, N)
             y4 == T[h].y
             x5 == T[k].x
             y5 == T[k].y
  <2>1. x1 # x2
    BY <1>6, ApartInX
  <2>2. ~Same(m, d, 0)
    <3>1. ASSUME Same(m, x2, x1) PROVE FALSE
      BY <1>1, <1>2, <2>1, <3>1, SameSmall
    <3> QED
      BY <1>1, <1>3, <3>1, SameDifference
  <2>3. h \in 1 .. N - 1 /\ j + h = N /\ i + h # N
    BY <1>1, <1>6
  <2> HIDE DEF h
  <2>4. T[j].x = T[h].x /\ (y2 + y4) % m = 0 /\ y4 \in Int
    BY <2>3, WeierstrassSum, NotSelf
  <2>5. k \in 1 .. N - 1 /\ y5 \in Int /\ ~Same(m, y5, 0)
    <3>1. k \in 1 .. N - 1
      BY <2>3, LineMeets
    <3> QED
      BY <3>1, NotSelf
  <2>6. \E g \in Int : /\ Joins(c, g, T[i], T[h])
                       /\ Same(m, y5, g * (x1 - (g * g - x1 - x2)) - y1)
    <3>1. \E g \in Int : /\ Joins(c, g, T[i], T[h])
                         /\ Same(c.p, T[k].y, g * (T[i].x - (g * g - T[i].x - T[h].x)) - T[i].y)
      BY <2>3, LineMeets
    <3>2. PICK g \in Int : /\ Joins(c, g, T[i], T[h])
                          /\ Same(c.p, T[k].y, g * (T[i].x - (g * g - T[i].x - T[h].x)) - T[i].y)
      BY <3>1
    <3>3. T[h].x = x2
      BY <2>4
    <3>4. Same(c.p, T[k].y, g * (x1 - (g * g - x1 - x2)) - y1)
      BY <3>2, <3>3
    <3> QED
      BY <3>2, <3>4
  <2>7. PICK g \in Int : /\ Joins(c, g, T[i], T[h])
                         /\ Same(m, y5, g * (x1 - (g * g - x1 - x2)) - y1)
    BY <2>6
  <2>8. Same(m, g * d, y4 - y1)
    BY <2>4, <2>7 DEF Joins
  <2> HIDE DEF y5, y4, y2, m, k, D
  <2>9. Same(m, g * d, -s)
    <3>1. PICK u \in Int : g * d = (y4 - y1) + u * m
      BY <2>8 DEF Same
    <3>2. PICK v \in Int : l * d = (y2 - y1) + v * m
      BY <1>3 DEF Same
    <3>3. Same(m, y2 + y4, 0)
      <4> DEFINE e == y2 + y4
      <4>1. e \in Int /\ e - 0 = e /\ e % m = 0
        BY <1>2, <2>4
      <4> HIDE DEF e
      <4>2. Same(m, e, 0)
        BY <1>1, <4>1, SameZero
      <4> QED
        BY <4>2 DEF e
    <3>4. PICK w \in Int : y2 + y4 = 0 + w * m
      BY <3>3 DEF Same
    <3> DEFINE e == l * d
               f == g * d
               r == -s
    <3>5. /\ e \in Int /\ f \in Int /\ f = (y4 - y1) + u * m /\ e = (y2 - y1) + v * m /\ r = -(2 * y1 + e)
          /\ s = 2 * y1 + e /\ y1 \in Int /\ y2 \in Int /\ y4 \in Int /\ m \in Int /\ y2 + y4 = w * m
      BY <1>1, <1>2, <1>3, <1>4, <2>4, <2>7, <3>1, <3>2, <3>4
    <3> HIDE DEF e, f, r
    <3>6. u + v + w \in Int /\ f = r + (u + v + w) * m
      BY ONLY <3>5, u \in Int, v \in Int, w \in Int, SMT
    <3> QED
      BY <3>6 DEF Same, f, r
  <2>10. Same(m, d * d * d * y5, D)
    <3>1. /\ m \in Nat /\ g \in Int /\ d \in Int /\ s \in Int /\ x1 \in Int /\ x2 \in Int /\ y1 \in Int /\ y5 \in Int
          /\ Same(m, g * d, -s) /\ Same(m, y5, g * (x1 - (g * g - x1 - x2)) - y1)
      BY <1>1, <1>2, <1>3, <1>4, <2>5, <2>7, <2>9
    <3> QED
      BY ONLY <3>1, ScaleIs DEF D
  <2>11. d * d * d * y5 \in Int /\ ~Same(m, d * d * d * y5, 0)
    <3> DEFINE e == d * d * d
    <3>1. e \in Int /\ ~Same(m, e, 0)
      BY <1>1, <1>3, <2>2, NonZeroCube
    <3> HIDE DEF e
    <3>2. e * y5 \in Int /\ ~Same(m, e * y5, 0)
      BY <1>1, <2>5, <3>1, NonZeroProduct
    <3> QED
      BY <3>2 DEF e
  <2>12. D \in Int
    <3>1. x1 \in Int /\ x2 \in Int /\ y1 \in Int /\ s \in Int /\ d \in Int
      BY <1>2, <1>3, <1>4
    <3> QED
      BY ONLY <3>1 DEF D
  <2> DEFINE e == d * d * d * y5
  <2>13. e \in Int /\ Same(m, e, D) /\ ~Same(m, e, 0)
    BY <2>10, <2>11
  <2> HIDE DEF e
  <2>14. ~Same(m, D, 0)
    BY <1>1, <2>12, <2>13, SameTrans
  <2> QED
    BY <2>14 DEF D, m
<1> QED
  BY <1>5, <1>6

(* The formulas, on points that are not opposite.                           *)
LEMMA GeneralSum ==
  ASSUME NEW c, NEW T, NEW N, IsCurve(c, T, N), c.type = "weierstrass",
         NEW i \in 1 .. N - 1, NEW j \in 1 .. N - 1, i + j # N,
         NEW P, NEW Q, Stands(c, P, T[i]), Stands(c, Q, T[j]), NEW R, R = AddGeneral(c, P, Q)
  PROVE  Stands(c, R, T[At(i + j, N)])
<1> DEFINE m == c.p
           S == T[i]
           V == T[j]
           U == T[At(i + j, N)]
<1>1. /\ m \in Nat /\ m > 0 /\ Prime(m) /\ c.a \in Int /\ c.b \in Int
  <2>1. m \in Nat /\ m > 2 /\ Prime(m) /\ c.a \in Int /\ c.b \in Int
    BY CurveFacts
  <2> QED
    BY <2>1
<1>2. PICK l \in Int : /\ Joins(c, l, S, V)
                       /\ U.x \in 0 .. m - 1 /\ U.y \in 0 .. m - 1
                       /\ Same(m, U.x, l * l - S.x - V.x)
                       /\ Same(m, U.y, l * (S.x - (l * l - S.x - V.x)) - S.y)
  BY LineMeets
<1> DEFINE x3 == l * l - S.x - V.x
           y3 == l * (S.x - x3) - S.y
           z == P.z * Q.z
           d == V.x - S.x
           s == 2 * S.y + l * d
           D == s * (s * s - (2 * S.x + V.x) * d * d) - S.y * d * d * d
<1>3. OnWeierstrass(c, S) /\ OnWeierstrass(c, V) /\ Over(m, P, S.x, S.y) /\ Over(m, Q, V.x, V.y)
  BY PointOnWeierstrass DEF Stands
<1>4. P.z \in Int /\ Q.z \in Int /\ ~Same(m, P.z, 0) /\ ~Same(m, Q.z, 0)
  BY <1>3 DEF Over, Stands
<1>5. ~Same(m, D, 0)
  <2>1. \A x1, y1, x2, e, t : x1 = S.x /\ y1 = S.y /\ x2 = V.x /\ e = x2 - x1 /\ t = 2 * y1 + l * e
          => ~Same(m, t * (t * t - (2 * x1 + x2) * e * e) - y1 * e * e * e, 0)
    BY <1>2, ScaleNotZero
  <2> QED
    BY <2>1
<1> HIDE DEF S, V, U
<1>6. S.x \in Int /\ S.y \in Int /\ V.x \in Int /\ U.x \in Int /\ U.y \in Int
  BY <1>1, <1>2, <1>3 DEF OnWeierstrass
<1> HIDE DEF m
<1>7. x3 \in Int /\ d \in Int
  BY <1>2, <1>6
<1>8. y3 \in Int /\ s \in Int
  BY <1>2, <1>6, <1>7
<1>9. D \in Int
  <2> DEFINE x1 == S.x
             y1 == S.y
             x2 == V.x
  <2>1. x1 \in Int /\ y1 \in Int /\ x2 \in Int /\ s \in Int /\ d \in Int
    BY <1>6, <1>7, <1>8
  <2> HIDE DEF x1, y1, x2, s, d
  <2>2. s * (s * s - (2 * x1 + x2) * d * d) - y1 * d * d * d \in Int
    BY ONLY <2>1
  <2> QED
    BY <2>2 DEF x1, y1, x2
<1>10. /\ R \in Coordinates(c) /\ R.x \in Int /\ R.y \in Int /\ R.z \in Int /\ z \in Int
       /\ Same(m, R.x, x3 * R.z) /\ Same(m, R.y, y3 * R.z) /\ Same(m, R.z, (z * z) * D)
  <2>1. s = 2 * S.y + l * (V.x - S.x)
    OBVIOUS
  <2> HIDE DEF x3, y3, s, d, z
  <2>2. x3 = l * l - S.x - V.x /\ y3 = l * (S.x - x3) - S.y /\ z = P.z * Q.z /\ d = V.x - S.x
    BY DEF x3, y3, d, z
  <2> QED
    BY <1>1, <1>2, <1>3, <2>1, <2>2, ChordScales DEF m
<1> HIDE DEF x3, y3, z, d, s, D
<1>11. ~Same(m, R.z, 0)
  <2>1. ~Same(m, z, 0)
    BY <1>1, <1>4, NonZeroProduct DEF z
  <2> DEFINE e == z * z
  <2>2. e \in Int /\ ~Same(m, e, 0)
    BY <1>1, <1>10, <2>1, NonZeroProduct
  <2> HIDE DEF e
  <2>3. e * D \in Int /\ ~Same(m, e * D, 0)
    BY <1>1, <1>5, <1>9, <2>2, NonZeroProduct
  <2> DEFINE f == e * D
  <2>4. f \in Int /\ ~Same(m, f, 0) /\ Same(m, R.z, f)
    BY <1>10, <2>3 DEF e
  <2> HIDE DEF f
  <2>5. ASSUME Same(m, R.z, 0) PROVE FALSE
    <3>1. Same(m, f, R.z)
      BY <1>1, <1>10, <2>4, SameBack
    <3> QED
      BY <1>1, <1>10, <2>4, <2>5, <3>1, SameTrans
  <2> QED
    BY <2>5
<1>12. Over(m, R, x3, y3)
  BY <1>7, <1>8, <1>10 DEF Over
<1>13. Same(m, x3, U.x) /\ Same(m, y3, U.y)
  BY <1>1, <1>2, <1>6, <1>7, <1>8, SameBack DEF x3, y3
<1>14. Over(m, R, U.x, U.y)
  BY <1>1, <1>6, <1>12, <1>13, OverSame
<1> QED
  BY <1>10, <1>11, <1>14 DEF Stands, U, m

(* The formulas, on opposite points.                                        *)
LEMMA OppositeSum ==
  ASSUME NEW c, NEW T, NEW N, IsCurve(c, T, N), c.type = "weierstrass",
         NEW i \in 1 .. N - 1, NEW j \in 1 .. N - 1, i + j = N,
         NEW P, NEW Q, Stands(c, P, T[i]), Stands(c, Q, T[j]), NEW R, R = AddGeneral(c, P, Q)
  PROVE  R \in Coordinates(c) /\ R.x = 0 /\ R.z = 0 /\ R.y # 0
<1> DEFINE m == c.p
           S == T[i]
           V == T[j]
           U == T[At(i + i, N)]
           x1 == S.x
           y1 == S.y
<1>1. /\ m \in Nat /\ m > 0 /\ Prime(m) /\ c.a \in Int /\ c.b \in Int /\ i + i # N
  <2>1. m \in Nat /\ m > 2 /\ Prime(m) /\ c.a \in Int /\ c.b \in Int /\ 2 * i # N
    BY CurveFacts
  <2> QED
    BY <2>1
<1>2. /\ OnWeierstrass(c, S) /\ OnWeierstrass(c, V) /\ Over(m, P, x1, y1) /\ Over(m, Q, V.x, V.y)
      /\ V.x = x1 /\ (y1 + V.y) % m = 0 /\ ~Same(m, y1, 0) /\ V.y \in Int
  BY PointOnWeierstrass, WeierstrassSum, NotSelf DEF Stands
<1>3. P.z \in Int /\ Q.z \in Int /\ ~Same(m, P.z, 0) /\ ~Same(m, Q.z, 0)
  BY <1>2 DEF Over, Stands
<1>4. PICK l \in Int : /\ Joins(c, l, S, S)
                       /\ Same(m, U.y, l * (x1 - (l * l - x1 - x1)) - y1)
  BY <1>1, LineMeets
<1>5. U.y \in Int /\ ~Same(m, U.y, 0)
  <2>1. At(i + i, N) \in 1 .. N - 1
    BY <1>1, LineMeets
  <2> QED
    BY <2>1, NotSelf
<1> DEFINE y2 == -y1
           y4 == V.y
           y5 == U.y
           a == 2 * y1 * l - 3 * x1 * x1
           b == y1 * y1 - x1 * x1 * x1 - a * x1
           t == y1 * y2
           u == a * (x1 + x1) + 3 * b
           v == 3 * (x1 * x1) + a
           w == 3 * b * (x1 + x1) + a * (x1 * x1 - a)
           xy == x1 * y2 + x1 * y1
           yz == y1 + y2
           x3 == l * l - x1 - x1
           y3 == l * (x1 - x3) - y1
           z == P.z * Q.z
<1>6. x1 \in Int /\ y1 \in Int /\ y2 \in Int /\ x3 \in Int /\ y4 \in Int /\ y5 \in Int
  <2>1. x1 \in Int /\ y1 \in Int /\ y4 \in Int
    BY <1>1, <1>2 DEF OnWeierstrass
  <2> HIDE DEF x1, y1
  <2> QED
    BY <1>4, <1>5, <2>1
<1>7. Same(m, l * (x1 - x1), y1 - y1) /\ Same(m, 2 * y1 * l + l * l * (x1 - x1) - (x1 * x1 + x1 * x1 + x1 * x1), c.a)
      /\ Same(m, y1 * y1, x1 * x1 * x1 + c.a * x1 + c.b)
  BY <1>2, <1>4 DEF Joins, OnWeierstrass
<1>8. Parts(x1, y1, x1, y2, a, b, t, u, v, w, xy, yz)
  BY DEF Parts
<1>9. Over(m, P, x1, y1) /\ Over(m, Q, x1, y4) /\ ~Same(m, y1, 0) /\ (y1 + y4) % m = 0 /\ Same(m, y5, y3)
  BY <1>2, <1>4
<1> HIDE DEF x1, y1, y4, y5, S, V, U, m
<1>10. a \in Int /\ Same(m, a, c.a)
  <2>1. a \in Int
    BY <1>4, <1>6
  <2>2. 2 * y1 * l + l * l * (x1 - x1) - (x1 * x1 + x1 * x1 + x1 * x1) = a
    BY <1>4, <1>6
  <2> QED
    BY <1>7, <2>1, <2>2
<1>11. b \in Int /\ Same(m, c.a, a) /\ Same(m, c.b, b)
  <2>1. Same(m, c.a, a)
    BY <1>1, <1>10, SameBack
  <2> DEFINE e == y1 * y1
             k == x1 * x1 * x1
             f == c.a * x1
             g == a * x1
  <2>2. /\ e \in Int /\ k \in Int /\ f \in Int /\ g \in Int /\ Same(m, e, k + f + c.b) /\ b = e - k - g
        /\ c.b \in Int /\ m \in Int
    <3>1. e \in Int /\ k \in Int /\ f \in Int /\ Same(m, e, k + f + c.b) /\ b = e - k - g /\ c.b \in Int /\ m \in Int
      BY <1>1, <1>6, <1>7
    <3>2. g \in Int
      <4> HIDE DEF a
      <4> QED
        BY <1>6, <1>10
    <3> QED
      BY <3>1, <3>2
  <2>3. Same(m, f, g)
    <3>1. Same(m, x1, x1)
      BY <1>1, <1>6, SameSelf
    <3> HIDE DEF a
    <3> QED
      BY <1>1, <1>6, <1>10, <2>1, <3>1, SameProduct
  <2> HIDE DEF e, k, f, g, b
  <2>4. PICK n \in Int : e = (k + f + c.b) + n * m
    BY <2>2 DEF Same
  <2>5. PICK h \in Int : f = g + h * m
    BY <2>3 DEF Same
  <2>6. b \in Int
    BY <2>2
  <2>7. -n - h \in Int /\ c.b = b + (-n - h) * m
    <3> DEFINE q == c.b
    <3>1. q \in Int /\ e = (k + f + q) + n * m
      BY <2>2, <2>4
    <3> HIDE DEF q
    <3>2. -n - h \in Int /\ q = b + (-n - h) * m
      BY ONLY <2>2, <2>5, <3>1, n \in Int, h \in Int, SMT
    <3> QED
      BY <3>2 DEF q
  <2> QED
    BY <2>1, <2>6, <2>7 DEF Same
<1> HIDE DEF a, b
<1>12. Over(m, Q, x1, y2)
  <2>1. Same(m, y4, y2)
    <3> DEFINE e == y1 + y4
    <3>1. e \in Int /\ e - 0 = e /\ e % m = 0 /\ 0 \in Int
      BY <1>6, <1>9
    <3> HIDE DEF e
    <3>2. Same(m, e, 0)
      BY <1>1, <3>1, SameZero
    <3>3. y4 - y2 = e
      BY <1>6 DEF e
    <3> HIDE DEF y2
    <3> QED
      BY <1>1, <1>6, <3>2, <3>3, SameDifference
  <2>2. Same(m, x1, x1)
    BY <1>1, <1>6, SameSelf
  <2> HIDE DEF y2
  <2> QED
    BY <1>1, <1>6, <1>9, <2>1, <2>2, OverSame
<1> DEFINE X == xy * (t - u) - yz * w
           Y == (t - u) * (t + u) + v * w
           Z == yz * (t + u) + xy * v
<1>13. /\ R \in Coordinates(c) /\ R.x \in Int /\ R.y \in Int /\ R.z \in Int /\ z \in Int
       /\ Same(m, R.x, (z * z) * X) /\ Same(m, R.y, (z * z) * Y) /\ Same(m, R.z, (z * z) * Z)
  <2> HIDE DEF y2, t, u, v, w, xy, yz
  <2> QED
    BY <1>1, <1>6, <1>8, <1>9, <1>10, <1>11, <1>12, GeneralScales DEF m
<1>14. X = 0 /\ Z = 0 /\ Y = 8 * y1 * y1 * y1 * y3
  <2>1. a = 2 * y1 * l - 3 * x1 * x1 /\ b = y1 * y1 - x1 * x1 * x1 - a * x1
    BY DEF a, b
  <2>2. y2 = -y1 /\ x3 = l * l - x1 - x1 /\ y3 = l * (x1 - x3) - y1
    OBVIOUS
  <2> HIDE DEF y2, t, u, v, w, xy, yz, x3, y3
  <2> QED
    <3>1. TurnedOver(x1, y1, l, y2, a, b, x3, y3) /\ Parts(x1, y1, x1, y2, a, b, t, u, v, w, xy, yz)
      BY <1>4, <1>6, <1>8, <2>1, <2>2 DEF TurnedOver
    <3>2. /\ xy * (t - u) - yz * w = 0
          /\ (t - u) * (t + u) + v * w = 8 * y1 * y1 * y1 * y3
          /\ yz * (t + u) + xy * v = 0
      BY ONLY <3>1, OppositeIdentity
    <3> QED
      BY <3>2
<1>15. y3 \in Int
  <2> HIDE DEF x3
  <2> QED
    BY <1>4, <1>6
<1> HIDE DEF X, Y, Z, y3, x3, z
<1>16. R.x = 0 /\ R.z = 0
  <2>1. z * z \in Int /\ (z * z) * 0 = 0
    BY <1>13
  <2>2. Same(m, R.x, 0) /\ Same(m, R.z, 0)
    BY <1>13, <1>14, <2>1
  <2> QED
    BY <1>1, <1>13, <2>2, CoordinatesAre DEF m
<1>17. R.y # 0
  <2>1. ~Same(m, z, 0)
    BY <1>1, <1>3, NonZeroProduct DEF z, m
  <2> DEFINE e == z * z
             f == y1 * y1 * y1
             g == f * y3
             h == 8 * g
  <2>2. e \in Int /\ ~Same(m, e, 0)
    BY <1>1, <1>13, <2>1, NonZeroProduct
  <2>3. f \in Int /\ ~Same(m, f, 0)
    BY <1>1, <1>6, <1>9, NonZeroCube
  <2>4. ~Same(m, y3, 0)
    <3>1. ASSUME Same(m, y3, 0) PROVE FALSE
      <4>1. Same(m, y5, 0)
        BY <1>1, <1>6, <1>9, <1>15, <3>1, SameTrans
      <4> QED
        BY <1>5, <4>1 DEF y5
    <3> QED
      BY <3>1
  <2> HIDE DEF e, f
  <2>5. g \in Int /\ ~Same(m, g, 0)
    BY <1>1, <1>15, <2>3, <2>4, NonZeroProduct
  <2>6. 8 * y1 * y1 * y1 * y3 = h
    BY <1>6, <1>15 DEF f
  <2> HIDE DEF g
  <2>7. ~Same(m, h, 0) /\ h \in Int
    <3>1. 2 \in Int /\ ~Same(m, 2, 0)
      <4>1. c.p > 2
        BY CurveFacts
      <4>2. 2 \in 0 .. m - 1 /\ 0 \in 0 .. m - 1 /\ 2 # 0
        BY <1>1, <4>1 DEF m
      <4> QED
        BY <1>1, <4>2, SameSmall
    <3>2. 2 * 2 * 2 = 8
      OBVIOUS
    <3>3. 8 \in Int /\ ~Same(m, 8, 0)
      BY <1>1, <3>1, <3>2, NonZeroCube
    <3> QED
      BY <1>1, <2>5, <3>3, NonZeroProduct
  <2> HIDE DEF h
  <2>8. e * h \in Int /\ ~Same(m, e * h, 0) /\ Same(m, R.y, e * h)
    BY <1>1, <1>13, <1>14, <2>2, <2>6, <2>7, NonZeroProduct DEF e
  <2> DEFINE k == e * h
  <2>9. k \in Int /\ ~Same(m, k, 0) /\ Same(m, k, R.y)
    BY <1>1, <1>13, <2>8, SameBack
  <2> HIDE DEF k
  <2>10. ASSUME R.y = 0 PROVE FALSE
    BY <2>9, <2>10
  <2> QED
    BY <2>10
<1> QED
  BY <1>13, <1>16, <1>17

(* A projective point satisfies the equation of its curve.                  *)
LEMMA Homogeneous ==
  ASSUME NEW m \in Nat, NEW x \in Int, NEW y \in Int, NEW a \in Int, NEW b \in Int,
         Same(m, y * y, x * x * x + a * x + b),
         NEW X \in Int, NEW Y \in Int, NEW Z \in Int, Same(m, X, x * Z), Same(m, Y, y * Z)
  PROVE  Same(m, Y * Y * Z, X * X * X + a * X * Z * Z + b * Z * Z * Z)
<1>1. PICK h \in Int : y * y = (x * x * x + a * x + b) + h * m
  BY DEF Same
<1>2. PICK i \in Int : X = x * Z + i * m
  BY DEF Same
<1>3. PICK j \in Int : Y = y * Z + j * m
  BY DEF Same
<1> DEFINE w == h * Z * Z * Z + (2 * y * Z * j + j * j * m) * Z
                - (3 * x * x * Z * Z * i + 3 * x * Z * i * i * m + i * i * i * m * m) - a * i * Z * Z
<1>4. w \in Int
  OBVIOUS
<1>5. Y * Y * Z = (X * X * X + a * X * Z * Z + b * Z * Z * Z) + w * m
  <2>1. b = y * y - x * x * x - a * x - h * m
    BY <1>1
  <2> QED
    BY <1>2, <1>3, <2>1, SMT
<1> QED
  BY <1>4, <1>5 DEF Same

LEMMA DoublingScale ==
  ASSUME NEW m \in Nat, NEW a \in Int, NEW b \in Int, NEW X \in Int, NEW Y \in Int, NEW Z \in Int,
         Same(m, Y * Y * Z, X * X * X + a * X * Z * Z + b * Z * Z * Z)
  PROVE  Same(m, (2 * Y * Z) * (Y * Y + (a * (2 * X * Z) + 3 * b * (Z * Z))) + (2 * X * Y) * (3 * (X * X) + a * (Z * Z)),
              4 * (2 * Y * Z) * (Y * Y))
<1>1. PICK h \in Int : Y * Y * Z = (X * X * X + a * X * Z * Z + b * Z * Z * Z) + h * m
  BY DEF Same
<1> DEFINE w == -(6 * Y * h)
<1>2. w \in Int
  OBVIOUS
<1>3. (2 * Y * Z) * (Y * Y + (a * (2 * X * Z) + 3 * b * (Z * Z))) + (2 * X * Y) * (3 * (X * X) + a * (Z * Z))
        = 4 * (2 * Y * Z) * (Y * Y) + w * m
  <2> DEFINE H == Y * Y * Z - (X * X * X + a * X * Z * Z + b * Z * Z * Z)
             L == (2 * Y * Z) * (Y * Y + (a * (2 * X * Z) + 3 * b * (Z * Z))) + (2 * X * Y) * (3 * (X * X) + a * (Z * Z))
             G == 4 * (2 * Y * Z) * (Y * Y)
  <2>1. L = G - 6 * Y * H
    BY SMT
  <2>2. H = h * m /\ H \in Int /\ h * m \in Int
    BY <1>1
  <2>3. L \in Int /\ G \in Int
    OBVIOUS
  <2> HIDE DEF L, G, H
  <2>4. w * m = -(6 * Y * (h * m))
    BY SMT
  <2>5. L = G + w * m
    BY <2>1, <2>2, <2>3, <2>4
  <2> QED
    BY <2>5 DEF L, G
<1> QED
  BY <1>2, <1>3 DEF Same

(* Doubling computes what adding a point to itself does.                    *)
LEMMA DoublingIs ==
  ASSUME NEW c, c.p \in Nat, c.p > 0, c.a \in Int, c.b \in Int, NEW P, NEW x, NEW y, Over(c.p, P, x, y),
         Same(c.p, y * y, x * x * x + c.a * x + c.b)
  PROVE  /\ DblGeneral(c, P) = AddGeneral(c, P, P)
         /\ c.a = -3 => DblMinus3(c, P) = AddGeneral(c, P, P)
<1> DEFINE m == c.p
           a == c.a
           b == c.b
           X == P.x
           Y == P.y
           Z == P.z
           t0 == X * X
           t1 == Y * Y
           t2 == Z * Z
           xz == 2 * X * Z
           u == a * xz + 3 * b * t2
           v == 3 * t0 + a * t2
           w == 3 * b * xz + a * (t0 - a * t2)
           s == 2 * Y * Z
           xy == 2 * X * Y
           F == s * (t1 + u) + xy * v
           G == 4 * s * t1
<1>1. /\ m \in Nat /\ m > 0 /\ a \in Int /\ b \in Int /\ x \in Int /\ y \in Int /\ X \in Int /\ Y \in Int /\ Z \in Int
      /\ Same(m, X, x * Z) /\ Same(m, Y, y * Z) /\ Same(m, y * y, x * x * x + a * x + b)
  BY DEF Over
<1>2. DblGeneral(c, P) = Reduced(c, (t1 - u) * 2 * X * Y - s * w, (t1 - u) * (t1 + u) + v * w, G)
  BY DEF DblGeneral, DoubleCombine
<1>3. c.a = -3 => DblMinus3(c, P) = Reduced(c, (t1 - 3 * (b * t2 - xz)) * 2 * X * Y - s * (3 * (b * xz - 3 * t2 - t0)),
                        (t1 - 3 * (b * t2 - xz)) * (t1 + 3 * (b * t2 - xz)) + 3 * (t0 - t2) * (3 * (b * xz - 3 * t2 - t0)), G)
  BY DEF DblMinus3, DoubleCombine
<1>4. AddGeneral(c, P, P) = LET XY == (X + Y) * (X + Y) - (t0 + t1)
                                XZ == (X + Z) * (X + Z) - (t0 + t2)
                                YZ == (Y + Z) * (Y + Z) - (t1 + t2)
                            IN  Combine(c, t1, a * XZ + 3 * b * t2, v, 3 * b * XZ + a * (t0 - a * t2), XY, YZ)
  BY DEF AddGeneral
<1> HIDE DEF m, a, b, X, Y, Z
<1>5. /\ (X + Y) * (X + Y) - (t0 + t1) = xy /\ (X + Z) * (X + Z) - (t0 + t2) = xz
      /\ (Y + Z) * (Y + Z) - (t1 + t2) = s
  BY <1>1, SMT
<1>6. AddGeneral(c, P, P) = Combine(c, t1, u, v, w, xy, s)
  BY <1>4, <1>5
<1>7. Combine(c, t1, u, v, w, xy, s) = Reduced(c, xy * (t1 - u) - s * w, (t1 - u) * (t1 + u) + v * w, F)
  BY DEF Combine
<1>8. Same(m, F, G)
  <2>1. Same(m, Y * Y * Z, X * X * X + a * X * Z * Z + b * Z * Z * Z)
    BY <1>1, Homogeneous
  <2> QED
    BY <1>1, <2>1, DoublingScale
<1>9. t0 \in Int /\ t1 \in Int /\ t2 \in Int /\ xz \in Int /\ s \in Int /\ xy \in Int
  BY <1>1
<1> HIDE DEF t0, t1, t2, xz, s
<1>10. u \in Int /\ v \in Int /\ w \in Int
  BY <1>1, <1>9
<1>11. (t1 - u) * 2 * X * Y - s * w = xy * (t1 - u) - s * w
  <2> HIDE DEF u, v, w
  <2> QED
    BY <1>1, <1>9, <1>10, SMT
<1>12. a = -3 => 3 * (b * t2 - xz) = u /\ 3 * (t0 - t2) = v /\ 3 * (b * xz - 3 * t2 - t0) = w
  BY <1>1, <1>9, SMT
<1>13. F \in Int /\ G \in Int
  <2> HIDE DEF u, v, w, xy
  <2> QED
    BY <1>1, <1>9, <1>10
<1> HIDE DEF u, v, w, xy, F, G
<1>14. F % m = G % m
  BY <1>1, <1>8, <1>13, SameMod
<1>15. DblGeneral(c, P) = AddGeneral(c, P, P)
  BY <1>2, <1>6, <1>7, <1>11, <1>14 DEF Reduced, m
<1>16. ASSUME c.a = -3 PROVE DblMinus3(c, P) = DblGeneral(c, P)
  <2>1. a = -3
    BY <1>16 DEF a
  <2> QED
    BY <1>2, <1>3, <1>12, <1>16, <2>1
<1> QED
  BY <1>15, <1>16

(* P is stored in reduced coordinates and stands for the multiple i.        *)
Stores(c, T, i, P) == P \in Coordinates(c) /\ Represents(c, P, T[i])

(* The place of a number of times below the order in the table.             *)
Place(m, N) == IF m = 0 THEN N ELSE m

LEMMA WeierstrassStores ==
  ASSUME NEW c, NEW T, NEW N, IsCurve(c, T, N), c.type = "weierstrass", NEW i \in 1 .. N, NEW P
  PROVE  /\ Stores(c, T, i, P) /\ i # N => Stands(c, P, T[i]) /\ ~IsInfinityOn(c, P)
         /\ Stores(c, T, i, P) /\ i = N => P.x = 0 /\ P.y # 0 /\ P.z = 0 /\ IsInfinityOn(c, P)
         /\ Stands(c, P, T[i]) /\ i # N => Stores(c, T, i, P)
         /\ P \in Coordinates(c) /\ P.x = 0 /\ P.z = 0 /\ P.y # 0 => Stores(c, T, N, P)
<1>1. c.p \in Nat /\ c.p > 0 /\ N \in Nat /\ T[N] = O
  <2>1. c.p > 2 /\ c.p \in Nat /\ N \in Nat /\ T[N] = Neutral(c)
    BY CurveFacts
  <2> QED
    BY <2>1 DEF Neutral
<1>2. P \in Coordinates(c) /\ P.x = 0 /\ P.z = 0 /\ P.y # 0 => Stores(c, T, N, P)
  BY <1>1 DEF Stores, Represents
<1>3. CASE i = N
  BY <1>1, <1>2, <1>3 DEF Stores, Represents, IsInfinityOn
<1>4. CASE i # N
  <2>1. i \in 1 .. N - 1
    BY <1>1, <1>4
  <2>2. T[i] # O /\ T[i].x \in Int /\ T[i].y \in Int
    <3>1. T[i] # O /\ T[i].x \in 0 .. c.p - 1 /\ T[i].y \in 0 .. c.p - 1
      <4>1. OnWeierstrass(c, T[i]) /\ T[i] # O
        BY <2>1, PointOnWeierstrass
      <4> QED
        BY <4>1 DEF OnWeierstrass
    <3> QED
      BY <1>1, <3>1
  <2>3. P \in Coordinates(c) => (Represents(c, P, T[i]) <=> Stands(c, P, T[i]))
    <3> DEFINE S == T[i]
    <3> HIDE DEF S
    <3>1. P \in Coordinates(c) => (Represents(c, P, S) <=> Stands(c, P, S))
      BY <1>1, <2>2, StandsIs DEF S
    <3> QED
      BY <3>1 DEF S
  <2>4. ASSUME Stands(c, P, T[i]) PROVE ~IsInfinityOn(c, P)
    <3>1. P.z # 0
      <4>1. P \in Coordinates(c) /\ ~Same(c.p, P.z, 0)
        BY <2>4 DEF Stands
      <4> QED
        BY <1>1, <4>1, CoordinatesAre
    <3> QED
      BY <3>1 DEF IsInfinityOn
  <2>5. Stores(c, T, i, P) <=> Stands(c, P, T[i])
    BY <2>3 DEF Stores, Stands
  <2> QED
    BY <1>2, <1>4, <2>4, <2>5
<1> QED
  BY <1>3, <1>4

LEMMA StoredNumbers ==
  ASSUME NEW c, NEW T, NEW N, IsCurve(c, T, N), NEW i, NEW P, Stores(c, T, i, P)
  PROVE  P.x \in Int /\ P.y \in Int /\ P.z \in Int
  BY CurveFacts, CoordinatesAre DEF Stores

(* The sum of two stored points.                                            *)
LEMMA WeierstrassAdd ==
  ASSUME NEW c, NEW T, NEW N, IsCurve(c, T, N), c.type = "weierstrass",
         NEW i \in 1 .. N, NEW j \in 1 .. N, NEW P, NEW Q, Stores(c, T, i, P), Stores(c, T, j, Q)
  PROVE  Stores(c, T, At(i + j, N), AddOn(c, P, Q))
<1>1. c.p \in Nat /\ c.p > 2 /\ N \in Nat /\ N > 2 /\ c.a \in Int /\ c.b \in Int
  BY CurveFacts
<1>2. At(i + j, N) = IF i + j <= N THEN i + j ELSE i + j - N
  BY <1>1, SumPlace
<1>3. CASE i = N
  <2>1. AddOn(c, P, Q) = Q
    BY <1>3, WeierstrassStores DEF AddOn
  <2>2. At(i + j, N) = j
    <3>1. i = N /\ j \in Nat /\ j > 0 /\ (i + j <= N <=> FALSE) /\ i + j - N = j
      BY <1>1, <1>3
    <3> QED
      BY <1>2, <3>1
  <2> QED
    BY <2>1, <2>2
<1>4. CASE i # N /\ j = N
  <2>1. AddOn(c, P, Q) = P
    BY <1>4, WeierstrassStores DEF AddOn
  <2>2. At(i + j, N) = i
    <3>1. j = N /\ i \in Nat /\ i > 0 /\ (i + j <= N <=> FALSE) /\ i + j - N = i
      BY <1>1, <1>4
    <3> QED
      BY <1>2, <3>1
  <2> QED
    BY <2>1, <2>2
<1>5. CASE i # N /\ j # N
  <2> DEFINE R == AddGeneral(c, P, Q)
  <2>1. i \in 1 .. N - 1 /\ j \in 1 .. N - 1
    BY <1>1, <1>5
  <2>2. Stands(c, P, T[i]) /\ Stands(c, Q, T[j]) /\ ~IsInfinityOn(c, P) /\ ~IsInfinityOn(c, Q)
    BY <1>5, WeierstrassStores
  <2>3. P.x \in Int /\ P.y \in Int /\ P.z \in Int /\ Q.x \in Int /\ Q.y \in Int /\ Q.z \in Int
    BY StoredNumbers
  <2>4. AddOn(c, P, Q) = R
    <3>1. AddOn(c, P, Q) = IF c.a = -3 THEN AddMinus3(c, P, Q) ELSE AddGeneral(c, P, Q)
      BY <2>2 DEF AddOn
    <3> QED
      BY <1>1, <2>3, <3>1, Minus3Is
  <2> HIDE DEF R
  <2>5. CASE i + j = N
    <3>1. R \in Coordinates(c) /\ R.x = 0 /\ R.z = 0 /\ R.y # 0
      BY <2>1, <2>2, <2>5, OppositeSum DEF R
    <3>2. At(i + j, N) = N
      BY <1>1, <1>2, <2>5
    <3> QED
      BY <2>4, <3>1, <3>2, WeierstrassStores
  <2>6. CASE i + j # N
    <3>1. Stands(c, R, T[At(i + j, N)])
      BY <2>1, <2>2, <2>6, GeneralSum DEF R
    <3>2. At(i + j, N) \in 1 .. N /\ At(i + j, N) # N
      BY <1>1, <1>2, <2>1, <2>6
    <3> QED
      BY <2>4, <3>1, <3>2, WeierstrassStores
  <2> QED
    BY <2>5, <2>6
<1> QED
  BY <1>3, <1>4, <1>5

LEMMA WeierstrassDouble ==
  ASSUME NEW c, NEW T, NEW N, IsCurve(c, T, N), c.type = "weierstrass",
         NEW i \in 1 .. N, NEW P, Stores(c, T, i, P)
  PROVE  Stores(c, T, At(i + i, N), DblOn(c, P))
<1>1. c.p \in Nat /\ c.p > 0 /\ N \in Nat /\ N > 2 /\ c.a \in Int /\ c.b \in Int
  <2>1. c.p \in Nat /\ c.p > 2 /\ N \in Nat /\ N > 2 /\ c.a \in Int /\ c.b \in Int
    BY CurveFacts
  <2> QED
    BY <2>1
<1>2. Stores(c, T, At(i + i, N), AddOn(c, P, P))
  BY WeierstrassAdd
<1>3. CASE i = N
  <2>1. IsInfinityOn(c, P)
    BY <1>3, WeierstrassStores
  <2>2. DblOn(c, P) = P /\ AddOn(c, P, P) = P
    BY <2>1 DEF DblOn, AddOn
  <2> QED
    BY <1>2, <2>2
<1>4. CASE i # N
  <2>1. i \in 1 .. N - 1
    BY <1>1, <1>4
  <2>2. Stands(c, P, T[i]) /\ ~IsInfinityOn(c, P)
    BY <1>4, WeierstrassStores
  <2>3. P.x \in Int /\ P.y \in Int /\ P.z \in Int
    BY StoredNumbers
  <2>4. Over(c.p, P, T[i].x, T[i].y) /\ OnWeierstrass(c, T[i])
    BY <2>1, <2>2, PointOnWeierstrass DEF Stands
  <2>5. DblGeneral(c, P) = AddGeneral(c, P, P) /\ (c.a = -3 => DblMinus3(c, P) = AddGeneral(c, P, P))
    BY <1>1, <2>4, DoublingIs DEF OnWeierstrass
  <2>6. c.a = -3 => AddMinus3(c, P, P) = AddGeneral(c, P, P)
    BY <1>1, <2>3, Minus3Is
  <2>7. DblOn(c, P) = AddOn(c, P, P)
    BY <2>2, <2>5, <2>6 DEF DblOn, AddOn
  <2> QED
    BY <1>2, <2>7
<1> QED
  BY <1>3, <1>4

LEMMA WeierstrassNegate ==
  ASSUME NEW c, NEW T, NEW N, IsCurve(c, T, N), c.type = "weierstrass",
         NEW i \in 1 .. N, NEW P, Stores(c, T, i, P)
  PROVE  Stores(c, T, IF i = N THEN N ELSE N - i, NegOn(c, P))
<1> DEFINE R == NegOn(c, P)
           m == c.p
<1>1. m \in Nat /\ m > 0 /\ N \in Nat /\ N > 2
  <2>1. m \in Nat /\ m > 2 /\ N \in Nat /\ N > 2
    BY CurveFacts
  <2> QED
    BY <2>1
<1>2. P \in Coordinates(c) /\ P.x \in Int /\ P.y \in Int /\ P.z \in Int
  BY StoredNumbers DEF Stores
<1> DEFINE e == -P.y
<1>3. R = Reduced(c, P.x, e, P.z) /\ e \in Int
  BY <1>2 DEF NegOn
<1> HIDE DEF R, e
<1>4. /\ R \in Coordinates(c) /\ R.x \in Int /\ R.y \in Int /\ R.z \in Int
      /\ Same(m, R.x, P.x) /\ Same(m, R.y, e) /\ Same(m, R.z, P.z)
      /\ R.x = P.x % m /\ R.y = e % m /\ R.z = P.z % m
  BY <1>1, <1>2, <1>3, ReducedIs
<1>5. R.x = P.x /\ R.z = P.z
  <2>1. /\ P.x \in 0 .. m - 1 /\ R.x \in 0 .. m - 1 /\ P.z \in 0 .. m - 1 /\ R.z \in 0 .. m - 1
    BY <1>1, <1>2, <1>4, CoordinatesAre
  <2> QED
    BY <1>1, <1>4, <2>1, SameSmall
<1>6. CASE i = N
  <2>1. P.x = 0 /\ P.y # 0 /\ P.z = 0
    BY <1>6, WeierstrassStores
  <2>2. ASSUME R.y = 0 PROVE FALSE
    <3>1. Same(m, 0, e)
      BY <1>4, <2>2
    <3>2. PICK h \in Int : 0 = e + h * m
      BY <3>1 DEF Same
    <3>3. P.y = 0 + h * m
      BY <1>1, <1>2, <3>2 DEF e
    <3>4. Same(m, P.y, 0)
      BY <3>3 DEF Same
    <3> QED
      BY <1>1, <1>2, <2>1, <3>4, CoordinatesAre
  <2> QED
    BY <1>4, <1>5, <1>6, <2>1, <2>2, WeierstrassStores DEF R
<1>7. CASE i # N
  <2> DEFINE j == N - i
             x == T[i].x
             y == T[i].y
             y2 == T[j].y
  <2>1. i \in 1 .. N - 1 /\ j \in 1 .. N - 1 /\ i + j = N /\ j # N /\ j \in 1 .. N
    BY <1>1, <1>7
  <2>2. P.z # 0 /\ Over(m, P, x, y)
    <3>1. Stands(c, P, T[i])
      BY <1>7, WeierstrassStores
    <3>2. P.z # 0
      BY <1>1, <1>2, <3>1, CoordinatesAre DEF Stands
    <3> QED
      BY <3>1, <3>2 DEF Stands
  <2> HIDE DEF j
  <2>3. T[j].x = x /\ (y + y2) % m = 0 /\ y \in Int /\ y2 \in Int
    BY <2>1, WeierstrassSum, NotSelf
  <2>4. Same(m, P.x, x * P.z) /\ Same(m, P.y, y * P.z) /\ x \in Int
    BY <2>2 DEF Over
  <2> HIDE DEF x, y, y2
  <2>5. Same(m, y + y2, 0)
    <3> DEFINE s == y + y2
    <3>1. s \in Int /\ s - 0 = s /\ s % m = 0 /\ 0 \in Int
      BY <2>3
    <3> HIDE DEF s
    <3>2. Same(m, s, 0)
      BY <1>1, <3>1, SameZero
    <3> QED
      BY <3>2 DEF s
  <2>6. Same(m, R.y, y2 * P.z)
    <3>1. PICK h \in Int : y + y2 = 0 + h * m
      BY <2>5 DEF Same
    <3>2. PICK k \in Int : P.y = y * P.z + k * m
      BY <2>4 DEF Same
    <3>3. PICK n \in Int : R.y = e + n * m
      BY <1>4 DEF Same
    <3> DEFINE Z == P.z
               Y == P.y
               Q == R.y
    <3>4. /\ Y = y * Z + k * m /\ Q = (-Y) + n * m /\ y + y2 = h * m /\ Y \in Int /\ Z \in Int /\ Q \in Int
          /\ y \in Int /\ y2 \in Int /\ m \in Int
      BY <1>1, <1>2, <1>4, <2>3, <3>1, <3>2, <3>3 DEF e
    <3> HIDE DEF Z, Y, Q
    <3>5. n - k - h * Z \in Int /\ Q = y2 * Z + (n - k - h * Z) * m
      <4>1. y2 = h * m - y
        BY <3>4
      <4> QED
        BY ONLY <3>4, <4>1, h \in Int, k \in Int, n \in Int, SMT
    <3> QED
      BY <3>5 DEF Same, Z, Q
  <2>7. Over(m, R, T[j].x, T[j].y)
    BY <1>2, <1>4, <1>5, <2>3, <2>4, <2>6 DEF Over, y2
  <2>8. ~Same(m, R.z, 0)
    BY <1>1, <1>4, <1>5, <2>2, CoordinatesAre
  <2>9. Stands(c, R, T[j])
    BY <1>4, <2>7, <2>8 DEF Stands
  <2> QED
    BY <1>7, <2>1, <2>9, WeierstrassStores DEF j, R
<1> QED
  BY <1>6, <1>7

(* The affine coordinate of a scaled one.                                   *)
LEMMA AffineCoordinate ==
  ASSUME NEW c, Prime(c.p), NEW Z \in 0 .. c.p - 1, Z # 0, NEW X \in Int, NEW x \in 0 .. c.p - 1, Same(c.p, X, x * Z)
  PROVE  X * InverseMod(c, Z) \in Int /\ (X * InverseMod(c, Z)) % c.p = x
<1> DEFINE m == c.p
           w == InverseMod(c, Z)
<1>1. m \in Nat /\ m > 0 /\ Z \in Int /\ x \in Int /\ 0 \in 0 .. m - 1 /\ x % m = x /\ Z % m = Z
  <2>1. m \in Nat /\ m > 1
    BY DEF Prime
  <2> QED
    BY <2>1, SmallRemainder
<1>2. ~Same(m, Z, 0)
  BY <1>1, SameSmall
<1>3. w \in Int /\ Same(m, Z * w, 1)
  <2>1. InverseMod(c, Z % m) \in 1 .. m - 1 /\ Same(m, Z * InverseMod(c, Z % m), 1)
    BY <1>1, <1>2, InverseIs
  <2> QED
    BY <1>1, <2>1
<1> HIDE DEF w, m
<1>4. PICK h \in Int : Z * w = 1 + h * m
  BY <1>3 DEF Same
<1>5. PICK k \in Int : X = x * Z + k * m
  BY DEF Same, m
<1>6. x * h + k * w \in Int /\ X * w = x + (x * h + k * w) * m
  <2>1. X * w = x * (Z * w) + (k * w) * m
    BY <1>1, <1>3, <1>5, SMT
  <2> DEFINE e == Z * w
  <2>2. e \in Int /\ X * w = x * e + (k * w) * m /\ e = 1 + h * m
    BY <1>1, <1>3, <1>4, <2>1
  <2> HIDE DEF e
  <2> QED
    BY <1>1, <1>3, <2>2, SMT
<1> DEFINE e == X * w
<1>7. e \in Int /\ Same(m, e, x)
  BY <1>3, <1>6 DEF Same
<1> HIDE DEF e
<1>8. e % m = x % m
  BY <1>1, <1>7, SameMod
<1> QED
  BY <1>1, <1>7, <1>8 DEF e, w, m

(* A stored point is accepted by is_on_curve, as its affine point is.       *)
LEMMA ScaledOnCurve ==
  ASSUME NEW c, NEW T, NEW N, IsCurve(c, T, N), c.type # "montgomery", NEW i \in 1 .. N - 1,
         NEW P, P \in Coordinates(c), Over(c.p, P, T[i].x, T[i].y), P.z # 0
  PROVE  IsOnCurve(c, P)
<1> DEFINE S == T[i]
           m == c.p
           w == InverseMod(c, P.z)
<1>1. Prime(m) /\ m \in Nat /\ m > 2 /\ IsPointOf(c, T, N, i) /\ S # Neutral(c)
  BY CurveFacts
<1>2. /\ S = [x |-> S.x, y |-> S.y] /\ S.x \in 0 .. m - 1 /\ S.y \in 0 .. m - 1 /\ IsOnCurve(c, Point(S.x, S.y, 1))
  BY <1>1 DEF IsPointOf
<1>3. ~IsInfinityOn(c, Point(S.x, S.y, 1)) /\ AffineOn(c, Point(S.x, S.y, 1)) = Point(S.x, S.y, 1)
  <2>1. [x |-> S.x, y |-> S.y] # Neutral(c)
    BY <1>1, <1>2
  <2> QED
    BY <1>1, <1>2, <2>1, AffineIs
<1>4. (S.y * S.y - Rhs(c, S.x)) % m = 0
  <2> DEFINE R == Point(S.x, S.y, 1)
  <2>1. R.x = S.x /\ R.y = S.y
    BY DEF Point
  <2> HIDE DEF R
  <2>2. (R.y * R.y - Rhs(c, R.x)) % m = 0
    BY <1>2, <1>3 DEF IsOnCurve, R
  <2> QED
    BY <2>1, <2>2
<1>5. /\ P.z \in 0 .. m - 1 /\ P.x \in Int /\ P.y \in Int /\ Same(m, P.x, S.x * P.z) /\ Same(m, P.y, S.y * P.z)
  BY <1>1, CoordinatesAre DEF Over
<1>6. (P.x * w) % m = S.x /\ (P.y * w) % m = S.y
  BY <1>1, <1>2, <1>5, AffineCoordinate
<1>7. CASE IsInfinityOn(c, P)
  BY <1>7 DEF IsOnCurve
<1>8. CASE ~IsInfinityOn(c, P)
  <2> DEFINE A == AffineOn(c, P)
  <2>1. A.x = S.x /\ A.y = S.y
    BY <1>6, <1>8 DEF AffineOn, Reduced, Point
  <2> HIDE DEF A
  <2>2. (A.y * A.y - Rhs(c, A.x)) % m = 0
    BY <1>4, <2>1
  <2> QED
    BY <1>8, <2>2 DEF IsOnCurve, A
<1> QED
  BY <1>7, <1>8

LEMMA WeierstrassOnCurve ==
  ASSUME NEW c, NEW T, NEW N, IsCurve(c, T, N), c.type = "weierstrass",
         NEW i \in 1 .. N, NEW P, Stores(c, T, i, P)
  PROVE  IsOnCurve(c, P)
<1>1. CASE i = N
  BY <1>1, WeierstrassStores DEF IsOnCurve
<1>2. CASE i # N
  <2>1. i \in 1 .. N - 1 /\ c.p \in Nat /\ c.p > 0
    <3>1. N \in Nat /\ c.p \in Nat /\ c.p > 2
      BY CurveFacts
    <3> QED
      BY <1>2, <3>1
  <2>2. Stands(c, P, T[i])
    BY <1>2, WeierstrassStores
  <2>3. P \in Coordinates(c) /\ Over(c.p, P, T[i].x, T[i].y) /\ P.z # 0
    BY <2>1, <2>2, CoordinatesAre DEF Stands
  <2> QED
    BY <2>1, <2>3, ScaledOnCurve
<1> QED
  BY <1>1, <1>2

(* Cross products compare affine coordinates.                               *)
LEMMA CrossIs ==
  ASSUME NEW m, Prime(m), NEW x1 \in 0 .. m - 1, NEW x2 \in 0 .. m - 1,
         NEW X1 \in Int, NEW Z1 \in Int, NEW X2 \in Int, NEW Z2 \in Int, ~Same(m, Z1, 0), ~Same(m, Z2, 0),
         Same(m, X1, x1 * Z1), Same(m, X2, x2 * Z2)
  PROVE  (X1 * Z2 - X2 * Z1) % m = 0 <=> x1 = x2
<1>1. m \in Nat /\ m > 0 /\ x1 \in Int /\ x2 \in Int /\ 0 \in Int
  BY DEF Prime
<1>2. PICK h \in Int : X1 = x1 * Z1 + h * m
  BY DEF Same
<1>3. PICK k \in Int : X2 = x2 * Z2 + k * m
  BY DEF Same
<1> DEFINE d == X1 * Z2 - X2 * Z1
           e == x1 - x2
           f == Z1 * Z2
           g == e * f
<1>4. e \in Int /\ f \in Int /\ d \in Int /\ h * Z2 - k * Z1 \in Int
  BY <1>1
<1>5. d = g + (h * Z2 - k * Z1) * m
  BY <1>1, <1>2, <1>3, SMT
<1>6. g \in Int
  <2> HIDE DEF e, f
  <2> QED
    BY <1>4
<1>7. d - 0 = d
  BY <1>4
<1>8. ~Same(m, f, 0)
  BY NonZeroProduct
<1> HIDE DEF d, f, g
<1>9. Same(m, d, g)
  BY <1>4, <1>5 DEF Same
<1>10. d % m = 0 <=> Same(m, d, 0)
  BY <1>1, <1>4, <1>7, SameZero
<1>11. Same(m, d, 0) <=> Same(m, g, 0)
  <2>1. Same(m, g, d)
    BY <1>1, <1>4, <1>6, <1>9, SameBack
  <2> QED
    BY <1>1, <1>4, <1>6, <1>9, <2>1, SameTrans
<1>12. ASSUME Same(m, g, 0) PROVE x1 = x2
  <2>1. Same(m, e * f, 0)
    BY <1>12 DEF g
  <2> HIDE DEF e
  <2>2. Same(m, e, 0)
    BY <1>4, <1>8, <2>1, NoZeroDivisor
  <2>3. Same(m, x1, x2)
    BY <1>1, <2>2, SameDifference DEF e
  <2> QED
    BY <1>1, <2>3, SameSmall
<1>13. ASSUME x1 = x2 PROVE Same(m, g, 0)
  <2>1. e = 0
    BY <1>1, <1>13
  <2> HIDE DEF e
  <2>2. g = 0
    BY <1>4, <2>1 DEF g
  <2> QED
    BY <1>1, <2>2, SameSelf
<1> QED
  BY <1>10, <1>11, <1>12, <1>13 DEF d

LEMMA WeierstrassEquals ==
  ASSUME NEW c, NEW T, NEW N, IsCurve(c, T, N), c.type = "weierstrass",
         NEW i \in 1 .. N, NEW j \in 1 .. N, NEW P, NEW Q, Stores(c, T, i, P), Stores(c, T, j, Q)
  PROVE  EqualsOn(c, P, Q) <=> i = j
<1> DEFINE m == c.p
<1>1. Prime(m) /\ m \in Nat /\ m > 2 /\ m > 0 /\ N \in Nat /\ 0 \in Int
  <2>1. Prime(m) /\ m \in Nat /\ m > 2 /\ N \in Nat
    BY CurveFacts
  <2> QED
    BY <2>1
<1>2. /\ P.x \in Int /\ P.y \in Int /\ P.z \in Int /\ Q.x \in Int /\ Q.y \in Int /\ Q.z \in Int
      /\ P \in Coordinates(c) /\ Q \in Coordinates(c)
  BY StoredNumbers DEF Stores
<1>3. EqualsOn(c, P, Q) <=> (P.x * Q.z - Q.x * P.z) % m = 0 /\ (P.y * Q.z - Q.y * P.z) % m = 0
  BY DEF EqualsOn
<1>4. 0 % m = 0 /\ 0 - 0 = 0
  BY <1>1
<1>6. CASE i = N /\ j = N
  <2>1. P.x = 0 /\ P.z = 0 /\ Q.x = 0 /\ Q.z = 0
    BY <1>6, WeierstrassStores
  <2>2. P.x * Q.z - Q.x * P.z = 0 /\ P.y * Q.z - Q.y * P.z = 0
    BY <1>2, <2>1
  <2> QED
    BY <1>3, <1>4, <1>6, <2>2
<1>7. CASE i = N /\ j # N
  <2>1. P.x = 0 /\ P.z = 0 /\ P.y # 0 /\ Stands(c, Q, T[j])
    BY <1>7, WeierstrassStores
  <2>2. ~Same(m, P.y, 0) /\ ~Same(m, Q.z, 0) /\ P.y \in Int /\ Q.z \in Int
    BY <1>1, <1>2, <2>1, CoordinatesAre DEF Stands
  <2> DEFINE e == P.y * Q.z
  <2>3. e \in Int /\ ~Same(m, e, 0) /\ P.y * Q.z - Q.y * P.z = e /\ e - 0 = e
    <3>1. e \in Int /\ P.y * Q.z - Q.y * P.z = e /\ e - 0 = e
      BY <1>2, <2>1
    <3>2. ~Same(m, P.y * Q.z, 0)
      BY <1>1, <2>2, NonZeroProduct
    <3> QED
      BY <3>1, <3>2
  <2> HIDE DEF e, m
  <2>4. e % m # 0
    BY <1>1, <2>3, SameZero
  <2> QED
    BY <1>3, <1>7, <2>3, <2>4
<1>8. CASE i # N /\ j = N
  <2>1. Q.x = 0 /\ Q.z = 0 /\ Q.y # 0 /\ Stands(c, P, T[i])
    BY <1>8, WeierstrassStores
  <2>2. ~Same(m, Q.y, 0) /\ ~Same(m, P.z, 0) /\ Q.y \in Int /\ P.z \in Int
    BY <1>1, <1>2, <2>1, CoordinatesAre DEF Stands
  <2> DEFINE e == Q.y * P.z
             f == -e
  <2>3. e \in Int /\ ~Same(m, e, 0) /\ P.y * Q.z - Q.y * P.z = f
    <3>1. e \in Int /\ P.y * Q.z - Q.y * P.z = f
      BY <1>2, <2>1
    <3>2. ~Same(m, Q.y * P.z, 0)
      BY <1>1, <2>2, NonZeroProduct
    <3> QED
      BY <3>1, <3>2
  <2> HIDE DEF e, m
  <2>4. f \in Int /\ f - 0 = f
    BY <2>3
  <2>5. ASSUME Same(m, f, 0) PROVE FALSE
    <3>1. PICK h \in Int : f = 0 + h * m
      BY <2>5 DEF Same
    <3>2. -h \in Int /\ e = 0 + (-h) * m
      BY <1>1, <2>3, <3>1
    <3> QED
      BY <2>3, <3>2 DEF Same
  <2> HIDE DEF f
  <2>6. f % m # 0
    BY <1>1, <2>4, <2>5, SameZero
  <2> QED
    BY <1>3, <1>8, <2>3, <2>6
<1>9. CASE i # N /\ j # N
  <2> DEFINE S == T[i]
             U == T[j]
  <2>1. i \in 1 .. N - 1 /\ j \in 1 .. N - 1
    BY <1>1, <1>9
  <2>2. OnWeierstrass(c, S) /\ OnWeierstrass(c, U) /\ Stands(c, P, S) /\ Stands(c, Q, U)
    BY <1>9, <2>1, PointOnWeierstrass, WeierstrassStores
  <2>3. /\ ~Same(m, P.z, 0) /\ ~Same(m, Q.z, 0) /\ Same(m, P.x, S.x * P.z) /\ Same(m, P.y, S.y * P.z)
        /\ Same(m, Q.x, U.x * Q.z) /\ Same(m, Q.y, U.y * Q.z)
        /\ S.x \in 0 .. m - 1 /\ S.y \in 0 .. m - 1 /\ U.x \in 0 .. m - 1 /\ U.y \in 0 .. m - 1
        /\ S = [x |-> S.x, y |-> S.y] /\ U = [x |-> U.x, y |-> U.y]
    BY <2>2 DEF OnWeierstrass, Stands, Over
  <2> HIDE DEF S, U, m
  <2>4. (P.x * Q.z - Q.x * P.z) % m = 0 <=> S.x = U.x
    <3> DEFINE x1 == S.x
               x2 == U.x
               X1 == P.x
               X2 == Q.x
               Z1 == P.z
               Z2 == Q.z
    <3>1. /\ Prime(m) /\ x1 \in 0 .. m - 1 /\ x2 \in 0 .. m - 1 /\ X1 \in Int /\ Z1 \in Int /\ X2 \in Int /\ Z2 \in Int
          /\ ~Same(m, Z1, 0) /\ ~Same(m, Z2, 0) /\ Same(m, X1, x1 * Z1) /\ Same(m, X2, x2 * Z2)
      BY <1>1, <1>2, <2>3
    <3> HIDE DEF x1, x2, X1, X2, Z1, Z2
    <3>2. (X1 * Z2 - X2 * Z1) % m = 0 <=> x1 = x2
      BY ONLY <3>1, CrossIs
    <3> QED
      BY <3>2 DEF x1, x2, X1, X2, Z1, Z2
  <2>5. (P.y * Q.z - Q.y * P.z) % m = 0 <=> S.y = U.y
    <3> DEFINE x1 == S.y
               x2 == U.y
               X1 == P.y
               X2 == Q.y
               Z1 == P.z
               Z2 == Q.z
    <3>1. /\ Prime(m) /\ x1 \in 0 .. m - 1 /\ x2 \in 0 .. m - 1 /\ X1 \in Int /\ Z1 \in Int /\ X2 \in Int /\ Z2 \in Int
          /\ ~Same(m, Z1, 0) /\ ~Same(m, Z2, 0) /\ Same(m, X1, x1 * Z1) /\ Same(m, X2, x2 * Z2)
      BY <1>1, <1>2, <2>3
    <3> HIDE DEF x1, x2, X1, X2, Z1, Z2
    <3>2. (X1 * Z2 - X2 * Z1) % m = 0 <=> x1 = x2
      BY ONLY <3>1, CrossIs
    <3> QED
      BY <3>2 DEF x1, x2, X1, X2, Z1, Z2
  <2>6. S = U <=> i = j
    BY PointsDiffer DEF S, U
  <2> QED
    BY <1>3, <2>3, <2>4, <2>5, <2>6
<1> QED
  BY <1>6, <1>7, <1>8, <1>9

-----------------------------------------------------------------------------
(* Edwards curves.                                                          *)

(* A square a and another b that is none.                                   *)
Twisted(m, a, b, r) ==
  /\ Prime(m) /\ m > 2 /\ a \in Int /\ b \in Int /\ r \in Int
  /\ Same(m, r * r, a) /\ ~Same(m, r, 0) /\ \A s \in Int : ~Same(m, s * s, b)

OnEdwards(m, a, b, x, y) ==
  x \in Int /\ y \in Int /\ Same(m, a * (x * x) + y * y, 1 + b * ((x * x) * (y * y)))

LEMMA SomeInverse ==
  ASSUME NEW m, Prime(m), NEW v \in Int, ~Same(m, v, 0)
  PROVE  \E w \in Int : Same(m, v * w, 1)
<1> DEFINE c == [p |-> m]
           w == InverseMod(c, v % c.p)
<1>1. c.p = m /\ m \in Nat
  BY DEF Prime
<1> HIDE DEF c
<1>2. w \in 1 .. c.p - 1 /\ Same(c.p, v * w, 1)
  BY <1>1, InverseIs
<1>3. w \in Int
  BY <1>1, <1>2
<1> QED
  BY <1>1, <1>2, <1>3

(* Twice a square is a square.                                              *)
LEMMA NotSquare ==
  ASSUME NEW m, NEW a, NEW b, NEW r, Twisted(m, a, b, r), NEW u \in Int, NEW v \in Int, ~Same(m, v, 0)
  PROVE  ~Same(m, u * u, b * (v * v))
<1>1. Prime(m) /\ m \in Int /\ b \in Int /\ \A s \in Int : ~Same(m, s * s, b)
  BY DEF Twisted, Prime
<1>2. SUFFICES ASSUME Same(m, u * u, b * (v * v)) PROVE FALSE
  OBVIOUS
<1>3. PICK w \in Int : Same(m, v * w, 1)
  BY <1>1, SomeInverse
<1>4. PICK h \in Int : u * u = b * (v * v) + h * m
  BY <1>2 DEF Same
<1>5. PICK k \in Int : v * w = 1 + k * m
  BY <1>3 DEF Same
<1> DEFINE s == u * w
           n == b * (2 * k + k * k * m) + h * (w * w)
<1>6. s \in Int /\ n \in Int
  BY <1>1
<1>7. s * s = b + n * m
  <2>1. s * s = (u * u) * (w * w) /\ b * ((v * w) * (v * w)) = (b * (v * v)) * (w * w)
    BY <1>1, SMT
  <2> DEFINE e == u * u
             f == v * w
             g == b * (v * v)
             q == w * w
  <2>2. /\ e \in Int /\ f \in Int /\ g \in Int /\ q \in Int /\ e = g + h * m /\ f = 1 + k * m
        /\ s * s = e * q /\ b * (f * f) = g * q
    BY <1>1, <1>4, <1>5, <2>1
  <2> HIDE DEF e, f, g, q, s
  <2>3. e * q = g * q + h * q * m
    BY <1>1, <2>2, SMT
  <2>4. b * (f * f) = b + b * (2 * k + k * k * m) * m
    BY <1>1, <2>2, SMT
  <2>5. n * m = b * (2 * k + k * k * m) * m + h * q * m
    <3> DEFINE f1 == b * (2 * k + k * k * m)
               f2 == h * q
    <3>1. n = f1 + f2
      BY DEF q
    <3>2. f1 \in Int /\ f2 \in Int
      BY <1>1, <2>2
    <3> HIDE DEF f1, f2, n
    <3>3. n * m = f1 * m + f2 * m
      BY <1>1, <3>1, <3>2, SMT
    <3> QED
      BY <3>3 DEF f1, f2
  <2> DEFINE f1 == b * (2 * k + k * k * m) * m
             f2 == h * q * m
             f3 == n * m
             f4 == g * q
             f5 == e * q
             f6 == s * s
  <2>6. f6 = f5 /\ f5 = f4 + f2 /\ f4 = b + f1 /\ f3 = f1 + f2 /\ f1 \in Int /\ f2 \in Int
    <3>1. f1 \in Int /\ f2 \in Int
      BY <1>1, <2>2
    <3> QED
      BY <2>2, <2>3, <2>4, <2>5, <3>1
  <2> HIDE DEF f1, f2, f3, f4, f5, f6
  <2>7. f6 = b + f3
    BY <1>1, <2>6
  <2> QED
    BY <2>7 DEF f6, f3
<1> QED
  BY <1>1, <1>6, <1>7 DEF Same

(* The completeness of the addition law.                                    *)
LEMMA CompleteIdentity ==
  ASSUME NEW x1 \in Int, NEW y1 \in Int, NEW x2 \in Int, NEW y2 \in Int,
         NEW a \in Int, NEW b \in Int, NEW r \in Int, NEW g \in {1, -1},
         NEW K1, K1 = a * (x1 * x1) + y1 * y1 - (1 + b * ((x1 * x1) * (y1 * y1))),
         NEW K2, K2 = a * (x2 * x2) + y2 * y2 - (1 + b * ((x2 * x2) * (y2 * y2))),
         NEW K3, K3 = r * r - a, NEW K4, K4 = b * (x1 * x2 * y1 * y2) - g
  PROVE  (r * x1 + g * y1) * (r * x1 + g * y1)
           = b * ((x1 * y1 * (r * x2 + y2)) * (x1 * y1 * (r * x2 + y2)))
             + (K1 + K3 * (x1 * x1) - (b * (x1 * x1) * (y1 * y1)) * (K2 + K3 * (x2 * x2)) - K4 * (2 * g + K4 + 2 * r * x1 * y1))
<1>1. CASE g = 1
  BY <1>1, SMT
<1>2. CASE g = -1
  BY <1>2, SMT
<1> QED
  BY <1>1, <1>2

(* A sum of two points of an Edwards curve never divides by zero.           *)
LEMMA CompleteStep ==
  ASSUME NEW m, NEW a, NEW b, NEW r, Twisted(m, a, b, r),
         NEW x1, NEW y1, NEW x2, NEW y2, OnEdwards(m, a, b, x1, y1), OnEdwards(m, a, b, x2, y2),
         NEW g \in {1, -1}, Same(m, b * (x1 * x2 * y1 * y2), g)
  PROVE  Same(m, x1 * y1 * (r * x2 + y2), 0)
<1> DEFINE K1 == a * (x1 * x1) + y1 * y1 - (1 + b * ((x1 * x1) * (y1 * y1)))
           K2 == a * (x2 * x2) + y2 * y2 - (1 + b * ((x2 * x2) * (y2 * y2)))
           K3 == r * r - a
           K4 == b * (x1 * x2 * y1 * y2) - g
           u == r * x1 + g * y1
           v == x1 * y1 * (r * x2 + y2)
<1>1. /\ m \in Nat /\ x1 \in Int /\ y1 \in Int /\ x2 \in Int /\ y2 \in Int /\ a \in Int /\ b \in Int /\ r \in Int /\ g \in Int
      /\ Same(m, r * r, a)
      /\ Same(m, a * (x1 * x1) + y1 * y1, 1 + b * ((x1 * x1) * (y1 * y1)))
      /\ Same(m, a * (x2 * x2) + y2 * y2, 1 + b * ((x2 * x2) * (y2 * y2)))
  BY DEF Twisted, OnEdwards, Prime
<1>2. PICK i1 \in Int : a * (x1 * x1) + y1 * y1 = 1 + b * ((x1 * x1) * (y1 * y1)) + i1 * m
  BY <1>1 DEF Same
<1>3. PICK i2 \in Int : a * (x2 * x2) + y2 * y2 = 1 + b * ((x2 * x2) * (y2 * y2)) + i2 * m
  BY <1>1 DEF Same
<1>4. PICK i3 \in Int : r * r = a + i3 * m
  BY <1>1 DEF Same
<1>5. PICK i4 \in Int : b * (x1 * x2 * y1 * y2) = g + i4 * m
  BY DEF Same
<1> DEFINE f1 == x1 * x1
           f2 == b * (x1 * x1) * (y1 * y1)
           f3 == x2 * x2
           f4 == 2 * g + K4 + 2 * r * x1 * y1
           w == i1 + i3 * f1 - f2 * (i2 + i3 * f3) - i4 * f4
<1>6. K1 = i1 * m /\ K2 = i2 * m /\ K3 = i3 * m /\ K4 = i4 * m
  BY <1>1, <1>2, <1>3, <1>4, <1>5
<1>7. K4 \in Int /\ f1 \in Int /\ f2 \in Int /\ f3 \in Int /\ u \in Int /\ v \in Int
  BY <1>1
<1>8. f4 \in Int
  <2> HIDE DEF K4
  <2> QED
    BY <1>1, <1>7
<1>9. u * u = b * (v * v) + (K1 + K3 * f1 - f2 * (K2 + K3 * f3) - K4 * f4)
  BY <1>1, CompleteIdentity
<1> HIDE DEF K1, K2, K3, K4, f1, f2, f3, f4, u, v
<1>10. w \in Int /\ K1 + K3 * f1 - f2 * (K2 + K3 * f3) - K4 * f4 = w * m
  BY <1>1, <1>6, <1>7, <1>8, SMT
<1>11. Same(m, u * u, b * (v * v))
  BY <1>9, <1>10 DEF Same
<1>12. Same(m, v, 0)
  BY <1>7, <1>11, NotSquare
<1> QED
  BY <1>12 DEF v

LEMMA Complete ==
  ASSUME NEW m, NEW a, NEW b, NEW r, Twisted(m, a, b, r),
         NEW x1, NEW y1, NEW x2, NEW y2, OnEdwards(m, a, b, x1, y1), OnEdwards(m, a, b, x2, y2),
         NEW g \in {1, -1}
  PROVE  ~Same(m, b * (x1 * x2 * y1 * y2), g)
<1>1. /\ m \in Nat /\ m > 2 /\ x1 \in Int /\ y1 \in Int /\ x2 \in Int /\ y2 \in Int /\ a \in Int /\ b \in Int /\ r \in Int /\ g \in Int
      /\ Prime(m) /\ ~Same(m, r, 0) /\ 0 \in Int /\ 1 \in Int /\ 2 \in Int
  BY DEF Twisted, OnEdwards, Prime
<1> DEFINE h1 == -y1
           h2 == -y2
<1>2. h1 \in Int /\ h2 \in Int /\ h1 * h1 = y1 * y1 /\ h2 * h2 = y2 * y2 /\ x1 * x2 * h1 * h2 = x1 * x2 * y1 * y2
  BY <1>1, SMT
<1>3. OnEdwards(m, a, b, x1, h1) /\ OnEdwards(m, a, b, x2, h2)
  BY <1>2 DEF OnEdwards
<1>4. SUFFICES ASSUME Same(m, b * (x1 * x2 * y1 * y2), g) PROVE FALSE
  OBVIOUS
<1>5. Same(m, x1 * y1 * (r * x2 + y2), 0) /\ Same(m, x1 * h1 * (r * x2 + h2), 0)
  <2>1. Same(m, x1 * y1 * (r * x2 + y2), 0)
    BY <1>4, CompleteStep
  <2>2. Same(m, b * (x1 * x2 * h1 * h2), g)
    BY <1>2, <1>4
  <2> HIDE DEF h1, h2
  <2>3. Same(m, x1 * h1 * (r * x2 + h2), 0)
    BY <1>3, <2>2, CompleteStep
  <2> QED
    BY <2>1, <2>3
<1> DEFINE f == x1 * y1
           f2 == x1 * h1
           s == r * x2 + y2
           t == r * x2 + h2
           n == x2 * y2
<1>6. f \in Int /\ f2 \in Int /\ s \in Int /\ t \in Int /\ f2 = -f /\ s + t = 2 * (r * x2) /\ n \in Int
      /\ b * (x1 * x2 * y1 * y2) = (b * n) * f
  BY <1>1, SMT
<1>7. ~Same(m, g, 0)
  <2>1. g \in {1, -1} /\ 1 \in 0 .. m - 1 /\ 0 \in 0 .. m - 1
    BY <1>1
  <2>2. ~Same(m, 1, 0)
    BY <1>1, <2>1, SameSmall
  <2>3. ASSUME g = -1, Same(m, g, 0) PROVE FALSE
    <3>1. PICK i \in Int : g = 0 + i * m
      BY <2>3 DEF Same
    <3>2. -i \in Int /\ 1 = 0 + (-i) * m
      BY <1>1, <2>3, <3>1
    <3> QED
      BY <2>2, <3>2 DEF Same
  <2> QED
    BY <2>1, <2>2, <2>3
<1> DEFINE e == b * (x1 * x2 * y1 * y2)
           q == b * n
<1>8. e \in Int /\ q \in Int /\ e = q * f /\ Same(m, e, g)
  BY <1>1, <1>4, <1>6
<1>9. Same(m, f * s, 0) /\ Same(m, f2 * t, 0)
  BY <1>5
<1> HIDE DEF e, q, f, f2, s, t
<1>10. ~Same(m, f, 0)
  <2>1. SUFFICES ASSUME Same(m, f, 0) PROVE FALSE
    OBVIOUS
  <2>2. Same(m, q, q)
    BY <1>1, <1>8, SameSelf
  <2>3. Same(m, q * f, q * 0)
    BY <1>1, <1>6, <1>8, <2>1, <2>2, SameProduct
  <2>4. Same(m, e, 0)
    BY <1>8, <2>3
  <2>5. Same(m, g, 0)
    BY <1>1, <1>8, <2>4, SameBack, SameTrans
  <2> QED
    BY <1>7, <2>5
<1>11. ~Same(m, f2, 0)
  <2>1. SUFFICES ASSUME Same(m, f2, 0) PROVE FALSE
    OBVIOUS
  <2>2. PICK i \in Int : f2 = 0 + i * m
    BY <2>1 DEF Same
  <2>3. -i \in Int /\ f = 0 + (-i) * m
    BY <1>1, <1>6, <2>2
  <2> QED
    BY <1>10, <2>3 DEF Same
<1>12. Same(m, s, 0) /\ Same(m, t, 0)
  <2>1. s * f \in Int /\ s * f = f * s /\ t * f2 = f2 * t
    BY <1>6
  <2>2. Same(m, s * f, 0) /\ Same(m, t * f2, 0)
    BY <1>9, <2>1
  <2> QED
    BY <1>1, <1>6, <1>10, <1>11, <2>2, NoZeroDivisor
<1>13. Same(m, x2, 0)
  <2> DEFINE i == r * x2
  <2>1. i \in Int /\ i * 2 = s + t /\ x2 * r = i
    BY <1>1, <1>6
  <2>2. Same(m, s + t, 0 + 0)
    BY <1>1, <1>6, <1>12, SameSum
  <2> HIDE DEF i
  <2>3. Same(m, i * 2, 0)
    BY <2>1, <2>2
  <2>4. ~Same(m, 2, 0)
    <3>1. 2 \in 0 .. m - 1 /\ 0 \in 0 .. m - 1 /\ 2 # 0
      BY <1>1
    <3> QED
      BY <1>1, <3>1, SameSmall
  <2>5. Same(m, i, 0)
    BY <1>1, <2>1, <2>3, <2>4, NoZeroDivisor
  <2>6. Same(m, x2 * r, 0)
    BY <2>1, <2>5
  <2> QED
    BY <1>1, <2>6, NoZeroDivisor
<1>14. Same(m, e, 0)
  <2> DEFINE i == b * (x1 * y1 * y2)
  <2>1. i \in Int /\ e = i * x2 /\ i * 0 = 0
    BY <1>1, SMT DEF e
  <2> HIDE DEF i
  <2>2. Same(m, i, i)
    BY <1>1, <2>1, SameSelf
  <2>3. Same(m, i * x2, i * 0)
    BY <1>1, <1>13, <2>1, <2>2, SameProduct
  <2> QED
    BY <2>1, <2>3
<1> QED
  BY <1>1, <1>7, <1>8, <1>14, SameBack, SameTrans

LEMMA TwistedCurve ==
  ASSUME NEW c, NEW T, NEW N, IsCurve(c, T, N), c.type = "edwards"
  PROVE  \E r \in Int : Twisted(c.p, c.a, c.b, r)
<1> DEFINE m == c.p
           a == c.a
           b == c.b
<1>1. m \in Nat /\ m > 2 /\ m > 0 /\ Prime(m) /\ a \in Int /\ b \in Int /\ 0 \in Int
  <2>1. m \in Nat /\ m > 2 /\ Prime(m) /\ a \in Int /\ b \in Int
    BY CurveFacts
  <2> QED
    BY <2>1
<1>2. (\E r \in 1 .. m - 1 : (r * r - a) % m = 0) /\ \A s \in 0 .. m - 1 : (s * s - b) % m # 0
  BY DEF IsCurve
<1> HIDE DEF m, a, b
<1>3. PICK r \in 1 .. m - 1 : (r * r - a) % m = 0
  BY <1>2
<1>4. r \in Int /\ Same(m, r * r, a)
  <2> DEFINE f == r * r
  <2>1. f \in Int /\ (f - a) % m = 0 /\ r \in Int
    BY <1>1, <1>3
  <2> HIDE DEF f
  <2>2. Same(m, f, a)
    BY <1>1, <2>1, SameZero
  <2> QED
    BY <2>1, <2>2 DEF f
<1>5. ~Same(m, r, 0)
  <2>1. r \in 0 .. m - 1 /\ 0 \in 0 .. m - 1 /\ r # 0
    BY <1>1
  <2> QED
    BY <1>1, <2>1, SameSmall
<1>6. ASSUME NEW s \in Int, Same(m, s * s, b) PROVE FALSE
  <2> DEFINE t == s % m
             f == s * s
             g == t * t
  <2>1. t \in 0 .. m - 1 /\ t \in Int /\ Same(m, t, s)
    BY <1>1, SameRemainder
  <2> HIDE DEF t
  <2>2. Same(m, g, f) /\ f \in Int /\ g \in Int /\ Same(m, f, b)
    BY <1>1, <1>6, <2>1, SameProduct
  <2>3. (g - b) % m # 0
    BY <1>2, <2>1
  <2> HIDE DEF f, g
  <2>4. Same(m, g, b)
    BY <1>1, <2>2, SameTrans
  <2> QED
    BY <1>1, <2>2, <2>3, <2>4, SameZero
<1>7. Twisted(m, a, b, r)
  BY <1>1, <1>4, <1>5, <1>6 DEF Twisted
<1> QED
  BY <1>4, <1>7 DEF m, a, b

(* The equation is_on_curve solves.                                         *)
LEMMA EdwardsEquation ==
  ASSUME NEW c, NEW r, Twisted(c.p, c.a, c.b, r), c.type = "edwards", NEW x \in Int, NEW y \in Int,
         (y * y - Rhs(c, x)) % c.p = 0
  PROVE  OnEdwards(c.p, c.a, c.b, x, y)
<1> DEFINE m == c.p
           a == c.a
           b == c.b
           f == x * x
           g == y * y
           v == b * x * x - 1
           n == a * x * x - 1
           w == InverseMod(c, v % m)
           h == n * w
<1>1. m \in Nat /\ m > 2 /\ m > 0 /\ Prime(m) /\ a \in Int /\ b \in Int /\ 0 \in Int /\ 1 \in Int
  BY DEF Twisted, Prime
<1>2. Rhs(c, x) = h % m
  BY DEF Rhs
<1>3. f \in Int /\ g \in Int /\ v \in Int /\ n \in Int /\ v = b * f - 1 /\ n = a * f - 1
  <2> HIDE DEF m, a, b
  <2>1. f \in Int /\ g \in Int /\ b * f \in Int /\ a * f \in Int
    BY <1>1
  <2>2. b * x * x = b * f /\ a * x * x = a * f
    BY <1>1, SMT
  <2> QED
    BY <2>1, <2>2
<1>4. ~Same(m, 1, 0)
  <2>1. 1 \in 0 .. m - 1 /\ 0 \in 0 .. m - 1
    BY <1>1
  <2> QED
    BY <1>1, <2>1, SameSmall
<1>5. ~Same(m, v, 0)
  <2>1. SUFFICES ASSUME Same(m, v, 0) PROVE FALSE
    OBVIOUS
  <2> DEFINE u == b * f
  <2>2. u \in Int /\ v = u - 1
    BY <1>1, <1>3
  <2> HIDE DEF v, u
  <2>3. Same(m, u, 1)
    BY <1>1, <2>1, <2>2, SameDifference
  <2>4. CASE Same(m, x, 0)
    <3>1. Same(m, f, 0 * 0) /\ Same(m, b, b)
      BY <1>1, <2>4, SameProduct, SameSelf
    <3>2. Same(m, b * f, b * 0) /\ b * 0 = 0
      <4>1. 0 * 0 = 0 /\ b * 0 = 0
        BY <1>1
      <4> HIDE DEF f
      <4> QED
        BY <1>1, <1>3, <3>1, <4>1, SameProduct
    <3>3. Same(m, u, 0)
      BY <3>2 DEF u
    <3> QED
      BY <1>1, <1>4, <2>2, <2>3, <3>3, SameBack, SameTrans
  <2>5. CASE ~Same(m, x, 0)
    <3>1. ~Same(m, 1 * 1, b * (x * x))
      BY <1>1, <2>5, NotSquare
    <3>2. ~Same(m, 1, u)
      BY <3>1 DEF u
    <3> QED
      BY <1>1, <2>2, <2>3, <3>2, SameBack
  <2> QED
    BY <2>4, <2>5
<1>6. w \in Int /\ Same(m, v * w, 1)
  <2> HIDE DEF v
  <2>1. w \in 1 .. m - 1 /\ Same(m, v * w, 1)
    BY <1>1, <1>3, <1>5, InverseIs
  <2> QED
    BY <1>1, <2>1
<1>7. (g - (h % m)) % m = 0
  BY <1>2
<1> HIDE DEF m, a, b, f, g, v, n, w
<1>8. h \in Int
  BY <1>3, <1>6
<1> HIDE DEF h
<1>9. Same(m, g, h)
  <2> DEFINE e == h % m
  <2>1. e \in Int /\ Same(m, e, h) /\ (g - e) % m = 0
    BY <1>1, <1>7, <1>8, SameRemainder
  <2> HIDE DEF e
  <2>2. Same(m, g, e)
    BY <1>1, <1>3, <2>1, SameZero
  <2> QED
    BY <1>1, <1>3, <1>8, <2>1, <2>2, SameTrans
<1>10. PICK i \in Int : g = h + i * m
  BY <1>9 DEF Same
<1>11. PICK k \in Int : v * w = 1 + k * m
  BY <1>6 DEF Same
<1> DEFINE z == -(n * k + i * v)
<1>12. z \in Int
  BY <1>3
<1>13. a * f + g = (1 + b * (f * g)) + z * m
  <2>1. g * v = n + (n * k + i * v) * m
    <3>1. g * v = n * (v * w) + (i * v) * m
      BY <1>1, <1>3, <1>6, <1>8, <1>10, SMT DEF h
    <3> DEFINE e == v * w
    <3>2. g * v = n * e + (i * v) * m /\ e = 1 + k * m /\ e \in Int
      BY <1>1, <1>3, <1>6, <1>11, <3>1
    <3> HIDE DEF e
    <3> QED
      BY <1>1, <1>3, <3>2, SMT
  <2>2. g * v = b * (f * g) - g
    BY <1>1, <1>3, SMT
  <2> DEFINE e1 == b * (f * g)
             e2 == a * f
             e3 == (n * k + i * v) * m
             e4 == z * m
             e5 == g * v
  <2>3. e5 = n + e3 /\ e5 = e1 - g /\ n = e2 - 1 /\ e4 = -e3 /\ e1 \in Int /\ e2 \in Int /\ e3 \in Int
    <3>1. e1 \in Int /\ e2 \in Int /\ e3 \in Int /\ e4 = -e3
      BY <1>1, <1>3
    <3> QED
      BY <1>3, <2>1, <2>2, <3>1
  <2> HIDE DEF e1, e2, e3, e4, e5
  <2>4. e2 + g = (1 + e1) + e4
    BY <1>3, <2>3
  <2> QED
    BY <2>4 DEF e1, e2, e4
<1>14. Same(m, a * f + g, 1 + b * (f * g))
  BY <1>12, <1>13 DEF Same
<1> QED
  BY <1>14 DEF OnEdwards, m, a, b, f, g

LEMMA EdwardsPoint ==
  ASSUME NEW c, NEW T, NEW N, IsCurve(c, T, N), c.type = "edwards", NEW i \in 1 .. N
  PROVE  /\ T[i] = [x |-> T[i].x, y |-> T[i].y] /\ T[i].x \in 0 .. c.p - 1 /\ T[i].y \in 0 .. c.p - 1
         /\ OnEdwards(c.p, c.a, c.b, T[i].x, T[i].y)
<1> DEFINE S == T[i]
           m == c.p
<1>1. m \in Nat /\ m > 2 /\ c.a \in Int /\ c.b \in Int /\ N \in Nat /\ T[N] = [x |-> 0, y |-> 1]
      /\ \A h \in 1 .. N - 1 : IsPointOf(c, T, N, h) /\ T[h] # Neutral(c)
  BY CurveFacts DEF Neutral
<1>2. CASE i = N
  <2>1. S.x = 0 /\ S.y = 1 /\ S = [x |-> S.x, y |-> S.y]
    BY <1>1, <1>2
  <2>2. c.a * (0 * 0) + 1 * 1 = 1 + c.b * ((0 * 0) * (1 * 1))
    <3> DEFINE a == c.a
               b == c.b
    <3>1. a \in Int /\ b \in Int
      BY <1>1
    <3> HIDE DEF a, b
    <3>2. a * (0 * 0) + 1 * 1 = 1 + b * ((0 * 0) * (1 * 1))
      BY <3>1, SMT
    <3> QED
      BY <3>2 DEF a, b
  <2>3. Same(m, c.a * (0 * 0) + 1 * 1, 1 + c.b * ((0 * 0) * (1 * 1)))
    <3>1. c.a * (0 * 0) + 1 * 1 \in Int
      BY <1>1
    <3> QED
      BY <1>1, <2>2, <3>1, SameSelf
  <2>4. OnEdwards(m, c.a, c.b, 0, 1)
    BY <2>3 DEF OnEdwards
  <2> QED
    BY <1>1, <2>1, <2>4
<1>3. CASE i # N
  <2>1. IsPointOf(c, T, N, i) /\ S # Neutral(c)
    BY <1>1, <1>3
  <2>2. /\ S = [x |-> S.x, y |-> S.y] /\ S.x \in 0 .. m - 1 /\ S.y \in 0 .. m - 1 /\ IsOnCurve(c, Point(S.x, S.y, 1))
    BY <2>1 DEF IsPointOf
  <2>3. ~IsInfinityOn(c, Point(S.x, S.y, 1)) /\ AffineOn(c, Point(S.x, S.y, 1)) = Point(S.x, S.y, 1)
    <3>1. [x |-> S.x, y |-> S.y] # Neutral(c)
      BY <2>1, <2>2
    <3> QED
      BY <1>1, <2>2, <3>1, AffineIs
  <2>4. (S.y * S.y - Rhs(c, S.x)) % m = 0
    <3> DEFINE R == Point(S.x, S.y, 1)
    <3>1. R.x = S.x /\ R.y = S.y
      BY DEF Point
    <3> HIDE DEF R
    <3>2. (R.y * R.y - Rhs(c, R.x)) % m = 0
      BY <2>2, <2>3 DEF IsOnCurve, R
    <3> QED
      BY <3>1, <3>2
  <2>5. PICK r \in Int : Twisted(m, c.a, c.b, r)
    BY TwistedCurve
  <2>6. S.x \in Int /\ S.y \in Int
    BY <1>1, <2>2
  <2>7. OnEdwards(m, c.a, c.b, S.x, S.y)
    BY <2>4, <2>5, <2>6, EdwardsEquation
  <2> QED
    BY <2>2, <2>7
<1> QED
  BY <1>2, <1>3

LEMMA FractionIs ==
  ASSUME NEW c, Prime(c.p), NEW n \in Int, NEW v \in Int, ~Same(c.p, v, 0),
         NEW u, u = (n * InverseMod(c, v % c.p)) % c.p
  PROVE  u \in Int /\ Same(c.p, u * v, n)
<1> DEFINE m == c.p
           l == n * InverseMod(c, v % c.p)
           f == u * v
           g == l * v
<1>1. m \in Nat /\ m > 0
  BY DEF Prime
<1>2. l \in Int /\ Same(m, l * v, n)
  BY SlopeIs
<1> HIDE DEF l
<1>3. u \in Int /\ Same(m, u, l)
  <2>1. u = l % m
    BY DEF l
  <2>2. l % m \in Int /\ Same(m, l % m, l)
    BY <1>1, <1>2, SameRemainder
  <2> QED
    BY <2>1, <2>2
<1>4. Same(m, f, g) /\ f \in Int /\ g \in Int
  <2>1. Same(m, v, v)
    BY <1>1, SameSelf
  <2> HIDE DEF m
  <2>2. Same(m, u * v, l * v)
    BY <1>1, <1>2, <1>3, <2>1, SameProduct
  <2> QED
    BY <1>2, <1>3, <2>2
<1>5. Same(m, g, n)
  BY <1>2
<1> HIDE DEF f, g
<1>6. Same(m, f, n)
  BY <1>1, <1>4, <1>5, SameTrans
<1> QED
  BY <1>3, <1>6 DEF f

LEMMA EdwardsTerms ==
  ASSUME NEW a \in Int, NEW b \in Int, NEW x1 \in Int, NEW y1 \in Int, NEW x2 \in Int, NEW y2 \in Int
  PROVE  /\ b * x1 * x2 * y1 * y2 = b * ((x1 * x2) * (y1 * y2))
         /\ b * (x1 * x2 * y1 * y2) = b * ((x1 * x2) * (y1 * y2))
         /\ y1 * y2 - a * x1 * x2 = y1 * y2 - a * (x1 * x2)
  BY SMT

(* The coordinates of a sum, without fractions.                             *)
LEMMA EdwardsSumIs ==
  ASSUME NEW c, NEW T, NEW N, IsCurve(c, T, N), c.type = "edwards", NEW i \in 1 .. N, NEW j \in 1 .. N,
         NEW x1, x1 = T[i].x, NEW y1, y1 = T[i].y, NEW x2, x2 = T[j].x, NEW y2, y2 = T[j].y,
         NEW e, e = c.b * ((x1 * x2) * (y1 * y2)), NEW u, u = T[At(i + j, N)].x, NEW v, v = T[At(i + j, N)].y
  PROVE  /\ x1 \in Int /\ y1 \in Int /\ x2 \in Int /\ y2 \in Int /\ e \in Int /\ u \in Int /\ v \in Int
         /\ ~Same(c.p, 1 + e, 0) /\ ~Same(c.p, 1 - e, 0)
         /\ Same(c.p, u * (1 + e), x1 * y2 + y1 * x2) /\ Same(c.p, v * (1 - e), y1 * y2 - c.a * (x1 * x2))
<1> DEFINE m == c.p
           a == c.a
           b == c.b
           U == T[At(i + j, N)]
<1>1. m \in Nat /\ m > 0 /\ Prime(m) /\ a \in Int /\ b \in Int /\ Sum(c, T[i], T[j]) = U
  <2>1. m \in Nat /\ m > 2 /\ Prime(m) /\ a \in Int /\ b \in Int /\ Sum(c, T[i], T[j]) = U
    BY CurveFacts
  <2> QED
    BY <2>1
<1>2. OnEdwards(m, a, b, x1, y1) /\ OnEdwards(m, a, b, x2, y2)
  BY EdwardsPoint
<1>3. x1 \in Int /\ y1 \in Int /\ x2 \in Int /\ y2 \in Int
  BY <1>2 DEF OnEdwards
<1>4. U = EdwardsSum(c, T[i], T[j])
  BY <1>1 DEF Sum
<1> HIDE DEF U
<1> DEFINE e2 == b * x1 * x2 * y1 * y2
           n1 == x1 * y2 + y1 * x2
           n2 == y1 * y2 - a * x1 * x2
           n3 == y1 * y2 - a * (x1 * x2)
<1>5. u = (n1 * InverseMod(c, (1 + e2) % c.p)) % c.p /\ v = (n2 * InverseMod(c, (1 - e2) % c.p)) % c.p
  BY <1>4 DEF EdwardsSum, U
<1>6. PICK r \in Int : Twisted(m, a, b, r)
  BY TwistedCurve
<1>7. e = b * ((x1 * x2) * (y1 * y2))
  OBVIOUS
<1> HIDE DEF m, a, b
<1>8. e2 = e /\ n2 = n3 /\ b * (x1 * x2 * y1 * y2) = e
  <2>1. /\ b * x1 * x2 * y1 * y2 = b * ((x1 * x2) * (y1 * y2))
        /\ b * (x1 * x2 * y1 * y2) = b * ((x1 * x2) * (y1 * y2))
        /\ y1 * y2 - a * x1 * x2 = y1 * y2 - a * (x1 * x2)
    BY ONLY <1>1, <1>3, EdwardsTerms
  <2> QED
    BY <1>7, <2>1
<1>9. e \in Int /\ n1 \in Int /\ n3 \in Int
  BY <1>1, <1>3, <1>7
<1>10. ~Same(m, e, 1) /\ ~Same(m, e, -1)
  <2>1. \A g \in {1, -1} : ~Same(m, b * (x1 * x2 * y1 * y2), g)
    BY <1>2, <1>6, Complete
  <2> QED
    BY <1>8, <2>1
<1> HIDE DEF e2, n1, n2, n3
<1> DEFINE f == 1 + e
           g == 1 - e
<1>11. f \in Int /\ g \in Int /\ ~Same(m, f, 0) /\ ~Same(m, g, 0)
  <2>1. f \in Int /\ g \in Int
    BY <1>9
  <2>2. ASSUME Same(m, f, 0) PROVE FALSE
    <3>1. PICK h \in Int : f = 0 + h * m
      BY <2>2 DEF Same
    <3>2. e = -1 + h * m
      BY <1>1, <1>9, <3>1
    <3> QED
      BY <1>10, <3>2 DEF Same
  <2>3. ASSUME Same(m, g, 0) PROVE FALSE
    <3>1. PICK h \in Int : g = 0 + h * m
      BY <2>3 DEF Same
    <3>2. -h \in Int /\ e = 1 + (-h) * m
      BY <1>1, <1>9, <3>1
    <3> QED
      BY <1>10, <3>2 DEF Same
  <2> QED
    BY <2>1, <2>2, <2>3
<1>12. Prime(c.p) /\ u = (n1 * InverseMod(c, f % c.p)) % c.p /\ v = (n3 * InverseMod(c, g % c.p)) % c.p
       /\ ~Same(c.p, f, 0) /\ ~Same(c.p, g, 0)
  BY <1>1, <1>5, <1>8, <1>11 DEF m
<1> HIDE DEF f, g
<1>13. u \in Int /\ Same(c.p, u * f, n1)
  BY <1>9, <1>11, <1>12, FractionIs
<1>14. v \in Int /\ Same(c.p, v * g, n3)
  BY <1>9, <1>11, <1>12, FractionIs
<1> QED
  BY <1>3, <1>9, <1>11, <1>13, <1>14 DEF f, g, n1, n3, m, a

(* Coordinates that are those of a sum, all scaled by s.                    *)
Fractions(m, s, e, n, k, X, Y, Z) ==
  /\ s \in Int /\ e \in Int /\ n \in Int /\ k \in Int /\ X \in Int /\ Y \in Int /\ Z \in Int
  /\ Same(m, X, s * ((1 - e) * n)) /\ Same(m, Y, s * ((1 + e) * k)) /\ Same(m, Z, s * ((1 - e) * (1 + e)))

LEMMA FractionsStand ==
  ASSUME NEW m, Prime(m), NEW s, NEW e, NEW n, NEW k, NEW X, NEW Y, NEW Z, Fractions(m, s, e, n, k, X, Y, Z),
         NEW u \in Int, NEW v \in Int, ~Same(m, s, 0), ~Same(m, 1 + e, 0), ~Same(m, 1 - e, 0),
         Same(m, u * (1 + e), n), Same(m, v * (1 - e), k)
  PROVE  Same(m, X, u * Z) /\ Same(m, Y, v * Z) /\ ~Same(m, Z, 0)
<1> DEFINE f == 1 + e
           g == 1 - e
           w == s * (g * f)
<1>1. /\ m \in Nat /\ s \in Int /\ e \in Int /\ n \in Int /\ k \in Int /\ X \in Int /\ Y \in Int /\ Z \in Int
      /\ 0 \in Int
  BY DEF Fractions, Prime
<1>2. f \in Int /\ g \in Int
  BY <1>1
<1>3. /\ Same(m, X, s * (g * n)) /\ Same(m, Y, s * (f * k)) /\ Same(m, Z, w) /\ ~Same(m, f, 0) /\ ~Same(m, g, 0)
      /\ Same(m, u * f, n) /\ Same(m, v * g, k)
  BY DEF Fractions
<1> HIDE DEF f, g
<1>4. w \in Int /\ ~Same(m, w, 0)
  <2> DEFINE h == g * f
  <2>1. h \in Int /\ ~Same(m, h, 0)
    BY <1>2, <1>3, NonZeroProduct
  <2> HIDE DEF h
  <2>2. s * h \in Int /\ ~Same(m, s * h, 0)
    BY <1>1, <2>1, NonZeroProduct
  <2> QED
    BY <2>2 DEF h
<1>5. PICK a1 \in Int : X = s * (g * n) + a1 * m
  BY <1>3 DEF Same
<1>6. PICK a2 \in Int : Y = s * (f * k) + a2 * m
  BY <1>3 DEF Same
<1>7. PICK a3 \in Int : Z = w + a3 * m
  BY <1>3 DEF Same
<1>8. PICK a4 \in Int : u * f = n + a4 * m
  BY <1>3 DEF Same
<1>9. PICK a5 \in Int : v * g = k + a5 * m
  BY <1>3 DEF Same
<1>10. ~Same(m, Z, 0)
  <2>1. SUFFICES ASSUME Same(m, Z, 0) PROVE FALSE
    OBVIOUS
  <2> HIDE DEF w
  <2> QED
    BY <1>1, <1>3, <1>4, <2>1, SameBack, SameTrans
<1>11. Same(m, X, u * Z)
  <2> DEFINE y == a1 - a4 * s * g - u * a3
  <2>1. y \in Int
    BY <1>1, <1>2
  <2>2. n = u * f - a4 * m /\ Z = s * (g * f) + a3 * m
    BY <1>1, <1>2, <1>7, <1>8
  <2>3. X = u * Z + y * m
    BY <1>1, <1>2, <1>5, <2>2, SMT
  <2> QED
    BY <2>1, <2>3 DEF Same
<1>12. Same(m, Y, v * Z)
  <2> DEFINE y == a2 - a5 * s * f - v * a3
  <2>1. y \in Int
    BY <1>1, <1>2
  <2>2. k = v * g - a5 * m /\ Z = s * (g * f) + a3 * m
    BY <1>1, <1>2, <1>7, <1>9
  <2>3. Y = v * Z + y * m
    BY <1>1, <1>2, <1>6, <2>2, SMT
  <2> QED
    BY <2>1, <2>3 DEF Same
<1> QED
  BY <1>10, <1>11, <1>12

(* The addition formulas, over affine coordinates.                          *)
LEMMA EdwardsScales ==
  ASSUME NEW m \in Nat, NEW a \in Int, NEW b \in Int, NEW z \in Int, NEW f \in Int, NEW g \in Int, NEW n \in Int,
         NEW A \in Int, NEW C \in Int, NEW D \in Int, NEW H \in Int,
         Same(m, A, z), Same(m, C, z * f), Same(m, D, z * g), Same(m, H, z * n),
         NEW E, E = b * C * D, NEW e, e = b * (f * g), NEW s, s = (z * z) * (z * z),
         NEW X, NEW Y, NEW Z, Same(m, X, (A * A - E) * A * H), Same(m, Y, A * (A * A + E) * (D - a * C)),
         Same(m, Z, (A * A - E) * (A * A + E)), X \in Int, Y \in Int, Z \in Int
  PROVE  Fractions(m, s, e, n, g - a * f, X, Y, Z)
<1> DEFINE F == A * A - E
           G == A * A + E
           K == D - a * C
           k == g - a * f
           y == z * z
           S == F * A
           h1 == y * (1 - e)
           h2 == y * (1 + e)
<1>1. PICK i1 \in Int : A = z + i1 * m
  BY DEF Same
<1>2. PICK i2 \in Int : C = z * f + i2 * m
  BY DEF Same
<1>3. PICK i3 \in Int : D = z * g + i3 * m
  BY DEF Same
<1>4. E \in Int /\ e \in Int /\ y \in Int /\ s \in Int
  <2>1. y \in Int
    OBVIOUS
  <2> QED
    BY <2>1
<1>5. Same(m, E, y * e) /\ Same(m, A * A, y)
  <2> DEFINE w1 == b * (z * f * i3 + i2 * z * g + i2 * i3 * m)
             w2 == 2 * z * i1 + i1 * i1 * m
  <2>1. w1 \in Int /\ w2 \in Int
    OBVIOUS
  <2>2. E = y * e + w1 * m /\ A * A = y + w2 * m
    BY <1>1, <1>2, <1>3, SMT
  <2> QED
    BY <2>1, <2>2 DEF Same
<1>6. PICK j1 \in Int : E = y * e + j1 * m
  BY <1>5 DEF Same
<1>7. PICK j2 \in Int : A * A = y + j2 * m
  BY <1>5 DEF Same
<1>8. K = z * k + (i3 - a * i2) * m /\ i3 - a * i2 \in Int /\ K \in Int /\ k \in Int
  BY <1>2, <1>3, SMT
<1>9. F = h1 + (j2 - j1) * m /\ G = h2 + (j2 + j1) * m /\ F \in Int /\ G \in Int /\ h1 \in Int /\ h2 \in Int
  <2> DEFINE B == A * A
  <2>1. B \in Int /\ B = y + j2 * m /\ F = B - E /\ G = B + E
    BY <1>4, <1>7
  <2> HIDE DEF y, B, F, G
  <2>2. h1 \in Int /\ h2 \in Int /\ F \in Int /\ G \in Int
    BY <1>4, <2>1
  <2> QED
    BY <1>4, <1>6, <2>1, <2>2, SMT
<1> HIDE DEF F, G, K, k, y, h1, h2
<1>10. Same(m, F, h1) /\ Same(m, G, h2) /\ Same(m, K, z * k)
  <2>1. j2 - j1 \in Int /\ j2 + j1 \in Int
    OBVIOUS
  <2> QED
    BY <1>8, <1>9, <2>1 DEF Same
<1>11. Same(m, S, h1 * z) /\ Same(m, A * G, z * h2) /\ Same(m, F * G, h1 * h2)
  BY <1>9, <1>10, SameProduct
<1> DEFINE S2 == A * G
           h3 == h1 * z
           h4 == z * h2
           h5 == z * n
           h6 == z * k
<1>12. S \in Int /\ S2 \in Int /\ h3 \in Int /\ h4 \in Int /\ h5 \in Int /\ h6 \in Int /\ Same(m, H, h5) /\ Same(m, K, h6)
       /\ Same(m, S, h3) /\ Same(m, S2, h4)
  <2>1. S \in Int /\ S2 \in Int /\ h3 \in Int /\ h4 \in Int /\ h5 \in Int
    BY <1>9
  <2>2. h6 \in Int
    BY <1>8
  <2> QED
    BY <1>10, <1>11, <2>1, <2>2
<1> HIDE DEF S, S2, h3, h4, h5, h6
<1>13. Same(m, S * H, h3 * h5) /\ Same(m, S2 * K, h4 * h6)
  BY <1>8, <1>12, SameProduct
<1>14. /\ h3 * h5 = s * ((1 - e) * n) /\ h4 * h6 = s * ((1 + e) * k) /\ h1 * h2 = s * ((1 - e) * (1 + e))
  <2>1. /\ y = z * z /\ h1 = y * (1 - e) /\ h2 = y * (1 + e) /\ h3 = h1 * z /\ h4 = z * h2 /\ h5 = z * n /\ h6 = z * k
    BY DEF y, h1, h2, h3, h4, h5, h6
  <2> QED
    BY <1>4, <1>8, <2>1, SMT
<1>15. /\ (A * A - E) * A * H = S * H /\ A * (A * A + E) * (D - a * C) = S2 * K /\ (A * A - E) * (A * A + E) = F * G
  BY DEF S, S2, F, G, K
<1> DEFINE p1 == S * H
           p2 == S2 * K
           p3 == F * G
           q1 == s * ((1 - e) * n)
           q2 == s * ((1 + e) * k)
           q3 == s * ((1 - e) * (1 + e))
<1>16. p1 \in Int /\ p2 \in Int /\ p3 \in Int /\ Same(m, X, p1) /\ Same(m, Y, p2) /\ Same(m, Z, p3)
       /\ Same(m, p1, q1) /\ Same(m, p2, q2) /\ Same(m, p3, q3)
  <2>1. p1 \in Int /\ p2 \in Int /\ p3 \in Int
    BY <1>8, <1>9, <1>12
  <2>2. Same(m, p1, q1) /\ Same(m, p2, q2) /\ Same(m, p3, q3)
    BY <1>11, <1>13, <1>14
  <2>3. Same(m, X, p1) /\ Same(m, Y, p2) /\ Same(m, Z, p3)
    BY <1>15
  <2> QED
    BY <2>1, <2>2, <2>3
<1>17. q1 \in Int /\ q2 \in Int /\ q3 \in Int
  <2> DEFINE f1 == 1 - e
             f2 == 1 + e
  <2>1. f1 \in Int /\ f2 \in Int
    BY <1>4
  <2> HIDE DEF f1, f2
  <2>2. s * (f1 * n) \in Int /\ s * (f2 * k) \in Int /\ s * (f1 * f2) \in Int
    BY <1>4, <1>8, <2>1
  <2> QED
    BY <2>2 DEF f1, f2
<1> HIDE DEF p1, p2, p3, q1, q2, q3
<1>18. Same(m, X, q1) /\ Same(m, Y, q2) /\ Same(m, Z, q3)
  BY <1>16, <1>17, SameTrans
<1> QED
  BY <1>4, <1>8, <1>18 DEF Fractions, q1, q2, q3, k

(* The formulas that double, over affine coordinates.                       *)
LEMMA EdwardsDoubles ==
  ASSUME NEW m \in Nat, NEW a \in Int, NEW b \in Int, NEW x \in Int, NEW y \in Int,
         Same(m, a * (x * x) + y * y, 1 + b * ((x * x) * (y * y))),
         NEW P \in Int, NEW Q \in Int, NEW R \in Int, Same(m, P, x * R), Same(m, Q, y * R),
         NEW F, F = a * (P * P) + Q * Q, NEW J, J = F - 2 * R * R, NEW e, e = b * ((x * x) * (y * y)),
         NEW s, s = -((R * R) * (R * R)), NEW X \in Int, NEW Y \in Int, NEW Z \in Int,
         Same(m, X, ((P + Q) * (P + Q) - P * P - Q * Q) * J), Same(m, Y, F * (a * (P * P) - Q * Q)), Same(m, Z, F * J)
  PROVE  Fractions(m, s, e, x * y + y * x, y * y - a * (x * x), X, Y, Z)
<1> DEFINE z == R * R
           n == x * y + y * x
           k == y * y - a * (x * x)
           H == (P + Q) * (P + Q) - P * P - Q * Q
           K == a * (P * P) - Q * Q
           f == 1 + e
           g == e - 1
           l == -k
           S1 == z * n
           S2 == z * f
           S3 == z * g
           S4 == z * l
<1>1. PICK i1 \in Int : P = x * R + i1 * m
  BY DEF Same
<1>2. PICK i2 \in Int : Q = y * R + i2 * m
  BY DEF Same
<1>3. PICK i3 \in Int : a * (x * x) + y * y = 1 + b * ((x * x) * (y * y)) + i3 * m
  BY DEF Same
<1>4. z \in Int /\ n \in Int /\ k \in Int /\ H \in Int /\ K \in Int /\ F \in Int /\ e \in Int
  OBVIOUS
<1>5. J = F - 2 * z /\ a * (x * x) + y * y = f + i3 * m
  BY <1>3
<1>6. Same(m, P * P, z * (x * x)) /\ Same(m, Q * Q, z * (y * y)) /\ Same(m, H, z * n)
  <2> DEFINE w1 == 2 * x * R * i1 + i1 * i1 * m
             w2 == 2 * y * R * i2 + i2 * i2 * m
             w3 == 2 * (x * R * i2 + y * R * i1 + i1 * i2 * m)
  <2>1. w1 \in Int /\ w2 \in Int /\ w3 \in Int
    OBVIOUS
  <2>2. P * P = z * (x * x) + w1 * m /\ Q * Q = z * (y * y) + w2 * m /\ H = z * n + w3 * m
    BY <1>1, <1>2, SMT
  <2> QED
    BY <2>1, <2>2 DEF Same
<1>7. PICK j1 \in Int : P * P = z * (x * x) + j1 * m
  BY <1>6 DEF Same
<1>8. PICK j2 \in Int : Q * Q = z * (y * y) + j2 * m
  BY <1>6 DEF Same
<1>9. Same(m, F, S2) /\ Same(m, J, S3) /\ Same(m, K, S4) /\ Same(m, H, S1)
  <2> DEFINE A == P * P
             B == Q * Q
             A1 == x * x
             B1 == y * y
             w == a * j1 + j2 + z * i3
             w2 == a * j1 - j2
  <2>1. /\ A \in Int /\ B \in Int /\ A1 \in Int /\ B1 \in Int /\ A = z * A1 + j1 * m /\ B = z * B1 + j2 * m
        /\ F = a * A + B /\ K = a * A - B /\ f = 1 + e /\ a * A1 + B1 = f + i3 * m /\ J = F - 2 * z /\ l = a * A1 - B1
        /\ g = f - 2
    BY <1>4, <1>5, <1>7, <1>8
  <2>2. w \in Int /\ w2 \in Int
    BY <1>4
  <2> HIDE DEF A, B, A1, B1, z, K, f, g, l, n
  <2>3. f \in Int /\ g \in Int /\ l \in Int
    BY <1>4, <2>1
  <2>4. F = z * f + w * m
    <3>1. F = z * (a * A1 + B1) + (a * j1 + j2) * m
      BY <1>4, <2>1, SMT
    <3> DEFINE h == a * A1 + B1
    <3>2. h \in Int /\ h = f + i3 * m /\ F = z * h + (a * j1 + j2) * m
      BY <1>4, <2>1, <3>1
    <3> HIDE DEF h
    <3> QED
      BY <1>4, <2>3, <3>2, SMT
  <2>5. K = z * l + w2 * m
    BY <1>4, <2>1, SMT
  <2>6. J = z * g + w * m
    BY <1>4, <2>1, <2>3, <2>4, SMT
  <2> QED
    BY <1>6, <2>2, <2>4, <2>5, <2>6 DEF Same
<1>10. f \in Int /\ g \in Int /\ l \in Int /\ J \in Int
  BY <1>4, <1>5
<1> HIDE DEF H, K, f, g, l, n, k, z
<1>11. S1 \in Int /\ S2 \in Int /\ S3 \in Int /\ S4 \in Int
  BY <1>4, <1>10
<1> HIDE DEF S1, S2, S3, S4
<1>12. Same(m, H * J, S1 * S3) /\ Same(m, F * K, S2 * S4) /\ Same(m, F * J, S2 * S3)
  BY <1>4, <1>9, <1>10, <1>11, SameProduct
<1>13. S1 * S3 = s * ((1 - e) * n) /\ S2 * S4 = s * ((1 + e) * k) /\ S2 * S3 = s * ((1 - e) * (1 + e))
  <2>1. s = -(z * z) /\ f = 1 + e /\ g = e - 1 /\ l = -k /\ S1 = z * n /\ S2 = z * f /\ S3 = z * g /\ S4 = z * l
    BY DEF z, f, g, l, S1, S2, S3, S4
  <2> QED
    BY <1>4, <2>1, SMT
<1>14. s \in Int
  BY <1>4 DEF z
<1> DEFINE p1 == H * J
           p2 == F * K
           p3 == F * J
           q1 == s * ((1 - e) * n)
           q2 == s * ((1 + e) * k)
           q3 == s * ((1 - e) * (1 + e))
<1>15. p1 \in Int /\ p2 \in Int /\ p3 \in Int /\ Same(m, X, p1) /\ Same(m, Y, p2) /\ Same(m, Z, p3)
       /\ Same(m, p1, q1) /\ Same(m, p2, q2) /\ Same(m, p3, q3)
  <2>1. p1 \in Int /\ p2 \in Int /\ p3 \in Int
    BY <1>4, <1>10
  <2>2. Same(m, p1, q1) /\ Same(m, p2, q2) /\ Same(m, p3, q3)
    BY <1>12, <1>13
  <2>3. Same(m, X, p1) /\ Same(m, Y, p2) /\ Same(m, Z, p3)
    BY DEF H, K
  <2> QED
    BY <2>1, <2>2, <2>3
<1>16. q1 \in Int /\ q2 \in Int /\ q3 \in Int
  <2> DEFINE f1 == 1 - e
             f2 == 1 + e
  <2>1. f1 \in Int /\ f2 \in Int
    BY <1>4
  <2> HIDE DEF f1, f2
  <2>2. s * (f1 * n) \in Int /\ s * (f2 * k) \in Int /\ s * (f1 * f2) \in Int
    BY <1>4, <1>14, <2>1
  <2> QED
    BY <2>2 DEF f1, f2
<1> HIDE DEF p1, p2, p3, q1, q2, q3
<1>17. Same(m, X, q1) /\ Same(m, Y, q2) /\ Same(m, Z, q3)
  BY <1>15, <1>16, SameTrans
<1> QED
  BY <1>4, <1>14, <1>17 DEF Fractions, q1, q2, q3, k, n

LEMMA EdwardsAddition ==
  ASSUME NEW c, NEW T, NEW N, IsCurve(c, T, N), c.type = "edwards", NEW i \in 1 .. N, NEW j \in 1 .. N,
         NEW P, NEW Q, Stands(c, P, T[i]), Stands(c, Q, T[j]), NEW R, R = AddEdwards(c, P, Q)
  PROVE  Stands(c, R, T[At(i + j, N)])
<1> DEFINE m == c.p
           a == c.a
           b == c.b
           X1 == P.x
           Y1 == P.y
           Z1 == P.z
           X2 == Q.x
           Y2 == Q.y
           Z2 == Q.z
           x1 == T[i].x
           y1 == T[i].y
           x2 == T[j].x
           y2 == T[j].y
           e == b * ((x1 * x2) * (y1 * y2))
           u == T[At(i + j, N)].x
           v == T[At(i + j, N)].y
           A == (Z1 * Z2) % m
           C == (X1 * X2) % m
           D == (Y1 * Y2) % m
           H == (X1 + Y1) * (X2 + Y2) - C - D
           E == b * C * D
           F == A * A - E
           G == A * A + E
           z == Z1 * Z2
           s == (z * z) * (z * z)
           f == x1 * x2
           g == y1 * y2
           n == x1 * y2 + y1 * x2
<1>1. m \in Nat /\ m > 0 /\ Prime(m) /\ a \in Int /\ b \in Int /\ 0 \in Int
  <2>1. m \in Nat /\ m > 2 /\ Prime(m) /\ a \in Int /\ b \in Int
    BY CurveFacts
  <2> QED
    BY <2>1
<1>2. /\ x1 \in Int /\ y1 \in Int /\ x2 \in Int /\ y2 \in Int /\ e \in Int /\ u \in Int /\ v \in Int
      /\ ~Same(m, 1 + e, 0) /\ ~Same(m, 1 - e, 0)
      /\ Same(m, u * (1 + e), n) /\ Same(m, v * (1 - e), g - a * f)
  BY EdwardsSumIs
<1>3. /\ X1 \in Int /\ Y1 \in Int /\ Z1 \in Int /\ X2 \in Int /\ Y2 \in Int /\ Z2 \in Int
      /\ Same(m, X1, x1 * Z1) /\ Same(m, Y1, y1 * Z1) /\ Same(m, X2, x2 * Z2) /\ Same(m, Y2, y2 * Z2)
      /\ ~Same(m, Z1, 0) /\ ~Same(m, Z2, 0)
  BY DEF Stands, Over
<1>4. R = Reduced(c, F * A * H, A * G * (D - a * C), F * G)
  BY DEF AddEdwards
<1>5. e = b * (f * g)
  OBVIOUS
<1> HIDE DEF m, a, b, X1, Y1, Z1, X2, Y2, Z2, x1, y1, x2, y2, u, v
<1>6. f \in Int /\ g \in Int /\ n \in Int /\ z \in Int
  BY <1>2, <1>3
<1>7. /\ A \in Int /\ C \in Int /\ D \in Int
      /\ Same(m, A, z) /\ Same(m, C, X1 * X2) /\ Same(m, D, Y1 * Y2)
  <2> DEFINE z1 == X1 * X2
             z2 == Y1 * Y2
  <2>1. z1 \in Int /\ z2 \in Int /\ z \in Int
    BY <1>3
  <2> HIDE DEF z1, z2, z
  <2>2. z % m \in Int /\ z1 % m \in Int /\ z2 % m \in Int /\ Same(m, z % m, z) /\ Same(m, z1 % m, z1) /\ Same(m, z2 % m, z2)
    BY <1>1, <2>1, SameRemainder
  <2> QED
    BY <2>2 DEF z, z1, z2
<1> HIDE DEF A, C, D
<1>8. Same(m, C, z * f) /\ Same(m, D, z * g) /\ Same(m, H, z * n) /\ H \in Int
  <2>1. PICK i1 \in Int : X1 = x1 * Z1 + i1 * m
    BY <1>3 DEF Same
  <2>2. PICK i2 \in Int : Y1 = y1 * Z1 + i2 * m
    BY <1>3 DEF Same
  <2>3. PICK i3 \in Int : X2 = x2 * Z2 + i3 * m
    BY <1>3 DEF Same
  <2>4. PICK i4 \in Int : Y2 = y2 * Z2 + i4 * m
    BY <1>3 DEF Same
  <2>5. PICK i5 \in Int : C = X1 * X2 + i5 * m
    BY <1>7 DEF Same
  <2>6. PICK i6 \in Int : D = Y1 * Y2 + i6 * m
    BY <1>7 DEF Same
  <2> DEFINE w1 == x1 * Z1 * i3 + i1 * x2 * Z2 + i1 * i3 * m + i5
             w2 == y1 * Z1 * i4 + i2 * y2 * Z2 + i2 * i4 * m + i6
             w3 == x1 * Z1 * i4 + i1 * y2 * Z2 + i1 * i4 * m + y1 * Z1 * i3 + i2 * x2 * Z2 + i2 * i3 * m - i5 - i6
  <2>7. w1 \in Int /\ w2 \in Int /\ w3 \in Int
    <3>1. x1 * Z1 \in Int /\ x2 * Z2 \in Int /\ y1 * Z1 \in Int /\ y2 * Z2 \in Int /\ m \in Int
      BY <1>1, <1>2, <1>3
    <3> QED
      BY <1>1, <1>2, <1>3, <3>1
  <2>8. C = z * f + w1 * m
    BY <1>1, <1>2, <1>3, <2>1, <2>3, <2>5, SMT
  <2>9. D = z * g + w2 * m
    BY <1>1, <1>2, <1>3, <2>2, <2>4, <2>6, SMT
  <2>10. H = z * n + w3 * m
    BY <1>1, <1>2, <1>3, <2>1, <2>2, <2>3, <2>4, <2>5, <2>6, SMT
  <2>11. H \in Int
    BY <1>3, <1>7
  <2> QED
    BY <2>7, <2>8, <2>9, <2>10, <2>11 DEF Same
<1>9. F * A * H = (A * A - E) * A * H /\ A * G * (D - a * C) = A * (A * A + E) * (D - a * C) /\ F * G = (A * A - E) * (A * A + E)
  OBVIOUS
<1>10. F * A * H \in Int /\ A * G * (D - a * C) \in Int /\ F * G \in Int
  <2>1. E \in Int
    BY <1>1, <1>7
  <2> HIDE DEF E
  <2>2. F \in Int /\ G \in Int
    BY <1>7, <2>1
  <2> HIDE DEF F, G, H
  <2> QED
    BY <1>1, <1>7, <1>8, <2>2
<1> DEFINE p1 == F * A * H
           p2 == A * G * (D - a * C)
           p3 == F * G
<1>11. /\ R \in Coordinates(c) /\ R.x \in Int /\ R.y \in Int /\ R.z \in Int
       /\ Same(m, R.x, p1) /\ Same(m, R.y, p2) /\ Same(m, R.z, p3)
  <2>1. R = Reduced(c, p1, p2, p3) /\ p1 \in Int /\ p2 \in Int /\ p3 \in Int
    BY <1>4, <1>10
  <2> HIDE DEF p1, p2, p3
  <2> QED
    BY <1>1, <2>1, ReducedIs DEF m
<1>12. Fractions(m, s, e, n, g - a * f, R.x, R.y, R.z)
  <2> DEFINE X == R.x
             Y == R.y
             Z == R.z
  <2>1. /\ X \in Int /\ Y \in Int /\ Z \in Int /\ Same(m, X, (A * A - E) * A * H)
        /\ Same(m, Y, A * (A * A + E) * (D - a * C)) /\ Same(m, Z, (A * A - E) * (A * A + E))
    BY <1>11
  <2>2. E = b * C * D /\ s = (z * z) * (z * z)
    OBVIOUS
  <2> HIDE DEF X, Y, Z, E, s, H, f, g, n, z, e
  <2>3. /\ m \in Nat /\ a \in Int /\ b \in Int /\ z \in Int /\ f \in Int /\ g \in Int /\ n \in Int
        /\ A \in Int /\ C \in Int /\ D \in Int /\ H \in Int
        /\ Same(m, A, z) /\ Same(m, C, z * f) /\ Same(m, D, z * g) /\ Same(m, H, z * n)
    BY <1>1, <1>6, <1>7, <1>8
  <2>4. Fractions(m, s, e, n, g - a * f, X, Y, Z)
    BY ONLY <2>1, <2>2, <2>3, <1>5, EdwardsScales
  <2> QED
    BY <2>4 DEF X, Y, Z
<1>13. ~Same(m, s, 0)
  <2>1. ~Same(m, z, 0)
    BY <1>1, <1>3, NonZeroProduct
  <2> DEFINE y == z * z
  <2>2. y \in Int /\ ~Same(m, y, 0)
    BY <1>1, <1>6, <2>1, NonZeroProduct
  <2>3. s = y * y
    OBVIOUS
  <2> HIDE DEF y, s
  <2> QED
    BY <1>1, <2>2, <2>3, NonZeroProduct
<1>14. Same(m, R.x, u * R.z) /\ Same(m, R.y, v * R.z) /\ ~Same(m, R.z, 0)
  <2> DEFINE k == g - a * f
             X == R.x
             Y == R.y
             Z == R.z
  <2>1. Fractions(m, s, e, n, k, X, Y, Z) /\ Same(m, v * (1 - e), k)
    BY <1>2, <1>12
  <2> HIDE DEF k, X, Y, Z, s, e, n
  <2>2. Same(m, X, u * Z) /\ Same(m, Y, v * Z) /\ ~Same(m, Z, 0)
    BY <1>1, <1>2, <1>13, <2>1, FractionsStand
  <2> QED
    BY <2>2 DEF X, Y, Z
<1> QED
  BY <1>2, <1>11, <1>14 DEF Stands, Over, m, u, v

LEMMA EdwardsDoubling ==
  ASSUME NEW c, NEW T, NEW N, IsCurve(c, T, N), c.type = "edwards", NEW i \in 1 .. N,
         NEW P, Stands(c, P, T[i]), NEW R, R = DblEdwards(c, P)
  PROVE  Stands(c, R, T[At(i + i, N)])
<1> DEFINE m == c.p
           a == c.a
           b == c.b
           X1 == P.x
           Y1 == P.y
           Z1 == P.z
           x == T[i].x
           y == T[i].y
           e == b * ((x * x) * (y * y))
           u == T[At(i + i, N)].x
           v == T[At(i + i, N)].y
           F == a * (X1 * X1) + Y1 * Y1
           J == F - 2 * Z1 * Z1
           H == (X1 + Y1) * (X1 + Y1) - X1 * X1 - Y1 * Y1
           K == a * (X1 * X1) - Y1 * Y1
           s == -((Z1 * Z1) * (Z1 * Z1))
           n == x * y + y * x
           k == y * y - a * (x * x)
<1>1. m \in Nat /\ m > 0 /\ Prime(m) /\ a \in Int /\ b \in Int /\ 0 \in Int
  <2>1. m \in Nat /\ m > 2 /\ Prime(m) /\ a \in Int /\ b \in Int
    BY CurveFacts
  <2> QED
    BY <2>1
<1>2. /\ x \in Int /\ y \in Int /\ e \in Int /\ u \in Int /\ v \in Int
      /\ ~Same(m, 1 + e, 0) /\ ~Same(m, 1 - e, 0)
      /\ Same(m, u * (1 + e), n) /\ Same(m, v * (1 - e), k)
  BY EdwardsSumIs
<1>3. /\ X1 \in Int /\ Y1 \in Int /\ Z1 \in Int
      /\ Same(m, X1, x * Z1) /\ Same(m, Y1, y * Z1) /\ ~Same(m, Z1, 0)
  BY DEF Stands, Over
<1>4. R = Reduced(c, H * J, F * K, F * J)
  BY DEF DblEdwards
<1>5. Same(m, a * (x * x) + y * y, 1 + b * ((x * x) * (y * y)))
  BY EdwardsPoint DEF OnEdwards
<1> HIDE DEF m, a, b, X1, Y1, Z1, x, y, u, v
<1>6. F \in Int /\ H \in Int /\ K \in Int
  BY <1>1, <1>3
<1>7. J \in Int
  <2> HIDE DEF F
  <2> QED
    BY <1>3, <1>6
<1> DEFINE p1 == H * J
           p2 == F * K
           p3 == F * J
<1>8. /\ R \in Coordinates(c) /\ R.x \in Int /\ R.y \in Int /\ R.z \in Int
      /\ Same(m, R.x, p1) /\ Same(m, R.y, p2) /\ Same(m, R.z, p3)
  <2>1. R = Reduced(c, p1, p2, p3) /\ p1 \in Int /\ p2 \in Int /\ p3 \in Int
    <3> HIDE DEF F, H, K, J
    <3> QED
      BY <1>4, <1>6, <1>7
  <2> HIDE DEF p1, p2, p3
  <2> QED
    BY <1>1, <2>1, ReducedIs DEF m
<1>9. Fractions(m, s, e, n, k, R.x, R.y, R.z)
  <2> DEFINE X == R.x
             Y == R.y
             Z == R.z
  <2>1. /\ X \in Int /\ Y \in Int /\ Z \in Int
        /\ Same(m, X, ((X1 + Y1) * (X1 + Y1) - X1 * X1 - Y1 * Y1) * J)
        /\ Same(m, Y, F * (a * (X1 * X1) - Y1 * Y1)) /\ Same(m, Z, F * J)
    BY <1>8
  <2>2. /\ F = a * (X1 * X1) + Y1 * Y1 /\ J = F - 2 * Z1 * Z1 /\ s = -((Z1 * Z1) * (Z1 * Z1))
        /\ e = b * ((x * x) * (y * y))
    OBVIOUS
  <2> HIDE DEF X, Y, Z, F, J, s, e
  <2>3. /\ m \in Nat /\ a \in Int /\ b \in Int /\ x \in Int /\ y \in Int /\ X1 \in Int /\ Y1 \in Int /\ Z1 \in Int
        /\ Same(m, X1, x * Z1) /\ Same(m, Y1, y * Z1)
        /\ Same(m, a * (x * x) + y * y, 1 + b * ((x * x) * (y * y)))
    BY <1>1, <1>2, <1>3, <1>5
  <2>4. Fractions(m, s, e, x * y + y * x, y * y - a * (x * x), X, Y, Z)
    BY ONLY <2>1, <2>2, <2>3, EdwardsDoubles
  <2> QED
    BY <2>4 DEF X, Y, Z
<1>10. ~Same(m, s, 0) /\ s \in Int
  <2> DEFINE z == Z1 * Z1
             q == z * z
  <2>1. z \in Int /\ ~Same(m, z, 0)
    BY <1>1, <1>3, NonZeroProduct
  <2> HIDE DEF z
  <2>2. q \in Int /\ ~Same(m, q, 0)
    BY <1>1, <2>1, NonZeroProduct
  <2>3. s = -q
    BY DEF z
  <2> HIDE DEF q, s
  <2>4. ASSUME Same(m, s, 0) PROVE FALSE
    <3>1. PICK h \in Int : s = 0 + h * m
      BY <2>4 DEF Same
    <3>2. -h \in Int /\ q = 0 + (-h) * m
      BY <1>1, <2>2, <2>3, <3>1
    <3> QED
      BY <2>2, <3>2 DEF Same
  <2> QED
    BY <2>2, <2>3, <2>4
<1>11. Same(m, R.x, u * R.z) /\ Same(m, R.y, v * R.z) /\ ~Same(m, R.z, 0)
  <2> DEFINE X == R.x
             Y == R.y
             Z == R.z
  <2>1. Fractions(m, s, e, n, k, X, Y, Z)
    BY <1>9
  <2> HIDE DEF k, X, Y, Z, s, e, n
  <2>2. Same(m, X, u * Z) /\ Same(m, Y, v * Z) /\ ~Same(m, Z, 0)
    BY <1>1, <1>2, <1>10, <2>1, FractionsStand
  <2> QED
    BY <2>2 DEF X, Y, Z
<1> QED
  BY <1>2, <1>8, <1>11 DEF Stands, Over, m, u, v

(* What it means for the checked property: every point of an Edwards curve, *)
(* the neutral one too, is kept with a z other than 0.                      *)
LEMMA EdwardsStores ==
  ASSUME NEW c, NEW T, NEW N, IsCurve(c, T, N), c.type = "edwards", NEW i \in 1 .. N, NEW P
  PROVE  /\ Stores(c, T, i, P) <=> Stands(c, P, T[i])
         /\ Stores(c, T, i, P) => (IsInfinityOn(c, P) <=> i = N)
<1> DEFINE m == c.p
           S == T[i]
           X == P.x
           Y == P.y
           Z == P.z
           x == S.x
           y == S.y
<1>1. m \in Nat /\ m > 2 /\ m > 0 /\ Prime(m) /\ N \in Nat /\ T[N] = [x |-> 0, y |-> 1] /\ 0 \in Int
      /\ \A h \in 1 .. N - 1 : T[h] # [x |-> 0, y |-> 1]
  <2>1. m \in Nat /\ m > 2 /\ Prime(m) /\ N \in Nat /\ T[N] = Neutral(c) /\ \A h \in 1 .. N - 1 : T[h] # Neutral(c)
    BY CurveFacts
  <2> QED
    BY <2>1 DEF Neutral
<1>2. S = [x |-> x, y |-> y] /\ x \in 0 .. m - 1 /\ y \in 0 .. m - 1
  BY EdwardsPoint
<1>3. S # O /\ x \in Int /\ y \in Int
  <2>1. x # -1 /\ x \in Int /\ y \in Int
    BY <1>1, <1>2
  <2> QED
    BY <2>1 DEF O
<1>4. ASSUME P \in Coordinates(c)
      PROVE  (Represents(c, P, S) <=> Stands(c, P, S)) /\ X \in 0 .. m - 1 /\ Y \in 0 .. m - 1 /\ Z \in 0 .. m - 1
  <2>1. X \in Int /\ Y \in Int /\ Z \in Int /\ (Same(m, Z, 0) <=> Z = 0)
        /\ X \in 0 .. m - 1 /\ Y \in 0 .. m - 1 /\ Z \in 0 .. m - 1
    BY <1>1, <1>4, CoordinatesAre
  <2>2. Represents(c, P, S) <=> Z # 0 /\ (X - x * Z) % m = 0 /\ (Y - y * Z) % m = 0
    BY <1>3 DEF Represents
  <2>3. Stands(c, P, S) <=> Same(m, X, x * Z) /\ Same(m, Y, y * Z) /\ ~Same(m, Z, 0)
    BY <1>3, <1>4, <2>1 DEF Stands, Over
  <2> HIDE DEF m, X, Y, Z, x, y, S
  <2> DEFINE g == x * Z
             h == y * Z
  <2>4. g \in Int /\ h \in Int
    BY <1>3, <2>1
  <2> HIDE DEF g, h
  <2>5. (Same(m, X, g) <=> (X - g) % m = 0) /\ (Same(m, Y, h) <=> (Y - h) % m = 0)
    BY <1>1, <2>1, <2>4, SameZero
  <2> QED
    BY <2>1, <2>2, <2>3, <2>5 DEF g, h
<1>5. Stores(c, T, i, P) <=> Stands(c, P, S)
  BY <1>4 DEF Stores, Stands
<1>6. ASSUME Stands(c, P, S) PROVE IsInfinityOn(c, P) <=> i = N
  <2>1. /\ X \in Int /\ Y \in Int /\ Z \in Int /\ Same(m, X, x * Z) /\ Same(m, Y, y * Z) /\ ~Same(m, Z, 0)
        /\ X \in 0 .. m - 1 /\ Y \in 0 .. m - 1 /\ Z \in 0 .. m - 1
    BY <1>4, <1>6 DEF Stands, Over
  <2>2. IsInfinityOn(c, P) <=> X = 0 /\ Y = Z
    BY DEF IsInfinityOn
  <2>3. i = N <=> x = 0 /\ y = 1
    <3>1. CASE i = N
      BY <1>1, <3>1
    <3>2. CASE i # N
      <4>1. S # [x |-> 0, y |-> 1]
        BY <1>1, <3>2
      <4> QED
        BY <1>2, <3>2, <4>1
    <3> QED
      BY <3>1, <3>2
  <2>4. 0 \in 0 .. m - 1 /\ 1 \in 0 .. m - 1 /\ 1 \in Int
    BY <1>1
  <2> HIDE DEF m, X, Y, Z, x, y, S
  <2>5. ASSUME X = 0, Y = Z PROVE x = 0 /\ y = 1
    <3> DEFINE g == x * Z
               h == y * Z
    <3>1. g \in Int /\ h \in Int /\ Same(m, 0, g) /\ Same(m, Z, h) /\ (y - 1) * Z = h - Z /\ y - 1 \in Int
      BY <1>3, <2>1, <2>5
    <3>2. Same(m, x * Z, 0)
      BY <1>1, <3>1, SameBack
    <3>3. Same(m, (y - 1) * Z, 0)
      <4> HIDE DEF g, h
      <4>1. Same(m, h, Z)
        BY <1>1, <2>1, <3>1, SameBack
      <4>2. Same(m, h - Z, 0)
        BY <1>1, <2>1, <3>1, <4>1, SameDifference
      <4> QED
        BY <3>1, <4>2
    <3>4. Same(m, x, 0)
      BY <1>1, <1>3, <2>1, <3>2, NoZeroDivisor
    <3> DEFINE q == y - 1
    <3>5. q \in Int /\ Same(m, q * Z, 0)
      BY <3>1, <3>3
    <3> HIDE DEF q
    <3>6. Same(m, q, 0)
      BY <1>1, <2>1, <3>5, NoZeroDivisor
    <3>7. Same(m, y, 1)
      BY <1>1, <1>3, <2>4, <3>6, SameDifference DEF q
    <3> QED
      BY <1>1, <1>2, <2>4, <3>4, <3>7, SameSmall
  <2>6. ASSUME x = 0, y = 1 PROVE X = 0 /\ Y = Z
    <3>1. x * Z = 0 /\ y * Z = Z
      BY <2>1, <2>6
    <3>2. Same(m, X, 0) /\ Same(m, Y, Z)
      BY <2>1, <3>1
    <3> QED
      BY <1>1, <2>1, <2>4, <3>2, SameSmall
  <2> QED
    BY <2>2, <2>3, <2>5, <2>6
<1> QED
  BY <1>5, <1>6

LEMMA EdwardsAdd ==
  ASSUME NEW c, NEW T, NEW N, IsCurve(c, T, N), c.type = "edwards",
         NEW i \in 1 .. N, NEW j \in 1 .. N, NEW P, NEW Q, Stores(c, T, i, P), Stores(c, T, j, Q)
  PROVE  Stores(c, T, At(i + j, N), AddOn(c, P, Q))
<1>1. N \in Nat /\ N > 2
  BY CurveFacts
<1>2. At(i + j, N) = IF i + j <= N THEN i + j ELSE i + j - N
  BY <1>1, SumPlace
<1>3. CASE i = N
  <2>1. IsInfinityOn(c, P)
    BY <1>3, EdwardsStores
  <2>2. At(i + j, N) = j
    <3>1. i = N /\ j \in Nat /\ j > 0 /\ (i + j <= N <=> FALSE) /\ i + j - N = j
      BY <1>1, <1>3
    <3> QED
      BY <1>2, <3>1
  <2> QED
    BY <2>1, <2>2 DEF AddOn
<1>4. CASE i # N /\ j = N
  <2>1. ~IsInfinityOn(c, P) /\ IsInfinityOn(c, Q)
    BY <1>4, EdwardsStores
  <2>2. At(i + j, N) = i
    <3>1. j = N /\ i \in Nat /\ i > 0 /\ (i + j <= N <=> FALSE) /\ i + j - N = i
      BY <1>1, <1>4
    <3> QED
      BY <1>2, <3>1
  <2> QED
    BY <2>1, <2>2 DEF AddOn
<1>5. CASE i # N /\ j # N
  <2> DEFINE R == AddEdwards(c, P, Q)
             k == At(i + j, N)
  <2>1. ~IsInfinityOn(c, P) /\ ~IsInfinityOn(c, Q) /\ Stands(c, P, T[i]) /\ Stands(c, Q, T[j])
    BY <1>5, EdwardsStores
  <2>2. AddOn(c, P, Q) = R
    BY <2>1 DEF AddOn
  <2>3. Stands(c, R, T[k])
    BY <2>1, EdwardsAddition
  <2>4. k \in 1 .. N
    BY <1>1, <1>2
  <2> HIDE DEF R, k
  <2>5. Stores(c, T, k, R)
    BY <2>3, <2>4, EdwardsStores
  <2> QED
    BY <2>2, <2>5 DEF k
<1> QED
  BY <1>3, <1>4, <1>5

LEMMA EdwardsDouble ==
  ASSUME NEW c, NEW T, NEW N, IsCurve(c, T, N), c.type = "edwards",
         NEW i \in 1 .. N, NEW P, Stores(c, T, i, P)
  PROVE  Stores(c, T, At(i + i, N), DblOn(c, P))
<1>1. N \in Nat /\ N > 2
  BY CurveFacts
<1>2. At(i + i, N) = IF i + i <= N THEN i + i ELSE i + i - N
  BY <1>1, SumPlace
<1>3. CASE i = N
  <2>1. IsInfinityOn(c, P)
    BY <1>3, EdwardsStores
  <2>2. At(i + i, N) = i
    <3>1. i = N /\ i \in Nat /\ (i + i <= N <=> FALSE) /\ i + i - N = i
      BY <1>1, <1>3
    <3> QED
      BY <1>2, <3>1
  <2> QED
    BY <2>1, <2>2 DEF DblOn
<1>4. CASE i # N
  <2> DEFINE R == DblEdwards(c, P)
             k == At(i + i, N)
  <2>1. ~IsInfinityOn(c, P) /\ Stands(c, P, T[i])
    BY <1>4, EdwardsStores
  <2>2. DblOn(c, P) = R
    BY <2>1 DEF DblOn
  <2>3. Stands(c, R, T[k])
    BY <2>1, EdwardsDoubling
  <2>4. k \in 1 .. N
    BY <1>1, <1>2
  <2> HIDE DEF R, k
  <2>5. Stores(c, T, k, R)
    BY <2>3, <2>4, EdwardsStores
  <2> QED
    BY <2>2, <2>5 DEF k
<1> QED
  BY <1>3, <1>4

LEMMA EdwardsOnCurve ==
  ASSUME NEW c, NEW T, NEW N, IsCurve(c, T, N), c.type = "edwards",
         NEW i \in 1 .. N, NEW P, Stores(c, T, i, P)
  PROVE  IsOnCurve(c, P)
<1>1. CASE i = N
  BY <1>1, EdwardsStores DEF IsOnCurve
<1>2. CASE i # N
  <2>1. i \in 1 .. N - 1 /\ c.p \in Nat /\ c.p > 0
    <3>1. N \in Nat /\ c.p \in Nat /\ c.p > 2
      BY CurveFacts
    <3> QED
      BY <1>2, <3>1
  <2>2. Stands(c, P, T[i])
    BY EdwardsStores
  <2>3. P \in Coordinates(c) /\ Over(c.p, P, T[i].x, T[i].y) /\ P.z # 0
    BY <2>1, <2>2, CoordinatesAre DEF Stands
  <2> QED
    BY <2>1, <2>3, ScaledOnCurve
<1> QED
  BY <1>1, <1>2

LEMMA EdwardsEquals ==
  ASSUME NEW c, NEW T, NEW N, IsCurve(c, T, N), c.type = "edwards",
         NEW i \in 1 .. N, NEW j \in 1 .. N, NEW P, NEW Q, Stores(c, T, i, P), Stores(c, T, j, Q)
  PROVE  EqualsOn(c, P, Q) <=> i = j
<1> DEFINE m == c.p
           S == T[i]
           U == T[j]
<1>1. Prime(m)
  BY CurveFacts
<1>2. /\ P.x \in Int /\ P.y \in Int /\ P.z \in Int /\ Q.x \in Int /\ Q.y \in Int /\ Q.z \in Int
  BY StoredNumbers
<1>3. EqualsOn(c, P, Q) <=> (P.x * Q.z - Q.x * P.z) % m = 0 /\ (P.y * Q.z - Q.y * P.z) % m = 0
  BY DEF EqualsOn
<1>4. /\ S = [x |-> S.x, y |-> S.y] /\ S.x \in 0 .. m - 1 /\ S.y \in 0 .. m - 1
      /\ U = [x |-> U.x, y |-> U.y] /\ U.x \in 0 .. m - 1 /\ U.y \in 0 .. m - 1
  BY EdwardsPoint
<1>5. Stands(c, P, S) /\ Stands(c, Q, U)
  BY EdwardsStores
<1>6. /\ ~Same(m, P.z, 0) /\ ~Same(m, Q.z, 0) /\ Same(m, P.x, S.x * P.z) /\ Same(m, P.y, S.y * P.z)
      /\ Same(m, Q.x, U.x * Q.z) /\ Same(m, Q.y, U.y * Q.z)
  BY <1>5 DEF Stands, Over
<1> HIDE DEF S, U, m
<1>7. (P.x * Q.z - Q.x * P.z) % m = 0 <=> S.x = U.x
  <2> DEFINE x1 == S.x
             x2 == U.x
             X1 == P.x
             X2 == Q.x
             Z1 == P.z
             Z2 == Q.z
  <2>1. /\ Prime(m) /\ x1 \in 0 .. m - 1 /\ x2 \in 0 .. m - 1 /\ X1 \in Int /\ Z1 \in Int /\ X2 \in Int /\ Z2 \in Int
        /\ ~Same(m, Z1, 0) /\ ~Same(m, Z2, 0) /\ Same(m, X1, x1 * Z1) /\ Same(m, X2, x2 * Z2)
    BY <1>1, <1>2, <1>4, <1>6
  <2> HIDE DEF x1, x2, X1, X2, Z1, Z2
  <2>2. (X1 * Z2 - X2 * Z1) % m = 0 <=> x1 = x2
    BY ONLY <2>1, CrossIs
  <2> QED
    BY <2>2 DEF x1, x2, X1, X2, Z1, Z2
<1>8. (P.y * Q.z - Q.y * P.z) % m = 0 <=> S.y = U.y
  <2> DEFINE x1 == S.y
             x2 == U.y
             X1 == P.y
             X2 == Q.y
             Z1 == P.z
             Z2 == Q.z
  <2>1. /\ Prime(m) /\ x1 \in 0 .. m - 1 /\ x2 \in 0 .. m - 1 /\ X1 \in Int /\ Z1 \in Int /\ X2 \in Int /\ Z2 \in Int
        /\ ~Same(m, Z1, 0) /\ ~Same(m, Z2, 0) /\ Same(m, X1, x1 * Z1) /\ Same(m, X2, x2 * Z2)
    BY <1>1, <1>2, <1>4, <1>6
  <2> HIDE DEF x1, x2, X1, X2, Z1, Z2
  <2>2. (X1 * Z2 - X2 * Z1) % m = 0 <=> x1 = x2
    BY ONLY <2>1, CrossIs
  <2> QED
    BY <2>2 DEF x1, x2, X1, X2, Z1, Z2
<1>9. S = U <=> i = j
  BY PointsDiffer DEF S, U
<1> QED
  BY <1>3, <1>4, <1>7, <1>8, <1>9

(* Two points of an Edwards curve whose sum is neutral.                     *)
Opposed(m, a, b, x1, y1, x2, y2) ==
  /\ OnEdwards(m, a, b, x1, y1) /\ OnEdwards(m, a, b, x2, y2)
  /\ Same(m, x1 * y2 + y1 * x2, 0)
  /\ Same(m, y1 * y2 - a * (x1 * x2), 1 - b * ((x1 * x2) * (y1 * y2)))

(* They have the same y, or opposite ones.                                  *)
LEMMA CancelSquares ==
  ASSUME NEW m, NEW a, NEW b, NEW r, Twisted(m, a, b, r),
         NEW x1, NEW y1, NEW x2, NEW y2, Opposed(m, a, b, x1, y1, x2, y2)
  PROVE  Same(m, y2 - y1, 0) \/ Same(m, y2 + y1, 0)
<1>1. /\ Prime(m) /\ m \in Nat /\ m > 0 /\ a \in Int /\ b \in Int /\ x1 \in Int /\ y1 \in Int /\ x2 \in Int /\ y2 \in Int
      /\ 0 \in Int /\ 1 \in Int
  <2>1. m \in Nat /\ m > 2
    BY DEF Twisted, Prime
  <2> QED
    BY <2>1 DEF Twisted, Opposed, OnEdwards
<1>2. PICK h \in Int : x1 * y2 + y1 * x2 = 0 + h * m
  BY DEF Opposed, Same
<1>3. PICK k1 \in Int : a * (x1 * x1) + y1 * y1 = (1 + b * ((x1 * x1) * (y1 * y1))) + k1 * m
  BY DEF Opposed, OnEdwards, Same
<1>4. PICK k2 \in Int : a * (x2 * x2) + y2 * y2 = (1 + b * ((x2 * x2) * (y2 * y2))) + k2 * m
  BY DEF Opposed, OnEdwards, Same
<1> DEFINE s == y2 - y1
           t == y2 + y1
           q == 1 - b * ((x1 * y2) * (x1 * y2))
           w == a * h * (x1 * y2 - y1 * x2) - y2 * y2 * k1 + y1 * y1 * k2 - b * y2 * y2 * h * (x1 * y2 - y1 * x2)
<1>5. s \in Int /\ t \in Int /\ q \in Int /\ s * t \in Int /\ w \in Int
  BY <1>1
<1>6. (s * t) * q = w * m
  <2>1. (s * t) * q = (y2 * y2 - y1 * y1) * (1 - b * ((x1 * y2) * (x1 * y2)))
    BY <1>1, SMT
  <2>2. (y2 * y2) * (a * (x1 * x1) + y1 * y1) = (y2 * y2) * ((1 + b * ((x1 * x1) * (y1 * y1))) + k1 * m)
    BY <1>3
  <2>3. (y1 * y1) * (a * (x2 * x2) + y2 * y2) = (y1 * y1) * ((1 + b * ((x2 * x2) * (y2 * y2))) + k2 * m)
    BY <1>4
  <2>4. (x1 * y2) * (x1 * y2) - (y1 * x2) * (y1 * x2) = (h * m) * (x1 * y2 - y1 * x2)
    <3>1. (x1 * y2) * (x1 * y2) - (y1 * x2) * (y1 * x2) = (x1 * y2 + y1 * x2) * (x1 * y2 - y1 * x2)
      BY <1>1, SMT
    <3>2. x1 * y2 + y1 * x2 = h * m
      BY <1>1, <1>2
    <3> QED
      BY <3>1, <3>2
  <2> DEFINE f == x1 * y2 - y1 * x2
             U == (x1 * y2) * (x1 * y2)
             V == (y1 * x2) * (y1 * x2)
  <2>5. U \in Int /\ V \in Int /\ f \in Int /\ U = V + (h * m) * f
    BY <1>1, <2>4
  <2>6. a * U + y1 * y1 * y2 * y2 = y2 * y2 + b * ((y1 * y1) * U) + (y2 * y2 * k1) * m
    BY <1>1, <2>2, SMT
  <2>7. a * V + y1 * y1 * y2 * y2 = y1 * y1 + b * ((y2 * y2) * V) + (y1 * y1 * k2) * m
    BY <1>1, <2>3, SMT
  <2>8. (s * t) * q = y2 * y2 - y1 * y1 - b * ((y2 * y2) * U) + b * ((y1 * y1) * U)
    BY <1>1, <2>1, SMT
  <2>9. w = a * h * f - y2 * y2 * k1 + y1 * y1 * k2 - b * y2 * y2 * h * f
    OBVIOUS
  <2> HIDE DEF U, V, f, s, t, q, w
  <2>10. a * U = a * V + (a * h * f) * m /\ b * ((y2 * y2) * U) = b * ((y2 * y2) * V) + (b * y2 * y2 * h * f) * m
    <3>1. a * U = a * (V + (h * m) * f) /\ b * ((y2 * y2) * U) = b * ((y2 * y2) * (V + (h * m) * f))
      BY <2>5
    <3> QED
      BY <1>1, <2>5, <3>1, SMT
  <2>11. w * m = (a * h * f) * m - (y2 * y2 * k1) * m + (y1 * y1 * k2) * m - (b * y2 * y2 * h * f) * m
    BY <1>1, <2>5, <2>9, SMT
  <2> QED
    BY <1>1, <2>5, <2>6, <2>7, <2>8, <2>10, <2>11, SMT
<1> HIDE DEF s, t, w
<1>7. ~Same(m, q, 0)
  <2>1. SUFFICES ASSUME Same(m, q, 0) PROVE FALSE
    OBVIOUS
  <2> DEFINE v == x1 * y2
             e == b * (v * v)
  <2>2. v \in Int /\ q = 1 - e
    BY <1>1
  <2> HIDE DEF v
  <2>3. e \in Int /\ 1 * 1 = 1
    BY <1>1, <2>2
  <2>4. Same(m, 1, e)
    <3> HIDE DEF e
    <3> QED
      BY <1>1, <2>1, <2>2, <2>3, SameDifference
  <2>5. ~Same(m, v, 0)
    <3>1. SUFFICES ASSUME Same(m, v, 0) PROVE FALSE
      OBVIOUS
    <3>2. PICK g \in Int : v = 0 + g * m
      BY <3>1 DEF Same
    <3>3. b * g * v \in Int /\ e = 0 + (b * g * v) * m
      BY <1>1, <2>2, <3>2, SMT
    <3>4. Same(m, e, 0)
      BY <3>3 DEF Same
    <3>5. Same(m, 1, 0)
      BY <1>1, <2>3, <2>4, <3>4, SameTrans
    <3>6. 1 \in 0 .. m - 1 /\ 0 \in 0 .. m - 1
      BY DEF Twisted, Prime
    <3> QED
      BY <1>1, <3>5, <3>6, SameSmall
  <2>6. ~Same(m, 1 * 1, e)
    BY <1>1, <2>2, <2>5, NotSquare
  <2> QED
    BY <2>3, <2>4, <2>6
<1>8. Same(m, (s * t) * q, 0)
  <2> DEFINE g == (s * t) * q
  <2>1. g = 0 + w * m
    BY <1>1, <1>5, <1>6
  <2> QED
    BY <1>5, <2>1 DEF Same
<1> HIDE DEF q
<1>9. Same(m, s * t, 0)
  <2> DEFINE g == s * t
  <2>1. g \in Int /\ Same(m, g * q, 0)
    BY <1>5, <1>8
  <2> HIDE DEF g
  <2>2. Same(m, g, 0)
    BY <1>1, <1>5, <1>7, <2>1, NoZeroDivisor
  <2> QED
    BY <2>2 DEF g
<1>10. Same(m, s, 0) \/ Same(m, t, 0)
  BY <1>1, <1>5, <1>9, NoZeroDivisor
<1> QED
  BY <1>10 DEF s, t

(* The same y: then opposite x.                                             *)
LEMMA CancelSame ==
  ASSUME NEW m, NEW a, NEW b, NEW r, Twisted(m, a, b, r),
         NEW x1, NEW y1, NEW x2, NEW y2, Opposed(m, a, b, x1, y1, x2, y2), Same(m, y2 - y1, 0)
  PROVE  Same(m, x2 + x1, 0)
<1>1. /\ Prime(m) /\ m \in Nat /\ m > 0 /\ a \in Int /\ b \in Int /\ x1 \in Int /\ y1 \in Int /\ x2 \in Int /\ y2 \in Int
      /\ 0 \in Int /\ 1 \in Int
  <2>1. m \in Nat /\ m > 2
    BY DEF Twisted, Prime
  <2> QED
    BY <2>1 DEF Twisted, Opposed, OnEdwards
<1>2. PICK h \in Int : x1 * y2 + y1 * x2 = 0 + h * m
  BY DEF Opposed, Same
<1>3. PICK g \in Int : y2 - y1 = 0 + g * m
  BY DEF Same
<1> DEFINE s == x2 + x1
<1>4. s \in Int
  BY <1>1
<1>5. CASE ~Same(m, y1, 0)
  <2> DEFINE w == h - g * x1
  <2>1. w \in Int
    BY <1>1
  <2>2. s * y1 = 0 + w * m
    <3>1. y2 = y1 + g * m
      BY <1>1, <1>3
    <3> QED
      BY <1>1, <1>2, <3>1, SMT
  <2> HIDE DEF w, s
  <2>3. Same(m, s * y1, 0)
    BY <2>1, <2>2 DEF Same
  <2>4. Same(m, s, 0)
    BY <1>1, <1>4, <1>5, <2>3, NoZeroDivisor
  <2> QED
    BY <2>4 DEF s
<1>6. CASE Same(m, y1, 0)
  <2>1. PICK f \in Int : y1 = 0 + f * m
    BY <1>6 DEF Same
  <2>2. PICK k1 \in Int : a * (x1 * x1) + y1 * y1 = (1 + b * ((x1 * x1) * (y1 * y1))) + k1 * m
    BY DEF Opposed, OnEdwards, Same
  <2>3. PICK k2 \in Int : y1 * y2 - a * (x1 * x2) = (1 - b * ((x1 * x2) * (y1 * y2))) + k2 * m
    BY DEF Opposed, Same
  <2> DEFINE d1 == f * (b * (x1 * x1) * y1 - y1) + k1
             d2 == f * (y2 + b * (x1 * x2) * y2) - k2
             w == x2 * d1
  <2>4. d1 \in Int /\ d2 \in Int
    BY <1>1
  <2>5. a * (x1 * x1) = 1 + d1 * m
    <3>1. y1 * y1 = (f * y1) * m /\ (x1 * x1) * (y1 * y1) = ((x1 * x1) * (f * y1)) * m
      BY <1>1, <2>1, SMT
    <3> QED
      BY <1>1, <2>2, <3>1, SMT
  <2>6. a * (x1 * x2) = -1 + d2 * m
    <3>1. y1 * y2 = (f * y2) * m /\ (x1 * x2) * (y1 * y2) = ((x1 * x2) * (f * y2)) * m
      BY <1>1, <2>1, SMT
    <3> QED
      BY <1>1, <2>3, <3>1, SMT
  <2> DEFINE e == x1 * d2 - x2 * d1
  <2>7. e \in Int
    <3> HIDE DEF d1, d2
    <3> QED
      BY <1>1, <2>4
  <2>8. s = 0 + e * m
    <3>1. (a * (x1 * x1)) * x2 = (a * (x1 * x2)) * x1
      BY <1>1, SMT
    <3>2. (1 + d1 * m) * x2 = (-1 + d2 * m) * x1
      BY <2>5, <2>6, <3>1
    <3> HIDE DEF d1, d2
    <3> QED
      BY <1>1, <2>4, <3>2, SMT
  <2> QED
    BY <2>7, <2>8 DEF Same
<1> QED
  BY <1>5, <1>6

(* Opposite y: only both zero.                                              *)
LEMMA CancelOpposite ==
  ASSUME NEW m, NEW a, NEW b, NEW r, Twisted(m, a, b, r),
         NEW x1, NEW y1, NEW x2, NEW y2, Opposed(m, a, b, x1, y1, x2, y2), Same(m, y2 + y1, 0)
  PROVE  Same(m, y2 - y1, 0)
<1>1. /\ Prime(m) /\ m \in Nat /\ m > 2 /\ m > 0 /\ a \in Int /\ b \in Int /\ x1 \in Int /\ y1 \in Int /\ x2 \in Int /\ y2 \in Int
      /\ 0 \in Int /\ 1 \in Int
  <2>1. m \in Nat /\ m > 2
    BY DEF Twisted, Prime
  <2> QED
    BY <2>1 DEF Twisted, Opposed, OnEdwards
<1>2. PICK h \in Int : x1 * y2 + y1 * x2 = 0 + h * m
  BY DEF Opposed, Same
<1>3. PICK g \in Int : y2 + y1 = 0 + g * m
  BY DEF Same
<1>4. y2 = g * m - y1
  BY <1>1, <1>3
<1>5. CASE Same(m, y1, 0)
  <2>1. PICK f \in Int : y1 = 0 + f * m
    BY <1>5 DEF Same
  <2>2. g - 2 * f \in Int /\ y2 - y1 = 0 + (g - 2 * f) * m
    BY <1>1, <1>4, <2>1, SMT
  <2> QED
    BY <2>2 DEF Same
<1>6. CASE ~Same(m, y1, 0)
  <2> DEFINE s == x2 - x1
             w == h - g * x1
  <2>1. s \in Int /\ w \in Int
    BY <1>1
  <2>2. s * y1 = 0 + w * m
    BY <1>1, <1>2, <1>4, SMT
  <2> HIDE DEF s, w
  <2>3. Same(m, s * y1, 0)
    BY <2>1, <2>2 DEF Same
  <2>4. Same(m, s, 0)
    BY <1>1, <1>6, <2>1, <2>3, NoZeroDivisor
  <2>5. PICK f \in Int : s = 0 + f * m
    BY <2>4 DEF Same
  <2>6. x2 = x1 + f * m
    BY <1>1, <2>5 DEF s
  <2>7. PICK k1 \in Int : a * (x1 * x1) + y1 * y1 = (1 + b * ((x1 * x1) * (y1 * y1))) + k1 * m
    BY DEF Opposed, OnEdwards, Same
  <2>8. PICK k2 \in Int : y1 * y2 - a * (x1 * x2) = (1 - b * ((x1 * x2) * (y1 * y2))) + k2 * m
    BY DEF Opposed, Same
  <2> DEFINE t == 1 + b * (x1 * x1 * y1 * y1)
             n == y1 * g - a * x1 * f + b * x1 * y1 * (x1 * g + f * y2) - k1 - k2
  <2>9. t \in Int /\ n \in Int
    BY <1>1
  <2>10. t * 2 = 0 + n * m
    <3>1. y1 * y2 = (y1 * g) * m - y1 * y1 /\ x1 * x2 = x1 * x1 + (x1 * f) * m
      BY <1>1, <1>4, <2>6, SMT
    <3>2. (x1 * x2) * (y1 * y2) = (x1 * y1 * (x1 * g + f * y2)) * m - x1 * x1 * y1 * y1
      <4>1. (x1 * x2) * (y1 * y2) = x1 * x1 * (y1 * y2) + ((x1 * f) * m) * (y1 * y2)
        BY <1>1, <3>1, SMT
      <4>2. x1 * x1 * (y1 * y2) = x1 * x1 * ((y1 * g) * m - y1 * y1)
        BY <3>1
      <4> QED
        BY <1>1, <4>1, <4>2, SMT
    <3> DEFINE A == y1 * y2
               B == x1 * x2
               C == (x1 * x2) * (y1 * y2)
    <3>3. A - a * B = (1 - b * C) + k2 * m
      BY <2>8
    <3>4. A = (y1 * g) * m - y1 * y1 /\ B = x1 * x1 + (x1 * f) * m
      BY <3>1
    <3>5. C = (x1 * y1 * (x1 * g + f * y2)) * m - x1 * x1 * y1 * y1
      BY <3>2
    <3> HIDE DEF A, B, C
    <3>6. ((y1 * g) * m - y1 * y1) - a * (x1 * x1 + (x1 * f) * m)
            = (1 - b * ((x1 * y1 * (x1 * g + f * y2)) * m - x1 * x1 * y1 * y1)) + k2 * m
      BY <3>3, <3>4, <3>5
    <3> QED
      BY <1>1, <2>7, <3>6, SMT
  <2> HIDE DEF t, n
  <2>11. Same(m, t * 2, 0)
    BY <2>9, <2>10 DEF Same
  <2>12. ~Same(m, 2, 0)
    <3>1. 2 \in 0 .. m - 1 /\ 0 \in 0 .. m - 1
      BY <1>1
    <3> QED
      BY <1>1, <3>1, SameSmall
  <2>13. Same(m, t, 0)
    BY <1>1, <2>9, <2>11, <2>12, NoZeroDivisor
  <2> DEFINE u == b * (x1 * x1 * y1 * y1)
  <2>14. u \in Int /\ t = u + 1
    BY <1>1 DEF t
  <2>15. ~Same(m, u, -1)
    BY Complete DEF Opposed
  <2> HIDE DEF u
  <2>16. PICK v \in Int : t = 0 + v * m
    BY <2>13 DEF Same
  <2>17. u = -1 + v * m
    BY <1>1, <2>14, <2>16
  <2> QED
    BY <2>15, <2>17 DEF Same
<1> QED
  BY <1>5, <1>6

LEMMA CancelIs ==
  ASSUME NEW m, NEW a, NEW b, NEW r, Twisted(m, a, b, r),
         NEW x1, NEW y1, NEW x2, NEW y2, Opposed(m, a, b, x1, y1, x2, y2)
  PROVE  Same(m, x2 + x1, 0) /\ Same(m, y2 - y1, 0)
  BY CancelSquares, CancelSame, CancelOpposite

LEMMA EdwardsOpposite ==
  ASSUME NEW c, NEW T, NEW N, IsCurve(c, T, N), c.type = "edwards", NEW i \in 1 .. N - 1
  PROVE  Same(c.p, T[N - i].x + T[i].x, 0) /\ Same(c.p, T[N - i].y - T[i].y, 0)
<1> DEFINE m == c.p
           a == c.a
           b == c.b
           j == N - i
           x1 == T[i].x
           y1 == T[i].y
           x2 == T[j].x
           y2 == T[j].y
           e == b * ((x1 * x2) * (y1 * y2))
           n == x1 * y2 + y1 * x2
           k == y1 * y2 - a * (x1 * x2)
<1>1. /\ m \in Nat /\ m > 0 /\ a \in Int /\ b \in Int /\ 0 \in Int /\ N \in Nat
      /\ T[N].x = 0 /\ T[N].y = 1
  <2>1. m \in Nat /\ m > 2 /\ a \in Int /\ b \in Int /\ N \in Nat /\ T[N] = Neutral(c)
    BY CurveFacts
  <2> QED
    BY <2>1 DEF Neutral
<1>2. j \in 1 .. N /\ i \in 1 .. N /\ i + j = N
  BY <1>1
<1> HIDE DEF j
<1>3. At(i + j, N) = N
  <2>1. At(i + j, N) = IF i + j <= N THEN i + j ELSE i + j - N
    BY <1>1, <1>2, SumPlace
  <2> QED
    BY <1>1, <1>2, <2>1
<1>4. OnEdwards(m, a, b, x1, y1) /\ OnEdwards(m, a, b, x2, y2)
  BY <1>2, EdwardsPoint
<1>5. /\ x1 \in Int /\ y1 \in Int /\ x2 \in Int /\ y2 \in Int /\ e \in Int
      /\ Same(m, 0 * (1 + e), n) /\ Same(m, 1 * (1 - e), k)
  <2> DEFINE u == T[At(i + j, N)].x
             v == T[At(i + j, N)].y
  <2>1. /\ x1 \in Int /\ y1 \in Int /\ x2 \in Int /\ y2 \in Int /\ e \in Int
        /\ Same(m, u * (1 + e), n) /\ Same(m, v * (1 - e), k)
    BY <1>2, EdwardsSumIs
  <2>2. u = 0 /\ v = 1
    BY <1>1, <1>3
  <2> HIDE DEF u, v, e, n, k
  <2> QED
    BY <2>1, <2>2
<1> HIDE DEF m, a, b, x1, y1, x2, y2
<1>6. n \in Int /\ k \in Int
  BY <1>1, <1>5
<1>7. Same(m, n, 0) /\ Same(m, k, 1 - e)
  <2>1. 0 * (1 + e) = 0 /\ 1 * (1 - e) = 1 - e /\ 1 - e \in Int
    BY <1>5
  <2> HIDE DEF n, k, e
  <2> QED
    BY <1>1, <1>5, <1>6, <2>1, SameBack
<1>8. Opposed(m, a, b, x1, y1, x2, y2)
  BY <1>4, <1>7 DEF Opposed
<1>9. \E r \in Int : Twisted(m, a, b, r)
  BY TwistedCurve DEF m, a, b
<1>10. Same(m, x2 + x1, 0) /\ Same(m, y2 - y1, 0)
  BY <1>8, <1>9, CancelIs
<1> QED
  BY <1>10 DEF m, x1, y1, x2, y2, j

LEMMA EdwardsNegate ==
  ASSUME NEW c, NEW T, NEW N, IsCurve(c, T, N), c.type = "edwards",
         NEW i \in 1 .. N, NEW P, Stores(c, T, i, P)
  PROVE  Stores(c, T, IF i = N THEN N ELSE N - i, NegOn(c, P))
<1> DEFINE m == c.p
           R == NegOn(c, P)
           e == -P.x
           j == IF i = N THEN N ELSE N - i
           x1 == T[i].x
           y1 == T[i].y
           x2 == T[j].x
           y2 == T[j].y
<1>1. m \in Nat /\ m > 0 /\ N \in Nat /\ N > 2 /\ 0 \in Int
  <2>1. m \in Nat /\ m > 2 /\ N \in Nat /\ N > 2
    BY CurveFacts
  <2> QED
    BY <2>1
<1>2. /\ P \in Coordinates(c) /\ P.x \in Int /\ P.y \in Int /\ P.z \in Int
      /\ x1 \in Int /\ y1 \in Int
      /\ Same(m, P.x, x1 * P.z) /\ Same(m, P.y, y1 * P.z) /\ ~Same(m, P.z, 0)
  BY EdwardsStores DEF Stands, Over
<1>3. R = Reduced(c, e, P.y, P.z) /\ e \in Int
  BY <1>2 DEF NegOn
<1>4. j \in 1 .. N
  BY <1>1
<1>5. x2 \in Int /\ y2 \in Int
  <2>1. x2 \in 0 .. m - 1 /\ y2 \in 0 .. m - 1
    BY <1>4, EdwardsPoint
  <2> QED
    BY <1>1, <2>1
<1>6. Same(m, x2 + x1, 0) /\ Same(m, y2 - y1, 0)
  <2>1. CASE i = N
    <3>1. j = N /\ T[N] = Neutral(c)
      BY <2>1, CurveFacts
    <3>2. x2 = 0 /\ y2 = 1 /\ x1 = 0 /\ y1 = 1
      BY <2>1, <3>1 DEF Neutral
    <3>3. x2 + x1 = 0 /\ y2 - y1 = 0
      BY <3>2
    <3> QED
      BY <1>1, <3>3, SameSelf
  <2>2. CASE i # N
    <3>1. i \in 1 .. N - 1 /\ j = N - i
      BY <1>1, <2>2
    <3> QED
      BY <3>1, EdwardsOpposite
  <2> QED
    BY <2>1, <2>2
<1> HIDE DEF R, e, j, x2, y2, x1, y1
<1>7. /\ R \in Coordinates(c) /\ R.x \in Int /\ R.y \in Int /\ R.z \in Int
      /\ Same(m, R.x, e) /\ Same(m, R.y, P.y) /\ Same(m, R.z, P.z) /\ R.z = P.z % m
  BY <1>1, <1>2, <1>3, ReducedIs
<1>8. R.z = P.z
  <2>1. P.z \in 0 .. m - 1 /\ R.z \in 0 .. m - 1
    BY <1>1, <1>2, <1>7, CoordinatesAre
  <2> QED
    BY <1>1, <1>7, <2>1, SameSmall
<1>9. Same(m, R.x, x2 * R.z) /\ Same(m, R.y, y2 * R.z)
  <2> DEFINE X == P.x
             Y == P.y
             Z == R.z
             U == R.x
             V == R.y
  <2>1. /\ X \in Int /\ Y \in Int /\ Z \in Int /\ U \in Int /\ V \in Int /\ e = -X
        /\ Same(m, U, e) /\ Same(m, V, Y) /\ Same(m, X, x1 * Z) /\ Same(m, Y, y1 * Z)
    BY <1>2, <1>7, <1>8 DEF e
  <2> HIDE DEF X, Y, Z, U, V, m
  <2>2. PICK i1 \in Int : U = e + i1 * m
    BY <2>1 DEF Same
  <2>3. PICK i2 \in Int : V = Y + i2 * m
    BY <2>1 DEF Same
  <2>4. PICK i3 \in Int : X = x1 * Z + i3 * m
    BY <2>1 DEF Same
  <2>5. PICK i4 \in Int : Y = y1 * Z + i4 * m
    BY <2>1 DEF Same
  <2>6. PICK i5 \in Int : x2 + x1 = 0 + i5 * m
    BY <1>6 DEF Same
  <2>7. PICK i6 \in Int : y2 - y1 = 0 + i6 * m
    BY <1>6 DEF Same
  <2> DEFINE w1 == i1 - i3 - i5 * Z
             w2 == i2 + i4 - i6 * Z
  <2>8. w1 \in Int /\ w2 \in Int
    BY <2>1
  <2>9. U = x2 * Z + w1 * m
    <3>1. x2 = i5 * m - x1
      BY <1>1, <1>2, <1>5, <2>6
    <3> QED
      BY <1>1, <1>2, <2>1, <2>2, <2>4, <3>1, SMT
  <2>10. V = y2 * Z + w2 * m
    <3>1. y2 = i6 * m + y1
      BY <1>1, <1>2, <1>5, <2>7
    <3> QED
      BY <1>1, <1>2, <2>1, <2>3, <2>5, <3>1, SMT
  <2>11. Same(m, U, x2 * Z) /\ Same(m, V, y2 * Z)
    BY <2>8, <2>9, <2>10 DEF Same
  <2> QED
    BY <2>11 DEF U, V, Z
<1>10. Stands(c, R, T[j])
  BY <1>2, <1>5, <1>7, <1>8, <1>9 DEF Stands, Over, x2, y2
<1>11. Stores(c, T, j, R)
  BY <1>4, <1>10, EdwardsStores
<1> QED
  BY <1>11 DEF j, R

-----------------------------------------------------------------------------
(* Montgomery curves.                                                       *)
OnMontgomery(m, a, x, y) ==
  /\ x \in Int /\ y \in Int /\ a \in Int
  /\ Same(m, y * y, x * (x * (x + a) + 1)) /\ ~Same(m, x, 0) /\ ~Same(m, y, 0)

(* A square root other than 0 of the right-hand side, and the other one.    *)
LEMMA LiftIs ==
  ASSUME NEW c, Prime(c.p), c.p > 2, c.a \in Int, c.type = "montgomery", NEW x \in 0 .. c.p - 1,
         NEW y \in 1 .. c.p - 1, (y * y) % c.p = Rhs(c, x)
  PROVE  /\ OnMontgomery(c.p, c.a, x, y)
         /\ c.p - y \in 1 .. c.p - 1 /\ ((c.p - y) * (c.p - y)) % c.p = Rhs(c, x) /\ c.p - y # y
<1> DEFINE m == c.p
           a == c.a
           f == x * (x * (x + a) + 1)
           g == y * y
           v == m - y
           h == v * v
<1>1. m \in Nat /\ m > 2 /\ m > 0 /\ a \in Int /\ x \in Int /\ y \in Int /\ 0 \in Int
  BY DEF Prime
<1>2. f \in Int /\ g \in Int /\ v \in Int /\ h \in Int
  <2> HIDE DEF m, a
  <2> QED
    BY <1>1
<1>3. Rhs(c, x) = f % m
  BY DEF Rhs
<1> HIDE DEF m, a
<1>4. Same(m, g, f)
  <2>1. g % m = f % m
    BY <1>3 DEF m
  <2> HIDE DEF g, f
  <2> QED
    BY <1>1, <1>2, <2>1, SameMod
<1>5. ~Same(m, y, 0)
  <2>1. y \in 0 .. m - 1 /\ y # 0 /\ 0 \in 0 .. m - 1
    BY <1>1 DEF m
  <2> QED
    BY <1>1, <2>1, SameSmall
<1>6. ~Same(m, x, 0)
  <2>1. SUFFICES ASSUME Same(m, x, 0) PROVE FALSE
    OBVIOUS
  <2>2. x = 0
    <3>1. x \in 0 .. m - 1 /\ 0 \in 0 .. m - 1
      BY <1>1 DEF m
    <3> QED
      BY <1>1, <2>1, <3>1, SameSmall
  <2>3. f = 0
    BY <1>1, <2>2
  <2>4. ~Same(m, g, 0)
    BY <1>1, <1>5, NonZeroProduct DEF m
  <2> QED
    BY <1>4, <2>3, <2>4
<1>7. OnMontgomery(m, a, x, y)
  BY <1>1, <1>4, <1>5, <1>6 DEF OnMontgomery
<1>8. v \in 1 .. m - 1
  BY <1>1 DEF m
<1>9. h % m = f % m
  <2>1. h = g + (m - 2 * y) * m /\ m - 2 * y \in Int
    BY <1>1, SMT
  <2> HIDE DEF h, g
  <2>2. Same(m, h, g)
    BY <2>1 DEF Same
  <2> HIDE DEF f
  <2>3. Same(m, h, f)
    BY <1>1, <1>2, <1>4, <2>2, SameTrans
  <2> QED
    BY <1>1, <1>2, <2>3, SameMod
<1>10. v # y
  <2>1. SUFFICES ASSUME m = 2 * y PROVE FALSE
    BY <1>1
  <2>2. m % 2 # 0 /\ (2 * y) % 2 = 0
    BY <1>1 DEF Prime, m
  <2> QED
    BY <2>1, <2>2
<1> QED
  BY <1>3, <1>7, <1>8, <1>9, <1>10 DEF m, a

IsLift(c, x, y) == y \in 1 .. c.p - 1 /\ (y * y) % c.p = Rhs(c, x)

HasLifts(c, S, U) == U.x = S.x /\ U.y = c.p - S.y

LEMMA MontgomeryPoint ==
  ASSUME NEW c, NEW T, NEW N, IsCurve(c, T, N), c.type = "montgomery", NEW i \in 1 .. N - 1
  PROVE  /\ T[i] = [x |-> T[i].x, y |-> T[i].y] /\ T[i].x \in 0 .. c.p - 1 /\ T[i].y \in 0 .. c.p - 1
         /\ OnMontgomery(c.p, c.a, T[i].x, T[i].y)
         /\ HasLifts(c, T[i], T[N - i])
         /\ IsLift(c, T[i].x, T[i].y)
<1> DEFINE S == T[i]
           U == T[N - i]
           R == Point(S.x, S.y, 1)
           m == c.p
           x == S.x
           Lifts == {y \in 1 .. m - 1 : (y * y) % m = Rhs(c, x)}
<1>1. /\ m \in Nat /\ m > 2 /\ Prime(m) /\ c.a \in Int /\ c.b \in Int /\ IsPointOf(c, T, N, i)
      /\ S # Neutral(c) /\ Neutral(c) = O
  BY CurveFacts DEF Neutral
<1>2. /\ S = [x |-> S.x, y |-> S.y] /\ x \in 0 .. m - 1 /\ S.y \in 0 .. m - 1
      /\ IsOnCurve(c, R) /\ \A y \in Lifts : [x |-> x, y |-> y] \in {S, U} /\ U.x = x
  BY <1>1 DEF IsPointOf
<1>3. ~IsInfinityOn(c, R) /\ AffineOn(c, R) = R
  <2>1. [x |-> S.x, y |-> S.y] # Neutral(c)
    BY <1>1, <1>2
  <2> QED
    BY <1>1, <1>2, <2>1, AffineIs
<1>4. \E y \in 1 .. m - 1 : (y * y) % m = Rhs(c, x)
  <2>1. R.x = x
    BY DEF Point
  <2> HIDE DEF R
  <2>2. \E y \in 1 .. m - 1 : (y * y) % m = Rhs(c, R.x)
    BY <1>2, <1>3 DEF IsOnCurve
  <2> QED
    BY <2>1, <2>2
<1>5. PICK y \in 1 .. m - 1 : (y * y) % m = Rhs(c, x)
  BY <1>4
<1>6. m - y \in 1 .. m - 1 /\ ((m - y) * (m - y)) % m = Rhs(c, x) /\ m - y # y
  BY <1>1, <1>2, <1>5, LiftIs
<1> DEFINE v == m - y
           A == [x |-> x, y |-> y]
           B == [x |-> x, y |-> v]
<1>7. y \in Lifts /\ v \in Lifts
  BY <1>5, <1>6
<1>8. A \in {S, U} /\ B \in {S, U} /\ U.x = x
  <2> HIDE DEF Lifts, v
  <2> QED
    BY <1>2, <1>7
<1>9. A # B
  <2>1. A.y = y /\ B.y = v
    OBVIOUS
  <2> HIDE DEF A, B
  <2> QED
    BY <1>6, <2>1
<1>10. (S = A /\ U = B) \/ (S = B /\ U = A)
  BY <1>8, <1>9
<1>11. S.y \in Lifts /\ U.y = m - S.y
  <2>1. y \in Int /\ m \in Int /\ m - v = y
    BY <1>1
  <2>2. CASE S = A /\ U = B
    BY <1>7, <2>2
  <2>3. CASE S = B /\ U = A
    BY <1>7, <2>1, <2>3
  <2> QED
    BY <1>10, <2>2, <2>3
<1>12. S.y \in 1 .. m - 1 /\ (S.y * S.y) % m = Rhs(c, x)
  BY <1>11
<1>13. OnMontgomery(m, c.a, x, S.y)
  BY <1>1, <1>2, <1>12, LiftIs
<1>14. IsLift(c, x, S.y) /\ HasLifts(c, S, U)
  BY <1>8, <1>11, <1>12 DEF IsLift, HasLifts
<1> QED
  BY <1>2, <1>13, <1>14

(* The tangent at a point.                                                  *)
LEMMA MontgomeryTangent ==
  ASSUME NEW m \in Nat, NEW a, NEW x, NEW y, OnMontgomery(m, a, x, y),
         NEW l \in Int, Same(m, l * (2 * y), 3 * x * x + 2 * a * x + 1), NEW x3 \in Int, Same(m, x3, l * l - a - x - x)
  PROVE  Same(m, x3 * (4 * (x * (x * (x + a) + 1))), (x * x - 1) * (x * x - 1))
<1>1. a \in Int /\ x \in Int /\ y \in Int
  BY DEF OnMontgomery
<1> DEFINE f == x * (x * (x + a) + 1)
           n == 3 * x * x + 2 * a * x + 1
           e == l * (2 * y)
<1>2. PICK k \in Int : y * y = f + k * m
  BY DEF OnMontgomery, Same
<1>3. PICK h \in Int : e = n + h * m
  BY DEF Same
<1>4. PICK g \in Int : x3 = l * l - a - x - x + g * m
  BY DEF Same
<1>5. n * n - 4 * (a + 2 * x) * f = (x * x - 1) * (x * x - 1)
  BY <1>1, SMT
<1>6. f \in Int /\ n \in Int /\ e \in Int
  BY <1>1
<1>7. x3 * (4 * (y * y)) = e * e - 4 * (a + 2 * x) * (y * y) + (g * (4 * (y * y))) * m
  <2>1. e * e = (l * l) * (4 * (y * y))
    BY <1>1, SMT
  <2> DEFINE q == 4 * (y * y)
  <2>2. q \in Int /\ x3 * q = (l * l) * q - (a + 2 * x) * q + (g * q) * m
    <3>1. q \in Int
      BY <1>1
    <3> HIDE DEF q
    <3> QED
      BY <1>1, <1>4, <3>1, SMT
  <2>3. (a + 2 * x) * q = 4 * (a + 2 * x) * (y * y)
    BY <1>1, SMT
  <2> QED
    BY <2>1, <2>2, <2>3
<1> DEFINE w == 2 * n * h + h * h * m - 4 * (a + 2 * x) * k + g * (4 * (f + k * m)) - 4 * k * x3
<1> HIDE DEF f, n, e
<1>8. w \in Int
  BY <1>1, <1>6
<1>9. x3 * (4 * f) = (x * x - 1) * (x * x - 1) + w * m
  <2>1. x3 * (4 * (f + k * m)) = (n + h * m) * (n + h * m) - 4 * (a + 2 * x) * (f + k * m) + (g * (4 * (f + k * m))) * m
    BY <1>2, <1>3, <1>7
  <2>2. x3 * (4 * (f + k * m)) = x3 * (4 * f) + (4 * k * x3) * m
    BY <1>1, <1>6, SMT
  <2>3. (n + h * m) * (n + h * m) = n * n + (2 * n * h + h * h * m) * m
    BY <1>6, SMT
  <2>4. 4 * (a + 2 * x) * (f + k * m) = 4 * (a + 2 * x) * f + (4 * (a + 2 * x) * k) * m
    BY <1>1, <1>6, SMT
  <2> DEFINE A == 4 * (a + 2 * x) * f
             B == n * n
             C == (x * x - 1) * (x * x - 1)
             D == 2 * n * h + h * h * m
             E == 4 * (a + 2 * x) * k
             F == g * (4 * (f + k * m))
             G == 4 * k * x3
             H == x3 * (4 * f)
  <2>5. A \in Int /\ B \in Int /\ C \in Int /\ D \in Int /\ E \in Int /\ F \in Int /\ G \in Int /\ H \in Int
    BY <1>1, <1>6
  <2>6. w = D - E + F - G
    BY <1>1, <1>6, <2>5 DEF w
  <2>12. B - A = C
    BY <1>5
  <2>8. x3 * (4 * (f + k * m)) = H + G * m
    BY <2>2
  <2>9. (n + h * m) * (n + h * m) = B + D * m
    BY <2>3
  <2>10. 4 * (a + 2 * x) * (f + k * m) = A + E * m
    BY <2>4
  <2>11. H + G * m = (B + D * m) - (A + E * m) + F * m
    BY <2>1, <2>8, <2>9, <2>10
  <2> HIDE DEF A, B, C, D, E, F, G, H, w
  <2>7. H = C + w * m
    BY <2>5, <2>6, <2>11, <2>12
  <2> QED
    BY <2>7 DEF H, C
<1> QED
  BY <1>8, <1>9 DEF Same, f

(* The two chords of a pair of points and of one with the opposite of the   *)
(* other.                                                                   *)
LEMMA ChordsIdentity ==
  ASSUME NEW a \in Int, NEW x1 \in Int, NEW x2 \in Int,
         NEW d, d = x2 - x1, NEW f1, f1 = x1 * (x1 * (x1 + a) + 1), NEW f2, f2 = x2 * (x2 * (x2 + a) + 1),
         NEW A, A = f1 + f2 - (a + x1 + x2) * (d * d)
  PROVE  /\ d \in Int /\ f1 \in Int /\ f2 \in Int /\ A \in Int
         /\ A * A - 4 * (f1 * f2) = (d * d) * ((x1 * x2 - 1) * (x1 * x2 - 1))
<1>1. d \in Int /\ f1 \in Int /\ f2 \in Int
  OBVIOUS
<1>2. A \in Int
  BY <1>1
<1>3. A = (x1 * x2) * (x1 + x2 + 2 * a) + x1 + x2
  BY SMT
<1>4. 4 * (f1 * f2) = 4 * (x1 * x2) * ((x1 * (x1 + a) + 1) * (x2 * (x2 + a) + 1))
  BY SMT
<1> QED
  BY <1>1, <1>2, <1>3, <1>4, SMT

(* One chord.                                                               *)
LEMMA ChordSquared ==
  ASSUME NEW m \in Nat, NEW l \in Int, NEW d \in Int, NEW y \in Int, Same(m, l * d, y),
         NEW x3 \in Int, NEW s \in Int, Same(m, x3, l * l - s)
  PROVE  Same(m, x3 * (d * d), y * y - s * (d * d))
<1> DEFINE e == l * d
<1>1. PICK h \in Int : e = y + h * m
  BY DEF Same
<1>2. PICK g \in Int : x3 = l * l - s + g * m
  BY DEF Same
<1> DEFINE w == 2 * y * h + h * h * m + g * (d * d)
<1>3. w \in Int
  OBVIOUS
<1>4. x3 * (d * d) = e * e - s * (d * d) + (g * (d * d)) * m
  BY <1>2, SMT
<1>5. e * e = y * y + (2 * y * h + h * h * m) * m
  <2>1. e * e = (y + h * m) * (y + h * m)
    BY <1>1
  <2> QED
    BY <2>1, SMT
<1>6. x3 * (d * d) = (y * y - s * (d * d)) + w * m
  BY <1>4, <1>5, SMT
<1> QED
  BY <1>3, <1>6 DEF Same

(* x3 is that of a sum and w that of a difference.                          *)
LEMMA MontgomeryChords ==
  ASSUME NEW m, Prime(m), NEW a, NEW x1, NEW y1, NEW x2, NEW y2, OnMontgomery(m, a, x1, y1), OnMontgomery(m, a, x2, y2),
         NEW d, d = x2 - x1, ~Same(m, d, 0), NEW l \in Int, Same(m, l * d, y2 - y1), NEW k \in Int, Same(m, k * d, y2 + y1),
         NEW x3 \in Int, Same(m, x3, l * l - (a + x1 + x2)), NEW w \in Int, Same(m, w, k * k - (a + x1 + x2))
  PROVE  Same(m, (x3 * w) * (d * d), (x1 * x2 - 1) * (x1 * x2 - 1))
<1>1. m \in Nat /\ m > 0 /\ a \in Int /\ x1 \in Int /\ y1 \in Int /\ x2 \in Int /\ y2 \in Int /\ 0 \in Int
  BY DEF OnMontgomery, Prime
<1> DEFINE f1 == x1 * (x1 * (x1 + a) + 1)
           f2 == x2 * (x2 * (x2 + a) + 1)
           D == d * d
           A == f1 + f2 - (a + x1 + x2) * (d * d)
           Q == (x1 * x2 - 1) * (x1 * x2 - 1)
           U == y2 - y1
           V == y2 + y1
           s == a + x1 + x2
<1>2. /\ d \in Int /\ f1 \in Int /\ f2 \in Int /\ A \in Int /\ A * A - 4 * (f1 * f2) = D * Q
  <2>1. f1 = x1 * (x1 * (x1 + a) + 1) /\ f2 = x2 * (x2 * (x2 + a) + 1) /\ A = f1 + f2 - (a + x1 + x2) * (d * d)
    OBVIOUS
  <2>2. d = x2 - x1 /\ a \in Int /\ x1 \in Int /\ x2 \in Int
    BY <1>1
  <2> HIDE DEF f1, f2, A
  <2>3. /\ d \in Int /\ f1 \in Int /\ f2 \in Int /\ A \in Int
        /\ A * A - 4 * (f1 * f2) = (d * d) * ((x1 * x2 - 1) * (x1 * x2 - 1))
    BY ONLY <2>1, <2>2, ChordsIdentity
  <2> QED
    BY <2>3
<1>3. D \in Int /\ Q \in Int /\ U \in Int /\ V \in Int /\ s \in Int /\ A = f1 + f2 - s * D
  BY <1>1, <1>2
<1>4. Same(m, x3 * D, U * U - s * D) /\ Same(m, w * D, V * V - s * D)
  <2> HIDE DEF U, V, s
  <2>1. Same(m, x3 * D, U * U - s * D)
    BY <1>1, <1>2, <1>3, ChordSquared DEF U, s
  <2>2. Same(m, w * D, V * V - s * D)
    BY <1>1, <1>2, <1>3, ChordSquared DEF V, s
  <2> QED
    BY <2>1, <2>2
<1>5. PICK h1 \in Int : x3 * D = U * U - s * D + h1 * m
  BY <1>4 DEF Same
<1>6. PICK h2 \in Int : w * D = V * V - s * D + h2 * m
  BY <1>4 DEF Same
<1>7. PICK k1 \in Int : y1 * y1 = f1 + k1 * m
  BY DEF OnMontgomery, Same
<1>8. PICK k2 \in Int : y2 * y2 = f2 + k2 * m
  BY DEF OnMontgomery, Same
<1> DEFINE B == 2 * y1 * y2
           C == k1 + k2
<1>9. B \in Int /\ C \in Int /\ U * U = (y1 * y1 + y2 * y2) - B /\ V * V = (y1 * y1 + y2 * y2) + B
      /\ B * B = 4 * ((y1 * y1) * (y2 * y2))
  BY <1>1, SMT
<1>10. U * U - s * D = (A + C * m) - B /\ V * V - s * D = (A + C * m) + B
  <2> DEFINE g1 == y1 * y1
             g2 == y2 * y2
             u == U * U
             v == V * V
             e == s * D
  <2>1. e \in Int /\ u = (g1 + g2) - B /\ v = (g1 + g2) + B /\ g1 = f1 + k1 * m /\ g2 = f2 + k2 * m /\ A = f1 + f2 - e
    <3>1. e \in Int
      <4> HIDE DEF s, D
      <4> QED
        BY <1>3
    <3> QED
      BY <1>3, <1>7, <1>8, <1>9, <3>1
  <2> HIDE DEF g1, g2, u, v, e, A, f1, f2, B
  <2>2. u - e = (A + C * m) - B /\ v - e = (A + C * m) + B
    BY <1>1, <1>2, <1>9, <2>1
  <2> QED
    BY <2>2 DEF u, v, e
<1>11. B * B = 4 * (f1 * f2) + (4 * (f1 * k2 + f2 * k1 + k1 * k2 * m)) * m
  <2>1. B * B = 4 * ((f1 + k1 * m) * (f2 + k2 * m))
    BY <1>7, <1>8, <1>9
  <2> HIDE DEF B, f1, f2
  <2> QED
    BY <1>1, <1>2, <2>1, SMT
<1> DEFINE r == x3 * w
           t == r * D - Q
           n == 2 * A * C + C * C * m - 4 * (f1 * k2 + f2 * k1 + k1 * k2 * m)
                + h1 * (A + C * m + B) + h2 * (A + C * m - B) + h1 * h2 * m
<1> HIDE DEF A, B, C, f1, f2, Q, D, U, V, s
<1>12. r \in Int /\ t \in Int /\ n \in Int
  BY <1>1, <1>2, <1>3, <1>9
<1>13. t * D = 0 + n * m
  <2> DEFINE p1 == x3 * D
             p2 == w * D
  <2>1. p1 = (A + C * m) - B + h1 * m /\ p2 = (A + C * m) + B + h2 * m
    BY <1>5, <1>6, <1>10
  <2>2. t * D = p1 * p2 - D * Q
    BY <1>3, SMT
  <2>3. p1 \in Int /\ p2 \in Int
    BY <1>3
  <2> HIDE DEF p1, p2, t
  <2>4. p1 * p2 = ((A + C * m) - B + h1 * m) * ((A + C * m) + B + h2 * m)
    BY <2>1
  <2>5. p1 * p2 = A * A - B * B + (2 * A * C + C * C * m + h1 * (A + C * m + B) + h2 * (A + C * m - B) + h1 * h2 * m) * m
    BY <1>1, <1>2, <1>9, <2>4, SMT
  <2> DEFINE E == 2 * A * C + C * C * m + h1 * (A + C * m + B) + h2 * (A + C * m - B) + h1 * h2 * m
             F == 4 * (f1 * k2 + f2 * k1 + k1 * k2 * m)
             G == A * A
             H == B * B
             I == 4 * (f1 * f2)
             J == D * Q
             K == p1 * p2
  <2>6. E \in Int /\ F \in Int /\ G \in Int /\ H \in Int /\ I \in Int /\ J \in Int /\ K \in Int
    BY <1>1, <1>2, <1>3, <1>9, <2>3
  <2>7. n = E - F
    BY <1>1, <1>2, <1>9, SMT
  <2>8. K = G - H + E * m
    BY <2>5
  <2>9. H = I + F * m
    BY <1>11
  <2>10. G - I = J
    BY <1>2
  <2>11. t * D = K - J
    BY <2>2
  <2> HIDE DEF E, F, G, H, I, J, K, n
  <2> QED
    BY <1>1, <2>6, <2>7, <2>8, <2>9, <2>10, <2>11, SMT
<1> HIDE DEF t, n
<1>14. Same(m, t * D, 0)
  BY <1>12, <1>13 DEF Same
<1>15. ~Same(m, D, 0)
  BY <1>2, NonZeroProduct DEF D
<1>16. Same(m, t, 0)
  BY <1>3, <1>12, <1>14, <1>15, NoZeroDivisor
<1> DEFINE q == r * D
<1>17. q \in Int /\ t = q - Q
  BY <1>3, <1>12 DEF t
<1> HIDE DEF q
<1>18. Same(m, q, Q)
  BY <1>1, <1>3, <1>16, <1>17, SameDifference
<1> QED
  BY <1>18 DEF q, Q, D

(* Multiples with the same x are the same or opposite.                      *)
LEMMA MontgomeryApart ==
  ASSUME NEW c, NEW T, NEW N, IsCurve(c, T, N), c.type = "montgomery",
         NEW i \in 1 .. N - 1, NEW j \in 1 .. N - 1, T[i].x = T[j].x
  PROVE  i = j \/ i + j = N
<1> DEFINE m == c.p
           x == T[i].x
           y == T[j].y
           S == T[i]
           U == T[N - i]
           Lifts == {v \in 1 .. m - 1 : (v * v) % m = Rhs(c, x)}
<1>1. N \in Nat /\ N > 2 /\ IsPointOf(c, T, N, i)
  BY CurveFacts
<1>2. \A v \in Lifts : [x |-> x, y |-> v] \in {S, U}
  BY <1>1 DEF IsPointOf
<1>3. T[j] = [x |-> x, y |-> y] /\ y \in 1 .. m - 1 /\ (y * y) % m = Rhs(c, x)
  <2>1. T[j] = [x |-> x, y |-> y] /\ IsLift(c, x, y)
    BY MontgomeryPoint
  <2> QED
    BY <2>1 DEF IsLift
<1>4. T[j] \in {S, U}
  <2>1. y \in Lifts
    BY <1>3
  <2> HIDE DEF Lifts, y, x
  <2> QED
    BY <1>2, <1>3, <2>1
<1>5. CASE T[j] = S
  <2>1. i \in 1 .. N /\ j \in 1 .. N
    BY <1>1
  <2> QED
    BY <1>5, <2>1, PointsDiffer
<1>6. CASE T[j] = U
  <2> DEFINE h == N - i
  <2>1. h \in 1 .. N /\ j \in 1 .. N /\ T[j] = T[h]
    BY <1>1, <1>6
  <2> HIDE DEF h
  <2>2. j = h
    BY <2>1, PointsDiffer
  <2> QED
    BY <1>1, <2>2 DEF h
<1> QED
  BY <1>4, <1>5, <1>6

(* Where the sum of two multiples is found.                                 *)
LEMMA MontgomerySum ==
  ASSUME NEW c, NEW T, NEW N, IsCurve(c, T, N), c.type = "montgomery",
         NEW i \in 1 .. N - 1, NEW j \in 1 .. N - 1, i + j # N
  PROVE  At(i + j, N) \in 1 .. N - 1 /\ T[At(i + j, N)] = Chord(c, c.a, 1, T[i], T[j])
<1> DEFINE S == T[i]
           U == T[j]
           k == At(i + j, N)
<1>1. /\ N \in Nat /\ N > 2 /\ c.p \in Nat /\ c.p > 2 /\ Sum(c, S, U) = T[k]
      /\ \A h, g \in 1 .. N : Sum(c, T[h], T[g]) = T[At(h + g, N)]
  BY CurveFacts
<1>2. S # O /\ U # O
  <2>1. S # O
    <3>1. T[i].x \in 0 .. c.p - 1
      BY MontgomeryPoint
    <3>2. T[i].x # -1
      BY <1>1, <3>1
    <3> QED
      BY <3>2 DEF O
  <2>2. U # O
    <3>1. T[j].x \in 0 .. c.p - 1
      BY MontgomeryPoint
    <3>2. T[j].x # -1
      BY <1>1, <3>1
    <3> QED
      BY <3>2 DEF O
  <2> QED
    BY <2>1, <2>2
<1>3. k \in 1 .. N - 1
  <2>1. k = (IF i + j <= N THEN i + j ELSE i + j - N)
    BY <1>1, SumPlace
  <2> QED
    BY <1>1, <2>1
<1>4. T[k] = Tangential(c, c.a, 1, S, U)
  BY <1>1 DEF Sum
<1>5. ASSUME S.x = U.x, (S.y + U.y) % c.p = 0 PROVE FALSE
  <2> DEFINE m == c.p
             y == S.y
  <2>1. i = j
    BY <1>5, MontgomeryApart
  <2>2. y \in 1 .. m - 1 /\ m \in Nat /\ m > 2 /\ Prime(m) /\ y + y = 2 * y
    <3>1. y \in 1 .. m - 1
      <4>1. IsLift(c, S.x, y)
        BY MontgomeryPoint
      <4> QED
        BY <4>1 DEF IsLift
    <3>2. Prime(m)
      BY CurveFacts
    <3> HIDE DEF y, m
    <3>3. m \in Nat /\ m > 2
      BY <1>1 DEF m
    <3> QED
      BY <3>1, <3>2, <3>3
  <2>3. (2 * y) % m = 0
    BY <1>5, <2>1, <2>2
  <2> HIDE DEF m, y
  <2> DEFINE e == 2 * y
  <2>4. e \in Int /\ 0 \in Int /\ e - 0 = e /\ m > 0 /\ y \in Int /\ y \in 0 .. m - 1 /\ 2 \in 0 .. m - 1 /\ 0 \in 0 .. m - 1 /\ y # 0
    BY <2>2
  <2>5. Same(m, 2 * y, 0)
    <3>1. (e - 0) % m = 0
      BY <2>3, <2>4
    <3> HIDE DEF e
    <3>2. Same(m, e, 0)
      BY <2>2, <2>4, <3>1, SameZero
    <3> QED
      BY <3>2 DEF e
  <2>6. ~Same(m, 2, 0) /\ ~Same(m, y, 0)
    BY <2>2, <2>4, SameSmall
  <2> QED
    BY <2>2, <2>4, <2>5, <2>6, NonZeroProduct
<1>6. T[k] = Chord(c, c.a, 1, S, U)
  <2> HIDE DEF S, U, k
  <2> QED
    BY <1>2, <1>4, <1>5 DEF Tangential
<1> QED
  BY <1>3, <1>6

LEMMA MontgomeryMeets ==
  ASSUME NEW c, NEW T, NEW N, IsCurve(c, T, N), c.type = "montgomery",
         NEW i \in 1 .. N - 1, NEW j \in 1 .. N - 1, i + j # N, i # j,
         NEW x1, x1 = T[i].x, NEW x2, x2 = T[j].x, NEW x3, x3 = T[At(i + j, N)].x
  PROVE  /\ x1 \in Int /\ x2 \in Int /\ x3 \in Int /\ ~Same(c.p, x2 - x1, 0)
         /\ \E l \in Int : Same(c.p, l * (x2 - x1), T[j].y - T[i].y) /\ Same(c.p, x3, l * l - (c.a + x1 + x2))
<1> DEFINE m == c.p
           a == c.a
           S == T[i]
           U == T[j]
           y1 == S.y
           y2 == U.y
           d == x2 - x1
           n == y2 - y1
           l == n * InverseMod(c, d % m)
<1>1. Prime(m) /\ m \in Nat /\ m > 0 /\ a \in Int /\ 0 \in Int
  <2>1. Prime(m) /\ m \in Nat /\ m > 2 /\ a \in Int
    BY CurveFacts
  <2> QED
    BY <2>1
<1>2. x1 \in 0 .. m - 1 /\ x2 \in 0 .. m - 1 /\ y1 \in 0 .. m - 1 /\ y2 \in 0 .. m - 1
  BY MontgomeryPoint
<1>3. x1 \in Int /\ x2 \in Int /\ d \in Int /\ n \in Int
  BY <1>1, <1>2
<1>4. x1 # x2
  BY MontgomeryApart
<1>5. ~Same(m, d, 0)
  <2>1. ~Same(m, x2, x1)
    BY <1>1, <1>2, <1>4, SameSmall
  <2> QED
    BY <1>1, <1>3, <2>1, SameDifference
<1>6. S # U /\ S.x = x1 /\ U.x = x2
  BY <1>4
<1> DEFINE e == l * l - a - x1 - x2
<1>7. x3 = e % m
  <2>1. T[At(i + j, N)] = Chord(c, a, 1, S, U)
    BY MontgomerySum
  <2> HIDE DEF S, U
  <2> QED
    BY <1>6, <2>1 DEF Chord, y1, y2
<1>8. l \in Int /\ Same(m, l * d, n)
  <2> HIDE DEF d, n
  <2> QED
    BY <1>1, <1>3, <1>5, SlopeIs
<1> HIDE DEF l
<1>9. e \in Int /\ e = l * l - (a + x1 + x2)
  BY <1>1, <1>3, <1>8
<1> HIDE DEF e, m, a
<1>10. x3 \in Int /\ Same(m, x3, e)
  BY <1>1, <1>7, <1>9, SameRemainder
<1> QED
  BY <1>3, <1>5, <1>8, <1>9, <1>10 DEF m, a

LEMMA MontgomeryTwice ==
  ASSUME NEW c, NEW T, NEW N, IsCurve(c, T, N), c.type = "montgomery", NEW i \in 1 .. N - 1,
         NEW x, x = T[i].x, NEW y, y = T[i].y, NEW x3, x3 = T[At(i + i, N)].x
  PROVE  /\ x3 \in Int /\ At(i + i, N) \in 1 .. N - 1
         /\ \E l \in Int : Same(c.p, l * (2 * y), 3 * x * x + 2 * c.a * x + 1) /\ Same(c.p, x3, l * l - c.a - x - x)
<1> DEFINE m == c.p
           a == c.a
           S == T[i]
           n == 3 * x * x + 2 * a * x + 1
           v == 2 * y
           l == n * InverseMod(c, v % m)
<1>1. Prime(m) /\ m \in Nat /\ m > 2 /\ m > 0 /\ a \in Int /\ 0 \in Int /\ i + i # N
  <2>1. Prime(m) /\ m \in Nat /\ m > 2 /\ a \in Int /\ \A h \in 1 .. N - 1 : 2 * h # N
    BY CurveFacts
  <2> QED
    BY <2>1
<1>2. x \in Int /\ y \in Int /\ ~Same(m, y, 0)
  BY MontgomeryPoint DEF OnMontgomery
<1>3. n \in Int /\ v \in Int
  <2> HIDE DEF a, m
  <2> QED
    BY <1>1, <1>2
<1>4. ~Same(m, v, 0)
  <2>1. 2 \in 0 .. m - 1 /\ 0 \in 0 .. m - 1 /\ 2 \in Int
    BY <1>1
  <2>2. ~Same(m, 2, 0)
    BY <1>1, <2>1, SameSmall
  <2> QED
    BY <1>1, <1>2, <2>1, <2>2, NonZeroProduct
<1> DEFINE e == l * l - a - x - x
<1>5. x3 = e % m /\ At(i + i, N) \in 1 .. N - 1
  <2>1. T[At(i + i, N)] = Chord(c, a, 1, S, S) /\ At(i + i, N) \in 1 .. N - 1
    BY <1>1, MontgomerySum
  <2>2. S.x = x /\ S.y = y
    OBVIOUS
  <2> HIDE DEF S
  <2> QED
    BY <2>1, <2>2 DEF Chord
<1>6. l \in Int /\ Same(m, l * v, n)
  <2> HIDE DEF v, n
  <2> QED
    BY <1>1, <1>3, <1>4, SlopeIs
<1> HIDE DEF l, n
<1>7. e \in Int
  BY <1>1, <1>2, <1>6
<1> HIDE DEF e, m, a
<1>8. x3 \in Int /\ Same(m, x3, e)
  BY <1>1, <1>5, <1>7, SameRemainder
<1> QED
  BY <1>5, <1>6, <1>8 DEF m, a, e, n, v

(* X over Z is the fraction Q over K.                                       *)
LEMMA FractionStands ==
  ASSUME NEW m, Prime(m), NEW s \in Int, NEW Q \in Int, NEW K \in Int, NEW u \in Int, NEW X \in Int, NEW Z \in Int,
         Same(m, X, s * Q), Same(m, Z, s * K), Same(m, u * K, Q), ~Same(m, s, 0), ~Same(m, K, 0)
  PROVE  Same(m, X, u * Z) /\ ~Same(m, Z, 0)
<1>1. m \in Nat /\ m > 0 /\ 0 \in Int
  BY DEF Prime
<1>2. PICK h \in Int : X = s * Q + h * m
  BY DEF Same
<1>3. PICK k \in Int : Z = s * K + k * m
  BY DEF Same
<1>4. PICK g \in Int : u * K = Q + g * m
  BY DEF Same
<1>5. h - s * g - u * k \in Int
  OBVIOUS
<1>6. X = u * Z + (h - s * g - u * k) * m
  <2>1. s * (u * K) = s * (Q + g * m)
    BY <1>4
  <2>2. u * Z = s * (u * K) + (u * k) * m
    BY <1>1, <1>3, SMT
  <2> DEFINE e == s * (u * K)
  <2>3. e = s * Q + (s * g) * m /\ u * Z = e + (u * k) * m
    BY <1>1, <2>1, <2>2, SMT
  <2> HIDE DEF e
  <2> QED
    BY <1>1, <1>2, <2>3, SMT
<1>7. ~Same(m, s * K, 0)
  BY NonZeroProduct
<1>8. ASSUME Same(m, Z, 0) PROVE FALSE
  <2> DEFINE e == s * K
  <2>1. e \in Int /\ Same(m, Z, e) /\ ~Same(m, e, 0)
    BY <1>7
  <2> HIDE DEF e
  <2>2. Same(m, e, Z)
    BY <1>1, <2>1, SameBack
  <2> QED
    BY <1>1, <1>8, <2>1, <2>2, SameTrans
<1> QED
  BY <1>5, <1>6, <1>8 DEF Same

(* What the doubling of a Montgomery point computes.                        *)
LEMMA MontgomeryDoubles ==
  ASSUME NEW m \in Nat, NEW a \in Int, NEW k \in Int, a + 2 = 4 * k, NEW x \in Int, NEW X \in Int, NEW Z \in Int,
         Same(m, X, x * Z), NEW s, s = (Z * Z) * (Z * Z),
         NEW A, A = (X + Z) * (X + Z), NEW B, B = (X - Z) * (X - Z), NEW C, C = A - B
  PROVE  /\ Same(m, A * B, s * ((x * x - 1) * (x * x - 1)))
         /\ Same(m, C * (C * k + B), s * (4 * (x * (x * (x + a) + 1))))
<1>1. PICK h \in Int : X = x * Z + h * m
  BY DEF Same
<1> DEFINE g == 2 * x * Z * h + h * h * m
           G == X * X - Z * Z
           e == (Z * Z) * (x * x - 1)
           H == X * X + a * (X * Z) + Z * Z
           n == g + a * h * Z
           f == (Z * Z) * (x * x + a * x + 1)
           J == X * Z
           j == x * (Z * Z)
<1>2. g \in Int /\ G \in Int /\ e \in Int /\ H \in Int /\ n \in Int /\ f \in Int /\ J \in Int /\ j \in Int
  OBVIOUS
<1>3. A * B = G * G /\ C = 4 * J
  BY SMT
<1>4. C * k + B = H
  <2>1. C * k = (a + 2) * J
    <3>1. C * k = J * (4 * k)
      BY <1>3, SMT
    <3> QED
      BY <1>2, <3>1, SMT
  <2>2. B = X * X - 2 * J + Z * Z
    BY SMT
  <2> QED
    BY <2>1, <2>2, SMT
<1>5. G = e + g * m
  BY <1>1, SMT
<1>6. J = j + (h * Z) * m
  BY <1>1, SMT
<1>7. H = f + n * m
  <2>1. H = G + 2 * (Z * Z) + a * J
    BY SMT
  <2>2. f = e + 2 * (Z * Z) + a * j
    BY SMT
  <2>3. a * J = a * j + (a * h * Z) * m
    BY <1>6, SMT
  <2>4. n = g + a * h * Z
    OBVIOUS
  <2> HIDE DEF g, G, e, H, n, f, J, j
  <2> QED
    BY <1>2, <1>5, <2>1, <2>2, <2>3, <2>4, SMT
<1>8. s * ((x * x - 1) * (x * x - 1)) = e * e /\ s * (4 * (x * (x * (x + a) + 1))) = (4 * j) * f
  BY SMT
<1> HIDE DEF g, G, e, H, n, f, J, j
<1>9. Same(m, G * G, e * e)
  <2>1. 2 * e * g + g * g * m \in Int /\ G * G = e * e + (2 * e * g + g * g * m) * m
    BY <1>2, <1>5, SMT
  <2> QED
    BY <2>1 DEF Same
<1>10. Same(m, (4 * J) * H, (4 * j) * f)
  <2> DEFINE i == h * Z
             w == 4 * (j * n + i * f + i * n * m)
  <2>1. i \in Int /\ J = j + i * m
    BY <1>6
  <2> HIDE DEF i
  <2>2. w \in Int
    BY <1>2, <2>1
  <2>3. (4 * J) * H = (4 * j) * f + w * m
    BY <1>2, <1>7, <2>1, SMT
  <2> QED
    BY <2>2, <2>3 DEF Same
<1> QED
  BY <1>3, <1>4, <1>8, <1>9, <1>10

(* What the differential addition computes.                                 *)
LEMMA MontgomeryAdds ==
  ASSUME NEW m \in Nat, NEW x1 \in Int, NEW x2 \in Int, NEW X \in Int, NEW Z \in Int, NEW U \in Int, NEW V \in Int,
         Same(m, X, x1 * Z), Same(m, U, x2 * V), NEW w \in Int,
         NEW E, E = (U + V) * (X - Z), NEW F, F = (U - V) * (X + Z), NEW z, z = Z * V, NEW d, d = x2 - x1
  PROVE  /\ Same(m, 1 * (E + F) * (E + F), (4 * (z * z)) * ((x1 * x2 - 1) * (x1 * x2 - 1)))
         /\ Same(m, w * (E - F) * (E - F), (4 * (z * z)) * (w * (d * d)))
<1>1. PICK h \in Int : X = x1 * Z + h * m
  BY DEF Same
<1>2. PICK k \in Int : U = x2 * V + k * m
  BY DEF Same
<1> DEFINE G == X * U - Z * V
           H == X * V - U * Z
           e == z * (x1 * x2 - 1)
           f == z * (x1 - x2)
           g == x1 * Z * k + h * x2 * V + h * k * m
           n == h * V - k * Z
<1>3. z \in Int /\ G \in Int /\ H \in Int /\ e \in Int /\ f \in Int /\ g \in Int /\ n \in Int
  <2>1. z \in Int
    OBVIOUS
  <2> QED
    BY <2>1
<1>4. E + F = 2 * G /\ E - F = 2 * H
  BY SMT
<1>5. G = e + g * m
  BY <1>1, <1>2, SMT
<1>6. H = f + n * m
  BY <1>1, <1>2, SMT
<1>7. (4 * (z * z)) * ((x1 * x2 - 1) * (x1 * x2 - 1)) = 4 * (e * e) /\ (4 * (z * z)) * (w * (d * d)) = w * (4 * (f * f))
  BY <1>3, SMT
<1> HIDE DEF G, H, e, f, g, n
<1>8. 1 * (E + F) * (E + F) = 4 * (G * G) /\ w * (E - F) * (E - F) = w * (4 * (H * H))
  <2>1. 1 * (E + F) * (E + F) = 1 * (2 * G) * (2 * G) /\ w * (E - F) * (E - F) = w * (2 * H) * (2 * H)
    BY <1>4
  <2> QED
    BY <1>3, <2>1, SMT
<1>9. Same(m, 4 * (G * G), 4 * (e * e))
  <2>1. 4 * (2 * e * g + g * g * m) \in Int /\ 4 * (G * G) = 4 * (e * e) + (4 * (2 * e * g + g * g * m)) * m
    BY <1>3, <1>5, SMT
  <2> QED
    BY <2>1 DEF Same
<1>10. Same(m, w * (4 * (H * H)), w * (4 * (f * f)))
  <2> DEFINE i == 4 * (2 * f * n + n * n * m)
  <2>1. i \in Int /\ 4 * (H * H) = 4 * (f * f) + i * m
    BY <1>3, <1>6, SMT
  <2> HIDE DEF i
  <2>2. w * i \in Int /\ w * (4 * (H * H)) = w * (4 * (f * f)) + (w * i) * m
    <3>1. w * (4 * (H * H)) = w * (4 * (f * f) + i * m)
      BY <2>1
    <3> QED
      BY <1>3, <2>1, <3>1, SMT
  <2> QED
    BY <2>2 DEF Same
<1> QED
  BY <1>7, <1>8, <1>9, <1>10

(* A point of a Montgomery curve is kept by its x.                          *)
StandsInX(c, P, x) == P \in Coordinates(c) /\ Same(c.p, P.x, x * P.z) /\ ~Same(c.p, P.z, 0)

LEMMA MontgomeryStores ==
  ASSUME NEW c, NEW T, NEW N, IsCurve(c, T, N), c.type = "montgomery", NEW i \in 1 .. N, NEW P
  PROVE  /\ i = N => (Stores(c, T, i, P) <=> P \in Coordinates(c) /\ P.z = 0)
         /\ i # N => (Stores(c, T, i, P) <=> StandsInX(c, P, T[i].x))
         /\ Stores(c, T, i, P) => (IsInfinityOn(c, P) <=> i = N)
<1> DEFINE m == c.p
           S == T[i]
           x == S.x
           X == P.x
           Z == P.z
<1>1. m \in Nat /\ m > 0 /\ N \in Nat /\ T[N] = O
  <2>1. m \in Nat /\ m > 2 /\ N \in Nat /\ T[N] = Neutral(c)
    BY CurveFacts
  <2> QED
    BY <2>1 DEF Neutral
<1>2. IsInfinityOn(c, P) <=> Z = 0
  BY DEF IsInfinityOn
<1>3. CASE i = N
  BY <1>1, <1>2, <1>3 DEF Stores, Represents
<1>4. CASE i # N
  <2>1. i \in 1 .. N - 1
    BY <1>1, <1>4
  <2>2. x \in 0 .. m - 1
    BY <2>1, MontgomeryPoint
  <2>3. x \in Int /\ x # -1
    BY <1>1, <2>2
  <2>4. S # O
    <3> HIDE DEF S
    <3> QED
      BY <2>3 DEF O
  <2>5. Represents(c, P, S) <=> Z # 0 /\ (X - x * Z) % m = 0
    <3> HIDE DEF S
    <3> QED
      BY <2>4 DEF Represents
  <2>6. ASSUME P \in Coordinates(c) PROVE Represents(c, P, S) <=> Same(m, X, x * Z) /\ ~Same(m, Z, 0)
    <3>1. X \in Int /\ Z \in Int /\ (Same(m, Z, 0) <=> Z = 0)
      BY <1>1, <2>6, CoordinatesAre
    <3> DEFINE e == x * Z
    <3>2. e \in Int
      BY <2>3, <3>1
    <3> HIDE DEF e, m, X, Z, x
    <3>3. Same(m, X, e) <=> (X - e) % m = 0
      BY <1>1, <3>1, <3>2, SameZero
    <3> QED
      BY <2>5, <3>1, <3>3 DEF e
  <2>7. Stores(c, T, i, P) <=> StandsInX(c, P, x)
    BY <2>6 DEF Stores, StandsInX
  <2>8. Stores(c, T, i, P) => Z # 0
    BY <2>5 DEF Stores
  <2> QED
    BY <1>2, <1>4, <2>7, <2>8
<1> QED
  BY <1>3, <1>4

LEMMA MontgomeryDouble ==
  ASSUME NEW c, NEW T, NEW N, IsCurve(c, T, N), c.type = "montgomery",
         NEW i \in 1 .. N, NEW P, Stores(c, T, i, P)
  PROVE  Stores(c, T, At(i + i, N), DblOn(c, P))
<1>1. N \in Nat /\ N > 2 /\ c.p \in Nat /\ c.p > 0 /\ Prime(c.p) /\ c.a \in Int
  <2>1. N \in Nat /\ N > 2 /\ c.p \in Nat /\ c.p > 2 /\ Prime(c.p) /\ c.a \in Int
    BY CurveFacts
  <2> QED
    BY <2>1
<1>2. CASE i = N
  <2>1. IsInfinityOn(c, P)
    BY <1>2, MontgomeryStores
  <2>2. At(i + i, N) = IF i + i <= N THEN i + i ELSE i + i - N
    BY <1>1, SumPlace
  <2>3. i = N /\ i \in Nat /\ (i + i <= N <=> FALSE) /\ i + i - N = i
    BY <1>1, <1>2
  <2> QED
    BY <2>1, <2>2, <2>3 DEF DblOn
<1>3. CASE i # N
  <2> DEFINE m == c.p
             a == c.a
             k == (a + 2) \div 4
             x == T[i].x
             y == T[i].y
             X == P.x
             Z == P.z
             g == At(i + i, N)
             x3 == T[g].x
             A == (X + Z) * (X + Z)
             B == (X - Z) * (X - Z)
             C == A - B
             s == (Z * Z) * (Z * Z)
             K == 4 * (x * (x * (x + a) + 1))
             Q == (x * x - 1) * (x * x - 1)
             R == DblOn(c, P)
             p1 == A * B
             p2 == P.y
             p3 == C * (C * k + B)
  <2>1. i \in 1 .. N - 1
    BY <1>1, <1>3
  <2>2. P \in Coordinates(c) /\ Same(m, X, x * Z) /\ ~Same(m, Z, 0) /\ ~IsInfinityOn(c, P)
    <3>1. StandsInX(c, P, x) /\ ~IsInfinityOn(c, P)
      BY <1>3, MontgomeryStores
    <3> QED
      BY <3>1 DEF StandsInX
  <2>3. R = Reduced(c, p1, p2, p3)
    BY <2>2 DEF DblOn, DblMontgomery
  <2>4. X \in Int /\ p2 \in Int /\ Z \in Int
    BY <1>1, <2>2, CoordinatesAre
  <2>5. OnMontgomery(m, a, x, y)
    BY <2>1, MontgomeryPoint
  <2>6. x \in Int /\ y \in Int /\ a \in Int /\ Same(m, y * y, x * (x * (x + a) + 1)) /\ ~Same(m, y, 0)
    BY <2>5 DEF OnMontgomery
  <2>7. k \in Int /\ a + 2 = 4 * k
    <3>1. (a + 2) % 4 = 0
      BY DEF IsCurve
    <3> HIDE DEF a
    <3> QED
      BY <2>6, <3>1
  <2>8. x3 \in Int /\ g \in 1 .. N - 1
    BY <2>1, MontgomeryTwice
  <2>9. Same(m, x3 * K, Q)
    <3>1. PICK l \in Int : Same(m, l * (2 * y), 3 * x * x + 2 * a * x + 1) /\ Same(m, x3, l * l - a - x - x)
      BY <2>1, MontgomeryTwice
    <3>2. m \in Nat
      BY <1>1
    <3> HIDE DEF m, a, x, y, x3
    <3> QED
      BY <2>5, <2>8, <3>1, <3>2, MontgomeryTangent
  <2> HIDE DEF R, m, a, k, x, y, x3, X, Z
  <2>10. A \in Int /\ B \in Int /\ C \in Int /\ s \in Int /\ K \in Int /\ Q \in Int
    BY <2>4, <2>6
  <2>11. Same(m, p1, s * Q) /\ Same(m, p3, s * K)
    <3>1. m \in Nat
      BY <1>1 DEF m
    <3>2. /\ A = (X + Z) * (X + Z) /\ B = (X - Z) * (X - Z) /\ C = A - B /\ s = (Z * Z) * (Z * Z)
      OBVIOUS
    <3> HIDE DEF A, B, C, s
    <3>3. /\ Same(m, A * B, s * ((x * x - 1) * (x * x - 1)))
          /\ Same(m, C * (C * k + B), s * (4 * (x * (x * (x + a) + 1))))
      BY ONLY <2>2, <2>4, <2>6, <2>7, <3>1, <3>2, MontgomeryDoubles
    <3> QED
      BY <3>3
  <2> HIDE DEF A, B, C
  <2>12. p1 \in Int /\ p3 \in Int
    BY <2>7, <2>10
  <2>13. ~Same(m, s, 0) /\ ~Same(m, K, 0)
    <3>1. Prime(m) /\ m \in Nat /\ m > 2 /\ 0 \in Int
      BY <1>1, CurveFacts DEF m
    <3> DEFINE e == Z * Z
    <3>2. e \in Int /\ ~Same(m, e, 0)
      BY <2>2, <2>4, <3>1, NonZeroProduct
    <3>3. s = e * e
      OBVIOUS
    <3> HIDE DEF e
    <3>4. ~Same(m, e * e, 0)
      BY <3>1, <3>2, NonZeroProduct
    <3> DEFINE f == x * (x * (x + a) + 1)
               h == y * y
    <3>5. f \in Int /\ h \in Int /\ Same(m, h, f) /\ K = 4 * f
      BY <2>6
    <3>6. ~Same(m, h, 0)
      BY <2>6, <3>1, NonZeroProduct
    <3> HIDE DEF f, h
    <3>7. ~Same(m, f, 0)
      BY <3>1, <3>5, <3>6, SameTrans
    <3>8. ~Same(m, 2, 0)
      <4>1. 2 \in 0 .. m - 1 /\ 0 \in 0 .. m - 1
        BY <3>1
      <4> QED
        BY <3>1, <4>1, SameSmall
    <3>9. ~Same(m, 2 * 2, 0)
      BY <3>1, <3>8, NonZeroProduct
    <3>10. ~Same(m, 4, 0)
      <4>1. 2 * 2 = 4
        OBVIOUS
      <4> QED
        BY <3>9, <4>1
    <3>11. ~Same(m, 4 * f, 0)
      BY <3>1, <3>5, <3>7, <3>10, NonZeroProduct
    <3> QED
      BY <3>3, <3>4, <3>5, <3>11
  <2> HIDE DEF p1, p2, p3
  <2>14. /\ R \in Coordinates(c) /\ R.x \in Int /\ R.z \in Int /\ Same(m, R.x, p1) /\ Same(m, R.z, p3)
    BY <1>1, <2>3, <2>4, <2>12, ReducedIs DEF m
  <2>15. Same(m, R.x, s * Q) /\ Same(m, R.z, s * K)
    <3> DEFINE q1 == s * Q
               q2 == s * K
    <3>1. q1 \in Int /\ q2 \in Int /\ Same(m, p1, q1) /\ Same(m, p3, q2) /\ m \in Nat
      <4> HIDE DEF s, Q, K
      <4> QED
        BY <1>1, <2>10, <2>11 DEF m
    <3> HIDE DEF q1, q2
    <3>2. Same(m, R.x, q1) /\ Same(m, R.z, q2)
      BY <2>12, <2>14, <3>1, SameTrans
    <3> QED
      BY <3>2 DEF q1, q2
  <2> DEFINE U == R.x
             V == R.z
  <2>16. Same(m, U, x3 * V) /\ ~Same(m, V, 0)
    <3>1. /\ Prime(m) /\ s \in Int /\ Q \in Int /\ K \in Int /\ x3 \in Int /\ U \in Int /\ V \in Int
          /\ Same(m, U, s * Q) /\ Same(m, V, s * K) /\ Same(m, x3 * K, Q) /\ ~Same(m, s, 0) /\ ~Same(m, K, 0)
      BY <1>1, <2>8, <2>9, <2>10, <2>13, <2>14, <2>15 DEF m
    <3> HIDE DEF s, Q, K, U, V
    <3> QED
      BY ONLY <3>1, FractionStands
  <2>17. StandsInX(c, R, x3)
    BY <2>14, <2>16 DEF StandsInX, m
  <2>18. g \in 1 .. N /\ g # N
    BY <1>1, <2>8
  <2> HIDE DEF g
  <2>19. Stores(c, T, g, R)
    BY <2>17, <2>18, MontgomeryStores DEF x3
  <2> QED
    BY <2>19 DEF g, R
<1> QED
  BY <1>2, <1>3

LEMMA MontgomeryOnCurve ==
  ASSUME NEW c, NEW T, NEW N, IsCurve(c, T, N), c.type = "montgomery",
         NEW i \in 1 .. N, NEW P, Stores(c, T, i, P)
  PROVE  IsOnCurve(c, P)
<1>1. CASE i = N
  BY <1>1, MontgomeryStores DEF IsOnCurve
<1>2. CASE i # N
  <2> DEFINE x == T[i].x
             y == T[i].y
             A == AffineOn(c, P)
             w == InverseMod(c, P.z)
  <2>1. i \in 1 .. N - 1 /\ c.p \in Nat /\ c.p > 0 /\ Prime(c.p)
    <3>1. N \in Nat /\ c.p \in Nat /\ c.p > 2 /\ Prime(c.p)
      BY CurveFacts
    <3> QED
      BY <1>2, <3>1
  <2>2. StandsInX(c, P, x) /\ ~IsInfinityOn(c, P)
    BY <1>2, MontgomeryStores
  <2>3. /\ P.z \in 0 .. c.p - 1 /\ P.z # 0 /\ P.x \in Int /\ Same(c.p, P.x, x * P.z)
    BY <2>1, <2>2, CoordinatesAre DEF StandsInX
  <2>4. x \in 0 .. c.p - 1 /\ y \in 1 .. c.p - 1 /\ (y * y) % c.p = Rhs(c, x)
    <3>1. x \in 0 .. c.p - 1
      BY <2>1, MontgomeryPoint
    <3>2. IsLift(c, x, y)
      BY <2>1, MontgomeryPoint
    <3> QED
      BY <3>1, <3>2 DEF IsLift
  <2>5. (P.x * w) % c.p = x
    BY <2>1, <2>3, <2>4, AffineCoordinate
  <2>6. A.x = x
    BY <2>2, <2>5 DEF AffineOn, Reduced, Point
  <2> HIDE DEF A, x, y
  <2>7. \E v \in 1 .. c.p - 1 : (v * v) % c.p = Rhs(c, A.x)
    BY <2>4, <2>6
  <2> QED
    BY <2>2, <2>7 DEF IsOnCurve, A
<1> QED
  BY <1>1, <1>2

(* The x of the sum of two points, by that of their difference.             *)
LEMMA MontgomeryChord ==
  ASSUME NEW c, NEW T, NEW N, IsCurve(c, T, N), c.type = "montgomery",
         NEW i \in 1 .. N - 1, NEW j \in 1 .. N - 1, NEW n \in 1 .. N - 1,
         j = (IF i + n <= N THEN i + n ELSE i + n - N), i + j # N,
         NEW x1, x1 = T[i].x, NEW x2, x2 = T[j].x, NEW x3, x3 = T[At(i + j, N)].x, NEW w, w = T[n].x, NEW d, d = x2 - x1
  PROVE  /\ x1 \in Int /\ x2 \in Int /\ x3 \in Int /\ w \in Int /\ d \in Int /\ ~Same(c.p, d, 0)
         /\ Same(c.p, (x3 * w) * (d * d), (x1 * x2 - 1) * (x1 * x2 - 1))
<1> DEFINE m == c.p
           a == c.a
           h == N - i
           y1 == T[i].y
           y2 == T[j].y
           v == T[h].y
<1>1. Prime(m) /\ m \in Nat /\ m > 0 /\ N \in Nat /\ N > 2 /\ a \in Int
  <2>1. Prime(m) /\ m \in Nat /\ m > 2 /\ N \in Nat /\ N > 2 /\ a \in Int
    BY CurveFacts
  <2> QED
    BY <2>1
<1>2. h \in 1 .. N - 1 /\ h + j # N /\ h # j /\ i # j
  BY <1>1
<1>3. At(h + j, N) = n
  <2> HIDE DEF h
  <2>1. /\ h \in 1 .. N /\ j \in 1 .. N /\ N \in Nat /\ n \in 1 .. N - 1
        /\ h + j = IF i + n <= N THEN n + N ELSE n
    BY <1>1, <1>2 DEF h
  <2>2. At(h + j, N) = IF h + j <= N THEN h + j ELSE h + j - N
    BY ONLY <2>1, SumPlace
  <2>3. (IF h + j <= N THEN h + j ELSE h + j - N) = n
    BY ONLY <2>1
  <2> QED
    BY ONLY <2>2, <2>3
<1>4. T[h].x = x1 /\ v = m - y1
  <2>1. HasLifts(c, T[i], T[h])
    BY MontgomeryPoint
  <2> QED
    BY <2>1 DEF HasLifts
<1>5. OnMontgomery(m, a, x1, y1)
  BY MontgomeryPoint
<1>6. OnMontgomery(m, a, x2, y2)
  BY MontgomeryPoint
<1>7. y1 \in Int /\ y2 \in Int
  BY <1>5, <1>6 DEF OnMontgomery
<1>8. /\ x1 \in Int /\ x2 \in Int /\ x3 \in Int /\ ~Same(m, x2 - x1, 0)
      /\ \E l \in Int : Same(m, l * (x2 - x1), y2 - y1) /\ Same(m, x3, l * l - (a + x1 + x2))
  <2> HIDE DEF h, m, a, y1, y2
  <2>1. IsCurve(c, T, N) /\ c.type = "montgomery" /\ i \in 1 .. N - 1 /\ j \in 1 .. N - 1 /\ i + j # N /\ i # j
    BY <1>2
  <2>2. /\ T[i].x \in Int /\ T[j].x \in Int /\ T[At(i + j, N)].x \in Int /\ ~Same(c.p, T[j].x - T[i].x, 0)
        /\ \E l \in Int : Same(c.p, l * (T[j].x - T[i].x), T[j].y - T[i].y)
                          /\ Same(c.p, T[At(i + j, N)].x, l * l - (c.a + T[i].x + T[j].x))
    BY ONLY <2>1, MontgomeryMeets
  <2> QED
    BY <2>2 DEF y1, y2, m, a
<1>9. /\ w \in Int /\ \E k \in Int : Same(m, k * (x2 - x1), y2 - v) /\ Same(m, w, k * k - (a + x1 + x2))
  <2> HIDE DEF h, m, a, y2
  <2>1. T[At(h + j, N)].x = w /\ T[h].x = x1
    BY <1>3, <1>4
  <2>2. /\ T[At(h + j, N)].x \in Int
        /\ \E k \in Int : Same(m, k * (x2 - T[h].x), y2 - T[h].y)
                          /\ Same(m, T[At(h + j, N)].x, k * k - (a + T[h].x + x2))
    BY <1>2, MontgomeryMeets DEF m, a, y2
  <2> QED
    BY <2>1, <2>2
<1> HIDE DEF m, a, h, y1, y2, v
<1>10. PICK l \in Int : Same(m, l * d, y2 - y1) /\ Same(m, x3, l * l - (a + x1 + x2))
  BY <1>8
<1>11. PICK k \in Int : Same(m, k * d, y2 - v) /\ Same(m, w, k * k - (a + x1 + x2))
  BY <1>9
<1>12. Same(m, k * d, y2 + y1)
  <2> DEFINE e == k * d
  <2>1. PICK g \in Int : e = (y2 - v) + g * m
    BY <1>11 DEF Same
  <2>2. e = (y2 + y1) + (g - 1) * m /\ g - 1 \in Int
    <3>1. e = (y2 - (m - y1)) + g * m
      BY <1>4, <2>1
    <3> HIDE DEF e
    <3> QED
      BY <1>1, <1>7, <3>1, SMT
  <2> QED
    BY <2>2 DEF Same
<1>13. d \in Int /\ ~Same(m, d, 0)
  BY <1>8
<1>14. Same(m, (x3 * w) * (d * d), (x1 * x2 - 1) * (x1 * x2 - 1))
  <2>1. d = x2 - x1
    OBVIOUS
  <2> QED
    BY ONLY <1>1, <1>5, <1>6, <1>8, <1>9, <1>10, <1>11, <1>12, <1>13, <2>1, l \in Int, k \in Int, MontgomeryChords
<1> QED
  BY <1>8, <1>9, <1>13, <1>14 DEF m

(* The differential addition of two points that differ by W.                *)
LEMMA MontgomeryAdd ==
  ASSUME NEW c, NEW T, NEW N, IsCurve(c, T, N), c.type = "montgomery",
         NEW i \in 1 .. N, NEW j \in 1 .. N, NEW n \in 1 .. N - 1, j = (IF i + n <= N THEN i + n ELSE i + n - N),
         NEW P, NEW Q, NEW W, Stores(c, T, i, P), Stores(c, T, j, Q), Stores(c, T, n, W)
  PROVE  Stores(c, T, At(i + j, N), DAddOn(c, Q, P, W))
<1> DEFINE g == At(i + j, N)
           R == DAddOn(c, Q, P, W)
<1>1. N \in Nat /\ N > 2 /\ c.p \in Nat /\ c.p > 0 /\ Prime(c.p)
  <2>1. N \in Nat /\ N > 2 /\ c.p \in Nat /\ c.p > 2 /\ Prime(c.p)
    BY CurveFacts
  <2> QED
    BY <2>1
<1>2. g = IF i + j <= N THEN i + j ELSE i + j - N
  BY <1>1, SumPlace
<1>3. CASE i = N
  <2>1. ~IsInfinityOn(c, Q) /\ IsInfinityOn(c, P)
    <3>1. j # N
      BY <1>1, <1>3
    <3> QED
      BY <1>3, <3>1, MontgomeryStores
  <2>2. R = Q
    BY <2>1 DEF DAddOn
  <2>3. g = j
    <3>1. i = N /\ j = n /\ (i + j <= N <=> FALSE) /\ i + j - N = j
      BY <1>1, <1>3
    <3> QED
      BY <1>2, <3>1
  <2> QED
    BY <2>2, <2>3
<1>4. CASE j = N
  <2>1. IsInfinityOn(c, Q)
    BY <1>4, MontgomeryStores
  <2>2. R = P
    BY <2>1 DEF DAddOn
  <2>3. g = i
    <3>1. j = N /\ i \in Nat /\ i > 0 /\ (i + j <= N <=> FALSE) /\ i + j - N = i
      BY <1>1, <1>4
    <3> QED
      BY <1>2, <3>1
  <2> QED
    BY <2>2, <2>3
<1>5. CASE i # N /\ j # N
  <2> DEFINE m == c.p
             x1 == T[i].x
             x2 == T[j].x
             x3 == T[g].x
             w == T[n].x
             W1 == W.x
             W2 == W.z
             X == P.x
             Z == P.z
             U == Q.x
             V == Q.z
             E == (U + V) * (X - Z)
             F == (U - V) * (X + Z)
             z == Z * V
             t == 4 * (z * z)
             s == W2 * t
             D == x2 - x1
             K == w * (D * D)
             O1 == (x1 * x2 - 1) * (x1 * x2 - 1)
             p1 == W2 * (E + F) * (E + F)
             p2 == Q.y
             p3 == W1 * (E - F) * (E - F)
  <2>1. i \in 1 .. N - 1 /\ j \in 1 .. N - 1 /\ n \in 1 .. N - 1 /\ n # N
    BY <1>1, <1>5
  <2>2. /\ P \in Coordinates(c) /\ Same(m, X, x1 * Z) /\ ~Same(m, Z, 0) /\ ~IsInfinityOn(c, P)
        /\ Q \in Coordinates(c) /\ Same(m, U, x2 * V) /\ ~Same(m, V, 0) /\ ~IsInfinityOn(c, Q)
        /\ W \in Coordinates(c) /\ Same(m, W1, w * W2) /\ ~Same(m, W2, 0)
    <3>1. StandsInX(c, P, x1) /\ ~IsInfinityOn(c, P)
      BY <1>5, MontgomeryStores
    <3>2. StandsInX(c, Q, x2) /\ ~IsInfinityOn(c, Q)
      BY <1>5, MontgomeryStores
    <3>3. StandsInX(c, W, w)
      <4>1. n \in 1 .. N /\ n # N
        BY <1>1, <2>1
      <4> QED
        BY <4>1, MontgomeryStores
    <3> QED
      BY <3>1, <3>2, <3>3 DEF StandsInX
  <2>3. R = Reduced(c, p1, p2, p3)
    BY <2>2 DEF DAddOn
  <2>4. X \in Int /\ Z \in Int /\ U \in Int /\ V \in Int /\ p2 \in Int /\ W1 \in Int /\ W2 \in Int
    BY <1>1, <2>2, CoordinatesAre
  <2>5. x1 \in Int /\ x2 \in Int /\ w \in Int /\ ~Same(m, w, 0)
    <3>1. x1 \in Int
      <4>1. OnMontgomery(m, c.a, x1, T[i].y)
        BY <2>1, MontgomeryPoint
      <4> QED
        BY <4>1 DEF OnMontgomery
    <3>2. x2 \in Int
      <4>1. OnMontgomery(m, c.a, x2, T[j].y)
        BY <2>1, MontgomeryPoint
      <4> QED
        BY <4>1 DEF OnMontgomery
    <3>3. w \in Int /\ ~Same(m, w, 0)
      <4>1. OnMontgomery(m, c.a, w, T[n].y)
        BY <2>1, MontgomeryPoint
      <4> QED
        BY <4>1 DEF OnMontgomery
    <3> QED
      BY <3>1, <3>2, <3>3
  <2>6. m \in Nat /\ m > 2 /\ m > 0 /\ Prime(m) /\ 0 \in Int
    BY <1>1, CurveFacts
  <2>7. T[n].x = w /\ x1 = T[i].x /\ x2 = T[j].x
    OBVIOUS
  <2> HIDE DEF R, m, x1, x2, x3, w, X, Z, U, V, W1, W2
  <2>8. z \in Int /\ t \in Int /\ s \in Int /\ D \in Int /\ E \in Int /\ F \in Int /\ O1 \in Int
    BY <2>4, <2>5
  <2>9. Same(m, p1, s * O1) /\ Same(m, p3, s * K)
    <3>1. E = (U + V) * (X - Z) /\ F = (U - V) * (X + Z) /\ z = Z * V /\ D = x2 - x1
      OBVIOUS
    <3> HIDE DEF E, F, z, D
    <3>2. /\ Same(m, 1 * (E + F) * (E + F), (4 * (z * z)) * ((x1 * x2 - 1) * (x1 * x2 - 1)))
          /\ Same(m, W1 * (E - F) * (E - F), (4 * (z * z)) * (W1 * (D * D)))
      BY ONLY <2>2, <2>4, <2>5, <2>6, <3>1, MontgomeryAdds
    <3> HIDE DEF t, O1
    <3>3. PICK g1 \in Int : 1 * (E + F) * (E + F) = t * O1 + g1 * m
      BY <3>2 DEF Same, t, O1
    <3>4. PICK g2 \in Int : W1 * (E - F) * (E - F) = t * (W1 * (D * D)) + g2 * m
      BY <3>2 DEF Same, t
    <3>5. PICK g3 \in Int : W1 = w * W2 + g3 * m
      BY <2>2 DEF Same
    <3>6. Same(m, p1, s * O1)
      <4> DEFINE f == W2 * g1
      <4>1. p1 = s * O1 + f * m /\ f \in Int
        <5>1. (E + F) * (E + F) = t * O1 + g1 * m
          BY <2>8, <3>3
        <5> QED
          BY <2>4, <2>6, <2>8, <5>1, SMT
      <4> QED
        BY <4>1 DEF Same
    <3>7. Same(m, p3, s * K)
      <4> DEFINE f == t * g3 * (D * D) + g2
      <4>1. p3 = s * K + f * m /\ f \in Int
        <5>1. p3 = t * (W1 * (D * D)) + g2 * m
          BY <3>4
        <5> HIDE DEF p3
        <5> QED
          BY <2>4, <2>5, <2>6, <2>8, <3>5, <5>1, SMT
      <4> QED
        BY <4>1 DEF Same
    <3> QED
      BY <3>6, <3>7
  <2> HIDE DEF E, F, z, D, O1, t
  <2>10. K \in Int /\ p1 \in Int /\ p3 \in Int
    <3>1. K \in Int
      BY <2>5, <2>8
    <3>2. p1 \in Int
      BY <2>4, <2>8
    <3>3. p3 \in Int
      BY <2>4, <2>8
    <3> QED
      BY <3>1, <3>2, <3>3
  <2> HIDE DEF p1, p2, p3
  <2>11. /\ R \in Coordinates(c) /\ R.x \in Int /\ R.z \in Int /\ Same(m, R.x, p1) /\ Same(m, R.z, p3)
    BY <2>3, <2>4, <2>6, <2>10, ReducedIs DEF m
  <2> DEFINE G == R.x
             H == R.z
             q1 == s * O1
             q2 == s * K
  <2>12. q1 \in Int /\ q2 \in Int
    <3> HIDE DEF s, K
    <3> QED
      BY <2>8, <2>10
  <2>13. G \in Int /\ H \in Int /\ Same(m, G, q1) /\ Same(m, H, q2)
    <3>1. Same(m, p1, q1) /\ Same(m, p3, q2)
      BY <2>9
    <3> HIDE DEF q1, q2
    <3> QED
      BY <2>6, <2>10, <2>11, <2>12, <3>1, SameTrans
  <2>14. CASE i + j = N
    <3>1. x2 = x1
      <4> DEFINE h == N - i
      <4>1. j = h
        BY <1>1, <2>1, <2>14
      <4>2. T[h].x = T[i].x
        <5>1. HasLifts(c, T[i], T[h])
          BY <2>1, MontgomeryPoint
        <5> QED
          BY <5>1 DEF HasLifts
      <4> QED
        BY <2>7, <4>1, <4>2
    <3>2. D = 0
      BY <2>5, <3>1 DEF D
    <3>3. K = 0
      BY <2>5, <3>2
    <3>4. q2 = 0
      BY <2>8, <3>3
    <3>5. H = 0
      <4>1. Same(m, R.z, 0)
        BY <2>13, <3>4
      <4> QED
        BY <2>6, <2>11, <4>1, CoordinatesAre DEF m
    <3>6. g = N
      BY <1>1, <1>2, <2>14
    <3>7. N \in 1 .. N
      BY <1>1
    <3>8. Stores(c, T, N, R)
      BY <2>11, <3>5, <3>7, MontgomeryStores
    <3> QED
      BY <3>6, <3>8 DEF R
  <2>15. CASE i + j # N
    <3>1. /\ x3 \in Int /\ D \in Int /\ ~Same(m, D, 0)
          /\ Same(m, (x3 * w) * (D * D), O1)
      <4>1. D = x2 - x1
        BY DEF D
      <4> QED
        BY <2>1, <2>7, <2>15, <4>1, MontgomeryChord DEF x3, m, O1, w
    <3>2. Same(m, x3 * K, O1)
      <4>1. x3 * K = (x3 * w) * (D * D)
        BY <2>5, <3>1, SMT
      <4> QED
        BY <3>1, <4>1
    <3>3. ~Same(m, K, 0)
      <4> DEFINE e == D * D
      <4>1. e \in Int /\ ~Same(m, e, 0)
        BY <2>6, <3>1, NonZeroProduct
      <4> HIDE DEF e
      <4>2. ~Same(m, w * e, 0)
        BY <2>5, <2>6, <4>1, NonZeroProduct
      <4> QED
        BY <4>2 DEF e
    <3>4. ~Same(m, s, 0)
      <4>1. ~Same(m, z, 0)
        BY <2>2, <2>4, <2>6, NonZeroProduct DEF z
      <4> DEFINE e == z * z
      <4>2. e \in Int /\ ~Same(m, e, 0)
        BY <2>6, <2>8, <4>1, NonZeroProduct
      <4>3. ~Same(m, 2, 0)
        <5>1. 2 \in 0 .. m - 1 /\ 0 \in 0 .. m - 1
          BY <2>6
        <5> QED
          BY <2>6, <5>1, SameSmall
      <4>4. ~Same(m, 2 * 2, 0)
        BY <2>6, <4>3, NonZeroProduct
      <4>5. ~Same(m, 4, 0)
        <5>1. 2 * 2 = 4
          OBVIOUS
        <5> QED
          BY <4>4, <5>1
      <4> HIDE DEF e
      <4>6. ~Same(m, 4 * e, 0)
        BY <2>6, <4>2, <4>5, NonZeroProduct
      <4>7. ~Same(m, t, 0)
        BY <4>6 DEF e, t
      <4> HIDE DEF t
      <4> QED
        BY <2>2, <2>4, <2>6, <2>8, <4>7, NonZeroProduct
    <3>5. Same(m, G, x3 * H) /\ ~Same(m, H, 0)
      <4>1. /\ Prime(m) /\ s \in Int /\ O1 \in Int /\ K \in Int /\ x3 \in Int /\ G \in Int /\ H \in Int
            /\ Same(m, G, s * O1) /\ Same(m, H, s * K) /\ Same(m, x3 * K, O1) /\ ~Same(m, s, 0) /\ ~Same(m, K, 0)
        BY <2>6, <2>8, <2>10, <2>13, <3>1, <3>2, <3>3, <3>4
      <4> HIDE DEF s, K, G, H
      <4> QED
        BY ONLY <4>1, FractionStands
    <3>6. StandsInX(c, R, x3)
      BY <2>11, <3>5 DEF StandsInX, m
    <3>7. g \in 1 .. N /\ g # N
      BY <1>1, <1>2, <2>1, <2>15
    <3> HIDE DEF g
    <3>8. Stores(c, T, g, R)
      BY <3>6, <3>7, MontgomeryStores DEF x3
    <3> QED
      BY <3>8 DEF g, R
  <2> QED
    BY <2>14, <2>15
<1> QED
  BY <1>3, <1>4, <1>5

-----------------------------------------------------------------------------
(* Every kind of curve.                                                     *)
LEMMA KindsAre ==
  ASSUME NEW c, NEW T, NEW N, IsCurve(c, T, N)
  PROVE  c.type \in {"weierstrass", "montgomery", "edwards"}
  BY DEF IsCurve

LEMMA Added ==
  ASSUME NEW c, NEW T, NEW N, IsCurve(c, T, N), c.type # "montgomery",
         NEW i \in 1 .. N, NEW j \in 1 .. N, NEW P, NEW Q, Stores(c, T, i, P), Stores(c, T, j, Q)
  PROVE  Stores(c, T, At(i + j, N), AddOn(c, P, Q)) /\ (EqualsOn(c, P, Q) <=> i = j)
<1>1. CASE c.type = "weierstrass"
  BY <1>1, WeierstrassAdd, WeierstrassEquals
<1>2. CASE c.type = "edwards"
  BY <1>2, EdwardsAdd, EdwardsEquals
<1> QED
  BY <1>1, <1>2, KindsAre

LEMMA Doubled ==
  ASSUME NEW c, NEW T, NEW N, IsCurve(c, T, N), NEW i \in 1 .. N, NEW P, Stores(c, T, i, P)
  PROVE  Stores(c, T, At(i + i, N), DblOn(c, P)) /\ IsOnCurve(c, P)
<1>1. CASE c.type = "weierstrass"
  BY <1>1, WeierstrassDouble, WeierstrassOnCurve
<1>2. CASE c.type = "edwards"
  BY <1>2, EdwardsDouble, EdwardsOnCurve
<1>3. CASE c.type = "montgomery"
  BY <1>3, MontgomeryDouble, MontgomeryOnCurve
<1> QED
  BY <1>1, <1>2, <1>3, KindsAre

LEMMA Negated ==
  ASSUME NEW c, NEW T, NEW N, IsCurve(c, T, N), c.type # "montgomery", NEW i \in 1 .. N, NEW P, Stores(c, T, i, P)
  PROVE  Stores(c, T, IF i = N THEN N ELSE N - i, NegOn(c, P))
<1>1. CASE c.type = "weierstrass"
  BY <1>1, WeierstrassNegate
<1>2. CASE c.type = "edwards"
  BY <1>2, EdwardsNegate
<1> QED
  BY <1>1, <1>2, KindsAre

LEMMA Started ==
  ASSUME NEW c, NEW T, NEW N, IsCurve(c, T, N)
  PROVE  /\ Stores(c, T, 1, Point(T[1].x, T[1].y, 1))
         /\ c.type # "montgomery" => Stores(c, T, N, InfinityOf(c))
<1> DEFINE m == c.p
           S == T[1]
           G == Point(S.x, S.y, 1)
           I == InfinityOf(c)
<1>1. m \in Nat /\ m > 2 /\ N \in Nat /\ N > 2 /\ T[N] = Neutral(c) /\ IsPointOf(c, T, N, 1)
  <2>1. m \in Nat /\ m > 2 /\ N \in Nat /\ N > 2 /\ T[N] = Neutral(c) /\ \A i \in 1 .. N - 1 : IsPointOf(c, T, N, i)
    BY CurveFacts
  <2>2. 1 \in 1 .. N - 1
    BY <2>1
  <2> QED
    BY <2>1, <2>2
<1>2. S.x \in 0 .. m - 1 /\ S.y \in 0 .. m - 1
  BY <1>1 DEF IsPointOf
<1>3. 0 % m = 0 /\ 1 \in 0 .. m - 1 /\ 0 \in 0 .. m - 1
  BY <1>1
<1>4. Stores(c, T, 1, G)
  <2>1. S # O
    <3>1. S.x # -1
      BY <1>1, <1>2
    <3> HIDE DEF S
    <3> QED
      BY <3>1 DEF O
  <2>2. G \in Coordinates(c) /\ G.x = S.x /\ G.y = S.y /\ G.z = 1
    BY <1>2, <1>3 DEF Coordinates, Point
  <2>3. S.x - S.x * 1 = 0 /\ S.y - S.y * 1 = 0
    BY <1>1, <1>2
  <2> HIDE DEF G, S
  <2>4. Represents(c, G, S)
    BY <1>3, <2>1, <2>2, <2>3 DEF Represents
  <2> QED
    BY <2>2, <2>4 DEF Stores, S
<1>5. CASE c.type = "weierstrass"
  <2>1. I \in Coordinates(c) /\ I.x = 0 /\ I.y = 1 /\ I.z = 0
    BY <1>3, <1>5 DEF Coordinates, InfinityOf, Point
  <2>2. T[N] = O
    BY <1>1, <1>5 DEF Neutral
  <2> HIDE DEF I
  <2> QED
    BY <1>4, <2>1, <2>2 DEF Stores, Represents, I
<1>6. CASE c.type = "edwards"
  <2>1. I \in Coordinates(c) /\ I.x = 0 /\ I.y = 1 /\ I.z = 1
    BY <1>3, <1>6 DEF Coordinates, InfinityOf, Point
  <2>2. T[N].x = 0 /\ T[N].y = 1 /\ T[N] # O
    <3>1. T[N] = [x |-> 0, y |-> 1]
      BY <1>1, <1>6 DEF Neutral
    <3> QED
      BY <3>1 DEF O
  <2>3. I.x - T[N].x * I.z = 0 /\ I.y - T[N].y * I.z = 0 /\ I.z # 0
    BY <2>1, <2>2
  <2> HIDE DEF I
  <2>4. Represents(c, I, T[N])
    BY <1>3, <2>2, <2>3 DEF Represents
  <2> QED
    BY <1>4, <2>1, <2>4 DEF Stores, I
<1>7. CASE c.type = "montgomery"
  BY <1>4, <1>7
<1> QED
  BY <1>5, <1>6, <1>7, KindsAre

(* Numbers of times below twice the order.                                  *)
LEMMA Wrapped ==
  ASSUME NEW N \in Nat, N > 0, NEW a \in Nat, a < 2 * N
  PROVE  a % N = IF a < N THEN a ELSE a - N
<1>1. CASE a < N
  BY <1>1, SmallRemainder
<1>2. CASE ~(a < N)
  <2> DEFINE e == a - N
  <2>1. e \in Int /\ e \in 0 .. N - 1 /\ a = e + 1 * N
    BY <1>2
  <2> HIDE DEF e
  <2>2. a % N = e % N
    BY <2>1, IntRemainder
  <2>3. e % N = e
    BY <2>1, SmallRemainder
  <2> QED
    BY <1>2, <2>2, <2>3 DEF e
<1> QED
  BY <1>1, <1>2

LEMMA NegativeWrapped ==
  ASSUME NEW N \in Nat, N > 0, NEW a \in 0 .. N - 1
  PROVE  (-a) % N = IF a = 0 THEN 0 ELSE N - a
<1>1. CASE a = 0
  BY <1>1
<1>2. CASE a # 0
  <2> DEFINE e == N - a
             g == -a
  <2>1. e \in Int /\ g \in Int /\ e \in 0 .. N - 1 /\ g = e + (-1) * N
    BY <1>2
  <2> HIDE DEF e, g
  <2>2. g % N = e % N
    BY <2>1, IntRemainder
  <2>3. e % N = e
    BY <2>1, SmallRemainder
  <2> QED
    BY <1>2, <2>2, <2>3 DEF e, g
<1> QED
  BY <1>1, <1>2

LEMMA PlaceIs ==
  ASSUME NEW N \in Nat, N > 0, NEW a \in 0 .. N - 1
  PROVE  Place(a, N) \in 1 .. N /\ At(a, N) = Place(a, N)
<1>1. CASE a = 0
  <2> DEFINE e == N - 1
             g == 0 - 1
  <2>1. e \in Int /\ g \in Int /\ e \in 0 .. N - 1 /\ g = e + (-1) * N
    OBVIOUS
  <2> HIDE DEF e, g
  <2>2. g % N = e % N
    BY <2>1, IntRemainder
  <2>3. e % N = e
    BY <2>1, SmallRemainder
  <2>4. At(0, N) = (g % N) + 1
    BY DEF At, g
  <2> QED
    BY <1>1, <2>1, <2>2, <2>3, <2>4 DEF Place, e
<1>2. CASE a # 0
  BY <1>2, AtSmall DEF Place
<1> QED
  BY <1>1, <1>2

LEMMA PlaceSum ==
  ASSUME NEW N \in Nat, N > 0, NEW a \in 0 .. N - 1, NEW b \in 0 .. N - 1
  PROVE  At(Place(a, N) + Place(b, N), N) = Place((a + b) % N, N)
<1> DEFINE i == Place(a, N)
           j == Place(b, N)
           r == (a + b) % N
<1>1. i \in 1 .. N /\ j \in 1 .. N
  BY PlaceIs
<1>2. At(i + j, N) = IF i + j <= N THEN i + j ELSE i + j - N
  BY <1>1, SumPlace
<1>3. r = IF a + b < N THEN a + b ELSE a + b - N
  <2> DEFINE e == a + b
  <2>1. e \in Nat /\ e < 2 * N
    OBVIOUS
  <2> HIDE DEF e
  <2>2. e % N = IF e < N THEN e ELSE e - N
    BY <2>1, Wrapped
  <2> QED
    BY <2>2 DEF e
<1>4. i = (IF a = 0 THEN N ELSE a) /\ j = (IF b = 0 THEN N ELSE b) /\ Place(r, N) = (IF r = 0 THEN N ELSE r)
  BY DEF Place
<1> HIDE DEF i, j, r
<1>5. At(i + j, N) = Place(r, N)
  BY <1>1, <1>2, <1>3, <1>4
<1> QED
  BY <1>5 DEF i, j, r

(* A ladder keeps two neighbours.                                           *)
LEMMA NextPlace ==
  ASSUME NEW N \in Nat, N > 2, NEW a \in 0 .. N - 1, NEW b, b = (a + 1) % N
  PROVE  /\ b \in 0 .. N - 1 /\ Place(b, N) = (IF Place(a, N) = N THEN 1 ELSE Place(a, N) + 1)
         /\ (a + b) % N = (2 * a + 1) % N
         /\ (((2 * a) % N) + 1) % N = (a + b) % N
         /\ (((2 * a + 1) % N) + 1) % N = (b + b) % N
<1> DEFINE Rest(h) == IF h < N THEN h ELSE h - N
<1>1. \A h \in Nat : h < 2 * N => h % N = Rest(h)
  BY Wrapped
<1>2. b = Rest(a + 1) /\ b \in 0 .. N - 1
  <2>1. a + 1 \in Nat /\ a + 1 < 2 * N
    OBVIOUS
  <2>2. b = Rest(a + 1)
    BY <1>1, <2>1
  <2> QED
    BY <2>2
<1>3. (a + b) % N = Rest(a + b) /\ (b + b) % N = Rest(b + b)
  <2>1. a + b \in Nat /\ a + b < 2 * N /\ b + b \in Nat /\ b + b < 2 * N
    BY <1>2
  <2> QED
    BY <1>1, <2>1
<1>4. (2 * a + 1) % N = Rest(2 * a + 1) /\ (2 * a) % N = Rest(2 * a)
  <2>1. 2 * a + 1 \in Nat /\ 2 * a + 1 < 2 * N /\ 2 * a \in Nat /\ 2 * a < 2 * N
    OBVIOUS
  <2> QED
    BY <1>1, <2>1
<1>5. (Rest(2 * a) + 1) % N = Rest(Rest(2 * a) + 1) /\ (Rest(2 * a + 1) + 1) % N = Rest(Rest(2 * a + 1) + 1)
  <2>1. Rest(2 * a) + 1 \in Nat /\ Rest(2 * a) + 1 < 2 * N
    OBVIOUS
  <2>2. Rest(2 * a + 1) + 1 \in Nat /\ Rest(2 * a + 1) + 1 < 2 * N
    OBVIOUS
  <2> QED
    BY <1>1, <2>1, <2>2
<1>6. Place(b, N) = (IF Place(a, N) = N THEN 1 ELSE Place(a, N) + 1)
  BY <1>2 DEF Place
<1>7. (a + b) % N = (2 * a + 1) % N
  BY <1>2, <1>3, <1>4
<1>8. (((2 * a) % N) + 1) % N = (a + b) % N
  BY <1>2, <1>3, <1>4, <1>5
<1>9. (((2 * a + 1) % N) + 1) % N = (b + b) % N
  BY <1>2, <1>3, <1>4, <1>5
<1> QED
  BY <1>2, <1>6, <1>7, <1>8, <1>9

-----------------------------------------------------------------------------
(* What mul needs of the formulas.                                          *)
LEMMA InfiniteIs ==
  ASSUME NEW c, NEW T, NEW N, IsCurve(c, T, N), NEW i \in 1 .. N, NEW P, Stores(c, T, i, P)
  PROVE  IsInfinityOn(c, P) <=> i = N
<1>1. CASE c.type = "weierstrass"
  BY <1>1, WeierstrassStores
<1>2. CASE c.type = "edwards"
  BY <1>2, EdwardsStores
<1>3. CASE c.type = "montgomery"
  BY <1>3, MontgomeryStores
<1> QED
  BY <1>1, <1>2, <1>3, KindsAre

LEMMA InfinityStored ==
  ASSUME NEW c, NEW T, NEW N, IsCurve(c, T, N) PROVE Stores(c, T, N, InfinityOf(c))
<1>1. CASE c.type # "montgomery"
  BY <1>1, Started
<1>2. CASE c.type = "montgomery"
  <2> DEFINE I == InfinityOf(c)
  <2>1. c.p \in Nat /\ c.p > 2 /\ N \in Nat /\ N > 2
    BY CurveFacts
  <2>2. 0 \in 0 .. c.p - 1 /\ N \in 1 .. N
    BY <2>1
  <2>3. I \in Coordinates(c) /\ I.z = 0
    BY <1>2, <2>2 DEF Coordinates, InfinityOf, Point
  <2> HIDE DEF I
  <2>4. Stores(c, T, N, I)
    BY <1>2, <2>2, <2>3, MontgomeryStores
  <2> QED
    BY <2>4 DEF I
<1> QED
  BY <1>1, <1>2

(* to_affine keeps the point.                                               *)
LEMMA AffineStored ==
  ASSUME NEW c, NEW T, NEW N, IsCurve(c, T, N), NEW i \in 1 .. N - 1, NEW P, Stores(c, T, i, P)
  PROVE  Stores(c, T, i, AffineOn(c, P))
<1> DEFINE m == c.p
           S == T[i]
           w == InverseMod(c, P.z)
           A == AffineOn(c, P)
<1>1. Prime(m) /\ m \in Nat /\ m > 2 /\ m > 0 /\ N \in Nat /\ N > 2
  <2>1. Prime(m) /\ m \in Nat /\ m > 2 /\ N \in Nat /\ N > 2
    BY CurveFacts
  <2> QED
    BY <2>1
<1>2. IsPointOf(c, T, N, i) /\ i \in 1 .. N /\ i # N
  BY <1>1, CurveFacts
<1>3. S.x \in 0 .. m - 1 /\ S.y \in 0 .. m - 1
  BY <1>2 DEF IsPointOf
<1>4. ~IsInfinityOn(c, P)
  BY <1>2, InfiniteIs
<1>5. 1 % m = 1 /\ 0 % m = 0 /\ 1 \in 0 .. m - 1 /\ 0 \in 0 .. m - 1
  BY <1>1
<1>6. A = Reduced(c, P.x * w, P.y * w, 1)
  BY <1>4 DEF AffineOn
<1>7. P \in Coordinates(c) /\ P.x \in Int /\ P.y \in Int /\ P.z \in 0 .. m - 1
  <2>1. P \in Coordinates(c)
    BY DEF Stores
  <2> QED
    BY <1>1, <2>1, CoordinatesAre
<1>8. CASE c.type # "montgomery"
  <2>1. Stands(c, P, S)
    <3>1. CASE c.type = "weierstrass"
      BY <1>2, <3>1, WeierstrassStores
    <3>2. CASE c.type = "edwards"
      BY <1>2, <3>2, EdwardsStores
    <3> QED
      BY <1>8, <3>1, <3>2, KindsAre
  <2>2. P.z # 0 /\ Same(m, P.x, S.x * P.z) /\ Same(m, P.y, S.y * P.z)
    <3>1. P.z # 0
      BY <1>1, <2>1, CoordinatesAre DEF Stands
    <3> QED
      BY <2>1, <3>1 DEF Stands, Over
  <2>3. (P.x * w) % m = S.x /\ (P.y * w) % m = S.y
    BY <1>1, <1>3, <1>7, <2>2, AffineCoordinate
  <2>4. A.x = S.x /\ A.y = S.y /\ A.z = 1 /\ A \in Coordinates(c)
    BY <1>3, <1>5, <1>6, <2>3 DEF Reduced, Point, Coordinates
  <2>5. S # O
    <3>1. S.x # -1
      BY <1>1, <1>3
    <3> HIDE DEF S
    <3> QED
      BY <3>1 DEF O
  <2>6. S.x - S.x * 1 = 0 /\ S.y - S.y * 1 = 0
    BY <1>1, <1>3
  <2> HIDE DEF A, S, w
  <2>7. Represents(c, A, S)
    BY <1>5, <2>4, <2>5, <2>6 DEF Represents
  <2> QED
    BY <2>4, <2>7 DEF Stores, A, S
<1>9. CASE c.type = "montgomery"
  <2>1. StandsInX(c, P, S.x)
    BY <1>2, <1>9, MontgomeryStores
  <2>2. P.z # 0 /\ Same(m, P.x, S.x * P.z)
    BY <1>1, <2>1, CoordinatesAre DEF StandsInX
  <2>3. (P.x * w) % m = S.x
    BY <1>1, <1>3, <1>7, <2>2, AffineCoordinate
  <2>4. w \in Int
    <3>1. P.z % m = P.z /\ P.z \in Int
      BY <1>1, <1>7
    <3>2. ~Same(m, P.z, 0)
      BY <1>1, <1>5, <1>7, <2>2, SameSmall
    <3>3. InverseMod(c, P.z % m) \in 1 .. m - 1
      BY <1>1, <3>1, <3>2, InverseIs
    <3>4. w \in 1 .. m - 1
      BY <3>1, <3>3
    <3> HIDE DEF w
    <3> QED
      BY <1>1, <3>4
  <2>5. (P.y * w) % m \in 0 .. m - 1
    <3> DEFINE v == P.y * w
    <3>1. v \in Int
      BY <1>7, <2>4
    <3> HIDE DEF v
    <3>2. v % m \in 0 .. m - 1
      BY <1>1, <3>1
    <3> QED
      BY <3>2 DEF v
  <2>6. A.x = S.x /\ A.z = 1 /\ A \in Coordinates(c)
    BY <1>3, <1>5, <1>6, <2>3, <2>5 DEF Reduced, Point, Coordinates
  <2>7. Same(m, S.x, S.x * 1) /\ ~Same(m, 1, 0)
    <3>1. S.x = S.x * 1 + 0 * m
      BY <1>1, <1>3
    <3>2. ~Same(m, 1, 0)
      BY <1>1, <1>5, SameSmall
    <3> QED
      BY <3>1, <3>2 DEF Same
  <2> HIDE DEF A
  <2>8. StandsInX(c, A, S.x)
    BY <2>6, <2>7 DEF StandsInX
  <2>9. Stores(c, T, i, A)
    BY <1>2, <1>9, <2>8, MontgomeryStores
  <2> QED
    BY <2>9 DEF A
<1> QED
  BY <1>8, <1>9

(* Places of numbers of any size.                                           *)
LEMMA AtRest ==
  ASSUME NEW N \in Nat, N > 0, NEW a \in Int
  PROVE  At(a, N) \in 1 .. N /\ \E u \in Int : a = At(a, N) + u * N
<1> DEFINE b == a - 1
           r == b % N
           u == b \div N
<1>1. r \in 0 .. N - 1 /\ u \in Int /\ b = u * N + r
  OBVIOUS
<1>2. At(a, N) = r + 1
  BY DEF At
<1> HIDE DEF r, u
<1>3. a = (r + 1) + u * N
  BY <1>1
<1> QED
  BY <1>1, <1>2, <1>3

LEMMA AtTurns ==
  ASSUME NEW N \in Nat, N > 0, NEW a \in Int, NEW b \in Int, NEW u \in Int, a = b + u * N
  PROVE  At(a, N) = At(b, N)
<1> DEFINE e == a - 1
           f == b - 1
<1>1. e \in Int /\ f \in Int /\ e = f + u * N
  OBVIOUS
<1> HIDE DEF e, f
<1>2. e % N = f % N
  BY <1>1, IntRemainder
<1> QED
  BY <1>2 DEF At, e, f

LEMMA AtAdds ==
  ASSUME NEW N \in Nat, N > 0, NEW a \in Int, NEW b \in Int
  PROVE  At(At(a, N) + At(b, N), N) = At(a + b, N)
<1>1. PICK u \in Int : a = At(a, N) + u * N
  BY AtRest
<1>2. PICK v \in Int : b = At(b, N) + v * N
  BY AtRest
<1> DEFINE e == At(a, N) + At(b, N)
           f == a + b
           w == u + v
<1>3. At(a, N) \in Int /\ At(b, N) \in Int
  <2>1. At(a, N) \in 1 .. N /\ At(b, N) \in 1 .. N
    BY AtRest
  <2> QED
    BY <2>1
<1>4. e \in Int /\ f \in Int /\ w \in Int /\ f = e + w * N
  BY <1>1, <1>2, <1>3
<1> HIDE DEF e, f, w
<1>5. At(f, N) = At(e, N)
  BY <1>4, AtTurns
<1> QED
  BY <1>5 DEF e, f

-----------------------------------------------------------------------------
(* Where n times the multiple i is in the table, and the ways to store it.  *)
TurnsTo(n, i, N) == At(n * i, N)
StoredTimes(c, T, N, n, i) == {s \in Coordinates(c) : Represents(c, s, T[TurnsTo(n, i, N)])}

LEMMA TimesStored ==
  ASSUME NEW c, NEW T, NEW N, NEW n, NEW i, NEW s
  PROVE  s \in StoredTimes(c, T, N, n, i) <=> Stores(c, T, TurnsTo(n, i, N), s)
BY DEF StoredTimes, Stores

LEMMA TimesAdd ==
  ASSUME NEW N \in Nat, N > 0, NEW i \in Int, NEW n \in Nat, NEW h \in Nat
  PROVE  /\ TurnsTo(n, i, N) \in 1 .. N
         /\ At(TurnsTo(n, i, N) + TurnsTo(h, i, N), N) = TurnsTo(n + h, i, N)
<1> DEFINE a == n * i
           b == h * i
<1>1. a \in Int /\ b \in Int /\ (n + h) * i = a + b
  OBVIOUS
<1> HIDE DEF a, b
<1>2. At(a, N) \in 1 .. N
  BY <1>1, AtRest
<1>3. At(At(a, N) + At(b, N), N) = At(a + b, N)
  BY <1>1, AtAdds
<1>4. TurnsTo(n, i, N) = At(a, N) /\ TurnsTo(h, i, N) = At(b, N) /\ TurnsTo(n + h, i, N) = At(a + b, N)
  <2>1. TurnsTo(n + h, i, N) = At((n + h) * i, N)
    BY DEF TurnsTo
  <2> QED
    BY <1>1, <2>1 DEF TurnsTo, a, b
<1> QED
  BY <1>2, <1>3, <1>4

(* One step of the base in the table.                                       *)
LEMMA AtNext ==
  ASSUME NEW N \in Nat, N > 0, NEW e \in 1 .. N, NEW g \in 1 .. N
  PROVE  At(e + g, N) = IF e + g <= N THEN e + g ELSE e + g - N
<1>1. CASE e + g <= N
  <2>1. e + g - 1 \in 0 .. N - 1
    BY <1>1
  <2>2. (e + g - 1) % N = e + g - 1
    BY <2>1
  <2> QED
    BY <1>1, <2>2 DEF At
<1>2. CASE e + g > N
  <2>1. At(e + g, N) = At(e + g - N, N)
    <3>1. e + g \in Int /\ e + g - N \in Int /\ 1 \in Int /\ e + g = (e + g - N) + 1 * N
      OBVIOUS
    <3> QED
      BY <3>1, AtTurns
  <2>2. e + g - N - 1 \in 0 .. N - 1
    BY <1>2
  <2>3. (e + g - N - 1) % N = e + g - N - 1
    BY <2>2
  <2> QED
    BY <1>2, <2>1, <2>3 DEF At
<1> QED
  BY <1>1, <1>2

-----------------------------------------------------------------------------
(* Fermat's theorem: multiplying by a rearranges the numbers below a prime, *)
(* so that their product stays the same.  P collects the product of the     *)
(* numbers up to n that are in S.                                           *)
Multiplies(P, S, n) ==
  /\ P[0] = 1 /\ \A i \in 0 .. n : P[i] \in Nat
  /\ \A i \in 1 .. n : P[i] = IF i \in S THEN i * P[i - 1] ELSE P[i - 1]

LEMMA HasProduct ==
  ASSUME NEW n \in Nat, NEW S PROVE \E P : Multiplies(P, S, n)
<1> DEFINE G == [u \in (1 .. n) \X Nat |-> IF u[1] \in S THEN u[1] * u[2] ELSE u[2]]
<1>1. ASSUME NEW i \in 1 .. n, NEW x \in Nat
      PROVE  G[<<i, x>>] = (IF i \in S THEN i * x ELSE x) /\ G[<<i, x>>] \in Nat
  <2>1. i * x \in Nat
    OBVIOUS
  <2>2. G[<<i, x>>] = (IF i \in S THEN i * x ELSE x)
    OBVIOUS
  <2> HIDE DEF G
  <2> QED
    BY <2>1, <2>2
<1>2. Steps(G, n, Nat)
  <2> HIDE DEF G
  <2> QED
    BY <1>1 DEF Steps
<1> HIDE DEF G
<1>3. PICK P : P \in [0 .. n -> Nat] /\ P[0] = 1 /\ \A i \in 1 .. n : P[i] = G[<<i, P[i - 1]>>]
  <2> DEFINE one == 1
             M == Nat
  <2>1. one \in M /\ n \in Nat /\ Steps(G, n, M)
    BY <1>2
  <2> HIDE DEF one, M
  <2>2. \E P : P \in [0 .. n -> M] /\ P[0] = one /\ \A i \in 1 .. n : P[i] = G[<<i, P[i - 1]>>]
    BY ONLY <2>1, StepRecursion
  <2> QED
    BY <2>2 DEF one, M
<1>4. ASSUME NEW i \in 1 .. n PROVE P[i] = IF i \in S THEN i * P[i - 1] ELSE P[i - 1]
  <2>1. i - 1 \in 0 .. n
    OBVIOUS
  <2>2. P[i - 1] \in Nat
    BY <1>3, <2>1
  <2> QED
    BY <1>1, <1>3, <2>2
<1> QED
  BY <1>3, <1>4 DEF Multiplies

LEMMA OneProduct ==
  ASSUME NEW n \in Nat, NEW S, NEW P, NEW Q, Multiplies(P, S, n), Multiplies(Q, S, n)
  PROVE  P[n] = Q[n]
<1> DEFINE T == {i \in 0 .. n : P[i] = Q[i]}
<1>1. 0 \in T
  BY DEF Multiplies
<1>2. ASSUME NEW i \in 1 .. n, i - 1 \in T PROVE i \in T
  BY <1>2 DEF Multiplies
<1> HIDE DEF T
<1>3. \A i \in 0 .. n : i \in T
  BY <1>1, <1>2, StepInduction
<1> QED
  BY <1>3 DEF T

(* One more factor. *)
LEMMA MoreProduct ==
  ASSUME NEW n \in Nat, NEW S, NEW x \in 1 .. n, x \notin S, NEW P, NEW Q,
         Multiplies(P, S, n), Multiplies(Q, S \cup {x}, n)
  PROVE  Q[n] = x * P[n]
<1> DEFINE T == {i \in 0 .. n : Q[i] = IF i < x THEN P[i] ELSE x * P[i]}
<1>1. 0 \in T
  BY DEF Multiplies
<1>2. ASSUME NEW i \in 1 .. n, i - 1 \in T PROVE i \in T
  <2> DEFINE e == P[i - 1]
             f == Q[i - 1]
  <2>1. i - 1 \in 0 .. n /\ i \in 0 .. n
    OBVIOUS
  <2>2. e \in Nat /\ f \in Nat /\ P[i] \in Nat
    BY <2>1 DEF Multiplies
  <2>3. P[i] = (IF i \in S THEN i * e ELSE e) /\ Q[i] = (IF i \in S \cup {x} THEN i * f ELSE f)
    BY DEF Multiplies
  <2>4. f = IF i - 1 < x THEN e ELSE x * e
    BY <1>2
  <2> HIDE DEF e, f
  <2>5. CASE i < x
    BY <2>2, <2>3, <2>4, <2>5
  <2>6. CASE i = x
    BY <2>2, <2>3, <2>4, <2>6
  <2>7. CASE i > x
    <3>1. f = x * e
      BY <2>4, <2>7
    <3>2. i * (x * e) = x * (i * e)
      BY <2>2
    <3>3. Q[i] = x * P[i]
      BY <2>3, <2>7, <3>1, <3>2
    <3> QED
      BY <2>7, <3>3
  <2> QED
    BY <2>5, <2>6, <2>7
<1> HIDE DEF T
<1>3. \A i \in 0 .. n : i \in T
  BY <1>1, <1>2, StepInduction
<1>4. n \in T
  BY <1>3
<1> QED
  BY <1>4 DEF T

(* No prime divides a product of smaller numbers. *)
LEMMA ProductRemains ==
  ASSUME NEW m, Prime(m), NEW S, NEW P, Multiplies(P, S, m - 1)
  PROVE  ~Same(m, P[m - 1], 0)
<1>1. m \in Nat /\ m > 1 /\ m > 0 /\ m - 1 \in Nat
  BY DEF Prime
<1> DEFINE n == m - 1
           T == {i \in 0 .. n : ~Same(m, P[i], 0)}
<1>2. 0 \in T
  <2>1. 1 \in 0 .. m - 1 /\ 0 \in 0 .. m - 1 /\ 1 # 0
    BY <1>1
  <2>2. ~Same(m, 1, 0)
    BY <1>1, <2>1, SameSmall
  <2> QED
    BY <1>1, <2>2 DEF Multiplies
<1>3. ASSUME NEW i \in 1 .. n, i - 1 \in T PROVE i \in T
  <2> DEFINE e == P[i - 1]
  <2>1. i - 1 \in 0 .. n /\ i \in 0 .. n /\ i \in 0 .. m - 1 /\ 0 \in 0 .. m - 1 /\ i \in Int /\ i # 0
    BY <1>1
  <2>2. e \in Int /\ ~Same(m, e, 0)
    BY <1>3, <2>1 DEF Multiplies
  <2>3. P[i] = (IF i \in S THEN i * e ELSE e)
    BY DEF Multiplies
  <2>4. ~Same(m, i, 0)
    BY <1>1, <2>1, SameSmall
  <2> HIDE DEF e
  <2>5. ~Same(m, i * e, 0)
    BY <2>1, <2>2, <2>4, NoZeroDivisor
  <2> QED
    BY <2>1, <2>2, <2>3, <2>5
<1> HIDE DEF T
<1>4. \A i \in 0 .. n : i \in T
  BY <1>1, <1>2, <1>3, StepInduction
<1>5. n \in T
  BY <1>1, <1>4
<1> QED
  BY <1>5 DEF T

Image(a, k, m) == {(a * i) % m : i \in 1 .. k}

LEMMA ImageIs ==
  ASSUME NEW m, Prime(m), NEW a \in 1 .. m - 1, NEW i \in 1 .. m - 1
  PROVE  /\ (a * i) % m \in 1 .. m - 1
         /\ \A h \in 1 .. m - 1 : (a * i) % m = (a * h) % m => i = h
<1>1. m \in Nat /\ m > 1 /\ m > 0 /\ 0 \in Int /\ a \in Int /\ i \in Int
  BY DEF Prime
<1>2. ~Same(m, a, 0) /\ ~Same(m, i, 0)
  <2>1. 0 \in 0 .. m - 1 /\ a \in 0 .. m - 1 /\ i \in 0 .. m - 1 /\ a # 0 /\ i # 0
    BY <1>1
  <2> QED
    BY <1>1, <2>1, SameSmall
<1>3. (a * i) % m \in 1 .. m - 1
  <2> DEFINE x == a * i
  <2>1. x \in Int /\ ~Same(m, x, 0)
    BY <1>1, <1>2, NoZeroDivisor
  <2> HIDE DEF x
  <2>2. x % m \in 0 .. m - 1 /\ Same(m, x, x % m)
    <3>1. x % m \in Int /\ x % m \in 0 .. m - 1 /\ Same(m, x % m, x)
      BY <1>1, <2>1, SameRemainder
    <3> QED
      BY <1>1, <2>1, <3>1, SameBack
  <2>3. x % m # 0
    BY <2>1, <2>2
  <2> QED
    BY <1>1, <2>2, <2>3 DEF x
<1>4. ASSUME NEW h \in 1 .. m - 1, (a * i) % m = (a * h) % m PROVE i = h
  <2> DEFINE x == a * i
             y == a * h
             d == i - h
  <2>1. x \in Int /\ y \in Int /\ d \in Int /\ x - y = d * a /\ h \in Int
    BY <1>1
  <2>2. x % m = y % m
    BY <1>4
  <2> HIDE DEF x, y
  <2>3. Same(m, x, y)
    BY <1>1, <2>1, <2>2, SameMod
  <2>4. Same(m, d * a, 0)
    BY <1>1, <2>1, <2>3, SameDifference
  <2> HIDE DEF d
  <2>5. Same(m, d, 0)
    BY <1>1, <1>2, <2>1, <2>4, NoZeroDivisor
  <2>6. Same(m, i, h)
    BY <1>1, <2>1, <2>5, SameDifference DEF d
  <2>7. i \in 0 .. m - 1 /\ h \in 0 .. m - 1
    BY <1>1
  <2> QED
    BY <1>1, <2>6, <2>7, SameSmall
<1> QED
  BY <1>3, <1>4

LEMMA WholeImage ==
  ASSUME NEW m, Prime(m), NEW a \in 1 .. m - 1 PROVE Image(a, m - 1, m) = 1 .. m - 1
<1>1. m \in Nat /\ m > 1 /\ m > 0 /\ a \in Int
  BY DEF Prime
<1>2. Image(a, m - 1, m) \subseteq 1 .. m - 1
  BY ImageIs DEF Image
<1>3. ASSUME NEW y \in 1 .. m - 1 PROVE y \in Image(a, m - 1, m)
  <2>1. PICK w \in 1 .. m - 1 : (a * w) % m = 1
    BY HasInverse
  <2> DEFINE i == (w * y) % m
             x == w * y
             e == a * i
             f == a * x
             g == a * w
  <2>2. i \in 1 .. m - 1
    BY ImageIs
  <2>3. x \in Int /\ e \in Int /\ f \in Int /\ g \in Int /\ f = g * y /\ y \in Int /\ 1 \in Int /\ 1 * y = y
    BY <1>1, <2>2
  <2>4. Same(m, i, x)
    <3> HIDE DEF x
    <3> QED
      BY <1>1, <2>3, SameRemainder
  <2>5. Same(m, e, f)
    <3>1. Same(m, a, a) /\ i \in Int
      BY <1>1, <2>2, SameSelf
    <3> HIDE DEF i, x
    <3> QED
      BY <1>1, <2>3, <2>4, <3>1, SameProduct
  <2>6. Same(m, f, y)
    <3>1. 1 % m = 1
      BY <1>1
    <3>2. Same(m, g, 1) /\ Same(m, y, y)
      <4>1. g % m = 1
        BY <2>1
      <4> HIDE DEF g
      <4> QED
        BY <1>1, <2>3, <3>1, <4>1, SameMod, SameSelf
    <3> HIDE DEF g, f
    <3>3. Same(m, g * y, 1 * y)
      BY <1>1, <2>3, <3>2, SameProduct
    <3> QED
      BY <2>3, <3>3
  <2>7. e % m = y % m
    <3> HIDE DEF e, f
    <3>1. Same(m, e, y)
      BY <1>1, <2>3, <2>5, <2>6, SameTrans
    <3> QED
      BY <1>1, <2>3, <3>1, SameMod
  <2>8. y % m = y
    BY <1>1
  <2> HIDE DEF i
  <2> QED
    BY <2>2, <2>7, <2>8 DEF Image
<1> QED
  BY <1>2, <1>3

(* As far as the first k numbers are concerned. *)
Rearranged(a, k, m) ==
  \E P, Q : /\ Multiplies(P, 1 .. k, m - 1) /\ Multiplies(Q, Image(a, k, m), m - 1)
            /\ Same(m, Q[m - 1], Pow(a, k) * P[m - 1])

LEMMA RearrangedNext ==
  ASSUME NEW m, Prime(m), NEW a \in 1 .. m - 1, NEW k \in Nat, k + 1 \in 1 .. m - 1, Rearranged(a, k, m)
  PROVE  Rearranged(a, k + 1, m)
<1> DEFINE n == m - 1
           i == k + 1
           g == a * i
           x == g % m
<1>1. m \in Nat /\ m > 1 /\ m > 0 /\ n \in Nat /\ a \in Int /\ a \in Nat /\ i \in Int
  <2>1. m \in Nat /\ m > 1
    BY DEF Prime
  <2> QED
    BY <2>1
<1>2. x \in 1 .. n /\ i \in 1 .. n /\ g \in Int
  <2>1. i \in 1 .. m - 1
    OBVIOUS
  <2> HIDE DEF i
  <2>2. (a * i) % m \in 1 .. m - 1
    BY <2>1, ImageIs
  <2> QED
    BY <1>1, <2>1, <2>2
<1>3. x \notin Image(a, k, m)
  <2>1. SUFFICES ASSUME NEW h \in 1 .. k, x = (a * h) % m PROVE FALSE
    BY DEF Image
  <2>2. h \in 1 .. m - 1
    BY <1>1
  <2>3. i = h
    BY <1>2, <2>1, <2>2, ImageIs
  <2> QED
    BY <2>3
<1>4. Image(a, k + 1, m) = Image(a, k, m) \cup {x}
  <2>1. 1 .. k + 1 = (1 .. k) \cup {i}
    OBVIOUS
  <2> QED
    BY <2>1 DEF Image
<1>5. 1 .. k + 1 = (1 .. k) \cup {i} /\ i \notin 1 .. k
  OBVIOUS
<1>6. PICK P, Q : /\ Multiplies(P, 1 .. k, n) /\ Multiplies(Q, Image(a, k, m), n)
                  /\ Same(m, Q[n], Pow(a, k) * P[n])
  BY DEF Rearranged
<1>7. PICK R : Multiplies(R, 1 .. k + 1, n)
  BY <1>1, HasProduct
<1>8. PICK U : Multiplies(U, Image(a, k + 1, m), n)
  BY <1>1, HasProduct
<1> DEFINE e == P[n]
           f == Q[n]
           b == Pow(a, k)
           j == b * e
<1>9. R[n] = i * e
  <2> DEFINE S == 1 .. k
  <2>1. Multiplies(R, S \cup {i}, n) /\ Multiplies(P, S, n) /\ i \notin S
    BY <1>5, <1>6, <1>7
  <2> HIDE DEF i, n, S
  <2> QED
    BY <1>1, <1>2, <2>1, MoreProduct
<1>10. U[n] = x * f
  <2>1. Multiplies(U, Image(a, k, m) \cup {x}, n)
    BY <1>4, <1>8
  <2> HIDE DEF x, n
  <2> QED
    BY <1>1, <1>2, <1>3, <1>6, <2>1, MoreProduct
<1>11. e \in Int /\ f \in Int /\ b \in Int /\ j \in Int /\ Pow(a, k + 1) = a * b
  <2>1. n \in 0 .. n
    BY <1>1
  <2>2. e \in Nat /\ f \in Nat
    BY <1>6, <2>1 DEF Multiplies
  <2>3. b \in Nat /\ Pow(a, k + 1) = a * b
    BY <1>1, PowSteps
  <2> HIDE DEF e, f, b
  <2> QED
    BY <2>2, <2>3
<1>12. Same(m, f, j)
  BY <1>6
<1>13. Same(m, x, g) /\ x \in Int
  <2> HIDE DEF g
  <2> QED
    BY <1>1, <1>2, SameRemainder
<1> HIDE DEF e, f, b, x
<1>14. Same(m, x * f, g * j)
  <2> HIDE DEF g, j
  <2> QED
    BY <1>1, <1>2, <1>11, <1>12, <1>13, SameProduct
<1>15. g * j = (a * b) * (i * e)
  BY <1>1, <1>11
<1>16. Same(m, U[n], Pow(a, k + 1) * R[n])
  BY <1>9, <1>10, <1>11, <1>14, <1>15
<1> QED
  BY <1>7, <1>8, <1>16 DEF Rearranged

LEMMA RearrangedAll ==
  ASSUME NEW m, Prime(m), NEW a \in 1 .. m - 1 PROVE Rearranged(a, m - 1, m)
<1> DEFINE n == m - 1
           T == {k \in 0 .. n : Rearranged(a, k, m)}
<1>1. m \in Nat /\ m > 1 /\ n \in Nat /\ a \in Nat
  BY DEF Prime
<1>2. 0 \in T
  <2>1. Image(a, 0, m) = {} /\ 1 .. 0 = {}
    BY DEF Image
  <2>2. PICK P : Multiplies(P, {}, n)
    BY <1>1, HasProduct
  <2>3. P[n] \in Int
    <3>1. n \in 0 .. n
      BY <1>1
    <3> QED
      BY <2>2, <3>1 DEF Multiplies
  <2>4. Pow(a, 0) = 1
    BY <1>1, 0 \in Nat, PowSteps
  <2>5. Pow(a, 0) * P[n] = P[n]
    BY <2>3, <2>4
  <2>6. Same(m, P[n], Pow(a, 0) * P[n])
    BY <1>1, <2>3, <2>5, SameSelf
  <2>7. Rearranged(a, 0, m)
    BY <2>1, <2>2, <2>6 DEF Rearranged
  <2> QED
    BY <1>1, <2>7
<1>3. ASSUME NEW k \in 1 .. n, k - 1 \in T PROVE k \in T
  <2>1. k - 1 \in Nat /\ (k - 1) + 1 = k /\ Rearranged(a, k - 1, m) /\ k \in 1 .. m - 1
    BY <1>1, <1>3
  <2>2. Rearranged(a, k, m)
    <3> DEFINE h == k - 1
    <3>1. h \in Nat /\ h + 1 = k /\ h + 1 \in 1 .. m - 1 /\ Rearranged(a, h, m)
      BY <2>1
    <3> HIDE DEF h
    <3> QED
      BY <3>1, RearrangedNext
  <2> QED
    BY <2>2
<1> HIDE DEF T
<1>4. \A k \in 0 .. n : k \in T
  BY <1>1, <1>2, <1>3, StepInduction
<1>5. n \in T
  BY <1>1, <1>4
<1> QED
  BY <1>5 DEF T

LEMMA LittleTheorem ==
  ASSUME NEW m, Prime(m), NEW a \in 1 .. m - 1 PROVE Pow(a, m - 1) % m = 1
<1> DEFINE n == m - 1
<1>1. m \in Nat /\ m > 1 /\ m > 0 /\ n \in Nat /\ a \in Nat /\ 1 \in Int /\ 1 % m = 1
  <2>1. m \in Nat /\ m > 1
    BY DEF Prime
  <2> QED
    BY <2>1
<1>2. PICK P, Q : /\ Multiplies(P, 1 .. n, n) /\ Multiplies(Q, Image(a, n, m), n)
                  /\ Same(m, Q[n], Pow(a, n) * P[n])
  BY RearrangedAll DEF Rearranged
<1>3. Q[n] = P[n]
  BY <1>1, <1>2, WholeImage, OneProduct
<1> DEFINE e == P[n]
           b == Pow(a, n)
           x == b * e
           d == b - 1
<1>4. e \in Int /\ ~Same(m, e, 0)
  <2>1. n \in 0 .. n
    BY <1>1
  <2>2. e \in Nat
    BY <1>2, <2>1 DEF Multiplies
  <2>3. ~Same(m, e, 0)
    BY <1>2, ProductRemains
  <2> HIDE DEF e
  <2> QED
    BY <2>2, <2>3
<1>5. b \in Int
  <2>1. b \in Nat
    BY <1>1, PowSteps
  <2> HIDE DEF b
  <2> QED
    BY <2>1
<1>6. x \in Int /\ d \in Int /\ x - e = d * e
  <2> HIDE DEF e, b
  <2> QED
    BY <1>4, <1>5
<1>7. Same(m, x, e)
  <2>1. Same(m, e, x)
    BY <1>2, <1>3
  <2> HIDE DEF e, x
  <2> QED
    BY <1>1, <1>4, <1>6, <2>1, SameBack
<1> HIDE DEF x, e, b
<1>8. Same(m, d * e, 0)
  BY <1>1, <1>4, <1>6, <1>7, SameDifference
<1>9. Same(m, d, 0)
  <2> HIDE DEF d
  <2> QED
    BY <1>4, <1>6, <1>8, NoZeroDivisor
<1>10. Same(m, b, 1)
  BY <1>1, <1>5, <1>9, SameDifference
<1>11. b % m = 1
  BY <1>1, <1>5, <1>10, SameMod
<1> QED
  BY <1>11 DEF b

(* Fermat's theorem in the form that RSA needs. *)
LEMMA FermatHolds == ASSUME NEW m, Prime(m) PROVE Fermat(m)
<1>1. m \in Nat /\ m > 1 /\ m > 0 /\ m - 1 \in Nat /\ (m - 1) + 1 = m
  <2>1. m \in Nat /\ m > 1
    BY DEF Prime
  <2> QED
    BY <2>1
<1>2. ASSUME NEW x \in 0 .. m - 1 PROVE Power(x, m, m) = x
  <2> DEFINE h == m - 1
             b == Pow(x, h)
  <2>1. x \in Nat /\ x % m = x
    BY <1>1
  <2>2. b \in Nat /\ Pow(x, m) = x * b
    <3> HIDE DEF h
    <3>1. h \in Nat /\ h + 1 = m
      BY <1>1 DEF h
    <3>2. Pow(x, h) \in Nat /\ Pow(x, h + 1) = x * Pow(x, h)
      BY <2>1, <3>1, PowSteps
    <3> QED
      BY <3>1, <3>2
  <2>3. Power(x, m, m) = (x * b) % m
    BY <1>1, <2>1, <2>2, PowerIs
  <2>4. CASE x = 0
    <3> HIDE DEF b
    <3>1. x * b = 0 /\ 0 % m = 0
      BY <1>1, <2>2, <2>4
    <3> QED
      BY <2>3, <2>4, <3>1
  <2>5. CASE x # 0
    <3>1. b % m = 1
      BY <1>1, <2>5, LittleTheorem
    <3> HIDE DEF b
    <3>2. ((b % m) * x) % m = (b * x) % m
      BY <1>1, <2>1, <2>2, ModProduct
    <3>3. 1 * x = x /\ b * x = x * b
      BY <2>1, <2>2
    <3> QED
      BY <2>1, <2>3, <3>1, <3>2, <3>3
  <2> QED
    BY <2>4, <2>5
<1> QED
  BY <1>2 DEF Fermat

(* Every number is an odd one times a power of two. *)
LEMMA OddAndTwos ==
  \A n \in Nat : n > 0 => \E r, s \in Nat : n = r * Pow(2, s) /\ r % 2 = 1
<1> DEFINE T == {n \in Nat : n > 0 => \E r, s \in Nat : n = r * Pow(2, s) /\ r % 2 = 1}
<1>1. ASSUME NEW n \in Nat, \A m \in 0 .. n - 1 : m \in T PROVE n \in T
  <2>1. SUFFICES ASSUME n > 0 PROVE \E r, s \in Nat : n = r * Pow(2, s) /\ r % 2 = 1
    OBVIOUS
  <2>2. CASE n % 2 = 1
    <3>1. Pow(2, 0) = 1
      BY 0 \in Nat, 2 \in Nat, PowSteps
    <3>2. n = n * 1
      OBVIOUS
    <3> QED
      BY <2>2, <3>1, <3>2, 0 \in Nat
  <2>3. CASE n % 2 # 1
    <3> DEFINE h == n \div 2
    <3>1. h \in Nat /\ n = 2 * h
      BY <2>3
    <3> HIDE DEF h
    <3>2. h \in 0 .. n - 1 /\ h > 0
      BY <2>1, <3>1
    <3>3. PICK r, s \in Nat : h = r * Pow(2, s) /\ r % 2 = 1
      BY <1>1, <3>2
    <3> DEFINE b == Pow(2, s)
    <3>4. b \in Nat /\ Pow(2, s + 1) = 2 * b
      BY 2 \in Nat, PowSteps
    <3> HIDE DEF b
    <3>5. n = r * (2 * b)
      BY <3>1, <3>3, <3>4 DEF b
    <3> QED
      BY <3>3, <3>4, <3>5
  <2> QED
    BY <2>2, <2>3
<1> HIDE DEF T
<1>2. \A n \in Nat : n \in T
  BY <1>1, StrongInduction
<1> QED
  BY <1>2 DEF T

(* The only square roots of one. *)
LEMMA RootOfOne ==
  ASSUME NEW m, Prime(m), NEW z \in 0 .. m - 1, (z * z) % m = 1, z # 1 PROVE z = m - 1
<1>1. m \in Nat /\ m > 1 /\ m > 0 /\ z \in Int /\ 1 \in Int /\ 0 \in Int
  BY DEF Prime
<1> DEFINE x == z * z
           u == z + 1
           v == z - 1
<1>2. x \in Int /\ u \in Int /\ v \in Int /\ x - 1 = u * v /\ x % m = 1 /\ 1 % m = 1
  BY <1>1
<1>3. Same(m, x, 1)
  <2> HIDE DEF x
  <2> QED
    BY <1>1, <1>2, SameMod
<1>4. Same(m, u * v, 0)
  <2> HIDE DEF x, u, v
  <2> QED
    BY <1>1, <1>2, <1>3, SameDifference
<1>5. ~Same(m, v, 0)
  <2>1. SUFFICES ASSUME Same(m, v, 0) PROVE FALSE
    OBVIOUS
  <2>2. Same(m, z, 1)
    BY <1>1, <2>1, SameDifference
  <2>3. 1 \in 0 .. m - 1
    BY <1>1
  <2> QED
    BY <1>1, <2>2, <2>3, SameSmall
<1>6. Same(m, u, 0)
  <2> HIDE DEF u, v
  <2> QED
    BY <1>1, <1>2, <1>4, <1>5, NoZeroDivisor
<1>7. u % m = 0
  <2>1. 0 % m = 0
    BY <1>1
  <2> HIDE DEF u
  <2> QED
    BY <1>1, <1>2, <1>6, <2>1, SameMod
<1>8. CASE z < m - 1
  <2>1. u \in 1 .. m - 1
    BY <1>1, <1>8
  <2>2. u % m = u
    BY <1>1, <2>1
  <2> QED
    BY <1>7, <2>1, <2>2
<1> QED
  BY <1>1, <1>8
=============================================================================
