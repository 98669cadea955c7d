-------------------------- MODULE PrimeSearchProofs --------------------------
(***************************************************************************)
(* What holds of a call of prime/prime_test.c or prime/prime_gen.c for     *)
(* every bound, length, number of small primes and number of rounds.       *)
(***************************************************************************)
EXTENDS PrimeSearch, NatLemmas

Walking == pc \in {"divide", "classify", "round"}

(* Where the walk is while a candidate is looked at. *)
OnTheWay ==
  /\ pc = "draw" => call.kind = "below" /\ call.n > 2 /\ call.t >= 1
  /\ Walking =>
       /\ call.t >= 1
       /\ call.kind = "test" => start = q
       /\ call.kind # "test" => start <= q /\ q % 2 = 1
       /\ call.kind = "below" => 0 < q /\ q < call.n /\ call.n > 2
       /\ call.kind = "bits" => q >= 2 ^ (call.n - 1)
  /\ pc = "round" => rounds >= 1

IInv == TypeOK /\ OnTheWay /\ LegalDraws /\ InRange

-----------------------------------------------------------------------------
LEMMA CallTypes == ASSUME TypeOK
  PROVE /\ call.kind \in {"test", "bits", "below"} /\ call.n \in Nat
        /\ call.k \in Int /\ call.t \in Int /\ 2 ^ (call.n - 1) \in Int
<1>1. /\ call.kind \in {"test", "bits", "below"} /\ call.n \in Nat
      /\ call.k \in Int /\ call.t \in Int
  BY CallsAssumption DEF TypeOK
<1>2. \A n \in Nat : 2 ^ (n - 1) \in Int
  OBVIOUS
<1> QED
  BY <1>1, <1>2

LEMMA OddFacts == ASSUME NEW v \in Int
  PROVE Odd(v) \in Int /\ Odd(v) % 2 = 1 /\ Odd(v) >= v /\ (v >= 0 => Odd(v) > 0)
  BY DEF Odd

LEMMA InitIInv == Init => IInv
<1> SUFFICES ASSUME Init PROVE IInv
  OBVIOUS
<1>1. pc = "call" /\ status = "none"
  BY DEF Init
<1>2. TypeOK
  <2>1. q \in Int /\ start \in Int /\ rounds \in Nat
    BY DEF Init
  <2> QED
    BY <2>1, Zenon DEF Init, TypeOK
<1> QED
  BY <1>1, <1>2 DEF IInv, OnTheWay, Walking, LegalDraws, InRange

LEMMA FailureKeeps ==
  ASSUME IInv, NEW s \in {"invalid", "rng", "nomem"}, Finish(s, FALSE) PROVE IInv'
  BY DEF IInv, TypeOK, OnTheWay, Walking, LegalDraws, InRange, Finish

(* The two ways out of looking at a candidate. *)
LEMMA AcceptKeeps == ASSUME IInv, Walking, Accept, q >= 2 PROVE IInv'
<1>1. /\ pc' = "done" /\ status' = "ok" /\ verdict' = TRUE
      /\ UNCHANGED <<call, q, start, rounds>>
  BY DEF Accept, Finish
<1>2. TypeOK' /\ OnTheWay' /\ LegalDraws'
  BY <1>1 DEF IInv, TypeOK, OnTheWay, Walking, LegalDraws
<1>3. InRange'
  BY <1>1, CallTypes DEF IInv, TypeOK, OnTheWay, InRange
<1> QED
  BY <1>2, <1>3 DEF IInv

LEMMA RejectKeeps == ASSUME IInv, Walking, Reject PROVE IInv'
<1> USE CallTypes DEF IInv
<1>1. CASE call.kind = "test"
  BY <1>1 DEF Reject, Finish, TypeOK, OnTheWay, Walking, LegalDraws, InRange
<1>2. CASE call.kind # "test"
  <2>1. /\ q' = q + 2 /\ start' = start /\ UNCHANGED <<call, rounds, status, verdict>>
        /\ pc' \in {"draw", "divide"}
        /\ call.kind = "below" /\ q + 2 >= call.n => pc' = "draw"
        /\ pc' = "draw" => call.kind = "below"
    BY <1>2 DEF Reject, Try
  <2>2. TypeOK' /\ LegalDraws' /\ InRange'
    BY <2>1 DEF TypeOK, LegalDraws, InRange
  <2>3. (q + 2) % 2 = 1 /\ start <= q + 2 /\ q \in Int /\ start \in Int
    BY <1>2 DEF TypeOK, OnTheWay
  <2>4. call.kind = "below" => 0 < q /\ call.n > 2
    BY DEF OnTheWay
  <2>5. call.kind = "bits" => q + 2 >= 2 ^ (call.n - 1)
    BY DEF OnTheWay, TypeOK
  <2>6. call.t >= 1
    BY DEF OnTheWay
  <2>7. OnTheWay'
    BY <1>2, <2>1, <2>3, <2>4, <2>5, <2>6 DEF OnTheWay, Walking
  <2> QED
    BY <2>2, <2>7
<1> QED
  BY <1>1, <1>2

LEMMA BeginKeeps == IInv /\ Begin => IInv'
<1> SUFFICES ASSUME IInv, Begin PROVE IInv'
  OBVIOUS
<1> USE CallTypes DEF IInv
<1>1. call.t >= 1 /\ (call.kind = "below" => call.n > 2)
  BY DEF Begin, Accepted
<1>2. CASE call.kind = "test" /\ Try(call.n, call.n, "classify")
  BY <1>1, <1>2 DEF Try, TypeOK, OnTheWay, Walking, LegalDraws, InRange
<1>3. ASSUME NEW v \in 2 ^ (call.n - 1) .. 2 ^ call.n - 1, call.kind = "bits",
             Try(Odd(v), Odd(v), "divide")
      PROVE IInv'
  <2>1. v \in Int /\ v >= 2 ^ (call.n - 1)
    OBVIOUS
  <2>2. Odd(v) \in Int /\ Odd(v) % 2 = 1 /\ Odd(v) >= 2 ^ (call.n - 1)
    BY <2>1, OddFacts
  <2> QED
    BY <1>1, <1>3, <2>2 DEF Try, TypeOK, OnTheWay, Walking, LegalDraws, InRange
<1>4. CASE call.kind = "below" /\ Try(0, 0, "draw")
  BY <1>1, <1>4 DEF Try, TypeOK, OnTheWay, Walking, LegalDraws, InRange
<1> QED
  BY <1>2, <1>3, <1>4 DEF Begin

LEMMA DrawKeeps == ASSUME IInv, NEW v \in Nat, Draw(v) PROVE IInv'
<1> USE CallTypes DEF IInv
<1>1. call.kind = "below" /\ call.n > 2 /\ call.t >= 1
  BY DEF Draw, OnTheWay
<1>2. Odd(v) \in Int /\ Odd(v) % 2 = 1 /\ Odd(v) > 0
  BY OddFacts
<1>3. CASE v = 2 /\ q' = 2 /\ start' = 2 /\ pc' = "done" /\ status' = "ok" /\ verdict' = TRUE
           /\ UNCHANGED <<call, rounds>>
  BY <1>1, <1>3 DEF TypeOK, OnTheWay, Walking, LegalDraws, InRange
<1>4. CASE Odd(v) < call.n /\ Try(Odd(v), Odd(v), "divide")
  BY <1>1, <1>2, <1>4 DEF Try, TypeOK, OnTheWay, Walking, LegalDraws, InRange
<1>5. CASE Try(Odd(v), Odd(v), "draw")
  BY <1>1, <1>2, <1>5 DEF Try, TypeOK, OnTheWay, Walking, LegalDraws, InRange
<1> QED
  BY <1>3, <1>4, <1>5 DEF Draw

LEMMA DivideKeeps == IInv /\ Divide => IInv'
<1> SUFFICES ASSUME IInv, Divide PROVE IInv'
  OBVIOUS
<1>1. pc = "divide" /\ Walking /\ q \in Int
  BY DEF Divide, Walking, IInv, TypeOK
<1>2. CASE q \in SmallOddPrimes /\ Accept
  <2>1. q >= 2
    BY <1>1, <1>2 DEF SmallOddPrimes
  <2> QED
    BY <1>1, <1>2, <2>1, AcceptKeeps
<1>3. CASE Reject
  BY <1>1, <1>3, RejectKeeps
<1>4. CASE Try(q, start, "classify")
  BY <1>1, <1>4 DEF Try, IInv, TypeOK, OnTheWay, Walking, LegalDraws, InRange
<1> QED
  BY <1>2, <1>3, <1>4 DEF Divide

LEMMA ClassifyKeeps == IInv /\ Classify => IInv'
<1> SUFFICES ASSUME IInv, Classify PROVE IInv'
  OBVIOUS
<1>1. pc = "classify" /\ Walking /\ q \in Int
  BY DEF Classify, Walking, IInv, TypeOK
<1>2. CASE q >= 2 /\ Accept
  BY <1>1, <1>2, AcceptKeeps
<1>3. CASE Reject
  BY <1>1, <1>3, RejectKeeps
<1>4. CASE q > 3 /\ q % 2 # 0 /\ BeginRounds
  <2>1. q >= 5 /\ q % 2 = 1
    BY <1>1, <1>4
  <2>2. call.t \in Int /\ call.t >= 1
    BY <1>1, CallTypes DEF IInv, OnTheWay
  <2> QED
    BY <1>1, <1>4, <2>1, <2>2 DEF BeginRounds, IInv, TypeOK, OnTheWay, Walking, LegalDraws, InRange
<1> QED
  BY <1>1, <1>2, <1>3, <1>4 DEF Classify

LEMMA RoundKeeps == IInv /\ Round => IInv'
<1> SUFFICES ASSUME IInv, Round PROVE IInv'
  OBVIOUS
<1>1. pc = "round" /\ Walking /\ q >= 2 /\ rounds \in Nat /\ rounds >= 1
  BY DEF Round, Walking, IInv, TypeOK, LegalDraws, OnTheWay
<1>2. CASE Accept
  BY <1>1, <1>2, AcceptKeeps
<1>3. CASE Reject
  BY <1>1, <1>3, RejectKeeps
<1>4. CASE rounds # 1 /\ rounds' = rounds - 1 /\ UNCHANGED <<call, pc, q, start, status, verdict>>
  BY <1>1, <1>4 DEF IInv, TypeOK, OnTheWay, Walking, LegalDraws, InRange
<1> QED
  BY <1>2, <1>3, <1>4 DEF Round

LEMMA NextKeeps == IInv /\ [Next]_vars => IInv'
<1> SUFFICES ASSUME IInv, [Next]_vars PROVE IInv'
  OBVIOUS
<1>1. CASE Refuse
  BY <1>1, FailureKeeps DEF Refuse
<1>2. CASE Fail
  BY <1>2, FailureKeeps DEF Fail
<1>3. ASSUME NEW v \in Values, Draw(v) PROVE IInv'
  <2>1. v \in Nat
    BY CallsAssumption DEF Values
  <2> QED
    BY <1>3, <2>1, DrawKeeps
<1>4. CASE UNCHANGED vars
  BY <1>4 DEF vars, IInv, TypeOK, OnTheWay, Walking, LegalDraws, InRange
<1> QED
  BY <1>1, <1>2, <1>3, <1>4, BeginKeeps, DivideKeeps, ClassifyKeeps, RoundKeeps DEF Next

LEMMA Inductive == Spec => []IInv
  BY InitIInv, NextKeeps, PTL DEF Spec

-----------------------------------------------------------------------------
(* Every variable of a call stays in its range: the rounds left never go    *)
(* below zero.                                                              *)
THEOREM TypeCorrect == Spec => []TypeOK
<1>1. IInv => TypeOK
  BY DEF IInv
<1> QED
  BY <1>1, Inductive, PTL

(* Whatever is searched or tested, GMP is never asked for a number below    *)
(* an empty bound: a round begins only for an odd number from 5 on.         *)
THEOREM DrawsAreLegal == Spec => []LegalDraws
<1>1. IInv => LegalDraws
  BY DEF IInv
<1> QED
  BY <1>1, Inductive, PTL

(* A search that succeeds keeps below its bound, or at its length.          *)
THEOREM ResultInRange == Spec => []InRange
<1>1. IInv => InRange
  BY DEF IInv
<1> QED
  BY <1>1, Inductive, PTL

-----------------------------------------------------------------------------
(* How a round of Miller and Rabin takes n - 1 apart.                       *)
LEMMA TwosIs ==
  ASSUME NEW n \in Nat, n > 1, n % 2 = 1
  PROVE  /\ Twos(n) \in 1 .. n /\ OddPart(n) \in Nat
         /\ n - 1 = OddPart(n) * Pow(2, Twos(n))
<1> DEFINE m == n - 1
           IsTwos(s) == m % Pow(2, s) = 0 /\ (m \div Pow(2, s)) % 2 = 1
<1>1. m \in Nat /\ m > 0 /\ m % 2 = 0
  OBVIOUS
<1> HIDE DEF m
<1>2. PICK r, s \in Nat : m = r * Pow(2, s) /\ r % 2 = 1
  BY <1>1, OddAndTwos
<1> DEFINE b == Pow(2, s)
<1>3. b \in Nat /\ b > 0 /\ s < b
  BY PowPositive, PowAbove, 2 \in Nat, 2 > 0
<1>4. s \in 1 .. n
  <2>1. s # 0
    <3>1. SUFFICES ASSUME s = 0 PROVE FALSE
      OBVIOUS
    <3>2. Pow(2, 0) = 1
      BY 0 \in Nat, 2 \in Nat, PowSteps
    <3>3. m = r
      BY <1>2, <3>1, <3>2
    <3> QED
      BY <1>1, <1>2, <3>3
  <2> HIDE DEF b
  <2>2. r > 0
    BY <1>2
  <2>3. m = r * b
    BY <1>2 DEF b
  <2>4. b <= m
    BY <1>3, <2>2, <2>3
  <2> QED
    BY <1>1, <1>3, <2>1, <2>4 DEF m
<1>5. IsTwos(s)
  <2> HIDE DEF b
  <2>1. m = r * b + 0 /\ 0 \in 0 .. b - 1
    BY <1>2, <1>3 DEF b
  <2>2. m \div b = r /\ m % b = 0
    BY <1>3, <2>1, DivMod
  <2> QED
    BY <1>2, <2>2 DEF b
<1> DEFINE t == Twos(n)
<1>6. t \in 1 .. n /\ IsTwos(t)
  BY <1>4, <1>5 DEF Twos, m
<1>7. OddPart(n) = m \div Pow(2, t)
  BY DEF OddPart, m
<1> DEFINE g == Pow(2, t)
<1>8. g \in Nat /\ g > 0 /\ t \in Nat
  BY <1>6, PowPositive, 2 \in Nat, 2 > 0
<1>9. m % g = 0
  BY <1>6
<1> HIDE DEF g
<1>10. m \div g \in Nat /\ m = (m \div g) * g + (m % g)
  BY <1>1, <1>8, Division
<1> DEFINE d == m \div g
<1>11. d \in Nat /\ m = d * g
  <2>1. d \in Nat /\ m = d * g + 0
    BY <1>9, <1>10
  <2> HIDE DEF d
  <2> QED
    BY <1>8, <2>1
<1> QED
  BY <1>6, <1>7, <1>11 DEF g, m

(* A prime passes a round of either test, with any base below it.           *)
THEOREM PrimePasses ==
  ASSUME NEW m, Prime(m), m % 2 = 1, NEW a \in 1 .. m - 1
  PROVE  FermatPasses(a, m) /\ MillerRabinPasses(a, m)
<1> DEFINE r == OddPart(m)
           s == Twos(m)
           h == m - 1
           Z(j) == Pow(a, r * Pow(2, j))
           y == Power(a, r, m)
<1>1. m \in Nat /\ m > 1 /\ m > 0 /\ h \in Nat /\ a \in Nat
  <2>1. m \in Nat /\ m > 1
    BY DEF Prime
  <2> QED
    BY <2>1
<1>2. s \in 1 .. m /\ s \in Nat /\ r \in Nat /\ h = r * Pow(2, s)
  BY <1>1, TwosIs
<1>3. Pow(a, h) % m = 1
  BY LittleTheorem
<1>4. FermatPasses(a, m)
  BY <1>1, <1>3, PowerIs DEF FermatPasses
<1> HIDE DEF r, s, h
<1>5. Z(s) % m = 1
  BY <1>2, <1>3
<1>6. y = Z(0) % m
  <2>1. Pow(2, 0) = 1
    BY 0 \in Nat, 2 \in Nat, PowSteps
  <2>2. r * Pow(2, 0) = r
    BY <1>2, <2>1
  <2> QED
    BY <1>1, <1>2, <2>2, PowerIs
<1>7. ASSUME NEW j \in Nat PROVE Pow(2, j) \in Nat /\ Z(j) \in Nat /\ Z(j + 1) = Z(j) * Z(j)
  <2> DEFINE b == Pow(2, j)
             e == r * b
  <2>1. b \in Nat /\ Pow(2, j + 1) = 2 * b
    BY 2 \in Nat, PowSteps
  <2>2. e \in Nat /\ r * (2 * b) = e + e
    <3> HIDE DEF b
    <3> QED
      BY <1>2, <2>1
  <2> HIDE DEF e
  <2>3. Pow(a, e) \in Nat /\ Pow(a, e + e) = Pow(a, e) * Pow(a, e)
    <3>1. \A f \in Nat : Pow(a, e + f) = Pow(a, e) * Pow(a, f)
      BY ONLY <1>1, <2>2, PowSum
    <3>2. Pow(a, e) \in Nat
      BY ONLY <1>1, <2>2, PowSteps
    <3>3. Pow(a, e + e) = Pow(a, e) * Pow(a, e)
      BY <2>2, <3>1, Zenon
    <3> QED
      BY <3>2, <3>3
  <2> QED
    BY <2>1, <2>2, <2>3 DEF e
<1>8. ASSUME NEW j \in Nat PROVE Power(y, Pow(2, j), m) = Z(j) % m
  <2> DEFINE b == Pow(2, j)
  <2>1. b \in Nat
    BY <1>7
  <2> HIDE DEF b
  <2>2. Power(Power(a, r, m), b, m) = Pow(a, r * b) % m
    BY ONLY <1>1, <1>2, <2>1, PowerPower
  <2> QED
    BY <2>2 DEF b
<1> DEFINE T == {j \in 0 .. s : Z(j) % m = 1}
<1>9. PICK j \in T : \A i \in T : j <= i
  <2>1. s \in T
    BY <1>2, <1>5
  <2>2. T \in SUBSET Nat /\ T # {}
    BY <1>2, <2>1
  <2> HIDE DEF T
  <2> QED
    BY <2>2, LeastNatural
<1>10. j \in 0 .. s /\ Z(j) % m = 1
  OBVIOUS
<1>11. CASE j = 0
  <2>1. y = 1
    BY <1>6, <1>10, <1>11
  <2> QED
    BY <1>4, <2>1 DEF MillerRabinPasses, r
<1>12. CASE j # 0
  <2> DEFINE i == j - 1
             z == Z(i) % m
  <2>1. i \in Nat /\ i + 1 = j /\ i \in 0 .. s - 1 /\ i \in 0 .. s
    BY <1>2, <1>10, <1>12
  <2>2. z # 1
    <3>1. SUFFICES ASSUME z = 1 PROVE FALSE
      OBVIOUS
    <3>2. i \in T
      BY <2>1, <3>1
    <3>3. j <= i
      BY <1>9, <3>2
    <3> QED
      BY <1>2, <1>10, <2>1, <3>3
  <2>3. Z(i) \in Nat /\ Z(j) = Z(i) * Z(i)
    <3> HIDE DEF i, Z
    <3>1. Z(i) \in Nat /\ Z(i + 1) = Z(i) * Z(i)
      BY <1>7, <2>1
    <3> QED
      BY <2>1, <3>1
  <2> DEFINE w == Z(i)
  <2>4. z \in 0 .. m - 1 /\ (z * z) % m = 1
    <3>1. w \in Nat /\ z = w % m /\ (w * w) % m = 1
      BY <1>10, <2>3
    <3> HIDE DEF w, z
    <3>2. ((w % m) * (w % m)) % m = (w * w) % m
      BY <1>1, <3>1, ModProducts
    <3>3. w % m \in 0 .. m - 1
      BY <1>1, <3>1
    <3> QED
      BY <3>1, <3>2, <3>3
  <2>5. z = m - 1
    <3> HIDE DEF z
    <3> QED
      BY <2>2, <2>4, RootOfOne
  <2>6. CASE i = 0
    <3>1. y = m - 1
      BY <1>6, <2>5, <2>6
    <3> QED
      BY <1>4, <3>1 DEF MillerRabinPasses, r
  <2>7. CASE i # 0
    <3>1. i \in 1 .. s - 1
      BY <1>2, <2>1, <2>7
    <3>2. Power(y, Pow(2, i), m) = m - 1
      BY <1>8, <2>1, <2>5
    <3> HIDE DEF i
    <3> QED
      BY <1>4, <3>1, <3>2 DEF MillerRabinPasses, r, s
  <2> QED
    BY <2>6, <2>7
<1> QED
  BY <1>11, <1>12

LEMMA RoundsPassPrimes ==
  ASSUME NEW v \in Int, v >= 5, v % 2 = 1, IsPrime(v), NEW a \in DrawnBases(v)
  PROVE  FermatPasses(a, v) /\ MillerRabinPasses(a, v)
<1>1. Prime(v) /\ a \in 1 .. v - 1
  BY DEF IsPrime, Prime, DrawnBases
<1> QED
  BY <1>1, PrimePasses

-----------------------------------------------------------------------------
(* The second invariant, on top of the first.                               *)
NoneBefore(last) == \A v \in start .. last : v % 2 = 1 => ~IsPrime(v)

Unskipped == /\ Walking => NoneBefore(q - 1)
             /\ NothingSkipped

LEMMA AcceptSkipsNone == ASSUME IInv, Unskipped, Walking, Accept PROVE Unskipped'
<1>1. pc' = "done" /\ status' = "ok" /\ verdict' = TRUE /\ UNCHANGED <<q, start>>
  BY DEF Accept, Finish
<1> QED
  BY <1>1 DEF Unskipped, NothingSkipped, Walking, NoneBefore

LEMMA RejectSkipsNone == ASSUME IInv, Unskipped, Walking, Reject, ~IsPrime(q) PROVE Unskipped'
<1>1. CASE call.kind = "test"
  <2>1. pc' = "done" /\ status' = "ok" /\ verdict' = FALSE /\ UNCHANGED <<q, start>>
    BY <1>1 DEF Reject, Finish
  <2> QED
    BY <2>1 DEF Unskipped, NothingSkipped, Walking
<1>2. CASE call.kind # "test"
  <2>1. q' = q + 2 /\ start' = start /\ pc' \in {"draw", "divide"}
    BY <1>2 DEF Reject, Try
  <2>2. q \in Int /\ start \in Int /\ q % 2 = 1
    BY <1>2 DEF IInv, TypeOK, OnTheWay
  <2>3. \A v \in start .. q + 2 - 1 : v % 2 = 1 => v \in start .. q - 1 \/ v = q
    BY <2>2
  <2>4. \A v \in start .. q + 2 - 1 : v % 2 = 1 => ~IsPrime(v)
    BY <2>3 DEF Unskipped, NoneBefore
  <2>5. \A v \in start' .. q' - 1 : v % 2 = 1 => ~IsPrime(v)
    BY <2>1, <2>2, <2>4
  <2>6. pc' # "done"
    BY <2>1
  <2> QED
    BY <2>5, <2>6 DEF Unskipped, NothingSkipped, NoneBefore
<1> QED
  BY <1>1, <1>2

(* A walk begins with nothing behind it. *)
LEMMA FreshSkipsNone ==
  ASSUME NEW v \in Int, NEW next \in {"draw", "divide", "classify"}, Try(v, v, next) PROVE Unskipped'
<1>1. v .. v - 1 = {}
  OBVIOUS
<1>2. q' = v /\ start' = v /\ pc' = next
  BY DEF Try
<1> QED
  BY <1>1, <1>2 DEF Unskipped, NothingSkipped, Walking, NoneBefore

LEMMA CompositeByDivision ==
  ASSUME q \in Int, q \notin SmallOddPrimes, NEW f \in SmallOddPrimes, q % f = 0
  PROVE  ~IsPrime(q)
<1>1. f \in 3 .. q /\ f # q
  BY DEF SmallOddPrimes
<1>2. f \in 2 .. q - 1
  BY <1>1
<1> QED
  BY <1>2 DEF IsPrime

LEMMA NextSkipsNone ==
  ASSUME IInv, Unskipped, [Next]_vars
  PROVE  Unskipped'
<1>1. CASE Refuse \/ Fail
  BY <1>1 DEF Refuse, Fail, Finish, Unskipped, NothingSkipped, Walking
<1>2. CASE Begin
  <2>1. call.n \in Int
    BY CallTypes DEF IInv
  <2>2. ASSUME NEW v \in 2 ^ (call.n - 1) .. 2 ^ call.n - 1, Try(Odd(v), Odd(v), "divide")
        PROVE Unskipped'
    BY <2>2, OddFacts, FreshSkipsNone
  <2> QED
    BY <1>2, <2>1, <2>2, FreshSkipsNone DEF Begin
<1>3. ASSUME NEW v \in Values, Draw(v) PROVE Unskipped'
  <2>1. v \in Int /\ Odd(v) \in Int
    BY CallsAssumption, OddFacts DEF Values
  <2>2. CASE v = 2 /\ q' = 2 /\ start' = 2 /\ pc' = "done" /\ status' = "ok" /\ verdict' = TRUE
    <3>1. start' .. q' - 1 = {}
      BY <2>2
    <3> QED
      BY <2>2, <3>1 DEF Unskipped, NothingSkipped, Walking
  <2>3. CASE Try(Odd(v), Odd(v), "divide")
    BY <2>1, <2>3, FreshSkipsNone
  <2>4. CASE Try(Odd(v), Odd(v), "draw")
    BY <2>1, <2>4, FreshSkipsNone
  <2> QED
    BY <1>3, <2>2, <2>3, <2>4 DEF Draw
<1>4. CASE Divide
  <2>1. Walking /\ q \in Int
    BY <1>4 DEF Divide, Walking, IInv, TypeOK
  <2>2. CASE q \notin SmallOddPrimes /\ (\E f \in SmallOddPrimes : q % f = 0) /\ Reject
    BY <2>1, <2>2, CompositeByDivision, RejectSkipsNone
  <2>3. CASE Try(q, start, "classify")
    BY <2>1, <2>3 DEF Try, Unskipped, NothingSkipped, Walking, NoneBefore
  <2> QED
    BY <1>4, <2>1, <2>2, <2>3, AcceptSkipsNone DEF Divide
<1>5. CASE Classify
  <2>1. Walking /\ q \in Int
    BY <1>5 DEF Classify, Walking, IInv, TypeOK
  <2>2. q < 2 => ~IsPrime(q)
    BY <2>1 DEF IsPrime
  <2>3. q > 3 /\ q % 2 = 0 => ~IsPrime(q)
    <3>1. q > 3 => 2 \in 2 .. q - 1
      BY <2>1
    <3> QED
      BY <3>1 DEF IsPrime
  <2>4. CASE BeginRounds
    <3>1. pc' = "round" /\ UNCHANGED <<q, start, status, verdict>>
      BY <2>4 DEF BeginRounds
    <3>2. NoneBefore(q - 1)'
      BY <2>1, <3>1 DEF Unskipped, NoneBefore
    <3> QED
      BY <3>1, <3>2 DEF Unskipped, NothingSkipped, NoneBefore
  <2> QED
    BY <1>5, <2>1, <2>2, <2>3, <2>4, AcceptSkipsNone, RejectSkipsNone DEF Classify
<1>6. CASE Round
  <2>1. Walking /\ q \in Int /\ q >= 5 /\ q % 2 = 1
    BY <1>6 DEF Round, Walking, IInv, TypeOK, LegalDraws
  <2>2. ASSUME NEW a \in DrawnBases(q), ~Passes(a), Reject PROVE Unskipped'
    <3>1. ~IsPrime(q)
      BY <2>1, <2>2, RoundsPassPrimes DEF Passes
    <3> QED
      BY <2>1, <2>2, <3>1, RejectSkipsNone
  <2>3. CASE pc' = "round" /\ UNCHANGED <<q, start, status>>
    BY <2>1, <2>3 DEF Unskipped, NothingSkipped, Walking, NoneBefore
  <2> QED
    BY <1>6, <2>1, <2>2, <2>3, AcceptSkipsNone DEF Round
<1>7. CASE UNCHANGED vars
  BY <1>7 DEF vars, Unskipped, NothingSkipped, Walking, NoneBefore
<1> QED
  BY <1>1, <1>2, <1>3, <1>4, <1>5, <1>6, <1>7 DEF Next

(* No walk passes over a prime and cc_is_prime denies none.                 *)
THEOREM NoPrimeDenied == Spec => []NothingSkipped
<1>1. Init => Unskipped
  BY DEF Init, Unskipped, NothingSkipped, Walking
<1>2. Unskipped /\ IInv /\ [Next]_vars => Unskipped'
  BY NextSkipsNone
<1>3. Unskipped => NothingSkipped
  BY DEF Unskipped
<1> QED
  BY <1>1, <1>2, <1>3, Inductive, PTL DEF Spec
=============================================================================
