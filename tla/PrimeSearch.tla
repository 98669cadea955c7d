----------------------------- MODULE PrimeSearch -----------------------------
(***************************************************************************)
(* One call of cc_is_prime, cc_prime_bits or cc_prime_below: the test of a *)
(* number, and the random searches of prime/prime_gen.c that walk through  *)
(* the odd numbers from a random one and test each.  The draws of GMP are  *)
(* choices; what a round decides of a base is PrimeTest.                   *)
(***************************************************************************)
EXTENDS PrimeTest

(* Records with the kind of call ("test", "bits", "below"), its number n    *)
(* (to test, of bits, or the bound), the number of small primes k, the      *)
(* rounds t and the test ("gmp", "fermat", "miller_rabin", or another).     *)
CONSTANTS Calls

ASSUME CallsAssumption ==
  \A c \in Calls : /\ c.kind \in {"test", "bits", "below"} /\ c.n \in Nat
                   /\ c.k \in Int /\ c.t \in Int

VARIABLES
  call,    \* the arguments
  pc,      \* "call", "draw", "divide", "classify", "round", "done"
  q,       \* the candidate
  start,   \* the odd number the walk to q began at
  rounds,  \* the rounds left
  status,  \* what the call returns
  verdict  \* *is_prime

vars == <<call, pc, q, start, rounds, status, verdict>>

Init == /\ call \in Calls
        /\ pc = "call"
        /\ q = 0 /\ start = 0 /\ rounds = 0
        /\ status = "none" /\ verdict = FALSE

Finish(s, yes) == /\ pc' = "done" /\ status' = s /\ verdict' = yes
                  /\ UNCHANGED <<call, q, start, rounds>>

KnownTest == call.test \in {"gmp", "fermat", "miller_rabin"}

(* What the checks let through: prime_test and primality_test, or           *)
(* check_params and the bounds of the searches.                             *)
Accepted == /\ KnownTest /\ call.t >= 1
            /\ call.kind # "test" => call.k >= 1
            /\ call.kind = "bits" => call.n \in 2 .. 2 ^ 20
            /\ call.kind = "below" => call.n > 2

Refuse == pc = "call" /\ ~Accepted /\ Finish("invalid", FALSE)

(* The system gives no seed, or no room for the small primes. *)
Fail == /\ pc = "call" /\ KnownTest
        /\ \/ Finish("rng", FALSE)
           \/ Accepted /\ call.kind # "test" /\ Finish("nomem", FALSE)

Try(v, first, next) ==
  /\ q' = v /\ start' = first /\ pc' = next
  /\ UNCHANGED <<call, rounds, status, verdict>>

Odd(v) == IF v % 2 = 0 THEN v + 1 ELSE v

(* cc_is_prime tests n as it is; cc_prime_bits sets the top and the last    *)
(* bit of a random number.                                                  *)
Begin ==
  /\ pc = "call" /\ Accepted
  /\ \/ call.kind = "test" /\ Try(call.n, call.n, "classify")
     \/ /\ call.kind = "bits"
        /\ \E v \in 2 ^ (call.n - 1) .. 2 ^ call.n - 1 : Try(Odd(v), Odd(v), "divide")
     \/ call.kind = "below" /\ Try(0, 0, "draw")

(* Faulty: 2, which no walk meets, is made odd too. *)
DrawOddOnly(v) ==
  /\ pc = "draw" /\ v < call.n
  /\ \/ Odd(v) < call.n /\ Try(Odd(v), Odd(v), "divide")
     \/ Odd(v) >= call.n /\ Try(Odd(v), Odd(v), "draw")

(* cc_prime_below draws until a walk succeeds. *)
Draw(v) ==
  /\ pc = "draw" /\ v < call.n
  /\ \/ /\ v = 2
        /\ q' = 2 /\ start' = 2 /\ pc' = "done" /\ status' = "ok" /\ verdict' = TRUE
        /\ UNCHANGED <<call, rounds>>
     \/ v # 2 /\ Odd(v) < call.n /\ Try(Odd(v), Odd(v), "divide")
     \/ v # 2 /\ Odd(v) >= call.n /\ Try(Odd(v), Odd(v), "draw")

(* A number is prime, as far as is known. *)
Accept == Finish("ok", TRUE)

(* Faulty: the walk goes on past the bound. *)
RejectOnward == IF call.kind = "test" THEN Finish("ok", FALSE)
                ELSE Try(q + 2, start, "divide")

(* It is not: a search goes on to the next odd number, and draws again when *)
(* that reaches the bound.                                                  *)
Reject == IF call.kind = "test" THEN Finish("ok", FALSE)
          ELSE IF call.kind = "below" /\ q + 2 >= call.n THEN Try(q + 2, start, "draw")
          ELSE Try(q + 2, start, "divide")

(* The odd primes among the first k primes, as far as they can matter to q. *)
SmallOddPrimes == {f \in 3 .. q : IsPrime(f) /\ Cardinality({e \in 2 .. f : IsPrime(e)}) <= call.k}

(* Faulty: divisibility is looked at before equality. *)
DivideFirst ==
  /\ pc = "divide"
  /\ IF \E f \in SmallOddPrimes : q % f = 0 THEN Reject
     ELSE Try(q, start, "classify")

(* is_probable_prime: trial division first. *)
Divide ==
  /\ pc = "divide"
  /\ IF q \in SmallOddPrimes THEN Accept
     ELSE IF \E f \in SmallOddPrimes : q % f = 0 THEN Reject
     ELSE Try(q, start, "classify")

BeginRounds == /\ pc' = "round" /\ rounds' = call.t
               /\ UNCHANGED <<call, q, start, status, verdict>>

(* Faulty: 3 goes through the rounds. *)
ClassifyThree ==
  /\ pc = "classify"
  /\ IF q < 2 THEN Reject ELSE IF q < 3 THEN Accept
     ELSE IF q % 2 = 0 THEN Reject
     ELSE IF call.test = "gmp" THEN Accept \/ (~IsPrime(q) /\ Reject)
     ELSE BeginRounds

(* primality_test: the cases without a base, and GMP's own test, of which   *)
(* only its promise is taken, that it never turns a prime down.             *)
Classify ==
  /\ pc = "classify"
  /\ IF q < 2 THEN Reject ELSE IF q <= 3 THEN Accept
     ELSE IF q % 2 = 0 THEN Reject
     ELSE IF call.test = "gmp" THEN Accept \/ (~IsPrime(q) /\ Reject)
     ELSE BeginRounds

Passes(a) == IF call.test = "fermat" THEN FermatPasses(a, q) ELSE MillerRabinPasses(a, q)

(* Faulty: the last round does not end the loop. *)
RoundMore ==
  /\ pc = "round"
  /\ \E a \in DrawnBases(q) :
       IF ~Passes(a) THEN Reject
       ELSE /\ rounds' = rounds - 1
            /\ UNCHANGED <<call, pc, q, start, status, verdict>>

Round ==
  /\ pc = "round"
  /\ \E a \in DrawnBases(q) :
       IF ~Passes(a) THEN Reject
       ELSE IF rounds = 1 THEN Accept
       ELSE /\ rounds' = rounds - 1
            /\ UNCHANGED <<call, pc, q, start, status, verdict>>

Values == UNION {0 .. c.n - 1 : c \in {x \in Calls : x.kind = "below"}}

Next == \/ Refuse \/ Fail \/ Begin \/ Divide \/ Classify \/ Round
        \/ \E v \in Values : Draw(v)

(* The call runs on, and a 2, which every bound allows, is drawn in the     *)
(* end; any other prime below the bound would do.                           *)
Fairness == WF_vars(Next) /\ SF_vars(Draw(2))

Spec == Init /\ [][Next]_vars /\ Fairness

-----------------------------------------------------------------------------
TypeOK ==
  /\ call \in Calls
  /\ pc \in {"call", "draw", "divide", "classify", "round", "done"}
  /\ q \in Int /\ start \in Int
  /\ rounds \in Nat
  /\ status \in {"none", "ok", "invalid", "rng", "nomem"}
  /\ verdict \in BOOLEAN

(* A base is only drawn for an odd number from 5 on, for which the range    *)
(* [0, n - 3) is not empty: GMP stops the process on an empty one.          *)
LegalDraws == pc = "round" => q >= 5 /\ q % 2 = 1

(* A search that succeeds returns a number it was asked for: from 2 on and  *)
(* below the bound, or with the top bit of the length or above.             *)
InRange == pc = "done" /\ status = "ok" =>
  /\ call.kind = "below" => q \in 2 .. call.n - 1
  /\ call.kind = "bits" => q >= 2 ^ (call.n - 1)

(* A walk passes over no prime: what it returns is a prime, or comes before *)
(* the first prime from where it began, and cc_is_prime never denies one.   *)
NothingSkipped ==
  /\ pc \in {"divide", "classify", "round"} \/ (pc = "done" /\ status = "ok" /\ verdict)
       => \A v \in start .. q - 1 : v % 2 = 1 => ~IsPrime(v)
  /\ pc = "done" /\ status = "ok" /\ ~verdict => ~IsPrime(q)

(* For a composite, at most one base in four passes a round of Miller and   *)
(* Rabin: t rounds err with probability 4^-t at most.                       *)
StrongLiars == {a \in DrawnBases(q) : MillerRabinPasses(a, q)}
QuarterLiars == pc = "round" /\ ~IsPrime(q) => 4 * Cardinality(StrongLiars) <= q - 1

(* Every call returns. *)
Returns == <>(pc = "done")

(* "Random prime of `bits` bits" (cryptocalc.h). *)
ExactLength == pc = "done" /\ status = "ok" /\ call.kind = "bits" => q < 2 ^ call.n
=============================================================================
