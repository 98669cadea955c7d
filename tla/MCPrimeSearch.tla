---------------------------- MODULE MCPrimeSearch ----------------------------
(* Calls on small numbers: refused ones, the smallest that are allowed,     *)
(* enough beyond them for composites that both tests can take for primes,   *)
(* and one round on every odd number up to MaxRounded, which goes past the  *)
(* first Carmichael numbers, 561 and 1105, where Fermat is of no use.       *)
EXTENDS PrimeSearch

CONSTANTS MaxTested, MaxRounded, MaxBits, MaxBound

Tests == {"gmp", "fermat", "miller_rabin"}
Call(kind, ns, ks, ts, tests) ==
  [kind : {kind}, n : ns, k : ks, t : ts, test : tests]

MCCalls ==
  Call("test", 0 .. MaxTested, {0}, {2}, Tests)
    \cup Call("test", {x \in 5 .. MaxRounded : x % 2 = 1}, {0}, {1}, {"fermat", "miller_rabin"})
    \cup Call("bits", 1 .. MaxBits, {1, 3}, {1, 2}, Tests)
    \cup Call("below", 2 .. MaxBound, {1, 3}, {2}, Tests)
    \cup Call("below", {3}, {0, 1}, {0, 1}, {"fermat", "unknown"})

BitsCalls == Call("bits", {4}, {2}, {1}, {"miller_rabin"})
=============================================================================
