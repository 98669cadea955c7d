------------------------------ MODULE Outputs ------------------------------
(***************************************************************************)
(* The two protocols by which a caller receives bytes, for the runs and    *)
(* for the proofs: the sizes of outputs, and the numbers drawn from random *)
(* generators.  The first state chooses which of them is at work.          *)
(***************************************************************************)
EXTENDS OutputBuffer

CONSTANTS ByteBits, XorByte(_, _), Handles, Seeds, Stream(_, _), Requests, MaxDraws, UintBits

ASSUME RandomAssumption ==
  /\ ByteBits \in Nat \ {0} /\ UintBits \in Nat
  /\ \A r \in Requests : r.kind \in {"bytes", "bits", "below"} /\ (r.kind = "bytes" => r.n \in Nat)

VARIABLES machine, live, held, drawPc, drawCall, asked, answer

Rng == INSTANCE RandomNumbers WITH pc <- drawPc, call <- drawCall, log <- asked

rngVars == <<live, held, drawPc, drawCall, asked, answer>>

OutputInit == /\ Init /\ Rng!Init
              /\ \/ machine = "output"
                 \/ machine = "random" /\ op = CHOOSE o \in Operations : TRUE

OutputNext == /\ \/ machine = "output" /\ Next /\ UNCHANGED rngVars
                 \/ machine = "random" /\ Rng!Next /\ UNCHANGED vars
              /\ UNCHANGED machine

OutputSpec == OutputInit /\ [][OutputNext]_<<vars, rngVars, machine>>

(* Generators of one seed that are asked the same answer the same, and      *)
(* between calls those that are held are allocated (cc_rng_new_seeded).     *)
Reproducible == Rng!Reproducible

(* A draw of bytes fills the buffer with all of its bits (rand_bytes).      *)
EveryByteDrawn == Rng!EveryByteDrawn

-----------------------------------------------------------------------------
(* The values of the runs.  Outputs of one and two parts, bytes that may be *)
(* empty and numbers of at least one byte, in units that stand for what a   *)
(* capacity can differ by.                                                  *)
Capacities == -1 .. 4
Asked == {<<a, b>> : a, b \in Capacities}

(* Hashes, ciphertexts, public numbers: the size follows from the input.    *)
FromInput ==
  {[sizes |-> {<<s>>}, capacities |-> {<<c>> : c \in Capacities \ {-1}}] : s \in 0 .. 3}
    \cup {[sizes |-> {<<s>>}, capacities |-> {<<-1>>}] : s \in 1 .. 3}
    \cup {[sizes |-> {<<s, t>>}, capacities |-> Asked] : s, t \in 1 .. 3}

(* Signatures and ciphertexts made with random numbers. Python begins with  *)
(* 2048 bytes or the length of the bound, which none of them exceeds.       *)
Random == {[sizes |-> {<<s, t>> : s, t \in 1 .. 3}, capacities |-> {<<3, 3>>, <<4, 4>>}],
           [sizes |-> {<<s>> : s \in 1 .. 3}, capacities |-> {<<3>>, <<4>>}]}

PythonCalls == FromInput \cup Random

(* A caller that asks for the size first. *)
SizeQueries == {[sizes |-> {<<s, t>> : s, t \in 1 .. 3}, capacities |-> {<<-1, -1>>}]}

(* Bytes of one bit, of which an unsigned int of two bits counts at most    *)
(* three, and generators whose numbers are all different.                   *)
SomeRequests == {[kind |-> "bytes", n |-> 3, room |-> 3], [kind |-> "bytes", n |-> 4, room |-> 4],
                 [kind |-> "bits", n |-> 4, room |-> 1],
                 [kind |-> "below", n |-> 0, room |-> 1], [kind |-> "below", n |-> 5, room |-> 2]}
SomeStream(s, n) == 7 * s + 4 * n + 2
Unused(a, b) == a
=============================================================================
