------------------------------- MODULE Sponge -------------------------------
(***************************************************************************)
(* SHA-3 and SHAKE (sha3/sha3.c): bytes are xored into the first Rate      *)
(* bytes of the state, the permutation is applied whenever they are full,  *)
(* a suffix and the final bit are xored in, and output is read from the    *)
(* same place.  One call of cc_shake runs from Start to Return; cc_hash    *)
(* takes the same steps with another suffix and at most Rate bytes out.    *)
(*                                                                         *)
(* The permutation is taken to be injective: the state is the list of      *)
(* blocks it was applied to and what was xored in since.  A byte of the    *)
(* block is the set of values xored into it; xoring a value twice takes it *)
(* out again.                                                              *)
(***************************************************************************)
EXTENDS Naturals, Sequences

CONSTANTS Rate   \* bytes of the state that take input, at least one

VARIABLES
  phase,   \* "idle", "absorb", "squeeze"
  fed,     \* the blocks the permutation was applied to
  xored,   \* what was xored into the block since then
  cnt,     \* ctx->cnt
  given,   \* bytes of the message absorbed so far, and how many there are
  msgLen,
  out,     \* the output read so far, and how much is asked for
  outLen

spongeVars == <<phase, fed, xored, cnt, given, msgLen, out, outLen>>

Cleared == [p \in 1 .. Rate |-> {}]

(* Xors v into place p of a block. *)
Xor(block, p, v) == [block EXCEPT ![p] = (@ \ {v}) \cup ({v} \ @)]

SpongeInit == /\ phase = "idle"
              /\ fed = <<>> /\ xored = Cleared /\ cnt = 0
              /\ given = 0 /\ msgLen = 0
              /\ out = <<>> /\ outLen = 0

(* sha3_init, then update is entered with m bytes; o bytes of output will   *)
(* be asked for.                                                            *)
Start(m, o) ==
  /\ phase = "idle"
  /\ phase' = "absorb"
  /\ fed' = <<>> /\ xored' = Cleared /\ cnt' = 0
  /\ given' = 0 /\ msgLen' = m
  /\ out' = <<>> /\ outLen' = o

(* sha3_keccakf on the block as it stands. *)
Permute(block) == fed' = Append(fed, block) /\ xored' = Cleared

(* Faulty: the block is permuted one byte late. *)
AbsorbLate ==
  LET block == Xor(xored, cnt + 1, <<"msg", given + 1>>)
  IN  /\ phase = "absorb" /\ given < msgLen
      /\ given' = given + 1
      /\ IF cnt + 2 > Rate
         THEN Permute(xored) /\ cnt' = 0
         ELSE xored' = block /\ cnt' = cnt + 1 /\ UNCHANGED fed
      /\ UNCHANGED <<phase, msgLen, out, outLen>>

(* One turn of the loop of sha3_update. *)
Absorb ==
  LET block == Xor(xored, cnt + 1, <<"msg", given + 1>>)
  IN  /\ phase = "absorb" /\ given < msgLen
      /\ given' = given + 1
      /\ IF cnt + 1 >= Rate
         THEN Permute(block) /\ cnt' = 0
         ELSE xored' = block /\ cnt' = cnt + 1 /\ UNCHANGED fed
      /\ UNCHANGED <<phase, msgLen, out, outLen>>

(* shake_xof; sha3_final does the same. *)
Pad ==
  /\ phase = "absorb" /\ given >= msgLen
  /\ Permute(Xor(Xor(xored, cnt + 1, <<"suffix", 0>>), Rate, <<"final", 0>>))
  /\ cnt' = 0
  /\ phase' = "squeeze"
  /\ UNCHANGED <<given, msgLen, out, outLen>>

(* One turn of the loop of shake_out. *)
Read ==
  /\ phase = "squeeze" /\ Len(out) < outLen
  /\ IF cnt >= Rate
     THEN /\ Permute(xored)
          /\ out' = Append(out, <<fed', 1>>)
          /\ cnt' = 1
     ELSE /\ out' = Append(out, <<fed, cnt + 1>>)
          /\ cnt' = cnt + 1
          /\ UNCHANGED <<fed, xored>>
  /\ UNCHANGED <<phase, given, msgLen, outLen>>

Finished == phase = "squeeze" /\ Len(out) >= outLen
=============================================================================
