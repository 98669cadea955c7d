------------------------------ MODULE XofStream ------------------------------
(***************************************************************************)
(* What an extendable-output function promises: everything absorbed so far *)
(* determines one endless stream; squeezing reads on where the last piece  *)
(* ended, and absorbing more starts over with another stream.              *)
(*                                                                         *)
(* A byte of a block is the set of values xored together there.  Byte j of *)
(* the stream of an n-byte message is named by the blocks the permutation  *)
(* went through before it, and its place in the block.                     *)
(***************************************************************************)
EXTENDS Naturals, Sequences

CONSTANTS Rate, MaxLen, MaxOut, Pieces

VARIABLES absorbed, position, answer

(* The message, the suffix of the domain, and a final bit that ends a block. *)
PaddedCell(n, p) ==
  (IF p <= n THEN {<<"msg", p>>} ELSE {})
    \cup (IF p = n + 1 THEN {<<"suffix", 0>>} ELSE {})
    \cup (IF p = (n \div Rate + 1) * Rate THEN {<<"final", 0>>} ELSE {})

Blocks(n, number) == [b \in 1 .. number |-> [p \in 1 .. Rate |-> PaddedCell(n, (b - 1) * Rate + p)]]

StreamByte(n, j) == <<Blocks(n, (n \div Rate) + 1 + ((j - 1) \div Rate)), ((j - 1) % Rate) + 1>>

Init == absorbed = 0 /\ position = 0 /\ answer = <<>>

Update(k) == /\ absorbed + k <= MaxLen
             /\ absorbed' = absorbed + k
             /\ position' = 0
             /\ UNCHANGED answer

Squeeze(k) == /\ position + k <= MaxOut
              /\ answer' = [j \in 1 .. k |-> StreamByte(absorbed, position + j)]
              /\ position' = position + k
              /\ UNCHANGED absorbed

Next == \E k \in Pieces : Update(k) \/ Squeeze(k)

Spec == Init /\ [][Next]_<<absorbed, position, answer>>
=============================================================================
