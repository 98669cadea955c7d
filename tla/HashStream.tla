----------------------------- MODULE HashStream -----------------------------
(***************************************************************************)
(* What a Merkle-Damgard hash of this library promises: the message may be *)
(* handed over in pieces of any length, and the digest is that of one      *)
(* padded message.  The compression function is taken to be injective, so  *)
(* a digest is the sequence of cells that were compressed.                 *)
(***************************************************************************)
EXTENDS HashSizes

VARIABLES absorbed, digest

(* The fewest zeros that leave the length at the end of a block. *)
Zeros(n) == CHOOSE z \in 0 .. BlockLen - 1 : (n + 1 + z + FieldLen) % BlockLen = 0

Padded(n) ==
  LET size == n + 1 + Zeros(n) + FieldLen
  IN  [i \in 1 .. size |-> IF i <= n THEN Msg(i)
                           ELSE IF i = n + 1 THEN One
                           ELSE IF i = size THEN Bits(n) ELSE Zero]

Init == absorbed = 0 /\ digest = <<>>

Update(k) == /\ digest = <<>>
             /\ absorbed + k <= MaxTotal
             /\ absorbed' = absorbed + k
             /\ UNCHANGED digest

Finish == /\ digest = <<>>
          /\ digest' = Padded(absorbed)
          /\ UNCHANGED absorbed

Next == (\E k \in Lens : Update(k)) \/ Finish

Spec == Init /\ [][Next]_<<absorbed, digest>>
=============================================================================
