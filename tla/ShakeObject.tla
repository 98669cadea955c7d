----------------------------- MODULE ShakeObject -----------------------------
(***************************************************************************)
(* The SHAKE class of the Python package (primitives.py) over cc_shake.    *)
(* The C call cannot be continued, so squeeze asks for the whole stream up *)
(* to the end of the piece and slices the piece off.                       *)
(***************************************************************************)
EXTENDS Sponge

CONSTANTS MaxLen, MaxOut, Pieces

VARIABLES
  absorbed,  \* length of self._absorbed
  squeezed,  \* self._squeezed
  result     \* what the last squeeze returned

objVars == <<absorbed, squeezed, result>>
vars == <<spongeVars, objVars>>

Init == /\ SpongeInit
        /\ absorbed = 0 /\ squeezed = 0 /\ result = <<>>

(* Faulty: the position in the stream survives new input. *)
UpdateInPlace(k) ==
  /\ phase = "idle"
  /\ absorbed + k <= MaxLen
  /\ absorbed' = absorbed + k
  /\ UNCHANGED <<squeezed, result, spongeVars>>

Update(k) ==
  /\ phase = "idle"
  /\ absorbed + k <= MaxLen
  /\ absorbed' = absorbed + k
  /\ squeezed' = 0
  /\ UNCHANGED <<result, spongeVars>>

(* squeeze(k) calls cc_shake for everything up to the end of the piece. *)
Squeeze(k) ==
  /\ squeezed + k <= MaxOut
  /\ Start(absorbed, squeezed + k)
  /\ UNCHANGED objVars

Return ==
  /\ Finished
  /\ phase' = "idle"
  /\ result' = SubSeq(out, squeezed + 1, outLen)
  /\ squeezed' = outLen
  /\ UNCHANGED <<fed, xored, cnt, given, msgLen, out, outLen, absorbed>>

Next == \/ \E k \in Pieces : Update(k) \/ Squeeze(k)
        \/ (Absorb \/ Pad \/ Read) /\ UNCHANGED objVars
        \/ Return

Spec == Init /\ [][Next]_vars

-----------------------------------------------------------------------------
Xof == INSTANCE XofStream WITH position <- squeezed, answer <- result

(* Pieces squeezed one after the other are consecutive pieces of the stream *)
(* of everything absorbed, whatever their lengths, and an update in between *)
(* starts the new stream at its first byte ("Absorbing more input restarts  *)
(* the output stream over everything absorbed so far").                     *)
ImplementsXof == Xof!Spec

(* The permutation sees the padded message cut into blocks of the rate and  *)
(* then nothing but empty blocks; in particular a message that ends one     *)
(* byte short of a block has its suffix and its final bit in one byte.      *)
FedIsPadded == /\ fed = Xof!Blocks(msgLen, Len(fed))
               /\ phase = "squeeze" => Len(fed) > msgLen \div Rate
=============================================================================
