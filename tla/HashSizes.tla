------------------------------ MODULE HashSizes ------------------------------
(***************************************************************************)
(* The sizes of a Merkle-Damgard hash, and what it compresses.  A cell is  *)
(* a byte of the padded message: <<"msg", i>> is byte i of the message,    *)
(* One is 0x80, Zero is 0x00.  The eight bytes of the bit count are one    *)
(* cell, the last of the FieldLen cells reserved for it.  LenMod stands    *)
(* for 2^64; Lens and MaxTotal bound the calls and the message.            *)
(***************************************************************************)
EXTENDS Naturals, Sequences

CONSTANTS BlockLen, FieldLen, LenMod, Lens, MaxTotal

ASSUME SizesAssumption == /\ BlockLen \in Nat /\ FieldLen \in Nat \ {0}
                          /\ FieldLen < BlockLen
ASSUME LenAssumption == LenMod \in Nat \ {0} /\ Lens \subseteq Nat /\ MaxTotal \in Nat

Msg(i) == <<"msg", i>>
One    == <<"pad", 128>>
Zero   == <<"pad", 0>>
Bits(n) == <<"len", (8 * n) % LenMod>>

Junk == <<"junk", 0>>

Cell == ({"msg"} \X (1 .. MaxTotal)) \cup ({"len"} \X (0 .. LenMod - 1))
        \cup {One, Zero, Junk}
=============================================================================
