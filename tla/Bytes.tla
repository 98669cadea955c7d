-------------------------------- MODULE Bytes --------------------------------
(***************************************************************************)
(* Numbers and the bytes that stand for them, most significant first, as   *)
(* misc/conversion.c and api/common.c turn one into the other.  A byte has *)
(* ByteBits bits.                                                          *)
(***************************************************************************)
EXTENDS BigNumbers, Sequences

CONSTANTS ByteBits, XorByte(_, _)

ByteMod == Pow(2, ByteBits)
Byte == 0 .. ByteMod - 1

(* Exclusive or is an involution and works on every bit by itself.          *)
ASSUME ByteAssumption ==
  /\ ByteBits \in Nat \ {0}
  /\ \A a, b \in Byte :
       /\ XorByte(a, b) \in Byte /\ XorByte(XorByte(a, b), b) = a
       /\ \A n \in 0 .. ByteBits : XorByte(a, b) % Pow(2, n) = XorByte(a % Pow(2, n), b % Pow(2, n))

Zeros(n) == [i \in 1 .. n |-> 0]

(* bytes_to_bigint, api_input_mpz *)
NumberOf(s) == Digits(ByteMod, s, Len(s))

(* bigint_to_bytes_fixed, for a number that fits. *)
Fits(len, x) == 0 <= x /\ x < Pow(ByteMod, len)
BytesOf(len, x) == [i \in 1 .. len |-> (x \div Pow(ByteMod, len - i)) % ByteMod]

(* count_bytes; one for zero. *)
CountBytes(x) == (BitLength(x) + ByteBits - 1) \div ByteBits

(* api_output_mpz: no leading zeros, and one byte for zero. *)
Minimal(x) == BytesOf(CountBytes(x), x)

XorBytes(s, t) == [i \in DOMAIN s |-> XorByte(s[i], t[i])]

(* mpz_invert *)
Invertible(v, n) == \E w \in 0 .. n - 1 : (v * w) % n = 1 % n
InverseOf(v, n) == CHOOSE w \in 0 .. n - 1 : (v * w) % n = 1 % n
=============================================================================
