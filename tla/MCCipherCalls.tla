---------------------------- MODULE MCCipherCalls ----------------------------
(* Blocks of two bytes of two bits, so that a padding may be too long, too   *)
(* short or cut by its block; two chaining values, of which one makes the    *)
(* counter carry and one makes it wrap.  Two calls on all texts of up to two *)
(* bytes and some of three, one call on longer ones and on all pairs of      *)
(* blocks with a padding in doubt.  Tags of all texts of up to three bytes   *)
(* under keys shorter than, of and longer than a block of the hash.  The     *)
(* first state chooses which of the calls are made.                          *)
EXTENDS Macs, Bitwise

CONSTANTS p1, p2

VARIABLE machine

MCPlaces == {p1, p2}
MCXor(x, y) == x ^^ y

(* A permutation of the blocks that is not affine: the powers of three       *)
(* modulo 17, from the fifth on.                                             *)
Power == <<4, 14, 10, 15, 13, 7, 6, 3, 11, 1, 5, 0, 2, 8, 9, 12>>
Number(b) == 4 * b[1] + b[2]
BlockNumbered(n) == <<n \div 4, n % 4>>
MCEncipher(b) == BlockNumbered(Power[Number(b) + 1])
MCDecipher(b) == BlockNumbered((CHOOSE n \in 1 .. 16 : Power[n] = Number(b)) - 1)

MCIvs == {<<0, 3>>, <<3, 3>>}
MCContents == {<<>>} \cup {<<x>> : x \in 0 .. 3} \cup {<<x, y>> : x, y \in 0 .. 3}
                \cup {<<0, 1, x>> : x \in 0 .. 3} \cup {<<x, 2, y, z>> : x, y, z \in 0 .. 3}
                \cup {<<1, 2, 1, 2, x>> : x \in 0 .. 3}
MCCapacities == {1, 6}
MCBudget(s) == IF Len(s) < 4 THEN 2 ELSE 1

MCHash(s) ==
  LET V[i \in 0 .. Len(s)] == IF i = 0 THEN 3 ELSE (V[i - 1] * 6 + 3 * s[i] + i) % 61
  IN  BlockNumbered(V[Len(s)] % 16)
MCStrings(n) == UNION {[1 .. k -> Byte] : k \in 0 .. n}
MCMessages == MCStrings(2) \cup {<<1, 2, x>> : x \in Byte}
MCKeys == {<<>>, <<3>>, <<2, 1>>, <<2, 1, 3>>, <<2, 1, 3, 0>>, <<2, 1, 3, 3, 1>>}

CallsInit == /\ Init /\ MacInit
             /\ \/ machine = "cipher"
                \/ machine = "mac" /\ place[First] = <<>>

CallsNext == /\ \/ machine = "cipher" /\ Next /\ UNCHANGED <<macPc, task, result>>
                \/ machine = "mac" /\ MacNext /\ UNCHANGED callVars
             /\ UNCHANGED machine

CallsSpec == CallsInit /\ [][CallsNext]_<<vars, macVars, machine>>
=============================================================================
