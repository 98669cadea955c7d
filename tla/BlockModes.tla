----------------------------- MODULE BlockModes -----------------------------
(***************************************************************************)
(* The loops of aes/aes.c and des/des.c: one run of a mode over a buffer   *)
(* of whole blocks, one block at a time.  The cipher under the key in use  *)
(* is a permutation of the blocks.  A block is a sequence of BlockSize     *)
(* bytes, each below ByteMod.                                              *)
(*                                                                         *)
(* ECB and CBC work on the input in place; the input is a private copy in  *)
(* every caller.                                                           *)
(***************************************************************************)
EXTENDS Integers, Sequences

CONSTANTS BlockSize, ByteMod, Encipher(_), Decipher(_), XorByte(_, _), LittleEndian

Byte == 0 .. ByteMod - 1
Block == [1 .. BlockSize -> Byte]

ASSUME SizeAssumption == /\ BlockSize \in Nat \ {0}
                         /\ ByteMod \in Nat /\ ByteMod > BlockSize
                         /\ LittleEndian \in BOOLEAN

ASSUME CipherAssumption == \A b \in Block : /\ Encipher(b) \in Block /\ Decipher(b) \in Block
                                            /\ Decipher(Encipher(b)) = b
                                            /\ Encipher(Decipher(b)) = b

ASSUME XorAssumption == \A x, y \in Byte : XorByte(x, y) \in Byte /\ XorByte(XorByte(x, y), y) = x

VARIABLES
  mode,     \* "ecb", "cbc", "cfb", "ofb", "ctr", or "des"
  forward,  \* encrypting
  way,      \* the data come from a "buffer" or a "file"
  input, output,
  chain,    \* last_block, or counter_block
  at        \* blocks done

loopVars == <<mode, forward, way, input, output, chain, at>>

Count(s) == Len(s) \div BlockSize
BlockOf(s, n) == [j \in 1 .. BlockSize |-> s[n * BlockSize + j]]
Here == BlockOf(input, at)

XorBlock(a, b) == [j \in 1 .. BlockSize |-> XorByte(a[j], b[j])]

(* Writes block n of s. *)
Put(s, n, b) == [j \in DOMAIN s |-> IF n * BlockSize < j /\ j <= (n + 1) * BlockSize
                                    THEN b[j - n * BlockSize] ELSE s[j]]

(* One turn: what becomes of the block of the input, the block of the       *)
(* output, and the chain.                                                   *)
Turn(inp, out, next) == /\ at < Count(input)
                        /\ input' = Put(input, at, inp)
                        /\ output' = Put(output, at, out)
                        /\ chain' = next
                        /\ at' = at + 1
                        /\ UNCHANGED <<mode, forward, way>>

Ecb == /\ mode = "ecb"
       /\ LET b == IF forward THEN Encipher(Here) ELSE Decipher(Here)
          IN  Turn(b, b, chain)

EncryptCbc == /\ mode = "cbc" /\ forward
              /\ LET b == Encipher(XorBlock(Here, chain)) IN Turn(b, b, b)

(* Faulty: the block is chained after it was deciphered in place. *)
DecryptCbcInPlace == /\ mode = "cbc" /\ ~forward
                     /\ LET b == Decipher(Here) IN Turn(b, XorBlock(b, chain), b)

(* The block is kept before it is deciphered in place. *)
DecryptCbc == /\ mode = "cbc" /\ ~forward
              /\ LET b == Decipher(Here) IN Turn(b, XorBlock(b, chain), Here)

EncryptCfb == /\ mode = "cfb" /\ forward
              /\ LET b == XorBlock(Here, Encipher(chain)) IN Turn(Here, b, b)

DecryptCfb == /\ mode = "cfb" /\ ~forward
              /\ Turn(Here, XorBlock(Here, Encipher(chain)), Here)

Ofb == /\ mode = "ofb"
       /\ LET b == Encipher(chain) IN Turn(Here, XorBlock(Here, b), b)

(* Faulty: the carry stops at the last byte. *)
IncrementLast(b) == [b EXCEPT ![BlockSize] = (@ + 1) % ByteMod]

(* The bytes of the counter from the last one upwards, as long as they come *)
(* to zero.                                                                 *)
Increment(b) == [c \in 1 .. BlockSize |-> IF \A d \in c + 1 .. BlockSize : b[d] = ByteMod - 1
                                          THEN (b[c] + 1) % ByteMod ELSE b[c]]

Ctr == /\ mode = "ctr"
       /\ Turn(Here, XorBlock(Here, Encipher(chain)), Increment(chain))

(* A block of bytes as the word des works on, written with its high byte    *)
(* first: cc_des_* load big-endian words, des_file copies native ones.      *)
Loaded(b) == IF way = "file" /\ LittleEndian THEN [j \in 1 .. BlockSize |-> b[BlockSize + 1 - j]]
             ELSE b

Des == /\ mode = "des"
       /\ LET w == Loaded(Here)
          IN  Turn(Here, Loaded(IF forward THEN Encipher(w) ELSE Decipher(w)), chain)

OneBlock == Ecb \/ EncryptCbc \/ DecryptCbc \/ EncryptCfb \/ DecryptCfb \/ Ofb \/ Ctr \/ Des

-----------------------------------------------------------------------------
=============================================================================
