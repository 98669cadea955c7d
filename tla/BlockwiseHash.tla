---------------------------- MODULE BlockwiseHash ----------------------------
(***************************************************************************)
(* SHA-224, SHA-256, SHA-384 and SHA-512 (sha2/sha2.c): update compresses  *)
(* whole blocks straight from the caller's data and keeps the rest in a    *)
(* buffer of two blocks, which final pads.  FieldLen is 8 bytes in the     *)
(* first two and 16 in the others, of which the low 8 are written.         *)
(***************************************************************************)
EXTENDS HashContext

Init == Fresh(2 * BlockLen)

(* The compression function consumes whole blocks. *)
Compress(h, blocks) == h \o blocks

(* How the k bytes of a call are split: the first copy fills the block, the *)
(* whole blocks that follow are compressed in place, the tail is kept.      *)
Used(k)  == IF k < BlockLen - datalen THEN k ELSE BlockLen - datalen
Whole(k) == (k - Used(k)) \div BlockLen
Rest(k) == (k - Used(k)) % BlockLen

(* Byte j of the data of the call. *)
Byte(j) == Msg(taken + j)

Copied(k) ==
  [j \in 1 .. 2 * BlockLen |-> IF datalen < j /\ j <= datalen + Used(k) THEN Byte(j - datalen)
                               ELSE data[j]]

(* The data do not complete the block and wait in it. *)
Keep(k) ==
  /\ datalen + k < BlockLen
  /\ data' = Copied(k)
  /\ datalen' = datalen + k
  /\ UNCHANGED <<count, hashed>>

(* Faulty: the tail is read from the start of the data. *)
RefillFromStart(k) ==
  [j \in 1 .. 2 * BlockLen |-> IF j <= Rest(k) THEN Byte(Whole(k) * BlockLen + j)
                               ELSE Copied(k)[j]]

(* The tail of the data goes to the front of the buffer. *)
Refill(k) ==
  [j \in 1 .. 2 * BlockLen |-> IF j <= Rest(k) THEN Byte(Used(k) + Whole(k) * BlockLen + j)
                               ELSE Copied(k)[j]]

Counted(k) == (Whole(k) + 1) * BlockLen

Drain(k) ==
  /\ datalen + k >= BlockLen
  /\ hashed' = Compress(Compress(hashed, SubSeq(Copied(k), 1, BlockLen)),
                        [j \in 1 .. Whole(k) * BlockLen |-> Byte(Used(k) + j)])
  /\ data' = Refill(k)
  /\ datalen' = Rest(k)
  /\ count' = (count + Counted(k)) % LenMod

Update(k) ==
  /\ pc = "ready"
  /\ taken + k <= MaxTotal
  /\ Keep(k) \/ Drain(k)
  /\ taken' = taken + k
  /\ UNCHANGED pc

(* Blocks needed for what is kept, the 0x80 and the length. *)
LastBlocks == IF BlockLen - (FieldLen + 1) < datalen % BlockLen THEN 2 ELSE 1

(* Everything behind the data is cleared, then marked, then the length set. *)
Sealed ==
  LET size == LastBlocks * BlockLen
  IN  [j \in 1 .. 2 * BlockLen |-> IF j = size THEN <<"len", ((count + datalen) * 8) % LenMod>>
                                   ELSE IF j = datalen + 1 THEN One
                                   ELSE IF datalen < j /\ j <= size THEN Zero
                                   ELSE data[j]]

Final ==
  /\ pc = "ready"
  /\ pc' = "done"
  /\ data' = Sealed
  /\ hashed' = Compress(hashed, SubSeq(Sealed, 1, LastBlocks * BlockLen))
  /\ UNCHANGED <<datalen, count, taken>>

Next == (\E k \in Lens : Update(k)) \/ Final

Spec == Init /\ [][Next]_ctx

=============================================================================
