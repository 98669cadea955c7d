---------------------------- MODULE BytewiseHash ----------------------------
(***************************************************************************)
(* MD5 and SHA-1 (md5/md5.c, sha1/sha1.c): a 64-byte buffer filled one     *)
(* byte at a time, compressed whenever it is full, and padded in place.    *)
(* IndexMod is the modulus of the loop counter of update: 2^64 in          *)
(* sha1_update (size_t i), 2^32 in md5_update (uint32_t i).                *)
(***************************************************************************)
EXTENDS HashContext

CONSTANT IndexMod

VARIABLES i, n   \* counter and bound of the loop of update

vars == <<ctx, i, n>>

(* The compression function consumes a block.  What it has consumed is kept   *)
(* up to HashedCap cells, more than any padded message of MaxTotal bytes.     *)
HashedCap == MaxTotal + 2 * BlockLen
Compress(h, block) == IF Len(h) < HashedCap THEN h \o block ELSE h

Init == Fresh(BlockLen) /\ i = 0 /\ n = 0

Update(k) ==
  /\ pc = "ready"
  /\ taken + k <= MaxTotal
  /\ pc' = "loop" /\ i' = 0 /\ n' = k
  /\ UNCHANGED <<data, datalen, count, hashed, taken>>

Filled == [data EXCEPT ![datalen + 1] = Msg(taken + i + 1)]

(* What a turn of the loop does to the buffer. *)
Store ==
  /\ data' = Filled
  /\ IF datalen + 1 = BlockLen
     THEN /\ hashed' = Compress(hashed, Filled)
          /\ count' = (count + 8 * BlockLen) % LenMod
          /\ datalen' = 0
     ELSE /\ datalen' = datalen + 1
          /\ UNCHANGED <<hashed, count>>

(* Faulty: the counter is one bit narrower than the lengths it is compared to. *)
AbsorbNarrow ==
  /\ pc = "loop" /\ i < n
  /\ i' = (i + 1) % (IndexMod \div 2)
  /\ Store
  /\ UNCHANGED <<pc, n, taken>>

(* One turn of the loop of update. *)
Absorb ==
  /\ pc = "loop" /\ i < n
  /\ i' = (i + 1) % IndexMod
  /\ Store
  /\ UNCHANGED <<pc, n, taken>>

Return ==
  /\ pc = "loop" /\ i >= n
  /\ pc' = "ready"
  /\ taken' = taken + n
  /\ UNCHANGED <<data, datalen, count, hashed, i, n>>

(* Faulty: a buffer with room for the 0x80 alone is taken to have room for *)
(* the length too.                                                         *)
FitsOneMore == datalen <= BlockLen - FieldLen

(* Is there room for 0x80 and the length behind the message? *)
Fits == datalen < BlockLen - FieldLen

(* The buffer after 0x80 and the zeros; the field of the length still holds *)
(* old bytes when the length goes into this block.                          *)
Marked ==
  [j \in 1 .. BlockLen |-> IF j <= datalen \/ (Fits /\ j > BlockLen - FieldLen) THEN data[j]
                           ELSE IF j = datalen + 1 THEN One ELSE Zero]

(* The block that ends in the length; after a full block it starts afresh. *)
LastBlock ==
  [j \in 1 .. BlockLen |-> IF j = BlockLen THEN <<"len", (count + 8 * datalen) % LenMod>>
                           ELSE IF j > BlockLen - FieldLen \/ ~Fits THEN Zero
                           ELSE Marked[j]]

Final ==
  /\ pc = "ready"
  /\ pc' = "done"
  /\ data' = LastBlock
  /\ count' = (count + 8 * datalen) % LenMod
  /\ hashed' = Compress(IF Fits THEN hashed ELSE Compress(hashed, Marked), LastBlock)
  /\ UNCHANGED <<datalen, i, n, taken>>

Next == (\E k \in Lens : Update(k)) \/ Absorb \/ Return \/ Final

(* The loop of a running call makes progress. *)
Spec == Init /\ [][Next]_vars /\ WF_vars(Absorb \/ Return)

-----------------------------------------------------------------------------
(* An update call returns whatever the length of its data. *)
UpdateReturns == pc = "loop" ~> pc = "ready"
=============================================================================
