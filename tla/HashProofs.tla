----------------------------- MODULE HashProofs -----------------------------
(***************************************************************************)
(* The contexts of the hashes, for any sizes of block, any lengths of the  *)
(* calls and any length of message: between and inside the update calls,   *)
(* what was compressed and what is buffered are the message so far; with   *)
(* what final adds to it, the contexts of MD5, SHA-1 and SHA-2 implement   *)
(* the abstract hash.  At the end, SHAKE: the pieces squeezed are those of *)
(* one stream.                                                             *)
(***************************************************************************)
EXTENDS Hashes, NatLemmas, SequenceTheorems, TLAPS

(* A context of the first g bytes of the message, with a buffer of size     *)
(* cells.  The actions only add to what is known of the cells one by one.   *)
Holds(size, g) ==
  /\ data \in [1 .. size -> Cell] /\ datalen \in 0 .. BlockLen - 1
  /\ hashed \in Seq(Cell)
  /\ Len(hashed) + datalen = g
  /\ \A j \in 1 .. Len(hashed) : hashed[j] = Msg(j)
  /\ \A j \in 1 .. datalen : data[j] = Msg(Len(hashed) + j)

-----------------------------------------------------------------------------
LEMMA MsgCell == ASSUME NEW j \in 1 .. MaxTotal PROVE Msg(j) \in Cell
  BY DEF Msg, Cell

LEMMA FreshHolds == ASSUME NEW size \in Nat, Fresh(size) PROVE Holds(size, 0)
<1>1. data \in [1 .. size -> Cell]
  BY DEF Fresh, Cell
<1>2. datalen \in 0 .. BlockLen - 1
  BY SizesAssumption DEF Fresh
<1> QED
  BY <1>1, <1>2 DEF Fresh, Holds

(* A piece of the message behind the bytes before it. *)
LEMMA Joined ==
  ASSUME NEW s \in Seq(Cell), NEW t \in Seq(Cell),
         \A j \in 1 .. Len(s) : s[j] = Msg(j), \A j \in 1 .. Len(t) : t[j] = Msg(Len(s) + j)
  PROVE  /\ s \o t \in Seq(Cell) /\ Len(s \o t) = Len(s) + Len(t)
         /\ \A j \in 1 .. Len(s) + Len(t) : (s \o t)[j] = Msg(j)
<1> DEFINE whole == s \o t
<1>1. /\ whole \in Seq(Cell) /\ Len(whole) = Len(s) + Len(t)
      /\ \A j \in 1 .. Len(s) + Len(t) : whole[j] = IF j <= Len(s) THEN s[j] ELSE t[j - Len(s)]
  BY ConcatProperties
<1>2. Len(s) \in Nat /\ Len(t) \in Nat
  OBVIOUS
<1> HIDE DEF whole
<1>3. ASSUME NEW j \in 1 .. Len(s) + Len(t) PROVE whole[j] = Msg(j)
  <2>1. CASE j <= Len(s)
    BY <1>1, <1>2, <2>1
  <2>2. CASE ~ j <= Len(s)
    <3>1. j - Len(s) \in 1 .. Len(t) /\ Len(s) + (j - Len(s)) = j
      BY <1>2, <2>2
    <3> QED
      BY <1>1, <2>2, <3>1
  <2> QED
    BY <2>1, <2>2
<1> QED
  BY <1>1, <1>3 DEF whole

LEMMA HoldsTail == ASSUME NEW size \in Nat, size >= BlockLen, NEW g \in Nat, Holds(size, g)
  PROVE hashed \o SubSeq(data, 1, datalen) = [j \in 1 .. Len(hashed) + datalen |-> Msg(j)]
<1> USE DEF Holds
<1>1. /\ datalen \in Nat /\ datalen <= size
      /\ \A j \in 1 .. datalen : data[j] \in Cell
  BY SizesAssumption
<1> DEFINE tail == SubSeq(data, 1, datalen)
<1>2. /\ tail \in Seq(Cell) /\ Len(tail) = (IF 1 <= datalen THEN datalen - 1 + 1 ELSE 0)
      /\ \A j \in 1 .. datalen - 1 + 1 : tail[j] = data[1 + j - 1]
  BY <1>1, SubSeqProperties
<1> HIDE DEF tail
<1>3. Len(tail) = datalen /\ \A j \in 1 .. datalen : tail[j] = data[j]
  BY <1>1, <1>2
<1> DEFINE whole == hashed \o tail
<1>4. whole \in Seq(Cell) /\ Len(whole) = Len(hashed) + datalen
  BY <1>2, <1>3, Joined
<1>5. \A j \in 1 .. Len(hashed) + datalen : whole[j] = Msg(j)
  BY <1>2, <1>3, Joined
<1> HIDE DEF whole
<1>6. whole = [j \in 1 .. Len(hashed) + datalen |-> Msg(j)]
  BY <1>4, <1>5
<1> QED
  BY <1>6 DEF whole, tail

-----------------------------------------------------------------------------
(* Inside update, i bytes of the call were absorbed.  That its counter can  *)
(* reach the length of any call is assumed; it is what md5_update lacks     *)
(* from 4 GiB on.                                                           *)
CounterIsWide == IndexMod \in Nat /\ MaxTotal < IndexMod

IInv == pc # "done" =>
  /\ pc \in {"ready", "loop"} /\ taken \in Nat
  /\ pc = "ready" => taken <= MaxTotal /\ Holds(BlockLen, taken)
  /\ pc = "loop" => /\ i \in Nat /\ n \in Nat /\ i <= n /\ taken + n <= MaxTotal
                    /\ Holds(BlockLen, taken + i)

LEMMA InitIInv == Init => IInv
<1>1. Fresh(BlockLen) => Holds(BlockLen, 0)
  BY SizesAssumption, FreshHolds
<1> QED
  BY <1>1, LenAssumption DEF Init, IInv, Fresh

LEMMA StoreHolds ==
  ASSUME NEW g \in Nat, g = taken + i, g < MaxTotal, taken \in Nat, i \in Nat,
         Holds(BlockLen, g), Store
  PROVE  Holds(BlockLen, g + 1)'
<1> USE DEF Holds
<1>1. Msg(g + 1) \in Cell
  BY MsgCell, LenAssumption
<1>2. Filled = [data EXCEPT ![datalen + 1] = Msg(g + 1)]
  <2>1. taken + i + 1 = g + 1
    OBVIOUS
  <2> QED
    BY <2>1 DEF Filled
<1>3. datalen + 1 \in 1 .. BlockLen /\ Len(hashed) + (datalen + 1) = g + 1
  BY SizesAssumption
<1> HIDE DEF Filled
<1>4. Filled \in [1 .. BlockLen -> Cell]
  BY <1>1, <1>2
<1>5. ASSUME NEW j \in 1 .. datalen + 1 PROVE Filled[j] = Msg(Len(hashed) + j)
  <2>1. CASE j = datalen + 1
    BY <1>2, <1>3, <2>1
  <2>2. CASE j # datalen + 1
    BY <1>2, <1>3, <2>2
  <2> QED
    BY <2>1, <2>2
<1>6. data' = Filled
  BY DEF Store
<1>7. CASE datalen + 1 = BlockLen
  <2>1. Len(hashed) < HashedCap
    BY SizesAssumption, LenAssumption DEF HashedCap
  <2>2. hashed' = hashed \o Filled /\ datalen' = 0
    BY <1>7, <2>1 DEF Store, Compress
  <2>3. Filled \in Seq(Cell) /\ Len(Filled) = BlockLen
    BY <1>4, SizesAssumption
  <2>4. /\ hashed' \in Seq(Cell) /\ Len(hashed') = g + 1
        /\ \A j \in 1 .. g + 1 : hashed'[j] = Msg(j)
    <3>1. \A j \in 1 .. Len(Filled) : Filled[j] = Msg(Len(hashed) + j)
      BY <1>5, <1>7, <2>3
    <3>2. Len(hashed) + Len(Filled) = g + 1
      BY <1>3, <1>7, <2>3
    <3>3. /\ hashed \o Filled \in Seq(Cell) /\ Len(hashed \o Filled) = Len(hashed) + Len(Filled)
          /\ \A j \in 1 .. Len(hashed) + Len(Filled) : (hashed \o Filled)[j] = Msg(j)
      BY <2>3, <3>1, Joined
    <3> QED
      BY <2>2, <3>2, <3>3
  <2> QED
    BY <1>4, <1>6, <2>2, <2>4, SizesAssumption
<1>8. CASE datalen + 1 # BlockLen
  BY <1>3, <1>4, <1>5, <1>6, <1>8, SizesAssumption DEF Store
<1> QED
  BY <1>7, <1>8

LEMMA NextIInv == CounterIsWide /\ IInv /\ [Next]_vars => IInv'
<1> SUFFICES ASSUME CounterIsWide, IInv, [Next]_vars, pc' # "done" PROVE IInv'
  BY DEF IInv
<1>1. CASE \E k \in Lens : Update(k)
  <2>1. PICK k \in Lens : Update(k)
    BY <1>1
  <2>2. k \in Nat
    BY LenAssumption
  <2> QED
    BY <2>1, <2>2 DEF Update, IInv, Holds
<1>2. CASE Absorb
  <2>1. /\ i \in Nat /\ n \in Nat /\ i < n /\ taken \in Nat /\ taken + n <= MaxTotal
        /\ Holds(BlockLen, taken + i)
    BY <1>2 DEF Absorb, IInv
  <2>2. (i + 1) % IndexMod = i + 1
    BY <2>1, LenAssumption DEF CounterIsWide
  <2>3. i' = i + 1 /\ taken' = taken /\ n' = n /\ pc' = "loop"
    BY <1>2, <2>2 DEF Absorb
  <2>4. Holds(BlockLen, taken + i)'
    <3>1. Store /\ taken + i \in Nat /\ taken + i < MaxTotal
      BY <1>2, <2>1, LenAssumption DEF Absorb
    <3> DEFINE g == taken + i
    <3> HIDE DEF g
    <3>2. g = taken + i /\ g \in Nat /\ g < MaxTotal
      BY <3>1 DEF g
    <3>3. /\ data' \in [1 .. BlockLen -> Cell] /\ datalen' \in 0 .. BlockLen - 1
          /\ hashed' \in Seq(Cell)
          /\ Len(hashed') + datalen' = g + 1
          /\ \A j \in 1 .. Len(hashed') : hashed'[j] = Msg(j)
          /\ \A j \in 1 .. datalen' : data'[j] = Msg(Len(hashed') + j)
      BY <2>1, <3>1, <3>2, StoreHolds DEF Holds
    <3>4. taken' + i' = g + 1
      BY <2>1, <2>3, <3>2
    <3> QED
      BY <3>3, <3>4 DEF Holds
  <2>5. i' \in Nat /\ i' <= n'
    BY <2>1, <2>3
  <2> QED
    BY <2>1, <2>3, <2>4, <2>5 DEF IInv
<1>3. CASE Return
  BY <1>3 DEF Return, IInv, Holds
<1>4. CASE Final
  BY <1>4 DEF Final
<1>5. CASE UNCHANGED vars
  BY <1>5 DEF vars, ctx, IInv, Holds
<1> QED
  BY <1>1, <1>2, <1>3, <1>4, <1>5 DEF Next

(* Between the turns of the loop of md5_update and sha1_update the bytes    *)
(* compressed and the bytes buffered are the message so far, as long as the *)
(* counter of the loop can hold the length of a call.                       *)
THEOREM NothingLostBytewise == ASSUME CounterIsWide PROVE Spec => []BufferIsTail
<1>1. IInv => BufferIsTail
  <2>1. ASSUME NEW g \in Nat, Holds(BlockLen, g) PROVE BufferIsTail
    <3>1. BlockLen \in Nat /\ BlockLen >= BlockLen
      BY SizesAssumption
    <3>2. hashed \o SubSeq(data, 1, datalen) = [j \in 1 .. Len(hashed) + datalen |-> Msg(j)]
      BY <2>1, <3>1, HoldsTail
    <3> QED
      BY <3>2 DEF BufferIsTail
  <2> SUFFICES ASSUME IInv, pc # "done" PROVE \E g \in Nat : Holds(BlockLen, g)
    BY <2>1 DEF BufferIsTail
  <2>2. CASE pc = "ready"
    BY <2>2 DEF IInv
  <2>3. CASE pc = "loop"
    <3>1. taken + i \in Nat /\ Holds(BlockLen, taken + i)
      BY <2>3 DEF IInv
    <3> QED
      BY <3>1
  <2> QED
    BY <2>2, <2>3 DEF IInv
<1> QED
  BY <1>1, InitIInv, NextIInv, PTL DEF Spec

-----------------------------------------------------------------------------
(* The same of sha2.c, whose update takes a call in one step. *)
SInv == pc # "done" => /\ pc = "ready" /\ taken \in 0 .. MaxTotal
                       /\ Holds(2 * BlockLen, taken)

LEMMA SameMsg == \A j : Sha2!Msg(j) = Msg(j)
  BY DEF Sha2!Msg, Msg

(* The three parts of the data of a call make up the data. *)
LEMMA Split ==
  ASSUME NEW k \in Nat, datalen \in 0 .. BlockLen - 1
  PROVE  /\ Sha2!Used(k) \in 0 .. k /\ datalen + Sha2!Used(k) <= BlockLen
         /\ Sha2!Whole(k) \in Nat /\ Sha2!Rest(k) \in 0 .. BlockLen - 1
         /\ Sha2!Whole(k) * BlockLen \in Nat
         /\ k = Sha2!Used(k) + Sha2!Whole(k) * BlockLen + Sha2!Rest(k)
         /\ datalen + k >= BlockLen => Sha2!Used(k) = BlockLen - datalen
         /\ datalen + k < BlockLen => Sha2!Used(k) = k
<1>1. /\ Sha2!Used(k) \in 0 .. k /\ datalen + Sha2!Used(k) <= BlockLen
      /\ datalen + k >= BlockLen => Sha2!Used(k) = BlockLen - datalen
      /\ datalen + k < BlockLen => Sha2!Used(k) = k
  BY SizesAssumption DEF Sha2!Used
<1> DEFINE a == k - Sha2!Used(k)
<1>2. a \in Nat /\ k = Sha2!Used(k) + a
  BY <1>1
<1>3. Sha2!Whole(k) = a \div BlockLen /\ Sha2!Rest(k) = a % BlockLen
  BY DEF Sha2!Whole, Sha2!Rest
<1> HIDE DEF a
<1>4. /\ a \div BlockLen \in Nat /\ a % BlockLen \in 0 .. BlockLen - 1
      /\ a = (a \div BlockLen) * BlockLen + (a % BlockLen)
  BY <1>2, SizesAssumption, Division
<1> DEFINE w == a \div BlockLen
           r == a % BlockLen
<1> HIDE DEF w, r
<1>5. /\ w \in Nat /\ r \in 0 .. BlockLen - 1 /\ a = w * BlockLen + r
      /\ Sha2!Whole(k) = w /\ Sha2!Rest(k) = r
  BY <1>3, <1>4 DEF w, r
<1>6. w * BlockLen \in Nat
  BY <1>5, SizesAssumption
<1> QED
  BY <1>1, <1>2, <1>5, <1>6

LEMMA CopiedHolds ==
  ASSUME NEW k \in Nat, taken \in Nat, taken + k <= MaxTotal, Holds(2 * BlockLen, taken)
  PROVE  /\ Sha2!Copied(k) \in [1 .. 2 * BlockLen -> Cell]
         /\ \A j \in 1 .. datalen + Sha2!Used(k) : Sha2!Copied(k)[j] = Msg(Len(hashed) + j)
<1> DEFINE u == Sha2!Used(k)
           c == Sha2!Copied(k)
<1>1. /\ u \in 0 .. k /\ datalen + u <= BlockLen /\ datalen \in Nat
      /\ data \in [1 .. 2 * BlockLen -> Cell]
      /\ taken = Len(hashed) + datalen /\ Len(hashed) \in Nat
      /\ \A j \in 1 .. datalen : data[j] = Msg(Len(hashed) + j)
  <2>1. /\ datalen \in 0 .. BlockLen - 1 /\ data \in [1 .. 2 * BlockLen -> Cell]
        /\ taken = Len(hashed) + datalen /\ Len(hashed) \in Nat
        /\ \A j \in 1 .. datalen : data[j] = Msg(Len(hashed) + j)
    BY DEF Holds
  <2>2. u \in 0 .. k /\ datalen + u <= BlockLen
    BY <2>1, Split
  <2> QED
    BY <2>1, <2>2
<1>2. c = [j \in 1 .. 2 * BlockLen |->
             IF datalen < j /\ j <= datalen + u THEN Msg(taken + (j - datalen)) ELSE data[j]]
  BY SameMsg DEF Sha2!Copied, Sha2!Byte
<1> HIDE DEF u, c
<1>3. ASSUME NEW j \in 1 .. 2 * BlockLen, datalen < j, j <= datalen + u
      PROVE  c[j] = Msg(Len(hashed) + j) /\ c[j] \in Cell
  <2>1. taken + (j - datalen) = Len(hashed) + j /\ taken + (j - datalen) \in 1 .. MaxTotal
    BY <1>1, <1>3, SizesAssumption, LenAssumption
  <2>2. c[j] = Msg(taken + (j - datalen))
    BY <1>2, <1>3
  <2> QED
    BY <2>1, <2>2, MsgCell
<1>4. ASSUME NEW j \in 1 .. 2 * BlockLen, ~(datalen < j /\ j <= datalen + u)
      PROVE  c[j] = data[j] /\ c[j] \in Cell
  BY <1>1, <1>2, <1>4
<1>5. c \in [1 .. 2 * BlockLen -> Cell]
  BY <1>2, <1>3, <1>4
<1>6. ASSUME NEW j \in 1 .. datalen + u PROVE c[j] = Msg(Len(hashed) + j)
  <2>1. j \in 1 .. 2 * BlockLen
    BY <1>1, SizesAssumption
  <2> QED
    BY <1>1, <1>3, <1>4, <2>1
<1> QED
  BY <1>5, <1>6 DEF u, c

LEMMA DrainHashes ==
  ASSUME NEW k \in Nat, taken \in Nat, taken + k <= MaxTotal, Holds(2 * BlockLen, taken),
         Sha2!Drain(k)
  PROVE  /\ hashed' \in Seq(Cell)
         /\ Len(hashed') = taken + Sha2!Used(k) + Sha2!Whole(k) * BlockLen
         /\ \A j \in 1 .. Len(hashed') : hashed'[j] = Msg(j)
<1> DEFINE u == Sha2!Used(k)
           m == Sha2!Whole(k) * BlockLen
           c == Sha2!Copied(k)
           first == SubSeq(c, 1, BlockLen)
           blocks == [j \in 1 .. m |-> Msg(taken + (u + j))]
<1>1. datalen \in 0 .. BlockLen - 1 /\ BlockLen \in Nat /\ datalen + k >= BlockLen
  BY SizesAssumption DEF Holds, Sha2!Drain
<1>2. u = BlockLen - datalen /\ u \in 0 .. k /\ m \in Nat /\ u + m <= k
  BY <1>1, Split
<1>3. /\ c \in [1 .. 2 * BlockLen -> Cell]
      /\ \A j \in 1 .. datalen + u : c[j] = Msg(Len(hashed) + j)
  BY CopiedHolds
<1>4. hashed' = (hashed \o first) \o blocks
  BY SameMsg DEF Sha2!Drain, Sha2!Compress, Sha2!Byte
<1> HIDE DEF u, m, c, first, blocks
<1>5. /\ hashed \in Seq(Cell) /\ Len(hashed) + datalen = taken
      /\ \A j \in 1 .. Len(hashed) : hashed[j] = Msg(j)
  BY DEF Holds
<1>6. \A j \in 1 .. BlockLen : c[j] \in Cell /\ c[j] = Msg(Len(hashed) + j)
  BY <1>1, <1>2, <1>3
<1>7. /\ first \in Seq(Cell) /\ Len(first) = BlockLen
      /\ \A j \in 1 .. BlockLen : first[j] = c[j]
  <2>1. /\ first \in Seq(Cell)
        /\ Len(first) = (IF 1 <= BlockLen THEN BlockLen - 1 + 1 ELSE 0)
        /\ \A j \in 1 .. BlockLen - 1 + 1 : first[j] = c[1 + j - 1]
    BY <1>1, <1>6, SubSeqProperties DEF first
  <2> QED
    BY <1>1, <2>1
<1>8. /\ hashed \o first \in Seq(Cell) /\ Len(hashed \o first) = Len(hashed) + BlockLen
      /\ \A j \in 1 .. Len(hashed) + BlockLen : (hashed \o first)[j] = Msg(j)
  <2>1. \A j \in 1 .. Len(first) : first[j] = Msg(Len(hashed) + j)
    BY <1>6, <1>7
  <2> QED
    BY <1>5, <1>7, <2>1, Joined
<1>9. Len(hashed) + BlockLen = taken + u
  BY <1>1, <1>2, <1>5
<1>10. /\ blocks \in Seq(Cell) /\ Len(blocks) = m
       /\ \A j \in 1 .. m : blocks[j] = Msg(taken + u + j)
  <2>1. ASSUME NEW j \in 1 .. m
        PROVE  taken + (u + j) \in 1 .. MaxTotal /\ taken + (u + j) = taken + u + j
    BY <1>2, LenAssumption
  <2>2. \A j \in 1 .. m : Msg(taken + (u + j)) \in Cell
    BY <2>1, MsgCell
  <2>3. blocks \in [1 .. m -> Cell]
    BY <2>2 DEF blocks
  <2>4. blocks \in Seq(Cell) /\ Len(blocks) = m
    BY <1>2, <2>3
  <2>5. \A j \in 1 .. m : blocks[j] = Msg(taken + (u + j))
    BY DEF blocks
  <2> QED
    BY <2>1, <2>4, <2>5
<1> DEFINE before == hashed \o first
<1> HIDE DEF before
<1>11. /\ before \in Seq(Cell) /\ Len(before) = taken + u
       /\ \A j \in 1 .. Len(before) : before[j] = Msg(j)
       /\ hashed' = before \o blocks
  BY <1>4, <1>8, <1>9 DEF before
<1>12. \A j \in 1 .. Len(blocks) : blocks[j] = Msg(Len(before) + j)
  BY <1>10, <1>11
<1>13. /\ hashed' \in Seq(Cell) /\ Len(hashed') = taken + u + m
       /\ \A j \in 1 .. taken + u + m : hashed'[j] = Msg(j)
  <2>1. /\ before \o blocks \in Seq(Cell)
        /\ Len(before \o blocks) = Len(before) + Len(blocks)
        /\ \A j \in 1 .. Len(before) + Len(blocks) : (before \o blocks)[j] = Msg(j)
    BY <1>10, <1>11, <1>12, Joined
  <2>2. Len(before) + Len(blocks) = taken + u + m
    BY <1>10, <1>11
  <2> QED
    BY <1>11, <2>1, <2>2
<1> QED
  BY <1>13 DEF u, m

LEMMA RefillHolds ==
  ASSUME NEW k \in Nat, taken \in Nat, taken + k <= MaxTotal, Holds(2 * BlockLen, taken)
  PROVE  /\ Sha2!Refill(k) \in [1 .. 2 * BlockLen -> Cell]
         /\ \A j \in 1 .. Sha2!Rest(k) :
              Sha2!Refill(k)[j] = Msg(taken + Sha2!Used(k) + Sha2!Whole(k) * BlockLen + j)
<1> DEFINE u == Sha2!Used(k)
           m == Sha2!Whole(k) * BlockLen
           r == Sha2!Rest(k)
           c == Sha2!Copied(k)
           f == Sha2!Refill(k)
<1>1. /\ u \in Nat /\ m \in Nat /\ r \in 0 .. BlockLen - 1 /\ k = u + m + r
      /\ c \in [1 .. 2 * BlockLen -> Cell]
  <2>1. datalen \in 0 .. BlockLen - 1
    BY DEF Holds
  <2>2. u \in Nat /\ m \in Nat /\ r \in 0 .. BlockLen - 1 /\ k = u + m + r
    <3>1. u \in 0 .. k /\ m \in Nat /\ r \in 0 .. BlockLen - 1 /\ k = u + m + r
      BY <2>1, Split
    <3> HIDE DEF u, m, r
    <3> QED
      BY <3>1
  <2>3. c \in [1 .. 2 * BlockLen -> Cell]
    BY CopiedHolds
  <2> QED
    BY <2>2, <2>3
<1>2. f = [j \in 1 .. 2 * BlockLen |-> IF j <= r THEN Msg(taken + (u + m + j)) ELSE c[j]]
  BY SameMsg DEF Sha2!Refill, Sha2!Byte
<1> HIDE DEF u, m, r, c, f
<1>3. ASSUME NEW j \in 1 .. 2 * BlockLen, j <= r
      PROVE  f[j] = Msg(taken + u + m + j) /\ f[j] \in Cell
  <2>1. taken + (u + m + j) = taken + u + m + j /\ taken + (u + m + j) \in 1 .. MaxTotal
    BY <1>1, <1>3, SizesAssumption, LenAssumption
  <2>2. f[j] = Msg(taken + (u + m + j))
    BY <1>2, <1>3
  <2> QED
    BY <2>1, <2>2, MsgCell
<1>4. f \in [1 .. 2 * BlockLen -> Cell]
  <2>1. \A j \in 1 .. 2 * BlockLen : f[j] \in Cell
    BY <1>1, <1>2, <1>3
  <2> QED
    BY <1>2, <2>1
<1>5. ASSUME NEW j \in 1 .. r PROVE f[j] = Msg(taken + u + m + j)
  <2>1. j \in 1 .. 2 * BlockLen /\ j <= r
    BY <1>1, SizesAssumption
  <2> QED
    BY <1>3, <2>1
<1> QED
  BY <1>4, <1>5 DEF u, m, r, f

LEMMA KeepHolds ==
  ASSUME NEW k \in Nat, taken \in Nat, taken + k <= MaxTotal, Holds(2 * BlockLen, taken),
         Sha2!Keep(k)
  PROVE  /\ data' \in [1 .. 2 * BlockLen -> Cell] /\ datalen' \in 0 .. BlockLen - 1
         /\ hashed' \in Seq(Cell)
         /\ Len(hashed') + datalen' = taken + k
         /\ \A j \in 1 .. Len(hashed') : hashed'[j] = Msg(j)
         /\ \A j \in 1 .. datalen' : data'[j] = Msg(Len(hashed') + j)
<1>1. datalen \in 0 .. BlockLen - 1 /\ datalen + k < BlockLen /\ Sha2!Used(k) = k
  BY Split DEF Holds, Sha2!Keep
<1>2. data' = Sha2!Copied(k) /\ datalen' = datalen + k /\ hashed' = hashed
  BY DEF Sha2!Keep
<1>3. /\ data' \in [1 .. 2 * BlockLen -> Cell]
      /\ \A j \in 1 .. datalen' : data'[j] = Msg(Len(hashed') + j)
  BY <1>1, <1>2, CopiedHolds
<1> QED
  <2>1. /\ hashed \in Seq(Cell) /\ Len(hashed) + datalen = taken
        /\ \A j \in 1 .. Len(hashed) : hashed[j] = Msg(j)
    BY DEF Holds
  <2>2. datalen' \in 0 .. BlockLen - 1 /\ Len(hashed') + datalen' = taken + k
    BY <1>1, <1>2, <2>1, SizesAssumption
  <2> QED
    BY <1>2, <1>3, <2>1, <2>2

LEMMA DrainHolds ==
  ASSUME NEW k \in Nat, taken \in Nat, taken + k <= MaxTotal, Holds(2 * BlockLen, taken),
         Sha2!Drain(k)
  PROVE  /\ data' \in [1 .. 2 * BlockLen -> Cell] /\ datalen' \in 0 .. BlockLen - 1
         /\ hashed' \in Seq(Cell)
         /\ Len(hashed') + datalen' = taken + k
         /\ \A j \in 1 .. Len(hashed') : hashed'[j] = Msg(j)
         /\ \A j \in 1 .. datalen' : data'[j] = Msg(Len(hashed') + j)
<1>1. data' = Sha2!Refill(k) /\ datalen' = Sha2!Rest(k)
  BY DEF Sha2!Drain
<1>2. /\ Sha2!Used(k) \in Nat /\ Sha2!Whole(k) * BlockLen \in Nat
      /\ Sha2!Rest(k) \in 0 .. BlockLen - 1
      /\ k = Sha2!Used(k) + Sha2!Whole(k) * BlockLen + Sha2!Rest(k)
  BY Split DEF Holds
<1>3. /\ hashed' \in Seq(Cell)
      /\ Len(hashed') = taken + Sha2!Used(k) + Sha2!Whole(k) * BlockLen
      /\ \A j \in 1 .. Len(hashed') : hashed'[j] = Msg(j)
  BY DrainHashes
<1>4. /\ Sha2!Refill(k) \in [1 .. 2 * BlockLen -> Cell]
      /\ \A j \in 1 .. Sha2!Rest(k) :
           Sha2!Refill(k)[j] = Msg(taken + Sha2!Used(k) + Sha2!Whole(k) * BlockLen + j)
  BY RefillHolds
<1>5. Len(hashed') + datalen' = taken + k
  BY <1>1, <1>2, <1>3
<1>6. \A j \in 1 .. datalen' : data'[j] = Msg(Len(hashed') + j)
  BY <1>1, <1>3, <1>4
<1> QED
  BY <1>1, <1>2, <1>3, <1>4, <1>5, <1>6

LEMMA NextSInv == SInv /\ [Sha2!Next]_ctx => SInv'
<1> SUFFICES ASSUME SInv, [Sha2!Next]_ctx, pc' # "done" PROVE SInv'
  BY DEF SInv
<1>1. CASE \E k \in Lens : Sha2!Update(k)
  <2>1. PICK k \in Lens : Sha2!Update(k)
    BY <1>1
  <2>2. /\ k \in Nat /\ taken \in Nat /\ taken + k <= MaxTotal /\ Holds(2 * BlockLen, taken)
        /\ pc' = "ready" /\ taken' = taken + k
        /\ Sha2!Keep(k) \/ Sha2!Drain(k)
    BY <2>1, LenAssumption DEF Sha2!Update, SInv
  <2>3. /\ data' \in [1 .. 2 * BlockLen -> Cell] /\ datalen' \in 0 .. BlockLen - 1
        /\ hashed' \in Seq(Cell)
        /\ Len(hashed') + datalen' = taken + k
        /\ \A j \in 1 .. Len(hashed') : hashed'[j] = Msg(j)
        /\ \A j \in 1 .. datalen' : data'[j] = Msg(Len(hashed') + j)
    BY <2>2, KeepHolds, DrainHolds
  <2>4. taken' \in Nat /\ taken' = taken + k
    BY <2>2
  <2> QED
    BY <2>2, <2>3, <2>4 DEF SInv, Holds
<1>2. CASE Sha2!Final
  BY <1>2 DEF Sha2!Final
<1>3. CASE UNCHANGED ctx
  BY <1>3 DEF ctx, SInv, Holds
<1> QED
  BY <1>1, <1>2, <1>3 DEF Sha2!Next

(* After every sha224_update, sha256_update, sha384_update and              *)
(* sha512_update the bytes compressed and the bytes kept in the two-block   *)
(* buffer are the message so far, however the calls were cut.               *)
THEOREM NothingLostBlockwise == Sha2!Spec => []BufferIsTail
<1>1. Sha2!Init => SInv
  <2>1. Fresh(2 * BlockLen) => Holds(2 * BlockLen, 0)
    BY SizesAssumption, FreshHolds
  <2>2. Sha2!Init => Fresh(2 * BlockLen)
    BY DEF Sha2!Init, Sha2!Fresh, Fresh, Sha2!Junk, Junk
  <2> QED
    BY <2>1, <2>2, LenAssumption DEF SInv, Fresh
<1>2. SInv => BufferIsTail
  <2> SUFFICES ASSUME SInv, pc # "done"
               PROVE  hashed \o SubSeq(data, 1, datalen) = [j \in 1 .. Len(hashed) + datalen |-> Msg(j)]
    BY DEF BufferIsTail
  <2>1. taken \in Nat /\ Holds(2 * BlockLen, taken)
    BY DEF SInv
  <2>2. 2 * BlockLen \in Nat /\ 2 * BlockLen >= BlockLen
    BY SizesAssumption
  <2> QED
    BY <2>1, <2>2, HoldsTail
<1>3. Sha2!Spec => Sha2!Init /\ [][Sha2!Next]_ctx
  BY DEF Sha2!Spec, Sha2!ctx, ctx
<1> QED
  BY <1>1, <1>2, <1>3, NextSInv, PTL

-----------------------------------------------------------------------------
(* What final adds.  Whole blocks, counts kept modulo a number, and the     *)
(* length of a padded message.                                              *)
LEMMA RemainderIs ==
  ASSUME NEW b \in Nat, b > 0, NEW x \in Nat, NEW q \in Nat, NEW r \in Nat, r < b, x = q * b + r
  PROVE  x % b = r
  OBVIOUS

LEMMA Apart == ASSUME NEW s \in Nat, NEW t \in Nat, NEW b \in Nat, t < s
  PROVE t * b + b <= s * b
<1> DEFINE u == s - (t + 1)
<1>1. u \in Nat /\ s = (t + 1) + u
  OBVIOUS
<1> HIDE DEF u
<1>2. s * b = (t + 1) * b + u * b /\ (t + 1) * b = t * b + 1 * b /\ u * b \in Nat
  BY <1>1, Sums
<1> QED
  BY <1>2, Sums

(* A count kept modulo b may be added to, and multiplied, afterwards. *)
LEMMA CountOn == ASSUME NEW b \in Nat, b > 0, NEW x \in Nat, NEW y \in Nat
  PROVE ((x % b) + y) % b = (x + y) % b
<1> DEFINE a == x \div b
           r == x % b
           c == (r + y) \div b
           s == (r + y) % b
<1>1. a \in Nat /\ r \in Nat /\ x = a * b + r
  BY Division
<1>2. c \in Nat /\ s \in 0 .. b - 1 /\ r + y = c * b + s
  BY <1>1, Division
<1> HIDE DEF a, r, c, s
<1>3. x + y = (a + c) * b + s
  BY <1>1, <1>2, Sums
<1>4. (x + y) % b = s
  <2>1. a + c \in Nat /\ s \in Nat /\ s < b
    BY <1>1, <1>2
  <2> DEFINE whole == x + y
             q == a + c
  <2>2. whole \in Nat /\ whole = q * b + s /\ q \in Nat
    BY <1>3, <2>1
  <2> HIDE DEF whole, q
  <2>3. whole % b = s
    BY <2>1, <2>2, RemainderIs
  <2> QED
    BY <2>3 DEF whole
<1> QED
  BY <1>4 DEF s, r

LEMMA CountEight == ASSUME NEW b \in Nat, b > 0, NEW x \in Nat, NEW y \in Nat
  PROVE (((x % b) + y) * 8) % b = (8 * (x + y)) % b
<1> DEFINE a == x \div b
           r == x % b
           c == ((r + y) * 8) \div b
           s == ((r + y) * 8) % b
<1>1. a \in Nat /\ r \in Nat /\ x = a * b + r
  BY Division
<1>2. c \in Nat /\ s \in 0 .. b - 1 /\ (r + y) * 8 = c * b + s
  BY <1>1, Division
<1> HIDE DEF a, r, c, s
<1> DEFINE e == 8 * a
<1>3. e \in Nat /\ e * b = 8 * (a * b)
  BY <1>1
<1> HIDE DEF e
<1>4. 8 * (x + y) = (e + c) * b + s
  <2>1. 8 * (x + y) = 8 * (a * b) + (r + y) * 8
    <3>1. a * b \in Nat
      BY <1>1
    <3> QED
      BY <1>1, <3>1
  <2>2. (e + c) * b = e * b + c * b
    BY <1>2, <1>3, Sums
  <2>3. c * b \in Nat /\ e * b \in Nat
    BY <1>2, <1>3, Sums
  <2> QED
    BY <1>2, <1>3, <2>1, <2>2, <2>3
<1>5. (8 * (x + y)) % b = s
  <2>1. e + c \in Nat /\ s \in Nat /\ s < b
    BY <1>2, <1>3
  <2> DEFINE whole == 8 * (x + y)
             q == e + c
  <2>2. whole \in Nat /\ whole = q * b + s /\ q \in Nat
    BY <1>4, <2>1
  <2> HIDE DEF whole, q
  <2>3. whole % b = s
    BY <2>1, <2>2, RemainderIs
  <2> QED
    BY <2>3 DEF whole
<1> QED
  BY <1>5 DEF s, r

-----------------------------------------------------------------------------
(* A message whose tail leaves room for 0x80 and the length ends in its own *)
(* block, any other in the next one.                                        *)
Ends(d) == IF d < BlockLen - FieldLen THEN BlockLen ELSE 2 * BlockLen

LEMMA PaddedLength ==
  ASSUME NEW g \in Nat, NEW q \in Nat, NEW d \in 0 .. BlockLen - 1, g = q * BlockLen + d
  PROVE  /\ Stream!Zeros(g) \in Nat
         /\ g + 1 + Stream!Zeros(g) + FieldLen = q * BlockLen + Ends(d)
<1> DEFINE b == BlockLen
           z == Ends(d) - FieldLen - 1 - d
           Full(y) == (g + 1 + y + FieldLen) % b = 0
<1>1. b \in Nat /\ b > 0 /\ FieldLen \in Nat \ {0} /\ FieldLen < b /\ q * b \in Nat
  BY SizesAssumption
<1>2. z \in 0 .. b - 1 /\ g + 1 + z + FieldLen = q * b + Ends(d)
  BY <1>1 DEF Ends
<1>3. \E s \in Nat : g + 1 + z + FieldLen = s * b
  <2>1. q * b + b = (q + 1) * b /\ q * b + 2 * b = (q + 2) * b
    BY <1>1, Sums
  <2> QED
    BY <1>2, <2>1 DEF Ends
<1> HIDE DEF z, b
<1>4. Full(z)
  <2>1. PICK s \in Nat : g + 1 + z + FieldLen = s * b
    BY <1>3
  <2> DEFINE x == g + 1 + z + FieldLen
  <2>2. x \in Nat /\ x = s * b + 0
    BY <1>1, <1>2, <2>1
  <2> HIDE DEF x
  <2>3. x % b = 0
    BY <1>1, <2>2, RemainderIs
  <2> QED
    BY <2>3 DEF x
<1>5. ASSUME NEW y \in 0 .. b - 1, Full(y) PROVE y = z
  <2>1. PICK s \in Nat : g + 1 + z + FieldLen = s * b
    BY <1>3
  <2> DEFINE x == g + 1 + y + FieldLen
             t == x \div b
  <2>2. x \in Nat /\ x % b = 0
    BY <1>1, <1>5
  <2> HIDE DEF x
  <2>3. t \in Nat /\ x = t * b
    BY <1>1, <2>2, Division
  <2> HIDE DEF t
  <2>4. t * b - s * b = y - z /\ t * b \in Nat /\ s * b \in Nat
    BY <1>1, <1>2, <2>1, <2>3 DEF x
  <2>5. CASE t < s
    <3>1. t * b + b <= s * b
      BY <1>1, <2>3, <2>5, Apart
    <3> QED
      BY <1>1, <1>2, <2>4, <3>1
  <2>6. CASE s < t
    <3>1. s * b + b <= t * b
      BY <1>1, <2>3, <2>6, Apart
    <3> QED
      BY <1>1, <1>2, <2>4, <3>1
  <2>7. CASE t = s
    BY <1>2, <2>4, <2>7
  <2> QED
    BY <2>3, <2>5, <2>6, <2>7
<1>6. Stream!Zeros(g) = CHOOSE y \in 0 .. b - 1 : Full(y)
  BY DEF Stream!Zeros, b
<1> HIDE DEF Full
<1>7. Stream!Zeros(g) = z
  BY <1>2, <1>4, <1>5, <1>6
<1> QED
  BY <1>2, <1>7 DEF b

(* What the blocks of final are: the rest of the message, 0x80, zeros and   *)
(* the length at the end.                                                   *)
LastCell(j, size, g) == IF j <= datalen THEN Msg(Len(hashed) + j)
                        ELSE IF j = datalen + 1 THEN One
                        ELSE IF j = size THEN <<"len", (8 * g) % LenMod>> ELSE Zero

LEMMA LastCells ==
  ASSUME NEW size \in Nat, NEW g \in 0 .. MaxTotal, Holds(size, g), NEW t, NEW last \in Nat,
         t = [j \in 1 .. last |-> LastCell(j, last, g)]
  PROVE  t \in Seq(Cell) /\ Len(t) = last
<1>1. One \in Cell /\ Zero \in Cell
  BY DEF Cell
<1>2. <<"len", (8 * g) % LenMod>> \in Cell
  <2>1. (8 * g) % LenMod \in 0 .. LenMod - 1
    BY LenAssumption
  <2> QED
    BY <2>1 DEF Cell
<1>3. \A j \in 1 .. datalen : Msg(Len(hashed) + j) \in Cell
  <2>1. \A j \in 1 .. datalen : Len(hashed) + j \in 1 .. MaxTotal
    BY SizesAssumption, LenAssumption DEF Holds
  <2> QED
    BY <2>1, MsgCell
<1>4. \A j \in 1 .. last : LastCell(j, last, g) \in Cell
  BY <1>1, <1>2, <1>3, SizesAssumption DEF LastCell, Holds
<1>5. t \in [1 .. last -> Cell]
  BY <1>4
<1> QED
  BY <1>5

LEMMA Behind ==
  ASSUME NEW s \in Seq(Cell), NEW t \in Seq(Cell), NEW a, a = Len(s), NEW b, b = Len(t)
  PROVE  /\ s \o t \in Seq(Cell) /\ Len(s \o t) = a + b /\ a \in Nat /\ b \in Nat
         /\ \A j \in 1 .. a + b : (s \o t)[j] = IF j <= a THEN s[j] ELSE t[j - a]
<1>1. Len(s) \in Nat /\ Len(t) \in Nat
  OBVIOUS
<1>2. /\ s \o t \in Seq(Cell) /\ Len(s \o t) = Len(s) + Len(t)
      /\ \A j \in 1 .. Len(s) + Len(t) : (s \o t)[j] = IF j <= Len(s) THEN s[j] ELSE t[j - Len(s)]
  BY ConcatProperties
<1> QED
  BY <1>1, <1>2

(* What was consumed before final, with such blocks behind it, is the       *)
(* padded message.                                                          *)
LEMMA Ended ==
  ASSUME NEW size \in Nat, NEW g \in 0 .. MaxTotal, Holds(size, g),
         NEW q \in Nat, Len(hashed) = q * BlockLen,
         NEW t, t = [j \in 1 .. Ends(datalen) |-> LastCell(j, Ends(datalen), g)]
  PROVE  hashed \o t = Stream!Padded(g)
<1> DEFINE last == Ends(datalen)
           whole == hashed \o t
<1>1. /\ hashed \in Seq(Cell) /\ Len(hashed) \in Nat /\ datalen \in 0 .. BlockLen - 1
      /\ Len(hashed) + datalen = g
      /\ \A j \in 1 .. Len(hashed) : hashed[j] = Msg(j)
  BY DEF Holds
<1>2. last \in Nat /\ datalen + 1 + FieldLen <= last /\ FieldLen >= 1 /\ FieldLen \in Nat
  BY <1>1, SizesAssumption DEF Ends
<1>3. g + 1 + Stream!Zeros(g) + FieldLen = Len(hashed) + last
  BY <1>1, PaddedLength
<1>4. t \in Seq(Cell) /\ Len(t) = last /\ \A j \in 1 .. last : t[j] = LastCell(j, last, g)
  BY <1>2, LastCells
<1>5. Stream!Padded(g) = [j \in 1 .. Len(hashed) + last |->
                             IF j <= g THEN Msg(j)
                             ELSE IF j = g + 1 THEN One
                             ELSE IF j = Len(hashed) + last THEN <<"len", (8 * g) % LenMod>> ELSE Zero]
  BY <1>3 DEF Stream!Padded, Stream!Msg, Msg, Stream!One, One, Stream!Zero, Zero, Stream!Bits
<1> HIDE DEF last
<1> DEFINE h == Len(hashed)
           field == <<"len", (8 * g) % LenMod>>
           cell(j) == IF j <= g THEN Msg(j) ELSE IF j = g + 1 THEN One
                      ELSE IF j = h + last THEN field ELSE Zero
<1>6. /\ whole \in Seq(Cell) /\ Len(whole) = h + last
      /\ \A j \in 1 .. h + last : whole[j] = IF j <= h THEN hashed[j] ELSE t[j - h]
  <2>1. /\ hashed \o t \in Seq(Cell) /\ Len(hashed \o t) = Len(hashed) + Len(t)
        /\ \A j \in 1 .. Len(hashed) + Len(t) :
             (hashed \o t)[j] = IF j <= Len(hashed) THEN hashed[j] ELSE t[j - Len(hashed)]
    <3> HIDE DEF whole, h
    <3> QED
      BY <1>1, <1>4, ConcatProperties
  <2>2. Len(t) = last
    BY <1>4
  <2> QED
    BY <2>1, <2>2
<1>7. /\ h \in Nat /\ datalen \in Nat /\ h + datalen = g /\ datalen + 1 < last /\ last \in Nat
      /\ \A j \in 1 .. h : hashed[j] = Msg(j)
      /\ \A j \in 1 .. last :
           t[j] = IF j <= datalen THEN Msg(h + j) ELSE IF j = datalen + 1 THEN One
                  ELSE IF j = last THEN field ELSE Zero
  <2>1. \A j \in 1 .. last : t[j] = LastCell(j, last, g)
    BY <1>4
  <2>2. \A j \in 1 .. last : t[j] = IF j <= datalen THEN Msg(Len(hashed) + j)
                                 ELSE IF j = datalen + 1 THEN One
                                 ELSE IF j = last THEN field ELSE Zero
    BY <2>1 DEF LastCell
  <2> HIDE DEF field
  <2>3. datalen \in Nat /\ datalen + 1 < last
    BY <1>1, <1>2, SizesAssumption
  <2> QED
    BY <1>1, <1>2, <2>2, <2>3
<1> HIDE DEF whole, h, field
<1>8. ASSUME NEW j \in 1 .. h + last PROVE whole[j] = cell(j)
  <2>1. CASE j <= h
    BY <1>6, <1>7, <2>1
  <2>2. CASE ~ j <= h
    <3>1. j - h \in 1 .. last /\ h + (j - h) = j
      BY <1>7, <2>2
    <3>2. whole[j] = t[j - h]
      BY <1>6, <2>2
    <3> DEFINE place == j - h
    <3> HIDE DEF place
    <3>3. place \in 1 .. last /\ h + place = j /\ whole[j] = t[place]
      BY <3>1, <3>2 DEF place
    <3>4. t[place] = IF place <= datalen THEN Msg(h + place)
                     ELSE IF place = datalen + 1 THEN One
                     ELSE IF place = last THEN field ELSE Zero
      BY <1>7, <3>3
    <3>5. /\ place <= datalen <=> j <= g
          /\ place = datalen + 1 <=> j = g + 1
          /\ place = last <=> j = h + last
      BY <1>7, <3>3
    <3> QED
      BY <3>3, <3>4, <3>5
  <2> QED
    BY <2>1, <2>2
<1>9. whole = [j \in 1 .. h + last |-> cell(j)]
  BY <1>6, <1>8
<1> QED
  BY <1>5, <1>9 DEF whole, h, field

-----------------------------------------------------------------------------
(* md5_final and sha1_final, which write 8 * g where g bytes came in, and   *)
(* blocks of their own when the length does not fit behind the message.     *)
Blockful == \E q \in Nat : Len(hashed) = q * BlockLen

BytewiseCount == pc # "done" => /\ pc = "loop" => n \in Lens
                                /\ Blockful /\ count = (8 * Len(hashed)) % LenMod

LEMMA FinalPads ==
  ASSUME NEW g \in 0 .. MaxTotal, Holds(BlockLen, g), Blockful,
         count = (8 * Len(hashed)) % LenMod, Final
  PROVE  hashed' = Stream!Padded(g)
<1>1. PICK q \in Nat : Len(hashed) = q * BlockLen
  BY DEF Blockful
<1>2. /\ hashed \in Seq(Cell) /\ Len(hashed) \in Nat /\ datalen \in 0 .. BlockLen - 1
      /\ Len(hashed) + datalen = g /\ data \in [1 .. BlockLen -> Cell]
      /\ \A j \in 1 .. datalen : data[j] = Msg(Len(hashed) + j)
  BY DEF Holds
<1>3. BlockLen \in Nat /\ FieldLen \in Nat /\ 1 <= FieldLen /\ FieldLen < BlockLen
  BY SizesAssumption
<1>4. (count + 8 * datalen) % LenMod = (8 * g) % LenMod
  <2> DEFINE x == 8 * Len(hashed)
             y == 8 * datalen
  <2>1. x + y = 8 * g /\ x \in Nat /\ y \in Nat
    BY <1>2, SizesAssumption, LenAssumption
  <2>2. count = x % LenMod
    OBVIOUS
  <2> HIDE DEF x, y
  <2>3. ((x % LenMod) + y) % LenMod = (x + y) % LenMod
    <3>1. LenMod \in Nat /\ LenMod > 0 /\ x \in Nat /\ y \in Nat
      BY <2>1, LenAssumption
    <3> QED
      BY <3>1, CountOn
  <2> QED
    BY <2>1, <2>2, <2>3 DEF y
<1> DEFINE field == <<"len", (8 * g) % LenMod>>
           t == [j \in 1 .. Ends(datalen) |-> LastCell(j, Ends(datalen), g)]
<1>5. hashed \o t = Stream!Padded(g)
  BY <1>1, <1>3, Ended
<1>6. CASE Fits
  <2>1. Ends(datalen) = BlockLen /\ datalen < BlockLen - FieldLen
    BY <1>6 DEF Ends, Fits
  <2>2. ASSUME NEW j \in 1 .. BlockLen PROVE LastBlock[j] = LastCell(j, BlockLen, g)
    <3>1. LastBlock[j] = IF j = BlockLen THEN field
                         ELSE IF j > BlockLen - FieldLen THEN Zero ELSE Marked[j]
      BY <1>4, <1>6 DEF LastBlock
    <3>2. Marked[j] = IF j <= datalen \/ j > BlockLen - FieldLen THEN data[j]
                      ELSE IF j = datalen + 1 THEN One ELSE Zero
      BY <1>6 DEF Marked
    <3>3. LastCell(j, BlockLen, g) = IF j <= datalen THEN Msg(Len(hashed) + j)
                                     ELSE IF j = datalen + 1 THEN One
                                     ELSE IF j = BlockLen THEN field ELSE Zero
      BY DEF LastCell
    <3> HIDE DEF field
    <3>4. CASE j <= datalen
      BY <1>2, <1>3, <2>1, <3>1, <3>2, <3>3, <3>4
    <3>5. CASE ~(j <= datalen)
      BY <1>2, <1>3, <2>1, <3>1, <3>2, <3>3, <3>5
    <3> QED
      BY <3>4, <3>5
  <2>3. LastBlock = t
    BY <2>1, <2>2 DEF LastBlock
  <2>4. Len(hashed) < HashedCap
    BY <1>2, <1>3, LenAssumption DEF HashedCap
  <2>5. hashed' = hashed \o LastBlock
    BY <1>6, <2>4 DEF Final, Compress
  <2> QED
    BY <1>5, <2>3, <2>5
<1>7. CASE ~Fits
  <2>1. Ends(datalen) = 2 * BlockLen /\ BlockLen - FieldLen <= datalen
    BY <1>2, <1>3, <1>7 DEF Ends, Fits
  <2>2. ASSUME NEW j \in 1 .. BlockLen PROVE Marked[j] = LastCell(j, 2 * BlockLen, g)
    <3>1. Marked[j] = IF j <= datalen THEN data[j] ELSE IF j = datalen + 1 THEN One ELSE Zero
      BY <1>7 DEF Marked
    <3> QED
      BY <1>2, <1>3, <3>1 DEF LastCell
  <2>3. ASSUME NEW j \in 1 .. BlockLen
        PROVE  LastBlock[j] = LastCell(BlockLen + j, 2 * BlockLen, g)
    <3>1. LastBlock[j] = IF j = BlockLen THEN field ELSE Zero
      BY <1>4, <1>7 DEF LastBlock
    <3> QED
      BY <1>2, <1>3, <2>1, <3>1 DEF LastCell
  <2>4. /\ t \in Seq(Cell) /\ Len(t) = 2 * BlockLen
        /\ \A j \in 1 .. 2 * BlockLen : t[j] = LastCell(j, 2 * BlockLen, g)
    <3>1. t = [j \in 1 .. 2 * BlockLen |-> LastCell(j, 2 * BlockLen, g)] /\ 2 * BlockLen \in Nat
      BY <1>3, <2>1
    <3> HIDE DEF t
    <3>2. t \in Seq(Cell) /\ Len(t) = 2 * BlockLen
      BY <1>3, <3>1, LastCells
    <3> QED
      BY <3>1, <3>2
  <2> HIDE DEF t
  <2>5. Marked \in Seq(Cell) /\ Len(Marked) = BlockLen
    <3>1. \A j \in 1 .. BlockLen : Marked[j] = t[j] /\ t[j] \in Cell
      BY <1>3, <2>2, <2>4
    <3>2. Marked \in [1 .. BlockLen -> Cell]
      BY <3>1 DEF Marked
    <3> QED
      BY <1>3, <3>2
  <2>6. LastBlock \in Seq(Cell) /\ Len(LastBlock) = BlockLen
    <3>1. \A j \in 1 .. BlockLen : LastBlock[j] = t[BlockLen + j] /\ t[BlockLen + j] \in Cell
      BY <1>3, <2>3, <2>4
    <3>2. LastBlock \in [1 .. BlockLen -> Cell]
      BY <3>1 DEF LastBlock
    <3> QED
      BY <1>3, <3>2
  <2> DEFINE both == Marked \o LastBlock
  <2>7. /\ both \in Seq(Cell) /\ Len(both) = 2 * BlockLen
        /\ \A j \in 1 .. 2 * BlockLen :
             both[j] = IF j <= BlockLen THEN Marked[j] ELSE LastBlock[j - BlockLen]
    <3>1. BlockLen + BlockLen = 2 * BlockLen
      BY <1>3
    <3>2. /\ both \in Seq(Cell) /\ Len(both) = BlockLen + BlockLen
          /\ \A j \in 1 .. BlockLen + BlockLen :
               both[j] = IF j <= BlockLen THEN Marked[j] ELSE LastBlock[j - BlockLen]
      BY <2>5, <2>6, Behind
    <3> QED
      BY <3>1, <3>2
  <2> HIDE DEF both
  <2>8. ASSUME NEW j \in 1 .. 2 * BlockLen PROVE both[j] = t[j]
    <3>1. CASE j <= BlockLen
      BY <1>3, <2>2, <2>4, <2>7, <3>1
    <3>2. CASE ~ j <= BlockLen
      <4>1. j - BlockLen \in 1 .. BlockLen /\ BlockLen + (j - BlockLen) = j
        BY <1>3, <3>2
      <4> QED
        BY <2>3, <2>4, <2>7, <3>2, <4>1
    <3> QED
      BY <3>1, <3>2
  <2>9. both = t
    BY <2>4, <2>7, <2>8, SeqEqual
  <2>10. Len(hashed) < HashedCap /\ Len(hashed \o Marked) < HashedCap
    <3>1. Len(hashed \o Marked) = Len(hashed) + BlockLen
      BY <1>2, <2>5, ConcatProperties
    <3> QED
      BY <1>2, <1>3, <3>1, LenAssumption DEF HashedCap
  <2>11. hashed' = (hashed \o Marked) \o LastBlock
    BY <1>7, <2>10 DEF Final, Compress
  <2>12. (hashed \o Marked) \o LastBlock = hashed \o both
    <3>1. hashed \in Seq(Cell) /\ Marked \in Seq(Cell) /\ LastBlock \in Seq(Cell)
      BY <1>2, <2>5, <2>6
    <3> QED
      BY <3>1, ConcatAssociative DEF both
  <2> QED
    BY <1>5, <2>9, <2>11, <2>12
<1> QED
  BY <1>6, <1>7

LEMMA BytewiseCounts ==
  ASSUME CounterIsWide, IInv, BytewiseCount, [Next]_vars PROVE BytewiseCount'
<1> SUFFICES ASSUME pc' # "done" PROVE BytewiseCount'
  BY DEF BytewiseCount
<1> USE DEF BytewiseCount, Blockful
<1>1. CASE \E k \in Lens : Update(k)
  BY <1>1 DEF Update
<1>2. CASE Absorb
  <2>1. /\ data \in [1 .. BlockLen -> Cell] /\ datalen \in 0 .. BlockLen - 1
        /\ hashed \in Seq(Cell) /\ Len(hashed) \in Nat
        /\ Len(hashed) + datalen = taken + i /\ taken + i < MaxTotal
        /\ pc = "loop" /\ pc' = "loop" /\ n' = n /\ Store
        /\ taken \in Nat /\ i \in Nat
    BY <1>2, LenAssumption DEF Absorb, IInv, Holds
  <2>2. CASE datalen + 1 # BlockLen
    BY <2>1, <2>2 DEF Store
  <2>3. CASE datalen + 1 = BlockLen
    <3>1. Filled \in Seq(Cell) /\ Len(Filled) = BlockLen
      <4>1. taken + i + 1 \in 1 .. MaxTotal
        BY <2>1, LenAssumption
      <4>2. Filled \in [1 .. BlockLen -> Cell]
        BY <2>1, <4>1, MsgCell DEF Filled
      <4> QED
        BY <4>2, SizesAssumption
    <3>2. Len(hashed) < HashedCap
      BY <2>1, SizesAssumption, LenAssumption DEF HashedCap
    <3>3. hashed' = hashed \o Filled /\ count' = (count + 8 * BlockLen) % LenMod
      BY <2>1, <2>3, <3>2 DEF Store, Compress
    <3>4. Len(hashed') = Len(hashed) + BlockLen
      BY <2>1, <3>1, <3>3, ConcatProperties
    <3>5. PICK q \in Nat : Len(hashed) = q * BlockLen
      BY <2>1
    <3>6. (q + 1) * BlockLen = q * BlockLen + 1 * BlockLen /\ 1 * BlockLen = BlockLen
      BY SizesAssumption, Sums
    <3>7. Blockful'
      BY <3>4, <3>5, <3>6
    <3> DEFINE x == 8 * Len(hashed)
               y == 8 * BlockLen
    <3>8. x \in Nat /\ y \in Nat /\ x + y = 8 * Len(hashed')
      BY <2>1, <3>4, SizesAssumption
    <3>9. count' = ((x % LenMod) + y) % LenMod
      BY <2>1, <3>3
    <3> HIDE DEF x, y
    <3>10. LenMod \in Nat /\ LenMod > 0
      BY LenAssumption
    <3>11. count' = (x + y) % LenMod
      BY <3>8, <3>9, <3>10, CountOn
    <3> QED
      BY <2>1, <3>7, <3>8, <3>11
  <2> QED
    BY <2>2, <2>3
<1>3. CASE Return
  BY <1>3 DEF Return
<1>4. CASE Final
  BY <1>4 DEF Final
<1>5. CASE UNCHANGED vars
  BY <1>5 DEF vars, ctx
<1> QED
  BY <1>1, <1>2, <1>3, <1>4, <1>5 DEF Next

(* An update call is one step of the abstract hash, taken when it returns;  *)
(* final is another.                                                        *)
LEMMA BytewiseSteps ==
  ASSUME CounterIsWide, IInv, BytewiseCount, [Next]_vars
  PROVE  [Stream!Next]_<<taken, IF pc = "done" THEN hashed ELSE <<>> >>
<1> USE DEF Stream!Next
<1>1. CASE \E k \in Lens : Update(k)
  BY <1>1 DEF Update
<1>2. CASE Absorb
  BY <1>2 DEF Absorb
<1>3. CASE Return
  <2>1. n \in Lens /\ taken + n <= MaxTotal /\ taken' = taken + n /\ pc = "loop" /\ pc' = "ready"
    BY <1>3 DEF Return, IInv, BytewiseCount
  <2>2. Stream!Update(n)
    BY <2>1 DEF Stream!Update
  <2> QED
    BY <2>1, <2>2
<1>4. CASE Final
  <2>1. pc = "ready" /\ pc' = "done" /\ taken' = taken
    BY <1>4 DEF Final
  <2>2. /\ taken \in 0 .. MaxTotal /\ Holds(BlockLen, taken) /\ Blockful
        /\ count = (8 * Len(hashed)) % LenMod
    BY <2>1, LenAssumption DEF IInv, BytewiseCount
  <2>3. hashed' = Stream!Padded(taken)
    BY <1>4, <2>2, FinalPads
  <2>4. Stream!Finish
    BY <2>1, <2>3 DEF Stream!Finish
  <2> QED
    BY <2>4
<1>5. CASE UNCHANGED vars
  BY <1>5 DEF vars, ctx
<1> QED
  BY <1>1, <1>2, <1>3, <1>4, <1>5 DEF Next

(* MD5 and SHA-1 implement the abstract hash: however the message is cut    *)
(* into calls, the digest is that of the whole padded message, with its     *)
(* length modulo the width of the counter.                                  *)
THEOREM BytewiseImplements == ASSUME CounterIsWide PROVE Spec => ImplementsStream
<1>1. Init => BytewiseCount
  <2>1. 0 % LenMod = 0
    BY LenAssumption
  <2>2. Init => pc = "ready" /\ hashed = <<>> /\ count = 0
    BY DEF Init, Fresh
  <2>3. 0 = 0 * BlockLen
    BY SizesAssumption
  <2> QED
    BY <2>1, <2>2, <2>3 DEF BytewiseCount, Blockful
<1>2. Init => Stream!Init
  BY DEF Init, Fresh, Stream!Init
<1>3. CounterIsWide
  OBVIOUS
<1>4. IInv /\ BytewiseCount /\ [Next]_vars => BytewiseCount'
  BY <1>3, BytewiseCounts
<1>5. IInv /\ BytewiseCount /\ [Next]_vars
        => [Stream!Next]_<<taken, IF pc = "done" THEN hashed ELSE <<>> >>
  BY <1>3, BytewiseSteps
<1>6. IInv /\ [Next]_vars => IInv'
  BY <1>3, NextIInv
<1> QED
  BY <1>1, <1>2, <1>4, <1>5, <1>6, InitIInv, PTL DEF Spec, ImplementsStream, Stream!Spec

-----------------------------------------------------------------------------
(* The same of sha2.c, which counts bytes and multiplies when it is done.   *)
BlockwiseCount == pc # "done" => Blockful /\ count = Len(hashed) % LenMod

LEMMA SealedPads ==
  ASSUME NEW g \in 0 .. MaxTotal, Holds(2 * BlockLen, g), Blockful,
         count = Len(hashed) % LenMod, Sha2!Final
  PROVE  hashed' = Stream!Padded(g)
<1>1. PICK q \in Nat : Len(hashed) = q * BlockLen
  BY DEF Blockful
<1>2. /\ hashed \in Seq(Cell) /\ Len(hashed) \in Nat /\ datalen \in 0 .. BlockLen - 1
      /\ Len(hashed) + datalen = g /\ data \in [1 .. 2 * BlockLen -> Cell]
      /\ \A j \in 1 .. datalen : data[j] = Msg(Len(hashed) + j)
  BY DEF Holds
<1>3. BlockLen \in Nat /\ FieldLen \in Nat /\ 1 <= FieldLen /\ FieldLen < BlockLen
  BY SizesAssumption
<1>4. ((count + datalen) * 8) % LenMod = (8 * g) % LenMod
  <2> DEFINE x == Len(hashed)
  <2>1. x + datalen = g /\ x \in Nat /\ datalen \in Nat
    BY <1>2, <1>3
  <2>2. count = x % LenMod
    OBVIOUS
  <2> HIDE DEF x
  <2>3. LenMod \in Nat /\ LenMod > 0
    BY LenAssumption
  <2>4. (((x % LenMod) + datalen) * 8) % LenMod = (8 * (x + datalen)) % LenMod
    BY <2>1, <2>3, CountEight
  <2> QED
    BY <2>1, <2>2, <2>4
<1>5. Sha2!LastBlocks * BlockLen = Ends(datalen)
  <2>1. datalen % BlockLen = datalen
    <3>1. datalen = 0 * BlockLen + datalen /\ datalen \in Nat /\ datalen < BlockLen /\ BlockLen > 0
      BY <1>2, <1>3
    <3> QED
      BY <1>3, <3>1, RemainderIs
  <2>2. Sha2!LastBlocks = IF BlockLen - (FieldLen + 1) < datalen THEN 2 ELSE 1
    BY <2>1 DEF Sha2!LastBlocks
  <2> QED
    BY <1>2, <1>3, <2>2 DEF Ends
<1> DEFINE last == Ends(datalen)
           t == [j \in 1 .. last |-> LastCell(j, last, g)]
           s == Sha2!Sealed
<1>6. hashed \o t = Stream!Padded(g)
  <2>1. 2 * BlockLen \in Nat
    BY <1>3
  <2> QED
    BY <1>1, <2>1, Ended
<1>7. last \in Nat /\ 1 <= last /\ datalen + 1 < last /\ last <= 2 * BlockLen
  BY <1>2, <1>3 DEF Ends
<1>8. t \in Seq(Cell) /\ Len(t) = last /\ \A j \in 1 .. last : t[j] = LastCell(j, last, g)
  <2> HIDE DEF last
  <2>1. t = [j \in 1 .. last |-> LastCell(j, last, g)]
    OBVIOUS
  <2>2. 2 * BlockLen \in Nat
    BY <1>3
  <2> HIDE DEF t
  <2> QED
    BY <1>7, <2>1, <2>2, LastCells
<1>9. \A j \in 1 .. 2 * BlockLen :
        s[j] = IF j = last THEN <<"len", (8 * g) % LenMod>>
               ELSE IF j = datalen + 1 THEN One
               ELSE IF datalen < j /\ j <= last THEN Zero ELSE data[j]
  BY <1>4, <1>5 DEF Sha2!Sealed, Sha2!One, One, Sha2!Zero, Zero
<1>10. hashed' = hashed \o SubSeq(s, 1, last)
  BY <1>5 DEF Sha2!Final, Sha2!Compress
<1> HIDE DEF last, t, s
<1>11. ASSUME NEW j \in 1 .. last PROVE s[j] = t[j] /\ s[j] \in Cell
  <2>1. j \in 1 .. 2 * BlockLen /\ t[j] = LastCell(j, last, g) /\ t[j] \in Cell
    BY <1>3, <1>7, <1>8
  <2> QED
    BY <1>2, <1>7, <1>9, <2>1 DEF LastCell
<1>12. /\ SubSeq(s, 1, last) \in Seq(Cell)
       /\ Len(SubSeq(s, 1, last)) = IF 1 <= last THEN last - 1 + 1 ELSE 0
       /\ \A j \in 1 .. last - 1 + 1 : SubSeq(s, 1, last)[j] = s[1 + j - 1]
  BY <1>7, <1>11, SubSeqProperties
<1> DEFINE sub == SubSeq(s, 1, last)
<1>13. sub \in Seq(Cell) /\ Len(sub) = last /\ \A j \in 1 .. last : sub[j] = s[j]
  BY <1>7, <1>12
<1> HIDE DEF sub
<1>14. sub = t
  BY <1>8, <1>11, <1>13, SeqEqual
<1> QED
  BY <1>6, <1>10, <1>14 DEF sub, t

LEMMA BlockwiseCounts ==
  ASSUME SInv, BlockwiseCount, [Sha2!Next]_ctx PROVE BlockwiseCount'
<1> SUFFICES ASSUME pc' # "done" PROVE BlockwiseCount'
  BY DEF BlockwiseCount
<1> USE DEF BlockwiseCount, Blockful
<1>1. CASE \E k \in Lens : Sha2!Update(k)
  <2>1. PICK k \in Lens : Sha2!Update(k)
    BY <1>1
  <2>2. CASE Sha2!Keep(k)
    BY <2>1, <2>2 DEF Sha2!Keep, Sha2!Update
  <2>3. CASE Sha2!Drain(k)
    <3>1. /\ k \in Nat /\ taken \in Nat /\ taken + k <= MaxTotal /\ Holds(2 * BlockLen, taken)
          /\ pc = "ready"
      BY <2>1, LenAssumption DEF Sha2!Update, SInv
    <3>2. /\ Len(hashed) \in Nat /\ datalen \in 0 .. BlockLen - 1
          /\ Len(hashed) + datalen = taken /\ datalen + k >= BlockLen
      BY <2>3, <3>1 DEF Holds, Sha2!Drain
    <3> DEFINE w == Sha2!Whole(k)
    <3>3. /\ w \in Nat /\ w * BlockLen \in Nat /\ Sha2!Used(k) = BlockLen - datalen
          /\ Len(hashed') = taken + Sha2!Used(k) + w * BlockLen
      BY <2>3, <3>1, <3>2, Split, DrainHashes
    <3>4. count' = (count + (w + 1) * BlockLen) % LenMod
      BY <2>3 DEF Sha2!Drain, Sha2!Counted
    <3> HIDE DEF w
    <3>5. (w + 1) * BlockLen = w * BlockLen + 1 * BlockLen /\ 1 * BlockLen = BlockLen
      BY <3>3, SizesAssumption, Sums
    <3>6. /\ (w + 1) * BlockLen \in Nat
          /\ Len(hashed') = Len(hashed) + (w + 1) * BlockLen
      BY <3>2, <3>3, <3>5, SizesAssumption
    <3>7. PICK q \in Nat : Len(hashed) = q * BlockLen
      BY <3>1
    <3>8. (q + (w + 1)) * BlockLen = q * BlockLen + (w + 1) * BlockLen /\ q + (w + 1) \in Nat
      BY <3>3, SizesAssumption, Sums
    <3>9. Blockful'
      BY <3>6, <3>7, <3>8
    <3> DEFINE x == Len(hashed)
               y == (w + 1) * BlockLen
    <3>10. x \in Nat /\ y \in Nat /\ x + y = Len(hashed')
      BY <3>2, <3>6
    <3>11. count' = ((x % LenMod) + y) % LenMod
      BY <3>1, <3>4
    <3> HIDE DEF x, y
    <3>12. LenMod \in Nat /\ LenMod > 0
      BY LenAssumption
    <3>13. count' = (x + y) % LenMod
      BY <3>10, <3>11, <3>12, CountOn
    <3> QED
      BY <3>9, <3>10, <3>13
  <2> QED
    BY <2>1, <2>2, <2>3 DEF Sha2!Update
<1>2. CASE Sha2!Final
  BY <1>2 DEF Sha2!Final
<1>3. CASE UNCHANGED ctx
  BY <1>3 DEF ctx
<1> QED
  BY <1>1, <1>2, <1>3 DEF Sha2!Next

LEMMA BlockwiseSteps ==
  ASSUME SInv, BlockwiseCount, [Sha2!Next]_ctx
  PROVE  [Stream!Next]_<<taken, IF pc = "done" THEN hashed ELSE <<>> >>
<1> USE DEF Stream!Next
<1>1. CASE \E k \in Lens : Sha2!Update(k)
  <2>1. PICK k \in Lens : Sha2!Update(k)
    BY <1>1
  <2>2. Stream!Update(k)
    BY <2>1 DEF Sha2!Update, Stream!Update
  <2> QED
    BY <2>2
<1>2. CASE Sha2!Final
  <2>1. pc = "ready" /\ pc' = "done" /\ taken' = taken
    BY <1>2 DEF Sha2!Final
  <2>2. /\ taken \in 0 .. MaxTotal /\ Holds(2 * BlockLen, taken) /\ Blockful
        /\ count = Len(hashed) % LenMod
    BY <2>1 DEF SInv, BlockwiseCount
  <2>3. hashed' = Stream!Padded(taken)
    BY <1>2, <2>2, SealedPads
  <2>4. Stream!Finish
    BY <2>1, <2>3 DEF Stream!Finish
  <2> QED
    BY <2>4
<1>3. CASE UNCHANGED ctx
  BY <1>3 DEF ctx
<1> QED
  BY <1>1, <1>2, <1>3 DEF Sha2!Next

(* The SHA-2 functions implement the abstract hash, for either width of the *)
(* length field and any calls.                                              *)
THEOREM BlockwiseImplements == Sha2!Spec => ImplementsStream
<1>1. Sha2!Init => SInv /\ BlockwiseCount
  <2>1. 0 % LenMod = 0 /\ 0 = 0 * BlockLen
    BY LenAssumption, SizesAssumption
  <2>2. Sha2!Init => Fresh(2 * BlockLen)
    BY DEF Sha2!Init, Sha2!Fresh, Fresh, Sha2!Junk, Junk
  <2>3. Fresh(2 * BlockLen) => Holds(2 * BlockLen, 0)
    BY SizesAssumption, FreshHolds
  <2> QED
    BY <2>1, <2>2, <2>3, LenAssumption DEF SInv, BlockwiseCount, Blockful, Fresh
<1>2. Sha2!Init => Stream!Init
  BY DEF Sha2!Init, Sha2!Fresh, Stream!Init
<1>3. SInv /\ BlockwiseCount /\ [Sha2!Next]_ctx => BlockwiseCount'
  BY BlockwiseCounts
<1>4. SInv /\ BlockwiseCount /\ [Sha2!Next]_ctx
        => [Stream!Next]_<<taken, IF pc = "done" THEN hashed ELSE <<>> >>
  BY BlockwiseSteps
<1>5. Sha2!Spec => Sha2!Init /\ [][Sha2!Next]_ctx
  BY DEF Sha2!Spec, Sha2!ctx, ctx
<1> QED
  BY <1>1, <1>2, <1>3, <1>4, <1>5, NextSInv, PTL DEF ImplementsStream, Stream!Spec
-----------------------------------------------------------------------------
(* The rate is positive; pieces are numbers of bytes. *)
ShakeSizes == Rate \in Nat \ {0} /\ Pieces \subseteq Nat

PaddedCells == {Shake!Xof!PaddedCell(len, p) : len \in Nat, p \in Nat}
PaddedBlocks == [1 .. Rate -> PaddedCells]
StreamBytes == {Shake!Xof!StreamByte(len, j) : len \in Nat, j \in Nat}

(* The permuted blocks are those of the message of msgLen bytes. *)
Permuted == /\ msgLen \in Nat /\ fed \in Seq(PaddedBlocks)
            /\ fed = Shake!Xof!Blocks(msgLen, Len(fed))

Absorbing ==
  /\ given \in 0 .. msgLen /\ cnt \in 0 .. Rate - 1 /\ given = Len(fed) * Rate + cnt
  /\ xored = [p \in 1 .. Rate |-> IF p <= cnt THEN {<<"msg", Len(fed) * Rate + p>>} ELSE {}]
  /\ out = <<>>

Squeezing ==
  /\ Len(fed) >= msgLen \div Rate + 1
  /\ cnt \in 0 .. Rate /\ xored = Shake!Cleared
  /\ out \in Seq(StreamBytes) /\ Len(out) <= outLen
  /\ Len(out) = (Len(fed) - (msgLen \div Rate + 1)) * Rate + cnt
  /\ \A j \in 1 .. Len(out) : out[j] = Shake!Xof!StreamByte(msgLen, j)

ShakeInv ==
  /\ absorbed \in Nat /\ squeezed \in Nat /\ Permuted
  /\ phase # "idle" => /\ phase \in {"absorb", "squeeze"} /\ msgLen = absorbed
                       /\ \E k \in Pieces : squeezed + k <= MaxOut /\ outLen = squeezed + k
  /\ phase = "absorb" => Absorbing
  /\ phase = "squeeze" => Squeezing

(* One more block behind those that were permuted. *)
LEMMA PermuteNext ==
  ASSUME ShakeSizes, Permuted, UNCHANGED msgLen,
         NEW block, Shake!Permute(block),
         block = [p \in 1 .. Rate |-> Shake!Xof!PaddedCell(msgLen, Len(fed) * Rate + p)]
  PROVE  Permuted' /\ Len(fed') = Len(fed) + 1
<1> DEFINE len == msgLen
           m == Len(fed)
           Row(b) == [p \in 1 .. Rate |-> Shake!Xof!PaddedCell(len, (b - 1) * Rate + p)]
<1>1. len \in Nat /\ m \in Nat /\ Rate \in Nat /\ fed \in Seq(PaddedBlocks)
  BY DEF Permuted, ShakeSizes
<1>2. \A p \in 1 .. Rate : m * Rate + p \in Nat
  BY <1>1, Sums
<1>3. block \in PaddedBlocks
  BY <1>1, <1>2 DEF PaddedBlocks, PaddedCells
<1>4. /\ fed' = Append(fed, block) /\ fed' \in Seq(PaddedBlocks) /\ Len(fed') = m + 1
      /\ fed'[m + 1] = block /\ \A b \in 1 .. m : fed'[b] = fed[b]
  BY <1>1, <1>3 DEF Shake!Permute
<1>5. \A b \in 1 .. m : fed[b] = Row(b)
  BY <1>1 DEF Permuted, Shake!Xof!Blocks
<1>6. block = Row(m + 1)
  BY <1>1
<1> HIDE DEF m, len, Row
<1>7. ASSUME NEW b \in 1 .. m + 1 PROVE fed'[b] = Row(b)
  BY <1>1, <1>4, <1>5, <1>6
<1>8. fed' = [b \in 1 .. m + 1 |-> Row(b)]
  BY <1>1, <1>4, <1>7
<1>9. fed' = Shake!Xof!Blocks(len, m + 1)
  BY <1>8 DEF Shake!Xof!Blocks, Row
<1> QED
  BY <1>1, <1>4, <1>9 DEF Permuted, m, len

LEMMA AbsorbShake ==
  ASSUME ShakeSizes, ShakeInv, Shake!Absorb, UNCHANGED Shake!objVars
  PROVE  ShakeInv'
<1> DEFINE m == Len(fed)
           v == <<"msg", given + 1>>
           block == Shake!Xor(xored, cnt + 1, v)
<1>1. /\ Permuted /\ Absorbing /\ given < msgLen /\ phase = "absorb" /\ phase' = "absorb"
      /\ given' = given + 1 /\ UNCHANGED <<msgLen, out, outLen, absorbed, squeezed>>
  BY DEF ShakeInv, Shake!Absorb, Shake!objVars
<1>2. /\ Rate \in Nat /\ Rate > 0 /\ m \in Nat /\ msgLen \in Nat /\ cnt \in 0 .. Rate - 1
      /\ given \in Nat /\ given = m * Rate + cnt /\ m * Rate \in Nat
      /\ (m + 1) * Rate = m * Rate + 1 * Rate
  BY <1>1, Sums DEF Permuted, Absorbing, ShakeSizes
<1>3. block = [p \in 1 .. Rate |-> IF p <= cnt + 1 THEN {<<"msg", m * Rate + p>>} ELSE {}]
  <2>1. xored = [p \in 1 .. Rate |-> IF p <= cnt THEN {<<"msg", m * Rate + p>>} ELSE {}]
    BY <1>1 DEF Absorbing
  <2>2. v = <<"msg", m * Rate + (cnt + 1)>> /\ cnt + 1 \in 1 .. Rate
    BY <1>2
  <2>3. block = [xored EXCEPT ![cnt + 1] = {v}]
    <3>1. xored[cnt + 1] = {}
      BY <1>2, <2>1, <2>2
    <3>2. (xored[cnt + 1] \ {v}) \cup ({v} \ xored[cnt + 1]) = {v}
      BY <3>1
    <3> QED
      BY <3>2 DEF Shake!Xor
  <2> HIDE DEF m, v, block
  <2>4. block = [p \in 1 .. Rate |-> IF p = cnt + 1 THEN {v}
                                     ELSE IF p <= cnt THEN {<<"msg", m * Rate + p>>} ELSE {}]
    BY <2>1, <2>3
  <2>5. ASSUME NEW p \in 1 .. Rate
        PROVE (IF p = cnt + 1 THEN {v} ELSE IF p <= cnt THEN {<<"msg", m * Rate + p>>} ELSE {})
                 = IF p <= cnt + 1 THEN {<<"msg", m * Rate + p>>} ELSE {}
    <3>1. CASE p = cnt + 1
      BY <1>2, <2>2, <3>1
    <3>2. CASE p <= cnt
      BY <1>2, <3>2
    <3>3. CASE p > cnt + 1
      BY <1>2, <3>3
    <3> QED
      BY <1>2, <3>1, <3>2, <3>3
  <2> QED
    BY <2>4, <2>5
<1> HIDE DEF block
<1>4. CASE cnt + 1 >= Rate
  <2>1. cnt + 1 = Rate /\ cnt' = 0 /\ Shake!Permute(block)
    BY <1>2, <1>4 DEF Shake!Absorb, block, v
  <2>2. ASSUME NEW p \in 1 .. Rate
        PROVE {<<"msg", m * Rate + p>>} = Shake!Xof!PaddedCell(msgLen, m * Rate + p)
    <3> DEFINE q == msgLen \div Rate
               x == m * Rate + p
    <3>1. msgLen < (q + 1) * Rate
      BY <1>2, Quotient
    <3>2. x <= msgLen /\ x \in Nat /\ x # msgLen + 1
      BY <1>1, <1>2, <2>1
    <3> HIDE DEF x
    <3>3. x # (msgLen \div Rate + 1) * Rate
      BY <1>2, <3>1, <3>2
    <3> QED
      BY <3>2, <3>3 DEF Shake!Xof!PaddedCell, x
  <2>3. block = [p \in 1 .. Rate |-> Shake!Xof!PaddedCell(msgLen, m * Rate + p)]
    <3>1. \A p \in 1 .. Rate : p <= cnt + 1
      BY <1>2, <2>1
    <3>2. block = [p \in 1 .. Rate |-> {<<"msg", m * Rate + p>>}]
      BY <1>3, <3>1
    <3> QED
      BY <2>2, <3>2
  <2>4. Permuted' /\ Len(fed') = m + 1 /\ xored' = Shake!Cleared
    BY <1>1, <2>1, <2>3, PermuteNext DEF Shake!Permute
  <2>5. given' = Len(fed') * Rate + cnt' /\ given' \in 0 .. msgLen' /\ cnt' \in 0 .. Rate - 1
    BY <1>1, <1>2, <2>1, <2>4
  <2>6. xored' = [p \in 1 .. Rate |-> IF p <= cnt' THEN {<<"msg", Len(fed') * Rate + p>>} ELSE {}]
    BY <1>2, <2>1, <2>4 DEF Shake!Cleared
  <2> QED
    BY <1>1, <2>4, <2>5, <2>6 DEF ShakeInv, Absorbing
<1>5. CASE ~(cnt + 1 >= Rate)
  <2>1. xored' = block /\ cnt' = cnt + 1 /\ UNCHANGED fed
    BY <1>5 DEF Shake!Absorb, block, v
  <2>2. Permuted'
    BY <1>1, <2>1 DEF Permuted
  <2>3. Absorbing'
    BY <1>1, <1>2, <1>3, <1>5, <2>1 DEF Absorbing
  <2> QED
    BY <1>1, <2>2, <2>3 DEF ShakeInv
<1> QED
  BY <1>4, <1>5

LEMMA PadShake == ASSUME ShakeSizes, ShakeInv, Shake!Pad, UNCHANGED Shake!objVars PROVE ShakeInv'
<1> DEFINE m == Len(fed)
           len == msgLen
           q == len \div Rate
           block == Shake!Xor(Shake!Xor(xored, cnt + 1, <<"suffix", 0>>), Rate, <<"final", 0>>)
<1>1. /\ Permuted /\ Absorbing /\ given >= msgLen /\ phase = "absorb" /\ phase' = "squeeze"
      /\ cnt' = 0 /\ Shake!Permute(block) /\ UNCHANGED <<msgLen, out, outLen, absorbed, squeezed>>
  BY DEF ShakeInv, Shake!Pad, Shake!objVars
<1>2. /\ Rate \in Nat /\ Rate > 0 /\ m \in Nat /\ len \in Nat /\ cnt \in 0 .. Rate - 1
      /\ len = m * Rate + cnt /\ m * Rate \in Nat
      /\ (m + 1) * Rate = m * Rate + 1 * Rate
  BY <1>1, Sums DEF Permuted, Absorbing, ShakeSizes
<1>3. q = m
  BY <1>2, DivMod
<1> DEFINE S(p) == IF p <= cnt THEN {<<"msg", m * Rate + p>>} ELSE {}
<1>4. xored = [p \in 1 .. Rate |-> S(p)]
  BY <1>1 DEF Absorbing
<1>5. block = [p \in 1 .. Rate |-> Shake!Xof!PaddedCell(len, m * Rate + p)]
  <2> DEFINE s == <<"suffix", 0>>
             f == <<"final", 0>>
             one == Shake!Xor(xored, cnt + 1, s)
  <2>1. cnt + 1 \in 1 .. Rate /\ Rate \in 1 .. Rate
    BY <1>2
  <2>2. \A p : s \notin S(p) /\ f \notin S(p) /\ f # s
    OBVIOUS
  <2> HIDE DEF s, f, S
  <2>3. one = [p \in 1 .. Rate |-> IF p = cnt + 1 THEN S(p) \cup {s} ELSE S(p)]
    <3>1. (S(cnt + 1) \ {s}) \cup ({s} \ S(cnt + 1)) = S(cnt + 1) \cup {s}
      BY <2>2
    <3>2. one = [xored EXCEPT ![cnt + 1] = S(cnt + 1) \cup {s}]
      BY <1>4, <2>1, <3>1 DEF Shake!Xor
    <3> QED
      BY <1>4, <3>2
  <2> DEFINE T(p) == IF p = cnt + 1 THEN S(p) \cup {s} ELSE S(p)
  <2>4. one = [p \in 1 .. Rate |-> T(p)] /\ f \notin T(Rate)
    BY <2>2, <2>3
  <2>5. block = Shake!Xor(one, Rate, f)
    BY DEF s, f
  <2> HIDE DEF one, T, block
  <2>6. block = [p \in 1 .. Rate |-> IF p = Rate THEN T(p) \cup {f} ELSE T(p)]
    <3>1. (T(Rate) \ {f}) \cup ({f} \ T(Rate)) = T(Rate) \cup {f}
      BY <2>4
    <3>2. block = [one EXCEPT ![Rate] = T(Rate) \cup {f}]
      BY <2>1, <2>4, <2>5, <3>1 DEF Shake!Xor
    <3> QED
      BY <2>4, <3>2
  <2>7. ASSUME NEW p \in 1 .. Rate
        PROVE  (IF p = Rate THEN T(p) \cup {f} ELSE T(p)) = Shake!Xof!PaddedCell(len, m * Rate + p)
    <3> DEFINE x == m * Rate + p
    <3>1. /\ (x <= len) = (p <= cnt) /\ (x = len + 1) = (p = cnt + 1)
          /\ (x = (len \div Rate + 1) * Rate) = (p = Rate)
      BY <1>2, <1>3
    <3>2. S(p) = IF x <= len THEN {<<"msg", x>>} ELSE {}
      BY <3>1 DEF S
    <3> HIDE DEF x
    <3>3. Shake!Xof!PaddedCell(len, x) = S(p) \cup (IF p = cnt + 1 THEN {s} ELSE {})
                                      \cup (IF p = Rate THEN {f} ELSE {})
      BY <3>1, <3>2 DEF Shake!Xof!PaddedCell, s, f
    <3> QED
      BY <3>3 DEF T, x
  <2> QED
    BY <2>6, <2>7
<1> HIDE DEF block
<1>6. Permuted' /\ Len(fed') = m + 1 /\ xored' = Shake!Cleared
  BY <1>1, <1>5, PermuteNext DEF Shake!Permute
<1>7. out' = <<>> /\ out' \in Seq(StreamBytes) /\ Len(out') = 0
  BY <1>1 DEF Absorbing
<1>8. outLen' \in Nat
  BY <1>1 DEF ShakeInv, ShakeSizes
<1>9. Len(fed') = msgLen' \div Rate + 1
  BY <1>1, <1>3, <1>6
<1>10. (Len(fed') - (msgLen' \div Rate + 1)) * Rate = 0
  BY <1>2, <1>3, <1>6, <1>9
<1>11. Squeezing'
  BY <1>1, <1>2, <1>6, <1>7, <1>8, <1>9, <1>10 DEF Squeezing, Shake!Cleared
<1> QED
  BY <1>1, <1>6, <1>11 DEF ShakeInv
LEMMA NoBlocks == ASSUME NEW len PROVE Shake!Xof!Blocks(len, 0) = <<>>
<1>1. 1 .. 0 = {}
  OBVIOUS
<1>2. Shake!Xof!Blocks(len, 0) = [b \in {} |-> 0]
  BY <1>1 DEF Shake!Xof!Blocks
<1>3. <<>> = [b \in {} |-> 0]
  OBVIOUS
<1> QED
  BY <1>2, <1>3

LEMMA ShakeInit == ASSUME ShakeSizes, Shake!Init PROVE ShakeInv
<1>1. fed \in Seq(PaddedBlocks) /\ Len(fed) = 0
  BY DEF Shake!Init, Shake!SpongeInit
<1>2. Permuted
  BY <1>1, NoBlocks DEF Shake!Init, Shake!SpongeInit, Permuted
<1> QED
  BY <1>2 DEF Shake!Init, Shake!SpongeInit, ShakeInv

LEMMA UpdateShake ==
  ASSUME ShakeSizes, ShakeInv, NEW k \in Pieces, Shake!Update(k) PROVE ShakeInv'
<1>1. phase' = "idle" /\ absorbed' \in Nat /\ squeezed' \in Nat
  BY DEF ShakeSizes, ShakeInv, Shake!Update, Shake!spongeVars
<1>2. Permuted'
  BY DEF ShakeInv, Shake!Update, Shake!spongeVars, Permuted
<1> QED
  BY <1>1, <1>2 DEF ShakeInv

LEMMA SqueezeShake ==
  ASSUME ShakeSizes, ShakeInv, NEW k \in Pieces, Shake!Squeeze(k) PROVE ShakeInv'
<1>1. /\ phase' = "absorb" /\ fed' = <<>> /\ xored' = Shake!Cleared /\ cnt' = 0 /\ given' = 0
      /\ msgLen' = absorbed /\ out' = <<>> /\ outLen' = squeezed + k /\ squeezed + k <= MaxOut
      /\ absorbed' = absorbed /\ squeezed' = squeezed
  BY DEF Shake!Squeeze, Shake!Start, Shake!objVars
<1>2. absorbed \in Nat /\ squeezed \in Nat /\ Rate \in Nat /\ Rate > 0
  BY DEF ShakeInv, ShakeSizes
<1>3. fed' \in Seq(PaddedBlocks) /\ Len(fed') = 0
  BY <1>1
<1>4. Permuted'
  BY <1>1, <1>2, <1>3, NoBlocks DEF Permuted
<1>5. xored' = [p \in 1 .. Rate |-> IF p <= 0 THEN {<<"msg", Len(fed') * Rate + p>>} ELSE {}]
  BY <1>1 DEF Shake!Cleared
<1>6. Absorbing'
  BY <1>1, <1>2, <1>3, <1>5 DEF Absorbing
<1> QED
  BY <1>1, <1>2, <1>4, <1>6 DEF ShakeInv

LEMMA ReadShake == ASSUME ShakeSizes, ShakeInv, Shake!Read, UNCHANGED Shake!objVars PROVE ShakeInv'
<1> DEFINE m == Len(fed)
           len == msgLen
           q == len \div Rate
           t == Len(out)
<1>1. /\ Permuted /\ Squeezing /\ phase = "squeeze" /\ phase' = "squeeze" /\ t < outLen
      /\ UNCHANGED <<msgLen, outLen, absorbed, squeezed>>
  BY DEF ShakeInv, Shake!Read, Shake!objVars
<1>2. outLen \in Nat
  BY <1>1 DEF ShakeInv, ShakeSizes
<1>3. /\ Rate \in Nat /\ Rate > 0 /\ m \in Nat /\ len \in Nat /\ q \in Nat
      /\ t \in Nat /\ out \in Seq(StreamBytes)
  BY <1>1, Quotient DEF Permuted, Squeezing, ShakeSizes
<1>4. m >= q + 1 /\ cnt \in 0 .. Rate /\ t = (m - (q + 1)) * Rate + cnt
  BY <1>1 DEF Squeezing
<1>5. xored = Shake!Cleared /\ \A j \in 1 .. t : out[j] = Shake!Xof!StreamByte(len, j)
  BY <1>1 DEF Squeezing
<1>6. fed = Shake!Xof!Blocks(len, m)
  BY <1>1 DEF Permuted
<1> HIDE DEF m, len, q, t
<1> DEFINE byte == Shake!Xof!StreamByte(len, t + 1)
(* What is left: the blocks, the place, and that the byte is the next one. *)
<1>7. ASSUME Permuted', xored' = Shake!Cleared, Len(fed') >= q + 1, cnt' \in 0 .. Rate,
             t + 1 = (Len(fed') - (q + 1)) * Rate + cnt', out' = Append(out, byte)
      PROVE  ShakeInv'
  <2>1. t + 1 \in Nat /\ byte \in StreamBytes
    BY <1>3 DEF StreamBytes
  <2> HIDE DEF byte
  <2>2. /\ out' \in Seq(StreamBytes) /\ Len(out') = t + 1 /\ out'[t + 1] = byte
        /\ \A j \in 1 .. t : out'[j] = out[j]
    BY <1>3, <1>7, <2>1 DEF t
  <2>3. \A j \in 1 .. t + 1 : j \in 1 .. t \/ j = t + 1
    BY <1>3
  <2>4. \A j \in 1 .. Len(out') : out'[j] = Shake!Xof!StreamByte(len, j)
    BY <1>5, <2>2, <2>3 DEF byte
  <2>5. Len(out') <= outLen'
    BY <1>1, <1>2, <1>3, <2>2
  <2>6. Squeezing'
    BY <1>1, <1>7, <2>2, <2>4, <2>5 DEF Squeezing, q, len, Shake!Cleared
  <2> QED
    BY <1>1, <1>7, <2>6 DEF ShakeInv
<1>8. ASSUME NEW d \in Nat, NEW c \in 0 .. Rate - 1, t = d * Rate + c
      PROVE  byte = <<Shake!Xof!Blocks(len, q + 1 + d), c + 1>>
  <2> DEFINE u == t + 1
  <2>1. u - 1 = t
    BY <1>3
  <2>2. t \div Rate = d /\ t % Rate = c
    BY <1>3, <1>8, DivMod
  <2> HIDE DEF u
  <2>3. Shake!Xof!StreamByte(len, u)
          = <<Shake!Xof!Blocks(len, len \div Rate + 1 + (u - 1) \div Rate), ((u - 1) % Rate) + 1>>
    BY DEF Shake!Xof!StreamByte
  <2>4. Shake!Xof!StreamByte(len, u) = <<Shake!Xof!Blocks(len, q + 1 + d), c + 1>>
    BY <2>1, <2>2, <2>3 DEF q
  <2> QED
    BY <2>4 DEF u
<1>9. CASE cnt >= Rate
  <2> DEFINE d == m - q
  <2>1. cnt = Rate /\ cnt' = 1 /\ Shake!Permute(xored) /\ out' = Append(out, <<fed', 1>>)
    BY <1>3, <1>4, <1>9 DEF Shake!Read
  <2>2. d \in Nat /\ d - 1 \in Nat /\ m = q + d /\ m - (q + 1) = d - 1
    BY <1>3, <1>4
  <2> HIDE DEF d
  <2>3. t = d * Rate + 0
    <3>1. (d - 1) * Rate \in Nat /\ ((d - 1) + 1) * Rate = (d - 1) * Rate + 1 * Rate
      BY <1>3, <2>2, Sums
    <3>2. t = (d - 1) * Rate + Rate /\ (d - 1) + 1 = d
      BY <1>4, <2>1, <2>2
    <3> QED
      BY <1>3, <3>1, <3>2
  <2>4. byte = <<Shake!Xof!Blocks(len, q + 1 + d), 0 + 1>>
    BY <1>3, <1>8, <2>2, <2>3
  <2>5. ASSUME NEW p \in 1 .. Rate PROVE Shake!Xof!PaddedCell(len, m * Rate + p) = {}
    <3> DEFINE x == m * Rate + p
    <3>1. len < (q + 1) * Rate /\ (q + 1) * Rate \in Nat
      BY <1>3, Quotient DEF q
    <3>2. (q + 1) * Rate <= m * Rate /\ m * Rate \in Nat
      BY <1>3, <1>4, Order, Sums
    <3>3. x > (q + 1) * Rate /\ ~(x <= len) /\ x # len + 1 /\ x # (q + 1) * Rate
      BY <1>3, <3>1, <3>2
    <3> HIDE DEF x
    <3>4. Shake!Xof!PaddedCell(len, x) = {} \cup {} \cup {}
      BY <3>3 DEF Shake!Xof!PaddedCell, q
    <3> QED
      BY <3>4 DEF x
  <2>6. xored = [p \in 1 .. Rate |-> Shake!Xof!PaddedCell(len, m * Rate + p)]
    BY <1>5, <2>5 DEF Shake!Cleared
  <2>7. Permuted' /\ Len(fed') = m + 1
    BY <1>1, <2>1, <2>6, PermuteNext DEF m, len
  <2>8. fed' = Shake!Xof!Blocks(len, q + 1 + d)
    <3>1. m + 1 = q + 1 + d
      BY <1>3, <2>2
    <3> QED
      BY <1>1, <2>7, <3>1 DEF Permuted, len
  <2>9. xored' = Shake!Cleared /\ out' = Append(out, byte)
    BY <2>1, <2>4, <2>8 DEF Shake!Permute
  <2>10. Len(fed') >= q + 1 /\ cnt' \in 0 .. Rate
    BY <1>3, <1>4, <2>1, <2>7
  <2>11. t + 1 = (Len(fed') - (q + 1)) * Rate + cnt'
    <3>1. Len(fed') - (q + 1) = d
      BY <1>3, <2>2, <2>7
    <3>2. d * Rate \in Nat
      BY <1>3, <2>2, Sums
    <3> QED
      BY <2>1, <2>3, <3>1, <3>2
  <2> QED
    BY <1>7, <2>7, <2>9, <2>10, <2>11
<1>10. CASE ~(cnt >= Rate)
  <2> DEFINE d == m - (q + 1)
  <2>1. cnt' = cnt + 1 /\ UNCHANGED <<fed, xored>> /\ out' = Append(out, <<fed, cnt + 1>>)
    BY <1>10 DEF Shake!Read
  <2>2. d \in Nat /\ m = q + 1 + d /\ cnt \in 0 .. Rate - 1 /\ t = d * Rate + cnt
    BY <1>3, <1>4, <1>10
  <2>3. byte = <<Shake!Xof!Blocks(len, q + 1 + d), cnt + 1>>
    BY <1>8, <2>2
  <2>4. out' = Append(out, byte)
    BY <1>6, <2>1, <2>2, <2>3
  <2>5. Permuted' /\ xored' = Shake!Cleared
    BY <1>1, <1>5, <2>1 DEF Permuted, Shake!Cleared
  <2>6. Len(fed') >= q + 1 /\ cnt' \in 0 .. Rate
    BY <1>3, <1>4, <2>1, <2>2 DEF m
  <2>7. t + 1 = (Len(fed') - (q + 1)) * Rate + cnt'
    <3>1. Len(fed') - (q + 1) = d
      BY <2>1 DEF m
    <3> HIDE DEF d
    <3>2. d * Rate \in Nat
      BY <1>3, <2>2, Sums
    <3> QED
      BY <2>1, <2>2, <3>1, <3>2
  <2> QED
    BY <1>7, <2>4, <2>5, <2>6, <2>7
<1> QED
  BY <1>9, <1>10

LEMMA ReturnShake == ASSUME ShakeSizes, ShakeInv, Shake!Return PROVE ShakeInv'
<1>1. phase' = "idle" /\ absorbed' \in Nat /\ squeezed' \in Nat
  BY DEF ShakeSizes, ShakeInv, Shake!Return, Shake!Finished
<1>2. Permuted'
  BY DEF ShakeInv, Shake!Return, Permuted
<1> QED
  BY <1>1, <1>2 DEF ShakeInv

LEMMA NextShakeInv == ASSUME ShakeSizes, ShakeInv, [Shake!Next]_(Shake!vars) PROVE ShakeInv'
<1>1. CASE UNCHANGED Shake!vars
  BY <1>1 DEF ShakeInv, Shake!vars, Shake!spongeVars, Shake!objVars, Permuted, Absorbing, Squeezing,
              Shake!Cleared
<1>2. CASE Shake!Next
  BY <1>2, UpdateShake, SqueezeShake, AbsorbShake, PadShake, ReadShake, ReturnShake DEF Shake!Next
<1> QED
  BY <1>1, <1>2

LEMMA FedHolds == ASSUME ShakeSizes, ShakeInv PROVE Shake!FedIsPadded
<1>1. phase = "squeeze" => Len(fed) > msgLen \div Rate
  <2> SUFFICES ASSUME phase = "squeeze" PROVE Len(fed) > msgLen \div Rate
    OBVIOUS
  <2>1. Permuted /\ Squeezing
    BY DEF ShakeInv
  <2>2. msgLen \div Rate \in Nat /\ Len(fed) \in Nat /\ Len(fed) >= msgLen \div Rate + 1
    BY <2>1, Quotient DEF Squeezing, Permuted, ShakeSizes
  <2> QED
    BY <2>2
<1> QED
  BY <1>1 DEF Shake!FedIsPadded, ShakeInv, Permuted

(* Until a call returns, nothing the caller sees of the stream has moved. *)
LEMMA ShakeSteps ==
  ASSUME ShakeSizes, ShakeInv, [Shake!Next]_(Shake!vars)
  PROVE  [Shake!Xof!Next]_<<absorbed, squeezed, result>>
<1>1. ASSUME NEW k \in Pieces, Shake!Update(k) PROVE Shake!Xof!Next
  BY <1>1 DEF Shake!Update, Shake!Xof!Next, Shake!Xof!Update
<1>2. ASSUME NEW k \in Pieces, Shake!Squeeze(k) PROVE UNCHANGED <<absorbed, squeezed, result>>
  BY <1>2 DEF Shake!Squeeze, Shake!objVars
<1>3. ASSUME Shake!Return PROVE Shake!Xof!Next
  <2>1. Permuted /\ Squeezing /\ msgLen = absorbed /\ squeezed \in Nat
    BY <1>3 DEF Shake!Return, Shake!Finished, ShakeInv
  <2>2. PICK k \in Pieces : squeezed + k <= MaxOut /\ outLen = squeezed + k
    BY <1>3 DEF Shake!Return, Shake!Finished, ShakeInv
  <2>3. k \in Nat /\ out \in Seq(StreamBytes) /\ Len(out) = outLen
    BY <1>3, <2>1, <2>2 DEF Shake!Return, Shake!Finished, Squeezing, ShakeSizes
  <2>4. \A j \in 1 .. outLen : out[j] = Shake!Xof!StreamByte(absorbed, j)
    BY <2>1, <2>3 DEF Squeezing
  <2> DEFINE u == squeezed + 1
             piece == SubSeq(out, u, outLen)
  <2>5. u \in 1 .. Len(out) + 1 /\ outLen \in u - 1 .. Len(out) /\ outLen - u + 1 = k
    BY <2>1, <2>2, <2>3
  <2>6. piece = [j \in 1 .. k |-> Shake!Xof!StreamByte(absorbed, squeezed + j)]
    <3>1. piece = [j \in 1 .. k |-> out[u + j - 1]]
      <4> HIDE DEF u
      <4>1. piece = [j \in 1 .. outLen - u + 1 |-> out[u + j - 1]]
        BY <2>3, <2>5
      <4> QED
        BY <2>5, <4>1
    <3>2. ASSUME NEW j \in 1 .. k
          PROVE  out[u + j - 1] = Shake!Xof!StreamByte(absorbed, squeezed + j)
      <4>1. u + j - 1 = squeezed + j /\ squeezed + j \in 1 .. outLen
        BY <2>1, <2>2, <2>3
      <4> QED
        BY <2>4, <4>1
    <3> HIDE DEF u, piece
    <3> QED
      BY <3>1, <3>2
  <2>7. result' = piece /\ squeezed' = squeezed + k /\ absorbed' = absorbed
    BY <1>3, <2>2 DEF Shake!Return
  <2> QED
    BY <2>2, <2>6, <2>7 DEF Shake!Xof!Next, Shake!Xof!Squeeze
<1>4. ASSUME UNCHANGED Shake!objVars PROVE UNCHANGED <<absorbed, squeezed, result>>
  BY <1>4 DEF Shake!objVars
<1> QED
  BY <1>1, <1>2, <1>3, <1>4 DEF Shake!Next, Shake!vars

(* What the spec of the runs lets SHAKE do, whichever hash is at work. *)
LEMMA ShakeOf == HashSpec => Shake!Spec
<1>1. HashInit => Shake!Init
  BY DEF HashInit
<1>2. [HashNext]_<<vars, shakeVars, machine>> => [Shake!Next]_(Shake!vars)
  <2>1. UNCHANGED shakeVars => UNCHANGED Shake!vars
    BY DEF shakeVars, Shake!vars, Shake!spongeVars, Shake!objVars
  <2> QED
    BY <2>1 DEF HashNext
<1> QED
  BY <1>1, <1>2, PTL DEF HashSpec, Shake!Spec

(* sha3_update and shake_xof feed the permutation the padded message, cut   *)
(* into blocks of the rate, and shake_out nothing behind it, for any rate   *)
(* and any message (FedIsPadded).                                           *)
THEOREM ShakeFeedsPadded == ASSUME ShakeSizes PROVE HashSpec => []FedIsPadded
<1>1. Shake!Init => ShakeInv
  BY ShakeInit
<1>2. ShakeInv /\ [Shake!Next]_(Shake!vars) => ShakeInv'
  BY NextShakeInv
<1>3. ShakeInv => FedIsPadded
  BY FedHolds DEF FedIsPadded
<1> QED
  BY <1>1, <1>2, <1>3, ShakeOf, PTL DEF Shake!Spec

(* The pieces SHAKE.squeeze returns are consecutive pieces of the stream of *)
(* everything absorbed, and update starts a new stream, for any rate and    *)
(* any sizes of pieces (ImplementsXof).                                     *)
THEOREM ShakeImplements == ASSUME ShakeSizes PROVE HashSpec => ImplementsXof
<1>1. Shake!Init => ShakeInv /\ Shake!Xof!Init
  BY ShakeInit DEF Shake!Init, Shake!Xof!Init
<1>2. ShakeInv /\ [Shake!Next]_(Shake!vars) => ShakeInv'
  BY NextShakeInv
<1>3. ShakeInv /\ [Shake!Next]_(Shake!vars) => [Shake!Xof!Next]_<<absorbed, squeezed, result>>
  BY ShakeSteps
<1> QED
  BY <1>1, <1>2, <1>3, ShakeOf, PTL DEF Shake!Spec, ImplementsXof, Shake!ImplementsXof, Shake!Xof!Spec
=============================================================================
