---------------------------- MODULE CipherProofs ----------------------------
(***************************************************************************)
(* The calls on ciphers for any size of block, any permutation of the      *)
(* blocks and any length of text: what was encrypted decrypts to what it   *)
(* was, in every mode.                                                     *)
(***************************************************************************)
EXTENDS Macs, NatLemmas, SequenceTheorems, TLAPS

Whole(s, n) == s \in Seq(Byte) /\ Len(s) = n * BlockSize

-----------------------------------------------------------------------------
(* Positions and blocks. *)
LEMMA CountOfWhole == ASSUME NEW n \in Nat, NEW s, Whole(s, n) PROVE Count(s) = n
<1>1. BlockSize \in Nat /\ BlockSize > 0 /\ n * BlockSize \in Nat
  BY SizeAssumption, Sums
<1>2. (n + 1) * BlockSize = n * BlockSize + 1 * BlockSize
  BY <1>1, Sums
<1>3. n * BlockSize < (n + 1) * BlockSize
  BY <1>1, <1>2
<1>4. (n * BlockSize) \div BlockSize = n
  BY <1>1, <1>3, QuotientIs
<1> QED
  BY <1>4 DEF Count, Whole

(* Every position of a text is in one of its blocks. *)
LEMMA InBlock ==
  ASSUME NEW n \in Nat, NEW j \in 1 .. n * BlockSize
  PROVE  \E k \in 0 .. n - 1, a \in 1 .. BlockSize : j = k * BlockSize + a
<1>1. BlockSize \in Nat /\ BlockSize > 0 /\ n * BlockSize \in Nat
  BY SizeAssumption, Sums
<1> DEFINE k == (j - 1) \div BlockSize
           a == j - k * BlockSize
<1>2. j - 1 \in Nat
  BY <1>1
<1>3. k \in Nat /\ k * BlockSize <= j - 1 /\ j - 1 < (k + 1) * BlockSize
  BY <1>1, <1>2, Quotient
<1> HIDE DEF k
<1>4. k * BlockSize < n * BlockSize
  BY <1>1, <1>2, <1>3, Sums
<1>5. k < n
  BY <1>1, <1>3, <1>4, Cancel
<1>6. (k + 1) * BlockSize = k * BlockSize + 1 * BlockSize /\ k * BlockSize \in Nat
  BY <1>1, <1>3, Sums
<1>7. a \in 1 .. BlockSize /\ j = k * BlockSize + a
  BY <1>1, <1>2, <1>3, <1>6
<1> QED
  BY <1>3, <1>5, <1>7

(* And the other way round. *)
LEMMA Inside ==
  ASSUME NEW n \in Nat, NEW k \in 0 .. n - 1, NEW a \in 1 .. BlockSize
  PROVE  /\ k * BlockSize + a \in 1 .. n * BlockSize
         /\ k * BlockSize \in Nat /\ n * BlockSize \in Nat
         /\ (k + 1) * BlockSize = k * BlockSize + BlockSize
<1>1. BlockSize \in Nat /\ BlockSize > 0
  BY SizeAssumption
<1>2. k \in Nat /\ k + 1 \in Nat /\ k + 1 <= n
  OBVIOUS
<1>3. (k + 1) * BlockSize = k * BlockSize + 1 * BlockSize /\ k * BlockSize \in Nat /\ n * BlockSize \in Nat
  BY <1>1, <1>2, Sums
<1>4. (k + 1) * BlockSize <= n * BlockSize
  BY <1>1, <1>2, Order
<1> QED
  BY <1>1, <1>3, <1>4

LEMMA BlockType ==
  ASSUME NEW n \in Nat, NEW s, Whole(s, n), NEW k \in 0 .. n - 1
  PROVE  BlockOf(s, k) \in Block
<1>1. ASSUME NEW a \in 1 .. BlockSize PROVE s[k * BlockSize + a] \in Byte
  <2>1. k * BlockSize + a \in 1 .. Len(s)
    BY Inside DEF Whole
  <2> QED
    BY <2>1, ElementOfSeq DEF Whole
<1> QED
  BY <1>1 DEF BlockOf, Block

LEMMA SameBlocks ==
  ASSUME NEW n \in Nat, NEW s, NEW t, Whole(s, n), Whole(t, n),
         \A k \in 0 .. n - 1 : BlockOf(s, k) = BlockOf(t, k)
  PROVE  s = t
<1>1. ASSUME NEW j \in 1 .. Len(s) PROVE s[j] = t[j]
  <2>1. PICK k \in 0 .. n - 1, a \in 1 .. BlockSize : j = k * BlockSize + a
    BY InBlock DEF Whole
  <2>2. BlockOf(s, k)[a] = BlockOf(t, k)[a]
    OBVIOUS
  <2> QED
    BY <2>1, <2>2 DEF BlockOf
<1> QED
  BY <1>1, SeqEqual DEF Whole

LEMMA PutBlock ==
  ASSUME NEW n \in Nat, NEW s, Whole(s, n), NEW k \in 0 .. n - 1, NEW b \in Block
  PROVE  /\ Whole(Put(s, k, b), n)
         /\ BlockOf(Put(s, k, b), k) = b
         /\ \A m \in 0 .. n - 1 : m # k => BlockOf(Put(s, k, b), m) = BlockOf(s, m)
<1>1. BlockSize \in Nat /\ BlockSize > 0 /\ n * BlockSize \in Nat
  BY SizeAssumption, Sums
<1>2. DOMAIN s = 1 .. n * BlockSize /\ Len(s) = n * BlockSize
  BY LenProperties DEF Whole
<1>3. k * BlockSize \in Nat /\ (k + 1) * BlockSize = k * BlockSize + BlockSize
  <2>1. 1 \in 1 .. BlockSize
    BY <1>1
  <2> QED
    BY <2>1, Inside
<1> DEFINE t == Put(s, k, b)
<1>4. \A j \in 1 .. n * BlockSize :
         t[j] = IF k * BlockSize < j /\ j <= k * BlockSize + BlockSize THEN b[j - k * BlockSize] ELSE s[j]
  BY <1>2, <1>3 DEF Put
<1>5. DOMAIN t = 1 .. n * BlockSize /\ t = [j \in 1 .. n * BlockSize |-> t[j]]
  BY <1>2 DEF Put
<1> HIDE DEF t
<1>6. ASSUME NEW j \in 1 .. n * BlockSize PROVE t[j] \in Byte
  <2>1. CASE k * BlockSize < j /\ j <= k * BlockSize + BlockSize
    <3>1. j - k * BlockSize \in 1 .. BlockSize
      BY <1>1, <1>3, <2>1
    <3> QED
      BY <1>4, <2>1, <3>1 DEF Block
  <2>2. CASE ~(k * BlockSize < j /\ j <= k * BlockSize + BlockSize)
    BY <1>2, <1>4, <2>2, ElementOfSeq DEF Whole
  <2> QED
    BY <2>1, <2>2
<1>7. t \in [1 .. n * BlockSize -> Byte]
  BY <1>5, <1>6
<1>8. Whole(t, n)
  BY <1>1, <1>7 DEF Whole
<1>9. BlockOf(t, k) = b
  <2>1. ASSUME NEW a \in 1 .. BlockSize PROVE t[k * BlockSize + a] = b[a]
    <3> DEFINE j == k * BlockSize + a
    <3>1. j \in 1 .. n * BlockSize
      BY Inside
    <3>2. k * BlockSize < j /\ j <= k * BlockSize + BlockSize /\ j - k * BlockSize = a
      BY <1>1, <1>3
    <3> HIDE DEF j
    <3>3. t[j] = b[a]
      BY <1>4, <3>1, <3>2
    <3> QED
      BY <3>3 DEF j
  <2> QED
    BY <2>1 DEF BlockOf, Block
<1>10. ASSUME NEW m \in 0 .. n - 1, m # k PROVE BlockOf(t, m) = BlockOf(s, m)
  <2>1. ASSUME NEW a \in 1 .. BlockSize PROVE t[m * BlockSize + a] = s[m * BlockSize + a]
    <3>1. /\ m * BlockSize + a \in 1 .. n * BlockSize
          /\ m * BlockSize \in Nat /\ (m + 1) * BlockSize = m * BlockSize + BlockSize
      BY Inside
    <3>2. CASE m < k
      <4>1. (m + 1) * BlockSize <= k * BlockSize
        BY <1>1, <3>2, Order
      <4> QED
        BY <1>1, <1>3, <1>4, <3>1, <4>1
    <3>3. CASE k < m
      <4>1. (k + 1) * BlockSize <= m * BlockSize
        BY <1>1, <3>3, Order
      <4> QED
        BY <1>1, <1>3, <1>4, <3>1, <4>1
    <3> QED
      BY <1>10, <3>2, <3>3
  <2> QED
    BY <2>1 DEF BlockOf
<1> QED
  BY <1>8, <1>9, <1>10 DEF t

-----------------------------------------------------------------------------
(* Padding, and what undoes it. *)
LEMMA PadWhole ==
  ASSUME NEW s \in Seq(Byte)
  PROVE  /\ Pad(s) \in Seq(Byte) /\ \E n \in Nat : Whole(Pad(s), n)
         /\ ValidPadding(Pad(s)) /\ Unpad(Pad(s)) = s
<1> DEFINE r == Len(s) % BlockSize
           q == Len(s) \div BlockSize
           v == BlockSize - r
           tail == [j \in 1 .. v |-> v]
           t == s \o tail
           l == Len(s)
<1>1. BlockSize \in Nat /\ BlockSize > 0 /\ ByteMod \in Nat /\ ByteMod > BlockSize
  BY SizeAssumption
<1>2. l \in Nat
  BY LenProperties
<1>3. q \in Nat /\ r \in 0 .. BlockSize - 1 /\ l = q * BlockSize + r
  BY <1>1, <1>2, Division
<1> HIDE DEF r, q, l
<1>4. v \in 1 .. BlockSize /\ v \in Byte
  BY <1>1, <1>3 DEF Byte
<1> HIDE DEF v
<1>5. tail \in Seq(Byte) /\ Len(tail) = v /\ \A j \in 1 .. v : tail[j] = v
  BY <1>1, <1>4
<1> HIDE DEF tail
<1>6. /\ t \in Seq(Byte) /\ Len(t) = l + v
      /\ \A j \in 1 .. l + v : t[j] = IF j <= l THEN s[j] ELSE tail[j - l]
  BY <1>5, ConcatProperties DEF l
<1>7. Pad(s) = t
  BY DEF Pad, tail, v, r
<1> HIDE DEF t
<1>8. Whole(t, q + 1)
  <2>1. (q + 1) * BlockSize = q * BlockSize + 1 * BlockSize /\ q * BlockSize \in Nat
    BY <1>1, <1>3, Sums
  <2>2. l + v = q * BlockSize + BlockSize
    BY <1>1, <1>3, <2>1 DEF v
  <2> QED
    BY <1>1, <1>6, <2>1, <2>2 DEF Whole
<1>9. t # <<>> /\ t[Len(t)] = v
  BY <1>2, <1>4, <1>5, <1>6
<1>10. ASSUME NEW j \in Len(t) - t[Len(t)] + 1 .. Len(t) PROVE t[j] = t[Len(t)]
  <2>1. Len(t) = l + v /\ t[Len(t)] = v
    BY <1>6, <1>9
  <2>2. j \in 1 .. l + v /\ ~(j <= l) /\ j - l \in 1 .. v
    BY <1>1, <1>2, <1>4, <2>1
  <2> QED
    BY <1>5, <1>6, <2>1, <2>2
<1>11. ValidPadding(t)
  BY <1>4, <1>9, <1>10 DEF ValidPadding
<1>12. SubSeq(t, 1, l) = s
  <2>1. /\ \A j \in 1 .. l + 1 - 1 : t[j] \in Byte
    BY <1>1, <1>2, <1>4, <1>6, ElementOfSeq
  <2> DEFINE u == SubSeq(t, 1, l)
  <2>2. /\ u \in Seq(Byte) /\ Len(u) = IF 1 <= l THEN l - 1 + 1 ELSE 0
        /\ \A j \in 1 .. l - 1 + 1 : u[j] = t[1 + j - 1]
    BY <1>2, <2>1, SubSeqProperties
  <2> HIDE DEF u
  <2>3. Len(u) = l /\ \A j \in 1 .. l : u[j] = t[j]
    BY <1>2, <2>2
  <2>4. \A j \in 1 .. l : t[j] = s[j]
    BY <1>1, <1>2, <1>4, <1>6
  <2>5. u = s
    BY <2>2, <2>3, <2>4, SeqEqual DEF l
  <2> QED
    BY <2>5 DEF u
<1>13. Unpad(t) = s
  <2>1. Len(t) - t[Len(t)] = l
    BY <1>1, <1>2, <1>4, <1>6, <1>9
  <2> QED
    BY <1>12, <2>1 DEF Unpad
<1> QED
  BY <1>3, <1>6, <1>7, <1>8, <1>11, <1>13

-----------------------------------------------------------------------------
(* One block under a mode: Enc and Dec with the chain c, on bytes that come *)
(* from w, and the chain After it, which depends on the block x of the      *)
(* ciphertext only.                                                         *)
Flip(w, b) == IF w = "file" /\ LittleEndian THEN [j \in 1 .. BlockSize |-> b[BlockSize + 1 - j]]
              ELSE b

Enc(m, w, c, b) == IF m = "ecb" THEN Encipher(b)
                   ELSE IF m = "des" THEN Flip(w, Encipher(Flip(w, b)))
                   ELSE IF m = "cbc" THEN Encipher(XorBlock(b, c))
                   ELSE XorBlock(b, Encipher(c))

Dec(m, w, c, x) == IF m = "ecb" THEN Decipher(x)
                   ELSE IF m = "des" THEN Flip(w, Decipher(Flip(w, x)))
                   ELSE IF m = "cbc" THEN XorBlock(Decipher(x), c)
                   ELSE XorBlock(x, Encipher(c))

After(m, c, x) == IF m \in {"cbc", "cfb"} THEN x
                  ELSE IF m = "ofb" THEN Encipher(c)
                  ELSE IF m = "ctr" THEN Increment(c)
                  ELSE c

LEMMA Flips == ASSUME NEW w, NEW b \in Block
  PROVE Flip(w, b) \in Block /\ Flip(w, Flip(w, b)) = b
<1> DEFINE r == [j \in 1 .. BlockSize |-> b[BlockSize + 1 - j]]
<1>1. \A j \in 1 .. BlockSize : BlockSize + 1 - j \in 1 .. BlockSize /\ BlockSize + 1 - (BlockSize + 1 - j) = j
  BY SizeAssumption
<1>2. r \in Block /\ \A j \in 1 .. BlockSize : r[BlockSize + 1 - j] = b[j]
  BY <1>1 DEF Block
<1> HIDE DEF r
<1>3. [j \in 1 .. BlockSize |-> r[BlockSize + 1 - j]] = b
  BY <1>2 DEF Block
<1>4. CASE w = "file" /\ LittleEndian
  <2>1. Flip(w, b) = r
    BY <1>4 DEF Flip, r
  <2> QED
    BY <1>2, <1>3, <1>4, <2>1 DEF Flip
<1>5. CASE ~(w = "file" /\ LittleEndian)
  BY <1>5 DEF Flip
<1> QED
  BY <1>4, <1>5

LEMMA Xors == ASSUME NEW a \in Block, NEW b \in Block
  PROVE XorBlock(a, b) \in Block /\ XorBlock(XorBlock(a, b), b) = a
  BY XorAssumption DEF XorBlock, Block

LEMMA Increments == ASSUME NEW b \in Block PROVE Increment(b) \in Block
<1>1. ASSUME NEW x \in Byte PROVE (x + 1) % ByteMod \in Byte
  <2>1. ByteMod \in Nat /\ ByteMod > 0 /\ x + 1 \in Nat
    BY SizeAssumption DEF Byte
  <2> QED
    BY <2>1, Division DEF Byte
<1> QED
  BY <1>1 DEF Increment, Block

LEMMA Inverted ==
  ASSUME NEW m, NEW w, NEW c \in Block, NEW b \in Block
  PROVE  /\ Enc(m, w, c, b) \in Block /\ Dec(m, w, c, b) \in Block
         /\ Dec(m, w, c, Enc(m, w, c, b)) = b /\ Enc(m, w, c, Dec(m, w, c, b)) = b
         /\ After(m, c, b) \in Block
<1>1. \A x \in Block : /\ Encipher(x) \in Block /\ Decipher(x) \in Block
                       /\ Decipher(Encipher(x)) = x /\ Encipher(Decipher(x)) = x
  BY CipherAssumption
<1>2. \A x \in Block : Flip(w, x) \in Block /\ Flip(w, Flip(w, x)) = x
  BY Flips
<1>3. \A x, y \in Block : XorBlock(x, y) \in Block /\ XorBlock(XorBlock(x, y), y) = x
  BY Xors
<1>4. Increment(c) \in Block
  BY Increments
<1> QED
  BY <1>1, <1>2, <1>3, <1>4 DEF Enc, Dec, After

Modes == {"ecb", "cbc", "cfb", "ofb", "ctr", "des"}

(* A turn is that of its mode. *)
LEMMA Turns ==
  ASSUME OneBlock, chain \in Block, Here \in Block
  PROVE  /\ mode \in Modes
         /\ at < Count(input) /\ at' = at + 1 /\ UNCHANGED <<mode, forward, way>>
         /\ \E b \in Block : input' = Put(input, at, b)
         /\ output' = Put(output, at, IF forward THEN Enc(mode, way, chain, Here)
                                                 ELSE Dec(mode, way, chain, Here))
         /\ chain' = After(mode, chain, IF forward THEN Enc(mode, way, chain, Here) ELSE Here)
<1> DEFINE h == Here
<1>1. /\ Enc(mode, way, chain, h) \in Block /\ Dec(mode, way, chain, h) \in Block
      /\ Encipher(h) \in Block /\ Decipher(h) \in Block
  BY Inverted, CipherAssumption
<1> HIDE DEF h
<1>2. CASE Ecb
  BY <1>1, <1>2 DEF Ecb, Turn, Modes, Enc, Dec, After, h
<1>3. CASE EncryptCbc
  BY <1>1, <1>3 DEF EncryptCbc, Turn, Modes, Enc, Dec, After, h
<1>4. CASE DecryptCbc
  BY <1>1, <1>4 DEF DecryptCbc, Turn, Modes, Enc, Dec, After, h
<1>5. CASE EncryptCfb
  BY <1>1, <1>5 DEF EncryptCfb, Turn, Modes, Enc, Dec, After, h
<1>6. CASE DecryptCfb
  BY <1>1, <1>6 DEF DecryptCfb, Turn, Modes, Enc, Dec, After, h
<1>7. CASE Ofb
  BY <1>1, <1>7 DEF Ofb, Turn, Modes, Enc, Dec, After, h
<1>8. CASE Ctr
  BY <1>1, <1>8 DEF Ctr, Turn, Modes, Enc, Dec, After, h
<1>9. CASE Des
  <2>1. \A b : Loaded(b) = Flip(way, b)
    BY DEF Loaded, Flip
  <2> QED
    BY <1>1, <1>9, <2>1 DEF Des, Turn, Modes, Enc, Dec, After, h
<1> QED
  BY <1>2, <1>3, <1>4, <1>5, <1>6, <1>7, <1>8, <1>9 DEF OneBlock

-----------------------------------------------------------------------------
(* ch are the chains along the first n blocks of cipher, which is text      *)
(* under mode m from iv. *)
Linked(m, iv, w, text, cipher, n, ch) ==
  /\ ch \in [0 .. n -> Block]
  /\ ~Unchained(m) => ch[0] = iv
  /\ \A k \in 0 .. n - 1 : /\ BlockOf(cipher, k) = Enc(m, w, ch[k], BlockOf(text, k))
                           /\ ch[k + 1] = After(m, ch[k], BlockOf(cipher, k))

EncryptedAs(m, iv, w, text, cipher) ==
  /\ Whole(text, Count(cipher)) /\ Whole(cipher, Count(cipher))
  /\ \E ch : Linked(m, iv, w, text, cipher, Count(cipher), ch)

PlacesOK ==
  /\ place \in [Places -> Seq(Byte)] /\ made = [p \in Places |-> made[p]]
  /\ \A p \in Places : made[p] # Nothing =>
       LET r == made[p]
       IN  r.plain \in Seq(Byte) /\ EncryptedAs(r.mode, r.iv, r.way, Pad(r.plain), place[p])

(* What the loop reads, before it overwrites its copy. *)
Source == IF forward THEN Pad(place[call.from]) ELSE place[call.from]
Size == Count(Source)

CallOK ==
  /\ call.iv \in Ivs \cup {NoIv} /\ call.from \in Places /\ call.to \in Places /\ call.capacity \in Nat
  /\ ~Unchained(mode) => call.iv # NoIv
  /\ ~Short(forward, way, call)

(* The loop has done `at' of the n blocks of s, from iv; those done are a   *)
(* text and its ciphertext, whichever came first.                           *)
Plain(s) == IF forward THEN s ELSE output
Cipher(s) == IF forward THEN output ELSE s

Running(s, n, iv) ==
  /\ n \in Nat /\ Whole(s, n) /\ Whole(input, n) /\ Whole(output, n) /\ at \in 0 .. n
  /\ mode \in Modes /\ forward \in BOOLEAN /\ chain \in Block
  /\ \A k \in at .. n - 1 : BlockOf(input, k) = BlockOf(s, k)
  /\ \E ch : Linked(mode, iv, way, Plain(s), Cipher(s), at, ch) /\ ch[at] = chain

IInv ==
  /\ pc \in {"idle", "loop"} /\ PlacesOK
  /\ pc = "loop" => CallOK /\ Running(Source, Size, call.iv)

-----------------------------------------------------------------------------
(* Neither the iv of a mode without a chain nor the way of one without      *)
(* words is part of what is computed.                                       *)
LEMMA LinkedSame ==
  ASSUME NEW m, NEW iv, NEW iv2, NEW w, NEW w2, NEW text, NEW cipher, NEW n, NEW ch,
         Linked(m, iv, w, text, cipher, n, ch),
         Unchained(m) \/ iv = iv2, m # "des" \/ w = w2
  PROVE  Linked(m, iv2, w2, text, cipher, n, ch)
<1>1. \A c, b : Enc(m, w, c, b) = Enc(m, w2, c, b)
  BY DEF Enc
<1> QED
  BY <1>1 DEF Linked

LEMMA Prefix == ASSUME NEW s \in Seq(Byte), NEW n \in Int, n <= Len(s)
  PROVE SubSeq(s, 1, n) \in Seq(Byte) /\ (n >= 0 => Len(SubSeq(s, 1, n)) = n)
<1>1. \A j \in 1 .. n : s[j] \in Byte
  BY LenProperties, ElementOfSeq
<1> DEFINE u == SubSeq(s, 1, n)
<1>2. u \in Seq(Byte) /\ Len(u) = IF 1 <= n THEN n - 1 + 1 ELSE 0
  BY <1>1, SubSeqProperties
<1> HIDE DEF u
<1> QED
  BY <1>2 DEF u

LEMMA Cleared == ASSUME NEW n \in Nat PROVE Zeros(n) \in Seq(Byte) /\ Len(Zeros(n)) = n
<1>1. 0 \in Byte
  BY SizeAssumption DEF Byte
<1> QED
  BY <1>1 DEF Zeros

LEMMA InitIInv == Init => IInv
<1> SUFFICES ASSUME Init PROVE IInv
  OBVIOUS
<1>1. PICK s \in Contents : place = [p \in Places |-> IF p = First THEN s ELSE <<>>]
  BY DEF Init
<1>2. s \in Seq(Byte) /\ <<>> \in Seq(Byte)
  BY CallsAssumption
<1>3. place \in [Places -> Seq(Byte)]
  BY <1>1, <1>2
<1>4. made = [p \in Places |-> Nothing] /\ pc = "idle"
  BY DEF Init
<1>5. made = [p \in Places |-> made[p]] /\ \A p \in Places : made[p] = Nothing
  BY <1>4
<1> QED
  BY <1>3, <1>4, <1>5 DEF IInv, PlacesOK

-----------------------------------------------------------------------------
LEMMA RefuseKeeps ==
  ASSUME IInv, pc = "idle", NEW status, Refused(status)
  PROVE  IInv'
<1>1. pc' = "idle" /\ PlacesOK
  BY DEF Refused, IInv
<1>2. PlacesOK'
  BY <1>1 DEF Refused, PlacesOK, EncryptedAs
<1> QED
  BY <1>1, <1>2 DEF IInv

LEMMA LoadKeeps ==
  ASSUME IInv, pc = "idle",
         NEW m \in Modes, NEW f \in BOOLEAN, NEW w \in {"buffer", "file"},
         NEW iv \in Ivs \cup {NoIv}, NEW p \in Places, NEW q \in Places, NEW room \in Capacities,
         Load(m, f, w, [iv |-> iv, from |-> p, to |-> q, capacity |-> room])
  PROVE  IInv'
<1> DEFINE c == [iv |-> iv, from |-> p, to |-> q, capacity |-> room]
           s == IF f THEN Pad(place[p]) ELSE place[p]
           n == Count(s)
<1>1. c.iv = iv /\ c.from = p /\ c.to = q /\ c.capacity = room
  OBVIOUS
<1> HIDE DEF c
<1>2. /\ ~Incomplete(m, iv) /\ ~Short(f, w, c) /\ ~Ragged(f, w, c)
      /\ pc' = "loop" /\ call' = c /\ mode' = m /\ forward' = f /\ way' = w
      /\ input' = s /\ output' = Zeros(Len(input'))
      /\ chain' = (IF iv = NoIv THEN Zeros(BlockSize) ELSE iv) /\ at' = 0
      /\ UNCHANGED <<place, made>>
  BY <1>1 DEF Load, Incomplete, c
<1>3. place[p] \in Seq(Byte) /\ place \in [Places -> Seq(Byte)]
  BY DEF IInv, PlacesOK
<1>4. PlacesOK'
  BY <1>2 DEF IInv, PlacesOK, EncryptedAs
<1>5. Whole(s, n) /\ n \in Nat
  <2>1. CASE f
    <3>1. PICK k \in Nat : Whole(Pad(place[p]), k)
      BY <1>3, PadWhole
    <3> QED
      BY <2>1, <3>1, CountOfWhole
  <2>2. CASE ~f
    <3>1. Len(place[p]) % BlockSize = 0
      BY <1>1, <1>2, <2>2 DEF Ragged
    <3>2. Len(place[p]) \in Nat /\ BlockSize \in Nat /\ BlockSize > 0
      BY <1>3, SizeAssumption
    <3>3. n \in Nat /\ Len(place[p]) = n * BlockSize
      <4> DEFINE x == Len(place[p])
                 d == x \div BlockSize
                 r == x % BlockSize
      <4>1. d \in Nat /\ x = d * BlockSize + r
        BY <3>2, Division
      <4>2. r = 0 /\ n = d
        BY <2>2, <3>1 DEF Count
      <4> HIDE DEF d, r, n
      <4>3. x = d * BlockSize
        BY <3>2, <4>1, <4>2, Sums
      <4> QED
        BY <4>1, <4>2, <4>3
    <3> QED
      BY <1>3, <2>2, <3>3 DEF Whole
  <2> QED
    BY <2>1, <2>2
<1>6. Source' = s /\ Size' = n
  BY <1>1, <1>2 DEF Source, Size, Count
<1> HIDE DEF s, n
<1>7. chain' \in Block
  <2>1. Zeros(BlockSize) \in Block
    BY SizeAssumption DEF Zeros, Block, Byte
  <2> QED
    BY <1>2, <2>1, CallsAssumption
<1>8. CallOK'
  BY <1>1, <1>2, <1>7, CallsAssumption DEF CallOK, Incomplete, Short
<1>9. Whole(output', n)
  BY <1>2, <1>5, Cleared DEF Whole
<1>10. \E ch : Linked(m, iv, w, Plain(Source)', Cipher(Source)', 0, ch) /\ ch[0] = chain'
  <2> DEFINE ch == [k \in 0 .. 0 |-> chain']
  <2>1. ~Unchained(m) => chain' = iv
    BY <1>2 DEF Incomplete
  <2>2. Linked(m, iv, w, Plain(Source)', Cipher(Source)', 0, ch) /\ ch[0] = chain'
    BY <1>7, <2>1 DEF Linked
  <2> HIDE DEF ch
  <2> QED
    BY <2>2
<1>11. Running(Source, Size, call.iv)'
  BY <1>1, <1>2, <1>5, <1>6, <1>7, <1>9, <1>10 DEF Running
<1> QED
  BY <1>2, <1>4, <1>8, <1>11 DEF IInv

-----------------------------------------------------------------------------
LEMMA LoopRuns ==
  ASSUME NEW s, NEW n, NEW iv, Running(s, n, iv), OneBlock
  PROVE  Running(s, n, iv)' /\ UNCHANGED <<mode, forward, way>>
<1> DEFINE h == Here
           x == IF forward THEN Enc(mode, way, chain, h) ELSE h
           b == IF forward THEN x ELSE Dec(mode, way, chain, h)
<1>3. at < n
  <2>1. Count(input) = n /\ n \in Nat
    BY CountOfWhole DEF Running
  <2>2. at < Count(input)
    BY DEF OneBlock, Ecb, EncryptCbc, DecryptCbc, EncryptCfb, DecryptCfb, Ofb, Ctr, Des, Turn
  <2> QED
    BY <2>1, <2>2
<1>4. /\ n \in Nat /\ at \in 0 .. n - 1 /\ at + 1 \in 0 .. n /\ at \in Nat
      /\ Whole(s, n) /\ Whole(input, n) /\ Whole(output, n)
  BY <1>3 DEF Running
<1>5. h \in Block /\ h = BlockOf(s, at)
  BY <1>4, BlockType DEF Running, Here
<1>6. chain \in Block
  BY DEF Running
<1>7. x \in Block /\ b \in Block /\ After(mode, chain, x) \in Block
  BY <1>5, <1>6, Inverted
<1>8. PICK old \in Block : input' = Put(input, at, old)
  BY <1>5, <1>6, Turns DEF h
<1>9. /\ at' = at + 1 /\ UNCHANGED <<mode, forward, way>>
      /\ output' = Put(output, at, b) /\ chain' = After(mode, chain, x)
  BY <1>5, <1>6, Turns DEF h
<1> HIDE DEF h, x, b
<1>11. /\ Whole(input', n)
       /\ \A m \in 0 .. n - 1 : m # at => BlockOf(input', m) = BlockOf(input, m)
  BY <1>4, <1>8, PutBlock
<1>12. /\ Whole(output', n) /\ BlockOf(output', at) = b
       /\ \A m \in 0 .. n - 1 : m # at => BlockOf(output', m) = BlockOf(output, m)
  BY <1>4, <1>7, <1>9, PutBlock
<1>15. ASSUME NEW k \in at + 1 .. n - 1 PROVE BlockOf(input', k) = BlockOf(s, k)
  <2>1. k \in at .. n - 1 /\ k \in 0 .. n - 1 /\ k # at
    BY <1>4
  <2> QED
    BY <1>11, <2>1 DEF Running
<1>16. \E d : Linked(mode', iv, way', Plain(s)', Cipher(s)', at', d) /\ d[at'] = chain'
  <2>1. PICK ch : Linked(mode, iv, way, Plain(s), Cipher(s), at, ch) /\ ch[at] = chain
    BY DEF Running
  <2> DEFINE more == [k \in 0 .. at + 1 |-> IF k <= at THEN ch[k] ELSE chain']
  <2>2. /\ more \in [0 .. at + 1 -> Block] /\ more[0] = ch[0]
        /\ \A k \in 0 .. at : more[k] = ch[k]
        /\ more[at + 1] = chain'
    BY <1>4, <1>7, <1>9, <2>1 DEF Linked
  <2> HIDE DEF more
  <2>3. /\ \A k \in 0 .. at - 1 : BlockOf(Plain(s)', k) = BlockOf(Plain(s), k) /\ BlockOf(Cipher(s)', k) = BlockOf(Cipher(s), k)
        /\ BlockOf(Cipher(s)', at) = x /\ x = Enc(mode, way, chain, BlockOf(Plain(s)', at))
    <3>1. \A k \in 0 .. at - 1 : k \in 0 .. n - 1 /\ k # at
      BY <1>4
    <3>2. CASE forward
      <4>1. Plain(s) = s /\ Plain(s)' = s /\ Cipher(s) = output /\ Cipher(s)' = output'
        BY <1>9, <3>2 DEF Plain, Cipher
      <4>2. b = x /\ x = Enc(mode, way, chain, h)
        BY <3>2 DEF b, x
      <4> QED
        BY <1>5, <1>12, <3>1, <4>1, <4>2
    <3>3. CASE ~forward
      <4>1. Plain(s) = output /\ Plain(s)' = output' /\ Cipher(s) = s /\ Cipher(s)' = s
        BY <1>9, <3>3 DEF Plain, Cipher
      <4>2. x = h /\ b = Dec(mode, way, chain, h)
        BY <3>3 DEF b, x
      <4>3. Enc(mode, way, chain, b) = h
        BY <1>5, <1>6, <4>2, Inverted
      <4> QED
        BY <1>5, <1>12, <3>1, <4>1, <4>2, <4>3
    <3> QED
      BY <3>2, <3>3
  <2>4. ASSUME NEW k \in 0 .. at
        PROVE  /\ BlockOf(Cipher(s)', k) = Enc(mode, way, more[k], BlockOf(Plain(s)', k))
               /\ more[k + 1] = After(mode, more[k], BlockOf(Cipher(s)', k))
    <3>1. CASE k = at
      <4>1. more[at] = chain
        BY <1>4, <2>1, <2>2
      <4> QED
        BY <1>9, <2>2, <2>3, <3>1, <4>1
    <3>2. CASE k # at
      <4>1. k \in 0 .. at - 1 /\ k + 1 \in 0 .. at
        BY <1>4, <3>2
      <4>2. more[k] = ch[k] /\ more[k + 1] = ch[k + 1]
        BY <2>2, <4>1
      <4> QED
        BY <2>1, <2>3, <4>1, <4>2 DEF Linked
    <3> QED
      BY <3>1, <3>2
  <2> DEFINE u == at + 1
  <2>5. ASSUME NEW k \in 0 .. u - 1
        PROVE  /\ BlockOf(Cipher(s)', k) = Enc(mode, way, more[k], BlockOf(Plain(s)', k))
               /\ more[k + 1] = After(mode, more[k], BlockOf(Cipher(s)', k))
    <3>1. k \in 0 .. at
      BY <1>4
    <3> QED
      BY <2>4, <3>1
  <2>6. Linked(mode, iv, way, Plain(s)', Cipher(s)', u, more)
    <3>1. ~Unchained(mode) => more[0] = iv
      BY <2>1, <2>2 DEF Linked
    <3>2. more \in [0 .. u -> Block]
      BY <2>2
    <3> HIDE DEF u
    <3> QED
      BY <2>5, <3>1, <3>2 DEF Linked
  <2> QED
    BY <1>9, <2>2, <2>6
<1> QED
  BY <1>4, <1>7, <1>9, <1>11, <1>12, <1>15, <1>16 DEF Running

LEMMA LoopKeeps == IInv /\ Loop => IInv'
<1> SUFFICES ASSUME IInv, Loop PROVE IInv'
  OBVIOUS
<1>1. pc = "loop" /\ OneBlock /\ UNCHANGED callVars
  BY DEF Loop
<1>2. CallOK /\ PlacesOK /\ Running(Source, Size, call.iv)
  BY <1>1 DEF IInv
<1>3. PICK s, n, iv : s = Source /\ n = Size /\ iv = call.iv
  OBVIOUS
<1>4. Running(s, n, iv)
  BY <1>2, <1>3
<1>5. Running(s, n, iv)' /\ UNCHANGED <<mode, forward, way>>
  BY <1>1, <1>4, LoopRuns
<1>6. Source' = s /\ Size' = n /\ (call.iv)' = iv
  BY <1>1, <1>3, <1>5 DEF callVars, Source, Size
<1>7. Plain(s)' = Plain(Source)' /\ Cipher(s)' = Cipher(Source)'
  BY <1>6 DEF Plain, Cipher
<1>8. Running(Source, Size, call.iv)'
  BY <1>5, <1>6, <1>7 DEF Running
<1>9. PlacesOK' /\ pc' = pc
  BY <1>1, <1>2 DEF callVars, PlacesOK, EncryptedAs
<1>10. CallOK'
  BY <1>1, <1>2, <1>5 DEF CallOK, callVars, Short
<1> QED
  BY <1>1, <1>8, <1>9, <1>10 DEF IInv

-----------------------------------------------------------------------------
Request(iv, p, q, room) == [iv |-> iv, from |-> p, to |-> q, capacity |-> room]

LEMMA Begins ==
  Begin => \E m \in Modes, f \in BOOLEAN, w \in {"buffer", "file"}, iv \in Ivs \cup {NoIv},
              p \in Places, q \in Places, room \in Capacities :
             \/ \E status : Refused(status)
             \/ Load(m, f, w, Request(iv, p, q, room))
<1> SUFFICES ASSUME Begin
             PROVE  \E m \in Modes, f \in BOOLEAN, w \in {"buffer", "file"}, iv \in Ivs \cup {NoIv},
                       p \in Places, q \in Places, room \in Capacities :
                      \/ \E status : Refused(status)
                      \/ Load(m, f, w, Request(iv, p, q, room))
  OBVIOUS
<1>1. PICK m \in Modes, f \in BOOLEAN, w \in {"buffer", "file"}, iv \in Ivs \cup {NoIv},
           p \in Places, q \in Places, room \in Capacities :
        LET c == Request(IF m = "des" THEN NoIv ELSE iv, p, q, room)
        IN  Refuse(m, f, w, c) \/ Load(m, f, w, c)
  BY DEF Begin, Modes, Request
<1> DEFINE v == IF m = "des" THEN NoIv ELSE iv
<1>2. v \in Ivs \cup {NoIv}
  OBVIOUS
<1>3. Refuse(m, f, w, Request(v, p, q, room)) \/ Load(m, f, w, Request(v, p, q, room))
  BY <1>1
<1> HIDE DEF v
<1>4. CASE Load(m, f, w, Request(v, p, q, room))
  BY <1>2, <1>4
<1>5. CASE Refuse(m, f, w, Request(v, p, q, room))
  <2>1. \E status : Refused(status)
    BY <1>5 DEF Refuse
  <2> QED
    BY <1>2, <2>1
<1> QED
  BY <1>3, <1>4, <1>5

LEMMA BeginKeeps == IInv /\ Begin => IInv' /\ UNCHANGED place
<1> SUFFICES ASSUME IInv, Begin PROVE IInv' /\ UNCHANGED place
  OBVIOUS
<1>1. pc = "idle"
  BY DEF Begin
<1>2. PICK m \in Modes, f \in BOOLEAN, w \in {"buffer", "file"}, iv \in Ivs \cup {NoIv},
           p \in Places, q \in Places, room \in Capacities :
        \/ \E status : Refused(status)
        \/ Load(m, f, w, Request(iv, p, q, room))
  BY Begins
<1>3. CASE Load(m, f, w, Request(iv, p, q, room))
  <2>1. Load(m, f, w, [iv |-> iv, from |-> p, to |-> q, capacity |-> room])
    BY <1>3 DEF Request
  <2>2. UNCHANGED place
    BY <1>3 DEF Load
  <2> QED
    BY <1>1, <1>2, <2>1, <2>2, LoadKeeps
<1>4. ASSUME NEW status, Refused(status) PROVE IInv' /\ UNCHANGED place
  BY <1>1, <1>4, RefuseKeeps DEF Refused
<1> QED
  BY <1>2, <1>3, <1>4

(* What is left where a call returns without a result. *)
LEMMA ReturnKeeps ==
  ASSUME IInv, pc' = "idle", UNCHANGED <<place, made>>
  PROVE  IInv'
<1>1. PlacesOK'
  BY DEF IInv, PlacesOK, EncryptedAs
<1> QED
  BY <1>1 DEF IInv

LEMMA DeliverKeeps ==
  ASSUME IInv, pc = "loop", NEW s \in Seq(Byte), NEW record, Deliver(s, record),
         record # Nothing =>
           record.plain \in Seq(Byte) /\ EncryptedAs(record.mode, record.iv, record.way, Pad(record.plain), s)
  PROVE  IInv'
<1>1. pc' = "idle" /\ PlacesOK /\ call.to \in Places
  BY DEF Deliver, Return, IInv, CallOK
<1>2. CASE UNCHANGED <<place, made>>
  BY <1>1, <1>2, ReturnKeeps
<1>3. ASSUME NEW t \in Seq(Byte), NEW r,
             r # Nothing => r.plain \in Seq(Byte) /\ EncryptedAs(r.mode, r.iv, r.way, Pad(r.plain), t),
             place' = [place EXCEPT ![call.to] = t], made' = [made EXCEPT ![call.to] = r]
      PROVE  PlacesOK'
  <2>1. place' \in [Places -> Seq(Byte)] /\ made' = [p \in Places |-> made'[p]]
    BY <1>1, <1>3 DEF PlacesOK
  <2>2. ASSUME NEW p \in Places
        PROVE  (p = call.to /\ place'[p] = t /\ made'[p] = r)
                 \/ (p # call.to /\ place'[p] = place[p] /\ made'[p] = made[p])
    <3>1. place = [i \in Places |-> place[i]] /\ made = [i \in Places |-> made[i]]
      BY <1>1 DEF PlacesOK
    <3> QED
      BY <1>3, <3>1
  <2>3. ASSUME NEW p \in Places, made'[p] # Nothing
        PROVE  /\ made'[p].plain \in Seq(Byte)
               /\ EncryptedAs(made'[p].mode, made'[p].iv, made'[p].way, Pad(made'[p].plain), place'[p])
    BY <1>1, <1>3, <2>2, <2>3 DEF PlacesOK
  <2> QED
    BY <2>1, <2>3 DEF PlacesOK, EncryptedAs
<1>4. CASE place' = [place EXCEPT ![call.to] = s] /\ made' = [made EXCEPT ![call.to] = record]
  BY <1>1, <1>3, <1>4 DEF IInv
<1>5. ASSUME NEW n \in 0 .. Len(s),
             place' = [place EXCEPT ![call.to] = SubSeq(s, 1, n)],
             made' = [made EXCEPT ![call.to] = Nothing]
      PROVE  IInv'
  <2>1. SubSeq(s, 1, n) \in Seq(Byte)
    BY Prefix, LenProperties
  <2> QED
    BY <1>1, <1>3, <1>5, <2>1 DEF IInv
<1> QED
  BY <1>2, <1>4, <1>5 DEF Deliver

(* The loop has ended: everything was done. *)
LEMMA AllDone ==
  ASSUME IInv, Done
  PROVE  /\ Size \in Nat /\ at = Size
         /\ Whole(output, Size) /\ Whole(Source, Size)
<1>1. Running(Source, Size, call.iv)
  BY DEF IInv, Done
<1>2. Count(input) = Size
  BY <1>1, CountOfWhole DEF Running
<1> QED
  BY <1>1, <1>2 DEF Running, Done

LEMMA FinishEncryptKeeps == IInv /\ FinishEncrypt => IInv'
<1> SUFFICES ASSUME IInv, FinishEncrypt PROVE IInv'
  OBVIOUS
<1> DEFINE s == place[call.from]
           r == Record(s)
<1>1. pc = "loop" /\ Done /\ forward /\ Deliver(output, r)
  BY DEF FinishEncrypt, Done
<1>2. Size \in Nat /\ at = Size /\ Whole(output, Size) /\ Whole(Source, Size)
  BY <1>1, AllDone
<1>3. Source = Pad(s)
  BY <1>1 DEF Source
<1>4. CallOK /\ Running(Source, Size, call.iv) /\ PlacesOK
  BY <1>1 DEF IInv
<1>5. s \in Seq(Byte)
  BY <1>4 DEF CallOK, PlacesOK
<1>6. PICK ch : Linked(mode, call.iv, way, Source, output, at, ch)
  BY <1>1, <1>4 DEF Running, Plain, Cipher
<1>7. /\ r.mode = mode /\ r.plain = s
      /\ r.iv = IF Unchained(mode) THEN NoIv ELSE call.iv
      /\ r.way = IF mode = "des" THEN way ELSE "any"
  BY DEF Record
<1> HIDE DEF r, s
<1>8. Linked(mode, r.iv, r.way, Source, output, at, ch)
  BY <1>6, <1>7, LinkedSame
<1>9. Count(output) = Size
  BY <1>2, CountOfWhole
<1>10. EncryptedAs(r.mode, r.iv, r.way, Pad(r.plain), output)
  BY <1>2, <1>3, <1>7, <1>8, <1>9 DEF EncryptedAs
<1> QED
  BY <1>1, <1>2, <1>5, <1>7, <1>10, DeliverKeeps DEF Whole

LEMMA FinishDecryptKeeps == IInv /\ FinishDecrypt => IInv'
<1> SUFFICES ASSUME IInv, FinishDecrypt PROVE IInv'
  OBVIOUS
<1>1. pc = "loop" /\ Done
  BY DEF FinishDecrypt, Done
<1>2. output \in Seq(Byte)
  BY <1>1, AllDone DEF Whole
<1>3. CASE pc' = "idle" /\ UNCHANGED <<place, made>>
  BY <1>3, ReturnKeeps
<1>4. ASSUME ValidPadding(output), Deliver(Unpad(output), Nothing) PROVE IInv'
  <2> DEFINE l == Len(output)
             v == output[l]
  <2>1. l \in Nat /\ v \in 1 .. BlockSize /\ BlockSize \in Nat
    BY <1>2, <1>4, SizeAssumption DEF ValidPadding
  <2> HIDE DEF l, v
  <2>2. l - v \in Int /\ l - v <= l
    BY <2>1
  <2>3. SubSeq(output, 1, l - v) \in Seq(Byte)
    BY <1>2, <2>2, Prefix DEF l
  <2> QED
    BY <1>1, <1>4, <2>3, DeliverKeeps DEF Unpad, l, v
<1> QED
  BY <1>3, <1>4 DEF FinishDecrypt, Stop, Return

LEMMA NextIInv == IInv /\ [Next]_vars => IInv'
<1> SUFFICES ASSUME IInv, [Next]_vars PROVE IInv'
  OBVIOUS
<1>1. CASE Begin
  BY <1>1, BeginKeeps
<1>2. CASE Loop
  BY <1>2, LoopKeeps
<1>3. CASE FinishEncrypt
  BY <1>3, FinishEncryptKeeps
<1>4. CASE FinishDecrypt
  BY <1>4, FinishDecryptKeeps
<1>5. CASE UNCHANGED vars
  <2> USE <1>5 DEF vars, loopVars, callVars
  <2>1. PlacesOK' = PlacesOK
    BY DEF PlacesOK, EncryptedAs
  <2>2. Source' = Source /\ Size' = Size
    BY DEF Source, Size
  <2>3. CallOK' = CallOK
    BY DEF CallOK, Short
  <2>4. Running(Source, Size, call.iv)' = Running(Source, Size, call.iv)
    BY <2>2 DEF Running, Plain, Cipher
  <2> QED
    BY <2>1, <2>3, <2>4 DEF IInv
<1> QED
  BY <1>1, <1>2, <1>3, <1>4, <1>5 DEF Next

LEMMA SpecIInv == Spec => []IInv
  BY InitIInv, NextIInv, PTL DEF Spec

-----------------------------------------------------------------------------
(* A ciphertext has one text.                                               *)
LEMMA OneText ==
  ASSUME NEW m, NEW iv, NEW w, NEW n \in Nat, NEW s, NEW t, NEW c, NEW ch, NEW d,
         Whole(s, n), Whole(t, n),
         Linked(m, iv, w, s, c, n, ch), Linked(m, iv, w, t, c, n, d)
  PROVE  s = t
<1> DEFINE T == {k \in 0 .. n : ~Unchained(m) => ch[k] = d[k]}
<1>1. 0 \in T
  BY DEF Linked
<1>2. ASSUME NEW i \in 1 .. n, i - 1 \in T PROVE i \in T
  <2> DEFINE k == i - 1
  <2>1. k \in 0 .. n - 1 /\ i = k + 1
    OBVIOUS
  <2>2. ~Unchained(m) => ch[k] = d[k]
    BY <1>2
  <2> HIDE DEF k
  <2>3. ch[k + 1] = After(m, ch[k], BlockOf(c, k)) /\ d[k + 1] = After(m, d[k], BlockOf(c, k))
    BY <2>1 DEF Linked
  <2> QED
    BY <2>1, <2>2, <2>3
<1> HIDE DEF T
<1>3. \A k \in 0 .. n : k \in T
  BY <1>1, <1>2, StepInduction
<1>4. ASSUME NEW k \in 0 .. n - 1 PROVE BlockOf(s, k) = BlockOf(t, k)
  <2> DEFINE x == BlockOf(c, k)
             b == BlockOf(s, k)
             e == BlockOf(t, k)
             u == ch[k]
             v == d[k]
  <2>1. b \in Block /\ e \in Block
    BY BlockType
  <2>2. k \in 0 .. n
    OBVIOUS
  <2>3. u \in Block /\ v \in Block /\ x = Enc(m, w, u, b) /\ x = Enc(m, w, v, e)
    BY <2>2 DEF Linked
  <2>4. ~Unchained(m) => u = v
    <3>1. k \in T
      BY <1>3, <2>2
    <3>2. ~Unchained(m) => ch[k] = d[k]
      BY <3>1 DEF T
    <3> QED
      BY <3>2 DEF u, v
  <2> HIDE DEF x, b, e, u, v
  <2>5. Dec(m, w, u, x) = b /\ Dec(m, w, v, x) = e
    <3>1. \A y, z \in Block : Dec(m, w, y, Enc(m, w, y, z)) = z
      BY Inverted
    <3>2. u \in Block /\ v \in Block
      BY <2>3
    <3>3. Dec(m, w, u, Enc(m, w, u, b)) = b
      BY ONLY <2>1, <3>1, <3>2
    <3>4. Dec(m, w, v, Enc(m, w, v, e)) = e
      BY ONLY <2>1, <3>1, <3>2
    <3> QED
      BY ONLY <2>3, <3>3, <3>4
  <2>6. Dec(m, w, u, x) = Dec(m, w, v, x)
    <3>1. CASE Unchained(m)
      BY <3>1 DEF Unchained, Dec
    <3> QED
      BY <2>4, <3>1
  <2> QED
    BY <2>5, <2>6 DEF b, e
<1> QED
  BY <1>4, SameBlocks

(* The place was encrypted the way it is decrypted now. *)
Matches == made[call.from] # Nothing /\ made[call.from] = Record(made[call.from].plain)

(* The decryption of what was encrypted the same way has the padded text. *)
LEMMA OutputIsText ==
  ASSUME IInv, Done, ~forward, Matches
  PROVE  /\ ValidPadding(output) /\ output # <<>>
         /\ Unpad(output) = made[call.from].plain
<1> DEFINE r == made[call.from]
           t == r.plain
<1>1. Size \in Nat /\ at = Size /\ Whole(output, Size) /\ Source = place[call.from]
  BY AllDone DEF Source
<1>2. Running(Source, Size, call.iv) /\ PlacesOK /\ CallOK
  BY DEF IInv, Done
<1>3. PICK ch : Linked(mode, call.iv, way, output, Source, Size, ch)
  BY <1>1, <1>2 DEF Running, Plain, Cipher
<1>4. /\ r.mode = mode
      /\ r.iv = IF Unchained(mode) THEN NoIv ELSE call.iv
      /\ r.way = IF mode = "des" THEN way ELSE "any"
  BY DEF Matches, Record
<1>5. t \in Seq(Byte) /\ EncryptedAs(r.mode, r.iv, r.way, Pad(t), Source)
  BY <1>1, <1>2 DEF PlacesOK, CallOK, Matches
<1> HIDE DEF t, r
<1>6. Whole(Pad(t), Size) /\ \E d : Linked(r.mode, r.iv, r.way, Pad(t), Source, Size, d)
  BY <1>5 DEF EncryptedAs, Size
<1>7. PICK d : Linked(mode, r.iv, r.way, Pad(t), Source, Size, d)
  BY <1>4, <1>6
<1>8. Linked(mode, call.iv, way, Pad(t), Source, Size, d)
  BY <1>4, <1>7, LinkedSame
<1>9. output = Pad(t)
  BY <1>1, <1>3, <1>6, <1>8, OneText
<1>10. ValidPadding(output) /\ Unpad(output) = t
  BY <1>5, <1>9, PadWhole
<1> QED
  BY <1>10 DEF ValidPadding, t, r

(* The key stream of OFB. *)
LEMMA StreamBlocks ==
  ASSUME NEW iv \in Block, NEW n \in Nat
  PROVE  \E R : /\ R[0] = iv /\ \A i \in 1 .. n : R[i] = Encipher(R[i - 1])
                /\ R[n] = StreamBlock(iv, n)
                /\ \A i \in 0 .. n : R[i] \in Block
<1> DEFINE G == [u \in (1 .. n) \X Block |-> Encipher(u[2])]
<1>1. \A i \in 1 .. n : \A x \in Block : G[<<i, x>>] = Encipher(x) /\ G[<<i, x>>] \in Block
  BY CipherAssumption
<1> HIDE DEF G
<1>2. Steps(G, n, Block)
  BY <1>1 DEF Steps
<1>3. PICK f : f \in [0 .. n -> Block] /\ f[0] = iv /\ \A i \in 1 .. n : f[i] = G[<<i, f[i - 1]>>]
  BY <1>2, StepRecursion
<1>4. ASSUME NEW i \in 1 .. n PROVE f[i] = Encipher(f[i - 1])
  <2>1. i - 1 \in 0 .. n
    OBVIOUS
  <2>2. f[i - 1] \in Block
    BY <1>3, <2>1
  <2> QED
    BY <1>1, <1>3, <2>2
<1>5. f = [i \in 0 .. n |-> IF i = 0 THEN iv ELSE Encipher(f[i - 1])]
  BY <1>3, <1>4
<1> DEFINE It == CHOOSE R : R = [i \in 0 .. n |-> IF i = 0 THEN iv ELSE Encipher(R[i - 1])]
<1>6. It = [i \in 0 .. n |-> IF i = 0 THEN iv ELSE Encipher(It[i - 1])]
  BY <1>5
<1>7. StreamBlock(iv, n) = It[n]
  BY DEF StreamBlock
<1> HIDE DEF It
<1>8. It[0] = iv /\ \A i \in 1 .. n : It[i] = Encipher(It[i - 1])
  BY <1>6
<1> DEFINE T == {i \in 0 .. n : It[i] \in Block}
<1>9. 0 \in T /\ \A i \in 1 .. n : i - 1 \in T => i \in T
  BY <1>8, CipherAssumption
<1> HIDE DEF T
<1>10. \A i \in 0 .. n : i \in T
  BY <1>9, StepInduction
<1> QED
  BY <1>7, <1>8, <1>10 DEF T

LEMMA StreamSteps ==
  ASSUME NEW iv \in Block, NEW n \in Nat
  PROVE  /\ StreamBlock(iv, n) \in Block /\ StreamBlock(iv, 0) = iv
         /\ StreamBlock(iv, n + 1) = Encipher(StreamBlock(iv, n))
<1>1. PICK P : /\ P[0] = iv /\ \A i \in 1 .. n : P[i] = Encipher(P[i - 1])
               /\ P[n] = StreamBlock(iv, n)
               /\ \A i \in 0 .. n : P[i] \in Block
  BY StreamBlocks
<1>2. PICK Q : /\ Q[0] = iv /\ \A i \in 1 .. n + 1 : Q[i] = Encipher(Q[i - 1])
               /\ Q[n + 1] = StreamBlock(iv, n + 1)
  BY n + 1 \in Nat, StreamBlocks
<1>3. PICK Z : Z[0] = iv /\ Z[0] = StreamBlock(iv, 0)
  BY 0 \in Nat, StreamBlocks
<1> DEFINE T == {i \in 0 .. n : P[i] = Q[i]}
<1>4. 0 \in T
  BY <1>1, <1>2
<1>5. ASSUME NEW i \in 1 .. n, i - 1 \in T PROVE i \in T
  <2>1. i \in 1 .. n + 1 /\ P[i - 1] = Q[i - 1]
    BY <1>5
  <2> QED
    BY <1>1, <1>2, <2>1
<1> HIDE DEF T
<1>6. \A i \in 0 .. n : i \in T
  BY <1>4, <1>5, StepInduction
<1>7. P[n] = Q[n]
  BY <1>6 DEF T
<1>8. Q[n + 1] = Encipher(Q[n + 1 - 1]) /\ n + 1 - 1 = n
  BY <1>2
<1> QED
  BY <1>1, <1>2, <1>3, <1>7, <1>8

(* The number of a block, and the blocks as the digits of one. *)
LEMMA ValueIs ==
  ASSUME NEW b \in Block
  PROVE  /\ Value(b) = Digits(ByteMod, b, BlockSize) /\ Blocks = Pow(ByteMod, BlockSize)
         /\ AreDigits(b, ByteMod, BlockSize) /\ Numbers(b, BlockSize)
         /\ Value(b) \in 0 .. Blocks - 1 /\ Blocks \in Nat /\ Blocks > 0
<1>1. BlockSize \in Nat /\ ByteMod \in Nat /\ ByteMod > 0
  BY SizeAssumption
<1>2. Len(b) = BlockSize
  BY <1>1 DEF Block
<1>3. Value(b) = Digits(ByteMod, b, Len(b))
  BY DEF Value, Digits
<1>4. Blocks = Pow(ByteMod, BlockSize)
  BY DEF Blocks, Pow
<1>5. AreDigits(b, ByteMod, BlockSize) /\ Numbers(b, BlockSize)
  BY <1>1 DEF AreDigits, Numbers, Block, Byte
<1>6. Digits(ByteMod, b, BlockSize) \in Nat /\ Digits(ByteMod, b, BlockSize) < Pow(ByteMod, BlockSize)
  BY <1>1, <1>5, DigitsBelow, BlockSize \in 0 .. BlockSize
<1>7. Pow(ByteMod, BlockSize) \in Nat /\ Pow(ByteMod, BlockSize) > 0
  BY <1>1, PowPositive
<1> QED
  BY <1>2, <1>3, <1>4, <1>5, <1>6, <1>7

LEMMA SameNumber ==
  ASSUME NEW b \in Block, NEW c \in Block, Value(b) = Value(c)
  PROVE  b = c
<1>1. \A i \in 1 .. BlockSize : b[i] = c[i]
  BY ValueIs, DigitsUnique, SizeAssumption
<1>2. b = [i \in 1 .. BlockSize |-> b[i]] /\ c = [i \in 1 .. BlockSize |-> c[i]]
  BY DEF Block
<1> HIDE DEF Block
<1> QED
  BY <1>1, <1>2

(* The carry goes through every byte. *)
LEMMA Counts == ASSUME NEW b \in Block PROVE Value(Increment(b)) = (Value(b) + 1) % Blocks
<1> DEFINE M == ByteMod
           B == BlockSize
           c == Increment(b)
           W(n) == Digits(M, b, n)
           V(n) == Digits(M, c, n)
           Full(n) == \A d \in n + 1 .. B : b[d] = M - 1
           T == {n \in 0 .. B : /\ Full(n) => V(n) = W(n) + 1 \/ (V(n) = 0 /\ W(n) + 1 = Pow(M, n))
                                /\ ~Full(n) => V(n) = W(n)}
<1>1. M \in Nat /\ M > 0 /\ B \in Nat
  BY SizeAssumption
<1>2. c \in Block
  BY Increments
<1>3. \A n \in 1 .. B : b[n] \in 0 .. M - 1 /\ c[n] \in 0 .. M - 1
  BY <1>2 DEF Block, Byte
<1>4. \A n \in 1 .. B : c[n] = IF Full(n) THEN (b[n] + 1) % M ELSE b[n]
  BY DEF Increment
<1>5. /\ Value(b) = W(B) /\ Value(c) = V(B) /\ Blocks = Pow(M, B)
      /\ AreDigits(b, M, B) /\ AreDigits(c, M, B)
      /\ Value(b) \in 0 .. Blocks - 1 /\ Value(c) \in 0 .. Blocks - 1 /\ Blocks \in Nat
  BY <1>2, ValueIs
<1>6. \A n \in 0 .. B : Numbers(b, n) /\ Numbers(c, n)
  BY <1>1, <1>3 DEF Numbers
<1> HIDE DEF c, M, B
<1>7. 0 \in T
  <2>1. V(0) = 0 /\ W(0) = 0
    BY <1>1, NoDigits
  <2>2. Pow(M, 0) = 1
    BY <1>1, PowSteps, 0 \in Nat
  <2> QED
    BY <1>1, <2>1, <2>2
<1>8. ASSUME NEW m \in 1 .. B, m - 1 \in T PROVE m \in T
  <2> DEFINE n == m - 1
             v == V(n)
             w == W(n)
             p == Pow(M, n)
             x == b[m]
             y == c[m]
  <2>1. n \in Nat /\ m = n + 1 /\ Numbers(b, n + 1) /\ Numbers(c, n + 1)
    BY <1>1, <1>6
  <2>2. /\ Full(n) => v = w + 1 \/ (v = 0 /\ w + 1 = p)
        /\ ~Full(n) => v = w
    BY <1>8
  <2>3. Full(n) <=> Full(m) /\ x = M - 1
    BY <1>1
  <2> HIDE DEF n
  <2>4. v \in Nat /\ w \in Nat /\ V(m) = M * v + y /\ W(m) = M * w + x
    BY <1>1, <2>1, DigitSteps
  <2>5. p \in Nat /\ Pow(M, m) = M * p
    BY <1>1, <2>1, PowSteps
  <2>6. x \in 0 .. M - 1 /\ y = IF Full(m) THEN (x + 1) % M ELSE x
    BY <1>3, <1>4
  <2> HIDE DEF V, W, Full, v, w, p, x, y
  <2>7. M * v \in Nat /\ M * w \in Nat /\ M * p \in Nat /\ M * (w + 1) = M * w + M
    BY <1>1, <2>4, <2>5
  <2>8. CASE ~Full(m)
    BY <1>1, <2>2, <2>3, <2>4, <2>6, <2>8
  <2>9. CASE Full(m) /\ x # M - 1
    <3>1. x + 1 \in 0 .. M - 1 /\ (x + 1) % M = x + 1
      BY <1>1, <2>6, <2>9
    <3>2. v = w /\ y = x + 1
      BY <2>2, <2>3, <2>6, <2>9, <3>1
    <3>3. V(m) = W(m) + 1
      BY <2>4, <2>6, <2>7, <3>2
    <3> QED
      BY <1>1, <2>9, <3>3
  <2>10. CASE Full(m) /\ x = M - 1
    <3>1. y = 0
      BY <1>1, <2>6, <2>10
    <3>2. v = w + 1 \/ (v = 0 /\ w + 1 = p)
      BY <2>2, <2>3, <2>10
    <3>3. W(m) + 1 = M * w + M /\ V(m) = M * v
      BY <1>1, <2>4, <2>7, <2>10, <3>1
    <3>4. CASE v = w + 1
      <4>1. V(m) = W(m) + 1
        BY <2>7, <3>3, <3>4
      <4> QED
        BY <1>1, <2>10, <4>1
    <3>5. CASE v = 0 /\ w + 1 = p
      <4>1. V(m) = 0 /\ W(m) + 1 = M * p
        BY <1>1, <2>7, <3>3, <3>5
      <4> QED
        BY <1>1, <2>5, <2>10, <4>1
    <3> QED
      BY <3>2, <3>4, <3>5
  <2> QED
    BY <2>8, <2>9, <2>10
<1> HIDE DEF T
<1>9. \A n \in 0 .. B : n \in T
  BY <1>1, <1>7, <1>8, StepInduction
<1>10. B \in T /\ Full(B)
  BY <1>1, <1>9
<1>11. V(B) = W(B) + 1 \/ (V(B) = 0 /\ W(B) + 1 = Pow(M, B))
  BY <1>10 DEF T
<1> HIDE DEF V, W
<1>12. Value(c) = Value(b) + 1 \/ (Value(c) = 0 /\ Value(b) + 1 = Blocks)
  BY <1>5, <1>11
<1>13. Value(c) = (Value(b) + 1) % Blocks
  BY <1>5, <1>12
<1> QED
  BY <1>13 DEF c

LEMMA CounterIs ==
  ASSUME NEW iv \in Block, NEW n \in Nat, NEW b \in Block, Value(b) = (Value(iv) + n) % Blocks
  PROVE  CounterBlock(iv, n) = b
<1> DEFINE P(x) == x \in Block /\ Value(x) = (Value(iv) + n) % Blocks
<1>1. CounterBlock(iv, n) = CHOOSE x : P(x)
  BY DEF CounterBlock
<1>2. P(b) /\ \A x : P(x) => x = b
  BY SameNumber
<1> HIDE DEF P
<1>3. P(CHOOSE x : P(x))
  BY <1>2
<1> QED
  BY <1>1, <1>2, <1>3

LEMMA CounterSteps ==
  ASSUME NEW iv \in Block
  PROVE  \A n \in Nat : /\ CounterBlock(iv, n) \in Block /\ CounterBlock(iv, 0) = iv
                        /\ CounterBlock(iv, n + 1) = Increment(CounterBlock(iv, n))
<1> DEFINE v == Value(iv)
<1>1. v \in 0 .. Blocks - 1 /\ Blocks \in Nat /\ Blocks > 0
  BY ValueIs
<1> HIDE DEF v
<1>2. CounterBlock(iv, 0) = iv
  <2>1. v = (v + 0) % Blocks
    BY <1>1
  <2> QED
    BY <2>1, CounterIs, 0 \in Nat DEF v
<1>3. ASSUME NEW n \in Nat, NEW b \in Block, Value(b) = (v + n) % Blocks
      PROVE  /\ Increment(b) \in Block /\ Value(Increment(b)) = (v + (n + 1)) % Blocks
             /\ CounterBlock(iv, n) = b /\ CounterBlock(iv, n + 1) = Increment(b)
  <2>1. Value(Increment(b)) = (((v + n) % Blocks) + 1) % Blocks
    BY <1>3, Counts
  <2>2. v + n \in Nat /\ (v + n) + 1 = v + (n + 1)
    BY <1>1
  <2>3. (((v + n) % Blocks) + 1) % Blocks = ((v + n) + 1) % Blocks
    BY <1>1, <2>2, ModSum
  <2>4. Value(Increment(b)) = (v + (n + 1)) % Blocks
    BY <2>1, <2>2, <2>3
  <2>5. Increment(b) \in Block
    BY Increments
  <2> QED
    BY <1>3, <2>4, <2>5, CounterIs, n + 1 \in Nat DEF v
<1> DEFINE T == {n \in Nat : \E b \in Block : Value(b) = (v + n) % Blocks}
<1>4. 0 \in T
  <2>1. v = (v + 0) % Blocks
    BY <1>1
  <2> QED
    BY <2>1 DEF v
<1>5. ASSUME NEW n \in Nat, n \in T PROVE n + 1 \in T
  BY <1>3, <1>5
<1> HIDE DEF T
<1>6. \A n \in Nat : n \in T
  BY <1>4, <1>5, Induction
<1> QED
  BY <1>2, <1>3, <1>6 DEF T

(* The equations have the one solution they define. *)
LEMMA Equations ==
  ASSUME NEW m \in Modes, NEW iv \in Block, NEW N \in Nat, NEW text, Whole(text, N)
  PROVE  /\ CipherBlocks(m, iv, text)[0] = iv
         /\ \A n \in 1 .. N : CipherBlocks(m, iv, text)[n] =
              CipherBlock(m, iv, n, BlockOf(text, n - 1), CipherBlocks(m, iv, text)[n - 1])
<1> DEFINE F(n, c) == CipherBlock(m, iv, n, BlockOf(text, n - 1), c)
           G == [u \in (1 .. N) \X Block |-> F(u[1], u[2])]
<1>1. ASSUME NEW n \in 1 .. N, NEW c \in Block PROVE G[<<n, c>>] = F(n, c) /\ F(n, c) \in Block
  <2> DEFINE b == BlockOf(text, n - 1)
             o == StreamBlock(iv, n)
             k == CounterBlock(iv, n - 1)
  <2>1. n - 1 \in 0 .. N - 1 /\ n - 1 \in Nat /\ n \in Nat
    OBVIOUS
  <2>2. b \in Block
    BY <2>1, BlockType
  <2>3. o \in Block
    BY <2>1, StreamSteps
  <2>4. k \in Block
    BY <2>1, CounterSteps
  <2>5. F(n, c) = CipherBlock(m, iv, n, b, c)
    OBVIOUS
  <2> HIDE DEF b
  <2>6. CipherBlock(m, iv, n, b, c) = CASE Unchained(m) -> Encipher(b)
                                        [] m = "cbc"    -> Encipher(XorBlock(b, c))
                                        [] m = "cfb"    -> XorBlock(b, Encipher(c))
                                        [] m = "ofb"    -> XorBlock(b, o)
                                        [] m = "ctr"    -> XorBlock(b, Encipher(k))
    BY DEF CipherBlock
  <2> HIDE DEF o, k
  <2>7. /\ Encipher(b) \in Block /\ Encipher(XorBlock(b, c)) \in Block
        /\ XorBlock(b, Encipher(c)) \in Block /\ XorBlock(b, o) \in Block
        /\ XorBlock(b, Encipher(k)) \in Block
    BY <2>2, <2>3, <2>4, CipherAssumption, Xors
  <2>8. Unchained(m) \/ m = "cbc" \/ m = "cfb" \/ m = "ofb" \/ m = "ctr"
    BY DEF Modes, Unchained
  <2>9. CipherBlock(m, iv, n, b, c) \in Block
    BY <2>6, <2>7, <2>8 DEF Unchained
  <2> HIDE DEF F
  <2>10. G[<<n, c>>] = F(n, c)
    OBVIOUS
  <2> QED
    BY <2>5, <2>9, <2>10
<1> HIDE DEF G, F
<1>2. Steps(G, N, Block)
  BY <1>1 DEF Steps
<1>3. PICK f : f \in [0 .. N -> Block] /\ f[0] = iv /\ \A i \in 1 .. N : f[i] = G[<<i, f[i - 1]>>]
  BY <1>2, StepRecursion
<1>4. ASSUME NEW i \in 1 .. N PROVE f[i] = F(i, f[i - 1])
  <2>1. i - 1 \in 0 .. N
    OBVIOUS
  <2>2. f[i - 1] \in Block
    BY <1>3, <2>1
  <2> QED
    BY <1>1, <1>3, <2>2
<1>5. f = [n \in 0 .. N |-> IF n = 0 THEN iv ELSE F(n, f[n - 1])]
  BY <1>3, <1>4
<1>6. f = [n \in 0 .. N |-> IF n = 0 THEN iv ELSE CipherBlock(m, iv, n, BlockOf(text, n - 1), f[n - 1])]
  BY <1>5 DEF F
<1>7. Count(text) = N
  BY CountOfWhole
<1> DEFINE It == CHOOSE C : C = [n \in 0 .. Count(text) |-> IF n = 0 THEN iv
                                   ELSE CipherBlock(m, iv, n, BlockOf(text, n - 1), C[n - 1])]
<1>8. It = [n \in 0 .. N |-> IF n = 0 THEN iv ELSE CipherBlock(m, iv, n, BlockOf(text, n - 1), It[n - 1])]
  BY <1>6, <1>7
<1>9. CipherBlocks(m, iv, text) = It
  BY DEF CipherBlocks
<1> HIDE DEF It
<1>10. It[0] = iv /\ \A n \in 1 .. N : It[n] = CipherBlock(m, iv, n, BlockOf(text, n - 1), It[n - 1])
  BY <1>8
<1> QED
  BY <1>9, <1>10

(* Blocks that are linked by the loop satisfy the equations. *)
LEMMA LinkedIsTextbook ==
  ASSUME NEW m \in Modes, NEW iv, NEW v \in Block, ~Unchained(m) => v = iv,
         NEW w, ~(m = "des" /\ w = "file" /\ LittleEndian),
         NEW N \in Nat, NEW text, NEW cipher, Whole(text, N), Whole(cipher, N),
         NEW ch, Linked(m, iv, w, text, cipher, N, ch)
  PROVE  Enciphered(m, v, text, cipher)
<1> DEFINE C == CipherBlocks(m, v, text)
           T == {n \in 0 .. N : /\ n > 0 => BlockOf(cipher, n - 1) = C[n]
                                /\ m \in {"cbc", "cfb"} => ch[n] = C[n]
                                /\ m = "ofb" => ch[n] = StreamBlock(v, n)
                                /\ m = "ctr" => ch[n] = CounterBlock(v, n)}
<1>1. C[0] = v /\ \A n \in 1 .. N : C[n] = CipherBlock(m, v, n, BlockOf(text, n - 1), C[n - 1])
  BY Equations
<1> HIDE DEF C
<1>2. 0 \in T
  <2>1. ~Unchained(m) => ch[0] = v
    BY DEF Linked
  <2>2. StreamBlock(v, 0) = v /\ CounterBlock(v, 0) = v /\ C[0] = v
    BY <1>1, StreamSteps, CounterSteps, 0 \in Nat
  <2>3. ~(0 > 0) /\ 0 \in 0 .. N
    OBVIOUS
  <2> QED
    BY <2>1, <2>2, <2>3 DEF Unchained
<1>3. ASSUME NEW n \in 1 .. N, n - 1 \in T PROVE n \in T
  <2> DEFINE u == n - 1
             b == BlockOf(text, u)
             x == BlockOf(cipher, u)
             c == ch[u]
  <2>1. u \in 0 .. N - 1 /\ u \in Nat /\ n = u + 1
    OBVIOUS
  <2>2. /\ m \in {"cbc", "cfb"} => c = C[u]
        /\ m = "ofb" => c = StreamBlock(v, u)
        /\ m = "ctr" => c = CounterBlock(v, u)
    BY <1>3
  <2>3. C[n] = CipherBlock(m, v, n, b, C[u])
    BY <1>1
  <2> HIDE DEF u
  <2>4. b \in Block /\ c \in Block
    BY <2>1, BlockType DEF Linked
  <2>5. x = Enc(m, w, c, b) /\ ch[n] = After(m, c, x)
    BY <2>1 DEF Linked
  <2> HIDE DEF b, x, c
  <2>6. StreamBlock(v, n) = Encipher(StreamBlock(v, u))
    BY <2>1, StreamSteps
  <2>7. CounterBlock(v, n) = Increment(CounterBlock(v, u))
    BY <2>1, CounterSteps
  <2>8. CASE m = "ecb" \/ m = "des"
    <3>1. x = Encipher(b)
      BY <2>5, <2>8 DEF Enc, Flip
    <3>2. C[n] = Encipher(b)
      BY <2>3, <2>8 DEF CipherBlock, Unchained
    <3> QED
      BY <2>1, <2>8, <3>1, <3>2 DEF x
  <2>9. CASE m = "cbc"
    <3>1. x = Encipher(XorBlock(b, c)) /\ ch[n] = x
      BY <2>5, <2>9 DEF Enc, After
    <3>2. C[n] = Encipher(XorBlock(b, c))
      BY <2>2, <2>3, <2>9 DEF CipherBlock, Unchained
    <3> QED
      BY <2>1, <2>9, <3>1, <3>2 DEF x
  <2>10. CASE m = "cfb"
    <3>1. x = XorBlock(b, Encipher(c)) /\ ch[n] = x
      BY <2>5, <2>10 DEF Enc, After
    <3>2. C[n] = XorBlock(b, Encipher(c))
      BY <2>2, <2>3, <2>10 DEF CipherBlock, Unchained
    <3> QED
      BY <2>1, <2>10, <3>1, <3>2 DEF x
  <2>11. CASE m = "ofb"
    <3>1. x = XorBlock(b, Encipher(c)) /\ ch[n] = Encipher(c)
      BY <2>5, <2>11 DEF Enc, After
    <3>2. C[n] = XorBlock(b, Encipher(c))
      BY <2>2, <2>3, <2>6, <2>11 DEF CipherBlock, Unchained
    <3> QED
      BY <2>1, <2>2, <2>6, <2>11, <3>1, <3>2 DEF x
  <2>12. CASE m = "ctr"
    <3>1. x = XorBlock(b, Encipher(c)) /\ ch[n] = Increment(c)
      BY <2>5, <2>12 DEF Enc, After
    <3>2. C[n] = XorBlock(b, Encipher(c))
      BY <2>2, <2>3, <2>12 DEF CipherBlock, Unchained, u
    <3> QED
      BY <2>1, <2>2, <2>7, <2>12, <3>1, <3>2 DEF x
  <2> QED
    BY <2>8, <2>9, <2>10, <2>11, <2>12 DEF Modes
<1> HIDE DEF T
<1>4. \A n \in 0 .. N : n \in T
  BY <1>2, <1>3, StepInduction
<1>5. \A n \in 1 .. N : BlockOf(cipher, n - 1) = C[n]
  BY <1>4 DEF T
<1>6. Count(text) = N /\ Len(cipher) = Len(text)
  BY CountOfWhole DEF Whole
<1> QED
  BY <1>5, <1>6 DEF Enciphered, C

(* A text of whole blocks with a valid padding is the padded form of one.   *)
LEMMA Repadded ==
  ASSUME NEW n \in Nat, NEW t, Whole(t, n), ValidPadding(t)
  PROVE  Unpad(t) \in Seq(Byte) /\ Pad(Unpad(t)) = t
<1> DEFINE l == Len(t)
           v == t[l]
           k == l - v
           s == SubSeq(t, 1, k)
           B == BlockSize
<1>1. B \in Nat /\ B > 0 /\ t \in Seq(Byte) /\ l = n * B /\ l \in Nat
  BY SizeAssumption DEF Whole
<1>2. v \in 1 .. B /\ t # <<>> /\ \A j \in l - v + 1 .. l : t[j] = v
  BY DEF ValidPadding
<1> HIDE DEF v
<1>3. n > 0
  <2>1. l # 0
    BY <1>1, <1>2
  <2> QED
    BY <1>1, <2>1
<1> DEFINE m == n - 1
<1>4. m \in Nat /\ n = m + 1
  BY <1>3
<1> HIDE DEF m
<1>5. (m + 1) * B = m * B + 1 * B /\ m * B \in Nat
  BY <1>1, <1>4, Sums
<1>6. l = m * B + B
  BY <1>1, <1>4, <1>5
<1>7. k \in Nat /\ k = m * B + (B - v) /\ B - v \in 0 .. B - 1 /\ k + v = l /\ k <= l
  BY <1>1, <1>2, <1>5, <1>6
<1> HIDE DEF l, k
<1>8. k % B = B - v
  BY <1>1, <1>4, <1>7, DivMod
<1>9. s \in Seq(Byte) /\ Len(s) = k
  BY <1>1, <1>7, Prefix DEF l
<1>10. \A j \in 1 .. k : s[j] = t[j]
  <2>1. \A j \in 1 .. k : t[j] \in Byte
    BY <1>1, <1>7, ElementOfSeq DEF l
  <2>2. \A j \in 1 .. k - 1 + 1 : s[j] = t[1 + j - 1]
    BY <1>7, <2>1, SubSeqProperties
  <2> HIDE DEF s
  <2> QED
    BY <1>7, <2>2
<1> DEFINE tail == [j \in 1 .. v |-> v]
           p == s \o tail
<1>11. Unpad(t) = s
  BY DEF Unpad, k, l, v
<1>12. B - (Len(s) % B) = v
  BY <1>1, <1>2, <1>8, <1>9
<1>13. Pad(s) = p
  BY <1>12 DEF Pad
<1> HIDE DEF s, B
<1>14. v \in Byte
  BY <1>2, SizeAssumption DEF Byte, B
<1>15. tail \in Seq(Byte) /\ Len(tail) = v /\ \A j \in 1 .. v : tail[j] = v
  BY <1>1, <1>2, <1>14
<1> HIDE DEF tail
<1>16. /\ p \in Seq(Byte) /\ Len(p) = k + v
       /\ \A j \in 1 .. k + v : p[j] = IF j <= k THEN s[j] ELSE tail[j - k]
  <2>1. \A u, w \in Seq(Byte) :
          /\ u \o w \in Seq(Byte) /\ Len(u \o w) = Len(u) + Len(w)
          /\ \A j \in 1 .. Len(u) + Len(w) : (u \o w)[j] = IF j <= Len(u) THEN u[j] ELSE w[j - Len(u)]
    BY ONLY ConcatProperties
  <2> QED
    BY ONLY <1>9, <1>15, <2>1
<1> HIDE DEF p
<1>17. ASSUME NEW j \in 1 .. l PROVE p[j] = t[j]
  <2>1. v \in Nat /\ l \in Nat
    BY <1>1, <1>2
  <2>2. CASE j <= k
    <3>1. j \in 1 .. k /\ j \in 1 .. k + v
      BY <1>7, <2>1, <2>2
    <3> QED
      BY <1>10, <1>16, <2>2, <3>1
  <2>3. CASE ~(j <= k)
    <3>1. j \in 1 .. k + v /\ j - k \in 1 .. v /\ j \in l - v + 1 .. l
      BY <1>7, <2>1, <2>3
    <3> QED
      BY <1>2, <1>15, <1>16, <2>3, <3>1
  <2> QED
    BY <2>2, <2>3
<1>18. p = t
  BY <1>1, <1>7, <1>16, <1>17, SeqEqual DEF l
<1> QED
  BY <1>9, <1>11, <1>13, <1>18

(* What the loop has done when it ends is one text under the equations. *)
LEMMA DoneIsTextbook ==
  ASSUME IInv, Done, ~Native
  PROVE  Enciphered(mode, Iv, Plain(Source), Cipher(Source)) /\ Size \in Nat /\ Whole(Plain(Source), Size)
<1>1. Size \in Nat /\ at = Size /\ Whole(output, Size) /\ Whole(Source, Size)
  BY AllDone
<1>2. Running(Source, Size, call.iv) /\ CallOK
  BY DEF IInv, Done
<1>3. PICK ch : Linked(mode, call.iv, way, Plain(Source), Cipher(Source), at, ch)
  BY <1>2 DEF Running
<1>4. Whole(Plain(Source), Size) /\ Whole(Cipher(Source), Size)
  BY <1>1 DEF Plain, Cipher
<1>5. Iv \in Block /\ (~Unchained(mode) => Iv = call.iv)
  <2>1. Zeros(BlockSize) \in Block
    BY SizeAssumption DEF Zeros, Block, Byte
  <2>2. call.iv \in Ivs \cup {NoIv}
    BY <1>2 DEF CallOK
  <2> QED
    BY <1>2, <2>1, <2>2, CallsAssumption DEF CallOK, Iv
<1>6. mode \in Modes /\ ~(mode = "des" /\ way = "file" /\ LittleEndian)
  BY <1>2 DEF Running, Native
<1>7. Enciphered(mode, Iv, Plain(Source), Cipher(Source))
  BY <1>1, <1>3, <1>4, <1>5, <1>6, LinkedIsTextbook
<1> QED
  BY <1>1, <1>4, <1>7

(* The loops compute the equations of the modes, whatever the cipher, and   *)
(* the padded result of an encryption is what is delivered.                 *)
THEOREM EncryptsByTheBook == Spec => Textbook
<1>1. ASSUME IInv, [Next]_vars, Finished("ok"), forward, ~Native
      PROVE  Enciphered(mode, Iv, Pad(place[call.from]), place'[call.to])
  <2>1. FinishEncrypt
    BY <1>1 DEF Finished, Next, Begin, Loop, FinishDecrypt, Done, vars, callVars
  <2>2. Done /\ Deliver(output, Record(place[call.from]))
    BY <2>1 DEF FinishEncrypt
  <2>3. Enciphered(mode, Iv, Plain(Source), Cipher(Source))
    BY <1>1, <2>2, DoneIsTextbook
  <2>4. Plain(Source) = Pad(place[call.from]) /\ Cipher(Source) = output
    BY <1>1 DEF Plain, Cipher, Source
  <2>5. call.to \in Places /\ place \in [Places -> Seq(Byte)]
    BY <1>1 DEF IInv, CallOK, PlacesOK, Finished
  <2>6. place' = [place EXCEPT ![call.to] = output]
    BY <1>1, <2>2 DEF Finished, Deliver, Return
  <2> QED
    BY <2>3, <2>4, <2>5, <2>6
<1>2. IInv /\ [Next]_vars =>
        ((Finished("ok") /\ forward /\ ~Native) =>
           Enciphered(mode, Iv, Pad(place[call.from]), place'[call.to]))
  BY <1>1
<1> QED
  BY <1>2, SpecIInv, PTL DEF Spec, Textbook

(* A decryption that succeeds was given the one encryption of its result:   *)
(* every byte of the padding counts.                                        *)
THEOREM AcceptsOnlyEncryptions == Spec => Canonical
<1>1. ASSUME IInv, [Next]_vars, Finished("ok"), ~forward, ~Native
      PROVE  Enciphered(mode, Iv, Pad(place'[call.to]), place[call.from])
  <2>1. FinishDecrypt
    BY <1>1 DEF Finished, Next, Begin, Loop, FinishEncrypt, Done, vars, callVars
  <2>2. Done /\ ValidPadding(output) /\ Deliver(Unpad(output), Nothing)
    BY <1>1, <2>1 DEF FinishDecrypt, Stop, Return, Finished
  <2>3. Enciphered(mode, Iv, Plain(Source), Cipher(Source)) /\ Size \in Nat /\ Whole(Plain(Source), Size)
    BY <1>1, <2>2, DoneIsTextbook
  <2>4. Plain(Source) = output /\ Cipher(Source) = place[call.from]
    BY <1>1 DEF Plain, Cipher, Source
  <2>5. call.to \in Places /\ place \in [Places -> Seq(Byte)]
    BY <1>1 DEF IInv, CallOK, PlacesOK, Finished
  <2>6. place' = [place EXCEPT ![call.to] = Unpad(output)]
    BY <1>1, <2>2 DEF Finished, Deliver, Return
  <2>7. Pad(Unpad(output)) = output
    BY <2>2, <2>3, <2>4, Repadded
  <2> QED
    BY <2>3, <2>4, <2>5, <2>6, <2>7
<1>2. IInv /\ [Next]_vars =>
        ((Finished("ok") /\ ~forward /\ ~Native) =>
           Enciphered(mode, Iv, Pad(place'[call.to]), place[call.from]))
  BY <1>1
<1> QED
  BY <1>2, SpecIInv, PTL DEF Spec, Canonical

(* In every mode, for any permutation of the blocks: a decryption that has  *)
(* the parameters of the encryption either lacks memory, room or a file, or *)
(* delivers the text; it never calls the bytes corrupted.                   *)
THEOREM DecryptsWhatWasEncrypted == Spec => RoundTrip
<1>1. ASSUME IInv, [Next]_vars,
             pc = "loop", pc' = "idle", ~forward, made[call.from] # Nothing,
             made[call.from] = Record(made[call.from].plain)
      PROVE  /\ outcome' \notin {"decrypt", "invalid_input"}
             /\ outcome' = "ok" => place'[call.to] = made[call.from].plain
  <2>1. FinishDecrypt
    BY <1>1 DEF Next, Begin, Loop, FinishEncrypt, Done, vars, callVars
  <2>2. ValidPadding(output) /\ Unpad(output) = made[call.from].plain
    BY <1>1, <2>1, OutputIsText DEF FinishDecrypt, Matches
  <2>3. call.to \in Places /\ place \in [Places -> Seq(Byte)]
    BY <1>1 DEF IInv, CallOK, PlacesOK
  <2>4. CASE Stop("nomem") \/ Stop("too_small")
    BY <2>4 DEF Stop, Return
  <2>5. CASE Deliver(Unpad(output), Nothing)
    <3>1. CASE Return("ok") /\ place' = [place EXCEPT ![call.to] = Unpad(output)]
      BY <2>2, <2>3, <3>1 DEF Return
    <3>2. CASE Return("io")
      BY <3>2 DEF Return
    <3> QED
      BY <2>5, <3>1, <3>2 DEF Deliver
  <2> QED
    BY <2>1, <2>2, <2>4, <2>5 DEF FinishDecrypt
<1>2. IInv /\ [Next]_vars =>
        ((pc = "loop" /\ pc' = "idle" /\ ~forward /\ made[call.from] # Nothing
            /\ made[call.from] = Record(made[call.from].plain)) =>
         /\ outcome' \notin {"decrypt", "invalid_input"}
         /\ outcome' = "ok" => place'[call.to] = made[call.from].plain)
  BY <1>1
<1> QED
  BY <1>2, SpecIInv, PTL DEF Spec, RoundTrip

(* What a call may write is the place it was given, when it succeeds or     *)
(* when the file breaks, and no more of a buffer than there is.             *)
THEOREM WritesOnlyResults == Spec => OnlyResults
<1>1. ASSUME IInv, [Next]_vars, place' # place
      PROVE  /\ \A p \in Places \ {call.to} : place'[p] = place[p]
             /\ outcome' = "ok" \/ (way = "file" /\ outcome' = "io")
             /\ way = "buffer" => Len(place'[call.to]) <= call.capacity
  <2>1. PICK s \in Seq(Byte) :
          /\ pc = "loop" /\ \E record : Deliver(s, record)
          /\ way = "buffer" => Len(s) <= call.capacity
    <3>1. CASE FinishEncrypt
      <4>1. pc = "loop" /\ Done /\ forward /\ Deliver(output, Record(place[call.from]))
        BY <3>1 DEF FinishEncrypt, Done
      <4>2. /\ Whole(output, Size) /\ Whole(Source, Size) /\ Source = Pad(place[call.from])
            /\ CallOK
        BY <1>1, <4>1, AllDone DEF IInv, Source
      <4>3. output \in Seq(Byte) /\ Len(output) = Len(Pad(place[call.from])) /\ Len(output) \in Nat
        BY <4>2, LenProperties DEF Whole
      <4>4. way = "buffer" => Len(output) <= call.capacity
        BY <4>1, <4>2, <4>3 DEF CallOK, Short
      <4> QED
        BY <4>1, <4>3, <4>4
    <3>2. CASE FinishDecrypt
      <4>1. /\ pc = "loop" /\ Done /\ ValidPadding(output) /\ ~TooSmall(Unpad(output))
            /\ Deliver(Unpad(output), Nothing)
        BY <1>1, <3>2 DEF FinishDecrypt, Done, Stop
      <4>2. output \in Seq(Byte) /\ call.capacity \in Nat
        BY <1>1, <4>1, AllDone DEF IInv, CallOK, Whole
      <4> DEFINE l == Len(output)
                 v == output[l]
      <4>3. l \in Nat /\ v \in 1 .. BlockSize /\ BlockSize \in Nat
        BY <4>1, <4>2, SizeAssumption DEF ValidPadding
      <4> HIDE DEF l, v
      <4>4. l - v \in Int /\ l - v <= l
        BY <4>3
      <4>5. SubSeq(output, 1, l - v) \in Seq(Byte)
        BY <4>2, <4>4, Prefix DEF l
      <4>6. Unpad(output) \in Seq(Byte)
        BY <4>5 DEF Unpad, l, v
      <4>7. way = "buffer" => Len(Unpad(output)) <= call.capacity
        BY <4>1, <4>2, <4>6, LenProperties DEF TooSmall
      <4> QED
        BY <4>1, <4>6, <4>7
    <3>3. ~Begin /\ ~Loop
      BY <1>1, BeginKeeps DEF Loop, callVars
    <3> QED
      BY <1>1, <3>1, <3>2, <3>3 DEF Next, vars, callVars
  <2>2. call.to \in Places /\ place \in [Places -> Seq(Byte)]
    BY <1>1, <2>1 DEF IInv, CallOK, PlacesOK
  <2>3. CASE Return("ok") /\ place' = [place EXCEPT ![call.to] = s]
    <3>1. outcome' = "ok" /\ place'[call.to] = s
      BY <2>2, <2>3 DEF Return
    <3> QED
      BY <2>1, <2>2, <2>3, <3>1
  <2>4. ASSUME way = "file", Return("io"), NEW n \in 0 .. Len(s),
               place' = [place EXCEPT ![call.to] = SubSeq(s, 1, n)]
        PROVE  /\ \A p \in Places \ {call.to} : place'[p] = place[p]
               /\ way = "file" /\ outcome' = "io"
    BY <2>2, <2>4 DEF Return
  <2> QED
    BY <1>1, <2>1, <2>3, <2>4 DEF Deliver
<1>2. IInv /\ [Next]_vars =>
        (place' # place =>
         /\ \A p \in Places \ {call.to} : place'[p] = place[p]
         /\ outcome' = "ok" \/ (way = "file" /\ outcome' = "io")
         /\ way = "buffer" => Len(place'[call.to]) <= call.capacity)
  BY <1>1
<1> QED
  BY <1>2, SpecIInv, PTL DEF Spec, OnlyResults

-----------------------------------------------------------------------------
(* Tags: what a call in progress has read, and how far its loop is.         *)
Mine == Pad(task.m)

MacInv ==
  /\ macPc \in {"idle", "hash", "loop"}
  /\ macPc = "hash" => task.kind = "hmac" /\ task.key \in Keys /\ task.m \in Messages
  /\ macPc = "loop" => /\ task.kind = "cbc_mac" /\ task.m \in Messages
                       /\ mode = "cbc" /\ forward /\ way = "buffer"
                       /\ Running(Mine, Count(Mine), Zeros(BlockSize))

LEMMA NoBytes == Zeros(BlockSize) \in Block
  BY SizeAssumption DEF Zeros, Block, Byte

LEMMA EnterCbcKeeps ==
  ASSUME NEW m \in Messages, NEW v, NEW s, EnterCbcMac(m, v, s)
  PROVE  MacInv'
<1> DEFINE t == Pad(m)
           n == Count(t)
           z == Zeros(BlockSize)
           ch == [k \in 0 .. 0 |-> z]
<1>1. /\ macPc' = "loop" /\ task'.kind = "cbc_mac" /\ task'.m = m
      /\ mode' = "cbc" /\ forward' = TRUE /\ way' = "buffer"
      /\ input' = t /\ output' = Zeros(Len(input')) /\ chain' = z /\ at' = 0
  BY DEF EnterCbcMac
<1>2. z \in Block
  BY NoBytes
<1>3. PICK k \in Nat : Whole(t, k)
  BY HashAssumption, PadWhole
<1>4. n \in Nat /\ Whole(t, n)
  BY <1>3, CountOfWhole
<1> HIDE DEF t, n, z
<1>5. Whole(output', n)
  BY <1>1, <1>4, Cleared DEF Whole
<1>6. Linked("cbc", z, "buffer", Plain(Mine)', Cipher(Mine)', 0, ch) /\ ch[0] = z
  BY <1>2 DEF Linked
<1> HIDE DEF ch
<1>7. Mine' = t /\ Count(Mine)' = n /\ Zeros(BlockSize)' = z
  BY <1>1 DEF Mine, t, n, z, Count
<1>8. Running(Mine, Count(Mine), Zeros(BlockSize))'
  BY <1>1, <1>2, <1>4, <1>5, <1>6, <1>7 DEF Running, Modes
<1> QED
  BY <1>1, <1>8 DEF MacInv

LEMMA MacLoopKeeps == ASSUME MacInv, MacLoop PROVE MacInv'
<1>1. macPc = "loop" /\ OneBlock /\ UNCHANGED <<macPc, task, result>>
  BY DEF MacLoop
<1>2. /\ task.kind = "cbc_mac" /\ task.m \in Messages
      /\ mode = "cbc" /\ forward /\ way = "buffer"
      /\ Running(Mine, Count(Mine), Zeros(BlockSize))
  BY <1>1 DEF MacInv
<1>3. PICK s, n, iv : s = Mine /\ n = Count(Mine) /\ iv = Zeros(BlockSize)
  OBVIOUS
<1>4. Running(s, n, iv)
  BY <1>2, <1>3
<1>5. Running(s, n, iv)' /\ UNCHANGED <<mode, forward, way>>
  BY <1>1, <1>4, LoopRuns
<1>6. Mine' = s /\ Count(Mine)' = n /\ Zeros(BlockSize)' = iv
  BY <1>1, <1>3 DEF Mine, Count
<1>7. Plain(s)' = Plain(Mine)' /\ Cipher(s)' = Cipher(Mine)'
  BY <1>6 DEF Plain, Cipher
<1>8. Running(Mine, Count(Mine), Zeros(BlockSize))'
  BY <1>5, <1>6, <1>7 DEF Running
<1> QED
  BY <1>1, <1>2, <1>5, <1>8 DEF MacInv

LEMMA NextMacInv == MacInv /\ [MacNext]_macVars => MacInv'
<1> SUFFICES ASSUME MacInv, [MacNext]_macVars PROVE MacInv'
  OBVIOUS
<1>1. CASE Call
  <2>1. CASE RefuseMac
    BY <2>1 DEF RefuseMac, MacReturn, MacInv
  <2>2. ASSUME NEW m \in Messages, NEW v, NEW s, EnterHmac(m, v, s) PROVE MacInv'
    BY <2>2 DEF EnterHmac, MacInv
  <2> QED
    BY <1>1, <2>1, <2>2, EnterCbcKeeps DEF Call
<1>2. CASE FinishHmac
  BY <1>2 DEF FinishHmac, MacReturn, MacInv
<1>3. CASE MacLoop
  BY <1>3, MacLoopKeeps
<1>4. CASE FinishCbcMac
  BY <1>4 DEF FinishCbcMac, MacReturn, MacInv
<1>5. CASE UNCHANGED macVars
  <2> USE <1>5 DEF macVars, loopVars
  <2>1. Mine' = Mine /\ Count(Mine)' = Count(Mine)
    BY DEF Mine, Count
  <2>2. Running(Mine, Count(Mine), Zeros(BlockSize))' = Running(Mine, Count(Mine), Zeros(BlockSize))
    BY <2>1 DEF Running, Plain, Cipher
  <2> QED
    BY <2>2 DEF MacInv
<1> QED
  BY <1>1, <1>2, <1>3, <1>4, <1>5 DEF MacNext

(* The bytes of a key, filled with zeros and combined with a pad.           *)
LEMMA PaddedKey ==
  ASSUME NEW k \in Seq(Byte), Len(k) <= HashBlock, NEW pad \in Byte
  PROVE  XorWith(k \o Zeros(HashBlock - Len(k)), pad) =
           [j \in 1 .. HashBlock |-> IF j <= Len(k) THEN XorByte(k[j], pad) ELSE pad]
<1> DEFINE l == Len(k)
           n == HashBlock - l
           z == Zeros(n)
           s == k \o z
<1>1. l \in Nat /\ HashBlock \in Nat
  BY HashAssumption, LenProperties
<1>2. n \in Nat /\ l + n = HashBlock
  BY <1>1
<1> HIDE DEF l, n
<1>3. z \in Seq(Byte) /\ Len(z) = n /\ \A j \in 1 .. n : z[j] = 0
  BY <1>2, Cleared DEF Zeros
<1> HIDE DEF z
<1>4. /\ s \in Seq(Byte) /\ Len(s) = HashBlock
      /\ \A j \in 1 .. HashBlock : s[j] = IF j <= l THEN k[j] ELSE z[j - l]
  BY <1>2, <1>3, ConcatProperties DEF l
<1> HIDE DEF s
<1>5. DOMAIN s = 1 .. HashBlock
  BY <1>4, LenProperties
<1>6. ASSUME NEW j \in 1 .. HashBlock
      PROVE  XorByte(s[j], pad) = IF j <= l THEN XorByte(k[j], pad) ELSE pad
  <2>1. CASE j <= l
    BY <1>4, <2>1
  <2>2. CASE ~(j <= l)
    <3>1. j - l \in 1 .. n
      BY <1>1, <1>2, <2>2
    <3>2. s[j] = 0
      BY <1>3, <1>4, <2>2, <3>1
    <3>3. XorByte(0, pad) = pad
      BY HashAssumption
    <3> QED
      BY <2>2, <3>2, <3>3
  <2> QED
    BY <2>1, <2>2
<1>7. XorWith(s, pad) = [j \in 1 .. HashBlock |-> IF j <= l THEN XorByte(k[j], pad) ELSE pad]
  BY <1>5, <1>6 DEF XorWith
<1> QED
  BY <1>7 DEF s, z, n, l

(* hmac.c makes the tag of RFC 2104, for keys of every length.              *)
LEMMA HmacIsStandard ==
  ASSUME NEW t, t.kind = "hmac", t.key \in Keys, t.m \in Messages
  PROVE  HmacTag(t.key, t.m) = Standard(t) /\ Len(Standard(t)) = HashLen
<1> DEFINE key == t.key
           k == IF Len(key) <= HashBlock THEN key ELSE Hash(key)
           P(pad) == [j \in 1 .. HashBlock |-> IF j <= Len(k) THEN XorByte(k[j], pad) ELSE pad]
<1>1. key \in Seq(Byte) /\ Len(key) \in Nat /\ HashBlock \in Nat
  BY HashAssumption, LenProperties
<1>2. Hash(key) \in Seq(Byte) /\ Len(Hash(key)) = HashLen
  <2>1. Hash(key) \in [1 .. HashLen -> Byte] /\ HashLen \in Nat
    BY HashAssumption
  <2> QED
    BY <2>1
<1>3. k \in Seq(Byte) /\ Len(k) <= HashBlock
  <2>1. HashLen <= HashBlock
    BY HashAssumption
  <2> QED
    BY <1>1, <1>2, <2>1
<1>4. k = IF Len(key) > HashBlock THEN Hash(key) ELSE key
  BY <1>1
<1>5. KeyBlock(key) = k \o Zeros(HashBlock - Len(k))
  BY <1>4 DEF KeyBlock
<1> HIDE DEF k
<1>6. XorWith(KeyBlock(key), IPad) = P(IPad) /\ XorWith(KeyBlock(key), OPad) = P(OPad)
  BY <1>3, <1>5, HashAssumption, PaddedKey
<1>7. HmacTag(key, t.m) = Hash(P(OPad) \o Hash(P(IPad) \o t.m))
  <2> HIDE DEF P
  <2> QED
    BY <1>6 DEF HmacTag
<1>8. Standard(t) = Hash(P(OPad) \o Hash(P(IPad) \o t.m))
  BY DEF Standard, k
<1>9. Len(HmacTag(key, t.m)) = HashLen
  BY DigestAssumption
<1> QED
  BY <1>7, <1>8, <1>9

(* cbc_mac.c takes the last block of a CBC encryption from zeros.           *)
LEMMA CbcMacIsStandard ==
  ASSUME MacInv, macPc = "loop", at = Count(input)
  PROVE  BlockOf(output, at - 1) = Standard(task)
<1> DEFINE n == Count(Mine)
<1>1. /\ task.kind = "cbc_mac" /\ task.m \in Messages
      /\ mode = "cbc" /\ forward /\ way = "buffer"
      /\ Running(Mine, n, Zeros(BlockSize))
  BY DEF MacInv
<1> HIDE DEF n
<1>2. at = n /\ n \in Nat /\ Whole(Mine, n) /\ Whole(output, n)
  BY <1>1, CountOfWhole DEF Running
<1>3. PICK ch : Linked("cbc", Zeros(BlockSize), "buffer", Mine, output, n, ch)
  BY <1>1, <1>2 DEF Running, Plain, Cipher
<1>4. Enciphered("cbc", Zeros(BlockSize), Mine, output)
  BY <1>2, <1>3, LinkedIsTextbook, NoBytes DEF Modes
<1>5. n > 0
  <2>1. Mine # <<>>
    <3>1. task.m \in Seq(Byte)
      BY <1>1, HashAssumption
    <3> QED
      BY <3>1, PadWhole DEF Mine, ValidPadding
  <2>2. Len(Mine) = n * BlockSize /\ Mine \in Seq(Byte)
    BY <1>2 DEF Whole
  <2>3. Len(Mine) # 0
    BY <2>1, <2>2, EmptySeq
  <2>4. CASE n = 0
    <3>1. n * BlockSize = 0
      BY <2>4, SizeAssumption
    <3> QED
      BY <2>2, <2>3, <3>1
  <2> QED
    BY <1>2, <2>4
<1>6. BlockOf(output, n - 1) = CipherBlocks("cbc", Zeros(BlockSize), Mine)[n]
  BY <1>2, <1>4, <1>5 DEF Enciphered, n
<1> QED
  BY <1>1, <1>2, <1>6 DEF Standard, Mine, n

(* Only the tag of the standard is made or accepted, whatever the hash, the *)
(* cipher, the sizes of their blocks, the keys and the messages.            *)
THEOREM MakesOnlyTheTag == MacSpec => OnlyTheTag
<1>1. MacInit => MacInv
  BY DEF MacInit, MacInv
<1>2. MacSpec => []MacInv
  BY <1>1, NextMacInv, PTL DEF MacSpec
<1>3. ASSUME MacInv, [MacNext]_macVars, macPc # "idle", macPc' = "idle"
      PROVE  /\ result'.status = "ok" => /\ result'.tag = Standard(task)
                                         /\ task.verify => task.claim = result'.tag
             /\ result'.status = "verify" => task.claim # Standard(task)
  <2> DEFINE Good(tag) == /\ tag = Standard(task)
                          /\ MacReturn(Verdict(task, tag), tag)
  <2>1. ASSUME NEW tag, Good(tag)
        PROVE  /\ result'.status = "ok" => /\ result'.tag = Standard(task)
                                           /\ task.verify => task.claim = result'.tag
               /\ result'.status = "verify" => task.claim # Standard(task)
    BY <2>1 DEF MacReturn, Verdict
  <2>2. CASE FinishCbcMac
    <3>1. macPc = "loop" /\ at = Count(input)
      BY <2>2 DEF FinishCbcMac
    <3>2. Good(BlockOf(output, at - 1))
      BY <1>3, <2>2, <3>1, CbcMacIsStandard DEF FinishCbcMac
    <3> QED
      BY <2>1, <3>2
  <2>3. CASE FinishHmac
    <3>1. task.kind = "hmac" /\ task.key \in Keys /\ task.m \in Messages
      BY <1>3, <2>3 DEF FinishHmac, MacInv
    <3>2. HmacTag(task.key, task.m) = Standard(task) /\ Len(Standard(task)) = HashLen
      BY <3>1, HmacIsStandard
    <3>3. CASE task.verify /\ Len(task.claim) # HashLen
      BY <2>3, <3>2, <3>3 DEF FinishHmac, MacReturn
    <3>4. CASE ~(task.verify /\ Len(task.claim) # HashLen)
      <4>1. Good(HmacTag(task.key, task.m))
        BY <2>3, <3>2, <3>4 DEF FinishHmac
      <4> QED
        BY <2>1, <4>1
    <3> QED
      BY <3>3, <3>4
  <2> QED
    BY <1>3, <2>2, <2>3 DEF MacNext, Call, MacLoop, macVars
<1>4. MacInv /\ [MacNext]_macVars =>
        (macPc # "idle" /\ macPc' = "idle" =>
         /\ result'.status = "ok" => /\ result'.tag = Standard(task)
                                     /\ task.verify => task.claim = result'.tag
         /\ result'.status = "verify" => task.claim # Standard(task))
  BY <1>3
<1> QED
  BY <1>2, <1>4, PTL DEF MacSpec, OnlyTheTag

=============================================================================
