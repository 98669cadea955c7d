----------------------------- MODULE RsaSchemes -----------------------------
(***************************************************************************)
(* The calls of api/rsa.c that seal and open, with rsa/enc.c and           *)
(* rsa/sig.c: textbook RSA, PKCS#1 v1.5, and OAEP with PSS.  The sizes of  *)
(* the paddings are parameters.                                                *)
(***************************************************************************)
EXTENDS SchemeCalls

CONSTANTS HashLen,
          PadMin,      \* the fewest random bytes of a PKCS#1 block
          HashId,      \* the prefix of the hash in a PKCS#1 signature
          Trailer,     \* the last byte of a PSS block
          RsaContexts  \* [scheme, p, q, e] of the contexts

Blocks(len) == [1 .. len -> Byte]

(* rsa_keygen, once it has found two primes. *)
RsaKey(c) ==
  LET d == InverseOf(c.e, (c.p - 1) * (c.q - 1))
  IN  [family |-> "rsa", scheme |-> c.scheme, p |-> c.p, q |-> c.q, n |-> c.p * c.q, e |-> c.e,
       d |-> d, dp |-> d % (c.p - 1), dq |-> d % (c.q - 1), qInv |-> InverseOf(c.q % c.p, c.p),
       k |-> CountBytes(c.p * c.q)]

(* Two odd primes, with an exponent that has an inverse, and a modulus for  *)
(* which the encodings of signatures have room (sig.c:79, 162; enc.c:314).  *)
ASSUME RsaAssumption ==
  /\ HashLen \in Nat \ {0} /\ PadMin \in Nat /\ HashId \in Seq(Byte) /\ {2, Trailer} \subseteq Byte
  /\ \A c \in RsaContexts :
       /\ \A p \in {c.p, c.q} : p \in Nat /\ p > 2 /\ \A t \in 2 .. p - 1 : p % t # 0
       /\ c.e \in Nat /\ Invertible(c.e, (c.p - 1) * (c.q - 1)) /\ Invertible(c.q % c.p, c.p)
       /\ c.scheme \in {"textbook", "pkcs1", "oaep_pss"}
       /\ c.scheme = "pkcs1" => RsaKey(c).k >= Len(HashId) + HashLen + 3 + PadMin
       /\ c.scheme = "oaep_pss" =>
            (BitLength(RsaKey(c).n) + ByteBits - 2) \div ByteBits >= 2 * HashLen + 2

RsaInit == \E c \in RsaContexts : Ready(RsaKey(c))

UseCrt == /\ ctx.family = "rsa" /\ pc = "ready"
          /\ algo' \in {"crt", "standard"}
          /\ UNCHANGED <<ctx, pc, task, drawn, made, last>>

-----------------------------------------------------------------------------
PublicOp(x) == Power(x, ctx.e, ctx.n)

(* Faulty: the quotient of the halves is not brought back below p. *)
CrtUnreduced(x) ==
  LET m1 == Power(x, ctx.dp, ctx.p)
      m2 == Power(x, ctx.dq, ctx.q)
      h  == (m1 - m2) % ctx.p
  IN  m2 + ctx.qInv * h * ctx.q

(* The Chinese remainder; h may still be negative when it is multiplied. *)
Crt(x) ==
  LET m1 == Power(x, ctx.dp, ctx.p)
      m2 == Power(x, ctx.dq, ctx.q)
      h  == IF m1 < m2 THEN m1 - m2 + ctx.p ELSE m1 - m2
  IN  m2 + ((ctx.qInv * h) % ctx.p) * ctx.q

PrivateOp(x) == IF algo = "crt" THEN Crt(x) ELSE Power(x, ctx.d, ctx.n)

(* mgf1 *)
Mgf(seed, len) ==
  LET Rounds == (len + HashLen - 1) \div HashLen
      Stream[i \in 0 .. Rounds] == IF i = 0 THEN <<>>
                                   ELSE Stream[i - 1] \o Hash(seed \o BytesOf(4, i - 1), HashLen)
  IN  SubSeq(Stream[Rounds], 1, len)

-----------------------------------------------------------------------------
(* eme_pkcs1_encode, eme_oaep_encode, emsa_pkcs1_encode, emsa_pss_encode *)
Pkcs1Block(m, ps) == <<0, 2>> \o ps \o <<0>> \o m
Pkcs1Room == ctx.k - 3 - PadMin

OaepRoom == ctx.k - 2 * HashLen - 2

OaepBlock(m, seed) ==
  LET db == Hash(<<>>, HashLen) \o Zeros(OaepRoom - Len(m)) \o <<1>> \o m
      maskedDb == XorBytes(db, Mgf(seed, Len(db)))
  IN  <<0>> \o XorBytes(seed, Mgf(maskedDb, HashLen)) \o maskedDb

SignedBlock(m) ==
  LET t == HashId \o Hash(m, HashLen)
  IN  <<0, 1>> \o [i \in 1 .. ctx.k - Len(t) - 3 |-> ByteMod - 1] \o <<0>> \o t

EmBits == BitLength(ctx.n) - 1
EmLen == (EmBits + ByteBits - 1) \div ByteBits
DbLen == EmLen - HashLen - 1

(* Faulty: the bits beyond EmBits stay. *)
ClearNothing(s) == s

(* The bits beyond EmBits. *)
ClearTop(s) == <<s[1] % Pow(2, ByteBits - (ByteBits * EmLen - EmBits))>> \o Tail(s)

PssHash(m, salt) == Hash(Zeros(8) \o Hash(m, HashLen) \o salt, HashLen)

PssBlock(m, salt) ==
  LET h  == PssHash(m, salt)
      db == Zeros(DbLen - HashLen - 1) \o <<1>> \o salt
  IN  ClearTop(XorBytes(db, Mgf(h, DbLen))) \o h \o <<Trailer>>

-----------------------------------------------------------------------------
TooLong(m) == CASE ctx.scheme = "textbook" -> NumberOf(m) >= ctx.n
                [] ctx.scheme = "pkcs1"    -> Len(m) > Pkcs1Room
                [] ctx.scheme = "oaep_pss" -> Len(m) > OaepRoom

(* bigint_to_bytes_fixed of the result of a private or public operation. *)
SealBytes(call, m, x) == IF Fits(ctx.k, x) THEN Seal(call, m, BytesOf(ctx.k, x))
                         ELSE Refuse(call, m, "invalid_input")

(* public_op_bytes *)
SealPublic(m, em) == IF NumberOf(em) < ctx.n THEN SealBytes("encrypt", m, PublicOp(NumberOf(em)))
                     ELSE Refuse("encrypt", m, "invalid_input")

RsaEncrypt(m) ==
  /\ ctx.family = "rsa" /\ pc = "ready"
  /\ \/ TooLong(m) /\ Refuse("encrypt", m, "too_long")
     \/ ctx.scheme = "oaep_pss" /\ Refuse("encrypt", m, "nomem")
     \/ ctx.scheme = "pkcs1" /\ ~TooLong(m) /\ Refuse("encrypt", m, "nomem")
     \/ ctx.scheme # "textbook" /\ ~TooLong(m) /\ Refuse("encrypt", m, "rng")
     \/ ctx.scheme = "textbook" /\ ~TooLong(m) /\ Seal("encrypt", m, Minimal(PublicOp(NumberOf(m))))
     \/ ctx.scheme = "pkcs1" /\ ~TooLong(m) /\ Begin("encrypt", m, <<>>)
     \/ /\ ctx.scheme = "oaep_pss" /\ ~TooLong(m)
        /\ \E seed \in Blocks(HashLen) : SealPublic(m, OaepBlock(m, seed))

Padding == ctx.family = "rsa" /\ pc = "encrypt" /\ Len(drawn) < ctx.k - 3 - Len(task)

(* The bytes of the padding, each drawn until it is not zero. *)
Pad == Padding /\ \E b \in Byte : Drew(IF b = 0 THEN drawn ELSE Append(drawn, b))

RsaEncryptPadded == /\ ctx.family = "rsa" /\ pc = "encrypt" /\ ~Padding
                    /\ SealPublic(task, Pkcs1Block(task, drawn))

RsaSign(m) ==
  /\ ctx.family = "rsa" /\ pc = "ready"
  /\ \/ ctx.scheme = "textbook" /\ TooLong(m) /\ Refuse("sign", m, "too_long")
     \/ ctx.scheme = "textbook" /\ ~TooLong(m) /\ Seal("sign", m, Minimal(PrivateOp(NumberOf(m))))
     \/ ctx.scheme # "textbook" /\ Refuse("sign", m, "nomem")
     \/ ctx.scheme = "pkcs1" /\ SealBytes("sign", m, PrivateOp(NumberOf(SignedBlock(m))))
     \/ ctx.scheme = "oaep_pss" /\ Refuse("sign", m, "rng")
     \/ /\ ctx.scheme = "oaep_pss"
        /\ \E salt \in Blocks(HashLen) :
             SealBytes("sign", m, PrivateOp(NumberOf(PssBlock(m, salt))))

-----------------------------------------------------------------------------
(* The first place from i on where s has, or has not, a zero; or its end. *)
First(s, i, zero) ==
  CHOOSE j \in i .. Len(s) + 1 :
    /\ j = Len(s) + 1 \/ ((s[j] = 0) <=> zero)
    /\ \A l \in i .. j - 1 : (s[l] = 0) # zero

(* Faulty: the padding may be of any length. *)
Pkcs1OpenShort(em) ==
  LET i == First(em, 3, TRUE)
  IN  [valid |-> em[1] = 0 /\ em[2] = 2 /\ i <= ctx.k,
       m |-> SubSeq(em, i + 1, ctx.k)]

(* What a block holds, and whether it is one that the encoding makes. *)
Pkcs1Open(em) ==
  LET i == First(em, 3, TRUE)
  IN  [valid |-> em[1] = 0 /\ em[2] = 2 /\ i <= ctx.k /\ i >= 3 + PadMin,
       m |-> SubSeq(em, i + 1, ctx.k)]

OaepOpen(em) ==
  LET maskedDb == SubSeq(em, HashLen + 2, ctx.k)
      seed == XorBytes(SubSeq(em, 2, HashLen + 1), Mgf(maskedDb, HashLen))
      db == XorBytes(maskedDb, Mgf(seed, Len(maskedDb)))
      i  == First(db, HashLen + 1, FALSE)
  IN  [valid |-> /\ em[1] = 0 /\ SubSeq(db, 1, HashLen) = Hash(<<>>, HashLen)
                 /\ i <= Len(db) /\ db[i] = 1,
       m |-> SubSeq(db, i + 1, Len(db))]

Unpadded(em) == IF ctx.scheme = "pkcs1" THEN Pkcs1Open(em) ELSE OaepOpen(em)

RsaDecrypt(c) ==
  LET x == NumberOf(c)
      block == Unpadded(BytesOf(ctx.k, PrivateOp(x)))
      Fail(status) == Open("decrypt", <<>>, c, status)
  IN  /\ ctx.family = "rsa"
      /\ \/ /\ ctx.scheme = "textbook"
            /\ IF x >= ctx.n THEN Fail("invalid_input")
               ELSE Open("decrypt", Minimal(PrivateOp(x)), c, "ok")
         \/ ctx.scheme # "textbook" /\ Fail("nomem")
         \/ /\ ctx.scheme # "textbook"
            /\ IF Len(c) # ctx.k \/ x >= ctx.n \/ ~block.valid THEN Fail("decrypt")
               ELSE Open("decrypt", block.m, c, "ok")

(* emsa_pss_verify *)
PssValid(m, em) ==
  LET h  == SubSeq(em, DbLen + 1, EmLen - 1)
      db == ClearTop(XorBytes(SubSeq(em, 1, DbLen), Mgf(h, DbLen)))
  IN  /\ em[EmLen] = Trailer /\ ClearTop(em) = em
      /\ \A i \in 1 .. DbLen - HashLen - 1 : db[i] = 0
      /\ db[DbLen - HashLen] = 1
      /\ h = PssHash(m, SubSeq(db, DbLen - HashLen + 1, DbLen))

RsaValid(m, s) ==
  LET y == PublicOp(NumberOf(s))
  IN  /\ NumberOf(s) < ctx.n
      /\ ctx.scheme # "textbook" => Len(s) = ctx.k
      /\ CASE ctx.scheme = "textbook" -> y = NumberOf(m)
           [] ctx.scheme = "pkcs1"    -> BytesOf(ctx.k, y) = SignedBlock(m)
           [] ctx.scheme = "oaep_pss" -> Fits(EmLen, y) /\ PssValid(m, BytesOf(EmLen, y))

RsaVerify(m, s) ==
  /\ ctx.family = "rsa"
  /\ \/ Open("verify", m, s, IF RsaValid(m, s) THEN "ok" ELSE "verify")
     \/ ctx.scheme # "textbook" /\ Len(s) = ctx.k /\ Open("verify", m, s, "nomem")

-----------------------------------------------------------------------------
(* The ciphertexts of m and the signatures of m under the key of ctx. *)
RsaCiphertexts(m) ==
  LET Made(x) == BytesOf(ctx.k, PublicOp(x))
  IN  IF TooLong(m) THEN {}
      ELSE CASE ctx.scheme = "textbook" -> {Made(NumberOf(m))}
             [] ctx.scheme = "pkcs1"    -> {Made(NumberOf(Pkcs1Block(m, ps))) :
                                              ps \in [1 .. ctx.k - 3 - Len(m) -> Byte \ {0}]}
             [] ctx.scheme = "oaep_pss" -> {Made(NumberOf(OaepBlock(m, seed))) : seed \in Blocks(HashLen)}

RsaSignatures(m) ==
  LET Made(x) == BytesOf(ctx.k, Power(x, ctx.d, ctx.n))
  IN  CASE ctx.scheme = "textbook" -> {Made(NumberOf(m))}
        [] ctx.scheme = "pkcs1"    -> {Made(NumberOf(SignedBlock(m)))}
        [] ctx.scheme = "oaep_pss" -> {Made(NumberOf(PssBlock(m, salt))) : salt \in Blocks(HashLen)}
=============================================================================
