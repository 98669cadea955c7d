---------------------------- MODULE GroupSchemes ----------------------------
(***************************************************************************)
(* The calls that seal and open on contexts over a group: ElGamal          *)
(* (elgamal/enc.c, sig.c), DSA (dsa/dsa.c), EC-ElGamal (ecelgamal/enc.c,   *)
(* sig.c) and ECDSA (ecdsa/ecdsa.c), with their callers in api/.  mul is   *)
(* taken as what it computes (see ScalarMul), the sum of two points and    *)
(* the test for infinity as the formulas of CurveFormulas.                 *)
(***************************************************************************)
EXTENDS SchemeCalls, CurvePoints

CONSTANTS DlGroups,  \* [scheme, p, q, g, mdLen]
          EcGroups   \* [scheme, c, efs, mdLen], c a curve with its generator g

(* The groups of the headers: ElGamal's over a safe prime, DSA's of a prime *)
(* order q, both with a generator of order q, and a curve whose generator   *)
(* has a prime order, with bytes for an element of its field.               *)
ASSUME DlAssumption == \A G \in DlGroups :
  /\ G.scheme \in {"elgamal", "dsa"} /\ G.mdLen \in Nat
  /\ G.p \in Nat /\ G.q \in Nat /\ G.q > 2 /\ \A t \in 2 .. G.q - 1 : G.q % t # 0
  /\ G.g \in 2 .. G.p - 1 /\ Power(G.g, G.q, G.p) = 1
  /\ G.scheme = "elgamal" => G.p = 2 * G.q + 1 /\ \A t \in 2 .. G.p - 1 : G.p % t # 0

ASSUME EcAssumption == \A G \in EcGroups :
  /\ G.scheme \in {"ecdsa", "ecelgamal"} /\ G.mdLen \in Nat
  /\ G.efs \in Nat /\ G.c.p <= Pow(ByteMod, G.efs) /\ Generates(G.c)

InGroup == ctx.family \in {"dl", "ec"}

(* The private key is any number the key generation draws. *)
GroupInit ==
  \/ \E G \in DlGroups : \E x \in 1 .. (IF G.scheme = "dsa" THEN G.q ELSE G.p - 1) - 1 :
       Ready([family |-> "dl", scheme |-> G.scheme, p |-> G.p, q |-> G.q, g |-> G.g, mdLen |-> G.mdLen,
              order |-> IF G.scheme = "dsa" THEN G.q ELSE G.p - 1,
              x |-> x, y |-> Power(G.g, x, G.p)])
  \/ \E G \in EcGroups : LET table == MultiplesOf(G.c, G.c.g) IN \E x \in 1 .. Len(table) - 1 :
       Ready([family |-> "ec", scheme |-> G.scheme, c |-> G.c, efs |-> G.efs, mdLen |-> G.mdLen,
              order |-> Len(table), table |-> table, x |-> x, y |-> table[x]])

(* rand_int_nonzero below the order of the group, p - 1 for ElGamal. *)
Nonces == 1 .. ctx.order - 1

-----------------------------------------------------------------------------
OverMontgomery == ctx.family = "ec" /\ Montgomery(ctx)
XOf(R) == AffineOn(ctx.c, R).x

(* shared_mask *)
Mask(R) == Hash(PointBytes(ctx, R), ctx.mdLen)

-----------------------------------------------------------------------------
(* elgamal_encrypt, ecelgamal_encrypt: the first and the second part. *)
DlCipher(m, k) == <<Minimal(Power(ctx.g, k, ctx.p)),
                    Minimal((Power(ctx.y, k, ctx.p) * NumberOf(m)) % ctx.p)>>
EcCipher(m, k) == <<PointBytes(ctx, Stored(ctx, ctx.table[k])),
                    XorBytes(m, Mask(Stored(ctx, Times(ctx, k, ctx.y))))>>

GroupEncrypt(m) ==
  /\ ctx.scheme \in {"elgamal", "ecelgamal"} /\ pc = "ready"
  /\ LET over == IF ctx.family = "dl" THEN NumberOf(m) >= ctx.p ELSE Len(m) > ctx.mdLen
     IN  \/ over /\ Refuse("encrypt", m, "too_long")
         \/ ~over /\ Refuse("encrypt", m, "rng")
         \/ ~over /\ ctx.family = "ec" /\ Refuse("encrypt", m, "nomem")
         \/ ~over /\ \E k \in Nonces :
              Seal("encrypt", m, IF ctx.family = "dl" THEN DlCipher(m, k) ELSE EcCipher(m, k))

(* elgamal_decrypt *)
DlDecrypt(c) ==
  LET c1 == NumberOf(c[1])
      c2 == NumberOf(c[2])
      m == (c2 * InverseOf(Power(c1, ctx.x, ctx.p), ctx.p)) % ctx.p
  IN  /\ ctx.scheme = "elgamal"
      /\ IF c1 <= 0 \/ c1 >= ctx.p \/ c2 >= ctx.p THEN Open("decrypt", <<>>, c, "invalid_input")
         ELSE Open("decrypt", Minimal(m), c, "ok")

(* ecelgamal_decrypt *)
EcDecrypt(c) ==
  LET R == PointFrom(ctx, c[1])
  IN  /\ ctx.scheme = "ecelgamal"
      /\ IF Len(c[1]) # PointSize(ctx) \/ Len(c[2]) > ctx.mdLen \/ ~IsValid(ctx, R)
         THEN Open("decrypt", <<>>, c, "invalid_input")
         ELSE \/ Open("decrypt", XorBytes(c[2], Mask(Stored(ctx, Times(ctx, ctx.x, Lifted(ctx, R))))), c, "ok")
              \/ Open("decrypt", <<>>, c, "nomem")

-----------------------------------------------------------------------------
(* elgamal_hash, dsa_hash, ecdsa_digest: only the last cuts the digest down *)
(* to the length of the order.                                              *)
Digest(m) ==
  LET h == NumberOf(Hash(m, ctx.mdLen))
      extra == ByteBits * ctx.mdLen - BitLength(ctx.order)
  IN  IF ctx.scheme = "ecdsa" /\ extra > 0 THEN h \div Pow(2, extra) ELSE h

FirstHalf(k) == CASE ctx.scheme = "elgamal" -> Power(ctx.g, k, ctx.p)
                  [] ctx.scheme = "dsa"     -> Power(ctx.g, k, ctx.p) % ctx.q
                  [] ctx.family = "ec"      -> XOf(Stored(ctx, ctx.table[k])) % ctx.order

SecondHalf(k, h) ==
  LET inverse == InverseOf(k, ctx.order)
      xr == ctx.x * FirstHalf(k)
  IN  IF ctx.scheme = "elgamal" THEN (inverse * (h - xr)) % ctx.order
      ELSE (inverse * (h + xr)) % ctx.order

Unusable(k, h) == IF ctx.scheme = "elgamal" THEN ~Invertible(k, ctx.order)
                  ELSE FirstHalf(k) = 0 \/ SecondHalf(k, h) = 0

GroupSign(m) == /\ InGroup /\ pc = "ready"
                /\ \/ OverMontgomery /\ Refuse("sign", m, "unsupported")
                   \/ ~OverMontgomery /\ Refuse("sign", m, "rng")
                   \/ ~OverMontgomery /\ Begin("sign", m, <<>>)

Signing == InGroup /\ pc = "sign"

DrawNonce(k) == Signing /\ drawn = <<>> /\ Drew(<<k>>)

(* Faulty: the next turn takes the same number again. *)
SignStale == Signing /\ drawn # <<>> /\ Unusable(drawn[1], Digest(task)) /\ Drew(drawn)

(* The loop of the signer goes round with a fresh number, or ends. *)
SignAgain == Signing /\ drawn # <<>> /\ Unusable(drawn[1], Digest(task)) /\ Drew(<<>>)

SignDone == /\ Signing /\ drawn # <<>>
            /\ LET k == drawn[1]
                   h == Digest(task)
               IN  /\ ~Unusable(k, h)
                   /\ Seal("sign", task, <<Minimal(FirstHalf(k)), Minimal(SecondHalf(k, h))>>)

-----------------------------------------------------------------------------
(* The ranges of a signature. *)
InRanges(r, s) == IF ctx.scheme = "elgamal" THEN 0 < r /\ r < ctx.p /\ s < ctx.order
                  ELSE 0 < r /\ r < ctx.order /\ 0 < s /\ s < ctx.order

(* elgamal_verify, dsa_verify *)
DlEquation(r, s, h) ==
  IF ctx.scheme = "elgamal"
  THEN (Power(ctx.y, r, ctx.p) * Power(r, s, ctx.p)) % ctx.p = Power(ctx.g, h, ctx.p)
  ELSE LET w == InverseOf(s, ctx.q)
           u1 == Power(ctx.g, (h * w) % ctx.q, ctx.p)
           u2 == Power(ctx.y, (r * w) % ctx.q, ctx.p)
       IN  ((u1 * u2) % ctx.p) % ctx.q = r

(* ecdsa_verify, ecelgamal_verify *)
EcEquation(r, s, h) ==
  LET w == InverseOf(s, ctx.order)
      Multiple(k, S) == Stored(ctx, IF k = 0 THEN Neutral(ctx.c) ELSE Times(ctx, k, S))
      R == AddOn(ctx.c, Multiple((h * w) % ctx.order, ctx.c.g), Multiple((r * w) % ctx.order, ctx.y))
  IN  ~IsInfinityOn(ctx.c, R) /\ XOf(R) % ctx.order = r

GroupVerify(m, sig) ==
  LET r == NumberOf(sig[1])
      s == NumberOf(sig[2])
      valid == InRanges(r, s) /\ IF ctx.family = "dl" THEN DlEquation(r, s, Digest(m))
                                 ELSE EcEquation(r, s, Digest(m))
  IN  /\ InGroup
      /\ Open("verify", m, sig, IF OverMontgomery THEN "unsupported"
                                ELSE IF valid THEN "ok" ELSE "verify")

-----------------------------------------------------------------------------
(* What a signature of m has to satisfy under the private key: some number  *)
(* k gives its first half, and its second half solves the equation of the   *)
(* signer.  Both standards let a DSA verifier accept k = 0; an ElGamal      *)
(* verifier cannot tell r from -r when s is even, the order of g being odd. *)
GroupGenuine(m, sig) ==
  LET r == NumberOf(sig[1])
      s == NumberOf(sig[2])
      h == Digest(m)
  IN  CASE ctx.scheme = "elgamal" ->
             \E k \in 0 .. ctx.order - 1 : LET gk == Power(ctx.g, k, ctx.p) IN
               /\ r = gk \/ (r = ctx.p - gk /\ s % 2 = 0)
               /\ Power(ctx.g, (s * k + ctx.x * r) % ctx.order, ctx.p) = Power(ctx.g, h, ctx.p)
        [] OTHER ->
             \E k \in (IF ctx.scheme = "dsa" THEN 0 ELSE 1) .. ctx.order - 1 :
               FirstHalf(k) = r /\ (s * k - h - ctx.x * r) % ctx.order = 0
=============================================================================
