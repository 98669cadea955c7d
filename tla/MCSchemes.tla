----------------------------- MODULE MCSchemes -----------------------------
(* Bytes of two bits and hashes of one or two of them.  RSA with the larger  *)
(* prime first and last; a modulus of PSS whose block is one byte shorter    *)
(* than it, and one whose block has a bit to clear.  Groups in which some    *)
(* numbers drawn give a half of zero: 3^3 = 5 modulo 11 for DSA, an x of 7    *)
(* over a group of order 7, which is below its field, for ECDSA.             *)
EXTENDS Schemes, Bitwise

MCXor(a, b) == a ^^ b
MCHashId == <<1>>

(* A digest that depends on every byte and on their places. *)
MCHash(s, len) ==
  LET V[i \in 0 .. Len(s)] == IF i = 0 THEN 7 + len ELSE (V[i - 1] * 6 + 3 * s[i] + i) % 61
  IN  BytesOf(len, ((V[Len(s)] * V[Len(s)] + 11) \div 5) % Pow(ByteMod, len))

Rsa(scheme, p, q) == [scheme |-> scheme, p |-> p, q |-> q, e |-> 3]
MCRsaContexts == {Rsa("textbook", 5, 11), Rsa("textbook", 11, 5),
                  Rsa("pkcs1", 47, 41), Rsa("pkcs1", 41, 47),
                  Rsa("oaep_pss", 17, 23), Rsa("oaep_pss", 29, 23)}

MCDlGroups == {[scheme |-> "elgamal", p |-> 23, q |-> 11, g |-> 2, mdLen |-> 2],
               [scheme |-> "dsa", p |-> 11, q |-> 5, g |-> 3, mdLen |-> 2]}

W11 == [type |-> "weierstrass", p |-> 11, a |-> 2, b |-> 7, g |-> [x |-> 6, y |-> 2]]
E13 == [type |-> "edwards", p |-> 13, a |-> -1, b |-> 6, g |-> [x |-> 3, y |-> 9]]
M19 == [type |-> "montgomery", p |-> 19, a |-> 6, b |-> 1, g |-> [x |-> 7, y |-> 6]]
Ec(scheme, c) == [scheme |-> scheme, c |-> c, efs |-> CountBytes(c.p), mdLen |-> 2]
MCEcGroups == {Ec("ecdsa", W11), Ec("ecdsa", E13), Ec("ecdsa", M19),
               Ec("ecelgamal", W11), Ec("ecelgamal", E13), Ec("ecelgamal", M19)}

MCMessages(c) == {<<>>, <<0>>, <<2>>, <<0, 1>>, <<3, 1>>, <<1, 2, 3>>}
                   \cup IF c.scheme = "textbook" THEN {<<3, 1, 2>>, <<3, 1, 3>>} ELSE {}

Strings(lens) == UNION {[1 .. n -> Byte] : n \in lens}
Halves(max) == {Minimal(v) : v \in 0 .. max}

MCForeignCiphers(c) ==
  CASE c.family = "rsa" -> [1 .. c.k -> Byte] \cup {<<>>, Zeros(c.k + 1)}
    [] c.family = "dl"  -> Halves(c.p) \X Halves(c.p)
    [] c.family = "ec"  ->
         ([1 .. (IF c.c.type = "montgomery" THEN 1 ELSE 2) * c.efs -> Byte] \cup {<<>>})
            \X {<<>>, <<2, 1>>, <<0, 0, 0>>}

MCForeignSigned(c) ==
  IF c.family = "rsa" THEN {<<0, 1>>, <<2>>} \X ([1 .. c.k -> Byte] \cup {<<>>, Zeros(c.k + 1)})
  ELSE LET top == IF c.scheme = "elgamal" THEN c.p ELSE c.order
       IN  {<<>>, <<2>>, <<3, 1>>} \X (Halves(top) \X Halves(top))
=============================================================================
