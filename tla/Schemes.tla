------------------------------- MODULE Schemes -------------------------------
(***************************************************************************)
(* An application at work with one context: it seals messages and opens    *)
(* what it made, with either way to compute for RSA, and, before it made   *)
(* anything, what it was given.                                            *)
(***************************************************************************)
EXTENDS RsaSchemes, GroupSchemes

CONSTANTS MessagesFor(_), ForeignCiphers(_), ForeignSigned(_)

Init == RsaInit \/ GroupInit

Decrypt(c) == RsaDecrypt(c) \/ DlDecrypt(c) \/ EcDecrypt(c)
Verify(m, s) == RsaVerify(m, s) \/ GroupVerify(m, s)

(* A bound: the first call seals, or opens what was given; what was sealed  *)
(* is then opened any number of times.  Calls leave nothing behind but the  *)
(* choice of UseCrt.                                                        *)
Fresh == pc = "ready" /\ last = NoCall

SealAny == Fresh /\ \E m \in MessagesFor(ctx) :
             RsaEncrypt(m) \/ RsaSign(m) \/ GroupEncrypt(m) \/ GroupSign(m)

Choose == (Fresh \/ made # Nothing) /\ UseCrt

OpenMade == \/ made.call = "encrypt" /\ Decrypt(made.out)
            \/ made.call = "sign" /\ \E m \in MessagesFor(ctx) : Verify(m, made.out)

OpenForeign == /\ Fresh
               /\ \/ \E c \in ForeignCiphers(ctx) : Decrypt(c)
                  \/ \E f \in ForeignSigned(ctx) : Verify(f[1], f[2])

Draw == InGroup /\ \E k \in Nonces : DrawNonce(k)

Next == \/ Choose \/ SealAny \/ OpenMade \/ OpenForeign
        \/ Pad \/ RsaEncryptPadded
        \/ Draw \/ SignAgain \/ SignDone

(* A call that runs goes on; a byte that is not zero, and a number that the *)
(* signer can use, are drawn in the end.                                    *)
UsableNonce == Signing /\ \E k \in Nonces : DrawNonce(k) /\ ~Unusable(k, Digest(task))

Fairness == WF_vars(pc # "ready" /\ Next) /\ SF_vars(UsableNonce)

Spec == Init /\ [][Next]_vars /\ Fairness

-----------------------------------------------------------------------------
(* Where the scheme works on numbers, a message comes back without its      *)
(* leading zeros.                                                           *)
Returned(m) == IF ctx.scheme \in {"textbook", "elgamal"} THEN Minimal(NumberOf(m)) ELSE m

(* What was encrypted decrypts to its message and what was signed verifies, *)
(* with the Chinese remainder on either side or not, whatever was drawn and *)
(* whichever of the primes is larger; only memory can be missing.           *)
RoundTrip ==
  /\ last.call = "decrypt" /\ made.call = "encrypt" /\ last.in = made.out =>
       \/ last.status = "ok" /\ last.m = Returned(made.m)
       \/ last.status = "nomem"
  /\ last.call = "verify" /\ made.call = "sign" /\ last.in = made.out /\ last.m = made.m =>
       last.status \in {"ok", "nomem"}

(* Every block an encoder makes is a number below the modulus, and what the *)
(* two operations make of it fits the size of the modulus: sealing is never *)
(* refused because of what was drawn.                                       *)
EncodingsFit == last.call \in {"encrypt", "sign"} => last.status # "invalid_input"

(* Whatever bytes are opened, a decryption is only accepted of a ciphertext *)
(* that the encryption of its result can make, and a signature only when it *)
(* solves the equation of the signer.                                       *)
OnlyGenuine ==
  last.status = "ok" =>
    /\ last.call = "decrypt" /\ ctx.family = "rsa" =>
         BytesOf(ctx.k, NumberOf(last.in)) \in RsaCiphertexts(last.m)
    /\ last.call = "verify" /\ ctx.family = "rsa" =>
         BytesOf(ctx.k, NumberOf(last.in)) \in RsaSignatures(last.m)
    /\ last.call = "verify" /\ InGroup => GroupGenuine(last.m, last.in)

(* A call that draws until it can use what it drew returns. *)
SealReturns == (pc # "ready") ~> (pc = "ready")
=============================================================================
