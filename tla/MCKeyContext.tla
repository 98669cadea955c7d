---------------------------- MODULE MCKeyContext ----------------------------
(* Two contexts used from two threads: RSA, whose keygen loops, beside DSA,  *)
(* which draws a single scalar, hands out its parameters without a key and   *)
(* may refuse its arguments both before and after it allocates.              *)
EXTENDS KeyContext

CONSTANTS a, b

MCSchemes == [c \in {a, b} |-> IF c = a THEN "rsa" ELSE "dsa"]
=============================================================================
