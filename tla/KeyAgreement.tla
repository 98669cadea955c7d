---------------------------- MODULE KeyAgreement ----------------------------
(***************************************************************************)
(* Diffie-Hellman, over the ElGamal groups (dh/dh.c, api/elgamal.c) and    *)
(* over curves (ecdh/ecdh.c, api/ecelgamal.c), with the two pages of the   *)
(* calculator that play both parties (frontend/dh.py, frontend/ecdh.py).   *)
(*                                                                         *)
(* A handler of a page runs to its end, in the one thread of the window,   *)
(* or to the first call that fails, which opens a dialog: what it did to   *)
(* the page before that stays.                                             *)
(***************************************************************************)
EXTENDS CurvePoints

CONSTANTS DhGroups,   \* [family, p, g]: the levels of the one page
          EcdhGroups  \* [family, c, efs, order, table]: the curves of the other

(* Both are standardised groups: a generator modulo a prime, which has an   *)
(* inverse, and a point of a prime order with its multiples.                *)
ASSUME GroupAssumption ==
  /\ \A G \in DhGroups :
       /\ G.family = "dl" /\ G.p \in Nat /\ G.p > 2 /\ G.g \in Nat
       /\ Invertible(G.g, G.p)
  /\ \A G \in EcdhGroups : G.family = "ec" /\ IsGroup(G, G.table, G.order)

VARIABLES
  groups,   \* what the page offers
  dh,       \* the group of its object, once it has one
  secrets,  \* sA and sB, which it may not have yet
  outcome   \* of the last handler: how it ended, and the two shared secrets it wrote

agreementVars == <<groups, dh, secrets, outcome>>

None == [family |-> "none"]
Unset == <<>>
Parties == {1, 2}
Both(x) == [i \in Parties |-> x]

Outcome(status, shared) == [status |-> status, shared |-> shared]

AgreementInit == /\ groups \in {DhGroups, EcdhGroups}
                 /\ dh = None
                 /\ secrets = Both(Unset)
                 /\ outcome = Outcome("none", Both(Unset))

-----------------------------------------------------------------------------
(* The calls cc_dh_* and cc_ecdh_*: the status, and the bytes put out. *)
Result(bytes) == [status |-> "ok", out |-> bytes]
Failed(status) == [status |-> status, out |-> <<>>]

(* One more than the largest secret: p - 1, or the order of the generator. *)
Bound(G) == IF G.family = "dl" THEN G.p - 1 ELSE G.order

(* in_exponent_range, valid_secret *)
ValidSecret(G, s) == 0 < NumberOf(s) /\ NumberOf(s) < Bound(G)

(* dh_gen_secret, ecdh_gen_secret: rand_int_nonzero below the bound. *)
GenSecret(G) == {Result(Minimal(s)) : s \in 1 .. Bound(G) - 1} \cup {Failed("rng")}

(* Faulty: the encoding of a point goes the way of every other number, and  *)
(* loses the zeros it starts with.                                          *)
PublicMinimal(G, s) ==
  IF ~ValidSecret(G, s) THEN {Failed("invalid_input")}
  ELSE IF G.family = "dl" THEN {Result(Minimal(Power(G.g, NumberOf(s), G.p)))}
  ELSE {Result(Minimal(NumberOf(PointBytes(G, Stored(G, G.table[NumberOf(s)]))))), Failed("nomem")}

(* dh_gen_public, ecdh_gen_public: a number without leading zeros, but a    *)
(* point at its full size.                                                  *)
Public(G, s) ==
  IF ~ValidSecret(G, s) THEN {Failed("invalid_input")}
  ELSE IF G.family = "dl" THEN {Result(Minimal(Power(G.g, NumberOf(s), G.p)))}
  ELSE {Result(PointBytes(G, Stored(G, G.table[NumberOf(s)]))), Failed("nomem")}

(* The peer value of DH is in [2, p - 2]. *)
AcceptsNumber(G, pub) == 2 <= NumberOf(pub) /\ NumberOf(pub) <= G.p - 2

(* That of ECDH is the full encoding of a point of the curve. *)
AcceptsPoint(G, pub) == Len(pub) = PointSize(G) /\ IsValid(G, PointFrom(G, pub))

PointSecret(G, s, pub) ==
  LET R == Stored(G, Times(G, NumberOf(s), Lifted(G, PointFrom(G, pub))))
  IN  IF IsInfinityOn(G.c, R) THEN Failed("invalid_input")
      ELSE Result(Minimal(NumberOf(PointBytes(G, R)) % G.order))

(* dh_compute_shared_secret, ecdh_compute_shared_secret *)
SharedSecret(G, s, pub) ==
  IF G.family = "dl"
  THEN IF ~AcceptsNumber(G, pub) \/ ~ValidSecret(G, s) THEN {Failed("invalid_input")}
       ELSE {Result(Minimal(Power(NumberOf(pub), NumberOf(s), G.p)))}
  ELSE IF ~ValidSecret(G, s) \/ ~AcceptsPoint(G, pub)
       THEN {Failed("invalid_input")}
       ELSE {PointSecret(G, s, pub), Failed("nomem")}

-----------------------------------------------------------------------------
Dialog(status) == outcome' = Outcome(status, Both(Unset))

(* Nothing is selected: the page has no group to make an object of. *)
NotSelected == dh = None /\ Dialog("not_selected") /\ UNCHANGED <<groups, dh, secrets>>

(* generateSecret: the object, then sA, then sB. *)
GenerateSecret(G) ==
  /\ dh' = G
  /\ \E a, b \in GenSecret(G) :
       IF a.status # "ok" THEN Dialog(a.status) /\ UNCHANGED secrets
       ELSE IF b.status # "ok" THEN Dialog(b.status) /\ secrets' = [secrets EXCEPT ![1] = a.out]
       ELSE outcome' = Outcome("generated", Both(Unset)) /\ secrets' = <<a.out, b.out>>
  /\ UNCHANGED groups

(* Faulty: a party takes its own public value for that of the other. *)
Own(i) == i

Peer(i) == 3 - i

(* keyExchange: an attribute that is missing, or the first of the four      *)
(* calls that fails, ends it before the page is touched.                    *)
KeyExchange ==
  /\ UNCHANGED <<groups, dh, secrets>>
  /\ IF dh = None \/ \E i \in Parties : secrets[i] = Unset
     THEN Dialog("attribute")
     ELSE \E pA \in Public(dh, secrets[1]), pB \in Public(dh, secrets[2]) :
          \E kA \in SharedSecret(dh, secrets[1], <<pA.out, pB.out>>[Peer(1)]),
             kB \in SharedSecret(dh, secrets[2], <<pA.out, pB.out>>[Peer(2)]) :
            LET calls == <<pA, pB, kA, kB>>
            IN  \/ \E i \in 1 .. 4 : /\ calls[i].status # "ok"
                                     /\ \A j \in 1 .. i - 1 : calls[j].status = "ok"
                                     /\ Dialog(calls[i].status)
                \/ /\ \A i \in 1 .. 4 : calls[i].status = "ok"
                   /\ outcome' = Outcome("exchanged", <<kA.out, kB.out>>)

AgreementNext == NotSelected \/ (\E G \in groups : GenerateSecret(G)) \/ KeyExchange

-----------------------------------------------------------------------------
(* Both parties arrive at the same secret, whatever the levels or curves    *)
(* the page was at before and wherever a handler broke off in between: an   *)
(* exchange that reaches its end uses one group for all four calls.         *)
Agreement == outcome.shared[1] = outcome.shared[2]

(* The public value of a secret is one that a peer refuses: 1 or p - 1. *)
Degenerate(G, s) == G.family = "dl" /\ Power(G.g, NumberOf(s), G.p) \in {1, G.p - 1}

(* Secrets that were generated together can be exchanged: no public value   *)
(* of the one party is refused by the other, and none is lost on the way    *)
(* through bytes.  A number of the group that is 1 or -1 is the exception   *)
(* (dh.c:41, ecdh.c:62, ecelgamal.c:227).                                   *)
FreshSecretsExchange ==
  [][outcome.status = "generated" /\ outcome'.status = "invalid_input" =>
       \E i \in Parties : Degenerate(dh, secrets[i])]_agreementVars
=============================================================================
