------------------------------ MODULE MCCurves ------------------------------
(* The first state of a behaviour chooses between two machines.              *)
(* A walk over one small curve for each way the library computes: a = -3     *)
(* (P-224 to P-521), a = 0 (secp256k1), another a and an even group order    *)
(* (W25519, W448), the Edwards curves with a = -1 (Ed25519) and a = 1        *)
(* (Ed448, E448), for which a is a square and d is not, and a Montgomery     *)
(* curve with a + 2 divisible by four (Curve25519, Curve448).                *)
(* mul over two whole small curves, one for either loop: every scalar of     *)
(* four bits times every representation of a point and of infinity.  A point  *)
(* is kept with the type of its curve; a base is a multiple of the generator. *)
EXTENDS CurveWalk, ScalarMul

VARIABLE walking

Weierstrass == [type |-> "weierstrass", p |-> 7, a |-> -3, b |-> 1, g |-> [x |-> 0, y |-> 1]]
Montgomery == [type |-> "montgomery", p |-> 19, a |-> 6, b |-> 1, g |-> [x |-> 7, y |-> 6]]
MCurves == {Weierstrass, Montgomery}
CurveOf(c) == IF c = "montgomery" THEN Montgomery ELSE Weierstrass

Tables == [weierstrass |-> MultiplesOf(Weierstrass, Weierstrass.g),
           montgomery |-> MultiplesOf(Montgomery, Montgomery.g)]
Order(c) == Len(Tables[c])

MCBases == UNION {{[c |-> c, i |-> 1], [c |-> c, i |-> Order(c)]} : c \in DOMAIN Tables}
MCLadder == {b \in MCBases : b.c = "montgomery"}
MultipleOf(n, b) == Tables[b.c][((n * b.i - 1) % Order(b.c)) + 1]

Bare(s) == [x |-> s.x, y |-> s.y, z |-> s.z]
On(c, s) == [c |-> c, x |-> s.x, y |-> s.y, z |-> s.z]

(* Every way to store every multiple of the generator: each affine point at *)
(* every scale, and every form infinity takes.                              *)
Finite(C) == {On(C.type, Reduced(C, S.x * z, IF C = Montgomery THEN 0 ELSE S.y * z, z)) :
                S \in {Tables[C.type][n] : n \in 1 .. Order(C.type) - 1}, z \in 1 .. C.p - 1}
AtInfinity == {On("weierstrass", Point(0, v, 0)) : v \in 1 .. Weierstrass.p - 1}
                \cup {On("montgomery", Point(v, 0, 0)) : v \in 0 .. Montgomery.p - 1}
MCPoints == Finite(Weierstrass) \cup Finite(Montgomery) \cup AtInfinity

MCWalked == {
  [type |-> "weierstrass", p |-> 7,  a |-> -3, b |-> 6, g |-> [x |-> 1, y |-> 2]],
  [type |-> "weierstrass", p |-> 7,  a |-> 0,  b |-> 3, g |-> [x |-> 1, y |-> 2]],
  [type |-> "weierstrass", p |-> 11, a |-> 2,  b |-> 5, g |-> [x |-> 8, y |-> 4]],
  [type |-> "edwards",     p |-> 13, a |-> -1, b |-> 6, g |-> [x |-> 3, y |-> 9]],
  [type |-> "edwards",     p |-> 11, a |-> 1,  b |-> 2, g |-> [x |-> 3, y |-> 4]],
  [type |-> "montgomery",  p |-> 19, a |-> 6,  b |-> 1, g |-> [x |-> 7, y |-> 6]] }

MCPow2 == [i \in 0 .. MaxBits |-> 2 ^ i]
MCInfinity == [b \in MCBases |-> On(b.c, InfinityOf(CurveOf(b.c)))]
MCIsMultiple(s, i, b) == s.c = b.c /\ Represents(CurveOf(b.c), Bare(s), MultipleOf(i, b))
MCIsInfinity(s) == IsInfinityOn(CurveOf(s.c), Bare(s))
MCAdd(s, t) == On(s.c, AddOn(CurveOf(s.c), Bare(s), Bare(t)))
MCDbl(s) == On(s.c, DblOn(CurveOf(s.c), Bare(s)))
MCDAdd(s, t, u) == On(s.c, DAddOn(CurveOf(s.c), Bare(s), Bare(t), Bare(u)))
MCToAffine(s) == On(s.c, AffineOn(CurveOf(s.c), Bare(s)))

(* The machine that was not chosen stays where it begins. *)
WalkAtRest == WalkInit /\ curve = CHOOSE C \in Curves : C.type = "edwards"
MulAtRest == Init /\ base = [c |-> "weierstrass", i |-> 1] /\ k = 0 /\ ~alias /\ p.z = 1

CurvesInit == \/ walking = TRUE /\ WalkInit /\ MulAtRest
              \/ walking = FALSE /\ Init /\ WalkAtRest

CurvesNext == /\ \/ walking /\ WalkNext /\ UNCHANGED vars
                 \/ ~walking /\ Next /\ UNCHANGED walkVars
              /\ UNCHANGED walking

CurvesSpec == CurvesInit /\ [][CurvesNext]_<<vars, walkVars, walking>>
=============================================================================
