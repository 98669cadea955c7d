---------------------------- MODULE CurveFormulas ----------------------------
(***************************************************************************)
(* The point arithmetic of ec/ec.c.  A curve is a record with its type,    *)
(* the prime p of its field and the coefficients a and b (the d of a       *)
(* twisted Edwards curve is b).  A point is a record of projective         *)
(* coordinates in 0 .. p - 1, in XZ form on Montgomery curves, where y is  *)
(* never read.  Intermediate values are integers, reduced at the end.      *)
(***************************************************************************)
EXTENDS Integers

Point(X, Y, Z) == [x |-> X, y |-> Y, z |-> Z]
Reduced(c, X, Y, Z) == Point(X % c.p, Y % c.p, Z % c.p)

InfinityOf(c) == Point(0, IF c.type = "montgomery" THEN 0 ELSE 1,
                       IF c.type = "edwards" THEN 1 ELSE 0)

IsInfinityOn(c, P) ==
  \/ c.type = "weierstrass" /\ P.x = 0 /\ P.z = 0
  \/ c.type = "montgomery" /\ P.z = 0
  \/ c.type = "edwards" /\ P.x = 0 /\ P.y = P.z

(* mpz_invert modulo the prime of the field. *)
InverseMod(c, v) == CHOOSE w \in 1 .. c.p - 1 : (v * w) % c.p = 1

(* to_affine followed by z = 1; only x is set for infinity. *)
AffineOn(c, P) ==
  IF IsInfinityOn(c, P) THEN Point(0, 0, 1)
  ELSE LET w == InverseMod(c, P.z) IN Reduced(c, P.x * w, P.y * w, 1)

-----------------------------------------------------------------------------
(* The complete formulas for Weierstrass curves (add-2015-rcb), with a = -3 *)
(* and in general: the products of the coordinates, then three combinations *)
(* of them that the coordinates of the sum are made of.                     *)
Combine(c, t1, u, v, w, xy, yz) ==
  Reduced(c, xy * (t1 - u) - yz * w, (t1 - u) * (t1 + u) + v * w, yz * (t1 + u) + xy * v)

AddMinus3(c, P, Q) ==
  LET t0 == P.x * Q.x
      t1 == P.y * Q.y
      t2 == P.z * Q.z
      xy == (P.x + P.y) * (Q.x + Q.y) - (t0 + t1)
      yz == (P.y + P.z) * (Q.y + Q.z) - (t1 + t2)
      xz == (P.x + P.z) * (Q.x + Q.z) - (t0 + t2)
  IN  Combine(c, t1, -3 * (xz - c.b * t2), 3 * (t0 - t2), 3 * (c.b * xz - 3 * t2 - t0), xy, yz)

AddGeneral(c, P, Q) ==
  LET t0 == P.x * Q.x
      t1 == P.y * Q.y
      t2 == P.z * Q.z
      xy == (P.x + P.y) * (Q.x + Q.y) - (t0 + t1)
      xz == (P.x + P.z) * (Q.x + Q.z) - (t0 + t2)
      yz == (P.y + P.z) * (Q.y + Q.z) - (t1 + t2)
  IN  Combine(c, t1, c.a * xz + 3 * c.b * t2, 3 * t0 + c.a * t2,
              3 * c.b * xz + c.a * (t0 - c.a * t2), xy, yz)

(* Faulty: the coefficient a is taken to be -1. *)
AddEdwardsMinusOne(c, P, Q) ==
  LET A == (P.z * Q.z) % c.p
      C == (P.x * Q.x) % c.p
      D == (P.y * Q.y) % c.p
      E == c.b * C * D
      F == A * A - E
      G == A * A + E
  IN  Reduced(c, F * A * ((P.x + P.y) * (Q.x + Q.y) - C - D), A * G * (D + C), F * G)

(* add-2008-bbjlp *)
AddEdwards(c, P, Q) ==
  LET A == (P.z * Q.z) % c.p
      C == (P.x * Q.x) % c.p
      D == (P.y * Q.y) % c.p
      E == c.b * C * D
      F == A * A - E
      G == A * A + E
  IN  Reduced(c, F * A * ((P.x + P.y) * (Q.x + Q.y) - C - D), A * G * (D - c.a * C), F * G)

AddOn(c, P, Q) ==
  IF IsInfinityOn(c, P) THEN Q
  ELSE IF IsInfinityOn(c, Q) THEN P
  ELSE IF c.type = "edwards" THEN AddEdwards(c, P, Q)
  ELSE IF c.a = -3 THEN AddMinus3(c, P, Q) ELSE AddGeneral(c, P, Q)

-----------------------------------------------------------------------------
(* dbl-2015-rcb, with a = -3 and in general. *)
DoubleCombine(c, P, u, v, w) ==
  LET t1 == P.y * P.y
      s  == 2 * P.y * P.z
  IN  Reduced(c, (t1 - u) * 2 * P.x * P.y - s * w, (t1 - u) * (t1 + u) + v * w, 4 * s * t1)

DblMinus3(c, P) ==
  LET t0 == P.x * P.x
      t2 == P.z * P.z
      xz == 2 * P.x * P.z
  IN  DoubleCombine(c, P, 3 * (c.b * t2 - xz), 3 * (t0 - t2), 3 * (c.b * xz - 3 * t2 - t0))

DblGeneral(c, P) ==
  LET t0 == P.x * P.x
      t2 == P.z * P.z
      xz == 2 * P.x * P.z
  IN  DoubleCombine(c, P, c.a * xz + 3 * c.b * t2, 3 * t0 + c.a * t2,
                    3 * c.b * xz + c.a * (t0 - c.a * t2))

(* Faulty: the coefficient a is taken to be 1. *)
DblEdwardsOne(c, P) ==
  LET C == P.x * P.x
      D == P.y * P.y
      F == C + D
      J == F - 2 * P.z * P.z
  IN  Reduced(c, ((P.x + P.y) * (P.x + P.y) - C - D) * J, F * (C - D), F * J)

(* dbl-2008-bbjlp *)
DblEdwards(c, P) ==
  LET C == P.x * P.x
      D == P.y * P.y
      F == c.a * C + D
      J == F - 2 * P.z * P.z
  IN  Reduced(c, ((P.x + P.y) * (P.x + P.y) - C - D) * J, F * (c.a * C - D), F * J)

(* dbl-1987-m-3: only x and z are set. *)
DblMontgomery(c, P) ==
  LET A == (P.x + P.z) * (P.x + P.z)
      B == (P.x - P.z) * (P.x - P.z)
      C == A - B
  IN  Reduced(c, A * B, P.y, C * (C * ((c.a + 2) \div 4) + B))

DblOn(c, P) ==
  IF IsInfinityOn(c, P) THEN P
  ELSE IF c.type = "montgomery" THEN DblMontgomery(c, P)
  ELSE IF c.type = "edwards" THEN DblEdwards(c, P)
  ELSE IF c.a = -3 THEN DblMinus3(c, P) ELSE DblGeneral(c, P)

(* diffadd-dadd-1987-m-3: P + Q from their difference W. *)
DAddOn(c, P, Q, W) ==
  IF IsInfinityOn(c, P) THEN Q
  ELSE IF IsInfinityOn(c, Q) THEN P
  ELSE LET E == (P.x + P.z) * (Q.x - Q.z)
           F == (P.x - P.z) * (Q.x + Q.z)
       IN  Reduced(c, W.z * (E + F) * (E + F), P.y, W.x * (E - F) * (E - F))

-----------------------------------------------------------------------------
NegOn(c, P) == IF c.type = "weierstrass" THEN Reduced(c, P.x, -P.y, P.z)
               ELSE Reduced(c, -P.x, P.y, P.z)

(* Faulty: coordinates are compared as they are stored. *)
EqualsStored(c, P, Q) == P.x = Q.x /\ (c.type = "montgomery" \/ P.y = Q.y)

EqualsOn(c, P, Q) ==
  /\ (P.x * Q.z - Q.x * P.z) % c.p = 0
  /\ c.type = "montgomery" \/ (P.y * Q.z - Q.y * P.z) % c.p = 0

(* The right-hand side of the equation for y^2. *)
Rhs(c, x) ==
  (CASE c.type = "weierstrass" -> x * x * x + c.a * x + c.b
     [] c.type = "montgomery"  -> x * (x * (x + c.a) + 1)
     [] c.type = "edwards"     -> (c.a * x * x - 1) * InverseMod(c, (c.b * x * x - 1) % c.p)) % c.p

(* On a Montgomery curve x has to belong to a point: the value is a square  *)
(* other than 0.                                                            *)
IsOnCurve(c, P) ==
  \/ IsInfinityOn(c, P)
  \/ LET A == AffineOn(c, P)
     IN  IF c.type = "montgomery"
         THEN \E y \in 1 .. c.p - 1 : (y * y) % c.p = Rhs(c, A.x)
         ELSE (A.y * A.y - Rhs(c, A.x)) % c.p = 0
=============================================================================
