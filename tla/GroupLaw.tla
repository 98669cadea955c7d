------------------------------ MODULE GroupLaw ------------------------------
(***************************************************************************)
(* The group of a curve, as textbooks define it on affine points: the      *)
(* reference for the projective formulas of ec/ec.c.  It is not part of    *)
(* the library.                                                            *)
(***************************************************************************)
EXTENDS CurveFormulas, Sequences

(* Infinity, as an affine point outside the field. *)
O == [x |-> -1, y |-> -1]

(* The line through two points of y^2 = x^3 + a2 x^2 + a4 x + a6. *)
Chord(c, a2, a4, S, T) ==
  LET slope == IF S = T THEN (3 * S.x * S.x + 2 * a2 * S.x + a4) * InverseMod(c, (2 * S.y) % c.p)
                        ELSE (T.y - S.y) * InverseMod(c, (T.x - S.x) % c.p)
      x == (slope * slope - a2 - S.x - T.x) % c.p
  IN  [x |-> x, y |-> (slope * (S.x - x) - S.y) % c.p]

Tangential(c, a2, a4, S, T) ==
  IF S = O THEN T ELSE IF T = O THEN S
  ELSE IF S.x = T.x /\ (S.y + T.y) % c.p = 0 THEN O ELSE Chord(c, a2, a4, S, T)

(* The addition law of a twisted Edwards curve, whose neutral point is      *)
(* (0, 1).                                                                  *)
EdwardsSum(c, S, T) ==
  LET e == c.b * S.x * T.x * S.y * T.y
  IN  [x |-> ((S.x * T.y + S.y * T.x) * InverseMod(c, (1 + e) % c.p)) % c.p,
       y |-> ((S.y * T.y - c.a * S.x * T.x) * InverseMod(c, (1 - e) % c.p)) % c.p]

Sum(c, S, T) == CASE c.type = "weierstrass" -> Tangential(c, 0, c.a, S, T)
                  [] c.type = "montgomery"  -> Tangential(c, c.a, 1, S, T)
                  [] c.type = "edwards"     -> EdwardsSum(c, S, T)

Neutral(c) == IF c.type = "edwards" THEN [x |-> 0, y |-> 1] ELSE O

(* The multiples of an affine point, up to the one that is neutral; a curve *)
(* has no more than 2 p + 1 points.                                         *)
MultiplesOf(c, G) ==
  LET Times[n \in 1 .. 2 * c.p + 1] == IF n = 1 THEN G ELSE Sum(c, Times[n - 1], G)
      order == CHOOSE n \in 1 .. 2 * c.p + 1 :
                 Times[n] = Neutral(c) /\ \A m \in 1 .. n - 1 : Times[m] # Neutral(c)
  IN  SubSeq(Times, 1, order)

(* T is the group of N multiples of its first point: of prime order, the    *)
(* neutral one last.                                                        *)
IsCyclic(c, T, N) ==
  /\ N \in Nat /\ N > 1 /\ \A d \in 2 .. N - 1 : N % d # 0
  /\ c.p \in Nat /\ c.p > 2 /\ N <= 2 * c.p + 1
  /\ T[N] = Neutral(c) /\ \A i \in 1 .. N - 1 : T[i] # Neutral(c)
  /\ \A i, j \in 1 .. N : Sum(c, T[i], T[j]) = T[((i + j - 1) % N) + 1]

(* The multiple i of the generator is a point of the curve; on a Montgomery *)
(* curve its negative is the only other one with its x.                     *)
IsPointOf(c, T, N, i) ==
  LET S == T[i]
      Lifts == {y \in 1 .. c.p - 1 : (y * y) % c.p = Rhs(c, S.x)}
  IN  /\ S = [x |-> S.x, y |-> S.y] /\ S.x \in 0 .. c.p - 1 /\ S.y \in 0 .. c.p - 1
      /\ IsOnCurve(c, Point(S.x, S.y, 1))
      /\ c.type = "montgomery" =>
           \A y \in Lifts : [x |-> S.x, y |-> y] \in {S, T[N - i]} /\ T[N - i].x = S.x

(* A curve over a prime field whose generator has an odd prime order.  The  *)
(* library computes with a quarter of a + 2 on a Montgomery curve, and adds *)
(* on an Edwards curve without exception: a is a square there and d is not. *)
IsCurve(c, T, N) ==
  /\ \A f \in 2 .. c.p - 1 : c.p % f # 0
  /\ c.a \in Int /\ c.b \in Int
  /\ IsCyclic(c, T, N) /\ N > 2
  /\ \A i \in 1 .. N - 1 : IsPointOf(c, T, N, i)
  /\ CASE c.type = "weierstrass" -> TRUE
       [] c.type = "montgomery"  -> (c.a + 2) % 4 = 0
       [] c.type = "edwards"     -> /\ \E s \in 1 .. c.p - 1 : (s * s - c.a) % c.p = 0
                                    /\ \A s \in 0 .. c.p - 1 : (s * s - c.b) % c.p # 0
       [] OTHER                  -> FALSE

Generates(c) == LET T == MultiplesOf(c, c.g) IN T[1] = c.g /\ IsCurve(c, T, Len(T))

(* The projective point R, never the triple of zeros, stands for S. *)
Represents(c, R, S) ==
  IF S = O THEN /\ R.z = 0
                /\ c.type = "weierstrass" => R.x = 0 /\ R.y # 0
  ELSE /\ R.z # 0
       /\ (R.x - S.x * R.z) % c.p = 0
       /\ c.type = "montgomery" \/ (R.y - S.y * R.z) % c.p = 0
=============================================================================
