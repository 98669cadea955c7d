----------------------------- MODULE CurvePoints -----------------------------
(***************************************************************************)
(* Points as the schemes over a curve handle them: ec/ec.c seen from its   *)
(* callers.  G is a group: its curve G.c, and the bytes G.efs of an        *)
(* element of its field.                                                   *)
(***************************************************************************)
EXTENDS Bytes, GroupLaw

(* The generator has a prime order N, and the multiples T; an element of    *)
(* the field fits the bytes of one.                                         *)
IsGroup(G, T, N) ==
  /\ G.efs \in Nat /\ G.c.p <= Pow(ByteMod, G.efs)
  /\ IsCyclic(G.c, T, N)
  /\ \A i \in 1 .. N - 1 : IsPointOf(G.c, T, N, i)

Montgomery(G) == G.c.type = "montgomery"

(* mul: k times an affine point; on a Montgomery curve, of a point with its *)
(* x, of which both have the same x again.                                  *)
Times(G, k, S) == LET t == MultiplesOf(G.c, S) IN t[((k - 1) % Len(t)) + 1]

Stored(G, S) == IF S = O THEN InfinityOf(G.c) ELSE Point(S.x, S.y, 1)

(* point_size, point_to_bytes *)
PointSize(G) == IF Montgomery(G) THEN G.efs ELSE 2 * G.efs
PointBytes(G, R) ==
  LET A == AffineOn(G.c, R)
  IN  BytesOf(G.efs, A.x) \o IF Montgomery(G) THEN <<>> ELSE BytesOf(G.efs, A.y)

(* point_from_bytes *)
PointFrom(G, s) == Point(NumberOf(SubSeq(s, 1, G.efs)),
                         IF Montgomery(G) THEN 0 ELSE NumberOf(SubSeq(s, G.efs + 1, PointSize(G))), 1)

(* is_valid_point *)
IsValid(G, R) == /\ R.x < G.c.p /\ R.y < G.c.p
                 /\ ~IsInfinityOn(G.c, R) /\ IsOnCurve(G.c, R)

(* A point of the curve with that x: on a Montgomery curve only x is kept. *)
Lifted(G, R) == [x |-> R.x, y |-> IF Montgomery(G)
                                  THEN CHOOSE y \in 1 .. G.c.p - 1 : (y * y) % G.c.p = Rhs(G.c, R.x)
                                  ELSE R.y]
=============================================================================
