------------------------------ MODULE CurveWalk ------------------------------
(***************************************************************************)
(* Any sequence of point operations of ec/ec.c on two points, starting     *)
(* from infinity and the generator of a small curve.  Next to each point   *)
(* goes the number of times it should hold the generator.  Points are      *)
(* never brought back to z = 1 on the way, so that the formulas meet every *)
(* representation of every point.  A reference, the chord-and-tangent law  *)
(* on affine points, says what the multiples of the generator are.         *)
(***************************************************************************)
EXTENDS GroupLaw

CONSTANTS Curves   \* records with type, p, a, b and the generator g

ASSUME CurvesAssumption == \A C \in Curves : Generates(C)

VARIABLES
  curve,
  multiples,           \* of its generator, the last of which is neutral
  first, second,       \* two points
  firstIs, secondIs    \* the multiples of the generator they should be

walkVars == <<curve, multiples, first, second, firstIs, secondIs>>

GroupOrder == Len(multiples)
MultipleAt(n) == multiples[((n - 1) % GroupOrder) + 1]

-----------------------------------------------------------------------------
Generator == Point(curve.g.x, curve.g.y, 1)

(* On a Montgomery curve only neighbours can be added, so the walk keeps    *)
(* the second point one generator ahead of the first, as the ladder does.   *)
WalkInit ==
  /\ curve \in Curves
  /\ multiples = MultiplesOf(curve, curve.g)
  /\ IF curve.type = "montgomery"
     THEN /\ first = Generator /\ firstIs = 1
          /\ second = DblOn(curve, Generator) /\ secondIs = 2 % GroupOrder
     ELSE /\ first = InfinityOf(curve) /\ firstIs = 0
          /\ second = Generator /\ secondIs = 1

Double == /\ curve.type # "montgomery"
          /\ first' = DblOn(curve, first) /\ firstIs' = (2 * firstIs) % GroupOrder
          /\ UNCHANGED <<curve, multiples, second, secondIs>>

AddPoints == /\ curve.type # "montgomery"
             /\ first' = AddOn(curve, first, second)
             /\ firstIs' = (firstIs + secondIs) % GroupOrder
             /\ UNCHANGED <<curve, multiples, second, secondIs>>

Negate == /\ curve.type # "montgomery"
          /\ first' = NegOn(curve, first) /\ firstIs' = (-firstIs) % GroupOrder
          /\ UNCHANGED <<curve, multiples, second, secondIs>>

Swap == /\ curve.type # "montgomery"
        /\ first' = second /\ second' = first /\ firstIs' = secondIs /\ secondIs' = firstIs
        /\ UNCHANGED <<curve, multiples>>

Climb == /\ curve.type = "montgomery"
         /\ LET sum == DAddOn(curve, second, first, Generator)
            IN \/ /\ first' = DblOn(curve, first) /\ second' = sum
                  /\ firstIs' = (2 * firstIs) % GroupOrder
               \/ /\ first' = sum /\ second' = DblOn(curve, second)
                  /\ firstIs' = (2 * firstIs + 1) % GroupOrder
         /\ secondIs' = (firstIs' + 1) % GroupOrder
         /\ UNCHANGED <<curve, multiples>>

WalkNext == Double \/ AddPoints \/ Negate \/ Swap \/ Climb

WalkSpec == WalkInit /\ [][WalkNext]_walkVars

-----------------------------------------------------------------------------
(* The projective formulas compute the group law: whatever the operations   *)
(* before, each point is the multiple of the generator it should be, and    *)
(* never the triple of zeros.  This takes the sum of equal, of opposite and *)
(* of neutral points with it.                                               *)
PointsAgree == /\ Represents(curve, first, MultipleAt(firstIs))
               /\ Represents(curve, second, MultipleAt(secondIs))

(* Every point reached is accepted by is_on_curve. *)
StaysOnCurve == IsOnCurve(curve, first) /\ IsOnCurve(curve, second)

(* equals compares points, not representations.  On a Montgomery curve it   *)
(* compares x alone, and the infinity of the library, (0, 0), equals        *)
(* everything there, so that case is left out.                              *)
EqualsAgrees ==
  curve.type # "montgomery" => (EqualsOn(curve, first, second) <=> firstIs = secondIs)
=============================================================================
