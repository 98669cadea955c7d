------------------------------ MODULE ScalarMul ------------------------------
(***************************************************************************)
(* mul of ec/ec.c: r = k p, by double-and-add on Weierstrass and Edwards   *)
(* curves, by the Montgomery ladder on Montgomery curves, one turn of the  *)
(* loop at a time.  The schemes pass the same point for r and p            *)
(* ("mul(&P, P, s, curve)"), and the limbs of p are then those of r, so p  *)
(* is read through Source.                                                 *)
(*                                                                         *)
(* The point operations are constants.  Bases are points of some curves,   *)
(* those in Ladder of Montgomery curves, and Infinity[b] is how infinity   *)
(* is stored on the curve of b.  IsMultiple(q, n, b) says that q           *)
(* represents n times b; the assumptions are what mul relies on.           *)
(* Pow2 is the table of the powers of two up to MaxBits; scalars are below *)
(* the last of them.                                                       *)
(***************************************************************************)
EXTENDS Integers

CONSTANTS Points, Bases, Infinity, Ladder, MaxBits, Pow2,
          IsMultiple(_, _, _), IsInfinity(_), Add(_, _), Dbl(_), DAdd(_, _, _), ToAffine(_)

Multiples == 0 .. 2 * Pow2[MaxBits]

ASSUME TableAssumption ==
  /\ MaxBits \in Nat \ {0}
  /\ Pow2 \in [0 .. MaxBits -> Nat]
  /\ Pow2[0] = 1
  /\ \A j \in 0 .. MaxBits - 1 : Pow2[j + 1] = 2 * Pow2[j]

(* The representations of n times b. *)
Reps(n, b) == {s \in Points : IsMultiple(s, n, b)}

(* What doubling and the conversion mean, and what infinity is. *)
ASSUME DblAssumption == \A b \in Bases :
  /\ Infinity[b] \in Reps(0, b)
  /\ \A n \in 0 .. Pow2[MaxBits] : \A s \in Reps(n, b) : Dbl(s) \in Reps(2 * n, b)
  /\ \A s \in Reps(1, b) :
       IF IsInfinity(s) THEN \A n \in Multiples : Infinity[b] \in Reps(n, b)
                        ELSE ToAffine(s) \in Reps(1, b) /\ ~IsInfinity(ToAffine(s))

(* The base is all that is ever added. *)
ASSUME AddAssumption ==
  \A b \in Bases \ Ladder : \A n \in 0 .. 2 * Pow2[MaxBits] - 1 :
    \A s \in Reps(n, b), t \in Reps(1, b) : Add(s, t) \in Reps(n + 1, b)

(* Differential addition is only ever applied to neighbours, and only when  *)
(* the base is not infinity.                                                *)
ASSUME DAddAssumption ==
  \A b \in Bases \cap Ladder : \A n \in 0 .. Pow2[MaxBits] - 1 :
    \A s \in Reps(n + 1, b), t \in Reps(n, b), u \in Reps(1, b) :
      ~IsInfinity(u) => DAdd(s, t, u) \in Reps(2 * n + 1, b)

VARIABLES
  pc,      \* "entry", "turn" in the loop, "done"
  base,    \* the point p stood for on entry
  k,       \* the scalar
  j,       \* the bit the loop is at
  p, r,    \* the arguments
  alias,   \* r and p are the same point
  q,       \* the accumulator; R0 of the ladder
  q1, d    \* R1 and D of the ladder

vars == <<pc, base, k, j, p, r, alias, q, q1, d>>

Source == IF alias THEN r ELSE p

Init == /\ pc = "entry"
        /\ base \in Bases
        /\ k \in 0 .. Pow2[MaxBits] - 1
        /\ p \in Reps(1, base)
        /\ alias \in BOOLEAN
        /\ r = IF alias THEN p ELSE Infinity[base]
        /\ j = 0
        /\ q = Infinity[base] /\ q1 = Infinity[base] /\ d = Infinity[base]

(* mpz_sizeinbase(k, 2) and mpz_tstbit(k, i) *)
SizeInBase == CHOOSE s \in 1 .. MaxBits : Pow2[s - 1] <= k /\ k < Pow2[s]
Bit(i) == (k \div Pow2[i]) % 2 = 1

Done(result) == r' = result /\ pc' = "done" /\ UNCHANGED <<j, q, q1, d>>

(* The cases decided without a loop. *)
Shortcut ==
  /\ pc = "entry"
  /\ \/ (IsInfinity(Source) \/ k = 0) /\ Done(Infinity[base])
     \/ ~IsInfinity(Source) /\ k = 1 /\ Done(Source)
     \/ ~IsInfinity(Source) /\ k = 2 /\ Done(Dbl(Source))
  /\ UNCHANGED <<base, k, p, alias>>

(* Faulty: the loop starts one bit above the top of the scalar. *)
EnterOneHigh ==
  /\ pc = "entry"
  /\ ~IsInfinity(Source) /\ k > 2
  /\ pc' = "turn"
  /\ IF base \in Ladder
     THEN /\ j' = SizeInBase - 1
          /\ q' = Source /\ q1' = Dbl(Source) /\ d' = ToAffine(Source)
     ELSE /\ j' = SizeInBase
          /\ q' = Infinity[base]
          /\ UNCHANGED <<q1, d>>
  /\ UNCHANGED <<base, k, p, r, alias>>

Enter ==
  /\ pc = "entry"
  /\ ~IsInfinity(Source) /\ k > 2
  /\ pc' = "turn"
  /\ IF base \in Ladder
     THEN /\ j' = SizeInBase - 2
          /\ q' = Source /\ q1' = Dbl(Source) /\ d' = ToAffine(Source)
     ELSE /\ j' = SizeInBase - 1
          /\ q' = Infinity[base]
          /\ UNCHANGED <<q1, d>>
  /\ UNCHANGED <<base, k, p, r, alias>>

(* Faulty: the result is accumulated in r itself. *)
AddTurnInPlace ==
  /\ pc = "turn" /\ base \notin Ladder /\ j >= 0
  /\ q' = IF Bit(j) THEN Add(Dbl(q), Source) ELSE Dbl(q)
  /\ r' = q'
  /\ j' = j - 1
  /\ UNCHANGED <<pc, base, k, p, alias, q1, d>>

AddTurn ==
  /\ pc = "turn" /\ base \notin Ladder /\ j >= 0
  /\ q' = IF Bit(j) THEN Add(Dbl(q), Source) ELSE Dbl(q)
  /\ j' = j - 1
  /\ UNCHANGED <<pc, base, k, p, r, alias, q1, d>>

(* Faulty: R0 and R1 are not swapped back. *)
LadderTurnCrossed ==
  /\ pc = "turn" /\ base \in Ladder /\ j >= 0
  /\ r' = DAdd(q1, q, d)
  /\ q' = Dbl(IF Bit(j) THEN q1 ELSE q) /\ q1' = r'
  /\ j' = j - 1
  /\ UNCHANGED <<pc, base, k, p, alias, d>>

(* The sum of the neighbours is left in r on the way. *)
LadderTurn ==
  /\ pc = "turn" /\ base \in Ladder /\ j >= 0
  /\ r' = DAdd(q1, q, d)
  /\ IF Bit(j) THEN q' = r' /\ q1' = Dbl(q1)
               ELSE q' = Dbl(q) /\ q1' = r'
  /\ j' = j - 1
  /\ UNCHANGED <<pc, base, k, p, alias, d>>

Leave ==
  /\ pc = "turn" /\ j < 0
  /\ Done(q)
  /\ UNCHANGED <<base, k, p, alias>>

Next == Shortcut \/ Enter \/ AddTurn \/ LadderTurn \/ Leave

Spec == Init /\ [][Next]_vars

-----------------------------------------------------------------------------
TypeOK ==
  /\ pc \in {"entry", "turn", "done"}
  /\ base \in Bases
  /\ k \in 0 .. Pow2[MaxBits] - 1
  /\ j \in -1 .. MaxBits - 1
  /\ {p, r, q, q1, d} \subseteq Points
  /\ alias \in BOOLEAN

(* The result is k times the point passed in, for every scalar from 0 on,   *)
(* for infinity too, and also when the result overwrites its own argument.  *)
Correct == pc = "done" => IsMultiple(r, k, base)

(* Before bit j is looked at, the accumulator is the multiple given by the  *)
(* bits above it, and the ladder holds the next multiple beside it.         *)
BitsAbove == pc = "turn" =>
  LET n == k \div Pow2[j + 1]
  IN  IsMultiple(q, n, base) /\ (base \in Ladder => IsMultiple(q1, n + 1, base))
=============================================================================
