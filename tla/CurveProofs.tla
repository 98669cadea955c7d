---------------------------- MODULE CurveProofs ----------------------------
(***************************************************************************)
(* The points of ec/ec.c, for every curve.                                 *)
(*                                                                         *)
(* mul is correct for every curve whose point operations are what          *)
(* ScalarMul assumes of them, for every length of scalar.                  *)
(*                                                                         *)
(* The projective formulas compute the group law of the textbook on every  *)
(* curve over a prime field whose generator has an odd prime order (see    *)
(* NatLemmas).  So they are what ScalarMul assumes of them, and the walk   *)
(* of CurveWalk keeps its properties.                                      *)
(***************************************************************************)
EXTENDS ScalarMul, CurveWalk, NatLemmas

(* The bits of k above bit j. *)
Above == k \div Pow2[j + 1]

(* The argument is intact as long as it is read. *)
SourceKept == pc = "entry" \/ (pc = "turn" /\ base \notin Ladder) => Source \in Reps(1, base)

LadderKept == pc = "turn" /\ base \in Ladder =>
  /\ q1 \in Reps(Above + 1, base)
  /\ d \in Reps(1, base) /\ ~IsInfinity(d)

IInv == /\ TypeOK
        /\ SourceKept
        /\ pc = "turn" => q \in Reps(Above, base)
        /\ LadderKept
        /\ pc = "done" => r \in Reps(k, base)

-----------------------------------------------------------------------------
(* The table is positive, by induction on its index. *)
LEMMA Pow2Positive == \A i \in 0 .. MaxBits : Pow2[i] \in Nat /\ Pow2[i] > 0
<1> USE TableAssumption
<1> DEFINE Bad == {i \in 0 .. MaxBits : ~(Pow2[i] > 0)}
<1>1. Pow2[0] > 0 /\ \A i \in 0 .. MaxBits : Pow2[i] \in Nat
  OBVIOUS
<1>2. SUFFICES ASSUME Bad # {} PROVE FALSE
  BY <1>1
<1>3. PICK i \in Bad : \A h \in Bad : i <= h
  <2>1. Bad \in SUBSET Nat
    OBVIOUS
  <2> HIDE DEF Bad
  <2> QED
    BY <1>2, <2>1, LeastNatural
<1>4. i # 0 /\ i \in 0 .. MaxBits
  BY <1>1
<1>5. i - 1 \in 0 .. MaxBits - 1 /\ i - 1 \in 0 .. MaxBits /\ i - 1 \notin Bad
  BY <1>3, <1>4
<1>6. Pow2[i] = 2 * Pow2[i - 1]
  BY <1>4, <1>5
<1> QED
  BY <1>1, <1>3, <1>4, <1>5, <1>6

(* A scalar that is not 0 has a length. *)
LEMMA SizeExists ==
  ASSUME k \in 1 .. Pow2[MaxBits] - 1
  PROVE  SizeInBase \in 1 .. MaxBits /\ Pow2[SizeInBase - 1] <= k /\ k < Pow2[SizeInBase]
<1> USE TableAssumption
<1> DEFINE Longer == {i \in 0 .. MaxBits : k < Pow2[i]}
<1>1. MaxBits \in Longer /\ 0 \notin Longer /\ k \in Nat
  BY Pow2Positive
<1>2. PICK s \in Longer : \A h \in Longer : s <= h
  <2>1. Longer \in SUBSET Nat
    OBVIOUS
  <2> HIDE DEF Longer
  <2> QED
    BY <1>1, <2>1, LeastNatural
<1>3. s \in 1 .. MaxBits /\ s - 1 \in 0 .. MaxBits /\ s - 1 \notin Longer
  BY <1>1, <1>2
<1>4. Pow2[s - 1] <= k /\ k < Pow2[s]
  BY <1>1, <1>3, Pow2Positive
<1> QED
  BY <1>3, <1>4 DEF SizeInBase

(* What the assumptions say of a double, of a double with the base added,   *)
(* and of the sum of two neighbours.                                        *)
LEMMA Doubling ==
  ASSUME NEW b \in Bases, NEW n \in 0 .. Pow2[MaxBits], NEW s \in Reps(n, b)
  PROVE  Dbl(s) \in Reps(2 * n, b)
  BY DblAssumption

LEMMA Adding ==
  ASSUME NEW b \in Bases, NEW n \in 0 .. Pow2[MaxBits] - 1, b \notin Ladder,
         NEW s \in Reps(2 * n, b), NEW t \in Reps(1, b)
  PROVE  Add(s, t) \in Reps(2 * n + 1, b)
<1>1. 2 * n \in 0 .. 2 * Pow2[MaxBits] - 1
  BY TableAssumption, Pow2Positive
<1> QED
  BY <1>1, AddAssumption

LEMMA Neighbours ==
  ASSUME NEW b \in Bases, NEW n \in 0 .. Pow2[MaxBits] - 1, b \in Ladder,
         NEW s \in Reps(n + 1, b), NEW t \in Reps(n, b), NEW u \in Reps(1, b), ~IsInfinity(u)
  PROVE  DAdd(s, t, u) \in Reps(2 * n + 1, b)
  BY DAddAssumption

(* What a turn does to the bits above the current one. *)
LEMMA NextBit ==
  ASSUME TypeOK, j >= 0
  PROVE  /\ Above \in 0 .. Pow2[MaxBits] - 1
         /\ j \in 0 .. MaxBits - 1
         /\ Bit(j) => k \div Pow2[j] = 2 * Above + 1
         /\ ~Bit(j) => k \div Pow2[j] = 2 * Above
<1> DEFINE t == Pow2[j]
<1>1. j \in 0 .. MaxBits - 1 /\ j \in 0 .. MaxBits /\ k \in Nat
  BY TableAssumption, Pow2Positive DEF TypeOK
<1>2. t \in Nat /\ t > 0 /\ Pow2[j + 1] = 2 * t
  BY <1>1, Pow2Positive, TableAssumption
<1>3. Above = k \div (2 * t)
  BY <1>2 DEF Above
<1> HIDE DEF t
<1>4. /\ k \div (2 * t) \in Nat
      /\ (k \div t) % 2 = 1 => k \div t = 2 * (k \div (2 * t)) + 1
      /\ (k \div t) % 2 # 1 => k \div t = 2 * (k \div (2 * t))
  BY <1>1, <1>2, Halving
<1>5. k \div (2 * t) <= k
  <2>1. 2 * t \in Nat /\ 2 * t > 0
    BY <1>2
  <2>2. (k \div (2 * t)) * (2 * t) <= k
    BY <1>1, <2>1, Quotient
  <2> QED
    BY <1>1, <1>4, <2>1, <2>2
<1>6. k \in 0 .. Pow2[MaxBits] - 1 /\ Pow2[MaxBits] \in Nat
  BY TableAssumption, Pow2Positive DEF TypeOK
<1>7. /\ Bit(j) => k \div t = 2 * Above + 1
      /\ ~Bit(j) => k \div t = 2 * Above
  BY <1>3, <1>4 DEF Bit, t
<1> QED
  BY <1>1, <1>3, <1>4, <1>5, <1>6, <1>7 DEF t

-----------------------------------------------------------------------------
LEMMA InitIInv == Init => IInv
<1> SUFFICES ASSUME Init PROVE IInv
  OBVIOUS
<1>1. MaxBits \in Nat \ {0} /\ Infinity[base] \in Points
  BY TableAssumption, DblAssumption DEF Init, Reps
<1>2. TypeOK
  <2>1. p \in Points /\ r \in Points
    BY <1>1 DEF Init, Reps
  <2>2. j \in -1 .. MaxBits - 1
    BY <1>1 DEF Init
  <2> QED
    BY <1>1, <2>1, <2>2 DEF Init, TypeOK
<1>3. SourceKept
  BY DEF Init, SourceKept, Source
<1> QED
  BY <1>2, <1>3 DEF Init, IInv, LadderKept

(* Reading off facts of a state in the loop or before it. *)
LEMMA Reading ==
  ASSUME IInv, pc \in {"entry", "turn"}
  PROVE  /\ base \in Bases /\ Reps(1, base) \subseteq Points
         /\ k \in 0 .. Pow2[MaxBits] - 1 /\ Pow2[MaxBits] \in Nat
         /\ pc = "entry" \/ base \notin Ladder => Source \in Reps(1, base)
         /\ Infinity[base] \in Reps(0, base) /\ Infinity[base] \in Points
<1>1. MaxBits \in 0 .. MaxBits
  BY TableAssumption
<1> QED
  BY <1>1, DblAssumption, Pow2Positive DEF IInv, TypeOK, SourceKept, Reps

LEMMA ShortcutKeeps == IInv /\ Shortcut => IInv'
<1> SUFFICES ASSUME IInv, Shortcut PROVE IInv'
  OBVIOUS
<1>1. pc = "entry" /\ UNCHANGED <<base, k, p, alias, j, q, q1, d>> /\ pc' = "done"
  BY DEF Shortcut, Done
<1>2. /\ base \in Bases /\ k \in Nat /\ k \in Multiples
      /\ Source \in Reps(1, base) /\ Infinity[base] \in Reps(0, base)
  BY <1>1, Reading, Pow2Positive DEF Multiples
<1>3. r' \in Reps(k, base)
  <2>1. CASE IsInfinity(Source) /\ r' = Infinity[base]
    BY <1>2, <2>1, DblAssumption
  <2>2. CASE k = 0 /\ r' = Infinity[base]
    BY <1>2, <2>2
  <2>3. CASE k = 1 /\ r' = Source
    BY <1>2, <2>3
  <2>4. CASE k = 2 /\ r' = Dbl(Source)
    <3>1. 1 \in 0 .. Pow2[MaxBits]
      BY <1>1, <2>4, Reading
    <3>2. Dbl(Source) \in Reps(2 * 1, base)
      BY <1>2, <3>1, Doubling
    <3> QED
      BY <2>4, <3>2
  <2> QED
    BY <2>1, <2>2, <2>3, <2>4 DEF Shortcut, Done
<1>4. TypeOK'
  BY <1>1, <1>3 DEF IInv, TypeOK, Reps
<1>5. Reps(k, base)' = Reps(k, base)
  BY <1>1 DEF Reps
<1> QED
  BY <1>1, <1>3, <1>4, <1>5 DEF IInv, SourceKept, LadderKept

LEMMA EnterKeeps == IInv /\ Enter => IInv'
<1> SUFFICES ASSUME IInv, Enter PROVE IInv'
  OBVIOUS
<1> DEFINE s == SizeInBase
<1>1. pc = "entry" /\ pc' = "turn" /\ UNCHANGED <<base, k, p, r, alias>> /\ ~IsInfinity(Source)
  BY DEF Enter
<1>2. /\ base \in Bases /\ Source \in Reps(1, base) /\ Infinity[base] \in Reps(0, base)
      /\ k \in 1 .. Pow2[MaxBits] - 1 /\ k > 2 /\ 1 \in 0 .. Pow2[MaxBits] /\ k \in Nat
  BY <1>1, Reading DEF Enter
<1>3. s \in 1 .. MaxBits /\ Pow2[s - 1] <= k /\ k < Pow2[s]
  BY <1>2, SizeExists
<1>4. UNCHANGED Source /\ Reps(1, base)' = Reps(1, base)
  BY <1>1 DEF Source, Reps
<1> HIDE DEF s
<1>5. CASE base \notin Ladder
  <2>1. j' = s - 1 /\ q' = Infinity[base] /\ UNCHANGED <<q1, d>>
    BY <1>5 DEF Enter, s
  <2>2. k \div Pow2[s] = 0
    <3>1. Pow2[s] \in Nat /\ Pow2[s] > 0
      BY <1>3, TableAssumption, Pow2Positive
    <3>2. 0 * Pow2[s] <= k /\ k < (0 + 1) * Pow2[s]
      BY <1>2, <1>3, <3>1
    <3> QED
      BY <1>2, <3>1, <3>2, QuotientIs
  <2>3. Above' = 0
    <3>1. j' + 1 = s
      BY <1>3, <2>1, TableAssumption
    <3> QED
      BY <1>1, <2>2, <3>1 DEF Above
  <2>4. q' \in Reps(Above, base)'
    BY <1>1, <1>2, <2>1, <2>3 DEF Reps
  <2>5. TypeOK'
    <3>1. j' \in -1 .. MaxBits - 1
      BY <1>3, <2>1, TableAssumption
    <3> QED
      BY <1>1, <1>2, <2>1, <3>1 DEF IInv, TypeOK, Reps
  <2> QED
    BY <1>1, <1>2, <1>4, <1>5, <2>4, <2>5 DEF IInv, SourceKept, LadderKept
<1>6. CASE base \in Ladder
  <2>1. j' = s - 2 /\ q' = Source /\ q1' = Dbl(Source) /\ d' = ToAffine(Source)
    BY <1>6 DEF Enter, s
  <2>2. s \in 2 .. MaxBits /\ Pow2[s] = 2 * Pow2[s - 1] /\ Pow2[s - 1] \in Nat /\ Pow2[s - 1] > 0
    <3>1. Pow2[0] = 1 /\ Pow2[1] = 2
      BY TableAssumption
    <3>2. s # 1
      BY <1>2, <1>3, <3>1
    <3>3. s - 1 \in 0 .. MaxBits - 1 /\ s - 1 \in 0 .. MaxBits /\ (s - 1) + 1 = s
      BY <1>3, TableAssumption
    <3> QED
      BY <1>3, <3>2, <3>3, TableAssumption, Pow2Positive
  <2>3. k \div Pow2[s - 1] = 1
    <3>1. 1 * Pow2[s - 1] <= k /\ k < (1 + 1) * Pow2[s - 1]
      BY <1>2, <1>3, <2>2
    <3> QED
      BY <1>2, <2>2, <3>1, QuotientIs
  <2>4. Above' = 1
    <3>1. j' + 1 = s - 1
      BY <2>1, <2>2, TableAssumption
    <3> QED
      BY <1>1, <2>3, <3>1 DEF Above
  <2>5. Dbl(Source) \in Reps(2 * 1, base)
    BY <1>2, Doubling
  <2>6. ToAffine(Source) \in Reps(1, base) /\ ~IsInfinity(ToAffine(Source))
    BY <1>1, <1>2, DblAssumption
  <2>7. q' \in Reps(Above, base)'
    BY <1>1, <1>2, <2>1, <2>4 DEF Reps
  <2>8. LadderKept'
    <3>1. Above' + 1 = 2 * 1
      BY <2>4
    <3>2. q1' \in Reps(Above' + 1, base)
      BY <2>1, <2>5, <3>1
    <3> QED
      BY <1>1, <2>1, <2>6, <3>2 DEF LadderKept, Reps
  <2>9. TypeOK'
    <3>1. j' \in -1 .. MaxBits - 1
      BY <2>1, <2>2, TableAssumption
    <3>2. {Source, Dbl(Source), ToAffine(Source)} \subseteq Points
      BY <1>2, <2>5, <2>6 DEF Reps
    <3> QED
      BY <1>1, <1>2, <2>1, <3>1, <3>2 DEF IInv, TypeOK
  <2> QED
    BY <1>1, <1>6, <2>7, <2>8, <2>9 DEF IInv, SourceKept
<1> QED
  BY <1>5, <1>6

LEMMA AddTurnKeeps == IInv /\ AddTurn => IInv'
<1> SUFFICES ASSUME IInv, AddTurn PROVE IInv'
  OBVIOUS
<1>1. /\ pc = "turn" /\ base \notin Ladder /\ j >= 0 /\ j' = j - 1
      /\ UNCHANGED <<pc, base, k, p, r, alias, q1, d>>
  BY DEF AddTurn
<1>2. base \in Bases /\ Source \in Reps(1, base) /\ q \in Reps(Above, base)
  BY <1>1, Reading DEF IInv
<1>3. /\ Above \in 0 .. Pow2[MaxBits] - 1 /\ Above \in 0 .. Pow2[MaxBits]
      /\ j \in 0 .. MaxBits - 1
      /\ Bit(j) => k \div Pow2[j] = 2 * Above + 1
      /\ ~Bit(j) => k \div Pow2[j] = 2 * Above
  BY <1>1, NextBit, Reading DEF IInv
<1>4. Dbl(q) \in Reps(2 * Above, base)
  BY <1>2, <1>3, Doubling
<1>5. Above' = k \div Pow2[j]
  <2>1. j' + 1 = j
    BY <1>1, <1>3
  <2> QED
    BY <1>1, <2>1 DEF Above
<1>6. q' \in Reps(Above', base)
  <2>1. CASE Bit(j)
    <3>1. Add(Dbl(q), Source) \in Reps(2 * Above + 1, base)
      BY <1>1, <1>2, <1>3, <1>4, Adding
    <3> QED
      BY <1>3, <1>5, <2>1, <3>1 DEF AddTurn
  <2>2. CASE ~Bit(j)
    BY <1>3, <1>4, <1>5, <2>2 DEF AddTurn
  <2> QED
    BY <2>1, <2>2
<1>7. TypeOK'
  <2>1. j' \in -1 .. MaxBits - 1
    BY <1>1, <1>3, TableAssumption
  <2>2. q' \in Points
    BY <1>6 DEF Reps
  <2> QED
    BY <1>1, <2>1, <2>2 DEF IInv, TypeOK
<1>8. Source' \in Reps(1, base)'
  BY <1>1, <1>2 DEF Source, Reps
<1>9. q' \in Reps(Above, base)'
  BY <1>1, <1>6 DEF Reps
<1> QED
  BY <1>1, <1>7, <1>8, <1>9 DEF IInv, SourceKept, LadderKept

LEMMA LadderTurnKeeps == IInv /\ LadderTurn => IInv'
<1> SUFFICES ASSUME IInv, LadderTurn PROVE IInv'
  OBVIOUS
<1>1. /\ pc = "turn" /\ base \in Ladder /\ j >= 0 /\ j' = j - 1
      /\ UNCHANGED <<pc, base, k, p, alias, d>>
  BY DEF LadderTurn
<1>2. /\ base \in Bases /\ q \in Reps(Above, base) /\ q1 \in Reps(Above + 1, base)
      /\ d \in Reps(1, base) /\ ~IsInfinity(d)
  BY <1>1, Reading DEF IInv, LadderKept
<1>3. /\ Above \in 0 .. Pow2[MaxBits] - 1 /\ Above \in 0 .. Pow2[MaxBits]
      /\ Above + 1 \in 0 .. Pow2[MaxBits]
      /\ j \in 0 .. MaxBits - 1
      /\ Bit(j) => k \div Pow2[j] = 2 * Above + 1
      /\ ~Bit(j) => k \div Pow2[j] = 2 * Above
  BY <1>1, NextBit, Reading DEF IInv
<1>4. DAdd(q1, q, d) \in Reps(2 * Above + 1, base)
  BY <1>1, <1>2, <1>3, Neighbours
<1>5. Above' = k \div Pow2[j]
  <2>1. j' + 1 = j
    BY <1>1, <1>3
  <2> QED
    BY <1>1, <2>1 DEF Above
<1>6. q' \in Reps(Above', base) /\ q1' \in Reps(Above' + 1, base)
  <2>1. CASE Bit(j)
    <3>1. Dbl(q1) \in Reps(2 * (Above + 1), base)
      BY <1>2, <1>3, Doubling
    <3>2. Above' = 2 * Above + 1 /\ Above' + 1 = 2 * (Above + 1)
      BY <1>3, <1>5, <2>1
    <3> QED
      BY <1>4, <2>1, <3>1, <3>2 DEF LadderTurn
  <2>2. CASE ~Bit(j)
    <3>1. Dbl(q) \in Reps(2 * Above, base)
      BY <1>2, <1>3, Doubling
    <3> QED
      BY <1>3, <1>4, <1>5, <2>2, <3>1 DEF LadderTurn
  <2> QED
    BY <2>1, <2>2
<1>7. TypeOK'
  <2>1. j' \in -1 .. MaxBits - 1
    BY <1>1, <1>3, TableAssumption
  <2>2. q' \in Points /\ q1' \in Points /\ r' \in Points
    BY <1>4, <1>6 DEF LadderTurn, Reps
  <2> QED
    BY <1>1, <2>1, <2>2 DEF IInv, TypeOK
<1>8. LadderKept' /\ q' \in Reps(Above, base)'
  BY <1>1, <1>2, <1>6 DEF LadderKept, Reps
<1> QED
  BY <1>1, <1>7, <1>8 DEF IInv, SourceKept

LEMMA LeaveKeeps == IInv /\ Leave => IInv'
<1> SUFFICES ASSUME IInv, Leave PROVE IInv'
  OBVIOUS
<1>1. /\ pc = "turn" /\ j < 0 /\ r' = q /\ pc' = "done"
      /\ UNCHANGED <<base, k, p, alias, j, q, q1, d>>
  BY DEF Leave, Done
<1>2. Above = k
  <2>1. j + 1 = 0 /\ Pow2[0] = 1 /\ k \in Nat
    BY <1>1, TableAssumption, Pow2Positive DEF IInv, TypeOK
  <2> QED
    BY <2>1 DEF Above
<1>3. q \in Reps(k, base)
  BY <1>1, <1>2 DEF IInv
<1>4. TypeOK'
  BY <1>1 DEF IInv, TypeOK
<1> QED
  BY <1>1, <1>3, <1>4 DEF IInv, SourceKept, LadderKept, Reps

LEMMA StutterKeeps == IInv /\ UNCHANGED vars => IInv'
  BY DEF IInv, TypeOK, SourceKept, Source, LadderKept, Above, Reps, vars

-----------------------------------------------------------------------------
LEMMA Inductive == Spec => []IInv
<1>1. IInv /\ [Next]_vars => IInv'
  BY ShortcutKeeps, EnterKeeps, AddTurnKeeps, LadderTurnKeeps, LeaveKeeps, StutterKeeps DEF Next
<1> QED
  BY <1>1, InitIInv, PTL DEF Spec

(* Every variable of mul stays in its range: the points are points, and the *)
(* bit looked at is a bit of the scalar.                                    *)
THEOREM TypeCorrect == Spec => []TypeOK
<1>1. IInv => TypeOK
  BY DEF IInv
<1> QED
  BY <1>1, Inductive, PTL

(* mul returns k times its argument, by either loop, for scalars of any     *)
(* length, for infinity, and when the result overwrites the argument.       *)
THEOREM Multiplication == Spec => []Correct
<1>1. IInv => Correct
  BY DEF IInv, Correct, Reps
<1> QED
  BY <1>1, Inductive, PTL

(* Before each turn the accumulator, and with it the ladder, holds the      *)
(* multiple given by the bits already read.                                 *)
THEOREM Accumulation == Spec => []BitsAbove
<1>1. IInv => BitsAbove
  BY DEF IInv, LadderKept, BitsAbove, Above, Reps
<1> QED
  BY <1>1, Inductive, PTL

-----------------------------------------------------------------------------
(* The formulas are what ScalarMul assumes of them, on every curve and for  *)
(* every multiple of its generator as the base: infinity, doubling and the  *)
(* conversion to affine coordinates on every curve, the addition of the     *)
(* base where it is used, and the differential addition of neighbours by a  *)
(* base that is not infinity on the Montgomery curves.                      *)
THEOREM FormulasAreAsAssumed ==
  ASSUME NEW C \in Curves, NEW T, T = MultiplesOf(C, C.g), NEW N, N = Len(T), NEW i \in 1 .. N
  PROVE  LET Stored(n) == StoredTimes(C, T, N, n, i)
         IN  /\ InfinityOf(C) \in Stored(0)
             /\ \A n \in Nat : \A s \in Stored(n) : DblOn(C, s) \in Stored(2 * n)
             /\ \A s \in Stored(1) :
                  IF IsInfinityOn(C, s)
                  THEN \A n \in Nat : InfinityOf(C) \in Stored(n)
                  ELSE AffineOn(C, s) \in Stored(1) /\ ~IsInfinityOn(C, AffineOn(C, s))
             /\ C.type # "montgomery" =>
                  \A n \in Nat : \A s \in Stored(n), t \in Stored(1) : AddOn(C, s, t) \in Stored(n + 1)
             /\ C.type = "montgomery" =>
                  \A n \in Nat : \A s \in Stored(n + 1), t \in Stored(n), u \in Stored(1) :
                    ~IsInfinityOn(C, u) => DAddOn(C, s, t, u) \in Stored(2 * n + 1)
<1> DEFINE Stored(n) == StoredTimes(C, T, N, n, i)
           at(n) == TurnsTo(n, i, N)
<1>1. IsCurve(C, T, N)
  BY CurvesAssumption DEF Generates
<1>2. N \in Nat /\ N > 0 /\ N > 2
  <2>1. N \in Nat /\ N > 2
    BY <1>1, CurveFacts
  <2> QED
    BY <2>1
<1>3. i \in Int /\ 1 * i = i /\ 0 * i = 0 /\ 1 \in Nat /\ 0 \in Nat
  BY <1>2
<1>4. at(1) = i /\ at(0) = N
  <2>1. (i - 1) % N = i - 1
    BY <1>2
  <2>2. (0 - 1) % N = N - 1
    <3>1. -1 \in Int /\ N - 1 \in Int /\ (-1) \in Int /\ N - 1 = (-1) + 1 * N /\ N - 1 \in 0 .. N - 1
      BY <1>2
    <3>2. (N - 1) % N = (-1) % N
      BY <1>2, <3>1, IntRemainder
    <3>3. (N - 1) % N = N - 1
      BY <1>2, <3>1
    <3> QED
      BY <3>2, <3>3
  <2> QED
    BY <1>2, <1>3, <2>1, <2>2 DEF At, TurnsTo
<1>5. ASSUME NEW g \in Nat, NEW h \in Nat
      PROVE  at(g) \in 1 .. N /\ At(at(g) + at(h), N) = at(g + h)
  <2>1. N \in Nat /\ N > 0 /\ i \in Int
    BY <1>2, <1>3
  <2> QED
    BY ONLY <2>1, <1>5, TimesAdd
<1>6. InfinityOf(C) \in Stored(0)
  <2>1. Stores(C, T, N, InfinityOf(C))
    BY <1>1, InfinityStored
  <2> QED
    BY <1>4, <2>1, TimesStored
<1>7. ASSUME NEW n \in Nat, NEW s \in Stored(n) PROVE DblOn(C, s) \in Stored(2 * n)
  <2>1. at(n) \in 1 .. N /\ At(at(n) + at(n), N) = at(n + n)
    BY <1>3, <1>5
  <2>2. Stores(C, T, at(n), s)
    BY TimesStored
  <2>3. Stores(C, T, at(n + n), DblOn(C, s))
    BY <1>1, <2>1, <2>2, Doubled
  <2>4. n + n = 2 * n
    OBVIOUS
  <2> QED
    BY <2>3, <2>4, TimesStored
<1>8. ASSUME NEW s \in Stored(1)
      PROVE  IF IsInfinityOn(C, s)
             THEN \A n \in Nat : InfinityOf(C) \in Stored(n)
             ELSE AffineOn(C, s) \in Stored(1) /\ ~IsInfinityOn(C, AffineOn(C, s))
  <2>1. Stores(C, T, i, s)
    BY <1>4, TimesStored
  <2>2. IsInfinityOn(C, s) <=> i = N
    BY <1>1, <2>1, InfiniteIs
  <2>3. ASSUME IsInfinityOn(C, s), NEW n \in Nat PROVE InfinityOf(C) \in Stored(n)
    <3>1. n * i = n * N
      BY <2>2, <2>3
    <3>2. at(n) = N
      <4> DEFINE a == n * i
      <4>1. a \in Int /\ 0 \in Int /\ n \in Int /\ a = 0 + n * N
        BY <1>2, <1>3, <3>1
      <4> HIDE DEF a
      <4>2. At(a, N) = At(0, N)
        BY <1>2, <4>1, AtTurns
      <4> QED
        BY <1>3, <1>4, <4>2 DEF a, TurnsTo
    <3>3. Stores(C, T, N, InfinityOf(C))
      BY <1>1, InfinityStored
    <3> QED
      BY <3>2, <3>3, TimesStored
  <2>4. ASSUME ~IsInfinityOn(C, s)
        PROVE  AffineOn(C, s) \in Stored(1) /\ ~IsInfinityOn(C, AffineOn(C, s))
    <3>1. i \in 1 .. N - 1 /\ i # N
      BY <1>2, <2>2, <2>4
    <3>2. Stores(C, T, i, AffineOn(C, s))
      BY <1>1, <2>1, <3>1, AffineStored
    <3>3. ~IsInfinityOn(C, AffineOn(C, s))
      BY <1>1, <3>1, <3>2, InfiniteIs
    <3> QED
      BY <1>4, <3>2, <3>3, TimesStored
  <2> QED
    BY <2>3, <2>4
<1>9. ASSUME C.type # "montgomery", NEW n \in Nat, NEW s \in Stored(n), NEW t \in Stored(1)
      PROVE  AddOn(C, s, t) \in Stored(n + 1)
  <2>1. at(n) \in 1 .. N /\ At(at(n) + at(1), N) = at(n + 1)
    BY <1>3, <1>5
  <2>2. Stores(C, T, at(n), s) /\ Stores(C, T, i, t)
    BY <1>4, TimesStored
  <2>3. Stores(C, T, At(at(n) + i, N), AddOn(C, s, t))
    BY <1>1, <1>9, <2>1, <2>2, Added
  <2> QED
    BY <1>4, <2>1, <2>3, TimesStored
<1>10. ASSUME C.type = "montgomery", NEW n \in Nat, NEW s \in Stored(n + 1), NEW t \in Stored(n),
              NEW u \in Stored(1), ~IsInfinityOn(C, u)
       PROVE  DAddOn(C, s, t, u) \in Stored(2 * n + 1)
  <2> DEFINE e == at(n)
             f == at(n + 1)
  <2>1. Stores(C, T, e, t) /\ Stores(C, T, f, s) /\ Stores(C, T, i, u)
    BY <1>4, TimesStored
  <2>2. i \in 1 .. N - 1
    <3>1. i # N
      BY <1>1, <1>10, <2>1, InfiniteIs
    <3> QED
      BY <1>2, <3>1
  <2>3. n + 1 \in Nat /\ n + (n + 1) = 2 * n + 1
    OBVIOUS
  <2>4. e \in 1 .. N /\ At(e + i, N) = f
    BY <1>3, <1>4, <1>5
  <2>5. f \in 1 .. N /\ At(e + f, N) = at(2 * n + 1)
    BY <1>5, <2>3
  <2>6. f = IF e + i <= N THEN e + i ELSE e + i - N
    BY <1>2, <2>4, AtNext
  <2> HIDE DEF e, f
  <2>7. Stores(C, T, At(e + f, N), DAddOn(C, s, t, u))
    BY <1>1, <1>10, <2>1, <2>2, <2>4, <2>5, <2>6, MontgomeryAdd
  <2> QED
    BY <2>5, <2>7, TimesStored
<1> QED
  BY <1>6, <1>7, <1>8, <1>9, <1>10

-----------------------------------------------------------------------------
(* P is stored in reduced coordinates and holds a times the generator.      *)
Holds(P, a) == a \in 0 .. Len(multiples) - 1 /\ Stores(curve, multiples, Place(a, Len(multiples)), P)

(* The inductive invariant of the walk.  That its points stand for the      *)
(* multiples they should be is kept by every step only because their        *)
(* coordinates are those of the field and, on a Montgomery curve, because   *)
(* the two are neighbours.                                                  *)
WalkInv == /\ IsCurve(curve, multiples, Len(multiples)) /\ curve.g = multiples[1]
           /\ Holds(first, firstIs) /\ Holds(second, secondIs)
           /\ curve.type = "montgomery" => secondIs = (firstIs + 1) % Len(multiples)

LEMMA HeldPlace ==
  ASSUME IsCurve(curve, multiples, Len(multiples)), NEW P, NEW a, Holds(P, a)
  PROVE  /\ Len(multiples) \in Nat /\ Len(multiples) > 2
         /\ a \in 0 .. Len(multiples) - 1 /\ Place(a, Len(multiples)) \in 1 .. Len(multiples)
         /\ At(a, Len(multiples)) = Place(a, Len(multiples))
         /\ Stores(curve, multiples, Place(a, Len(multiples)), P)
<1>1. Len(multiples) \in Nat /\ Len(multiples) > 2
  BY CurveFacts
<1>2. a \in 0 .. Len(multiples) - 1
  BY DEF Holds
<1> QED
  BY <1>1, <1>2, PlaceIs DEF Holds

LEMMA Remains ==
  ASSUME IsCurve(curve, multiples, Len(multiples)), NEW a \in Int PROVE a % Len(multiples) \in 0 .. Len(multiples) - 1
<1>1. Len(multiples) \in Nat /\ Len(multiples) > 0
  <2>1. Len(multiples) \in Nat /\ Len(multiples) > 2
    BY CurveFacts
  <2> QED
    BY <2>1
<1> QED
  BY <1>1

(* What each operation of the walk makes of a point that holds a multiple.   *)
LEMMA HeldSum ==
  ASSUME IsCurve(curve, multiples, Len(multiples)), curve.type # "montgomery",
         NEW P, NEW Q, NEW a, NEW b, Holds(P, a), Holds(Q, b)
  PROVE  Holds(AddOn(curve, P, Q), (a + b) % Len(multiples)) /\ (EqualsOn(curve, P, Q) <=> a = b)
<1> DEFINE N == Len(multiples)
           i == Place(a, N)
           n == Place(b, N)
           h == (a + b) % N
<1>1. N \in Nat /\ N > 2 /\ N > 0 /\ a \in 0 .. N - 1 /\ i \in 1 .. N /\ Stores(curve, multiples, i, P)
  BY HeldPlace
<1>2. b \in 0 .. N - 1 /\ n \in 1 .. N /\ Stores(curve, multiples, n, Q)
  BY HeldPlace
<1>3. Stores(curve, multiples, At(i + n, N), AddOn(curve, P, Q)) /\ (EqualsOn(curve, P, Q) <=> i = n)
  BY <1>1, <1>2, Added
<1>4. At(i + n, N) = Place(h, N)
  BY <1>1, <1>2, PlaceSum
<1>5. h \in 0 .. N - 1
  BY <1>1, <1>2, Remains
<1>6. i = n <=> a = b
  BY <1>1, <1>2 DEF Place
<1> QED
  BY <1>3, <1>4, <1>5, <1>6 DEF Holds

LEMMA HeldDouble ==
  ASSUME IsCurve(curve, multiples, Len(multiples)), NEW P, NEW a, Holds(P, a)
  PROVE  Holds(DblOn(curve, P), (a + a) % Len(multiples)) /\ IsOnCurve(curve, P)
<1> DEFINE N == Len(multiples)
           i == Place(a, N)
           h == (a + a) % N
<1>1. N \in Nat /\ N > 0 /\ a \in 0 .. N - 1 /\ i \in 1 .. N /\ Stores(curve, multiples, i, P)
  BY HeldPlace
<1>2. Stores(curve, multiples, At(i + i, N), DblOn(curve, P)) /\ IsOnCurve(curve, P)
  BY <1>1, Doubled
<1>3. At(i + i, N) = Place(h, N)
  BY <1>1, PlaceSum
<1>4. h \in 0 .. N - 1
  BY <1>1, Remains
<1> QED
  BY <1>2, <1>3, <1>4 DEF Holds

LEMMA HeldNegative ==
  ASSUME IsCurve(curve, multiples, Len(multiples)), curve.type # "montgomery", NEW P, NEW a, Holds(P, a)
  PROVE  Holds(NegOn(curve, P), (-a) % Len(multiples))
<1> DEFINE N == Len(multiples)
           i == Place(a, N)
           h == (-a) % N
<1>1. N \in Nat /\ N > 0 /\ a \in 0 .. N - 1 /\ i \in 1 .. N /\ Stores(curve, multiples, i, P)
  BY HeldPlace
<1>2. Stores(curve, multiples, IF i = N THEN N ELSE N - i, NegOn(curve, P))
  BY <1>1, Negated
<1>3. h = (IF a = 0 THEN 0 ELSE N - a)
  BY <1>1, NegativeWrapped
<1> HIDE DEF h
<1>4. Place(h, N) = (IF i = N THEN N ELSE N - i) /\ h \in 0 .. N - 1
  <2> HIDE DEF N
  <2> QED
    BY <1>1, <1>3 DEF Place
<1> QED
  BY <1>2, <1>4 DEF Holds, h

LEMMA HeldNeighbours ==
  ASSUME IsCurve(curve, multiples, Len(multiples)), curve.type = "montgomery", curve.g = multiples[1],
         NEW P, NEW Q, NEW a, NEW b, Holds(P, a), Holds(Q, b), b = (a + 1) % Len(multiples)
  PROVE  /\ Holds(DAddOn(curve, Q, P, Point(curve.g.x, curve.g.y, 1)), (a + b) % Len(multiples))
         /\ a \in 0 .. Len(multiples) - 1 /\ b \in 0 .. Len(multiples) - 1 /\ Len(multiples) \in Nat /\ Len(multiples) > 2
<1> DEFINE N == Len(multiples)
           i == Place(a, N)
           n == Place(b, N)
           h == (a + b) % N
           W == Point(multiples[1].x, multiples[1].y, 1)
<1>1. N \in Nat /\ N > 2 /\ N > 0 /\ a \in 0 .. N - 1 /\ i \in 1 .. N /\ Stores(curve, multiples, i, P)
  BY HeldPlace
<1>2. b \in 0 .. N - 1 /\ n \in 1 .. N /\ Stores(curve, multiples, n, Q)
  BY HeldPlace
<1>3. n = (IF i = N THEN 1 ELSE i + 1)
  BY <1>1, NextPlace
<1>7. Stores(curve, multiples, 1, W)
  BY Started
<1> HIDE DEF i, n, N, W
<1>4. Stores(curve, multiples, At(i + n, N), DAddOn(curve, Q, P, W))
  <2>1. 1 \in 1 .. N - 1 /\ n = IF i + 1 <= N THEN i + 1 ELSE i + 1 - N
    BY <1>1, <1>3
  <2> QED
    BY <1>1, <1>2, <1>7, <2>1, MontgomeryAdd DEF N
<1>5. At(i + n, N) = Place(h, N)
  BY <1>1, <1>2, PlaceSum DEF i, n
<1>6. h \in 0 .. N - 1
  BY <1>1, <1>2, Remains DEF N
<1> QED
  BY <1>1, <1>2, <1>4, <1>5, <1>6 DEF Holds, N, W

LEMMA HeldAtFirst ==
  ASSUME IsCurve(curve, multiples, Len(multiples)), curve.g = multiples[1]
  PROVE  /\ Holds(Point(curve.g.x, curve.g.y, 1), 1)
         /\ curve.type # "montgomery" => Holds(InfinityOf(curve), 0)
<1> DEFINE N == Len(multiples)
<1>1. N \in Nat /\ N > 2
  BY CurveFacts
<1>2. 1 \in 0 .. N - 1 /\ 0 \in 0 .. N - 1
  BY <1>1
<1>3. Place(1, N) = 1 /\ Place(0, N) = N
  BY DEF Place
<1>4. /\ Stores(curve, multiples, 1, Point(multiples[1].x, multiples[1].y, 1))
      /\ curve.type # "montgomery" => Stores(curve, multiples, N, InfinityOf(curve))
  BY Started
<1> QED
  BY <1>2, <1>3, <1>4 DEF Holds

LEMMA WalkStarts ==
  ASSUME WalkInit PROVE WalkInv
<1> DEFINE N == Len(multiples)
           G == Point(curve.g.x, curve.g.y, 1)
<1>1. curve \in Curves /\ multiples = MultiplesOf(curve, curve.g)
  BY DEF WalkInit
<1>2. IsCurve(curve, multiples, N) /\ curve.g = multiples[1]
  BY <1>1, CurvesAssumption DEF Generates
<1>3. Generator = G /\ GroupOrder = N
  BY DEF Generator, GroupOrder
<1>4. Holds(G, 1) /\ (curve.type # "montgomery" => Holds(InfinityOf(curve), 0))
  BY <1>2, HeldAtFirst
<1>5. CASE curve.type = "montgomery"
  <2>1. first = G /\ firstIs = 1 /\ second = DblOn(curve, G) /\ secondIs = 2 % N
    BY <1>3, <1>5 DEF WalkInit
  <2>2. Holds(DblOn(curve, G), (1 + 1) % N)
    BY <1>2, <1>4, HeldDouble
  <2>3. 1 + 1 = 2
    OBVIOUS
  <2> QED
    BY <1>2, <1>4, <2>1, <2>2, <2>3 DEF WalkInv
<1>6. CASE curve.type # "montgomery"
  <2>1. first = InfinityOf(curve) /\ firstIs = 0 /\ second = G /\ secondIs = 1
    BY <1>3, <1>6 DEF WalkInit
  <2> QED
    BY <1>2, <1>4, <1>6, <2>1 DEF WalkInv
<1> QED
  BY <1>5, <1>6

LEMMA WalkContinues == ASSUME WalkInv, [WalkNext]_walkVars PROVE WalkInv'
<1> DEFINE N == Len(multiples)
           G == Point(curve.g.x, curve.g.y, 1)
<1>1. /\ IsCurve(curve, multiples, N) /\ curve.g = multiples[1] /\ Holds(first, firstIs) /\ Holds(second, secondIs)
      /\ curve.type = "montgomery" => secondIs = (firstIs + 1) % N
  BY DEF WalkInv
<1>2. firstIs \in 0 .. N - 1 /\ secondIs \in 0 .. N - 1 /\ N \in Nat /\ N > 2
  BY <1>1, HeldPlace
<1>3. GroupOrder = N /\ Generator = G
  BY DEF GroupOrder, Generator
<1>4. ASSUME UNCHANGED <<curve, multiples>>, Holds(first', firstIs'), Holds(second', secondIs'),
             curve.type = "montgomery" => secondIs' = (firstIs' + 1) % N
      PROVE  WalkInv'
  BY <1>1, <1>4 DEF WalkInv, Holds
<1>5. CASE Double
  <2>1. /\ UNCHANGED <<curve, multiples, second, secondIs>> /\ curve.type # "montgomery"
        /\ first' = DblOn(curve, first) /\ firstIs' = (2 * firstIs) % N
    BY <1>3, <1>5 DEF Double
  <2>2. Holds(DblOn(curve, first), (firstIs + firstIs) % N)
    BY <1>1, HeldDouble
  <2>3. 2 * firstIs = firstIs + firstIs
    BY <1>2
  <2> QED
    BY <1>1, <1>4, <2>1, <2>2, <2>3
<1>6. CASE AddPoints
  <2>1. /\ UNCHANGED <<curve, multiples, second, secondIs>> /\ curve.type # "montgomery"
        /\ first' = AddOn(curve, first, second) /\ firstIs' = (firstIs + secondIs) % N
    BY <1>3, <1>6 DEF AddPoints
  <2>2. Holds(AddOn(curve, first, second), (firstIs + secondIs) % N)
    BY <1>1, <2>1, HeldSum
  <2> QED
    BY <1>1, <1>4, <2>1, <2>2
<1>7. CASE Negate
  <2>1. /\ UNCHANGED <<curve, multiples, second, secondIs>> /\ curve.type # "montgomery"
        /\ first' = NegOn(curve, first) /\ firstIs' = (-firstIs) % N
    BY <1>3, <1>7 DEF Negate
  <2>2. Holds(NegOn(curve, first), (-firstIs) % N)
    BY <1>1, <2>1, HeldNegative
  <2> QED
    BY <1>1, <1>4, <2>1, <2>2
<1>8. CASE Swap
  BY <1>1, <1>4, <1>8 DEF Swap
<1>9. CASE Climb
  <2> DEFINE sum == DAddOn(curve, second, first, G)
  <2>1. curve.type = "montgomery" /\ UNCHANGED <<curve, multiples>> /\ secondIs' = (firstIs' + 1) % N
    BY <1>3, <1>9 DEF Climb
  <2>2. \/ first' = DblOn(curve, first) /\ second' = sum /\ firstIs' = (2 * firstIs) % N
        \/ first' = sum /\ second' = DblOn(curve, second) /\ firstIs' = (2 * firstIs + 1) % N
    BY <1>3, <1>9 DEF Climb
  <2>3. secondIs = (firstIs + 1) % N
    BY <1>1, <2>1
  <2>4. Holds(sum, (firstIs + secondIs) % N)
    BY <1>1, <2>1, <2>3, HeldNeighbours
  <2>5. Holds(DblOn(curve, first), (firstIs + firstIs) % N) /\ Holds(DblOn(curve, second), (secondIs + secondIs) % N)
    BY <1>1, HeldDouble
  <2>6. /\ (firstIs + secondIs) % N = (2 * firstIs + 1) % N
        /\ (((2 * firstIs) % N) + 1) % N = (firstIs + secondIs) % N
        /\ (((2 * firstIs + 1) % N) + 1) % N = (secondIs + secondIs) % N
        /\ firstIs + firstIs = 2 * firstIs
    <3> HIDE DEF N
    <3>1. /\ (firstIs + secondIs) % N = (2 * firstIs + 1) % N
          /\ (((2 * firstIs) % N) + 1) % N = (firstIs + secondIs) % N
          /\ (((2 * firstIs + 1) % N) + 1) % N = (secondIs + secondIs) % N
      BY <1>2, <2>3, NextPlace
    <3>2. firstIs + firstIs = 2 * firstIs
      BY <1>2
    <3> QED
      BY <3>1, <3>2
  <2> HIDE DEF sum, N
  <2>7. Holds(first', firstIs') /\ Holds(second', secondIs')
    <3>1. CASE first' = DblOn(curve, first) /\ second' = sum /\ firstIs' = (2 * firstIs) % N
      <4>1. firstIs' = (firstIs + firstIs) % N /\ secondIs' = (firstIs + secondIs) % N
        BY <2>1, <2>6, <3>1
      <4> QED
        BY <2>4, <2>5, <3>1, <4>1 DEF N
    <3>2. CASE first' = sum /\ second' = DblOn(curve, second) /\ firstIs' = (2 * firstIs + 1) % N
      <4>1. firstIs' = (firstIs + secondIs) % N /\ secondIs' = (secondIs + secondIs) % N
        BY <2>1, <2>6, <3>2
      <4> QED
        BY <2>4, <2>5, <3>2, <4>1 DEF N
    <3> QED
      BY <2>2, <3>1, <3>2
  <2> QED
    BY <1>4, <2>1, <2>7 DEF N
<1>10. CASE UNCHANGED walkVars
  BY <1>1, <1>4, <1>10 DEF walkVars
<1> QED
  BY <1>5, <1>6, <1>7, <1>8, <1>9, <1>10 DEF WalkNext

LEMMA WalkRight ==
  ASSUME WalkInv PROVE PointsAgree /\ StaysOnCurve /\ EqualsAgrees
<1> DEFINE N == Len(multiples)
<1>1. IsCurve(curve, multiples, N) /\ Holds(first, firstIs) /\ Holds(second, secondIs)
  BY DEF WalkInv
<1>2. /\ At(firstIs, N) = Place(firstIs, N) /\ Stores(curve, multiples, Place(firstIs, N), first)
      /\ At(secondIs, N) = Place(secondIs, N) /\ Stores(curve, multiples, Place(secondIs, N), second)
  BY <1>1, HeldPlace
<1>3. MultipleAt(firstIs) = multiples[At(firstIs, N)] /\ MultipleAt(secondIs) = multiples[At(secondIs, N)]
  BY DEF MultipleAt, GroupOrder, At
<1>4. Represents(curve, first, MultipleAt(firstIs)) /\ Represents(curve, second, MultipleAt(secondIs))
  BY <1>2, <1>3 DEF Stores
<1>5. PointsAgree
  BY <1>4 DEF PointsAgree
<1>6. IsOnCurve(curve, first) /\ IsOnCurve(curve, second)
  BY <1>1, HeldDouble
<1>7. StaysOnCurve
  BY <1>6 DEF StaysOnCurve
<1>8. curve.type # "montgomery" => (EqualsOn(curve, first, second) <=> firstIs = secondIs)
  BY <1>1, HeldSum
<1>9. EqualsAgrees
  BY <1>8 DEF EqualsAgrees
<1> QED
  BY <1>5, <1>7, <1>9

LEMMA WalkInvariant == WalkSpec => []WalkInv
<1>1. WalkInit => WalkInv
  BY WalkStarts
<1>2. WalkInv /\ [WalkNext]_walkVars => WalkInv'
  BY WalkContinues
<1> QED
  BY <1>1, <1>2, PTL DEF WalkSpec

-----------------------------------------------------------------------------
(* Whatever doublings, sums, negations and steps of the ladder ec/ec.c made *)
(* before, on any curve over a prime field with a generator of odd prime    *)
(* order, each point stands for the multiple of the generator it should be: *)
(* the sum of equal, of opposite and of neutral points is right too, and no *)
(* formula ever gives the triple of zeros.                                  *)
THEOREM PointsAreMultiples == WalkSpec => []PointsAgree
<1>1. WalkInv => PointsAgree
  BY WalkRight
<1> QED
  BY <1>1, WalkInvariant, PTL

(* is_on_curve accepts every point that the operations of ec/ec.c can reach *)
(* from the generator, at whatever scale it is kept.                        *)
THEOREM PointsStayOnCurve == WalkSpec => []StaysOnCurve
<1>1. WalkInv => StaysOnCurve
  BY WalkRight
<1> QED
  BY <1>1, WalkInvariant, PTL

(* equals of ec/ec.c, on a Weierstrass or an Edwards curve, says of two     *)
(* points at any scales whether they hold the same multiple.                *)
THEOREM EqualsComparesPoints == WalkSpec => []EqualsAgrees
<1>1. WalkInv => EqualsAgrees
  BY WalkRight
<1> QED
  BY <1>1, WalkInvariant, PTL
=============================================================================
