---------------------------- MODULE SchemeProofs ----------------------------
(***************************************************************************)
(* Contexts with a key, and the pages that use them, for every group,      *)
(* curve, key and size: both parties of an exchange arrive at one secret,  *)
(* fresh secrets can be exchanged, a page works with the key it shows,     *)
(* what a scheme encodes fits its modulus, and with every scheme a message *)
(* comes back and nothing but what the scheme makes is accepted.           *)
(*                                                                         *)
(* The group of a curve is its generator with the table of its multiples:  *)
(* that the points form a cyclic group is the assumption, that the calls   *)
(* walk in it with bytes in between is what is proved.                     *)
(***************************************************************************)
EXTENDS Schemes, Pages, NatLemmas, FiniteSetTheorems

-----------------------------------------------------------------------------
(* mul: k times an element of the group, for any k.                         *)
LEMMA TimesIs ==
  ASSUME NEW G, NEW T, NEW N, IsCyclic(G.c, T, N), NEW j \in 1 .. N, NEW k \in Nat, k > 0
  PROVE  Times(G, k, T[j]) = T[At(k * j, N)]
<1> DEFINE t == MultiplesOf(G.c, T[j])
           L == Len(t)
           r == At(k, L)
<1>0. IsCyclic(G.c, T, N) /\ j \in 1 .. N
  OBVIOUS
<1>1. /\ L \in 1 .. N /\ (L * j) % N = 0
      /\ \A i \in 1 .. L : t[i] = T[At(i * j, N)]
  BY ONLY <1>0, MultiplesAre
<1>2. Times(G, k, T[j]) = t[r]
  BY DEF Times, At
<1>3. N \in Nat /\ N > 1 /\ j \in Nat /\ j > 0
  BY DEF IsCyclic
<1> HIDE DEF t, L
<1>4. L \in Nat /\ L > 0 /\ L * j \in Nat
  BY <1>1, <1>3, Sums
<1>5. r \in 1 .. L /\ \E m \in Nat : k = r + m * L
  BY <1>4, AtIs
<1> HIDE DEF r
<1>6. PICK m \in Nat : k = r + m * L
  BY <1>5
<1> DEFINE u == (L * j) \div N
<1>7. u \in Nat /\ L * j = u * N
  <2> DEFINE a == L * j
  <2>1. a \in Nat /\ a % N = 0
    BY <1>1, <1>4
  <2> HIDE DEF a
  <2>2. a \div N \in Nat /\ a = (a \div N) * N + (a % N)
    BY <1>3, <2>1, Division
  <2> QED
    BY <1>3, <2>1, <2>2 DEF a
<1> HIDE DEF u
<1>8. r \in Nat /\ r >= 1 /\ m * L \in Nat /\ m * u \in Nat /\ r * j \in Nat /\ r * j > 0
  <2>1. r \in Nat /\ r >= 1 /\ m * L \in Nat /\ m * u \in Nat /\ r * j \in Nat
    BY <1>3, <1>4, <1>5, <1>7, Sums
  <2>2. 1 * j <= r * j
    BY <1>3, <2>1, 1 \in Nat, Order
  <2> QED
    BY <1>3, <2>1, <2>2
<1>9. k * j = r * j + (m * L) * j
  BY <1>3, <1>6, <1>8, Sums
<1>10. (m * L) * j = m * (L * j) /\ m * (u * N) = (m * u) * N
  BY <1>3, <1>4, <1>7
<1>11. At(r * j + (m * u) * N, N) = At(r * j, N)
  <2> DEFINE a == r * j
             b == m * u
  <2>1. a \in Nat /\ b \in Nat /\ N \in Nat /\ N > 0 /\ a > 0
    BY <1>3, <1>8
  <2> HIDE DEF a, b
  <2>2. At(a + b * N, N) = At(a, N)
    BY ONLY <2>1, AtUnique
  <2> QED
    BY <2>2 DEF a, b
<1> QED
  BY <1>1, <1>2, <1>5, <1>7, <1>9, <1>10, <1>11

-----------------------------------------------------------------------------
(* Numbers come back from the bytes they are written to.                    *)
LEMMA ByteModIs == ByteMod \in Nat /\ ByteMod > 1
<1>1. ByteBits \in Nat /\ ByteBits > 0
  BY ByteAssumption
<1>2. ByteBits < Pow(2, ByteBits)
  BY <1>1, PowAbove
<1>3. Pow(2, ByteBits) \in Nat
  BY ONLY 2 \in Nat, <1>1, PowSteps
<1> QED
  BY <1>1, <1>2, <1>3 DEF ByteMod

LEMMA BytesAre ==
  ASSUME NEW n \in Nat, NEW x \in Nat, x < Pow(ByteMod, n)
  PROVE  /\ BytesOf(n, x) \in [1 .. n -> Byte] /\ BytesOf(n, x) \in Seq(Byte)
         /\ Len(BytesOf(n, x)) = n /\ NumberOf(BytesOf(n, x)) = x
<1> DEFINE s == BytesOf(n, x)
<1>1. s = [i \in 1 .. n |-> (x \div Pow(ByteMod, n - i)) % ByteMod]
  BY DEF BytesOf
<1> HIDE DEF s
<1>2. \A i \in 1 .. n : s[i] = (x \div Pow(ByteMod, n - i)) % ByteMod
  BY <1>1
<1>3. AreDigits(s, ByteMod, n) /\ Digits(ByteMod, s, n) = x
  BY <1>2, ByteModIs, DigitsOf
<1>4. \A i \in 1 .. n : s[i] \in Byte
  BY <1>3, ByteModIs DEF AreDigits, Byte
<1>5. s \in [1 .. n -> Byte]
  <2>1. s = [i \in 1 .. n |-> s[i]]
    BY <1>1
  <2> QED
    BY <1>4, <2>1
<1>6. Len(s) = n /\ s \in Seq(Byte)
  BY <1>5
<1> QED
  BY <1>3, <1>5, <1>6 DEF NumberOf, s

LEMMA MinimalIs ==
  ASSUME NEW x \in Nat
  PROVE  /\ Minimal(x) \in Seq(Byte) /\ Minimal(x) # <<>>
         /\ NumberOf(Minimal(x)) = x
<1> DEFINE n == CountBytes(x)
<1>1. n \in Nat /\ n > 0 /\ x < Pow(ByteMod, n)
  BY ByteAssumption, CountIs DEF CountBytes, ByteMod
<1>2. Minimal(x) = BytesOf(n, x)
  BY DEF Minimal
<1> HIDE DEF n
<1>3. Len(Minimal(x)) = n /\ Minimal(x) \in Seq(Byte) /\ NumberOf(Minimal(x)) = x
  BY <1>1, <1>2, BytesAre
<1> QED
  BY <1>1, <1>3

(* The two parts of a sequence. *)
LEMMA PartsOf ==
  ASSUME NEW D, NEW u \in Seq(D), NEW v \in Seq(D), NEW m \in Nat, m = Len(u), NEW n \in Nat, n = Len(u) + Len(v)
  PROVE  SubSeq(u \o v, 1, m) = u /\ SubSeq(u \o v, m + 1, n) = v
<1> DEFINE s == u \o v
           a == SubSeq(s, 1, m)
           b == SubSeq(s, m + 1, n)
<1>1. /\ s \in Seq(D) /\ Len(s) = n
      /\ \A i \in 1 .. n : s[i] = IF i <= m THEN u[i] ELSE v[i - m]
  BY ConcatProperties
<1>2. Len(u) \in Nat /\ Len(v) \in Nat
  BY LenProperties
<1> HIDE DEF s
<1>3. /\ \A i \in 1 .. m : s[i] \in D
      /\ \A i \in m + 1 .. n : s[i] \in D
  BY <1>1, <1>2, ElementOfSeq
<1>4. a \in Seq(D) /\ Len(a) = m /\ \A i \in 1 .. m : a[i] = s[i]
  <2>1. /\ SubSeq(s, 1, m) \in Seq(D) /\ Len(SubSeq(s, 1, m)) = IF 1 <= m THEN m - 1 + 1 ELSE 0
        /\ \A i \in 1 .. m - 1 + 1 : SubSeq(s, 1, m)[i] = s[1 + i - 1]
    <3>1. 1 \in Int /\ m \in Int
      OBVIOUS
    <3> QED
      BY ONLY <1>3, <3>1, SubSeqProperties
  <2> HIDE DEF a
  <2> QED
    BY <2>1 DEF a
<1>5. b \in Seq(D) /\ Len(b) = Len(v) /\ \A i \in 1 .. Len(v) : b[i] = s[m + i]
  <2>1. /\ SubSeq(s, m + 1, n) \in Seq(D)
        /\ Len(SubSeq(s, m + 1, n)) = IF m + 1 <= n THEN n - (m + 1) + 1 ELSE 0
        /\ \A i \in 1 .. n - (m + 1) + 1 : SubSeq(s, m + 1, n)[i] = s[(m + 1) + i - 1]
    <3>1. m + 1 \in Int /\ n \in Int
      OBVIOUS
    <3> QED
      BY ONLY <1>3, <3>1, SubSeqProperties
  <2> QED
    BY <1>2, <2>1 DEF b
<1> HIDE DEF a, b
<1>6. a = u
  <2>1. \A i \in 1 .. Len(a) : a[i] = u[i]
    BY <1>1, <1>2, <1>4
  <2> QED
    BY <1>4, <2>1, SeqEqual
<1>7. b = v
  <2>1. ASSUME NEW i \in 1 .. Len(b) PROVE b[i] = v[i]
    <3>1. i \in 1 .. Len(v) /\ m + i \in 1 .. n /\ ~(m + i <= m) /\ (m + i) - m = i
      BY <1>2, <1>5
    <3> QED
      BY <1>1, <1>5, <3>1
  <2> QED
    BY <1>5, <2>1, SeqEqual
<1> QED
  BY <1>6, <1>7 DEF a, b, s

-----------------------------------------------------------------------------
(* The groups of a curve. *)
LEMMA CurveGroup ==
  ASSUME NEW G, IsGroup(G, G.table, G.order)
  PROVE  /\ G.efs \in Nat /\ G.c.p \in Nat /\ G.c.p > 2 /\ G.c.p <= Pow(ByteMod, G.efs)
         /\ IsCyclic(G.c, G.table, G.order) /\ G.order \in Nat /\ G.order > 1
         /\ \A i \in 1 .. G.order - 1 : IsPointOf(G.c, G.table, G.order, i)
  BY DEF IsGroup, IsCyclic

(* A multiple of the generator, as it is stored and encoded.                *)
LEMMA Encoded ==
  ASSUME NEW G, IsGroup(G, G.table, G.order), NEW i \in 1 .. G.order - 1
  PROVE  LET S == G.table[i]
             R == Stored(G, S)
             s == PointBytes(G, R)
         IN  /\ S.x \in 0 .. G.c.p - 1 /\ S.y \in 0 .. G.c.p - 1 /\ S = [x |-> S.x, y |-> S.y]
             /\ R = Point(S.x, S.y, 1) /\ ~IsInfinityOn(G.c, R)
             /\ s = BytesOf(G.efs, S.x) \o IF Montgomery(G) THEN <<>> ELSE BytesOf(G.efs, S.y)
             /\ Len(s) = PointSize(G)
             /\ PointFrom(G, s) = Point(S.x, IF Montgomery(G) THEN 0 ELSE S.y, 1)
<1> DEFINE S == G.table[i]
           R == Stored(G, S)
           s == PointBytes(G, R)
           p == G.c.p
           n == G.efs
           u == BytesOf(n, S.x)
           v == BytesOf(n, S.y)
<1>1. /\ S = [x |-> S.x, y |-> S.y] /\ S.x \in 0 .. p - 1 /\ S.y \in 0 .. p - 1
      /\ S # Neutral(G.c)
  BY CurveGroup DEF IsPointOf, IsCyclic
<1>2. p \in Nat /\ p > 2 /\ n \in Nat /\ p <= Pow(ByteMod, n) /\ Pow(ByteMod, n) \in Nat
  BY CurveGroup, ByteModIs, PowSteps
<1>3. S # O
  BY <1>1, <1>2 DEF O
<1>4. R = Point(S.x, S.y, 1)
  BY <1>3 DEF Stored
<1> HIDE DEF S, R, s
<1>5. ~IsInfinityOn(G.c, R) /\ AffineOn(G.c, R) = Point(S.x, S.y, 1)
  BY <1>1, <1>2, <1>4, AffineIs
<1>6. s = u \o IF Montgomery(G) THEN <<>> ELSE v
  <2> DEFINE A == AffineOn(G.c, R)
  <2>1. A.x = S.x /\ A.y = S.y
    BY <1>5 DEF Point
  <2>2. s = BytesOf(n, A.x) \o IF Montgomery(G) THEN <<>> ELSE BytesOf(n, A.y)
    BY DEF s, PointBytes
  <2> HIDE DEF A
  <2> QED
    BY <2>1, <2>2
<1>7. /\ u \in Seq(Byte) /\ Len(u) = n /\ NumberOf(u) = S.x
      /\ v \in Seq(Byte) /\ Len(v) = n /\ NumberOf(v) = S.y
  BY <1>1, <1>2, BytesAre
<1> HIDE DEF u, v
<1>8. /\ Len(s) = PointSize(G) /\ SubSeq(s, 1, n) = u
      /\ Montgomery(G) \/ SubSeq(s, n + 1, PointSize(G)) = v
  <2>1. CASE Montgomery(G)
    <3>1. s = u
      BY <1>6, <1>7, <2>1, ConcatEmptySeq
    <3>2. SubSeq(u, 1, Len(u)) = u
      BY <1>7, SubSeqFull
    <3> QED
      BY <1>7, <2>1, <3>1, <3>2 DEF PointSize
  <2>2. CASE ~Montgomery(G)
    <3>1. s = u \o v
      BY <1>6, <2>2
    <3> DEFINE k == n + n
    <3>2. k = 2 * n /\ k \in Nat /\ n \in Nat /\ n = Len(u) /\ k = Len(u) + Len(v)
      BY <1>2, <1>7
    <3> HIDE DEF k, n
    <3>3. Len(u \o v) = Len(u) + Len(v)
      BY ONLY <1>7, ConcatProperties
    <3>4. SubSeq(u \o v, 1, n) = u /\ SubSeq(u \o v, n + 1, k) = v
      BY ONLY <1>7, <3>2, PartsOf
    <3> QED
      BY <2>2, <3>1, <3>2, <3>3, <3>4 DEF PointSize, n
  <2> QED
    BY <2>1, <2>2
<1>9. PointFrom(G, s) = Point(S.x, IF Montgomery(G) THEN 0 ELSE S.y, 1)
  BY <1>7, <1>8 DEF PointFrom
<1> QED
  BY <1>1, <1>4, <1>5, <1>6, <1>8, <1>9 DEF S, R, s, u, v

(* The multiples a * b and a * (N - b) are opposite in the table.           *)
LEMMA Opposite ==
  ASSUME NEW N \in Nat, NEW a \in 1 .. N - 1, NEW b \in 1 .. N - 1, At(a * b, N) # N
  PROVE  At(a * (N - b), N) = N - At(a * b, N)
<1> DEFINE t == a * b
           r == At(t, N)
<1>1. N > 0 /\ a \in Nat /\ b \in Nat /\ a > 0 /\ t \in Nat /\ t > 0 /\ a * N \in Nat
  <2>1. a \in Nat /\ b \in Nat /\ a * b \in Nat /\ 1 * b <= a * b
    BY 1 \in Nat, Sums, Order
  <2> QED
    BY <2>1, Sums
<1>2. a * (N - b) = a * N - t
  BY <1>1
<1>3. t < a * N
  <2>1. b * a \in Nat /\ (N - b) * a \in Nat /\ (b + (N - b)) * a = b * a + (N - b) * a
    BY <1>1, N - b \in Nat, Sums
  <2>2. 1 * a <= (N - b) * a
    BY <1>1, 1 \in Nat, N - b \in Nat, Order
  <2>3. b + (N - b) = N /\ a * b = b * a /\ a * N = N * a
    BY <1>1
  <2> QED
    BY <1>1, <2>1, <2>2, <2>3
<1> HIDE DEF t, r
<1>4. r \in 1 .. N /\ \E m \in Nat : t = r + m * N
  BY <1>1, AtIs DEF r
<1>5. PICK m \in Nat : t = r + m * N
  BY <1>4
<1>6. m < a
  <2>1. m * N < a * N
    BY <1>1, <1>3, <1>4, <1>5, Sums
  <2> QED
    BY <1>1, <2>1, Cancel
<1> DEFINE d == a - m - 1
           s == N - r
<1>7. d \in Nat /\ s \in Nat /\ s > 0 /\ s \in 1 .. N
  BY <1>1, <1>4, <1>6 DEF r, t
<1>8. a * N = (d * N + m * N) + N
  <2>1. a = (d + m) + 1 /\ d + m \in Nat
    BY <1>1, <1>7
  <2>2. ((d + m) + 1) * N = (d + m) * N + 1 * N /\ (d + m) * N = d * N + m * N
    BY <1>7, <2>1, 1 \in Nat, Sums
  <2> QED
    BY <2>1, <2>2
<1>9. d * N \in Nat /\ m * N \in Nat
  BY <1>7, Sums
<1>10. a * (N - b) = s + d * N
  BY <1>2, <1>4, <1>5, <1>8, <1>9
<1> HIDE DEF d, s
<1>11. At(s + d * N, N) = At(s, N) /\ At(s, N) = s
  <2>1. s \in Nat /\ d \in Nat /\ N \in Nat /\ N > 0 /\ s > 0 /\ s \in 1 .. N
    BY <1>1, <1>7
  <2>2. At(s + d * N, N) = At(s, N)
    BY ONLY <2>1, AtUnique
  <2>3. At(s, N) = s
    BY ONLY <2>1, AtSmall
  <2> QED
    BY <2>2, <2>3
<1> QED
  BY <1>10, <1>11 DEF s, r, t

(* No product of two secrets is a multiple of the order, which is a prime.  *)
LEMMA Exponent ==
  ASSUME NEW N \in Nat, N > 1, \A d \in 2 .. N - 1 : N % d # 0, NEW a \in 1 .. N - 1, NEW b \in 1 .. N - 1
  PROVE  At(a * b, N) \in 1 .. N - 1 /\ At(a * (N - b), N) = N - At(a * b, N)
<1> DEFINE t == a * b
           r == At(t, N)
<1>1. a \in Nat /\ b \in Nat /\ t \in Nat /\ t > 0 /\ a % N = a /\ b % N = b /\ a # 0 /\ b # 0
  <2>1. a \in Nat /\ b \in Nat /\ a * b \in Nat /\ 1 * b <= a * b
    BY 1 \in Nat, Sums, Order
  <2>2. a % N = a /\ b % N = b
    OBVIOUS
  <2> QED
    BY <2>1, <2>2
<1>2. t % N # 0
  <2>1. SUFFICES ASSUME (a * b) % N = 0 PROVE FALSE
    OBVIOUS
  <2>2. a % N = 0
    BY <1>1, <2>1, PrimeFactor
  <2> QED
    BY <1>1, <2>2
<1> HIDE DEF t
<1>3. r \in 1 .. N
  BY <1>1, AtIs
<1>4. r # N
  BY <1>1, <1>2, AtMultiple
<1>5. r \in 1 .. N - 1
  BY <1>3, <1>4
<1>6. At(a * (N - b), N) = N - r
  BY <1>4, Opposite DEF t
<1> QED
  BY <1>5, <1>6 DEF t

(* A point of the table is accepted by a peer, which makes of it a multiple *)
(* of the generator again, or its negative when only x was sent.            *)
LEMMA Received ==
  ASSUME NEW G, IsGroup(G, G.table, G.order), NEW b \in 1 .. G.order - 1
  PROVE  LET pub == PointBytes(G, Stored(G, G.table[b]))
             S == Lifted(G, PointFrom(G, pub))
         IN  /\ AcceptsPoint(G, pub)
             /\ \/ S = G.table[b]
                \/ /\ Montgomery(G) /\ S = G.table[G.order - b]
             /\ Montgomery(G) => G.table[G.order - b].x = G.table[b].x
<1> DEFINE S == G.table[b]
           c == G.c
           p == c.p
           R == Stored(G, S)
           pub == PointBytes(G, R)
           P == PointFrom(G, pub)
           N == G.order
           V == G.table[N - b]
           Lifts == {y \in 1 .. p - 1 : (y * y) % p = Rhs(c, S.x)}
<1>1. /\ S.x \in 0 .. p - 1 /\ S.y \in 0 .. p - 1 /\ S = [x |-> S.x, y |-> S.y]
      /\ R = Point(S.x, S.y, 1) /\ ~IsInfinityOn(c, R) /\ Len(pub) = PointSize(G)
      /\ P = Point(S.x, IF Montgomery(G) THEN 0 ELSE S.y, 1)
  BY Encoded
<1>2. /\ p \in Nat /\ p > 2 /\ IsPointOf(c, G.table, N, b)
      /\ S # Neutral(c)
  BY CurveGroup DEF IsCyclic
<1>3. /\ IsOnCurve(c, R)
      /\ Montgomery(G) => \A y \in Lifts : [x |-> S.x, y |-> y] \in {S, V} /\ V.x = S.x
  BY <1>1, <1>2 DEF IsPointOf, Montgomery
<1>4. AffineOn(c, R) = R
  BY <1>1, <1>2, AffineIs
<1> HIDE DEF S, R, pub, P, V, c
<1>5. CASE ~Montgomery(G)
  <2>1. P = R
    BY <1>1, <1>5
  <2>2. AcceptsPoint(G, pub)
    <3>1. R.x = S.x /\ R.y = S.y /\ S.x < p /\ S.y < p
      BY <1>1, <1>2 DEF Point
    <3> QED
      BY <1>1, <1>3, <2>1, <3>1 DEF AcceptsPoint, IsValid, P, c
  <2>3. Lifted(G, P) = S
    BY <1>1, <1>5, <2>1 DEF Lifted, Point
  <2> QED
    BY <1>5, <2>2, <2>3 DEF S, R, pub, P, V
<1>6. CASE Montgomery(G)
  <2>1. c.type = "montgomery" /\ P = Point(S.x, 0, 1)
    BY <1>1, <1>6 DEF Montgomery, c
  <2>2. [x |-> S.x, y |-> 0] # Neutral(c)
    BY <2>1 DEF Neutral, O
  <2>3. ~IsInfinityOn(c, P) /\ AffineOn(c, P) = P
    BY <1>1, <1>2, <2>1, <2>2, AffineIs
  <2>4. \E y \in Lifts : TRUE
    BY <1>1, <1>3, <1>4, <2>1 DEF IsOnCurve, Point
  <2>5. IsOnCurve(c, P)
    BY <2>1, <2>3, <2>4 DEF IsOnCurve, Point
  <2>6. P.x = S.x /\ P.y = 0
    BY <2>1 DEF Point
  <2>7. AcceptsPoint(G, pub)
    BY <1>1, <1>2, <2>3, <2>5, <2>6 DEF AcceptsPoint, IsValid, P, c
  <2> DEFINE y == CHOOSE y \in 1 .. p - 1 : (y * y) % p = Rhs(c, S.x)
  <2>8. y \in Lifts
    BY <2>4
  <2>9. Lifted(G, P) = [x |-> S.x, y |-> y]
    BY <1>6, <2>6 DEF Lifted, c
  <2> HIDE DEF y
  <2>10. Lifted(G, P) \in {S, V} /\ V.x = S.x
    BY <1>3, <1>6, <2>8, <2>9
  <2> QED
    BY <1>6, <2>7, <2>10 DEF S, R, pub, P, V
<1> QED
  BY <1>5, <1>6

(* What a party computes from a public point: the bytes of the multiple of  *)
(* What comes out of the multiplication of a received point is, as bytes,   *)
(* the multiple of both numbers.                                            *)
LEMMA SharedMultiple ==
  ASSUME NEW G, IsGroup(G, G.table, G.order), NEW a \in 1 .. G.order - 1, NEW b \in 1 .. G.order - 1
  PROVE  LET R == Stored(G, Times(G, a, Lifted(G, PointFrom(G, PointBytes(G, Stored(G, G.table[b]))))))
             Q == Stored(G, G.table[At(a * b, G.order)])
         IN  ~IsInfinityOn(G.c, R) /\ PointBytes(G, R) = PointBytes(G, Q)
<1> DEFINE N == G.order
           T == G.table
           pub == PointBytes(G, Stored(G, T[b]))
           S == Lifted(G, PointFrom(G, pub))
           t == a * b
           r == At(t, N)
           R == Stored(G, Times(G, a, S))
           Q(i) == Stored(G, T[i])
<1>1. /\ N \in Nat /\ N > 1 /\ IsCyclic(G.c, T, N) /\ \A d \in 2 .. N - 1 : N % d # 0
  BY CurveGroup DEF IsCyclic
<1>2. a \in 1 .. N - 1 /\ b \in 1 .. N - 1 /\ a \in Nat /\ a > 0
  OBVIOUS
<1>4. r \in 1 .. N - 1 /\ At(a * (N - b), N) = N - r
  <2>1. N \in Nat /\ N > 1 /\ \A d \in 2 .. N - 1 : N % d # 0
    BY <1>1
  <2> QED
    BY ONLY <1>2, <2>1, Exponent
<1>5. N - r \in 1 .. N - 1 /\ N - b \in 1 .. N /\ b \in 1 .. N
  BY <1>1, <1>2, <1>4
<1>6. \/ S = T[b]
      \/ Montgomery(G) /\ S = T[N - b]
  BY Received
<1>7. ASSUME NEW j \in 1 .. N PROVE Times(G, a, T[j]) = T[At(a * j, N)]
  <2>1. IsCyclic(G.c, T, N) /\ j \in 1 .. N /\ a \in Nat /\ a > 0
    BY <1>1, <1>2
  <2> HIDE DEF N, T
  <2> QED
    BY ONLY <2>1, TimesIs
<1>8. Times(G, a, T[b]) = T[r] /\ Times(G, a, T[N - b]) = T[N - r]
  BY <1>4, <1>5, <1>7
<1>9. R = Q(r) \/ (Montgomery(G) /\ R = Q(N - r))
  BY <1>6, <1>8
<1> HIDE DEF r, R, S, t
<1>10. ~IsInfinityOn(G.c, Q(r)) /\ ~IsInfinityOn(G.c, Q(N - r))
  BY <1>1, <1>4, <1>5, Encoded
<1>11. Montgomery(G) => PointBytes(G, Q(N - r)) = PointBytes(G, Q(r))
  <2> SUFFICES ASSUME Montgomery(G) PROVE PointBytes(G, Q(N - r)) = PointBytes(G, Q(r))
    OBVIOUS
  <2>1. T[N - r].x = T[r].x
    BY <1>4, Received
  <2>2. \A i \in 1 .. N - 1 : PointBytes(G, Q(i)) = BytesOf(G.efs, T[i].x) \o <<>>
    BY Encoded
  <2> QED
    BY <1>4, <1>5, <2>1, <2>2
<1> QED
  BY <1>9, <1>10, <1>11 DEF R, S, r, t

(* both secrets, and never infinity.                                        *)
LEMMA SharedPoint ==
  ASSUME NEW G, IsGroup(G, G.table, G.order), NEW a \in 1 .. G.order - 1, NEW b \in 1 .. G.order - 1,
         NEW s, NumberOf(s) = a
  PROVE  LET pub == PointBytes(G, Stored(G, G.table[b]))
             common == PointBytes(G, Stored(G, G.table[At(a * b, G.order)]))
         IN  PointSecret(G, s, pub) = Result(Minimal(NumberOf(common) % G.order))
<1> DEFINE R == Stored(G, Times(G, a, Lifted(G, PointFrom(G, PointBytes(G, Stored(G, G.table[b]))))))
           Q == Stored(G, G.table[At(a * b, G.order)])
<1>1. ~IsInfinityOn(G.c, R) /\ PointBytes(G, R) = PointBytes(G, Q)
  BY SharedMultiple
<1> HIDE DEF Q
<1>2. PointSecret(G, s, PointBytes(G, Stored(G, G.table[b])))
        = IF IsInfinityOn(G.c, R) THEN Failed("invalid_input")
          ELSE Result(Minimal(NumberOf(PointBytes(G, R)) % G.order))
  BY DEF PointSecret
<1> HIDE DEF R
<1> QED
  BY <1>1, <1>2 DEF Q

-----------------------------------------------------------------------------
(* A power is a residue.                                                    *)
LEMMA PowerInRange ==
  ASSUME NEW x \in Nat, NEW n \in Nat, n > 0, NEW e \in Nat PROVE Power(x, e, n) \in 0 .. n - 1
<1>1. Pow(x, e) \in Nat
  BY PowSteps
<1>2. Power(x, e, n) = Pow(x, e) % n
  BY PowerIs
<1> QED
  BY <1>1, <1>2

(* What the calls of the two parties put out, for secrets of one group.     *)
LEMMA PublicIs ==
  ASSUME NEW G \in DhGroups \cup EcdhGroups, NEW s, NEW a \in Nat, NumberOf(s) = a,
         NEW r \in Public(G, s), r.status = "ok"
  PROVE  /\ a > 0 /\ a < Bound(G)
         /\ G.family = "dl" => r.out = Minimal(Power(G.g, a, G.p))
         /\ G.family = "ec" => r.out = PointBytes(G, Stored(G, G.table[a]))
  BY DEF Public, ValidSecret, Result, Failed

LEMMA SharedIs ==
  ASSUME NEW G \in DhGroups \cup EcdhGroups, NEW s, NEW pub, NEW r \in SharedSecret(G, s, pub), r.status = "ok"
  PROVE  /\ G.family = "dl" => r.out = Minimal(Power(NumberOf(pub), NumberOf(s), G.p))
         /\ G.family = "ec" => r = PointSecret(G, s, pub)
  BY DEF SharedSecret, Result, Failed

LEMMA NumbersAgree ==
  ASSUME NEW p \in Nat, p > 0, NEW g \in Nat, NEW a \in Nat, NEW b \in Nat
  PROVE  Power(NumberOf(Minimal(Power(g, b, p))), a, p) = Power(NumberOf(Minimal(Power(g, a, p))), b, p)
<1>1. Power(g, a, p) \in Nat /\ Power(g, b, p) \in Nat
  <2>1. Power(g, a, p) \in 0 .. p - 1 /\ Power(g, b, p) \in 0 .. p - 1
    BY PowerInRange
  <2> QED
    BY <2>1
<1>2. /\ NumberOf(Minimal(Power(g, a, p))) = Power(g, a, p)
      /\ NumberOf(Minimal(Power(g, b, p))) = Power(g, b, p)
  BY <1>1, MinimalIs
<1>3. Power(Power(g, a, p), b, p) = Pow(g, a * b) % p /\ Power(Power(g, b, p), a, p) = Pow(g, b * a) % p
  BY PowerPower
<1>4. a * b = b * a
  OBVIOUS
<1> QED
  BY <1>2, <1>3, <1>4

LEMMA PointSecretsAgree ==
  ASSUME NEW G \in EcdhGroups, NEW s, NEW t,
         NumberOf(s) \in 1 .. G.order - 1, NumberOf(t) \in 1 .. G.order - 1
  PROVE  PointSecret(G, s, PointBytes(G, Stored(G, G.table[NumberOf(t)])))
           = PointSecret(G, t, PointBytes(G, Stored(G, G.table[NumberOf(s)])))
<1> DEFINE a == NumberOf(s)
           b == NumberOf(t)
           Common(i) == PointBytes(G, Stored(G, G.table[At(i, G.order)]))
           Written(i) == Result(Minimal(NumberOf(Common(i)) % G.order))
<1>1. IsGroup(G, G.table, G.order) /\ G.order \in Nat
  BY GroupAssumption DEF IsGroup, IsCyclic
<1>2. a \in 1 .. G.order - 1 /\ b \in 1 .. G.order - 1 /\ NumberOf(s) = a /\ NumberOf(t) = b
  OBVIOUS
<1> HIDE DEF a, b
<1>3. PointSecret(G, s, PointBytes(G, Stored(G, G.table[b]))) = Written(a * b)
  BY <1>1, <1>2, SharedPoint
<1>4. PointSecret(G, t, PointBytes(G, Stored(G, G.table[a]))) = Written(b * a)
  BY <1>1, <1>2, SharedPoint
<1>5. a * b = b * a
  BY <1>1, <1>2
<1> HIDE DEF Written
<1> QED
  BY <1>3, <1>4, <1>5 DEF a, b

(* Four calls on one group that all succeed end in one secret.              *)
LEMMA PartiesAgree ==
  ASSUME NEW G \in DhGroups \cup EcdhGroups,
         NEW s, NEW t, NumberOf(s) \in Nat, NumberOf(t) \in Nat,
         NEW pA \in Public(G, s), NEW pB \in Public(G, t), pA.status = "ok", pB.status = "ok",
         NEW kA \in SharedSecret(G, s, pB.out), NEW kB \in SharedSecret(G, t, pA.out),
         kA.status = "ok", kB.status = "ok"
  PROVE  kA.out = kB.out
<1> DEFINE a == NumberOf(s)
           b == NumberOf(t)
<1>1. /\ a > 0 /\ a < Bound(G) /\ b > 0 /\ b < Bound(G)
      /\ G.family = "dl" => /\ pA.out = Minimal(Power(G.g, a, G.p)) /\ pB.out = Minimal(Power(G.g, b, G.p))
      /\ G.family = "ec" => /\ pA.out = PointBytes(G, Stored(G, G.table[a]))
                            /\ pB.out = PointBytes(G, Stored(G, G.table[b]))
  BY PublicIs
<1>2. /\ G.family = "dl" => /\ kA.out = Minimal(Power(NumberOf(pB.out), a, G.p))
                            /\ kB.out = Minimal(Power(NumberOf(pA.out), b, G.p))
      /\ G.family = "ec" => kA = PointSecret(G, s, pB.out) /\ kB = PointSecret(G, t, pA.out)
  BY SharedIs
<1>3. CASE G \in DhGroups
  <2>1. G.family = "dl" /\ G.p \in Nat /\ G.p > 0 /\ G.g \in Nat /\ a \in Nat /\ b \in Nat
    BY <1>3, GroupAssumption
  <2> HIDE DEF a, b
  <2>2. Power(NumberOf(pB.out), a, G.p) = Power(NumberOf(pA.out), b, G.p)
    BY <1>1, <2>1, NumbersAgree
  <2> QED
    BY <1>2, <2>1, <2>2
<1>4. CASE G \in EcdhGroups
  <2>1. G.family = "ec" /\ Bound(G) = G.order /\ G.order \in Nat
    BY <1>4, GroupAssumption DEF Bound, IsGroup, IsCyclic
  <2>2. a \in 1 .. G.order - 1 /\ b \in 1 .. G.order - 1
    BY <1>1, <2>1
  <2>3. PointSecret(G, s, pB.out) = PointSecret(G, t, pA.out)
    BY <1>1, <1>4, <2>1, <2>2, PointSecretsAgree
  <2> QED
    BY <1>2, <2>1, <2>3
<1> QED
  BY <1>3, <1>4

-----------------------------------------------------------------------------
(* What the page keeps between its handlers: secrets that it may not have   *)
(* yet, each the bytes of a number; after generateSecret, of two numbers    *)
(* below the bound of the group it holds.                                   *)
KeptSecrets == {Unset} \cup {Minimal(x) : x \in Nat}
FreshSecrets == /\ dh \in groups
                /\ \A i \in Parties : \E x \in 1 .. Bound(dh) - 1 : secrets[i] = Minimal(x)

ExchangeInv ==
  /\ groups \in {DhGroups, EcdhGroups} /\ dh \in groups \cup {None}
  /\ DOMAIN secrets = Parties /\ \A i \in Parties : secrets[i] \in KeptSecrets
  /\ outcome.status = "generated" => FreshSecrets
  /\ Agreement

LEMMA KeptNumber == \A s \in KeptSecrets : NumberOf(s) \in Nat
<1>1. NumberOf(<<>>) = 0
  BY ByteModIs, NoDigits DEF NumberOf
<1> QED
  BY <1>1, MinimalIs DEF KeptSecrets, Unset

LEMMA ExchangeInit == AgreementInit => ExchangeInv
  BY DEF AgreementInit, ExchangeInv, KeptSecrets, Agreement, Outcome, Both, Parties

LEMMA DialogAgrees == ASSUME NEW status, Dialog(status) PROVE outcome'.status = status /\ Agreement'
  BY DEF Dialog, Outcome, Both, Parties, Agreement

LEMMA GenerateKeeps ==
  ASSUME ExchangeInv, NEW G \in groups, GenerateSecret(G)
  PROVE  ExchangeInv' /\ outcome'.status # "invalid_input"
<1>1. groups' = groups /\ dh' = G
  BY DEF GenerateSecret
<1>2. \A r \in GenSecret(G) : /\ r.status = "ok" => \E x \in 1 .. Bound(G) - 1 : r.out = Minimal(x)
                              /\ r.status \in {"ok", "rng"}
  BY DEF GenSecret, Result, Failed
<1>3. Bound(G) - 1 \in Int /\ \A x \in 1 .. Bound(G) - 1 : x \in Nat
  BY GroupAssumption DEF Bound, ExchangeInv, IsGroup, IsCyclic
<1>4. PICK a \in GenSecret(G), b \in GenSecret(G) :
        IF a.status # "ok" THEN Dialog(a.status) /\ UNCHANGED secrets
        ELSE IF b.status # "ok" THEN Dialog(b.status) /\ secrets' = [secrets EXCEPT ![1] = a.out]
        ELSE outcome' = Outcome("generated", Both(Unset)) /\ secrets' = <<a.out, b.out>>
  BY DEF GenerateSecret
<1>5. CASE a.status # "ok"
  <2>1. outcome'.status = "rng" /\ Agreement' /\ secrets' = secrets
    BY <1>2, <1>4, <1>5, DialogAgrees
  <2> QED
    BY <1>1, <2>1 DEF ExchangeInv
<1>6. CASE a.status = "ok" /\ b.status # "ok"
  <2>1. outcome'.status = "rng" /\ Agreement' /\ secrets' = [secrets EXCEPT ![1] = a.out]
    BY <1>2, <1>4, <1>6, DialogAgrees
  <2>2. a.out \in KeptSecrets
    BY <1>2, <1>3, <1>6 DEF KeptSecrets
  <2> QED
    BY <1>1, <2>1, <2>2 DEF ExchangeInv
<1>7. CASE a.status = "ok" /\ b.status = "ok"
  <2>1. outcome' = Outcome("generated", Both(Unset)) /\ secrets' = <<a.out, b.out>>
    BY <1>4, <1>7
  <2>2. Agreement'
    BY <2>1 DEF Agreement, Outcome, Both, Parties
  <2>3. a.out \in KeptSecrets /\ b.out \in KeptSecrets
    BY <1>2, <1>3, <1>7 DEF KeptSecrets
  <2>4. DOMAIN secrets' = Parties /\ secrets'[1] = a.out /\ secrets'[2] = b.out
    BY <2>1 DEF Parties
  <2>5. FreshSecrets'
    BY <1>1, <1>2, <1>7, <2>4 DEF FreshSecrets, Parties
  <2> QED
    BY <1>1, <2>1, <2>2, <2>3, <2>4, <2>5 DEF ExchangeInv, Parties, Outcome
<1> QED
  BY <1>5, <1>6, <1>7

(* How keyExchange ends when the page holds a group and two secrets: with  *)
(* the first call that fails, or with both results.                         *)
Ends(pA, pB, kA, kB) ==
  LET calls == <<pA, pB, kA, kB>>
  IN  \/ \E i \in 1 .. 4 : /\ calls[i].status # "ok"
                           /\ \A j \in 1 .. i - 1 : calls[j].status = "ok"
                           /\ Dialog(calls[i].status)
      \/ /\ \A i \in 1 .. 4 : calls[i].status = "ok"
         /\ outcome' = Outcome("exchanged", <<kA.out, kB.out>>)

Calls(pA, pB, kA, kB) ==
  /\ pA \in Public(dh, secrets[1]) /\ pB \in Public(dh, secrets[2])
  /\ kA \in SharedSecret(dh, secrets[1], pB.out) /\ kB \in SharedSecret(dh, secrets[2], pA.out)

LEMMA ExchangeEnds ==
  ASSUME KeyExchange, dh # None, \A i \in Parties : secrets[i] # Unset
  PROVE  \E pA, pB, kA, kB : Calls(pA, pB, kA, kB) /\ Ends(pA, pB, kA, kB)
<1>1. Peer(1) = 2 /\ Peer(2) = 1
  BY DEF Peer
<1>2. \A x, y : <<x, y>>[Peer(1)] = y /\ <<x, y>>[Peer(2)] = x
  BY <1>1
<1>3. \E pA \in Public(dh, secrets[1]), pB \in Public(dh, secrets[2]) :
      \E kA \in SharedSecret(dh, secrets[1], <<pA.out, pB.out>>[Peer(1)]),
         kB \in SharedSecret(dh, secrets[2], <<pA.out, pB.out>>[Peer(2)]) : Ends(pA, pB, kA, kB)
  <2>1. ~(dh = None \/ \E i \in Parties : secrets[i] = Unset)
    OBVIOUS
  <2> QED
    BY <2>1, Zenon DEF KeyExchange, Ends
<1>4. PICK pA \in Public(dh, secrets[1]), pB \in Public(dh, secrets[2]) :
      \E kA \in SharedSecret(dh, secrets[1], <<pA.out, pB.out>>[Peer(1)]),
         kB \in SharedSecret(dh, secrets[2], <<pA.out, pB.out>>[Peer(2)]) : Ends(pA, pB, kA, kB)
  BY <1>3
<1>5. <<pA.out, pB.out>>[Peer(1)] = pB.out /\ <<pA.out, pB.out>>[Peer(2)] = pA.out
  BY <1>2
<1>6. \E kA \in SharedSecret(dh, secrets[1], pB.out), kB \in SharedSecret(dh, secrets[2], pA.out) :
        Ends(pA, pB, kA, kB)
  BY <1>4, <1>5
<1> QED
  BY <1>6 DEF Calls

(* The calls of an exchange fail for want of memory or because of what they *)
(* are given.                                                               *)
LEMMA Statuses ==
  ASSUME NEW pA, NEW pB, NEW kA, NEW kB, Calls(pA, pB, kA, kB)
  PROVE  \A i \in 1 .. 4 : <<pA, pB, kA, kB>>[i].status \in {"ok", "invalid_input", "nomem"}
<1>1. \A s : \A r \in Public(dh, s) : r.status \in {"ok", "invalid_input", "nomem"}
  BY DEF Public, Result, Failed
<1>2. \A s, t : \A r \in SharedSecret(dh, s, t) : r.status \in {"ok", "invalid_input", "nomem"}
  BY DEF SharedSecret, PointSecret, Result, Failed
<1>3. /\ pA.status \in {"ok", "invalid_input", "nomem"} /\ pB.status \in {"ok", "invalid_input", "nomem"}
      /\ kA.status \in {"ok", "invalid_input", "nomem"} /\ kB.status \in {"ok", "invalid_input", "nomem"}
  BY <1>1, <1>2 DEF Calls
<1> QED
  BY <1>3

LEMMA ExchangeAgrees ==
  ASSUME ExchangeInv, KeyExchange PROVE outcome'.status # "generated" /\ Agreement'
<1>1. CASE dh = None \/ \E i \in Parties : secrets[i] = Unset
  BY <1>1, DialogAgrees DEF KeyExchange
<1>2. CASE dh # None /\ \A i \in Parties : secrets[i] # Unset
  <2>1. dh \in DhGroups \cup EcdhGroups /\ NumberOf(secrets[1]) \in Nat /\ NumberOf(secrets[2]) \in Nat
    BY <1>2, KeptNumber DEF ExchangeInv, Parties
  <2>2. PICK pA, pB, kA, kB : Calls(pA, pB, kA, kB) /\ Ends(pA, pB, kA, kB)
    BY <1>2, ExchangeEnds
  <2> DEFINE calls == <<pA, pB, kA, kB>>
  <2>3. \/ \E i \in 1 .. 4 : Dialog(calls[i].status)
        \/ /\ \A i \in 1 .. 4 : calls[i].status = "ok"
           /\ outcome' = Outcome("exchanged", <<kA.out, kB.out>>)
    BY <2>2 DEF Ends
  <2>4. ASSUME NEW i \in 1 .. 4, Dialog(calls[i].status) PROVE outcome'.status # "generated" /\ Agreement'
    <3>1. calls[i].status \in {"ok", "invalid_input", "nomem"}
      BY <2>2, Statuses
    <3> HIDE DEF calls
    <3>2. outcome'.status = calls[i].status /\ Agreement'
      BY <2>4, DialogAgrees
    <3> QED
      BY <3>1, <3>2
  <2>5. CASE /\ \A i \in 1 .. 4 : calls[i].status = "ok"
             /\ outcome' = Outcome("exchanged", <<kA.out, kB.out>>)
    <3>1. pA.status = "ok" /\ pB.status = "ok" /\ kA.status = "ok" /\ kB.status = "ok"
      BY <2>5
    <3>2. kA.out = kB.out
      BY <2>1, <2>2, <3>1, PartiesAgree DEF Calls
    <3> QED
      BY <2>5, <3>2 DEF Agreement, Outcome
  <2> QED
    BY <2>3, <2>4, <2>5
<1> QED
  BY <1>1, <1>2

-----------------------------------------------------------------------------
(* Fresh secrets. *)
LEMMA FreshNumbers ==
  ASSUME NEW G \in DhGroups \cup EcdhGroups, NEW s, NEW x \in 1 .. Bound(G) - 1, s = Minimal(x)
  PROVE  NumberOf(s) = x /\ x \in Nat /\ ValidSecret(G, s) /\ s # Unset
<1>1. Bound(G) \in Nat
  BY GroupAssumption DEF Bound, IsGroup, IsCyclic
<1>2. x \in Nat /\ 0 < x /\ x < Bound(G)
  BY <1>1
<1>3. NumberOf(s) = x /\ s # <<>>
  BY <1>2, MinimalIs
<1> QED
  BY <1>2, <1>3 DEF ValidSecret, Unset

(* A public number that is not 1 or -1 is in the range a peer accepts: it   *)
(* is not 0, for the generator has an inverse.                              *)
LEMMA NumberAccepted ==
  ASSUME NEW G \in DhGroups, NEW s, NEW x \in Nat, NumberOf(s) = x, ~Degenerate(G, s)
  PROVE  AcceptsNumber(G, Minimal(Power(G.g, x, G.p)))
<1> DEFINE p == G.p
           y == Power(G.g, x, p)
<1>1. G.family = "dl" /\ p \in Nat /\ p > 2 /\ G.g \in Nat /\ Invertible(G.g, p)
  BY GroupAssumption
<1>2. y \in 0 .. p - 1
  BY <1>1, PowerInRange
<1>3. y \notin {1, p - 1}
  BY <1>1 DEF Degenerate
<1>4. y # 0
  <2>0. \E w \in 0 .. p - 1 : (G.g * w) % p = 1 % p
    BY <1>1 DEF Invertible
  <2>4. 1 % p = 1
    BY ONLY <1>1
  <2>1. PICK w \in 0 .. p - 1 : (G.g * w) % p = 1
    BY ONLY <2>0, <2>4
  <2>2. w \in Nat
    BY <1>1
  <2> QED
    BY <1>1, <2>1, <2>2, UnitPower
<1> HIDE DEF y
<1>5. y \in Nat /\ 2 <= y /\ y <= p - 2
  BY <1>1, <1>2, <1>3, <1>4
<1>6. NumberOf(Minimal(y)) = y
  BY <1>5, MinimalIs
<1> QED
  BY <1>5, <1>6 DEF AcceptsNumber, y

(* With two fresh secrets no call refuses what it is given.                 *)
LEMMA FreshCalls ==
  ASSUME NEW G \in DhGroups \cup EcdhGroups, NEW s, NEW t,
         NEW a \in 1 .. Bound(G) - 1, s = Minimal(a), NEW b \in 1 .. Bound(G) - 1, t = Minimal(b),
         ~Degenerate(G, t)
  PROVE  /\ \A r \in Public(G, t) : r.status # "invalid_input"
         /\ \A r \in Public(G, t) : r.status = "ok" =>
              \A k \in SharedSecret(G, s, r.out) : k.status # "invalid_input"
<1>1. /\ NumberOf(s) = a /\ a \in Nat /\ ValidSecret(G, s)
      /\ NumberOf(t) = b /\ b \in Nat /\ ValidSecret(G, t)
  BY FreshNumbers
<1>2. \A r \in Public(G, t) : r.status # "invalid_input"
  BY <1>1 DEF Public, Result, Failed
<1>3. ASSUME NEW r \in Public(G, t), r.status = "ok", NEW k \in SharedSecret(G, s, r.out)
      PROVE  k.status # "invalid_input"
  <2>1. /\ G.family = "dl" => r.out = Minimal(Power(G.g, b, G.p))
        /\ G.family = "ec" => r.out = PointBytes(G, Stored(G, G.table[b]))
    BY <1>1, <1>3, PublicIs
  <2>2. CASE G \in DhGroups
    <3>1. G.family = "dl"
      BY <2>2, GroupAssumption
    <3>2. AcceptsNumber(G, r.out)
      BY <1>1, <2>1, <2>2, <3>1, NumberAccepted
    <3> QED
      BY <1>1, <1>3, <3>1, <3>2 DEF SharedSecret, Result
  <2>3. CASE G \in EcdhGroups
    <3>1. G.family = "ec" /\ IsGroup(G, G.table, G.order) /\ Bound(G) = G.order
      BY <2>3, GroupAssumption DEF Bound
    <3>2. AcceptsPoint(G, r.out)
      BY <2>1, <3>1, Received
    <3>3. PointSecret(G, s, r.out).status = "ok"
      <4>1. \E z : PointSecret(G, s, r.out) = Result(z)
        BY <1>1, <2>1, <3>1, SharedPoint
      <4> QED
        BY <4>1 DEF Result
    <3> QED
      BY <1>1, <1>3, <3>1, <3>2, <3>3 DEF SharedSecret, Failed
  <2> QED
    BY <2>2, <2>3
<1> QED
  BY <1>2, <1>3

LEMMA FreshExchange ==
  ASSUME ExchangeInv, KeyExchange, outcome.status = "generated", outcome'.status = "invalid_input"
  PROVE  \E i \in Parties : Degenerate(dh, secrets[i])
<1> SUFFICES ASSUME \A i \in Parties : ~Degenerate(dh, secrets[i]) PROVE FALSE
  OBVIOUS
<1>1. dh \in DhGroups \cup EcdhGroups
  BY DEF ExchangeInv, FreshSecrets
<1>2. PICK a \in 1 .. Bound(dh) - 1 : secrets[1] = Minimal(a)
  BY DEF ExchangeInv, FreshSecrets, Parties
<1>3. PICK b \in 1 .. Bound(dh) - 1 : secrets[2] = Minimal(b)
  BY DEF ExchangeInv, FreshSecrets, Parties
<1>4. dh # None /\ \A i \in Parties : secrets[i] # Unset
  <2>1. secrets[1] # Unset /\ secrets[2] # Unset
    BY <1>1, <1>2, <1>3, FreshNumbers
  <2>2. dh.family # None.family
    BY <1>1, GroupAssumption DEF None
  <2> QED
    BY <2>1, <2>2 DEF Parties
<1>5. PICK pA, pB, kA, kB : Calls(pA, pB, kA, kB) /\ Ends(pA, pB, kA, kB)
  BY <1>4, ExchangeEnds
<1>6. ~Degenerate(dh, secrets[1]) /\ ~Degenerate(dh, secrets[2])
  BY DEF Parties
<1>7. /\ pA.status # "invalid_input"
      /\ pB.status # "invalid_input"
      /\ (pA.status = "ok" => kB.status # "invalid_input")
      /\ (pB.status = "ok" => kA.status # "invalid_input")
  BY <1>1, <1>2, <1>3, <1>5, <1>6, FreshCalls DEF Calls
<1> DEFINE calls == <<pA, pB, kA, kB>>
<1>8. ASSUME NEW i \in 1 .. 4, calls[i].status # "ok", \A j \in 1 .. i - 1 : calls[j].status = "ok",
             Dialog(calls[i].status)
      PROVE FALSE
  <2>1. calls[i].status = "invalid_input"
    BY <1>8, DialogAgrees
  <2>2. calls[1] = pA /\ calls[2] = pB /\ calls[3] = kA /\ calls[4] = kB
    OBVIOUS
  <2>3. i = 1 \/ i = 2 \/ i = 3 \/ i = 4
    OBVIOUS
  <2> HIDE DEF calls
  <2>4. CASE i = 1
    BY ONLY <2>1, <2>2, <2>4, <1>7
  <2>5. CASE i = 2
    BY ONLY <2>1, <2>2, <2>5, <1>7
  <2>6. CASE i = 3
    <3>1. calls[2].status = "ok"
      BY <1>8, <2>6
    <3> QED
      BY ONLY <3>1, <2>1, <2>2, <2>6, <1>7
  <2>7. CASE i = 4
    <3>1. calls[1].status = "ok"
      BY <1>8, <2>7
    <3> QED
      BY ONLY <3>1, <2>1, <2>2, <2>7, <1>7
  <2> QED
    BY <2>3, <2>4, <2>5, <2>6, <2>7
<1>9. outcome' # Outcome("exchanged", <<kA.out, kB.out>>)
  BY DEF Outcome
<1> QED
  BY <1>5, <1>8, <1>9 DEF Ends

(* A handler of these pages keeps the invariant and makes good on the       *)
(* promise of fresh secrets; what the other kind of page does is no matter. *)
FreshStep == outcome.status = "generated" /\ outcome'.status = "invalid_input" =>
               \E i \in Parties : Degenerate(dh, secrets[i])

LEMMA AgreementStep == ASSUME ExchangeInv, AgreementNext PROVE ExchangeInv' /\ FreshStep
<1>1. CASE NotSelected
  <2>1. outcome'.status = "not_selected" /\ Agreement'
    BY <1>1, DialogAgrees DEF NotSelected
  <2> QED
    BY <1>1, <2>1 DEF NotSelected, ExchangeInv, FreshStep
<1>2. ASSUME NEW G \in groups, GenerateSecret(G) PROVE ExchangeInv' /\ FreshStep
  BY <1>2, GenerateKeeps DEF FreshStep
<1>3. CASE KeyExchange
  <2>1. outcome'.status # "generated" /\ Agreement' /\ UNCHANGED <<groups, dh, secrets>>
    BY <1>3, ExchangeAgrees DEF KeyExchange
  <2>2. ExchangeInv'
    BY <2>1 DEF ExchangeInv
  <2>3. FreshStep
    BY <1>3, FreshExchange DEF FreshStep
  <2> QED
    BY <2>2, <2>3
<1> QED
  BY <1>1, <1>2, <1>3 DEF AgreementNext

LEMMA PagesStep ==
  ASSUME ExchangeInv, [PagesNext]_<<agreementVars, pageVars, machine>>
  PROVE  ExchangeInv' /\ [FreshStep]_agreementVars
<1>1. CASE AgreementNext
  BY <1>1, AgreementStep
<1>2. CASE UNCHANGED agreementVars
  BY <1>2 DEF ExchangeInv, agreementVars, FreshSecrets, Agreement
<1> QED
  BY <1>1, <1>2 DEF PagesNext

LEMMA ExchangeInvariant == PagesSpec => []ExchangeInv
<1>1. PagesInit => ExchangeInv
  BY ExchangeInit DEF PagesInit
<1> QED
  BY <1>1, PagesStep, PTL DEF PagesSpec

(* On every page that exchanges keys, with any prime groups and any curves  *)
(* whose generator has the multiples it is said to have, and in any order   *)
(* of the buttons: a secret shown for both parties is one secret.           *)
THEOREM SecretsAgree == PagesSpec => []Agreement
<1>1. ExchangeInv => Agreement
  BY DEF ExchangeInv
<1> QED
  BY <1>1, ExchangeInvariant, PTL

(* Two secrets that were generated together can be exchanged, except where  *)
(* a public number is 1 or -1.                                              *)
THEOREM FreshSecretsAreExchanged == PagesSpec => FreshSecretsExchange
<1>1. ExchangeInv /\ [PagesNext]_<<agreementVars, pageVars, machine>> => [FreshStep]_agreementVars
  BY PagesStep
<1> QED
  BY <1>1, ExchangeInvariant, PTL DEF PagesSpec, FreshSecretsExchange, FreshStep

-----------------------------------------------------------------------------
(* A page that holds a key, with any number of keys: the object that its    *)
(* attribute names carries the newest key, made on this tab, and shown on   *)
(* it if its keygen came to an end.  That is not so of a tab whose object   *)
(* is gone or has no key, so the invariant speaks of keyed objects alone.   *)
ObjectIsTheTabs == object.state = "keyed" => keys # <<>> /\ Keys!Accounted(object.key)

MadeKeys == [tab : Keys!Tabs, whole : BOOLEAN]
KeysInv == /\ tab \in Keys!Tabs /\ keys \in Seq(MadeKeys) /\ text \in [Keys!Tabs -> [Keys!Fields -> Nat]]
           /\ ObjectIsTheTabs

UsesTheTabs == answer'.key # 0 => Keys!Accounted(answer'.key)

LEMMA KeysInit == Keys!Init => KeysInv
  BY DEF Keys!Init, KeysInv, Keys!Tabs, Keys!Object, ObjectIsTheTabs

(* A keygen that makes a key and shows it in none, one or all of the        *)
(* fields.                                                                  *)
LEMMA MakesAccounted ==
  ASSUME KeysInv, Keys!KeygenMakes, tab' = tab
  PROVE  KeysInv'
<1>1. PICK shown \in {{}, {"public"}, Keys!Fields} :
        /\ keys' = Append(keys, [tab |-> tab, whole |-> shown = Keys!Fields])
        /\ text' = [text EXCEPT ![tab] = [f \in Keys!Fields |-> IF f \in shown THEN Len(keys') ELSE @[f]]]
  BY DEF Keys!KeygenMakes
<1>2. /\ keys' \in Seq(MadeKeys) /\ Len(keys') = Len(keys) + 1 /\ keys' # <<>>
      /\ keys'[Len(keys')] = [tab |-> tab, whole |-> shown = Keys!Fields]
  <2>1. \A e \in MadeKeys : LET s == Append(keys, e)
                            IN  s \in Seq(MadeKeys) /\ Len(s) = Len(keys) + 1 /\ s # <<>> /\ s[Len(s)] = e
    <3>1. keys \in Seq(MadeKeys)
      BY DEF KeysInv
    <3> QED
      BY <3>1
  <2>2. [tab |-> tab, whole |-> shown = Keys!Fields] \in MadeKeys
    BY DEF KeysInv, MadeKeys
  <2> QED
    BY <1>1, <2>1, <2>2
<1>3. text'[tab] = [f \in Keys!Fields |-> IF f \in shown THEN Len(keys') ELSE text[tab][f]]
  BY <1>1 DEF KeysInv
<1>4. text' \in [Keys!Tabs -> [Keys!Fields -> Nat]]
  <2>1. Len(keys') \in Nat
    BY <1>2
  <2>2. [f \in Keys!Fields |-> IF f \in shown THEN Len(keys') ELSE text[tab][f]] \in [Keys!Fields -> Nat]
    BY <2>1 DEF KeysInv
  <2> QED
    BY <1>1, <2>2 DEF KeysInv
<1>5. object'.key = Len(keys')
  BY DEF Keys!KeygenMakes, Keys!Object
<1>6. shown = Keys!Fields => text'[tab] = [f \in Keys!Fields |-> Len(keys')]
  BY <1>3
<1>7. Keys!Accounted(object.key)'
  <2>1. keys'[Len(keys')].tab = tab' /\ (keys'[Len(keys')].whole => shown = Keys!Fields)
    <3> DEFINE e == [tab |-> tab, whole |-> shown = Keys!Fields]
    <3>1. e.tab = tab
      OBVIOUS
    <3>2. e.whole => shown = Keys!Fields
      BY Zenon
    <3>3. keys'[Len(keys')] = e
      BY <1>2, Zenon
    <3> QED
      BY ONLY <3>1, <3>2, <3>3, tab' = tab, Zenon
  <2> QED
    BY <1>5, <1>6, <2>1 DEF Keys!Accounted
<1> QED
  BY <1>2, <1>4, <1>7 DEF KeysInv, ObjectIsTheTabs

LEMMA KeysStep ==
  ASSUME KeysInv, [PagesNext]_<<agreementVars, pageVars, machine>>
  PROVE  KeysInv' /\ [UsesTheTabs]_pageVars
<1>1. ASSUME NEW o, Keys!Choose(o) PROVE KeysInv' /\ UsesTheTabs
  BY <1>1 DEF KeysInv, ObjectIsTheTabs, Keys!Accounted, UsesTheTabs, Keys!Choose, Keys!Answer
<1>2. CASE Keys!ToggleTab
  BY <1>2 DEF KeysInv, ObjectIsTheTabs, UsesTheTabs, Keys!ToggleTab, Keys!Object, Keys!Tabs, Keys!Answer
<1>3. CASE Keys!Keygen
  <2>1. CASE Keys!KeygenFails
    <3>1. KeysInv'
      BY <1>3, <2>1 DEF KeysInv, ObjectIsTheTabs, Keys!Accounted, Keys!Keygen, Keys!KeygenFails, Keys!Object
    <3> QED
      BY <2>1, <3>1 DEF UsesTheTabs, Keys!KeygenFails, Keys!Answer
  <2>2. CASE Keys!KeygenMakes
    <3>1. tab' = tab
      BY <1>3 DEF Keys!Keygen
    <3> QED
      <4>1. KeysInv'
        BY <2>2, <3>1, MakesAccounted
      <4>2. answer'.key = 0
        BY <2>2 DEF Keys!KeygenMakes, Keys!Answer
      <4> QED
        BY <4>1, <4>2 DEF UsesTheTabs
  <2> QED
    BY <1>3, <2>1, <2>2 DEF Keys!Keygen
<1>4. CASE Keys!Use
  <2>1. KeysInv'
    BY <1>4 DEF KeysInv, ObjectIsTheTabs, Keys!Accounted, Keys!Use
  <2>2. answer'.key # 0 => object.state = "keyed" /\ answer'.key = object.key
    BY <1>4 DEF Keys!Use, Keys!Answer
  <2> QED
    BY <2>1, <2>2 DEF KeysInv, ObjectIsTheTabs, UsesTheTabs
<1>5. CASE UNCHANGED pageVars
  BY <1>5 DEF KeysInv, ObjectIsTheTabs, Keys!Accounted, pageVars
<1> QED
  BY <1>1, <1>2, <1>3, <1>4, <1>5 DEF PagesNext, Keys!Next

(* On every page, with any number of keys made, a button works with the     *)
(* newest key: it was made on the tab of the button, and is shown there     *)
(* unless its keygen ended in a dialog.                                     *)
THEOREM OnlyTheTabsKey == PagesSpec => TabsKeyIsUsed
<1>1. PagesInit => KeysInv
  BY KeysInit DEF PagesInit
<1>2. PagesSpec => []KeysInv
  BY <1>1, KeysStep, PTL DEF PagesSpec
<1>3. KeysInv /\ [PagesNext]_<<agreementVars, pageVars, machine>> => [UsesTheTabs]_pageVars
  BY KeysStep
<1>4. pageVars = Keys!vars
  BY DEF pageVars, Keys!vars
<1>5. [UsesTheTabs]_pageVars <=> [answer'.key # 0 => Keys!Accounted(answer'.key)]_(Keys!vars)
  BY <1>4 DEF UsesTheTabs, pageVars, Keys!vars
<1> QED
  BY <1>2, <1>3, <1>5, PTL DEF PagesSpec, TabsKeyIsUsed, Keys!TabsKeyIsUsed

-----------------------------------------------------------------------------
(* What the key generation of RSA establishes about the numbers of a key.   *)
KeyFacts ==
  /\ ctx.p \in Nat /\ ctx.p > 2 /\ ctx.q \in Nat /\ ctx.q > 2 /\ Fermat(ctx.p) /\ Fermat(ctx.q)
  /\ ctx.n = ctx.p * ctx.q /\ ctx.n \in Nat /\ ctx.n > 0
  /\ ctx.e \in Nat /\ ctx.d \in Nat /\ ctx.dp \in Nat /\ ctx.dq \in Nat /\ ctx.qInv \in Nat
  /\ ctx.k \in Nat /\ ctx.k > 0 /\ ctx.n < Pow(ByteMod, ctx.k) /\ Pow(ByteMod, ctx.k - 1) <= ctx.n
  /\ (ctx.e * ctx.d) % ((ctx.p - 1) * (ctx.q - 1)) = 1
  /\ ctx.dp = ctx.d % (ctx.p - 1) /\ ctx.dq = ctx.d % (ctx.q - 1)
  /\ ((ctx.q % ctx.p) * ctx.qInv) % ctx.p = 1
  /\ ctx.scheme \in {"textbook", "pkcs1", "oaep_pss"}
  /\ ctx.scheme = "pkcs1" => ctx.k >= Len(HashId) + HashLen + 3 + PadMin
  /\ ctx.scheme = "oaep_pss" => EmLen >= 2 * HashLen + 2

LEMMA InverseIn ==
  ASSUME NEW v, NEW n \in Nat, Invertible(v, n)
  PROVE  InverseOf(v, n) \in Nat /\ (v * InverseOf(v, n)) % n = 1 % n
<1>1. InverseOf(v, n) \in 0 .. n - 1 /\ (v * InverseOf(v, n)) % n = 1 % n
  BY DEF Invertible, InverseOf
<1> QED
  BY <1>1

LEMMA RsaKeyFacts ==
  ASSUME NEW c \in RsaContexts, ctx = RsaKey(c)
  PROVE  KeyFacts
<1> DEFINE p == c.p
           q == c.q
           n == p * q
           phi == (p - 1) * (q - 1)
<1>1. /\ p \in Nat /\ p > 2 /\ q \in Nat /\ q > 2 /\ c.e \in Nat
      /\ Invertible(c.e, phi) /\ Invertible(q % p, p)
      /\ c.scheme \in {"textbook", "pkcs1", "oaep_pss"}
      /\ c.scheme = "pkcs1" => RsaKey(c).k >= Len(HashId) + HashLen + 3 + PadMin
      /\ c.scheme = "oaep_pss" =>
           (BitLength(RsaKey(c).n) + ByteBits - 2) \div ByteBits >= 2 * HashLen + 2
  BY RsaAssumption
<1>2. /\ ctx.p = p /\ ctx.q = q /\ ctx.n = n /\ ctx.e = c.e /\ ctx.scheme = c.scheme
      /\ ctx.d = InverseOf(c.e, phi) /\ ctx.dp = ctx.d % (p - 1) /\ ctx.dq = ctx.d % (q - 1)
      /\ ctx.qInv = InverseOf(q % p, p) /\ ctx.k = CountBytes(n)
  BY DEF RsaKey
<1>10. Fermat(p) /\ Fermat(q)
  <2>1. Prime(p) /\ Prime(q)
    BY RsaAssumption DEF Prime
  <2> QED
    BY <2>1, FermatHolds
<1>11. ctx.scheme = "pkcs1" => ctx.k >= Len(HashId) + HashLen + 3 + PadMin
  BY <1>1, <1>2 DEF RsaKey
<1> HIDE DEF p, q
<1>3. n \in Nat /\ n > 0
  <2>1. n \in Nat /\ 1 * q <= n
    BY <1>1, 1 \in Nat, Sums, Order
  <2> QED
    BY <1>1, <2>1
<1>4. phi \in Nat /\ phi > 1
  <2>1. p - 1 \in Nat /\ q - 1 \in Nat /\ 2 \in Nat /\ 2 <= p - 1 /\ 2 <= q - 1
    BY <1>1
  <2> DEFINE a == p - 1
             b == q - 1
  <2> HIDE DEF a, b
  <2>2. a \in Nat /\ b \in Nat /\ 2 <= a /\ 2 <= b => a * b \in Nat /\ 2 * b <= a * b
    BY Sums, Order, 2 \in Nat
  <2> QED
    BY <2>1, <2>2 DEF a, b
<1> HIDE DEF n, phi
<1>5. /\ ctx.d \in Nat /\ ctx.qInv \in Nat
      /\ (ctx.e * ctx.d) % phi = 1 /\ ((q % p) * ctx.qInv) % p = 1
  <2>1. 1 % phi = 1 /\ 1 % p = 1
    BY <1>1, <1>4, SmallRemainder
  <2>2. ctx.d \in Nat /\ (c.e * ctx.d) % phi = 1 % phi
    BY <1>1, <1>2, <1>4, InverseIn
  <2>3. ctx.qInv \in Nat /\ ((q % p) * ctx.qInv) % p = 1 % p
    BY <1>1, <1>2, InverseIn
  <2> QED
    BY <1>2, <2>1, <2>2, <2>3
<1>6. ctx.dp \in Nat /\ ctx.dq \in Nat
  <2>1. p - 1 \in Nat /\ p - 1 > 0 /\ q - 1 \in Nat /\ q - 1 > 0
    BY <1>1
  <2>2. ctx.d % (p - 1) \in Nat /\ ctx.d % (q - 1) \in Nat
    BY ONLY <2>1, <1>5, Division
  <2> QED
    BY <1>2, <2>2
<1>7. /\ ctx.k \in Nat /\ ctx.k > 0 /\ n < Pow(ByteMod, ctx.k)
      /\ ctx.k = 1 \/ Pow(ByteMod, ctx.k - 1) <= n
  BY <1>2, <1>3, ByteAssumption, CountIs DEF CountBytes, ByteMod
<1>8. Pow(ByteMod, ctx.k - 1) <= n
  <2>1. Pow(ByteMod, 0) = 1
    BY ByteModIs, PowSteps, 0 \in Nat
  <2> QED
    BY <1>3, <1>7, <2>1
<1>9. ctx.scheme = "oaep_pss" => EmLen >= 2 * HashLen + 2
  <2>1. EmLen = (BitLength(n) - 1 + ByteBits - 1) \div ByteBits
    BY <1>2 DEF EmLen, EmBits
  <2>2. BitLength(n) - 1 + ByteBits - 1 = BitLength(n) + ByteBits - 2
    BY <1>3, BitLengthIs, ByteAssumption
  <2>3. RsaKey(c).n = n
    BY DEF RsaKey, n, p, q
  <2> QED
    BY <1>1, <1>2, <2>1, <2>2, <2>3
<1> QED
  BY <1>1, <1>2, <1>3, <1>5, <1>6, <1>7, <1>8, <1>9, <1>10, <1>11 DEF KeyFacts, n, phi

LEMMA Sizes ==
  /\ HashLen \in Nat /\ HashLen > 0 /\ PadMin \in Nat /\ HashId \in Seq(Byte)
  /\ 2 \in Byte /\ Trailer \in Byte
<1>1. HashLen \in Nat \ {0} /\ PadMin \in Nat /\ HashId \in Seq(Byte) /\ {2, Trailer} \subseteq Byte
  BY RsaAssumption
<1> QED
  BY ONLY <1>1

LEMMA KeyNumbers ==
  KeyFacts => /\ ctx.p \in Nat /\ ctx.p > 1 /\ ctx.q \in Nat /\ ctx.q > 1
              /\ ctx.n = ctx.p * ctx.q /\ ctx.n \in Nat /\ ctx.n > 0
              /\ ctx.e \in Nat /\ ctx.d \in Nat /\ ctx.dp \in Nat /\ ctx.dq \in Nat /\ ctx.qInv \in Nat
              /\ ctx.k \in Nat /\ ctx.k > 0
<1> SUFFICES ASSUME KeyFacts PROVE ctx.p > 1 /\ ctx.q > 1
  BY DEF KeyFacts
<1>1. ctx.p \in Nat /\ ctx.p > 2 /\ ctx.q \in Nat /\ ctx.q > 2
  BY DEF KeyFacts
<1> QED
  BY ONLY <1>1

(* The result of a public or private operation is below the modulus, also   *)
(* when the halves were in the wrong order and h was brought back above 0.  *)
LEMMA OaepRoomIn == KeyFacts => OaepRoom \in Int
<1> SUFFICES ASSUME KeyFacts PROVE OaepRoom \in Int
  OBVIOUS
<1>1. ctx.k \in Nat /\ HashLen \in Nat
  BY KeyNumbers, Sizes
<1> QED
  BY ONLY <1>1 DEF OaepRoom

LEMMA CrtBelow ==
  ASSUME KeyFacts, NEW x \in Nat
  PROVE  Crt(x) \in Nat /\ Crt(x) < ctx.n
<1> DEFINE p == ctx.p
           q == ctx.q
           m1 == Power(x, ctx.dp, p)
           m2 == Power(x, ctx.dq, q)
           h == IF m1 < m2 THEN m1 - m2 + p ELSE m1 - m2
           v == (ctx.qInv * h) % p
<1>1. p \in Nat /\ p > 1 /\ q \in Nat /\ q > 1 /\ ctx.n = p * q
      /\ ctx.dp \in Nat /\ ctx.dq \in Nat /\ ctx.qInv \in Nat
  BY KeyNumbers
<1>2. Crt(x) = m2 + v * q
  BY DEF Crt
<1> HIDE DEF p, q
<1>3. m1 \in 0 .. p - 1 /\ m2 \in 0 .. q - 1
  <2>1. p > 0 /\ q > 0 /\ x \in Nat
    BY <1>1
  <2> QED
    BY ONLY <1>1, <2>1, PowerInRange
<1> HIDE DEF m1, m2
<1>4. h \in Int
  BY <1>1, <1>3
<1> HIDE DEF h
<1>5. ctx.qInv * h \in Int
  BY <1>1, <1>4
<1>6. v \in 0 .. p - 1
  BY <1>1, <1>5
<1> HIDE DEF v
<1>7. m2 \in Nat /\ m2 < q /\ v \in Nat /\ v < p
  BY <1>1, <1>3, <1>6
<1> QED
  BY <1>1, <1>2, <1>7, ProductBelow

LEMMA OperationsFit ==
  ASSUME KeyFacts, NEW x \in Nat
  PROVE  Fits(ctx.k, PublicOp(x)) /\ Fits(ctx.k, PrivateOp(x))
<1>1. ctx.n \in Nat /\ ctx.n > 0 /\ ctx.e \in Nat /\ ctx.d \in Nat
      /\ ctx.k \in Nat /\ ctx.n < Pow(ByteMod, ctx.k) /\ Pow(ByteMod, ctx.k) \in Nat
  BY ByteModIs, PowSteps DEF KeyFacts
<1>2. PublicOp(x) \in 0 .. ctx.n - 1 /\ Power(x, ctx.d, ctx.n) \in 0 .. ctx.n - 1
  BY <1>1, PowerInRange DEF PublicOp
<1>3. Crt(x) \in Nat /\ Crt(x) < ctx.n
  BY CrtBelow
<1>4. PrivateOp(x) \in Nat /\ PrivateOp(x) < ctx.n
  BY <1>1, <1>2, <1>3 DEF PrivateOp
<1> QED
  BY <1>1, <1>2, <1>4 DEF Fits

-----------------------------------------------------------------------------
(* Sequences of bytes and the numbers they stand for.                       *)
LEMMA BytesIn ==
  ASSUME NEW n \in Nat, NEW x \in Nat
  PROVE  BytesOf(n, x) \in Seq(Byte) /\ Len(BytesOf(n, x)) = n
<1> DEFINE s == BytesOf(n, x)
<1>1. s = [i \in 1 .. n |-> (x \div Pow(ByteMod, n - i)) % ByteMod]
  BY DEF BytesOf
<1>2. ASSUME NEW i \in 1 .. n PROVE (x \div Pow(ByteMod, n - i)) % ByteMod \in Byte
  <2>1. n - i \in Nat /\ ByteMod \in Nat /\ ByteMod > 0
    BY ByteModIs
  <2>2. Pow(ByteMod, n - i) \in Nat /\ Pow(ByteMod, n - i) > 0
    BY ONLY <2>1, PowPositive
  <2>3. x \div Pow(ByteMod, n - i) \in Nat
    BY ONLY x \in Nat, <2>2, Quotient
  <2> DEFINE d == x \div Pow(ByteMod, n - i)
  <2> HIDE DEF d
  <2>4. d \in Nat => d % ByteMod \in Byte
    BY <2>1 DEF Byte
  <2> QED
    BY <2>3, <2>4 DEF d
<1> HIDE DEF s
<1>3. s \in [1 .. n -> Byte]
  BY <1>1, <1>2
<1>4. Len(s) = n /\ s \in Seq(Byte)
  BY <1>3
<1> QED
  BY <1>4 DEF s

LEMMA BytesAreDigits == ASSUME NEW s \in Seq(Byte) PROVE AreDigits(s, ByteMod, Len(s)) /\ Len(s) \in Nat
<1>1. Len(s) \in Nat /\ \A i \in 1 .. Len(s) : s[i] \in Byte
  OBVIOUS
<1> QED
  BY <1>1 DEF AreDigits, Byte

LEMMA NumberIn ==
  ASSUME NEW s \in Seq(Byte)
  PROVE  NumberOf(s) \in Nat
<1>1. AreDigits(s, ByteMod, Len(s)) /\ Len(s) \in 0 .. Len(s) /\ Len(s) \in Nat
  BY BytesAreDigits
<1> QED
  BY <1>1, ByteModIs, DigitsBelow DEF NumberOf

(* A block, by its first byte.                                              *)
LEMMA TopFirst ==
  ASSUME NEW s \in Seq(Byte), NEW k \in Nat, k > 0, Len(s) = k, NEW R \in Nat, s[1] < R
  PROVE  NumberOf(s) < R * Pow(ByteMod, k - 1)
<1> DEFINE b == ByteMod
           D(i) == Digits(b, s, i)
           T == {i \in 0 .. k : i > 0 => D(i) < R * Pow(b, i - 1)}
<1>0. b \in Nat /\ b > 1
  BY ByteModIs
<1>1. ASSUME NEW i \in 1 .. k PROVE /\ D(i - 1) \in Nat /\ D(0) = 0 /\ D(i) = b * D(i - 1) + s[i]
                                  /\ s[i] \in 0 .. b - 1
  <2>1. \A j \in 1 .. i : s[j] \in 0 .. b - 1
    BY BytesAreDigits DEF AreDigits
  <2>2. i - 1 \in Nat /\ i - 1 + 1 = i /\ Numbers(s, i)
    BY <1>0, <2>1 DEF Numbers
  <2>3. D(i - 1) \in Nat /\ D(0) = 0 /\ D(i - 1 + 1) = b * D(i - 1) + s[i - 1 + 1]
    <3> DEFINE j == i - 1
    <3>1. b \in Nat /\ j \in Nat /\ Numbers(s, j + 1)
      BY <1>0, <2>2
    <3> HIDE DEF j, b
    <3>2. Digits(b, s, j) \in Nat /\ Digits(b, s, 0) = 0 /\ Digits(b, s, j + 1) = b * Digits(b, s, j) + s[j + 1]
      BY ONLY <3>1, DigitSteps
    <3> QED
      BY <3>2 DEF j, b
  <2> QED
    BY <2>1, <2>2, <2>3
<1> HIDE DEF D, b
<1>2. 0 \in T
  OBVIOUS
<1>3. ASSUME NEW i \in 1 .. k, i - 1 \in T PROVE i \in T
  <2>1. D(i - 1) \in Nat /\ D(0) = 0 /\ D(i) = b * D(i - 1) + s[i] /\ s[i] \in 0 .. b - 1
    BY <1>1
  <2>2. CASE i = 1
    <3>1. Pow(b, 0) = 1
      BY <1>0, PowSteps, 0 \in Nat
    <3>2. D(1) = b * 0 + s[1] /\ b * 0 = 0
      BY <1>0, <2>1, <2>2
    <3>3. D(1) < R * Pow(b, 1 - 1)
      BY <1>0, <2>1, <2>2, <3>1, <3>2
    <3> QED
      BY <2>2, <3>3
  <2>3. CASE i > 1
    <3> DEFINE P == Pow(b, i - 2)
               Q == R * P
               d == D(i - 1)
    <3>1. i - 2 \in Nat /\ i - 1 > 0 /\ i - 2 + 1 = i - 1 /\ i - 1 - 1 = i - 2
      BY <2>3
    <3>2. P \in Nat /\ Pow(b, i - 1) = b * P
      <4> DEFINE c == i - 2
      <4>1. c \in Nat /\ c + 1 = i - 1
        BY <3>1
      <4>2. c = i - 2
        OBVIOUS
      <4> HIDE DEF c, P
      <4>3. Pow(b, c) \in Nat /\ Pow(b, c + 1) = b * Pow(b, c)
        BY ONLY <1>0, <4>1, PowSteps
      <4> QED
        BY ONLY <4>1, <4>2, <4>3 DEF P
    <3>3. d \in Nat /\ d + 1 \in Nat /\ d < Q
      BY <1>3, <2>1, <3>1, <3>2
    <3>4. Q \in Nat
      BY ONLY <3>2, R \in Nat, Sums
    <3>5. R * (b * P) = Q * b
      BY ONLY <1>0, <3>2, R \in Nat
    <3>6. d + 1 <= Q
      <4> HIDE DEF d, Q
      <4> QED
        BY ONLY <3>3, <3>4
    <3>7. D(i) < (d + 1) * b
      BY <1>0, <2>1
    <3> HIDE DEF d, Q, P
    <3>8. (d + 1) * b <= Q * b
      BY ONLY <1>0, <3>3, <3>4, <3>6, Order
    <3>9. (d + 1) * b \in Nat /\ Q * b \in Nat /\ D(i) \in Nat
      BY <1>0, <2>1, <3>3, <3>4, Sums
    <3>10. D(i) < Q * b
      BY ONLY <3>7, <3>8, <3>9
    <3> QED
      BY <3>2, <3>5, <3>10
  <2> QED
    BY <2>2, <2>3
<1> HIDE DEF T
<1>4. \A i \in 0 .. k : i \in T
  BY <1>2, <1>3, StepInduction
<1>5. D(k) < R * Pow(b, k - 1)
  BY <1>4 DEF T
<1> QED
  BY <1>5 DEF NumberOf, D, b

LEMMA ZeroFirst ==
  ASSUME NEW s \in Seq(Byte), NEW k \in Nat, k > 0, Len(s) = k, s[1] = 0
  PROVE  NumberOf(s) < Pow(ByteMod, k - 1)
<1>1. NumberOf(s) < 1 * Pow(ByteMod, k - 1)
  BY TopFirst
<1>2. Pow(ByteMod, k - 1) \in Nat
  <2>1. k - 1 \in Nat /\ ByteMod \in Nat
    BY ByteModIs
  <2> QED
    BY ONLY <2>1, PowSteps
<1> QED
  BY <1>1, <1>2

Sized(s, n) == n \in Nat /\ s \in Seq(Byte) /\ Len(s) = n

LEMMA Joined ==
  ASSUME NEW s, NEW m, NEW t, NEW n, Sized(s, m), Sized(t, n)
  PROVE  Sized(s \o t, m + n) /\ (m > 0 => (s \o t)[1] = s[1])
<1>1. m \in Nat /\ n \in Nat /\ s \in Seq(Byte) /\ t \in Seq(Byte) /\ Len(s) = m /\ Len(t) = n
  BY DEF Sized
<1>2. /\ s \o t \in Seq(Byte)
      /\ Len(s \o t) = Len(s) + Len(t)
      /\ \A i \in 1 .. Len(s) + Len(t) : (s \o t)[i] = IF i <= Len(s) THEN s[i] ELSE t[i - Len(s)]
  BY ONLY <1>1, ConcatProperties
<1>3. m > 0 => (s \o t)[1] = s[1]
  <2>1. m > 0 => 1 \in 1 .. Len(s) + Len(t) /\ 1 <= Len(s)
    BY ONLY <1>1
  <2> QED
    BY ONLY <1>2, <2>1
<1>4. m + n \in Nat
  BY ONLY <1>1
<1> QED
  BY <1>1, <1>2, <1>3, <1>4 DEF Sized

LEMMA XorIn ==
  ASSUME NEW s, NEW n, NEW t, Sized(s, n), Sized(t, n)
  PROVE  Sized(XorBytes(s, t), n)
<1> DEFINE r == XorBytes(s, t)
<1>0. n \in Nat /\ s \in Seq(Byte) /\ t \in Seq(Byte) /\ Len(s) = n /\ Len(t) = n
  BY DEF Sized
<1>1. n \in Nat /\ DOMAIN s = 1 .. n
  BY <1>0
<1>2. r = [i \in 1 .. n |-> XorByte(s[i], t[i])]
  BY <1>1 DEF XorBytes
<1>3. ASSUME NEW i \in 1 .. n PROVE XorByte(s[i], t[i]) \in Byte
  <2>1. s[i] \in Byte /\ t[i] \in Byte
    BY <1>0
  <2> QED
    BY <2>1, ByteAssumption
<1> HIDE DEF r
<1>4. r \in [1 .. n -> Byte]
  BY <1>2, <1>3
<1>5. Len(r) = n /\ r \in Seq(Byte)
  BY <1>1, <1>4
<1> QED
  BY <1>1, <1>5 DEF r, Sized

LEMMA Singles == \A b \in Byte : Sized(<<b>>, 1) /\ <<b>>[1] = b
  BY DEF Sized

LEMMA SmallBytes == {0, 1} \subseteq Byte /\ ByteMod - 1 \in Byte
  BY ByteModIs DEF Byte

LEMMA Filled ==
  ASSUME NEW n \in Int, NEW b \in Byte
  PROVE  Sized([i \in 1 .. n |-> b], IF n >= 0 THEN n ELSE 0)
<1>1. CASE n >= 0
  <2>1. [i \in 1 .. n |-> b] \in [1 .. n -> Byte] /\ n \in Nat
    BY <1>1
  <2> QED
    BY <1>1, <2>1 DEF Sized
<1>2. CASE n < 0
  <2>1. 1 .. n = 1 .. 0
    BY <1>2
  <2>2. [i \in 1 .. n |-> b] = [i \in 1 .. 0 |-> b]
    BY ONLY <2>1
  <2>3. [i \in 1 .. 0 |-> b] \in [1 .. 0 -> Byte] /\ 0 \in Nat
    OBVIOUS
  <2>4. Sized([i \in 1 .. 0 |-> b], 0)
    BY ONLY <2>3 DEF Sized
  <2>5. (IF n >= 0 THEN n ELSE 0) = 0
    BY <1>2
  <2> QED
    BY ONLY <2>2, <2>4, <2>5
<1> QED
  BY <1>1, <1>2

-----------------------------------------------------------------------------
(* The functions of the environment: a hash gives as many bytes as it is    *)
(* asked for, and messages are bytes.  Both range over all messages, so the *)
(* theorems name them as hypotheses.                                        *)
HashesBytes == \A s \in Seq(Byte), len \in Nat : Hash(s, len) \in [1 .. len -> Byte]
MessagesAreBytes == \A c : MessagesFor(c) \subseteq Seq(Byte)

LEMMA HashIn ==
  ASSUME HashesBytes, NEW s \in Seq(Byte), NEW len \in Nat
  PROVE  Sized(Hash(s, len), len)
<1>1. Hash(s, len) \in [1 .. len -> Byte]
  BY DEF HashesBytes
<1> QED
  BY <1>1 DEF Sized

(* The mask has a whole number of hashes and is cut to its length.          *)

LEMMA MgfIn ==
  ASSUME HashesBytes, NEW seed \in Seq(Byte), NEW len \in Nat
  PROVE  Sized(Mgf(seed, len), len)
<1> DEFINE R == (len + HashLen - 1) \div HashLen
           H(i) == Hash(seed \o BytesOf(4, i - 1), HashLen)
           S == Seq(Byte)
           J(i, x) == x \o H(i)
           G == [u \in (1 .. R) \X S |-> J(u[1], u[2])]
           e == <<>>
<1>0. HashLen \in Nat /\ HashLen > 0
  BY RsaAssumption
<1>1. R \in Nat /\ len <= R * HashLen
  <2>1. len + HashLen - 1 \in Nat
    BY <1>0
  <2>2. R \in Nat /\ len + HashLen - 1 < (R + 1) * HashLen
    BY ONLY <1>0, <2>1, Quotient
  <2> HIDE DEF R
  <2>3. (R + 1) * HashLen = R * HashLen + 1 * HashLen /\ R * HashLen \in Nat
    BY ONLY <1>0, <2>2, 1 \in Nat, Sums
  <2> QED
    BY <1>0, <2>2, <2>3
<1> HIDE DEF R
<1>2. ASSUME NEW i \in 1 .. R PROVE Sized(H(i), HashLen)
  <2>1. i - 1 \in Nat
    BY <1>1
  <2>2. BytesOf(4, i - 1) \in Seq(Byte)
    BY ONLY <2>1, 4 \in Nat, BytesIn
  <2>3. seed \o BytesOf(4, i - 1) \in Seq(Byte)
    BY <2>2
  <2> QED
    BY <1>0, <2>3, HashIn
<1> HIDE DEF H
<1>3. ASSUME NEW i \in 1 .. R, NEW x \in S
      PROVE  G[<<i, x>>] = J(i, x) /\ G[<<i, x>>] \in S
  <2>1. G[<<i, x>>] = J(i, x)
    OBVIOUS
  <2>2. J(i, x) \in S
    BY <1>2, ConcatProperties DEF Sized
  <2> HIDE DEF G
  <2> QED
    BY <2>1, <2>2
<1>4. e \in S /\ Sized(e, 0)
  BY DEF Sized
<1> HIDE DEF e, G, S, J
<1>5. Steps(G, R, S)
  BY <1>3 DEF Steps
<1>6. PICK f : f \in [0 .. R -> S] /\ f[0] = e /\ \A i \in 1 .. R : f[i] = G[<<i, f[i - 1]>>]
  BY <1>1, <1>4, <1>5, StepRecursion
<1>7. ASSUME NEW i \in 1 .. R PROVE f[i] = J(i, f[i - 1])
  <2>1. i - 1 \in 0 .. R
    BY <1>1
  <2>2. f[i - 1] \in S
    BY <1>6, <2>1
  <2> QED
    BY <1>3, <1>6, <2>2
<1>8. f = [i \in 0 .. R |-> IF i = 0 THEN e ELSE J(i, f[i - 1])]
  BY <1>6, <1>7
<1> DEFINE It == CHOOSE V : V = [i \in 0 .. R |-> IF i = 0 THEN e ELSE J(i, V[i - 1])]
<1>9. It = [i \in 0 .. R |-> IF i = 0 THEN e ELSE J(i, It[i - 1])]
  BY <1>8
<1>10. Mgf(seed, len) = SubSeq(It[R], 1, len)
  BY DEF Mgf, R, H, J, e
<1> HIDE DEF It
<1>11. It[0] = e /\ \A i \in 1 .. R : It[i] = J(i, It[i - 1])
  BY <1>1, <1>9
<1> DEFINE T == {i \in 0 .. R : Sized(It[i], i * HashLen)}
<1>12. 0 \in T
  <2>1. 0 * HashLen = 0 /\ 0 \in 0 .. R
    BY <1>0, <1>1
  <2> QED
    BY <1>4, <1>11, <2>1
<1>13. ASSUME NEW i \in 1 .. R, i - 1 \in T PROVE i \in T
  <2>1. Sized(It[i - 1], (i - 1) * HashLen) /\ It[i] = It[i - 1] \o H(i) /\ Sized(H(i), HashLen)
    BY <1>2, <1>11, <1>13 DEF J
  <2>2. Sized(It[i], (i - 1) * HashLen + HashLen)
    BY ONLY <2>1, Joined
  <2>3. (i - 1) * HashLen + HashLen = i * HashLen
    BY <1>0
  <2> QED
    BY <2>2, <2>3
<1> HIDE DEF T
<1>14. \A i \in 0 .. R : i \in T
  BY <1>1, <1>12, <1>13, StepInduction
<1>15. It[R] \in Seq(Byte) /\ Len(It[R]) = R * HashLen
  BY <1>1, <1>14 DEF T, Sized
<1> DEFINE s == It[R]
<1> HIDE DEF s
<1>16. s \in Seq(Byte) /\ len <= Len(s) /\ Mgf(seed, len) = SubSeq(s, 1, len)
  BY <1>1, <1>10, <1>15 DEF s
<1>17. \A i \in 1 .. len : s[i] \in Byte
  BY <1>16
<1>18. 1 \in Int /\ len \in Int
  OBVIOUS
<1>19. /\ SubSeq(s, 1, len) \in Seq(Byte)
       /\ Len(SubSeq(s, 1, len)) = IF 1 <= len THEN len - 1 + 1 ELSE 0
  BY ONLY <1>17, <1>18, SubSeqProperties
<1> QED
  BY <1>16, <1>19 DEF Sized

-----------------------------------------------------------------------------
(* The blocks of the encoders.                                              *)
LEMMA BlockFits ==
  ASSUME KeyFacts, NEW s, Sized(s, ctx.k), s[1] = 0
  PROVE  NumberOf(s) \in Nat /\ NumberOf(s) < ctx.n
<1>1. /\ ctx.k \in Nat /\ ctx.k > 0 /\ Pow(ByteMod, ctx.k - 1) <= ctx.n /\ ctx.n \in Nat
      /\ s \in Seq(Byte) /\ Len(s) = ctx.k
  BY DEF KeyFacts, Sized
<1>2. Pow(ByteMod, ctx.k - 1) \in Nat
  <2>1. ctx.k - 1 \in Nat
    BY <1>1
  <2> QED
    BY <2>1, ByteModIs, PowSteps
<1>3. NumberOf(s) < Pow(ByteMod, ctx.k - 1)
  BY <1>1, ZeroFirst
<1>4. NumberOf(s) \in Nat
  BY <1>1, NumberIn
<1> QED
  BY <1>1, <1>2, <1>3, <1>4

LEMMA Pkcs1Fits ==
  ASSUME KeyFacts, NEW m \in Seq(Byte), NEW ps \in Seq(Byte), 3 + Len(ps) + Len(m) = ctx.k
  PROVE  NumberOf(Pkcs1Block(m, ps)) \in Nat /\ NumberOf(Pkcs1Block(m, ps)) < ctx.n
<1> DEFINE head == <<0, 2>>
           zero == <<0>>
           u == head \o ps
           v == u \o zero
           w == v \o m
<1>1. Sized(head, 2) /\ head[1] = 0 /\ Sized(zero, 1)
  <2>1. 0 \in Byte /\ 2 \in Byte
    BY RsaAssumption, SmallBytes
  <2> QED
    BY <2>1 DEF Sized
<1>2. w = Pkcs1Block(m, ps)
  BY DEF Pkcs1Block
<1> HIDE DEF head, zero
<1>3. Sized(ps, Len(ps)) /\ Sized(m, Len(m)) /\ Len(ps) \in Nat /\ Len(m) \in Nat
  BY DEF Sized
<1>4. Sized(u, 2 + Len(ps)) /\ u[1] = 0
  BY ONLY <1>1, <1>3, 2 > 0, Joined
<1> HIDE DEF u
<1>5. 2 + Len(ps) > 0 /\ 2 + Len(ps) + 1 > 0 /\ 2 + Len(ps) + 1 + Len(m) = ctx.k
  BY <1>3
<1>6. Sized(v, 2 + Len(ps) + 1) /\ v[1] = 0
  BY ONLY <1>1, <1>4, <1>5, Joined
<1> HIDE DEF v
<1>7. Sized(w, 2 + Len(ps) + 1 + Len(m)) /\ w[1] = 0
  BY ONLY <1>3, <1>5, <1>6, Joined
<1> HIDE DEF w
<1> QED
  BY <1>2, <1>5, <1>7, BlockFits

LEMMA OaepFits ==
  ASSUME KeyFacts, HashesBytes, NEW m \in Seq(Byte), Len(m) <= OaepRoom, NEW seed \in Blocks(HashLen)
  PROVE  NumberOf(OaepBlock(m, seed)) \in Nat /\ NumberOf(OaepBlock(m, seed)) < ctx.n
<1> DEFINE room == OaepRoom - Len(m)
           dbLen == HashLen + room + 1 + Len(m)
           a == Hash(<<>>, HashLen)
           z == Zeros(OaepRoom - Len(m))
           one == <<1>>
           u == a \o z
           v == u \o one
           db == v \o m
           mask == Mgf(seed, Len(db))
           maskedDb == XorBytes(db, mask)
           seedMask == Mgf(maskedDb, HashLen)
           maskedSeed == XorBytes(seed, seedMask)
           zero == <<0>>
           x == zero \o maskedSeed
           w == x \o maskedDb
<1>0. HashLen \in Nat /\ HashLen > 0 /\ ctx.k \in Nat
  BY RsaAssumption DEF KeyFacts
<1>1. Sized(seed, HashLen) /\ Sized(m, Len(m)) /\ Len(m) \in Nat
  BY <1>0 DEF Blocks, Sized
<1>2. Sized(a, HashLen)
  BY <1>0, <<>> \in Seq(Byte), HashIn
<1>3. room \in Nat /\ HashLen + room + 1 + Len(m) = ctx.k - HashLen - 1
  BY <1>0, <1>1 DEF OaepRoom
<1>4. Sized(z, room)
  <2>1. room \in Int /\ room >= 0 /\ 0 \in Byte
    BY <1>3, SmallBytes
  <2> QED
    BY ONLY <2>1, Filled DEF Zeros
<1>5. Sized(one, 1) /\ Sized(zero, 1) /\ zero[1] = 0
  BY Singles, SmallBytes
<1>6. w = OaepBlock(m, seed)
  BY DEF OaepBlock
<1> HIDE DEF a, z, one, zero, room
<1>7. Sized(u, HashLen + room)
  BY ONLY <1>2, <1>4, Joined
<1> HIDE DEF u
<1>8. Sized(v, HashLen + room + 1)
  BY ONLY <1>5, <1>7, Joined
<1> HIDE DEF v
<1>9. Sized(db, dbLen) /\ dbLen = ctx.k - HashLen - 1 /\ dbLen \in Nat
  <2>1. Sized(db, HashLen + room + 1 + Len(m))
    BY ONLY <1>1, <1>8, Joined
  <2>2. dbLen \in Nat
    BY <1>0, <1>1, <1>3
  <2> QED
    BY <1>3, <2>1, <2>2
<1> HIDE DEF db, dbLen
<1>10. Len(db) = dbLen /\ seed \in Seq(Byte)
  BY <1>1, <1>9 DEF Sized
<1>11. Sized(mask, dbLen)
  BY <1>9, <1>10, MgfIn
<1> HIDE DEF mask
<1>12. Sized(maskedDb, dbLen) /\ maskedDb \in Seq(Byte)
  BY <1>9, <1>11, XorIn DEF Sized
<1> HIDE DEF maskedDb
<1>13. Sized(seedMask, HashLen)
  BY <1>0, <1>12, MgfIn
<1> HIDE DEF seedMask
<1>14. Sized(maskedSeed, HashLen)
  BY <1>1, <1>13, XorIn
<1> HIDE DEF maskedSeed
<1>15. Sized(x, 1 + HashLen) /\ x[1] = 0
  BY ONLY <1>5, <1>14, 1 > 0, Joined
<1> HIDE DEF x
<1>16. 1 + HashLen > 0 /\ 1 + HashLen + dbLen = ctx.k
  BY <1>0, <1>9
<1>17. Sized(w, 1 + HashLen + dbLen) /\ w[1] = 0
  BY ONLY <1>12, <1>15, <1>16, Joined
<1> HIDE DEF w
<1> QED
  BY <1>6, <1>16, <1>17, BlockFits

LEMMA SignedIn ==
  ASSUME KeyFacts, HashesBytes, NEW m \in Seq(Byte)
  PROVE  NumberOf(SignedBlock(m)) \in Nat
<1> DEFINE a == Hash(m, HashLen)
           t == HashId \o a
           fill == [i \in 1 .. ctx.k - Len(t) - 3 |-> ByteMod - 1]
           head == <<0, 1>>
           zero == <<0>>
           u == head \o fill
           v == u \o zero
           s == v \o t
<1>0. HashLen \in Nat /\ HashId \in Seq(Byte) /\ ctx.k \in Nat
  BY RsaAssumption DEF KeyFacts
<1>1. a \in Seq(Byte)
  BY <1>0, HashIn DEF Sized
<1>2. s = SignedBlock(m)
  BY DEF SignedBlock
<1> HIDE DEF a
<1>3. t \in Seq(Byte)
  BY <1>0, <1>1, ConcatProperties
<1> HIDE DEF t
<1>4. fill \in Seq(Byte)
  <2>1. ctx.k - Len(t) - 3 \in Int /\ ByteMod - 1 \in Byte
    BY <1>0, <1>3, SmallBytes
  <2> QED
    BY ONLY <2>1, Filled DEF Sized
<1> HIDE DEF fill
<1>5. head \in Seq(Byte) /\ zero \in Seq(Byte)
  BY SmallBytes
<1> HIDE DEF head, zero
<1>6. u \in Seq(Byte)
  BY ONLY <1>4, <1>5, ConcatProperties
<1> HIDE DEF u
<1>7. v \in Seq(Byte)
  BY ONLY <1>5, <1>6, ConcatProperties
<1> HIDE DEF v
<1>8. s \in Seq(Byte)
  BY ONLY <1>3, <1>7, ConcatProperties
<1> HIDE DEF s
<1> QED
  BY <1>2, <1>8, NumberIn

(* The first byte of a PSS block, cut to the bits of the block.             *)
LEMMA Remainder == ASSUME NEW x \in Nat, NEW m \in Nat, m > 0 PROVE x % m \in Nat /\ x % m <= x
<1> DEFINE d == x \div m
<1>1. d \in Nat /\ x % m \in 0 .. m - 1 /\ x = d * m + (x % m)
  BY Division
<1> HIDE DEF d
<1>2. d * m \in Nat
  BY <1>1, Sums
<1> QED
  BY <1>1, <1>2

LEMMA ClearTopIn ==
  ASSUME KeyFacts, NEW s, NEW n, n > 0, Sized(s, n)
  PROVE  ClearTop(s) \in Seq(Byte)
<1> DEFINE rest == ByteBits - (ByteBits * EmLen - EmBits)
           head == <<s[1] % Pow(2, rest)>>
<1>0. ByteBits \in Nat /\ ByteBits > 0 /\ EmBits \in Nat
  <2>1. BitLength(ctx.n) \in Nat /\ BitLength(ctx.n) > 0
    BY BitLengthIs DEF KeyFacts
  <2> QED
    BY <2>1, ByteAssumption DEF EmBits
<1>1. rest \in Nat
  <2>1. EmLen = (EmBits + ByteBits - 1) \div ByteBits /\ EmBits + ByteBits - 1 \in Nat
    BY <1>0 DEF EmLen
  <2>2. EmLen \in Nat /\ EmLen * ByteBits <= EmBits + ByteBits - 1
    BY ONLY <1>0, <2>1, Quotient
  <2>3. ByteBits * EmLen = EmLen * ByteBits /\ EmLen * ByteBits \in Nat
    BY ONLY <1>0, <2>2, Sums
  <2> QED
    BY <1>0, <2>2, <2>3
<1>2. ClearTop(s) = head \o Tail(s)
  BY DEF ClearTop
<1> HIDE DEF rest
<1>3. s \in Seq(Byte) /\ s # <<>> /\ s[1] \in Byte
  BY DEF Sized
<1>4. Tail(s) \in Seq(Byte)
  BY ONLY <1>3, HeadTailProperties
<1>5. Pow(2, rest) \in Nat /\ Pow(2, rest) > 0
  BY ONLY <1>1, 2 \in Nat, 2 > 0, PowPositive
<1>6. s[1] % Pow(2, rest) \in Byte
  <2>1. s[1] \in Nat /\ s[1] <= ByteMod - 1
    BY <1>3, ByteModIs DEF Byte
  <2>2. s[1] % Pow(2, rest) \in Nat /\ s[1] % Pow(2, rest) <= s[1]
    BY ONLY <1>5, <2>1, Remainder
  <2> DEFINE y == s[1] % Pow(2, rest)
  <2> HIDE DEF y
  <2>3. y \in Nat /\ y <= s[1] => y \in Byte
    BY <2>1, ByteModIs DEF Byte
  <2> QED
    BY <2>2, <2>3 DEF y
<1>7. head \in Seq(Byte)
  BY <1>6
<1> HIDE DEF head
<1> QED
  BY <1>2, <1>4, <1>7, ConcatProperties

LEMMA PssIn ==
  ASSUME KeyFacts, HashesBytes, ctx.scheme = "oaep_pss", NEW m \in Seq(Byte), NEW salt \in Blocks(HashLen)
  PROVE  NumberOf(PssBlock(m, salt)) \in Nat
<1> DEFINE a == Hash(m, HashLen)
           eight == Zeros(8)
           b == eight \o a
           c == b \o salt
           h == PssHash(m, salt)
           room == DbLen - HashLen - 1
           z == Zeros(DbLen - HashLen - 1)
           one == <<1>>
           u == z \o one
           db == u \o salt
           x == XorBytes(db, Mgf(h, DbLen))
           y == ClearTop(x)
           v == y \o h
           end == <<Trailer>>
           s == v \o end
<1>0. HashLen \in Nat /\ HashLen > 0 /\ EmLen >= 2 * HashLen + 2 /\ EmLen \in Int
  <2>1. BitLength(ctx.n) \in Nat /\ BitLength(ctx.n) > 0
    BY BitLengthIs DEF KeyFacts
  <2>2. ByteBits \in Nat /\ ByteBits > 0 /\ EmBits \in Nat
    BY <2>1, ByteAssumption DEF EmBits
  <2>3. EmBits + ByteBits - 1 \in Nat
    BY <2>2
  <2>4. EmLen \in Nat
    BY <2>2, <2>3, Quotient DEF EmLen
  <2> QED
    BY <2>4, RsaAssumption DEF KeyFacts
<1>1. Sized(salt, HashLen) /\ Sized(a, HashLen)
  BY <1>0, HashIn DEF Blocks, Sized
<1>2. room \in Nat /\ room + 1 + HashLen = DbLen /\ DbLen \in Nat /\ DbLen > 0
  BY <1>0 DEF DbLen
<1>3. h \in Seq(Byte)
  <2>1. eight \in Seq(Byte)
    BY ONLY 8 \in Int, SmallBytes, Filled DEF Zeros, Sized
  <2>2. h = Hash(c, HashLen)
    BY DEF PssHash
  <2> HIDE DEF eight, h, a
  <2>3. b \in Seq(Byte)
    BY <1>1, <2>1, ConcatProperties DEF Sized
  <2> HIDE DEF b
  <2>4. c \in Seq(Byte)
    BY <1>1, <2>3, ConcatProperties DEF Sized
  <2> QED
    BY <1>0, <2>2, <2>4, HashIn DEF Sized
<1>4. s = PssBlock(m, salt)
  BY DEF PssBlock
<1> HIDE DEF a, b, c, h
<1>5. Sized(z, room)
  <2>1. room \in Int /\ room >= 0 /\ 0 \in Byte
    BY <1>2, SmallBytes
  <2> QED
    BY ONLY <2>1, Filled DEF Zeros
<1>6. Sized(one, 1)
  BY Singles, SmallBytes
<1> HIDE DEF z, one, room
<1>7. Sized(u, room + 1)
  BY ONLY <1>5, <1>6, Joined
<1> HIDE DEF u
<1>8. Sized(db, room + 1 + HashLen)
  BY ONLY <1>1, <1>7, Joined
<1> HIDE DEF db
<1>9. Sized(x, DbLen)
  <2>1. Sized(Mgf(h, DbLen), DbLen)
    BY <1>2, <1>3, MgfIn
  <2>2. Sized(db, DbLen)
    BY <1>2, <1>8
  <2> QED
    BY <2>1, <2>2, XorIn
<1> HIDE DEF x
<1>10. y \in Seq(Byte)
  BY <1>2, <1>9, ClearTopIn
<1> HIDE DEF y
<1>11. v \in Seq(Byte)
  BY ONLY <1>3, <1>10, ConcatProperties
<1>12. end \in Seq(Byte)
  <2>1. Trailer \in Byte
    BY RsaAssumption
  <2> QED
    BY <2>1
<1> HIDE DEF v, end
<1>13. s \in Seq(Byte)
  BY ONLY <1>11, <1>12, ConcatProperties
<1> HIDE DEF s
<1> QED
  BY <1>4, <1>13, NumberIn

-----------------------------------------------------------------------------
(* While a padded encryption draws, its message and what it drew leave room *)
(* for the three bytes around them.                                         *)
SealInv ==
  /\ ctx.family = "rsa" => \E c \in RsaContexts : ctx = RsaKey(c)
  /\ ctx.family = "rsa" /\ pc = "encrypt" =>
       task \in Seq(Byte) /\ drawn \in Seq(Byte) /\ 3 + Len(drawn) + Len(task) <= ctx.k
  /\ EncodingsFit

LEMMA SealInit == Init => SealInv
<1> SUFFICES ASSUME Init PROVE SealInv
  OBVIOUS
<1>1. pc = "ready" /\ last = NoCall
  BY DEF Init, RsaInit, GroupInit, Ready
<1>2. ctx.family = "rsa" => \E c \in RsaContexts : ctx = RsaKey(c)
  BY DEF Init, RsaInit, GroupInit, Ready
<1> QED
  BY <1>1, <1>2 DEF SealInv, EncodingsFit, NoCall

LEMMA CallReturns ==
  ASSUME SealInv, NEW call, NEW m, NEW in, NEW status, Return(call, m, in, status),
         call \in {"encrypt", "sign"} => status # "invalid_input"
  PROVE  SealInv'
  BY DEF SealInv, EncodingsFit, Return

LEMMA SealFits ==
  ASSUME SealInv, NEW call, NEW m, NEW x, Fits(ctx.k, x), SealBytes(call, m, x) PROVE SealInv'
<1>1. Return(call, m, <<>>, "ok")
  BY DEF SealBytes, Seal
<1> QED
  BY <1>1, CallReturns

LEMMA SealPublicFits ==
  ASSUME SealInv, KeyFacts, NEW m, NEW em, NumberOf(em) \in Nat, NumberOf(em) < ctx.n, SealPublic(m, em)
  PROVE  SealInv'
<1>1. SealBytes("encrypt", m, PublicOp(NumberOf(em)))
  BY DEF SealPublic
<1> QED
  BY <1>1, SealFits, OperationsFit

LEMMA EncryptFits ==
  ASSUME SealInv, HashesBytes, NEW m \in Seq(Byte), RsaEncrypt(m) PROVE SealInv'
<1>1. KeyFacts /\ ctx.scheme \in {"textbook", "pkcs1", "oaep_pss"} /\ PadMin \in Nat
  <2>1. PICK c \in RsaContexts : ctx = RsaKey(c)
    BY DEF SealInv, RsaEncrypt
  <2>2. KeyFacts
    BY <2>1, RsaKeyFacts
  <2>3. ctx.scheme \in {"textbook", "pkcs1", "oaep_pss"}
    BY <2>2 DEF KeyFacts
  <2> QED
    BY <2>2, <2>3, Sizes
<1>2. ASSUME NEW status \in {"too_long", "nomem", "rng"}, Refuse("encrypt", m, status) PROVE SealInv'
  BY <1>2, CallReturns DEF Refuse
<1>3. ASSUME NEW out, Seal("encrypt", m, out) PROVE SealInv'
  BY <1>3, CallReturns DEF Seal
<1>4. CASE ctx.scheme = "pkcs1" /\ ~TooLong(m) /\ Begin("encrypt", m, <<>>)
  <2>1. Len(m) <= ctx.k - 3 - PadMin /\ Len(m) \in Nat /\ ctx.k \in Nat
    <3>1. ~(Len(m) > ctx.k - 3 - PadMin)
      BY <1>4 DEF TooLong, Pkcs1Room
    <3>2. ctx.k \in Nat /\ PadMin \in Nat /\ Len(m) \in Nat
      BY <1>1, KeyNumbers
    <3> QED
      BY ONLY <3>1, <3>2
  <2>2. ctx' = ctx /\ task' = m /\ drawn' = <<>> /\ last' = last
    BY <1>4 DEF Begin
  <2>3. <<>> \in Seq(Byte) /\ Len(<<>>) = 0 /\ 3 + 0 + Len(m) <= ctx.k
    BY <1>1, <2>1
  <2> QED
    BY <2>2, <2>3 DEF SealInv, EncodingsFit
<1>5. ASSUME ctx.scheme = "oaep_pss", ~TooLong(m), NEW seed \in Blocks(HashLen),
             SealPublic(m, OaepBlock(m, seed))
      PROVE  SealInv'
  <2>1. Len(m) <= OaepRoom
    <3>1. Len(m) \in Nat /\ OaepRoom \in Int
      BY <1>1, OaepRoomIn
    <3> QED
      BY <1>5, <3>1 DEF TooLong
  <2>2. NumberOf(OaepBlock(m, seed)) \in Nat /\ NumberOf(OaepBlock(m, seed)) < ctx.n
    BY <1>1, <2>1, OaepFits
  <2> QED
    BY <1>1, <1>5, <2>2, SealPublicFits
<1> QED
  BY <1>2, <1>3, <1>4, <1>5 DEF RsaEncrypt

LEMMA PaddedFits == ASSUME SealInv, Pad \/ RsaEncryptPadded PROVE SealInv'
<1>1. KeyFacts /\ ctx.k \in Nat /\ task \in Seq(Byte) /\ drawn \in Seq(Byte) /\ 3 + Len(drawn) + Len(task) <= ctx.k
  <2>1. PICK c \in RsaContexts : ctx = RsaKey(c)
    BY DEF SealInv, Pad, Padding, RsaEncryptPadded
  <2> QED
    BY <2>1, RsaKeyFacts DEF SealInv, Pad, Padding, RsaEncryptPadded, KeyFacts
<1>2. CASE Pad
  <2>1. Len(drawn) < ctx.k - 3 - Len(task)
    BY <1>2 DEF Pad, Padding
  <2>2. PICK b \in Byte : Drew(IF b = 0 THEN drawn ELSE Append(drawn, b))
    BY <1>2 DEF Pad
  <2>3. drawn' \in Seq(Byte) /\ Len(drawn') <= Len(drawn) + 1
    BY <1>1, <2>2 DEF Drew
  <2>4. 3 + Len(drawn') + Len(task) <= ctx.k
    BY <1>1, <2>1, <2>3
  <2> QED
    BY <1>1, <2>2, <2>3, <2>4 DEF SealInv, EncodingsFit, Drew
<1>3. CASE RsaEncryptPadded
  <2>1. 3 + Len(drawn) + Len(task) = ctx.k
    BY <1>1, <1>3 DEF RsaEncryptPadded, Padding
  <2>2. NumberOf(Pkcs1Block(task, drawn)) \in Nat /\ NumberOf(Pkcs1Block(task, drawn)) < ctx.n
    BY <1>1, <2>1, Pkcs1Fits
  <2> QED
    BY <1>1, <1>3, <2>2, SealPublicFits DEF RsaEncryptPadded
<1> QED
  BY <1>2, <1>3

LEMMA SignFits ==
  ASSUME SealInv, HashesBytes, NEW m \in Seq(Byte), RsaSign(m) PROVE SealInv'
<1>1. KeyFacts
  <2>1. PICK c \in RsaContexts : ctx = RsaKey(c)
    BY DEF SealInv, RsaSign
  <2> QED
    BY <2>1, RsaKeyFacts
<1>2. ASSUME NEW status \in {"too_long", "nomem", "rng"}, Refuse("sign", m, status) PROVE SealInv'
  BY <1>2, CallReturns DEF Refuse
<1>3. ASSUME NEW out, Seal("sign", m, out) PROVE SealInv'
  BY <1>3, CallReturns DEF Seal
<1>4. CASE SealBytes("sign", m, PrivateOp(NumberOf(SignedBlock(m))))
  <2>1. NumberOf(SignedBlock(m)) \in Nat
    BY <1>1, SignedIn
  <2> QED
    BY <1>1, <1>4, <2>1, OperationsFit, SealFits
<1>5. ASSUME ctx.scheme = "oaep_pss", NEW salt \in Blocks(HashLen),
             SealBytes("sign", m, PrivateOp(NumberOf(PssBlock(m, salt))))
      PROVE  SealInv'
  <2>1. NumberOf(PssBlock(m, salt)) \in Nat
    BY <1>1, <1>5, PssIn
  <2> QED
    BY <1>1, <1>5, <2>1, OperationsFit, SealFits
<1> QED
  BY <1>2, <1>3, <1>4, <1>5 DEF RsaSign

LEMMA GroupFits ==
  ASSUME SealInv, NEW m, GroupEncrypt(m) \/ GroupSign(m) PROVE SealInv'
<1>1. ASSUME NEW call, NEW status \in {"too_long", "nomem", "rng", "unsupported"}, Refuse(call, m, status)
      PROVE  SealInv'
  BY <1>1, CallReturns DEF Refuse
<1>2. ASSUME NEW call, NEW out, Seal(call, m, out) PROVE SealInv'
  BY <1>2, CallReturns DEF Seal
<1>3. CASE Begin("sign", m, <<>>)
  BY <1>3 DEF SealInv, EncodingsFit, Begin
<1>4. CASE GroupEncrypt(m)
  BY <1>1, <1>2, <1>4 DEF GroupEncrypt
<1>5. CASE GroupSign(m)
  BY <1>1, <1>3, <1>5 DEF GroupSign
<1> QED
  BY <1>4, <1>5

LEMMA OpenFits == ASSUME SealInv, NEW c, Decrypt(c) PROVE SealInv'
<1>1. ASSUME NEW m, NEW status, Open("decrypt", m, c, status) PROVE SealInv'
  BY <1>1, CallReturns DEF Open
<1>2. CASE RsaDecrypt(c)
  BY <1>1, <1>2 DEF RsaDecrypt
<1>3. CASE DlDecrypt(c)
  BY <1>1, <1>3 DEF DlDecrypt
<1>4. CASE EcDecrypt(c)
  BY <1>1, <1>4 DEF EcDecrypt
<1> QED
  BY <1>2, <1>3, <1>4 DEF Decrypt

LEMMA VerifyFits == ASSUME SealInv, NEW m, NEW s, Verify(m, s) PROVE SealInv'
<1>1. ASSUME NEW status, Open("verify", m, s, status) PROVE SealInv'
  BY <1>1, CallReturns DEF Open
<1> QED
  BY <1>1 DEF Verify, RsaVerify, GroupVerify

LEMMA DrawFits == ASSUME SealInv, Draw \/ SignAgain \/ SignDone \/ Choose \/ UNCHANGED vars PROVE SealInv'
<1>1. CASE SignDone
  <2>1. \E out : Seal("sign", task, out)
    BY <1>1 DEF SignDone
  <2> QED
    BY <2>1, CallReturns DEF Seal
<1>2. CASE Draw \/ SignAgain
  <2>1. ctx.family # "rsa"
    BY <1>2 DEF Draw, SignAgain, Signing, InGroup
  <2>2. ctx' = ctx /\ last' = last
    BY <1>2 DEF Draw, SignAgain, DrawNonce, Drew
  <2> QED
    BY <2>1, <2>2 DEF SealInv, EncodingsFit
<1>3. CASE Choose \/ UNCHANGED vars
  BY <1>3 DEF SealInv, EncodingsFit, Choose, UseCrt, vars
<1> QED
  BY <1>1, <1>2, <1>3

LEMMA SealStep ==
  ASSUME HashesBytes, MessagesAreBytes, SealInv, [Next]_vars PROVE SealInv'
<1>1. CASE SealAny
  <2>1. PICK m \in MessagesFor(ctx) : RsaEncrypt(m) \/ RsaSign(m) \/ GroupEncrypt(m) \/ GroupSign(m)
    BY <1>1 DEF SealAny
  <2>2. m \in Seq(Byte)
    BY DEF MessagesAreBytes
  <2> QED
    BY <2>1, <2>2, EncryptFits, SignFits, GroupFits
<1>2. CASE OpenMade
  BY <1>2, OpenFits, VerifyFits DEF OpenMade
<1>3. CASE OpenForeign
  BY <1>3, OpenFits, VerifyFits DEF OpenForeign
<1>4. CASE Pad \/ RsaEncryptPadded
  BY <1>4, PaddedFits
<1>5. CASE Draw \/ SignAgain \/ SignDone \/ Choose \/ UNCHANGED vars
  BY <1>5, DrawFits
<1> QED
  BY <1>1, <1>2, <1>3, <1>4, <1>5 DEF Next

(* With any keys, sizes of the paddings and hashes: no encryption and no    *)
(* signature is refused because of what was drawn for it.                   *)
THEOREM SealingFits ==
  ASSUME HashesBytes, MessagesAreBytes
  PROVE  Spec => []EncodingsFit
<1>1. SealInv /\ [Next]_vars => SealInv'
  BY SealStep
<1>2. SealInv => EncodingsFit
  BY DEF SealInv
<1> QED
  BY <1>1, <1>2, SealInit, PTL DEF Spec

-----------------------------------------------------------------------------
(* The two operations of RSA undo each other, whichever way the private one *)
(* is computed.                                                             *)
LEMMA ExponentsUndo ==
  ASSUME KeyFacts, NEW x \in Nat, x < ctx.n
  PROVE  Pow(x, ctx.e * ctx.d) % ctx.n = x
<1> DEFINE p == ctx.p
           q == ctx.q
           w == ctx.qInv
           a == ctx.e * ctx.d
<1>1. /\ p \in Nat /\ p > 2 /\ q \in Nat /\ q > 2 /\ Fermat(p) /\ Fermat(q)
      /\ w \in Nat /\ ((q % p) * w) % p = 1 /\ a % ((p - 1) * (q - 1)) = 1
      /\ ctx.n = p * q /\ ctx.e \in Nat /\ ctx.d \in Nat
  BY DEF KeyFacts
<1>2. a \in Nat
  BY <1>1
<1> HIDE DEF p, q, w, a
<1>3. x \in Nat /\ x < p * q
  BY <1>1
<1>4. Pow(x, a) % (p * q) = x
  BY ONLY <1>1, <1>2, <1>3, FermatTwice
<1> QED
  BY <1>1, <1>4 DEF a

LEMMA StandardUndoes ==
  ASSUME KeyFacts, NEW x \in Nat, x < ctx.n
  PROVE  /\ Power(PublicOp(x), ctx.d, ctx.n) = x
         /\ PublicOp(Power(x, ctx.d, ctx.n)) = x
<1>1. x \in Nat /\ ctx.n \in Nat /\ ctx.n > 0 /\ ctx.e \in Nat /\ ctx.d \in Nat
  BY KeyNumbers
<1>2. Pow(x, ctx.e * ctx.d) % ctx.n = x
  BY ExponentsUndo
<1>3. Power(Power(x, ctx.e, ctx.n), ctx.d, ctx.n) = Pow(x, ctx.e * ctx.d) % ctx.n
  BY ONLY <1>1, PowerPower
<1>4. Power(Power(x, ctx.d, ctx.n), ctx.e, ctx.n) = Pow(x, ctx.d * ctx.e) % ctx.n
  BY ONLY <1>1, PowerPower
<1>5. ctx.d * ctx.e = ctx.e * ctx.d
  BY <1>1
<1> QED
  BY <1>2, <1>3, <1>4, <1>5 DEF PublicOp


LEMMA PrivateExponent ==
  ASSUME KeyFacts
  PROVE  ctx.d % (ctx.p - 1) # 0 /\ ctx.d % (ctx.q - 1) # 0
<1> DEFINE m == ctx.p - 1
           n == ctx.q - 1
           e == ctx.e
           d == ctx.d
<1>1. /\ m \in Nat /\ m > 1 /\ n \in Nat /\ n > 1 /\ e \in Nat /\ d \in Nat
      /\ (e * d) % (m * n) = 1 /\ m > 0 /\ n > 0
  <2>1. /\ ctx.p \in Nat /\ ctx.p > 2 /\ ctx.q \in Nat /\ ctx.q > 2 /\ e \in Nat /\ d \in Nat
        /\ (e * d) % (m * n) = 1
    BY DEF KeyFacts
  <2> HIDE DEF e, d
  <2>2. m \in Nat /\ m > 1 /\ n \in Nat /\ n > 1 /\ m > 0 /\ n > 0
    BY ONLY <2>1
  <2> QED
    BY <2>1, <2>2
<1> HIDE DEF m, n, e, d
<1> DEFINE a == e * d
<1>2. a \in Nat /\ m * n = n * m
  BY <1>1
<1> HIDE DEF a
<1>3. \E j \in Nat : a = 1 + j * m
  <2>1. m \in Nat /\ m > 0 /\ n \in Nat /\ n > 0 /\ a \in Nat /\ a % (m * n) = 1
    BY <1>1, <1>2 DEF a
  <2> QED
    BY ONLY <2>1, WholeTurns
<1>4. \E j \in Nat : a = 1 + j * n
  <2>1. n \in Nat /\ n > 0 /\ m \in Nat /\ m > 0 /\ a \in Nat /\ a % (n * m) = 1
    BY <1>1, <1>2 DEF a
  <2> QED
    BY ONLY <2>1, WholeTurns
<1>5. d % m # 0
  BY <1>1, <1>3, NoMultiple DEF a
<1>6. d % n # 0
  BY <1>1, <1>4, NoMultiple DEF a
<1> QED
  BY <1>5, <1>6 DEF m, n, d

LEMMA CrtIsPower ==
  ASSUME KeyFacts, NEW x \in Nat
  PROVE  Crt(x) = Power(x, ctx.d, ctx.n) /\ Crt(x) \in Nat /\ Crt(x) < ctx.n
<1> DEFINE p == ctx.p
           q == ctx.q
           w == ctx.qInv
           d == ctx.d
           m1 == Power(x, ctx.dp, p)
           m2 == Power(x, ctx.dq, q)
           h == IF m1 < m2 THEN m1 - m2 + p ELSE m1 - m2
           v == (w * h) % p
           P == Pow(x, d)
           r == Power(x, d, ctx.n)
           c == m2 + v * q
<1>1. /\ p \in Nat /\ p > 1 /\ q \in Nat /\ q > 1 /\ p > 0 /\ q > 0 /\ Fermat(p) /\ Fermat(q)
      /\ w \in Nat /\ ((q % p) * w) % p = 1 /\ d \in Nat /\ x \in Nat
      /\ ctx.n = p * q /\ ctx.n \in Nat /\ ctx.n > 0
  <2>1. Fermat(p) /\ Fermat(q) /\ ((q % p) * w) % p = 1
    BY DEF KeyFacts
  <2>2. /\ p \in Nat /\ p > 1 /\ q \in Nat /\ q > 1 /\ w \in Nat /\ d \in Nat
        /\ ctx.n = p * q /\ ctx.n \in Nat /\ ctx.n > 0
    BY KeyNumbers
  <2> HIDE DEF p, q, w, d
  <2>3. p > 0 /\ q > 0
    BY ONLY <2>2
  <2> QED
    BY ONLY <2>1, <2>2, <2>3, x \in Nat
<1>2. Crt(x) = c
  BY DEF Crt
<1>3. ctx.dp = d % (p - 1) /\ ctx.dq = d % (q - 1) /\ d % (p - 1) # 0 /\ d % (q - 1) # 0
  BY PrivateExponent DEF KeyFacts
<1> HIDE DEF p, q, w, d
<1>4. m1 = P % p
  BY ONLY <1>1, <1>3, ReducedExponent
<1>5. m2 = P % q
  BY ONLY <1>1, <1>3, ReducedExponent
<1>6. P \in Nat
  BY ONLY <1>1, PowSteps
<1> HIDE DEF P
<1>7. r = P % ctx.n
  BY ONLY <1>1, PowerIs DEF r, P
<1>8. m1 \in 0 .. p - 1 /\ m2 \in 0 .. q - 1
  <2>1. P % p \in 0 .. p - 1 /\ P % q \in 0 .. q - 1
    BY ONLY <1>1, <1>6, Division
  <2> QED
    BY <1>4, <1>5, <2>1
<1> HIDE DEF m1, m2
<1>9. h = m1 - m2 \/ h = m1 - m2 + p
  OBVIOUS
<1> HIDE DEF h
<1>10. v = (w * h) % p
  OBVIOUS
<1> HIDE DEF v
<1>11. c \in Nat /\ c < p * q /\ c % p = m1 /\ c % q = m2
  <2>1. Halves(p, q, w, m1, m2, h, v)
    BY <1>1, <1>8, <1>9, <1>10 DEF Halves
  <2>2. /\ m2 + v * q \in Nat /\ m2 + v * q < p * q
        /\ (m2 + v * q) % p = m1 /\ (m2 + v * q) % q = m2
    BY ONLY <2>1, Garner
  <2> QED
    BY <2>2
<1> HIDE DEF c
<1>12. r \in Nat /\ r < p * q
  BY ONLY <1>1, <1>6, <1>7, Division
<1>13. r % p = P % p /\ r % q = P % q
  <2>1. P \in Nat /\ p \in Nat /\ q \in Nat /\ p > 0 /\ q > 0
    BY <1>1, <1>6
  <2>2. (P % (p * q)) % q = P % q /\ (P % (p * q)) % p = P % p
    BY ONLY <2>1, ModFactor
  <2> QED
    BY ONLY <2>2, <1>1, <1>7
<1> HIDE DEF r
<1>14. c = r
  <2>1. /\ p \in Nat /\ p > 1 /\ q \in Nat /\ q > 1 /\ w \in Nat /\ ((q % p) * w) % p = 1
        /\ c \in Nat /\ r \in Nat /\ c < p * q /\ r < p * q /\ c % p = r % p /\ c % q = r % q
    BY <1>1, <1>4, <1>5, <1>11, <1>12, <1>13
  <2> QED
    BY ONLY <2>1, ChineseRemainder
<1> QED
  BY <1>1, <1>2, <1>11, <1>14 DEF r, d

LEMMA PrivateIs ==
  ASSUME KeyFacts, NEW x \in Nat
  PROVE  PrivateOp(x) = Power(x, ctx.d, ctx.n)
  BY CrtIsPower DEF PrivateOp

LEMMA OperationsUndo ==
  ASSUME KeyFacts, NEW x \in Nat, x < ctx.n
  PROVE  /\ PublicOp(x) \in Nat /\ PublicOp(x) < ctx.n /\ PrivateOp(PublicOp(x)) = x
         /\ PrivateOp(x) \in Nat /\ PrivateOp(x) < ctx.n /\ PublicOp(PrivateOp(x)) = x
<1>1. x \in Nat /\ ctx.n \in Nat /\ ctx.n > 0 /\ ctx.e \in Nat /\ ctx.d \in Nat
  BY KeyNumbers
<1>2. PublicOp(x) \in 0 .. ctx.n - 1 /\ Power(x, ctx.d, ctx.n) \in 0 .. ctx.n - 1
  BY ONLY <1>1, PowerInRange DEF PublicOp
<1>3. PublicOp(x) \in Nat /\ Power(x, ctx.d, ctx.n) \in Nat
  BY <1>1, <1>2
<1> QED
  BY <1>1, <1>2, <1>3, PrivateIs, StandardUndoes

-----------------------------------------------------------------------------
(* Taking blocks apart.                                                     *)
LEMMA SameBytes ==
  ASSUME NEW s, NEW t, NEW n, Sized(s, n), Sized(t, n), \A i \in 1 .. n : s[i] = t[i]
  PROVE  s = t
<1>1. s \in Seq(Byte) /\ t \in Seq(Byte) /\ Len(s) = Len(t) /\ \A i \in 1 .. Len(s) : s[i] = t[i]
  BY DEF Sized
<1> QED
  BY ONLY <1>1, SeqEqual

LEMMA SubIs ==
  ASSUME NEW s, NEW n, Sized(s, n), NEW a \in Nat, NEW b \in Nat, a > 0, a <= b + 1, b <= n
  PROVE  /\ Sized(SubSeq(s, a, b), b - a + 1)
         /\ \A i \in 1 .. b - a + 1 : SubSeq(s, a, b)[i] = s[a + i - 1]
<1>1. n \in Nat /\ s \in Seq(Byte) /\ Len(s) = n /\ b - a + 1 \in Nat
  BY DEF Sized
<1>2. \A i \in a .. b : s[i] \in Byte
  BY <1>1
<1>3. a \in Int /\ b \in Int
  OBVIOUS
<1>4. /\ SubSeq(s, a, b) \in Seq(Byte)
      /\ Len(SubSeq(s, a, b)) = IF a <= b THEN b - a + 1 ELSE 0
      /\ \A i \in 1 .. b - a + 1 : SubSeq(s, a, b)[i] = s[a + i - 1]
  BY ONLY <1>2, <1>3, SubSeqProperties
<1>5. Len(SubSeq(s, a, b)) = b - a + 1
  BY <1>4
<1> QED
  BY ONLY <1>1, <1>4, <1>5 DEF Sized

Concatenates(r, s, m, t, n) ==
  /\ \A i \in 1 .. m : r[i] = s[i]
  /\ \A i \in 1 .. n : r[m + i] = t[i]

LEMMA JoinedAt ==
  ASSUME NEW s, NEW m, NEW t, NEW n, Sized(s, m), Sized(t, n)
  PROVE  Concatenates(s \o t, s, m, t, n)
<1>1. m \in Nat /\ n \in Nat /\ s \in Seq(Byte) /\ t \in Seq(Byte) /\ Len(s) = m /\ Len(t) = n
  BY DEF Sized
<1>2. \A i \in 1 .. Len(s) + Len(t) : (s \o t)[i] = IF i <= Len(s) THEN s[i] ELSE t[i - Len(s)]
  BY ONLY <1>1, ConcatProperties
<1>3. \A i \in 1 .. m : i \in 1 .. Len(s) + Len(t) /\ i <= Len(s)
  BY ONLY <1>1
<1>4. \A i \in 1 .. n : m + i \in 1 .. Len(s) + Len(t) /\ ~(m + i <= Len(s)) /\ (m + i) - Len(s) = i
  BY ONLY <1>1
<1> QED
  BY ONLY <1>2, <1>3, <1>4 DEF Concatenates

Splits(r, s, m, t, n) == SubSeq(r, 1, m) = s /\ SubSeq(r, m + 1, m + n) = t

LEMMA JoinParts ==
  ASSUME NEW s, NEW m, NEW t, NEW n, Sized(s, m), Sized(t, n)
  PROVE  Splits(s \o t, s, m, t, n)
<1>1. m \in Nat /\ n \in Nat /\ Sized(s, m) /\ Sized(t, n)
  BY DEF Sized
<1> DEFINE r == s \o t
<1>6. Sized(s \o t, m + n)
  BY ONLY <1>1, Joined
<1>7. (\A i \in 1 .. m : (s \o t)[i] = s[i]) /\ (\A i \in 1 .. n : (s \o t)[m + i] = t[i])
  <2>1. Concatenates(s \o t, s, m, t, n)
    BY ONLY <1>1, JoinedAt
  <2> QED
    BY <2>1 DEF Concatenates
<1>2. Sized(r, m + n) /\ \A i \in 1 .. m : r[i] = s[i]
  BY <1>6, <1>7
<1>3. \A j \in 1 .. n : r[m + j] = t[j]
  BY <1>7
<1> HIDE DEF r
<1>4. SubSeq(r, 1, m) = s
  <2>1. 1 \in Nat /\ m \in Nat /\ 1 > 0 /\ 1 <= m + 1 /\ m <= m + n /\ m - 1 + 1 = m
    BY ONLY <1>1
  <2>2. Sized(SubSeq(r, 1, m), m - 1 + 1) /\ \A i \in 1 .. m - 1 + 1 : SubSeq(r, 1, m)[i] = r[1 + i - 1]
    BY ONLY <1>2, <2>1, SubIs
  <2>3. Sized(SubSeq(r, 1, m), m) /\ \A i \in 1 .. m : SubSeq(r, 1, m)[i] = s[i]
    <3>1. \A i \in 1 .. m : 1 + i - 1 = i
      OBVIOUS
    <3> QED
      BY <1>2, <2>1, <2>2, <3>1
  <2> QED
    BY ONLY <1>1, <2>3, SameBytes
<1>5. SubSeq(r, m + 1, m + n) = t
  <2>1. m + 1 \in Nat /\ m + n \in Nat /\ m + 1 > 0 /\ m + 1 <= m + n + 1 /\ m + n <= m + n
        /\ (m + n) - (m + 1) + 1 = n
    BY ONLY <1>1
  <2> DEFINE a == m + 1
             b == m + n
  <2>2. a \in Nat /\ b \in Nat /\ a > 0 /\ a <= b + 1 /\ b <= b /\ b - a + 1 = n /\ Sized(r, b)
    BY <1>2, <2>1
  <2>6. \A i \in 1 .. n : a + i - 1 = m + i
    BY <1>1
  <2> HIDE DEF a, b
  <2>3. Sized(SubSeq(r, a, b), b - a + 1) /\ \A i \in 1 .. b - a + 1 : SubSeq(r, a, b)[i] = r[a + i - 1]
    BY ONLY <2>2, SubIs
  <2>4. Sized(SubSeq(r, a, b), n) /\ \A i \in 1 .. n : SubSeq(r, a, b)[i] = t[i]
    BY <1>3, <2>2, <2>3, <2>6
  <2>5. SubSeq(r, a, b) = t
    BY ONLY <1>1, <2>4, SameBytes
  <2> QED
    BY <2>5 DEF a, b
<1> QED
  BY <1>4, <1>5 DEF r, Splits

LEMMA Cut ==
  ASSUME NEW s, NEW n, Sized(s, n), NEW m \in Nat, m <= n
  PROVE  s = SubSeq(s, 1, m) \o SubSeq(s, m + 1, n)
<1>1. n \in Nat /\ s \in Seq(Byte) /\ Len(s) = n
  BY DEF Sized
<1>2. 1 \in 1 .. Len(s) + 1 /\ m \in 1 - 1 .. Len(s) /\ n \in m .. Len(s)
  BY ONLY <1>1, m \in Nat, m <= n
<1>3. SubSeq(s, 1, m) \o SubSeq(s, m + 1, n) = SubSeq(s, 1, n)
  BY ONLY <1>1, <1>2, ConcatAdjacentSubSeq
<1>4. SubSeq(s, 1, Len(s)) = s
  BY ONLY <1>1, SubSeqFull
<1> QED
  BY <1>1, <1>3, <1>4

LEMMA BytesBack ==
  ASSUME NEW s, NEW n, Sized(s, n)
  PROVE  BytesOf(n, NumberOf(s)) = s /\ NumberOf(s) \in Nat /\ NumberOf(s) < Pow(ByteMod, n)
<1>1. n \in Nat /\ s \in Seq(Byte) /\ Len(s) = n
  BY DEF Sized
<1> DEFINE x == NumberOf(s)
           t == BytesOf(n, x)
<1>2. AreDigits(s, ByteMod, n) /\ n \in 0 .. n
  BY <1>1, BytesAreDigits
<1>3. ByteMod \in Nat /\ ByteMod > 0
  BY ByteModIs
<1>4. x = Digits(ByteMod, s, n)
  BY <1>1 DEF NumberOf
<1>5. x \in Nat /\ x < Pow(ByteMod, n)
  BY ONLY <1>1, <1>2, <1>3, <1>4, DigitsBelow
<1> HIDE DEF x
<1>6. t \in Seq(Byte) /\ Len(t) = n /\ NumberOf(t) = x
  BY ONLY <1>1, <1>5, BytesAre
<1> HIDE DEF t
<1>7. AreDigits(t, ByteMod, n)
  BY <1>6, BytesAreDigits
<1>8. Digits(ByteMod, s, n) = Digits(ByteMod, t, n)
  BY <1>4, <1>6 DEF NumberOf
<1>9. \A i \in 1 .. n : s[i] = t[i]
  BY ONLY <1>1, <1>2, <1>3, <1>7, <1>8, DigitsUnique
<1>10. Sized(t, n) /\ Sized(s, n) /\ \A i \in 1 .. n : t[i] = s[i]
  BY <1>1, <1>6, <1>9 DEF Sized
<1>11. t = s
  BY ONLY <1>10, SameBytes
<1> QED
  BY <1>5, <1>11 DEF t, x

LEMMA XorTwice ==
  ASSUME NEW s, NEW n, NEW t, Sized(s, n), Sized(t, n)
  PROVE  Sized(XorBytes(s, t), n) /\ XorBytes(XorBytes(s, t), t) = s
<1> DEFINE r == XorBytes(s, t)
           u == XorBytes(r, t)
<1>1. n \in Nat /\ s \in Seq(Byte) /\ t \in Seq(Byte) /\ Len(s) = n /\ Len(t) = n
  BY DEF Sized
<1>2. Sized(r, n)
  BY XorIn
<1>3. r = [i \in 1 .. n |-> XorByte(s[i], t[i])]
  BY <1>1 DEF XorBytes
<1> HIDE DEF r
<1>4. DOMAIN r = 1 .. n
  BY <1>3
<1>5. u = [i \in 1 .. n |-> XorByte(r[i], t[i])]
  BY <1>4 DEF XorBytes
<1>6. Sized(u, n)
  BY <1>2, XorIn
<1> HIDE DEF u
<1>7. ASSUME NEW i \in 1 .. n PROVE u[i] = s[i]
  <2>1. s[i] \in Byte /\ t[i] \in Byte
    BY <1>1
  <2>2. XorByte(XorByte(s[i], t[i]), t[i]) = s[i]
    BY <2>1, ByteAssumption
  <2> QED
    BY <1>3, <1>5, <2>2
<1>8. u = s
  BY <1>6, <1>7, SameBytes
<1> QED
  BY <1>2, <1>8 DEF r, u

-----------------------------------------------------------------------------
(* The first zero, or the first other byte.                                 *)
FirstAt(s, i, zero, j) ==
  /\ j \in i .. Len(s) + 1
  /\ j = Len(s) + 1 \/ ((s[j] = 0) <=> zero)
  /\ \A l \in i .. j - 1 : (s[l] = 0) # zero

LEMMA FirstIs ==
  ASSUME NEW s, NEW i \in Nat, NEW zero \in BOOLEAN, Len(s) \in Nat, i <= Len(s) + 1
  PROVE  /\ FirstAt(s, i, zero, First(s, i, zero))
         /\ \A j : FirstAt(s, i, zero, j) => First(s, i, zero) = j
<1> DEFINE n == Len(s) + 1
           P(j) == j = n \/ ((s[j] = 0) <=> zero)
           T == {j \in Nat : j \in i .. n /\ P(j)}
<1>1. n \in T /\ n \in Nat
  OBVIOUS
<1>2. PICK j \in T : \A l \in T : j <= l
  <2>1. T \in SUBSET Nat /\ T # {}
    BY <1>1
  <2> HIDE DEF T
  <2> QED
    BY ONLY <2>1, LeastNatural
<1>3. \A l \in i .. j - 1 : ~P(l)
  BY <1>1, <1>2
<1>4. FirstAt(s, i, zero, j)
  BY <1>1, <1>2, <1>3 DEF FirstAt
<1>6. FirstAt(s, i, zero, First(s, i, zero))
  BY <1>4 DEF First, FirstAt
<1>7. ASSUME NEW a, NEW b, FirstAt(s, i, zero, a), FirstAt(s, i, zero, b) PROVE a = b
  <2>1. a \in i .. n /\ b \in i .. n
    BY <1>7 DEF FirstAt
  <2>2. ~(a < b)
    BY <1>1, <1>7, <2>1 DEF FirstAt
  <2>3. ~(b < a)
    BY <1>1, <1>7, <2>1 DEF FirstAt
  <2> QED
    BY <1>1, <2>1, <2>2, <2>3
<1> QED
  BY <1>6, <1>7

LEMMA FirstZero ==
  ASSUME NEW s, NEW n, Sized(s, n), NEW i \in Nat, NEW j \in i .. n, s[j] = 0,
         \A l \in i .. j - 1 : s[l] # 0
  PROVE  First(s, i, TRUE) = j
<1>1. n \in Nat /\ Len(s) = n
  BY DEF Sized
<1>2. ASSUME NEW l \in i .. j - 1 PROVE (s[l] = 0) # TRUE
  <2>1. s[l] # 0
    OBVIOUS
  <2> QED
    BY ONLY <2>1
<1>3. (s[j] = 0) <=> TRUE
  OBVIOUS
<1>4. j \in i .. Len(s) + 1 /\ Len(s) \in Nat /\ i <= Len(s) + 1
  BY <1>1
<1>5. FirstAt(s, i, TRUE, j)
  BY ONLY <1>2, <1>3, <1>4 DEF FirstAt
<1> QED
  BY ONLY i \in Nat, <1>4, <1>5, FirstIs

LEMMA FirstOther ==
  ASSUME NEW s, NEW n, Sized(s, n), NEW i \in Nat, NEW j \in i .. n, s[j] # 0,
         \A l \in i .. j - 1 : s[l] = 0
  PROVE  First(s, i, FALSE) = j
<1>1. n \in Nat /\ Len(s) = n
  BY DEF Sized
<1>2. ASSUME NEW l \in i .. j - 1 PROVE (s[l] = 0) # FALSE
  <2>1. s[l] = 0
    OBVIOUS
  <2> QED
    BY ONLY <2>1
<1>3. (s[j] = 0) <=> FALSE
  OBVIOUS
<1>4. j \in i .. Len(s) + 1 /\ Len(s) \in Nat /\ i <= Len(s) + 1
  BY <1>1
<1>5. FirstAt(s, i, FALSE, j)
  BY ONLY <1>2, <1>3, <1>4 DEF FirstAt
<1> QED
  BY ONLY i \in Nat, <1>4, <1>5, FirstIs

-----------------------------------------------------------------------------
(* PKCS#1: a block opens to its message, and a block that opens is one that *)
(* the encoder makes.                                                       *)
LEMMA Pair == \A a, b \in Byte : Sized(<<a, b>>, 2) /\ <<a, b>>[1] = a /\ <<a, b>>[2] = b
  BY DEF Sized

NonZero(s, n) == \A i \in 1 .. n : s[i] # 0

LEMMA Opening ==
  ASSUME NEW v, NEW m
  PROVE  [valid |-> v, m |-> m].valid = v /\ [valid |-> v, m |-> m].m = m
  OBVIOUS

LEMMA Pkcs1Layout ==
  ASSUME NEW ps, NEW a, NEW m, NEW b, Sized(ps, a), Sized(m, b)
  PROVE  LET em == Pkcs1Block(m, ps)
         IN  /\ Sized(em, 3 + a + b) /\ em[1] = 0 /\ em[2] = 2 /\ em[3 + a] = 0
             /\ \A i \in 1 .. a : em[2 + i] = ps[i]
             /\ SubSeq(em, 3 + a + 1, 3 + a + b) = m
<1> DEFINE head == <<0, 2>>
           zero == <<0>>
           u == head \o ps
           v == u \o zero
           em == v \o m
<1>1. a \in Nat /\ b \in Nat
  BY DEF Sized
<1>2. Sized(head, 2) /\ head[1] = 0 /\ head[2] = 2 /\ Sized(zero, 1) /\ zero[1] = 0
  BY Sizes, SmallBytes, Pair, Singles
<1>3. em = Pkcs1Block(m, ps)
  BY DEF Pkcs1Block
<1> HIDE DEF head, zero
<1>4. Sized(u, 2 + a) /\ Concatenates(u, head, 2, ps, a)
  BY ONLY <1>2, Sized(ps, a), Joined, JoinedAt
<1> HIDE DEF u
<1>5. Sized(v, 2 + a + 1) /\ Concatenates(v, u, 2 + a, zero, 1)
  BY ONLY <1>2, <1>4, Joined, JoinedAt
<1> HIDE DEF v
<1>6. Sized(em, 2 + a + 1 + b) /\ Concatenates(em, v, 2 + a + 1, m, b) /\ SubSeq(em, 2 + a + 1 + 1, 2 + a + 1 + b) = m
  <2> DEFINE w == 2 + a + 1
  <2>0. Sized(v, w) /\ Sized(m, b)
    BY <1>5
  <2>4. em = v \o m
    OBVIOUS
  <2> HIDE DEF w, em
  <2>1. Sized(em, w + b)
    BY ONLY <2>0, <2>4, Joined
  <2>2. Concatenates(em, v, w, m, b)
    BY ONLY <2>0, <2>4, JoinedAt
  <2>3. Splits(v \o m, v, w, m, b)
    BY ONLY <2>0, JoinParts
  <2> QED
    BY <2>1, <2>2, <2>3, <2>4 DEF w, Splits
<1> HIDE DEF em
<1>7. 2 + a + 1 = 3 + a /\ 2 + a + 1 + 1 = 3 + a + 1 /\ 2 + a + 1 + b = 3 + a + b
  BY <1>1
<1>8. \A i \in 1 .. 3 + a : em[i] = v[i]
  BY <1>6, <1>7 DEF Concatenates
<1>9. (\A i \in 1 .. 2 + a : v[i] = u[i]) /\ v[3 + a] = 0
  <2>1. 1 \in 1 .. 1
    OBVIOUS
  <2> QED
    BY <1>2, <1>5, <1>7, <2>1 DEF Concatenates
<1>10. (\A i \in 1 .. 2 : u[i] = head[i]) /\ (\A i \in 1 .. a : u[2 + i] = ps[i])
  BY <1>4 DEF Concatenates
<1>11. em[1] = 0 /\ em[2] = 2 /\ em[3 + a] = 0
  <2>1. 1 \in 1 .. 3 + a /\ 2 \in 1 .. 3 + a /\ 3 + a \in 1 .. 3 + a /\ 1 \in 1 .. 2 + a /\ 2 \in 1 .. 2 + a
        /\ 1 \in 1 .. 2 /\ 2 \in 1 .. 2
    BY <1>1
  <2> QED
    BY ONLY <1>2, <1>8, <1>9, <1>10, <2>1
<1>12. \A i \in 1 .. a : em[2 + i] = ps[i]
  <2>1. \A i \in 1 .. a : 2 + i \in 1 .. 2 + a /\ 2 + i \in 1 .. 3 + a
    BY <1>1
  <2> QED
    BY ONLY <1>8, <1>9, <1>10, <2>1
<1> QED
  BY <1>3, <1>6, <1>7, <1>11, <1>12

LEMMA Pkcs1Opens ==
  ASSUME NEW ps, NEW a, NEW m, NEW b, Sized(ps, a), Sized(m, b), NonZero(ps, a),
         3 + a + b = ctx.k, PadMin <= a
  PROVE  LET em == Pkcs1Block(m, ps)
         IN  Sized(em, ctx.k) /\ Pkcs1Open(em).valid /\ Pkcs1Open(em).m = m
<1> DEFINE em == Pkcs1Block(m, ps)
           i == First(em, 3, TRUE)
<1>1. a \in Nat /\ b \in Nat /\ PadMin \in Nat
  BY Sizes DEF Sized
<1>2. /\ Sized(em, 3 + a + b) /\ em[1] = 0 /\ em[2] = 2 /\ em[3 + a] = 0
      /\ \A j \in 1 .. a : em[2 + j] = ps[j]
      /\ SubSeq(em, 3 + a + 1, 3 + a + b) = m
  BY Pkcs1Layout
<1>3. Pkcs1Open(em) = [valid |-> em[1] = 0 /\ em[2] = 2 /\ i <= ctx.k /\ i >= 3 + PadMin,
                       m |-> SubSeq(em, i + 1, ctx.k)]
  BY DEF Pkcs1Open
<1> HIDE DEF em
<1>4. Len(em) = 3 + a + b
  BY <1>2 DEF Sized
<1>5. \A l \in 3 .. 3 + a - 1 : em[l] # 0
  <2> TAKE l \in 3 .. 3 + a - 1
  <2>1. l - 2 \in 1 .. a /\ 2 + (l - 2) = l
    BY <1>1
  <2> QED
    BY <1>2, <2>1 DEF NonZero
<1>6. i = 3 + a
  <2> DEFINE n == 3 + a + b
             j == 3 + a
  <2>1. 3 \in Nat /\ j \in 3 .. n /\ Sized(em, n) /\ em[j] = 0 /\ \A l \in 3 .. j - 1 : em[l] # 0
    BY <1>1, <1>2, <1>5
  <2> HIDE DEF n, j
  <2>2. First(em, 3, TRUE) = j
    BY ONLY <2>1, FirstZero
  <2> QED
    BY <2>2 DEF j
<1> HIDE DEF i
<1>7. i <= ctx.k /\ i >= 3 + PadMin
  BY <1>1, <1>6
<1>8. Sized(em, ctx.k) /\ SubSeq(em, i + 1, ctx.k) = m
  BY <1>2, <1>6
<1>9. Pkcs1Open(em).valid /\ Pkcs1Open(em).m = m
  <2> DEFINE ok == em[1] = 0 /\ em[2] = 2 /\ i <= ctx.k /\ i >= 3 + PadMin
  <2>1. Pkcs1Open(em) = [valid |-> ok, m |-> m]
    BY ONLY <1>3, <1>8
  <2>2. ok
    BY <1>2, <1>7
  <2> HIDE DEF ok
  <2>3. Pkcs1Open(em).valid = ok /\ Pkcs1Open(em).m = m
    BY ONLY <2>1, Opening
  <2> QED
    BY ONLY <2>2, <2>3
<1>10. Pkcs1Block(m, ps) = em
  BY DEF em
<1> HIDE DEF em
<1> QED
  BY ONLY <1>8, <1>9, <1>10

LEMMA Pkcs1Encoded ==
  ASSUME NEW em, Sized(em, ctx.k), ctx.k >= 3, Pkcs1Open(em).valid
  PROVE  LET m == Pkcs1Open(em).m
         IN  \E ps, a, b : /\ Sized(ps, a) /\ Sized(m, b) /\ NonZero(ps, a)
                           /\ 3 + a + b = ctx.k /\ PadMin <= a /\ em = Pkcs1Block(m, ps)
<1> DEFINE k == ctx.k
           i == First(em, 3, TRUE)
           m == SubSeq(em, i + 1, k)
           ps == SubSeq(em, 3, i - 1)
           a == i - 3
           b == k - i
           block == Pkcs1Block(m, ps)
<1>1. Pkcs1Open(em) = [valid |-> em[1] = 0 /\ em[2] = 2 /\ i <= k /\ i >= 3 + PadMin,
                       m |-> SubSeq(em, i + 1, k)]
  BY DEF Pkcs1Open
<1>2. em[1] = 0 /\ em[2] = 2 /\ i <= k /\ i >= 3 + PadMin /\ Pkcs1Open(em).m = m
  <2> DEFINE ok == em[1] = 0 /\ em[2] = 2 /\ i <= k /\ i >= 3 + PadMin
  <2>1. Pkcs1Open(em).valid = ok /\ Pkcs1Open(em).m = m
    <3> HIDE DEF ok, m
    <3>1. Pkcs1Open(em) = [valid |-> ok, m |-> m]
      BY <1>1 DEF ok, m
    <3> QED
      BY ONLY <3>1, Opening
  <2> HIDE DEF ok, m
  <2>2. ok
    BY ONLY <2>1, Pkcs1Open(em).valid
  <2> QED
    BY <2>1, <2>2 DEF ok
<1>3. k \in Nat /\ k >= 3 /\ Sized(em, k) /\ Len(em) = k /\ PadMin \in Nat
  BY Sizes DEF Sized
<1> HIDE DEF k
<1>4. FirstAt(em, 3, TRUE, i)
  <2>1. 3 \in Nat /\ TRUE \in BOOLEAN /\ Len(em) \in Nat /\ 3 <= Len(em) + 1
    BY <1>3
  <2> QED
    BY <2>1, FirstIs
<1> HIDE DEF i
<1>5. i \in 3 .. k + 1 /\ em[i] = 0 /\ \A l \in 3 .. i - 1 : em[l] # 0
  <2>1. i \in 3 .. k + 1 /\ (i = k + 1 \/ em[i] = 0) /\ \A l \in 3 .. i - 1 : em[l] # 0
    BY <1>3, <1>4 DEF FirstAt
  <2> QED
    BY <1>2, <1>3, <2>1
<1>6. a \in Nat /\ b \in Nat /\ 3 + a + b = k /\ PadMin <= a
  BY <1>2, <1>3, <1>5
<1>7. Sized(m, b) /\ \A j \in 1 .. b : m[j] = em[i + j]
  <2> DEFINE c == i + 1
  <2>1. c \in Nat /\ k \in Nat /\ c > 0 /\ c <= k + 1 /\ k <= k /\ k - c + 1 = b
        /\ \A j \in 1 .. b : c + j - 1 = i + j
    BY <1>2, <1>3, <1>5
  <2> HIDE DEF c
  <2>2. Sized(SubSeq(em, c, k), k - c + 1) /\ \A j \in 1 .. k - c + 1 : SubSeq(em, c, k)[j] = em[c + j - 1]
    BY ONLY <1>3, <2>1, SubIs
  <2> QED
    BY <2>1, <2>2 DEF c
<1>8. Sized(ps, a) /\ \A j \in 1 .. a : ps[j] = em[2 + j]
  <2> DEFINE c == i - 1
  <2>1. 3 \in Nat /\ c \in Nat /\ 3 > 0 /\ 3 <= c + 1 /\ c <= k /\ c - 3 + 1 = a
        /\ \A j \in 1 .. a : 3 + j - 1 = 2 + j
    BY <1>2, <1>3, <1>5
  <2> HIDE DEF c
  <2>2. Sized(SubSeq(em, 3, c), c - 3 + 1) /\ \A j \in 1 .. c - 3 + 1 : SubSeq(em, 3, c)[j] = em[3 + j - 1]
    BY ONLY <1>3, <2>1, SubIs
  <2> QED
    BY <2>1, <2>2 DEF c
<1> HIDE DEF m, ps
<1>9. NonZero(ps, a)
  <2>1. \A j \in 1 .. a : 2 + j \in 3 .. i - 1
    BY <1>5
  <2> QED
    BY <1>5, <1>8, <2>1 DEF NonZero
<1>10. /\ Sized(block, 3 + a + b) /\ block[1] = 0 /\ block[2] = 2 /\ block[3 + a] = 0
       /\ \A j \in 1 .. a : block[2 + j] = ps[j]
       /\ SubSeq(block, 3 + a + 1, 3 + a + b) = m
  BY <1>7, <1>8, Pkcs1Layout
<1> HIDE DEF block
<1>11. \A j \in 1 .. b : block[i + j] = m[j]
  <2> DEFINE c == i + 1
  <2>1. c \in Nat /\ k \in Nat /\ c > 0 /\ c <= k + 1 /\ k <= k /\ k - c + 1 = b
        /\ 3 + a + 1 = c /\ 3 + a + b = k /\ \A j \in 1 .. b : c + j - 1 = i + j
    BY <1>2, <1>3, <1>5
  <2>2. Sized(block, k) /\ SubSeq(block, c, k) = m
    BY <1>10, <2>1
  <2> HIDE DEF c
  <2>3. \A j \in 1 .. k - c + 1 : SubSeq(block, c, k)[j] = block[c + j - 1]
    <3>1. Sized(block, k) /\ c \in Nat /\ k \in Nat /\ c > 0 /\ c <= k + 1 /\ k <= k
      BY ONLY <2>1, <2>2
    <3> HIDE DEF k
    <3> QED
      BY ONLY <3>1, SubIs
  <2> QED
    BY ONLY <2>1, <2>2, <2>3
<1>12. \A j \in 1 .. k : em[j] = block[j]
  <2> TAKE j \in 1 .. k
  <2>1. CASE j = 1 \/ j = 2 \/ j = i
    <3>1. i = 3 + a
      BY <1>5
    <3> QED
      BY <1>2, <1>5, <1>10, <2>1, <3>1
  <2>2. CASE j > 2 /\ j < i
    <3>1. j - 2 \in 1 .. a /\ 2 + (j - 2) = j
      BY <1>5, <2>2
    <3> QED
      BY <1>8, <1>10, <3>1
  <2>3. CASE j > i
    <3>1. j - i \in 1 .. b /\ i + (j - i) = j
      BY <1>3, <1>5, <2>3
    <3> QED
      BY <1>7, <1>11, <3>1
  <2> QED
    BY <1>3, <1>5, <2>1, <2>2, <2>3
<1>13. em = block
  <2>1. Sized(block, k)
    BY <1>6, <1>10
  <2> QED
    BY <1>3, <1>12, <2>1, SameBytes
<1>14. Sized(ps, a) /\ Sized(m, b) /\ NonZero(ps, a) /\ 3 + a + b = ctx.k /\ PadMin <= a
       /\ em = Pkcs1Block(m, ps) /\ Pkcs1Open(em).m = m
  BY <1>2, <1>6, <1>7, <1>8, <1>9, <1>13 DEF k, block
<1> HIDE DEF a, b
<1> QED
  BY ONLY <1>14

-----------------------------------------------------------------------------
(* Three parts of a block.                                                  *)
Triple(r, u, a, v, b, w, c) ==
  /\ Sized(r, a + b + c)
  /\ SubSeq(r, 1, a) = u /\ SubSeq(r, a + 1, a + b) = v /\ SubSeq(r, a + b + 1, a + b + c) = w
  /\ \A i \in 1 .. a : r[i] = u[i]
  /\ \A i \in 1 .. b : r[a + i] = v[i]
  /\ \A i \in 1 .. c : r[a + b + i] = w[i]

LEMMA Triples ==
  ASSUME NEW u, NEW a, NEW v, NEW b, NEW w, NEW c, Sized(u, a), Sized(v, b), Sized(w, c)
  PROVE  Triple(u \o v \o w, u, a, v, b, w, c)
<1> DEFINE s == u \o v
           r == s \o w
           n == a + b
<1>1. a \in Nat /\ b \in Nat /\ c \in Nat
  BY DEF Sized
<1>2. Sized(s, n)
  BY ONLY Sized(u, a), Sized(v, b), Joined
<1>3. Concatenates(s, u, a, v, b)
  BY ONLY Sized(u, a), Sized(v, b), JoinedAt
<1>4. Splits(s, u, a, v, b)
  BY ONLY Sized(u, a), Sized(v, b), JoinParts
<1>5. n \in Nat /\ n = a + b
  BY <1>1
<1> HIDE DEF s, n
<1>6. Sized(r, n + c)
  BY ONLY <1>2, Sized(w, c), Joined
<1>7. Concatenates(r, s, n, w, c)
  BY ONLY <1>2, Sized(w, c), JoinedAt
<1>8. Splits(r, s, n, w, c)
  BY ONLY <1>2, Sized(w, c), JoinParts
<1> HIDE DEF r
<1>9. \A i \in 1 .. n : r[i] = s[i]
  BY <1>7 DEF Concatenates
<1>10. (\A i \in 1 .. a : s[i] = u[i]) /\ (\A i \in 1 .. b : s[a + i] = v[i])
  BY <1>3 DEF Concatenates
<1>11. (\A i \in 1 .. a : r[i] = u[i]) /\ (\A i \in 1 .. b : r[a + i] = v[i])
  <2>1. (\A i \in 1 .. a : i \in 1 .. n) /\ (\A i \in 1 .. b : a + i \in 1 .. n)
    BY <1>1, <1>5
  <2> QED
    BY ONLY <1>9, <1>10, <2>1
<1>12. \A i \in 1 .. c : r[n + i] = w[i]
  BY <1>7 DEF Concatenates
<1>13. SubSeq(r, 1, a) = u
  <2> DEFINE x == SubSeq(r, 1, a)
  <2>1. 1 \in Nat /\ 1 > 0 /\ 1 <= a + 1 /\ a <= n + c /\ a - 1 + 1 = a
    BY <1>1, <1>5
  <2>2. Sized(x, a - 1 + 1) /\ \A i \in 1 .. a - 1 + 1 : x[i] = r[1 + i - 1]
    BY ONLY <1>1, <1>6, <2>1, SubIs
  <2> HIDE DEF x
  <2>3. Sized(x, a) /\ \A i \in 1 .. a : x[i] = u[i]
    <3>1. \A i \in 1 .. a : 1 + i - 1 = i
      OBVIOUS
    <3> QED
      BY <1>11, <2>1, <2>2, <3>1
  <2>4. x = u
    BY ONLY <2>3, Sized(u, a), SameBytes
  <2> QED
    BY <2>4 DEF x
<1>14. SubSeq(r, a + 1, n) = v
  <2> DEFINE l == a + 1
             x == SubSeq(r, l, n)
  <2>1. l \in Nat /\ n \in Nat /\ l > 0 /\ l <= n + 1 /\ n <= n + c /\ n - l + 1 = b
        /\ \A i \in 1 .. b : l + i - 1 = a + i
    BY <1>1, <1>5
  <2> HIDE DEF l
  <2>2. Sized(x, n - l + 1) /\ \A i \in 1 .. n - l + 1 : x[i] = r[l + i - 1]
    BY ONLY <1>6, <2>1, SubIs
  <2> HIDE DEF x
  <2>3. Sized(x, b) /\ \A i \in 1 .. b : x[i] = v[i]
    BY <1>11, <2>1, <2>2
  <2>4. x = v
    BY ONLY <2>3, Sized(v, b), SameBytes
  <2> QED
    BY <2>4 DEF x, l
<1>15. SubSeq(r, n + 1, n + c) = w
  BY <1>8 DEF Splits
<1>16. Triple(r, u, a, v, b, w, c)
  BY <1>5, <1>6, <1>11, <1>12, <1>13, <1>14, <1>15 DEF Triple
<1> QED
  BY <1>16 DEF r, s

Split(s, u, a, v, b, w, c) ==
  /\ a \in Nat /\ b \in Nat /\ c \in Nat /\ Sized(s, a + b + c)
  /\ SubSeq(s, 1, a) = u /\ SubSeq(s, a + 1, a + b) = v /\ SubSeq(s, a + b + 1, a + b + c) = w

LEMMA TripleOnly ==
  ASSUME NEW s, NEW u, NEW a, NEW v, NEW b, NEW w, NEW c, Split(s, u, a, v, b, w, c)
  PROVE  s = u \o v \o w
<1>0. /\ a \in Nat /\ b \in Nat /\ c \in Nat /\ Sized(s, a + b + c)
      /\ SubSeq(s, 1, a) = u /\ SubSeq(s, a + 1, a + b) = v /\ SubSeq(s, a + b + 1, a + b + c) = w
  BY DEF Split
<1> DEFINE n == a + b
           k == a + b + c
           x == SubSeq(s, 1, n)
<1>1. n \in Nat /\ n <= k /\ k \in Nat /\ Sized(s, k) /\ a <= n
  BY <1>0
<1>2. s = x \o w
  <2>1. s = SubSeq(s, 1, n) \o SubSeq(s, n + 1, k)
    <3> HIDE DEF n, k
    <3> QED
      BY ONLY <1>1, Cut
  <2> QED
    BY <1>0, <2>1
<1>3. s \in Seq(Byte) /\ Len(s) = k
  BY <1>0 DEF Sized
<1>4. 1 \in 1 .. Len(s) + 1 /\ a \in 1 - 1 .. Len(s) /\ n \in a .. Len(s)
  BY <1>0, <1>1, <1>3
<1> HIDE DEF n, k
<1>5. SubSeq(s, 1, a) \o SubSeq(s, a + 1, n) = SubSeq(s, 1, n)
  BY ONLY <1>3, <1>4, ConcatAdjacentSubSeq
<1>6. x = u \o v
  BY <1>0, <1>5 DEF n
<1> QED
  BY <1>2, <1>6

LEMMA SingleOf ==
  ASSUME NEW s, NEW n, Sized(s, n), NEW j \in 1 .. n
  PROVE  SubSeq(s, j, j) = <<s[j]>>
<1> DEFINE x == SubSeq(s, j, j)
           y == <<s[j]>>
<1>1. n \in Nat /\ j \in Nat /\ j > 0 /\ j <= j + 1 /\ j <= n /\ j - j + 1 = 1 /\ j + 1 - 1 = j /\ 1 \in 1 .. 1
  BY DEF Sized
<1>2. Sized(x, j - j + 1) /\ \A i \in 1 .. j - j + 1 : x[i] = s[j + i - 1]
  BY ONLY <1>1, Sized(s, n), SubIs
<1> HIDE DEF x
<1>3. Sized(x, 1) /\ x[1] = s[j]
  BY <1>1, <1>2
<1>4. s[j] \in Byte
  BY <1>1 DEF Sized
<1>5. Sized(y, 1) /\ y[1] = s[j]
  BY <1>4, Singles
<1> HIDE DEF y
<1>6. \A i \in 1 .. 1 : x[i] = y[i]
  BY <1>3, <1>5
<1>7. x = y
  BY ONLY <1>3, <1>5, <1>6, SameBytes
<1> QED
  BY <1>7 DEF x, y

LEMMA BlocksAre == \A s, n : n \in Nat => (s \in Blocks(n) <=> Sized(s, n))
<1> TAKE s, n
<1>1. ASSUME n \in Nat, s \in Blocks(n) PROVE Sized(s, n)
  BY <1>1 DEF Blocks, Sized
<1>2. ASSUME n \in Nat, Sized(s, n) PROVE s \in Blocks(n)
  BY <1>2 DEF Blocks, Sized
<1> QED
  BY <1>1, <1>2

-----------------------------------------------------------------------------
(* OAEP: the block of a message, below its mask.                            *)
OaepDb(m) == Hash(<<>>, HashLen) \o Zeros(OaepRoom - Len(m)) \o <<1>> \o m
OaepDbLen == ctx.k - HashLen - 1

OaepShape(db, r, m, b) ==
  /\ Sized(db, OaepDbLen)
  /\ SubSeq(db, 1, HashLen) = Hash(<<>>, HashLen)
  /\ SubSeq(db, HashLen + r + 2, OaepDbLen) = m
  /\ \A i \in 1 .. HashLen : db[i] = Hash(<<>>, HashLen)[i]
  /\ \A i \in 1 .. r : db[HashLen + i] = 0
  /\ db[HashLen + r + 1] = 1
  /\ \A i \in 1 .. b : db[HashLen + r + 1 + i] = m[i]

LEMMA OaepSizes ==
  ASSUME KeyFacts, NEW m, NEW b, Sized(m, b), b <= OaepRoom
  PROVE  /\ HashLen \in Nat /\ HashLen > 0 /\ b \in Nat /\ Len(m) = b /\ OaepRoom - b \in Nat
         /\ ctx.k \in Nat /\ OaepDbLen \in Nat /\ HashLen + (OaepRoom - b) + 1 + b = OaepDbLen
         /\ 1 + HashLen + OaepDbLen = ctx.k
<1>1. HashLen \in Nat /\ HashLen > 0 /\ ctx.k \in Nat /\ b \in Nat /\ Len(m) = b
  BY Sizes, KeyNumbers DEF Sized
<1> DEFINE h == HashLen
           k == ctx.k
<1>2. h \in Nat /\ h > 0 /\ k \in Nat /\ b \in Nat /\ b <= k - 2 * h - 2
  BY <1>1 DEF OaepRoom
<1>3. OaepRoom = k - 2 * h - 2 /\ OaepDbLen = k - h - 1
  BY DEF OaepRoom, OaepDbLen
<1> HIDE DEF h, k
<1>4. /\ k - 2 * h - 2 - b \in Nat /\ k - h - 1 \in Nat
      /\ h + (k - 2 * h - 2 - b) + 1 + b = k - h - 1 /\ 1 + h + (k - h - 1) = k
  BY ONLY <1>2
<1> QED
  BY <1>1, <1>3, <1>4 DEF h, k

LEMMA OaepDbIs ==
  ASSUME KeyFacts, HashesBytes, NEW m, NEW b, Sized(m, b), b <= OaepRoom
  PROVE  OaepShape(OaepDb(m), OaepRoom - b, m, b)
<1> DEFINE h == HashLen
           r == OaepRoom - b
           a == Hash(<<>>, HashLen)
           z == Zeros(r)
           one == <<1>>
           u == a \o z
           n == h + r
           db == u \o one \o m
           D == OaepDbLen
<1>1. h \in Nat /\ h > 0 /\ b \in Nat /\ r \in Nat /\ n + 1 + b = D /\ n \in Nat /\ D \in Nat
  BY OaepSizes
<1>2. OaepDb(m) = db
  BY OaepSizes DEF OaepDb
<1>3. Sized(a, h)
  <2>1. <<>> \in Seq(Byte)
    OBVIOUS
  <2> QED
    BY <1>1, <2>1, HashIn
<1>4. Sized(z, r) /\ \A i \in 1 .. r : z[i] = 0
  <2>1. r \in Int /\ r >= 0 /\ 0 \in Byte
    BY <1>1, SmallBytes
  <2> HIDE DEF r
  <2>2. Sized(z, r)
    BY ONLY <2>1, Filled DEF Zeros
  <2>3. \A i \in 1 .. r : z[i] = 0
    BY DEF Zeros
  <2> QED
    BY <2>2, <2>3
<1>5. Sized(one, 1) /\ one[1] = 1
  BY Singles, SmallBytes
<1>6. n = h + r
  OBVIOUS
<1>7. D = OaepDbLen
  OBVIOUS
<1> HIDE DEF a, z, one, r
<1>8. Sized(u, h + r)
  BY ONLY <1>3, <1>4, Joined
<1>9. Concatenates(u, a, h, z, r)
  BY ONLY <1>3, <1>4, JoinedAt
<1> HIDE DEF u, n
<1>10. Sized(u, n)
  BY <1>6, <1>8
<1>11. Triple(db, u, n, one, 1, m, b)
  BY ONLY <1>5, <1>10, Sized(m, b), Triples
<1> HIDE DEF db, h, D
<1>12. /\ Sized(db, D)
       /\ \A i \in 1 .. n : db[i] = u[i]
       /\ db[n + 1] = 1
       /\ SubSeq(db, n + 2, D) = m
       /\ \A i \in 1 .. b : db[n + 1 + i] = m[i]
  <2>1. 1 \in 1 .. 1 /\ n + 1 + 1 = n + 2
    BY <1>1
  <2>2. db[n + 1] = one[1]
    BY <1>11, <2>1 DEF Triple
  <2> QED
    BY <1>1, <1>5, <1>11, <2>1, <2>2 DEF Triple
<1>13. (\A i \in 1 .. h : db[i] = a[i]) /\ (\A i \in 1 .. r : db[h + i] = 0)
  <2>1. (\A i \in 1 .. h : i \in 1 .. n) /\ (\A i \in 1 .. r : h + i \in 1 .. n)
    BY <1>1, <1>6
  <2>2. (\A i \in 1 .. h : u[i] = a[i]) /\ (\A i \in 1 .. r : u[h + i] = z[i])
    BY <1>9 DEF Concatenates
  <2> QED
    BY <1>4, <1>12, <2>1, <2>2
<1>14. SubSeq(db, 1, h) = a
  <2> DEFINE x == SubSeq(db, 1, h)
  <2>1. 1 \in Nat /\ 1 > 0 /\ 1 <= h + 1 /\ h <= D /\ h - 1 + 1 = h /\ \A i \in 1 .. h : 1 + i - 1 = i
    BY <1>1, <1>6
  <2>2. Sized(x, h - 1 + 1) /\ \A i \in 1 .. h - 1 + 1 : x[i] = db[1 + i - 1]
    BY ONLY <1>1, <1>12, <2>1, SubIs
  <2> HIDE DEF x
  <2>3. Sized(x, h) /\ \A i \in 1 .. h : x[i] = a[i]
    BY <1>13, <2>1, <2>2
  <2>4. x = a
    BY ONLY <1>3, <2>3, SameBytes
  <2> QED
    BY <2>4 DEF x
<1> QED
  BY <1>2, <1>6, <1>12, <1>13, <1>14 DEF OaepShape, h, r, a, D

(* Blocks of one shape are one block.                                       *)
LEMMA OaepShapeOnly ==
  ASSUME KeyFacts, NEW s, NEW t, NEW r \in Nat, NEW m, NEW b \in Nat, HashLen + r + 1 + b = OaepDbLen,
         OaepShape(s, r, m, b), OaepShape(t, r, m, b)
  PROVE  s = t
<1> DEFINE h == HashLen
           D == OaepDbLen
<1>1. h \in Nat /\ D \in Nat /\ h + r + 1 + b = D
  BY Sizes DEF OaepShape, Sized
<1>2. /\ Sized(s, D) /\ Sized(t, D)
      /\ \A i \in 1 .. h : s[i] = t[i]
      /\ \A i \in 1 .. r : s[h + i] = t[h + i]
      /\ s[h + r + 1] = t[h + r + 1]
      /\ \A i \in 1 .. b : s[h + r + 1 + i] = t[h + r + 1 + i]
  BY DEF OaepShape
<1> HIDE DEF h, D
<1>3. \A j \in 1 .. D : s[j] = t[j]
  <2> TAKE j \in 1 .. D
  <2>1. CASE j <= h
    BY <1>2, <2>1
  <2>2. CASE h < j /\ j <= h + r
    <3>1. j - h \in 1 .. r /\ h + (j - h) = j
      BY <1>1, <2>2
    <3> QED
      BY <1>2, <3>1
  <2>3. CASE j = h + r + 1
    BY <1>2, <2>3
  <2>4. CASE j > h + r + 1
    <3>1. j - (h + r + 1) \in 1 .. b /\ h + r + 1 + (j - (h + r + 1)) = j
      BY <1>1, <2>4
    <3> QED
      BY <1>2, <3>1
  <2> QED
    BY <1>1, <2>1, <2>2, <2>3, <2>4
<1> QED
  BY ONLY <1>2, <1>3, SameBytes

LEMMA OaepBlockIs ==
  ASSUME NEW m, NEW seed
  PROVE  LET db == OaepDb(m)
             maskedDb == XorBytes(db, Mgf(seed, Len(db)))
         IN  OaepBlock(m, seed) = <<0>> \o XorBytes(seed, Mgf(maskedDb, HashLen)) \o maskedDb
  BY DEF OaepBlock, OaepDb

LEMMA OaepOpens ==
  ASSUME KeyFacts, HashesBytes, NEW m, NEW b, Sized(m, b), b <= OaepRoom, NEW seed, Sized(seed, HashLen)
  PROVE  LET em == OaepBlock(m, seed)
         IN  Sized(em, ctx.k) /\ OaepOpen(em).valid /\ OaepOpen(em).m = m
<1> DEFINE h == HashLen
           k == ctx.k
           D == OaepDbLen
           r == OaepRoom - b
           a == Hash(<<>>, h)
           db == OaepDb(m)
           dbMask == Mgf(seed, D)
           maskedDb == XorBytes(db, dbMask)
           seedMask == Mgf(maskedDb, h)
           maskedSeed == XorBytes(seed, seedMask)
           em == <<0>> \o maskedSeed \o maskedDb
           i == h + r + 1
<1>1. /\ h \in Nat /\ h > 0 /\ b \in Nat /\ r \in Nat /\ k \in Nat /\ D \in Nat
      /\ h + r + 1 + b = D /\ 1 + h + D = k
  BY OaepSizes
<1>2. OaepShape(db, r, m, b)
  BY OaepDbIs
<1>3. Sized(db, D) /\ Len(db) = D
  BY <1>2 DEF OaepShape, Sized
<1>4. em = OaepBlock(m, seed)
  BY <1>3, OaepBlockIs
<1>5. seed \in Seq(Byte) /\ Sized(seed, h)
  BY DEF Sized
<1>6. OaepOpen(em) =
        LET mdb == SubSeq(em, h + 2, k)
            sd == XorBytes(SubSeq(em, 2, h + 1), Mgf(mdb, h))
            d == XorBytes(mdb, Mgf(sd, Len(mdb)))
            j == First(d, h + 1, FALSE)
        IN  [valid |-> /\ em[1] = 0 /\ SubSeq(d, 1, h) = a
                       /\ j <= Len(d) /\ d[j] = 1,
             m |-> SubSeq(d, j + 1, Len(d))]
  BY DEF OaepOpen
<1>7. /\ SubSeq(db, 1, h) = a
      /\ SubSeq(db, h + r + 2, D) = m
      /\ \A l \in 1 .. r : db[h + l] = 0
      /\ db[i] = 1
  BY <1>2 DEF OaepShape
<1>8. i \in h + 1 .. D /\ h + 1 \in Nat /\ i + 1 = h + r + 2
  BY <1>1
<1> HIDE DEF h, k, D, r, a, db
<1>9. Sized(dbMask, D)
  BY <1>1, <1>5, MgfIn
<1> HIDE DEF dbMask
<1>10. Sized(maskedDb, D) /\ XorBytes(maskedDb, dbMask) = db
  BY ONLY <1>3, <1>9, XorTwice
<1>11. maskedDb \in Seq(Byte) /\ Len(maskedDb) = D
  BY <1>10 DEF Sized
<1> HIDE DEF maskedDb
<1>12. Sized(seedMask, h)
  BY <1>1, <1>11, MgfIn
<1> HIDE DEF seedMask
<1>13. Sized(maskedSeed, h) /\ XorBytes(maskedSeed, seedMask) = seed
  BY ONLY <1>5, <1>12, XorTwice
<1> HIDE DEF maskedSeed
<1>14. Sized(<<0>>, 1) /\ <<0>>[1] = 0
  BY Singles, SmallBytes
<1>15. Triple(em, <<0>>, 1, maskedSeed, h, maskedDb, D)
  BY ONLY <1>10, <1>13, <1>14, Triples
<1> HIDE DEF em
<1>16. /\ Sized(em, k) /\ em[1] = 0
       /\ SubSeq(em, 2, h + 1) = maskedSeed /\ SubSeq(em, h + 2, k) = maskedDb
  <2>1. 1 \in 1 .. 1 /\ 1 + 1 = 2 /\ 1 + h = h + 1 /\ 1 + h + 1 = h + 2 /\ 1 + h + D = k
    BY <1>1
  <2>2. em[1] = <<0>>[1]
    BY <1>15, <2>1 DEF Triple
  <2>3. Sized(em, k) /\ SubSeq(em, 2, h + 1) = maskedSeed /\ SubSeq(em, h + 2, k) = maskedDb
    BY <1>15, <2>1 DEF Triple
  <2> QED
    BY ONLY <1>14, <2>2, <2>3
<1>17. XorBytes(maskedSeed, Mgf(maskedDb, h)) = seed
  BY <1>13 DEF seedMask
<1>18. XorBytes(maskedDb, Mgf(seed, Len(maskedDb))) = db
  BY <1>10, <1>11 DEF dbMask
<1>19. OaepOpen(em) = LET j == First(db, h + 1, FALSE)
                      IN  [valid |-> em[1] = 0 /\ SubSeq(db, 1, h) = a /\ j <= Len(db) /\ db[j] = 1,
                           m |-> SubSeq(db, j + 1, Len(db))]
  BY ONLY <1>6, <1>16, <1>17, <1>18
<1>20. First(db, h + 1, FALSE) = i
  <2> DEFINE c == h + 1
  <2>1. ASSUME NEW l \in c .. i - 1 PROVE db[l] = 0
    <3>1. l - h \in 1 .. r /\ h + (l - h) = l
      BY <1>1
    <3> QED
      BY <1>7, <3>1
  <2>2. db[i] # 0
    BY <1>7
  <2>3. c \in Nat /\ i \in c .. D
    BY <1>8
  <2> HIDE DEF c, i
  <2>4. First(db, c, FALSE) = i
    BY ONLY <1>3, <2>1, <2>2, <2>3, FirstOther
  <2> QED
    BY <2>4 DEF c
<1> HIDE DEF i
<1> DEFINE ok == em[1] = 0 /\ SubSeq(db, 1, h) = a /\ i <= Len(db) /\ db[i] = 1
<1>21. ok
  BY <1>1, <1>3, <1>7, <1>8, <1>16
<1>22. OaepOpen(em) = [valid |-> ok, m |-> m]
  <2>1. SubSeq(db, i + 1, Len(db)) = m
    BY <1>3, <1>7, <1>8
  <2>2. OaepOpen(em) = [valid |-> ok, m |-> SubSeq(db, i + 1, Len(db))]
    BY ONLY <1>19, <1>20
  <2> QED
    BY ONLY <2>1, <2>2
<1> HIDE DEF ok
<1>23. OaepOpen(em).valid = ok /\ OaepOpen(em).m = m
  BY ONLY <1>22, Opening
<1>24. Sized(em, ctx.k)
  BY <1>16 DEF k
<1> QED
  BY ONLY <1>4, <1>21, <1>23, <1>24

LEMMA OaepEncoded ==
  ASSUME KeyFacts, HashesBytes, NEW em, Sized(em, ctx.k), ctx.k >= 2 * HashLen + 2, OaepOpen(em).valid
  PROVE  LET m == OaepOpen(em).m
         IN  \E seed, b : /\ Sized(m, b) /\ b <= OaepRoom /\ Sized(seed, HashLen)
                          /\ em = OaepBlock(m, seed)
<1> DEFINE h == HashLen
           k == ctx.k
           D == OaepDbLen
           a == Hash(<<>>, h)
           maskedDb == SubSeq(em, h + 2, k)
           maskedSeed == SubSeq(em, 2, h + 1)
           seedMask == Mgf(maskedDb, h)
           seed == XorBytes(maskedSeed, seedMask)
           dbMask == Mgf(seed, D)
           db == XorBytes(maskedDb, dbMask)
           i == First(db, h + 1, FALSE)
           m == SubSeq(db, i + 1, D)
           r == i - h - 1
           b == D - i
           ok == em[1] = 0 /\ SubSeq(db, 1, h) = a /\ i <= D /\ db[i] = 1
<1>1. /\ h \in Nat /\ h > 0 /\ k \in Nat /\ D \in Nat /\ 1 + h + D = k /\ D >= h + 1
      /\ D = k - h - 1 /\ OaepRoom = k - 2 * h - 2
  <2>1. h \in Nat /\ h > 0 /\ k \in Nat /\ k >= 2 * h + 2 /\ D = k - h - 1 /\ OaepRoom = k - 2 * h - 2
    BY Sizes, KeyNumbers DEF OaepDbLen, OaepRoom
  <2> HIDE DEF h, k, D
  <2> QED
    BY ONLY <2>1
<1>2. OaepOpen(em) =
        LET mdb == SubSeq(em, h + 2, k)
            sd == XorBytes(SubSeq(em, 2, h + 1), Mgf(mdb, h))
            d == XorBytes(mdb, Mgf(sd, Len(mdb)))
            j == First(d, h + 1, FALSE)
        IN  [valid |-> /\ em[1] = 0 /\ SubSeq(d, 1, h) = a
                       /\ j <= Len(d) /\ d[j] = 1,
             m |-> SubSeq(d, j + 1, Len(d))]
  BY DEF OaepOpen
<1>0. Sized(em, k)
  OBVIOUS
<1> HIDE DEF h, k, D, a
<1>3. Sized(maskedDb, D)
  <2> DEFINE c == h + 2
  <2>1. c \in Nat /\ c > 0 /\ c <= k + 1 /\ k <= k /\ k - c + 1 = D
    BY <1>1
  <2> HIDE DEF c
  <2>2. Sized(SubSeq(em, c, k), k - c + 1)
    BY ONLY <1>0, <1>1, <2>1, SubIs
  <2> QED
    BY <2>1, <2>2 DEF c
<1>4. Sized(maskedSeed, h)
  <2> DEFINE c == h + 1
  <2>1. c \in Nat /\ 2 \in Nat /\ 2 > 0 /\ 2 <= c + 1 /\ c <= k /\ c - 2 + 1 = h
    BY <1>1
  <2> HIDE DEF c
  <2>2. Sized(SubSeq(em, 2, c), c - 2 + 1)
    BY ONLY <1>0, <2>1, SubIs
  <2> QED
    BY <2>1, <2>2 DEF c
<1>5. /\ maskedDb = SubSeq(em, h + 2, k) /\ maskedSeed = SubSeq(em, 2, h + 1)
      /\ maskedDb \in Seq(Byte) /\ Len(maskedDb) = D
  BY <1>3 DEF Sized
<1> HIDE DEF maskedDb, maskedSeed
<1>6. Sized(seedMask, h)
  BY <1>1, <1>5, MgfIn
<1>7. Sized(seed, h) /\ XorBytes(seed, seedMask) = maskedSeed
  <2> HIDE DEF seedMask
  <2> QED
    BY ONLY <1>4, <1>6, XorTwice
<1>8. seed = XorBytes(maskedSeed, Mgf(maskedDb, h)) /\ seed \in Seq(Byte)
  BY <1>7 DEF Sized
<1> HIDE DEF seed
<1>9. Sized(dbMask, D)
  BY <1>1, <1>8, MgfIn
<1>10. Sized(db, D) /\ XorBytes(db, dbMask) = maskedDb
  <2> HIDE DEF dbMask
  <2> QED
    BY ONLY <1>3, <1>9, XorTwice
<1>11. db = XorBytes(maskedDb, Mgf(seed, Len(maskedDb))) /\ Len(db) = D
  BY <1>5, <1>10 DEF Sized
<1> HIDE DEF db
<1>12. OaepOpen(em) = [valid |-> ok, m |-> m]
  <2>1. OaepOpen(em) = [valid |-> /\ em[1] = 0 /\ SubSeq(db, 1, h) = a /\ i <= Len(db) /\ db[i] = 1,
                        m |-> SubSeq(db, i + 1, Len(db))]
    BY ONLY <1>2, <1>5, <1>8, <1>11
  <2> QED
    BY ONLY <1>11, <2>1
<1> HIDE DEF ok, m
<1>13. OaepOpen(em).valid = ok /\ OaepOpen(em).m = m
  BY ONLY <1>12, Opening
<1>14. ok
  BY ONLY <1>13, OaepOpen(em).valid
<1>15. em[1] = 0 /\ SubSeq(db, 1, h) = a /\ i <= D /\ db[i] = 1
  BY <1>14 DEF ok
<1>16. FirstAt(db, h + 1, FALSE, i)
  <2> DEFINE c == h + 1
  <2>1. c \in Nat /\ FALSE \in BOOLEAN /\ Len(db) \in Nat /\ c <= Len(db) + 1
    BY <1>1, <1>11
  <2> HIDE DEF c
  <2>2. FirstAt(db, c, FALSE, First(db, c, FALSE))
    BY ONLY <2>1, FirstIs
  <2> QED
    BY <2>2 DEF c
<1> HIDE DEF i
<1>17. i \in h + 1 .. D /\ \A l \in h + 1 .. i - 1 : db[l] = 0
  <2>1. i \in h + 1 .. D + 1 /\ \A l \in h + 1 .. i - 1 : (db[l] = 0) # FALSE
    BY <1>11, <1>16 DEF FirstAt
  <2>2. i \in h + 1 .. D
    BY <1>1, <1>15, <2>1
  <2> QED
    BY <2>1, <2>2
<1>18. r \in Nat /\ b \in Nat /\ h + r + 1 = i /\ h + r + 1 + b = D /\ b <= OaepRoom /\ OaepRoom - b = r
  BY <1>1, <1>17
<1>19. Sized(m, b) /\ \A l \in 1 .. b : m[l] = db[i + l]
  <2> DEFINE c == i + 1
  <2>1. c \in Nat /\ D \in Nat /\ c > 0 /\ c <= D + 1 /\ D <= D /\ D - c + 1 = b
        /\ \A l \in 1 .. b : c + l - 1 = i + l
    BY <1>1, <1>17
  <2> HIDE DEF c
  <2>2. Sized(SubSeq(db, c, D), D - c + 1) /\ \A l \in 1 .. D - c + 1 : SubSeq(db, c, D)[l] = db[c + l - 1]
    BY ONLY <1>10, <2>1, SubIs
  <2> QED
    BY <2>1, <2>2 DEF c, m
<1>20. SubSeq(db, i + 1, D) = m
  BY DEF m
<1> HIDE DEF r, b
<1>21. OaepShape(db, r, m, b)
  <2>1. \A l \in 1 .. r : db[h + l] = 0
    <3> TAKE l \in 1 .. r
    <3>1. h + l \in h + 1 .. i - 1
      BY <1>1, <1>17, <1>18
    <3> QED
      BY ONLY <1>17, <3>1
  <2>2. \A l \in 1 .. h : db[l] = a[l]
    <3> TAKE l \in 1 .. h
    <3> DEFINE x == SubSeq(db, 1, h)
    <3>1. 1 \in Nat /\ 1 > 0 /\ 1 <= h + 1 /\ h <= D /\ h - 1 + 1 = h /\ 1 + l - 1 = l
      BY <1>1
    <3>2. \A j \in 1 .. h - 1 + 1 : x[j] = db[1 + j - 1]
      BY ONLY <1>1, <1>10, <3>1, SubIs
    <3>3. x = a
      BY <1>15
    <3> HIDE DEF x
    <3> QED
      BY <3>1, <3>2, <3>3
  <2>3. db[h + r + 1] = 1 /\ \A l \in 1 .. b : db[h + r + 1 + l] = m[l]
    BY ONLY <1>15, <1>18, <1>19
  <2>4. i + 1 = h + r + 2
    BY <1>1, <1>18
  <2>5. SubSeq(db, h + r + 2, D) = m
    BY ONLY <1>20, <2>4
  <2> QED
    BY ONLY <1>10, <1>15, <2>1, <2>2, <2>3, <2>5 DEF OaepShape, h, D, a
<1>22. OaepDb(m) = db
  <2>1. OaepShape(OaepDb(m), r, m, b)
    <3>1. OaepShape(OaepDb(m), OaepRoom - b, m, b)
      BY <1>18, <1>19, OaepDbIs
    <3> QED
      BY ONLY <1>18, <3>1
  <2>2. HashLen + r + 1 + b = OaepDbLen
    BY <1>18 DEF h, D
  <2> QED
    BY ONLY KeyFacts, <1>18, <1>21, <2>1, <2>2, OaepShapeOnly
<1>23. OaepBlock(m, seed) = <<0>> \o maskedSeed \o maskedDb
  <2> DEFINE x == XorBytes(OaepDb(m), Mgf(seed, Len(OaepDb(m))))
  <2>1. OaepBlock(m, seed) = <<0>> \o XorBytes(seed, Mgf(x, h)) \o x
    BY OaepBlockIs DEF h
  <2>2. x = maskedDb
    BY <1>10, <1>11, <1>22 DEF dbMask
  <2> HIDE DEF x
  <2>3. XorBytes(seed, Mgf(maskedDb, h)) = maskedSeed
    BY <1>7 DEF seedMask
  <2> QED
    BY ONLY <2>1, <2>2, <2>3
<1>24. em = <<0>> \o maskedSeed \o maskedDb
  <2>1. 1 \in Nat /\ h \in Nat /\ D \in Nat /\ 1 + h + D = k /\ 1 + 1 = 2 /\ 1 + h = h + 1 /\ 1 + h + 1 = h + 2
        /\ 1 \in 1 .. k
    BY <1>1
  <2>2. SubSeq(em, 1, 1) = <<em[1]>>
    BY ONLY <1>0, <2>1, SingleOf
  <2>3. SubSeq(em, 1, 1) = <<0>> /\ SubSeq(em, 1 + 1, 1 + h) = maskedSeed
        /\ SubSeq(em, 1 + h + 1, 1 + h + D) = maskedDb /\ Sized(em, 1 + h + D)
    BY <1>0, <1>5, <1>15, <2>1, <2>2
  <2> DEFINE one == 1
             zero == <<0>>
  <2>4. Split(em, zero, one, maskedSeed, h, maskedDb, D)
    BY ONLY <2>1, <2>3 DEF Split
  <2> HIDE DEF one, zero
  <2>5. em = zero \o maskedSeed \o maskedDb
    BY ONLY <2>4, TripleOnly
  <2> QED
    BY <2>5 DEF zero
<1>25. /\ Sized(OaepOpen(em).m, b) /\ b <= OaepRoom /\ Sized(seed, HashLen)
       /\ em = OaepBlock(OaepOpen(em).m, seed)
  <2>1. Sized(m, b) /\ b <= OaepRoom /\ Sized(seed, HashLen) /\ em = OaepBlock(m, seed)
    BY <1>7, <1>18, <1>19, <1>23, <1>24 DEF h
  <2> QED
    BY ONLY <1>13, <2>1
<1> QED
  BY ONLY <1>25

-----------------------------------------------------------------------------
(* PSS: the bits of a block.                                                *)
TopBits == ByteBits - (ByteBits * EmLen - EmBits)

LEMMA PssNumbers ==
  ASSUME KeyFacts, ctx.scheme = "oaep_pss"
  PROVE  /\ HashLen \in Nat /\ HashLen > 0 /\ EmLen \in Nat /\ DbLen \in Nat /\ DbLen - HashLen - 1 \in Nat
         /\ EmLen = DbLen + HashLen + 1 /\ EmLen > 0 /\ DbLen > HashLen
         /\ TopBits \in 1 .. ByteBits /\ EmBits \in Nat
         /\ TopBits + ByteBits * (EmLen - 1) = EmBits
         /\ Pow(2, EmBits) \in Nat /\ Pow(2, EmBits) <= ctx.n
<1> DEFINE B == ByteBits
           E == EmBits
           L == EmLen
           h == HashLen
<1>1. B \in Nat /\ B > 0 /\ h \in Nat /\ h > 0
  BY ByteAssumption, Sizes
<1>2. BitLength(ctx.n) \in Nat /\ BitLength(ctx.n) > 0 /\ (BitLength(ctx.n) = 1 \/ Pow(2, BitLength(ctx.n) - 1) <= ctx.n)
  BY KeyNumbers, BitLengthIs
<1>3. E \in Nat /\ E = BitLength(ctx.n) - 1
  BY <1>2 DEF EmBits
<1>4. L = (E + B - 1) \div B /\ E + B - 1 \in Nat
  BY <1>1, <1>3 DEF EmLen
<1>5. L >= 2 * h + 2
  BY DEF KeyFacts
<1>6. DbLen = L - h - 1
  BY DEF DbLen
<1>7. TopBits = B - (B * L - E)
  BY DEF TopBits
<1>8. Pow(2, E) \in Nat /\ Pow(2, E) <= ctx.n
  <2>1. Pow(2, E) \in Nat /\ Pow(2, 0) = 1
    BY ONLY <1>3, 2 \in Nat, 0 \in Nat, PowSteps
  <2>2. ctx.n \in Nat /\ ctx.n > 0
    BY KeyNumbers
  <2>3. CASE BitLength(ctx.n) = 1
    <3>1. E = 0
      BY <1>3, <2>3
    <3> QED
      BY <2>1, <2>2, <3>1
  <2>4. CASE Pow(2, BitLength(ctx.n) - 1) <= ctx.n
    BY <1>3, <2>1, <2>4
  <2> QED
    BY <1>2, <2>3, <2>4
<1> HIDE DEF B, E, L, h
<1>9. L \in Nat /\ L * B <= E + B - 1 /\ E + B - 1 < (L + 1) * B
  BY ONLY <1>1, <1>4, Quotient
<1>10. L * B \in Nat /\ (L + 1) * B = L * B + 1 * B /\ B * L = L * B
  BY ONLY <1>1, <1>9, 1 \in Nat, Sums
<1>11. TopBits \in 1 .. B
  BY ONLY <1>1, <1>3, <1>7, <1>9, <1>10
<1>12. B * (L - 1) = B * L - B
  BY ONLY <1>1, <1>9
<1>13. TopBits + B * (L - 1) = E
  BY ONLY <1>1, <1>3, <1>7, <1>10, <1>12
<1>14. DbLen \in Nat /\ DbLen - h - 1 \in Nat /\ L = DbLen + h + 1 /\ L > 0 /\ DbLen > h
  BY ONLY <1>1, <1>5, <1>6, <1>9
<1> QED
  BY <1>1, <1>3, <1>8, <1>9, <1>11, <1>13, <1>14 DEF B, E, L, h

LEMMA ClearTopIs ==
  ASSUME KeyFacts, ctx.scheme = "oaep_pss", NEW s, NEW n, n > 0, Sized(s, n)
  PROVE  /\ Sized(ClearTop(s), n) /\ ClearTop(s)[1] = s[1] % Pow(2, TopBits)
         /\ \A i \in 2 .. n : ClearTop(s)[i] = s[i]
         /\ Pow(2, TopBits) \in Nat /\ Pow(2, TopBits) > 1
         /\ s[1] \in Nat /\ ClearTop(s)[1] < Pow(2, TopBits)
<1> DEFINE P == Pow(2, TopBits)
           c == s[1] % P
           head == <<c>>
           t == ClearTop(s)
<1>0. n \in Nat /\ s \in Seq(Byte) /\ Len(s) = n
  BY DEF Sized
<1>1. t = head \o Tail(s)
  BY DEF ClearTop, TopBits
<1>2. TopBits \in Nat /\ TopBits > 0
  BY PssNumbers
<1>3. P \in Nat /\ P > 1
  <2>1. Pow(2, TopBits) \in Nat
    BY ONLY <1>2, 2 \in Nat, PowSteps
  <2>2. TopBits < Pow(2, TopBits)
    BY <1>2, PowAbove
  <2> QED
    BY <1>2, <2>1, <2>2
<1> HIDE DEF P
<1>4. s # <<>> /\ s[1] \in Byte
  BY <1>0
<1>5. s[1] \in Nat /\ s[1] < ByteMod
  BY <1>4, ByteModIs DEF Byte
<1>6. c \in Nat /\ c <= s[1] /\ c < P
  <2>1. P > 0
    BY <1>3
  <2>2. s[1] % P \in Nat /\ s[1] % P <= s[1]
    BY ONLY <1>3, <1>5, <2>1, Remainder
  <2>3. s[1] % P < P
    BY ONLY <1>3, <1>5
  <2> QED
    BY <2>2, <2>3
<1>7. c \in Byte
  <2> HIDE DEF c
  <2> QED
    BY <1>5, <1>6, ByteModIs DEF Byte
<1>8. c = s[1] % P
  OBVIOUS
<1> HIDE DEF c
<1>9. Sized(head, 1) /\ head[1] = c
  BY <1>7, Singles
<1> HIDE DEF head
<1>10. Sized(Tail(s), n - 1) /\ \A i \in 1 .. n - 1 : Tail(s)[i] = s[i + 1]
  <2>1. Tail(s) \in Seq(Byte) /\ Len(Tail(s)) = Len(s) - 1 /\ \A i \in 1 .. Len(Tail(s)) : Tail(s)[i] = s[i + 1]
    BY ONLY <1>0, <1>4, HeadTailProperties
  <2> QED
    BY <1>0, <2>1 DEF Sized
<1> DEFINE d == n - 1
           u == Tail(s)
<1>11. d \in Nat /\ 1 + d = n
  BY <1>0
<1>12. Sized(u, d)
  BY <1>10
<1> HIDE DEF d, u
<1>13. Sized(head \o u, 1 + d)
  BY ONLY <1>9, <1>12, Joined
<1>14. Concatenates(head \o u, head, 1, u, d)
  BY ONLY <1>9, <1>12, JoinedAt
<1>15. t = head \o u
  BY <1>1 DEF u
<1> HIDE DEF t
<1>16. Sized(t, n)
  BY <1>11, <1>13, <1>15
<1>17. t[1] = c
  <2>1. 1 \in 1 .. 1
    OBVIOUS
  <2> QED
    BY <1>9, <1>14, <1>15, <2>1 DEF Concatenates
<1>18. \A i \in 2 .. n : t[i] = s[i]
  <2> TAKE i \in 2 .. n
  <2>1. i - 1 \in 1 .. d /\ 1 + (i - 1) = i /\ i - 1 + 1 = i
    BY <1>0, <1>11
  <2>2. t[1 + (i - 1)] = u[i - 1]
    BY <1>14, <1>15, <2>1 DEF Concatenates
  <2>3. u[i - 1] = s[i - 1 + 1]
    BY <1>10, <2>1 DEF u, d
  <2> QED
    BY ONLY <2>1, <2>2, <2>3
<1> QED
  BY <1>3, <1>5, <1>6, <1>8, <1>16, <1>17, <1>18 DEF t, P

LEMMA XorAt ==
  ASSUME NEW s, NEW n, NEW t, Sized(s, n), Sized(t, n)
  PROVE  \A i \in 1 .. n : XorBytes(s, t)[i] = XorByte(s[i], t[i]) /\ s[i] \in Byte /\ t[i] \in Byte
<1>1. n \in Nat /\ s \in Seq(Byte) /\ t \in Seq(Byte) /\ Len(s) = n /\ Len(t) = n /\ DOMAIN s = 1 .. n
  BY DEF Sized
<1>2. XorBytes(s, t) = [i \in 1 .. n |-> XorByte(s[i], t[i])]
  BY <1>1 DEF XorBytes
<1> QED
  BY <1>1, <1>2

LEMMA ClearSame ==
  ASSUME KeyFacts, ctx.scheme = "oaep_pss", NEW s, NEW n, n > 0, Sized(s, n), s[1] < Pow(2, TopBits)
  PROVE  ClearTop(s) = s
<1> DEFINE P == Pow(2, TopBits)
           t == ClearTop(s)
<1>1. /\ Sized(t, n) /\ t[1] = s[1] % P /\ (\A i \in 2 .. n : t[i] = s[i])
      /\ P \in Nat /\ P > 1 /\ s[1] \in Nat
  BY ClearTopIs
<1>2. s[1] < P
  OBVIOUS
<1> HIDE DEF t, P
<1>3. s[1] \in 0 .. P - 1
  BY <1>1, <1>2
<1>4. s[1] % P = s[1]
  BY ONLY <1>1, <1>3, SmallRemainder
<1>5. n \in Nat
  BY DEF Sized
<1>6. \A i \in 1 .. n : t[i] = s[i]
  <2> TAKE i \in 1 .. n
  <2>1. i = 1 \/ i \in 2 .. n
    BY <1>5
  <2> QED
    BY <1>1, <1>4, <2>1
<1>7. t = s
  BY ONLY <1>1, Sized(s, n), <1>6, SameBytes
<1> QED
  BY <1>7 DEF t

(* Masking and cutting twice leaves the bits of the block.                  *)
LEMMA ClearXor ==
  ASSUME KeyFacts, ctx.scheme = "oaep_pss", NEW s, NEW n, NEW mask, n > 0, Sized(s, n), Sized(mask, n)
  PROVE  LET y == ClearTop(XorBytes(s, mask))
         IN  Sized(y, n) /\ ClearTop(XorBytes(y, mask)) = ClearTop(s) /\ y[1] < Pow(2, TopBits)
<1> DEFINE P == Pow(2, TopBits)
           x == XorBytes(s, mask)
           y == ClearTop(x)
           z == XorBytes(y, mask)
           t == ClearTop(z)
           c == ClearTop(s)
<1>0. n \in Nat /\ TopBits \in 1 .. ByteBits /\ P = Pow(2, TopBits)
  BY PssNumbers DEF Sized
<1>1. Sized(x, n) /\ \A i \in 1 .. n : x[i] = XorByte(s[i], mask[i]) /\ s[i] \in Byte /\ mask[i] \in Byte
  BY XorIn, XorAt
<1> HIDE DEF x
<1>2. /\ Sized(y, n) /\ y[1] = x[1] % P /\ (\A i \in 2 .. n : y[i] = x[i])
      /\ P \in Nat /\ P > 1 /\ y[1] < P /\ x[1] \in Nat
  BY <1>1, ClearTopIs
<1> HIDE DEF y
<1>3. Sized(z, n) /\ \A i \in 1 .. n : z[i] = XorByte(y[i], mask[i]) /\ y[i] \in Byte
  BY <1>2, XorIn, XorAt
<1> HIDE DEF z
<1>4. Sized(t, n) /\ t[1] = z[1] % P /\ (\A i \in 2 .. n : t[i] = z[i])
  BY <1>3, ClearTopIs
<1>5. Sized(c, n) /\ c[1] = s[1] % P /\ (\A i \in 2 .. n : c[i] = s[i]) /\ c[1] < P
  BY ClearTopIs
<1> HIDE DEF t, c, P
<1>6. t[1] = c[1]
  <2> DEFINE a == s[1]
             m == mask[1]
             u == y[1]
  <2>1. a \in Byte /\ m \in Byte /\ u \in Byte
    <3>1. 1 \in 1 .. n
      BY <1>0
    <3> QED
      BY <1>1, <1>3, <3>1
  <2>2. x[1] = XorByte(a, m) /\ z[1] = XorByte(u, m)
    <3>1. 1 \in 1 .. n
      BY <1>0
    <3> QED
      BY <1>1, <1>3, <3>1
  <2>3. TopBits \in 0 .. ByteBits /\ ByteBits \in Nat
    BY <1>0, ByteAssumption
  <2> HIDE DEF a, m, u
  <2>4. XorByte(a, m) % P = XorByte(a % P, m % P)
    BY <1>0, <2>1, <2>3, ByteAssumption
  <2>5. XorByte(u, m) % P = XorByte(u % P, m % P)
    BY <1>0, <2>1, <2>3, ByteAssumption
  <2>6. a \in Nat /\ m \in Nat /\ u \in Nat /\ P > 0 /\ a < ByteMod /\ m < ByteMod /\ ByteMod \in Nat
    BY <1>2, <2>1, ByteModIs DEF Byte
  <2>7. a % P \in Nat /\ a % P <= a
    BY ONLY <1>2, <2>6, Remainder
  <2>8. m % P \in Nat /\ m % P <= m
    BY ONLY <1>2, <2>6, Remainder
  <2>9. a % P \in Byte /\ m % P \in Byte
    <3> DEFINE v == a % P
               w == m % P
    <3> HIDE DEF v, w
    <3>1. v \in Nat /\ v <= a /\ w \in Nat /\ w <= m
      BY <2>7, <2>8 DEF v, w
    <3>2. v \in Byte /\ w \in Byte
      BY ONLY <2>6, <3>1 DEF Byte
    <3> QED
      BY <3>2 DEF v, w
  <2>10. u % P = u
    <3>1. u \in 0 .. P - 1
      BY <1>2, <2>6 DEF u
    <3> QED
      BY ONLY <1>2, <3>1, SmallRemainder
  <2>11. u = XorByte(a % P, m % P)
    BY <1>2, <2>2, <2>4 DEF u
  <2>12. XorByte(XorByte(a % P, m % P), m % P) = a % P
    BY <2>9, ByteAssumption
  <2>13. z[1] % P = a % P
    BY ONLY <2>2, <2>5, <2>10, <2>11, <2>12
  <2> QED
    BY <1>4, <1>5, <2>13 DEF a
<1>7. \A i \in 1 .. n : t[i] = c[i]
  <2> TAKE i \in 1 .. n
  <2>1. CASE i = 1
    BY <1>6, <2>1
  <2>2. CASE i \in 2 .. n
    <3>1. t[i] = XorByte(XorByte(s[i], mask[i]), mask[i]) /\ c[i] = s[i] /\ s[i] \in Byte /\ mask[i] \in Byte
      BY <1>1, <1>2, <1>3, <1>4, <1>5, <2>2
    <3> QED
      BY <3>1, ByteAssumption
  <2> QED
    BY <1>0, <2>1, <2>2
<1>8. t = c
  BY ONLY <1>4, <1>5, <1>7, SameBytes
<1> QED
  BY <1>2, <1>8 DEF t, c, z, y, x, P

-----------------------------------------------------------------------------
LEMMA PssHashIn ==
  ASSUME HashesBytes, NEW m \in Seq(Byte), NEW salt \in Seq(Byte)
  PROVE  Sized(PssHash(m, salt), HashLen)
<1> DEFINE a == Hash(m, HashLen)
           eight == Zeros(8)
           b == eight \o a
           c == b \o salt
<1>0. HashLen \in Nat
  BY Sizes
<1>1. a \in Seq(Byte)
  BY <1>0, HashIn DEF Sized
<1>2. eight \in Seq(Byte)
  BY ONLY 8 \in Int, SmallBytes, Filled DEF Zeros, Sized
<1>3. PssHash(m, salt) = Hash(c, HashLen)
  BY DEF PssHash
<1> HIDE DEF eight, a
<1>4. b \in Seq(Byte)
  BY <1>1, <1>2, ConcatProperties
<1> HIDE DEF b
<1>5. c \in Seq(Byte)
  BY <1>4, ConcatProperties
<1> HIDE DEF c
<1> QED
  BY <1>0, <1>3, <1>5, HashIn

PssDb(salt) == Zeros(DbLen - HashLen - 1) \o <<1>> \o salt

PssShape(db, salt) ==
  /\ Sized(db, DbLen)
  /\ \A i \in 1 .. DbLen - HashLen - 1 : db[i] = 0
  /\ db[DbLen - HashLen] = 1
  /\ SubSeq(db, DbLen - HashLen + 1, DbLen) = salt
  /\ \A i \in 1 .. HashLen : db[DbLen - HashLen + i] = salt[i]

LEMMA PssDbIs ==
  ASSUME KeyFacts, ctx.scheme = "oaep_pss", NEW salt, Sized(salt, HashLen)
  PROVE  PssShape(PssDb(salt), salt)
<1> DEFINE h == HashLen
           D == DbLen
           r == D - h - 1
           z == Zeros(r)
           one == <<1>>
           db == z \o one \o salt
<1>1. h \in Nat /\ h > 0 /\ D \in Nat /\ r \in Nat /\ r + 1 + h = D /\ r + 1 = D - h
  BY PssNumbers
<1>2. r = D - h - 1
  OBVIOUS
<1> HIDE DEF r
<1>3. Sized(z, r) /\ \A i \in 1 .. r : z[i] = 0
  <2>1. r \in Int /\ r >= 0 /\ 0 \in Byte
    BY <1>1, SmallBytes
  <2>2. Sized(z, r)
    BY ONLY <2>1, Filled DEF Zeros
  <2>3. \A i \in 1 .. r : z[i] = 0
    BY DEF Zeros
  <2> QED
    BY <2>2, <2>3
<1>4. Sized(one, 1) /\ one[1] = 1
  BY Singles, SmallBytes
<1>5. Sized(salt, h)
  OBVIOUS
<1>6. db = PssDb(salt)
  BY <1>2 DEF PssDb
<1> HIDE DEF z, one, h, D
<1>7. Triple(db, z, r, one, 1, salt, h)
  BY ONLY <1>3, <1>4, <1>5, Triples
<1> HIDE DEF db
<1>8. /\ Sized(db, D) /\ (\A i \in 1 .. r : db[i] = 0) /\ db[r + 1] = 1
      /\ SubSeq(db, r + 1 + 1, D) = salt /\ \A i \in 1 .. h : db[r + 1 + i] = salt[i]
  <2>1. 1 \in 1 .. 1
    OBVIOUS
  <2>2. db[r + 1] = one[1]
    BY <1>7, <2>1 DEF Triple
  <2> QED
    BY <1>1, <1>3, <1>4, <1>7, <2>2 DEF Triple
<1> QED
  BY <1>1, <1>2, <1>6, <1>8 DEF PssShape, h, D

LEMMA PssShapeOnly ==
  ASSUME KeyFacts, ctx.scheme = "oaep_pss", NEW s, NEW t, NEW salt, PssShape(s, salt), PssShape(t, salt)
  PROVE  s = t
<1> DEFINE h == HashLen
           D == DbLen
<1>1. h \in Nat /\ D \in Nat /\ D - h - 1 \in Nat
  BY PssNumbers
<1>2. /\ Sized(s, D) /\ Sized(t, D)
      /\ \A i \in 1 .. D - h - 1 : s[i] = t[i]
      /\ s[D - h] = t[D - h]
      /\ \A i \in 1 .. h : s[D - h + i] = t[D - h + i]
  BY DEF PssShape
<1> HIDE DEF h, D
<1>3. \A j \in 1 .. D : s[j] = t[j]
  <2> TAKE j \in 1 .. D
  <2>1. CASE j <= D - h - 1
    BY <1>1, <1>2, <2>1
  <2>2. CASE j = D - h
    BY <1>2, <2>2
  <2>3. CASE j > D - h
    <3>1. j - (D - h) \in 1 .. h /\ D - h + (j - (D - h)) = j
      BY <1>1, <2>3
    <3> QED
      BY <1>2, <3>1
  <2> QED
    BY <1>1, <2>1, <2>2, <2>3
<1> QED
  BY ONLY <1>2, <1>3, SameBytes

LEMMA PssBlockIs ==
  ASSUME NEW m, NEW salt
  PROVE  PssBlock(m, salt) =
           ClearTop(XorBytes(PssDb(salt), Mgf(PssHash(m, salt), DbLen))) \o PssHash(m, salt) \o <<Trailer>>
  BY DEF PssBlock, PssDb

(* A signed block is a number below the modulus that verifies.              *)
LEMMA PssOpens ==
  ASSUME KeyFacts, HashesBytes, ctx.scheme = "oaep_pss", NEW m \in Seq(Byte), NEW salt, Sized(salt, HashLen)
  PROVE  LET em == PssBlock(m, salt)
         IN  Sized(em, EmLen) /\ PssValid(m, em) /\ NumberOf(em) \in Nat /\ NumberOf(em) < ctx.n
<1> DEFINE h == HashLen
           D == DbLen
           L == EmLen
           P == Pow(2, TopBits)
           db == PssDb(salt)
           f == PssHash(m, salt)
           mask == Mgf(f, D)
           y == ClearTop(XorBytes(db, mask))
           end == <<Trailer>>
           em == y \o f \o end
<1>1. /\ h \in Nat /\ h > 0 /\ D \in Nat /\ L \in Nat /\ L = D + h + 1 /\ D > h /\ D - h - 1 \in Nat
      /\ L > 0 /\ D > 0
  BY PssNumbers
<1>2. Sized(db, D) /\ PssShape(db, salt)
  BY PssDbIs DEF PssShape
<1>3. Sized(f, h) /\ f \in Seq(Byte)
  BY PssHashIn DEF Sized
<1>4. em = PssBlock(m, salt)
  BY PssBlockIs
<1>5. mask = Mgf(f, D) /\ f = PssHash(m, salt)
  OBVIOUS
<1> HIDE DEF db, f, h, D, L, P
<1>6. Sized(mask, D)
  BY <1>1, <1>3, MgfIn
<1> HIDE DEF mask
<1>7. Sized(y, D) /\ ClearTop(XorBytes(y, mask)) = ClearTop(db) /\ y[1] < P
  BY <1>1, <1>2, <1>6, ClearXor DEF P
<1> HIDE DEF y
<1>8. ClearTop(db) = db
  <2>1. Sized(ClearTop(db), D) /\ P \in Nat /\ P > 1 /\ db[1] \in Nat
    BY <1>1, <1>2, ClearTopIs DEF P
  <2>2. db[1] = 0 \/ db[1] = 1
    <3>1. CASE D - h = 1
      BY <1>2, <3>1 DEF PssShape, h, D
    <3>2. CASE D - h - 1 >= 1
      <4>1. 1 \in 1 .. D - h - 1
        BY <1>1, <3>2
      <4> QED
        BY <1>2, <4>1 DEF PssShape, h, D
    <3> QED
      BY <1>1, <3>1, <3>2
  <2>3. db[1] < P
    BY <2>1, <2>2
  <2> QED
    BY <1>1, <1>2, <2>3, ClearSame DEF P
<1>9. Sized(end, 1) /\ end[1] = Trailer
  BY Singles, Sizes
<1> HIDE DEF end
<1>10. Triple(em, y, D, f, h, end, 1)
  BY ONLY <1>3, <1>7, <1>9, Triples
<1> HIDE DEF em
<1>11. /\ Sized(em, L) /\ em[L] = Trailer /\ em[1] = y[1]
       /\ SubSeq(em, 1, D) = y /\ SubSeq(em, D + 1, L - 1) = f
  <2>1. 1 \in 1 .. 1 /\ 1 \in 1 .. D /\ D + h + 1 = L /\ D + h = L - 1
    BY <1>1
  <2>2. em[D + h + 1] = end[1] /\ em[1] = y[1] /\ Sized(em, D + h + 1)
        /\ SubSeq(em, 1, D) = y /\ SubSeq(em, D + 1, D + h) = f
    BY <1>10, <2>1 DEF Triple
  <2> QED
    BY ONLY <1>9, <2>1, <2>2
<1>12. ClearTop(em) = em
  BY <1>1, <1>7, <1>11, ClearSame DEF P
<1>13. ClearTop(XorBytes(SubSeq(em, 1, D), Mgf(SubSeq(em, D + 1, L - 1), D))) = db
  BY <1>5, <1>7, <1>8, <1>11
<1>14. PssValid(m, em)
  <2>1. PssValid(m, em) <=>
          /\ em[L] = Trailer /\ ClearTop(em) = em
          /\ \A i \in 1 .. D - h - 1 : db[i] = 0
          /\ db[D - h] = 1
          /\ f = PssHash(m, SubSeq(db, D - h + 1, D))
    BY <1>11, <1>13 DEF PssValid, L, D, h
  <2>2. /\ \A i \in 1 .. D - h - 1 : db[i] = 0
        /\ db[D - h] = 1
        /\ SubSeq(db, D - h + 1, D) = salt
    BY <1>2 DEF PssShape, D, h
  <2> QED
    BY <1>5, <1>11, <1>12, <2>1, <2>2
<1>15. NumberOf(em) \in Nat /\ NumberOf(em) < ctx.n
  <2> DEFINE B == ByteBits
             E == EmBits
             T == TopBits
             x == NumberOf(em)
             n == L - 1
  <2>1. /\ T \in 1 .. B /\ E \in Nat /\ T + B * n = E /\ Pow(2, E) \in Nat /\ Pow(2, E) <= ctx.n
        /\ B \in Nat /\ n \in Nat
    BY <1>1, PssNumbers, ByteAssumption DEF L
  <2>2. em \in Seq(Byte) /\ Len(em) = L
    BY <1>11 DEF Sized
  <2>3. x \in Nat
    BY <2>2, NumberIn
  <2>4. em[1] < P /\ P \in Nat
    <3>1. P \in Nat
      BY <1>1, <1>11, ClearTopIs DEF P
    <3> QED
      BY <1>7, <1>11, <3>1
  <2>5. x < P * Pow(ByteMod, n)
    BY <1>1, <2>2, <2>4, TopFirst
  <2> HIDE DEF x, n, B, E, T
  <2>6. B * n \in Nat /\ T \in Nat
    BY <2>1
  <2>7. Pow(2, B * n) = Pow(Pow(2, B), n)
    BY ONLY <2>1, 2 \in Nat, PowPow
  <2>8. Pow(2, T + B * n) = Pow(2, T) * Pow(2, B * n)
    BY ONLY <2>6, 2 \in Nat, PowSum
  <2>9. P * Pow(ByteMod, n) = Pow(2, E)
    BY <2>1, <2>7, <2>8 DEF P, T, B, ByteMod
  <2>10. x < Pow(2, E)
    BY ONLY <2>5, <2>9
  <2>11. ctx.n \in Nat
    BY KeyNumbers
  <2>12. x < ctx.n
    BY ONLY <2>1, <2>3, <2>10, <2>11
  <2> QED
    BY <2>3, <2>12 DEF x
<1>16. Sized(em, EmLen)
  BY <1>11 DEF L
<1> QED
  BY ONLY <1>4, <1>14, <1>15, <1>16

(* A block that verifies is one that the signer makes.                      *)
LEMMA PssEncoded ==
  ASSUME KeyFacts, HashesBytes, ctx.scheme = "oaep_pss", NEW m \in Seq(Byte), NEW em, Sized(em, EmLen),
         PssValid(m, em)
  PROVE  \E salt : Sized(salt, HashLen) /\ em = PssBlock(m, salt)
<1> DEFINE h == HashLen
           D == DbLen
           L == EmLen
           f == SubSeq(em, D + 1, L - 1)
           y == SubSeq(em, 1, D)
           mask == Mgf(f, D)
           db == ClearTop(XorBytes(y, mask))
           salt == SubSeq(db, D - h + 1, D)
           end == <<Trailer>>
<1>1. /\ h \in Nat /\ h > 0 /\ D \in Nat /\ L \in Nat /\ L = D + h + 1 /\ D > h /\ D - h - 1 \in Nat
      /\ L > 0 /\ D > 0
  BY PssNumbers
<1>2. /\ em[L] = Trailer /\ ClearTop(em) = em
      /\ \A i \in 1 .. D - h - 1 : db[i] = 0
      /\ db[D - h] = 1
      /\ f = PssHash(m, salt)
  BY DEF PssValid
<1>0. Sized(em, L)
  OBVIOUS
<1> HIDE DEF h, D, L
<1>3. Sized(f, h)
  <2> DEFINE c == D + 1
             d == L - 1
  <2>1. c \in Nat /\ d \in Nat /\ c > 0 /\ c <= d + 1 /\ d <= L /\ d - c + 1 = h
    BY <1>1
  <2> HIDE DEF c, d
  <2>2. Sized(SubSeq(em, c, d), d - c + 1)
    BY ONLY <1>0, <2>1, SubIs
  <2> QED
    BY <2>1, <2>2 DEF c, d
<1>4. Sized(y, D) /\ y[1] = em[1]
  <2> DEFINE c == 1
  <2>1. c \in Nat /\ c > 0 /\ c <= D + 1 /\ D <= L /\ D - c + 1 = D /\ 1 \in 1 .. D /\ c + 1 - 1 = 1
    BY <1>1
  <2>2. c = 1
    OBVIOUS
  <2> HIDE DEF c
  <2>3. Sized(SubSeq(em, c, D), D - c + 1) /\ \A i \in 1 .. D - c + 1 : SubSeq(em, c, D)[i] = em[c + i - 1]
    BY ONLY <1>0, <1>1, <2>1, SubIs
  <2> DEFINE x == SubSeq(em, c, D)
  <2>4. x[1] = em[1]
    <3>1. 1 \in 1 .. D - c + 1
      BY ONLY <2>1
    <3>2. \A i \in 1 .. D - c + 1 : x[i] = em[c + i - 1]
      BY <2>3
    <3> HIDE DEF x
    <3>3. x[1] = em[c + 1 - 1]
      BY ONLY <3>1, <3>2
    <3> QED
      BY ONLY <2>1, <3>3
  <2>5. Sized(SubSeq(em, c, D), D)
    BY ONLY <2>1, <2>3
  <2> QED
    BY ONLY <2>2, <2>4, <2>5
<1>5. f = SubSeq(em, D + 1, L - 1) /\ y = SubSeq(em, 1, D) /\ f \in Seq(Byte)
  BY <1>3 DEF Sized
<1> HIDE DEF f, y
<1>6. mask = Mgf(f, D) /\ Sized(mask, D)
  BY <1>1, <1>5, MgfIn
<1> HIDE DEF mask
<1>7. Sized(db, D) /\ ClearTop(XorBytes(db, mask)) = ClearTop(y)
  BY <1>1, <1>4, <1>6, ClearXor
<1>8. ClearTop(y) = y
  <2>1. ClearTop(em)[1] < Pow(2, TopBits)
    BY <1>0, <1>1, ClearTopIs
  <2>2. y[1] < Pow(2, TopBits)
    BY ONLY <1>2, <1>4, <2>1
  <2> QED
    BY <1>1, <1>4, <2>2, ClearSame
<1> HIDE DEF db
<1>9. Sized(salt, h) /\ \A i \in 1 .. h : salt[i] = db[D - h + i]
  <2> DEFINE c == D - h + 1
  <2>1. c \in Nat /\ c > 0 /\ c <= D + 1 /\ D <= D /\ D - c + 1 = h /\ \A i \in 1 .. h : c + i - 1 = D - h + i
    BY <1>1
  <2> HIDE DEF c
  <2>2. Sized(SubSeq(db, c, D), D - c + 1) /\ \A i \in 1 .. D - c + 1 : SubSeq(db, c, D)[i] = db[c + i - 1]
    BY ONLY <1>1, <1>7, <2>1, SubIs
  <2> QED
    BY <2>1, <2>2 DEF c
<1>10. salt = SubSeq(db, D - h + 1, D)
  OBVIOUS
<1> HIDE DEF salt
<1>11. PssDb(salt) = db
  <2>1. PssShape(PssDb(salt), salt)
    BY <1>9, PssDbIs DEF h
  <2>2. PssShape(db, salt)
    BY ONLY <1>2, <1>7, <1>9, <1>10 DEF PssShape, h, D
  <2> QED
    BY <2>1, <2>2, PssShapeOnly
<1>12. PssBlock(m, salt) = y \o f \o end
  <2>1. PssBlock(m, salt) = ClearTop(XorBytes(PssDb(salt), Mgf(PssHash(m, salt), D))) \o PssHash(m, salt) \o end
    BY PssBlockIs DEF D
  <2> QED
    BY ONLY <1>2, <1>6, <1>7, <1>8, <1>11, <2>1
<1>13. em = y \o f \o end
  <2>1. L \in 1 .. L /\ L = D + h + 1 /\ L - 1 = D + h
    BY <1>1
  <2>2. SubSeq(em, L, L) = <<em[L]>>
    BY ONLY <1>0, <2>1, SingleOf
  <2>3. SubSeq(em, D + h + 1, D + h + 1) = end
    BY ONLY <1>2, <2>1, <2>2 DEF end
  <2> DEFINE one == 1
  <2>4. Split(em, y, D, f, h, end, one)
    BY ONLY <1>0, <1>1, <1>5, <2>1, <2>3 DEF Split
  <2> HIDE DEF one, end
  <2> QED
    BY ONLY <2>4, TripleOnly
<1>14. Sized(salt, HashLen) /\ em = PssBlock(m, salt)
  BY <1>9, <1>12, <1>13 DEF h
<1> QED
  BY ONLY <1>14

-----------------------------------------------------------------------------
LEMMA SignedFits ==
  ASSUME KeyFacts, HashesBytes, ctx.scheme = "pkcs1", NEW m \in Seq(Byte)
  PROVE  LET em == SignedBlock(m)
         IN  Sized(em, ctx.k) /\ NumberOf(em) \in Nat /\ NumberOf(em) < ctx.n
<1> DEFINE a == Hash(m, HashLen)
           h == HashLen
           c == Len(HashId)
           k == ctx.k
           t == HashId \o a
           r == k - Len(t) - 3
           fill == [i \in 1 .. r |-> ByteMod - 1]
           head == <<0, 1>>
           zero == <<0>>
           u == head \o fill
           s == u \o zero \o t
<1>1. h \in Nat /\ c \in Nat /\ PadMin \in Nat /\ Sized(HashId, c) /\ k \in Nat
  BY Sizes, KeyNumbers DEF Sized
<1>2. k >= c + h + 3 + PadMin
  BY DEF KeyFacts
<1>3. Sized(a, h)
  BY <1>1, HashIn
<1>4. s = SignedBlock(m)
  BY DEF SignedBlock
<1> HIDE DEF a, h, c, k
<1>5. Sized(t, c + h)
  BY ONLY <1>1, <1>3, Joined
<1>6. Len(t) = c + h /\ r \in Nat /\ 2 + r + 1 + (c + h) = k /\ r \in Int /\ r >= 0 /\ c + h \in Nat
  <2>1. Len(t) = c + h
    BY <1>5 DEF Sized
  <2> HIDE DEF t
  <2> QED
    BY <1>1, <1>2, <2>1
<1> HIDE DEF t, r
<1>7. Sized(fill, r)
  BY <1>6, Filled, SmallBytes
<1>8. Sized(head, 2) /\ head[1] = 0 /\ Sized(zero, 1)
  BY Pair, Singles, SmallBytes
<1> HIDE DEF fill, head, zero
<1> DEFINE n == 2 + r
           d == c + h
<1>9. n \in Nat /\ n > 0 /\ d \in Nat /\ n + 1 + d = k /\ n = 2 + r
  BY <1>6
<1>10. Sized(u, 2 + r) /\ u[1] = 0
  BY ONLY <1>7, <1>8, 2 > 0, Joined
<1>11. Sized(u, n) /\ Sized(t, d)
  BY <1>5, <1>10
<1> HIDE DEF n, d, u
<1>12. Triple(s, u, n, zero, 1, t, d)
  BY ONLY <1>8, <1>11, Triples
<1> HIDE DEF s
<1>13. Sized(s, k) /\ s[1] = 0
  <2>1. 1 \in 1 .. n
    BY <1>9
  <2> QED
    BY <1>9, <1>10, <1>12, <2>1 DEF Triple
<1>14. Sized(s, ctx.k)
  BY <1>13 DEF k
<1>15. NumberOf(s) \in Nat /\ NumberOf(s) < ctx.n
  BY <1>13, <1>14, BlockFits
<1> QED
  BY ONLY <1>4, <1>14, <1>15

-----------------------------------------------------------------------------
(* What the calls make and take, as numbers below the modulus.              *)
LEMMA Written ==
  ASSUME KeyFacts, NEW x \in Nat, x < ctx.n
  PROVE  Sized(BytesOf(ctx.k, x), ctx.k) /\ NumberOf(BytesOf(ctx.k, x)) = x
<1>1. ctx.k \in Nat /\ ctx.n \in Nat
  BY KeyNumbers
<1>2. x < Pow(ByteMod, ctx.k)
  <2>1. Pow(ByteMod, ctx.k) \in Nat
    BY <1>1, ByteModIs, PowSteps
  <2>2. ctx.n < Pow(ByteMod, ctx.k)
    BY DEF KeyFacts
  <2> QED
    BY ONLY <1>1, <2>1, <2>2, x \in Nat, x < ctx.n
<1> QED
  BY <1>1, <1>2, BytesAre DEF Sized

Below(x) == x \in Nat /\ x < ctx.n

LEMMA SameNumber ==
  ASSUME KeyFacts, NEW x, NEW y, Below(x), Below(y), BytesOf(ctx.k, x) = BytesOf(ctx.k, y)
  PROVE  x = y
<1>1. NumberOf(BytesOf(ctx.k, x)) = x
  BY Written DEF Below
<1>2. NumberOf(BytesOf(ctx.k, y)) = y
  BY Written DEF Below
<1> QED
  BY ONLY <1>1, <1>2, BytesOf(ctx.k, x) = BytesOf(ctx.k, y)

(* The operations, on numbers below the modulus.                            *)
LEMMA Undo ==
  ASSUME KeyFacts, NEW x, Below(x)
  PROVE  /\ Below(PublicOp(x)) /\ PrivateOp(PublicOp(x)) = x
         /\ Below(PrivateOp(x)) /\ PublicOp(PrivateOp(x)) = x
         /\ Power(x, ctx.d, ctx.n) = PrivateOp(x)
  BY OperationsUndo, PrivateIs DEF Below

(* The block of a ciphertext, and of a signature.                           *)
LEMMA CipherBlock ==
  ASSUME KeyFacts, NEW x, NEW y, Below(x), Below(y), BytesOf(ctx.k, x) = BytesOf(ctx.k, PublicOp(y))
  PROVE  PrivateOp(x) = y
<1>1. Below(PublicOp(y)) /\ PrivateOp(PublicOp(y)) = y
  BY Undo
<1>2. x = PublicOp(y)
  BY <1>1, SameNumber
<1> QED
  BY <1>1, <1>2

LEMMA SignatureBlock ==
  ASSUME KeyFacts, NEW x, NEW y, Below(x), Below(y),
         BytesOf(ctx.k, x) = BytesOf(ctx.k, Power(y, ctx.d, ctx.n))
  PROVE  PublicOp(x) = y
<1>1. Below(PrivateOp(y)) /\ PublicOp(PrivateOp(y)) = y /\ Power(y, ctx.d, ctx.n) = PrivateOp(y)
  BY Undo
<1>2. x = PrivateOp(y)
  BY <1>1, SameNumber
<1> QED
  BY <1>1, <1>2

LEMMA Kinds ==
  KeyFacts => \/ ctx.scheme = "textbook" /\ ctx.scheme # "pkcs1" /\ ctx.scheme # "oaep_pss"
              \/ ctx.scheme = "pkcs1" /\ ctx.scheme # "textbook" /\ ctx.scheme # "oaep_pss"
              \/ ctx.scheme = "oaep_pss" /\ ctx.scheme # "pkcs1" /\ ctx.scheme # "textbook"
  BY DEF KeyFacts

Pkcs1Paddings(m) == [1 .. ctx.k - 3 - Len(m) -> Byte \ {0}]

LEMMA CiphertextsAre ==
  ASSUME KeyFacts, NEW m
  PROVE  /\ ctx.scheme = "textbook" =>
              RsaCiphertexts(m) = IF NumberOf(m) >= ctx.n THEN {} ELSE {BytesOf(ctx.k, PublicOp(NumberOf(m)))}
         /\ ctx.scheme = "pkcs1" =>
              RsaCiphertexts(m) = IF Len(m) > Pkcs1Room THEN {}
                                  ELSE {BytesOf(ctx.k, PublicOp(NumberOf(Pkcs1Block(m, ps)))) : ps \in Pkcs1Paddings(m)}
         /\ ctx.scheme = "oaep_pss" =>
              RsaCiphertexts(m) = IF Len(m) > OaepRoom THEN {}
                                  ELSE {BytesOf(ctx.k, PublicOp(NumberOf(OaepBlock(m, seed)))) : seed \in Blocks(HashLen)}
<1>1. CASE ctx.scheme = "textbook"
  BY <1>1, Kinds DEF RsaCiphertexts, TooLong
<1>2. CASE ctx.scheme = "pkcs1"
  BY <1>2, Kinds DEF RsaCiphertexts, TooLong, Pkcs1Paddings
<1>3. CASE ctx.scheme = "oaep_pss"
  BY <1>3, Kinds DEF RsaCiphertexts, TooLong
<1> QED
  BY <1>1, <1>2, <1>3, Kinds

LEMMA SignaturesAre ==
  ASSUME KeyFacts, NEW m
  PROVE  /\ ctx.scheme = "textbook" => RsaSignatures(m) = {BytesOf(ctx.k, Power(NumberOf(m), ctx.d, ctx.n))}
         /\ ctx.scheme = "pkcs1" => RsaSignatures(m) = {BytesOf(ctx.k, Power(NumberOf(SignedBlock(m)), ctx.d, ctx.n))}
         /\ ctx.scheme = "oaep_pss" =>
              RsaSignatures(m) = {BytesOf(ctx.k, Power(NumberOf(PssBlock(m, salt)), ctx.d, ctx.n)) : salt \in Blocks(HashLen)}
<1>1. CASE ctx.scheme = "textbook"
  BY <1>1, Kinds DEF RsaSignatures
<1>2. CASE ctx.scheme = "pkcs1"
  BY <1>2, Kinds DEF RsaSignatures
<1>3. CASE ctx.scheme = "oaep_pss"
  BY <1>3, Kinds DEF RsaSignatures
<1> QED
  BY <1>1, <1>2, <1>3, Kinds

LEMMA PaddingsAre ==
  ASSUME KeyFacts, NEW m, NEW b, Sized(m, b), NEW ps \in Pkcs1Paddings(m), ~(ctx.k - 3 - b < 0)
  PROVE  Sized(ps, ctx.k - 3 - b) /\ NonZero(ps, ctx.k - 3 - b)
<1> DEFINE a == ctx.k - 3 - b
<1>0. ctx.k \in Nat
  BY KeyNumbers
<1>1. ps \in [1 .. a -> Byte \ {0}] /\ a \in Int /\ ~(a < 0)
  BY <1>0 DEF Pkcs1Paddings, Sized
<1> HIDE DEF a
<1>2. a \in Nat /\ ps \in [1 .. a -> Byte] /\ \A i \in 1 .. a : ps[i] # 0
  BY ONLY <1>1
<1>3. Sized(ps, a) /\ NonZero(ps, a)
  BY <1>2 DEF Sized, NonZero
<1> QED
  BY <1>3 DEF a

LEMMA PaddingMade ==
  ASSUME NEW m, NEW b, Sized(m, b), NEW ps, NEW a, Sized(ps, a), NonZero(ps, a), a = ctx.k - 3 - b
  PROVE  ps \in Pkcs1Paddings(m)
<1>1. ps \in [1 .. a -> Byte] /\ \A i \in 1 .. a : ps[i] \in Byte \ {0}
  BY DEF Sized, NonZero
<1>2. Pkcs1Paddings(m) = [1 .. a -> Byte \ {0}]
  BY DEF Pkcs1Paddings, Sized
<1> QED
  BY <1>1, <1>2

LEMMA BlockRoom ==
  ASSUME KeyFacts, ctx.scheme = "oaep_pss"
  PROVE  EmLen <= ctx.k /\ ctx.k >= 2 * HashLen + 2
<1> DEFINE B == ByteBits
           L == EmLen
           E == EmBits
           k == ctx.k
           h == HashLen
           n == ctx.n
           T == TopBits
<1>1. /\ L \in Nat /\ L > 0 /\ E \in Nat /\ T \in 1 .. B /\ T + B * (L - 1) = E /\ B \in Nat /\ B > 0
      /\ Pow(2, E) <= n /\ Pow(2, E) \in Nat
  BY PssNumbers, ByteAssumption
<1>2. k \in Nat /\ n \in Nat /\ h \in Nat
  BY KeyNumbers, Sizes
<1>3. n < Pow(Pow(2, B), k) /\ L >= 2 * h + 2
  BY DEF KeyFacts, ByteMod
<1> HIDE DEF B, L, E, k, h, n, T
<1>4. B * k \in Nat
  BY <1>1, <1>2
<1>5. Pow(2, B * k) = Pow(Pow(2, B), k)
  BY ONLY <1>1, <1>2, 2 \in Nat, PowPow
<1>6. Pow(2, B * k) \in Nat
  BY ONLY <1>4, 2 \in Nat, PowSteps
<1>7. E < B * k
  <2>1. SUFFICES ASSUME B * k <= E PROVE FALSE
    BY <1>1, <1>4
  <2> DEFINE c == B * k
  <2>2. c \in Nat /\ c <= E
    BY <1>4, <2>1
  <2> HIDE DEF c
  <2>3. Pow(2, c) <= Pow(2, E)
    BY ONLY <1>1, <2>2, 2 \in Nat, 2 > 0, PowMonotone
  <2> QED
    BY <1>1, <1>2, <1>3, <1>5, <1>6, <2>3 DEF c
<1>8. L <= k
  <2>1. SUFFICES ASSUME k <= L - 1 PROVE FALSE
    BY <1>1, <1>2
  <2> DEFINE l == L - 1
  <2>2. l \in Nat /\ k <= l
    BY <1>1, <2>1
  <2>5. T + B * l = E
    BY <1>1
  <2> HIDE DEF l
  <2>3. k * B <= l * B
    BY ONLY <1>1, <1>2, <2>2, Order
  <2>4. k * B = B * k /\ l * B = B * l /\ B * l \in Nat
    BY ONLY <1>1, <1>2, <2>2
  <2> QED
    BY ONLY <1>1, <1>4, <1>7, <2>3, <2>4, <2>5
<1> QED
  BY <1>1, <1>2, <1>3, <1>8 DEF L, k, h

-----------------------------------------------------------------------------
(* A ciphertext opens to its message.                                       *)
LEMMA CipherOpens ==
  ASSUME KeyFacts, HashesBytes, NEW m \in Seq(Byte), NEW x, Below(x), BytesOf(ctx.k, x) \in RsaCiphertexts(m)
  PROVE  LET block == Unpadded(BytesOf(ctx.k, PrivateOp(x)))
         IN  /\ ctx.scheme = "textbook" => PrivateOp(x) = NumberOf(m)
             /\ ctx.scheme # "textbook" => block.valid /\ block.m = m
<1> DEFINE b == Len(m)
           k == ctx.k
<1>1. b \in Nat /\ k \in Nat /\ Sized(m, b) /\ k = ctx.k /\ ctx.n \in Nat
  BY KeyNumbers DEF Sized
<1>2. CASE ctx.scheme = "textbook"
  <2> DEFINE y == NumberOf(m)
  <2>1. ~(y >= ctx.n) /\ BytesOf(ctx.k, x) = BytesOf(ctx.k, PublicOp(y))
    BY <1>2, CiphertextsAre
  <2>2. y \in Nat
    BY NumberIn
  <2>3. Below(y)
    BY <1>1, <2>1, <2>2 DEF Below
  <2>4. PrivateOp(x) = y
    BY <2>1, <2>3, CipherBlock
  <2> QED
    BY <1>2, <2>4
<1>3. CASE ctx.scheme = "pkcs1"
  <2>1. ~(b > Pkcs1Room) /\ \E ps \in Pkcs1Paddings(m) :
          BytesOf(ctx.k, x) = BytesOf(ctx.k, PublicOp(NumberOf(Pkcs1Block(m, ps))))
    <3>1. BytesOf(ctx.k, x) \in IF b > Pkcs1Room THEN {}
            ELSE {BytesOf(ctx.k, PublicOp(NumberOf(Pkcs1Block(m, ps)))) : ps \in Pkcs1Paddings(m)}
      BY <1>3, CiphertextsAre
    <3> HIDE DEF b
    <3> QED
      BY ONLY <3>1
  <2>2. PICK ps \in Pkcs1Paddings(m) : BytesOf(ctx.k, x) = BytesOf(ctx.k, PublicOp(NumberOf(Pkcs1Block(m, ps))))
    BY <2>1
  <2> DEFINE a == k - 3 - b
             em == Pkcs1Block(m, ps)
             y == NumberOf(em)
  <2>3. PadMin \in Nat /\ PadMin <= a /\ a \in Nat /\ 3 + a + b = k
    <3>1. ~(b > k - 3 - PadMin) /\ PadMin \in Nat
      BY <2>1, Sizes DEF Pkcs1Room
    <3>2. k \in Nat /\ b \in Nat
      BY <1>1
    <3> HIDE DEF k, b
    <3>3. a = k - 3 - b
      OBVIOUS
    <3> HIDE DEF a
    <3> QED
      BY ONLY <3>1, <3>2, <3>3
  <2>4. Sized(ps, a) /\ NonZero(ps, a)
    <3>1. ~(k - 3 - b < 0)
      BY <2>3
    <3> QED
      BY <1>1, <3>1, PaddingsAre
  <2>5. Sized(em, k) /\ Pkcs1Open(em).valid /\ Pkcs1Open(em).m = m
    <3> HIDE DEF a, b
    <3> QED
      BY <1>1, <2>3, <2>4, Pkcs1Opens
  <2>6. ps \in Seq(Byte) /\ 3 + Len(ps) + Len(m) = ctx.k
    BY <1>1, <2>3, <2>4 DEF Sized
  <2>7. Below(y)
    BY <2>6, Pkcs1Fits DEF Below
  <2> HIDE DEF em
  <2>8. PrivateOp(x) = y
    BY <2>2, <2>7, CipherBlock DEF em
  <2>9. BytesOf(k, y) = em
    BY ONLY <2>5, BytesBack
  <2>10. Unpadded(BytesOf(ctx.k, PrivateOp(x))) = Pkcs1Open(em)
    BY <1>3, <2>8, <2>9 DEF Unpadded
  <2> QED
    BY <1>3, <2>5, <2>10
<1>4. CASE ctx.scheme = "oaep_pss"
  <2>1. ~(b > OaepRoom) /\ \E seed \in Blocks(HashLen) :
          BytesOf(ctx.k, x) = BytesOf(ctx.k, PublicOp(NumberOf(OaepBlock(m, seed))))
    <3>1. BytesOf(ctx.k, x) \in IF b > OaepRoom THEN {}
            ELSE {BytesOf(ctx.k, PublicOp(NumberOf(OaepBlock(m, seed)))) : seed \in Blocks(HashLen)}
      BY <1>4, CiphertextsAre
    <3> HIDE DEF b
    <3> QED
      BY ONLY <3>1
  <2>2. PICK seed \in Blocks(HashLen) : BytesOf(ctx.k, x) = BytesOf(ctx.k, PublicOp(NumberOf(OaepBlock(m, seed))))
    BY <2>1
  <2> DEFINE em == OaepBlock(m, seed)
             y == NumberOf(em)
  <2>3. b <= OaepRoom
    <3>1. OaepRoom \in Int
      BY <1>1, Sizes DEF OaepRoom
    <3> QED
      BY <1>1, <2>1, <3>1
  <2>4. Sized(seed, HashLen)
    BY Sizes, BlocksAre
  <2>5. Sized(em, k) /\ OaepOpen(em).valid /\ OaepOpen(em).m = m
    BY <1>1, <2>3, <2>4, OaepOpens
  <2>7. Below(y)
    BY <2>3, OaepFits DEF Below
  <2> HIDE DEF em
  <2>8. PrivateOp(x) = y
    BY <2>2, <2>7, CipherBlock DEF em
  <2>9. BytesOf(k, y) = em
    BY ONLY <2>5, BytesBack
  <2>10. Unpadded(BytesOf(ctx.k, PrivateOp(x))) = OaepOpen(em)
    BY <1>4, Kinds, <2>8, <2>9 DEF Unpadded
  <2> QED
    BY <1>4, <2>5, <2>10
<1> QED
  BY <1>2, <1>3, <1>4, Kinds

(* What opens is a ciphertext of what it opens to.                          *)
LEMMA CipherGenuine ==
  ASSUME KeyFacts, HashesBytes, NEW x, Below(x)
  PROVE  LET block == Unpadded(BytesOf(ctx.k, PrivateOp(x)))
         IN  /\ ctx.scheme = "textbook" => BytesOf(ctx.k, x) \in RsaCiphertexts(Minimal(PrivateOp(x)))
             /\ ctx.scheme # "textbook" /\ block.valid => BytesOf(ctx.k, x) \in RsaCiphertexts(block.m)
<1> DEFINE y == PrivateOp(x)
           k == ctx.k
           em == BytesOf(k, y)
<1>1. Below(y) /\ PublicOp(y) = x /\ k \in Nat /\ ctx.n \in Nat
  BY Undo, KeyNumbers
<1> HIDE DEF y
<1>2. Sized(em, k) /\ NumberOf(em) = y
  BY <1>1, Written DEF Below
<1>3. CASE ctx.scheme = "textbook"
  <2> DEFINE m == Minimal(y)
  <2>1. NumberOf(m) = y
    BY <1>1, MinimalIs DEF Below
  <2>2. ~(NumberOf(m) >= ctx.n)
    BY <1>1, <2>1 DEF Below
  <2>3. RsaCiphertexts(m) = {BytesOf(ctx.k, PublicOp(NumberOf(m)))}
    BY <1>3, <2>2, CiphertextsAre
  <2>4. BytesOf(ctx.k, x) \in RsaCiphertexts(m)
    BY <1>1, <2>1, <2>3
  <2> QED
    BY <1>3, <2>4 DEF y
<1>4. CASE ctx.scheme = "pkcs1"
  <2>1. Unpadded(em) = Pkcs1Open(em)
    BY <1>4 DEF Unpadded
  <2> HIDE DEF em
  <2> SUFFICES ASSUME Pkcs1Open(em).valid PROVE BytesOf(ctx.k, x) \in RsaCiphertexts(Pkcs1Open(em).m)
    BY <1>4, <2>1 DEF em, y
  <2> DEFINE m == Pkcs1Open(em).m
  <2>2. ctx.k >= 3
    <3>1. ctx.k >= Len(HashId) + HashLen + 3 + PadMin
      BY <1>4 DEF KeyFacts
    <3>2. Len(HashId) \in Nat /\ HashLen \in Nat /\ PadMin \in Nat
      BY Sizes
    <3> QED
      BY <1>1, <3>1, <3>2
  <2>3. PICK ps, a, b : /\ Sized(ps, a) /\ Sized(m, b) /\ NonZero(ps, a)
                        /\ 3 + a + b = ctx.k /\ PadMin <= a /\ em = Pkcs1Block(m, ps)
    BY <1>2, <2>2, Pkcs1Encoded
  <2> HIDE DEF m
  <2>4. a \in Nat /\ b \in Nat /\ a = ctx.k - 3 - b /\ Len(m) = b /\ PadMin \in Nat
    <3>1. a \in Nat /\ b \in Nat /\ Len(m) = b /\ PadMin \in Nat
      BY <2>3, Sizes DEF Sized
    <3>2. 3 + a + b = ctx.k
      BY <2>3
    <3> QED
      BY ONLY <3>1, <3>2
  <2>5. ps \in Pkcs1Paddings(m)
    <3>1. Sized(m, b) /\ Sized(ps, a) /\ NonZero(ps, a) /\ a = ctx.k - 3 - b
      BY <2>3, <2>4
    <3> QED
      BY ONLY <3>1, PaddingMade
  <2>6. ~(Len(m) > Pkcs1Room)
    <3>1. Pkcs1Room = ctx.k - 3 - PadMin
      BY DEF Pkcs1Room
    <3>2. PadMin <= a
      BY <2>3
    <3> QED
      BY ONLY <1>1, <2>4, <3>1, <3>2
  <2>7. RsaCiphertexts(m) = {BytesOf(ctx.k, PublicOp(NumberOf(Pkcs1Block(m, z)))) : z \in Pkcs1Paddings(m)}
    BY <1>4, <2>6, CiphertextsAre
  <2>8. BytesOf(ctx.k, x) = BytesOf(ctx.k, PublicOp(NumberOf(Pkcs1Block(m, ps))))
    BY <1>1, <1>2, <2>3
  <2> QED
    BY <2>5, <2>7, <2>8 DEF m
<1>5. CASE ctx.scheme = "oaep_pss"
  <2>1. Unpadded(em) = OaepOpen(em)
    BY <1>5, Kinds DEF Unpadded
  <2> HIDE DEF em
  <2> SUFFICES ASSUME OaepOpen(em).valid PROVE BytesOf(ctx.k, x) \in RsaCiphertexts(OaepOpen(em).m)
    BY <1>5, Kinds, <2>1 DEF em, y
  <2> DEFINE m == OaepOpen(em).m
  <2>2. ctx.k >= 2 * HashLen + 2
    BY <1>5, BlockRoom
  <2>3. PICK seed, b : Sized(m, b) /\ b <= OaepRoom /\ Sized(seed, HashLen) /\ em = OaepBlock(m, seed)
    BY <1>2, <2>2, OaepEncoded
  <2> HIDE DEF m
  <2>5. seed \in Blocks(HashLen)
    BY <2>3, Sizes, BlocksAre
  <2>6. ~(Len(m) > OaepRoom)
    <3>1. b \in Nat /\ Len(m) = b /\ OaepRoom \in Int
      BY <1>1, <2>3, Sizes DEF Sized, OaepRoom
    <3> QED
      BY <2>3, <3>1
  <2>7. RsaCiphertexts(m) = {BytesOf(ctx.k, PublicOp(NumberOf(OaepBlock(m, z)))) : z \in Blocks(HashLen)}
    BY <1>5, <2>6, CiphertextsAre
  <2>8. BytesOf(ctx.k, x) = BytesOf(ctx.k, PublicOp(NumberOf(OaepBlock(m, seed))))
    BY <1>1, <1>2, <2>3
  <2> QED
    BY <2>5, <2>7, <2>8 DEF m
<1> QED
  BY <1>3, <1>4, <1>5, Kinds

LEMMA ValidIs ==
  ASSUME KeyFacts, NEW m, NEW s
  PROVE  LET x == NumberOf(s)
             y == PublicOp(x)
         IN  /\ ctx.scheme = "textbook" => (RsaValid(m, s) <=> x < ctx.n /\ y = NumberOf(m))
             /\ ctx.scheme = "pkcs1" =>
                  (RsaValid(m, s) <=> x < ctx.n /\ Len(s) = ctx.k /\ BytesOf(ctx.k, y) = SignedBlock(m))
             /\ ctx.scheme = "oaep_pss" =>
                  (RsaValid(m, s) <=> x < ctx.n /\ Len(s) = ctx.k /\ Fits(EmLen, y)
                                      /\ PssValid(m, BytesOf(EmLen, y)))
<1>1. CASE ctx.scheme = "textbook"
  BY <1>1, Kinds DEF RsaValid
<1>2. CASE ctx.scheme = "pkcs1"
  BY <1>2, Kinds DEF RsaValid
<1>3. CASE ctx.scheme = "oaep_pss"
  BY <1>3, Kinds DEF RsaValid
<1> QED
  BY <1>1, <1>2, <1>3, Kinds

(* A signature verifies.                                                    *)
LEMMA SignatureOpens ==
  ASSUME KeyFacts, HashesBytes, NEW m \in Seq(Byte), NEW s, Below(NumberOf(s)),
         ctx.scheme = "textbook" => Below(NumberOf(m)),
         ctx.scheme # "textbook" => Len(s) = ctx.k,
         BytesOf(ctx.k, NumberOf(s)) \in RsaSignatures(m)
  PROVE  RsaValid(m, s)
<1> DEFINE x == NumberOf(s)
<1>1. Below(x) /\ x < ctx.n
  BY DEF Below
<1>2. CASE ctx.scheme = "textbook"
  <2>1. BytesOf(ctx.k, x) = BytesOf(ctx.k, Power(NumberOf(m), ctx.d, ctx.n))
    BY <1>2, SignaturesAre
  <2>2. Below(NumberOf(m))
    BY <1>2
  <2>3. PublicOp(x) = NumberOf(m)
    BY <1>1, <2>1, <2>2, SignatureBlock
  <2> QED
    BY <1>1, <1>2, <2>3, ValidIs
<1>3. CASE ctx.scheme = "pkcs1"
  <2> DEFINE em == SignedBlock(m)
  <2>1. BytesOf(ctx.k, x) = BytesOf(ctx.k, Power(NumberOf(em), ctx.d, ctx.n))
    BY <1>3, SignaturesAre
  <2>2. Sized(em, ctx.k) /\ Below(NumberOf(em))
    BY <1>3, SignedFits DEF Below
  <2>4. em = SignedBlock(m)
    OBVIOUS
  <2> HIDE DEF em
  <2>3. PublicOp(x) = NumberOf(em)
    BY <1>1, <2>1, <2>2, SignatureBlock
  <2>5. BytesOf(ctx.k, NumberOf(em)) = em
    BY ONLY <2>2, BytesBack
  <2>6. Len(s) = ctx.k
    BY <1>3, Kinds
  <2> QED
    BY <1>1, <1>3, <2>3, <2>4, <2>5, <2>6, ValidIs
<1>4. CASE ctx.scheme = "oaep_pss"
  <2>1. PICK salt \in Blocks(HashLen) :
          BytesOf(ctx.k, x) = BytesOf(ctx.k, Power(NumberOf(PssBlock(m, salt)), ctx.d, ctx.n))
    BY <1>4, SignaturesAre
  <2> DEFINE em == PssBlock(m, salt)
  <2>2. Sized(salt, HashLen)
    BY Sizes, BlocksAre
  <2>3. Sized(em, EmLen) /\ PssValid(m, em) /\ Below(NumberOf(em))
    BY <1>4, <2>2, PssOpens DEF Below
  <2>4. BytesOf(ctx.k, x) = BytesOf(ctx.k, Power(NumberOf(em), ctx.d, ctx.n))
    BY <2>1
  <2> HIDE DEF em
  <2>5. PublicOp(x) = NumberOf(em)
    BY <1>1, <2>3, <2>4, SignatureBlock
  <2>6. BytesOf(EmLen, NumberOf(em)) = em /\ NumberOf(em) \in Nat /\ NumberOf(em) < Pow(ByteMod, EmLen)
    BY ONLY <2>3, BytesBack
  <2>7. Fits(EmLen, NumberOf(em))
    BY <2>6 DEF Fits
  <2>8. Len(s) = ctx.k
    BY <1>4, Kinds
  <2> QED
    BY <1>1, <1>4, <2>3, <2>5, <2>6, <2>7, <2>8, ValidIs
<1> QED
  BY <1>2, <1>3, <1>4, Kinds

(* What verifies is a signature.                                            *)
LEMMA SignatureGenuine ==
  ASSUME KeyFacts, HashesBytes, NEW m \in Seq(Byte), NEW s \in Seq(Byte), RsaValid(m, s)
  PROVE  BytesOf(ctx.k, NumberOf(s)) \in RsaSignatures(m)
<1> DEFINE x == NumberOf(s)
           y == PublicOp(x)
<1>1. x \in Nat /\ x < ctx.n
  BY NumberIn, ValidIs, Kinds
<1>2. Below(x)
  BY <1>1 DEF Below
<1>3. Below(y) /\ PrivateOp(y) = x
  BY <1>2, Undo
<1>4. Power(y, ctx.d, ctx.n) = x
  BY <1>3, Undo
<1>5. CASE ctx.scheme = "textbook"
  <2>1. y = NumberOf(m)
    BY <1>5, ValidIs
  <2> QED
    BY <1>4, <1>5, <2>1, SignaturesAre
<1>6. CASE ctx.scheme = "pkcs1"
  <2>1. BytesOf(ctx.k, y) = SignedBlock(m)
    BY <1>6, ValidIs
  <2>2. NumberOf(BytesOf(ctx.k, y)) = y
    BY <1>3, Written DEF Below
  <2> QED
    BY <1>4, <1>6, <2>1, <2>2, SignaturesAre
<1>7. CASE ctx.scheme = "oaep_pss"
  <2> DEFINE em == BytesOf(EmLen, y)
  <2>1. Fits(EmLen, y) /\ PssValid(m, em)
    BY <1>7, ValidIs
  <2>2. EmLen \in Nat
    BY <1>7, PssNumbers
  <2>3. Sized(em, EmLen) /\ NumberOf(em) = y
    BY <1>3, <2>1, <2>2, BytesAre DEF Below, Fits, Sized
  <2> HIDE DEF em
  <2>4. PICK salt : Sized(salt, HashLen) /\ em = PssBlock(m, salt)
    BY <1>7, <2>1, <2>3, PssEncoded
  <2>5. salt \in Blocks(HashLen)
    BY <2>4, Sizes, BlocksAre
  <2>6. RsaSignatures(m) = {BytesOf(ctx.k, Power(NumberOf(PssBlock(m, z)), ctx.d, ctx.n)) : z \in Blocks(HashLen)}
    BY <1>7, SignaturesAre
  <2>7. Power(NumberOf(PssBlock(m, salt)), ctx.d, ctx.n) = x
    BY <1>4, <2>3, <2>4
  <2> QED
    BY <2>5, <2>6, <2>7
<1> QED
  BY <1>5, <1>6, <1>7, Kinds

LEMMA Steady ==
  ASSUME ctx' = ctx, NEW m
  PROVE  RsaCiphertexts(m)' = RsaCiphertexts(m) /\ RsaSignatures(m)' = RsaSignatures(m)
<1>1. RsaCiphertexts(m)' = RsaCiphertexts(m)
  BY DEF RsaCiphertexts, TooLong, Pkcs1Room, OaepRoom, OaepBlock, PublicOp, Pkcs1Block
<1>2. RsaSignatures(m)' = RsaSignatures(m)
  BY DEF RsaSignatures, SignedBlock, PssBlock, ClearTop, DbLen, EmLen, EmBits
<1> QED
  BY <1>1, <1>2

-----------------------------------------------------------------------------
(* What was given is bytes.                                                 *)
ForeignAreBytes ==
  /\ \A c : c.family = "rsa" => /\ ForeignCiphers(c) \subseteq Seq(Byte)
                                /\ \A f \in ForeignSigned(c) : f[1] \in Seq(Byte) /\ f[2] \in Seq(Byte)
  /\ \A c : c.family \in {"dl", "ec"} =>
       \A f \in ForeignSigned(c) : f[1] \in Seq(Byte) /\ f[2][1] \in Seq(Byte) /\ f[2][2] \in Seq(Byte)

(* What the calls that seal made: a ciphertext and a signature of its       *)
(* message, of the right length.                                            *)
Encrypted(m, out) ==
  /\ m \in Seq(Byte) /\ out \in Seq(Byte) /\ Below(NumberOf(out))
  /\ ctx.scheme # "textbook" => Len(out) = ctx.k
  /\ BytesOf(ctx.k, NumberOf(out)) \in RsaCiphertexts(m)

Signed(m, out) ==
  /\ m \in Seq(Byte) /\ out \in Seq(Byte) /\ Below(NumberOf(out))
  /\ ctx.scheme = "textbook" => Below(NumberOf(m))
  /\ ctx.scheme # "textbook" => Len(out) = ctx.k
  /\ BytesOf(ctx.k, NumberOf(out)) \in RsaSignatures(m)

Kept ==
  /\ pc = "encrypt" => ctx.scheme = "pkcs1" /\ NonZero(drawn, Len(drawn)) /\ ~TooLong(task)
  /\ made.call = "encrypt" => Encrypted(made.m, made.out)
  /\ made.call = "sign" => Signed(made.m, made.out)

RoundInv == SealInv /\ (ctx.family = "rsa" => Kept /\ RoundTrip /\ OnlyGenuine)

LEMMA SealedStay ==
  ASSUME ctx' = ctx, NEW m, NEW out
  PROVE  Encrypted(m, out)' = Encrypted(m, out) /\ Signed(m, out)' = Signed(m, out)
<1>1. RsaCiphertexts(m)' = RsaCiphertexts(m) /\ RsaSignatures(m)' = RsaSignatures(m)
  BY Steady
<1> QED
  BY <1>1 DEF Encrypted, Signed, Below

LEMMA RsaFacts == ASSUME SealInv, ctx.family = "rsa" PROVE KeyFacts
<1>1. PICK c \in RsaContexts : ctx = RsaKey(c)
  BY DEF SealInv
<1> QED
  BY <1>1, RsaKeyFacts

LEMMA RoundInit == Init => RoundInv
<1> SUFFICES ASSUME Init PROVE RoundInv
  OBVIOUS
<1>1. pc = "ready" /\ last = NoCall /\ made = Nothing
  BY DEF Init, RsaInit, GroupInit, Ready
<1>2. Kept /\ RoundTrip /\ OnlyGenuine
  BY <1>1 DEF Kept, RoundTrip, OnlyGenuine, NoCall, Nothing
<1> QED
  BY <1>2, SealInit DEF RoundInv

(* A call that seals returns.                                               *)
LEMMA SealReturned ==
  ASSUME RoundInv, SealInv', ctx.family = "rsa", NEW call \in {"encrypt", "sign"}, NEW m, NEW status,
         Return(call, m, <<>>, status),
         \/ made' = made
         \/ \E out : /\ made' = [call |-> call, m |-> m, out |-> out]
                     /\ call = "encrypt" => Encrypted(m, out)
                     /\ call = "sign" => Signed(m, out)
  PROVE  RoundInv'
<1>1. ctx' = ctx /\ pc' = "ready" /\ last' = [call |-> call, m |-> m, in |-> <<>>, status |-> status]
  BY DEF Return
<1>2. RoundTrip' /\ OnlyGenuine'
  BY <1>1 DEF RoundTrip, OnlyGenuine
<1>3. Kept'
  <2>1. CASE made' = made
    <3>1. made.call = "encrypt" => Encrypted(made.m, made.out)
      BY DEF RoundInv, Kept
    <3>2. made.call = "sign" => Signed(made.m, made.out)
      BY DEF RoundInv, Kept
    <3> QED
      BY <1>1, <2>1, <3>1, <3>2, SealedStay DEF Kept
  <2>2. ASSUME NEW out, made' = [call |-> call, m |-> m, out |-> out],
               call = "encrypt" => Encrypted(m, out), call = "sign" => Signed(m, out)
        PROVE  Kept'
    <3>1. made'.call = call /\ made'.m = m /\ made'.out = out
      BY ONLY <2>2
    <3>2. made'.call = "encrypt" => Encrypted(made'.m, made'.out)
      BY <2>2, <3>1
    <3>3. made'.call = "sign" => Signed(made'.m, made'.out)
      BY <2>2, <3>1
    <3> QED
      BY <1>1, <3>2, <3>3, SealedStay DEF Kept
  <2> QED
    BY <2>1, <2>2
<1> QED
  BY <1>1, <1>2, <1>3 DEF RoundInv

(* A call that opens returns.                                               *)
LEMMA OpenReturned ==
  ASSUME RoundInv, SealInv', ctx.family = "rsa", NEW call \in {"decrypt", "verify"}, NEW m, NEW in, NEW status,
         Open(call, m, in, status),
         RoundTrip', OnlyGenuine'
  PROVE  RoundInv'
<1>1. ctx' = ctx /\ pc' = "ready" /\ made' = made
  BY DEF Open, Return
<1>2. made.call = "encrypt" => Encrypted(made.m, made.out)
  BY DEF RoundInv, Kept
<1>3. made.call = "sign" => Signed(made.m, made.out)
  BY DEF RoundInv, Kept
<1>4. Kept'
  BY <1>1, <1>2, <1>3, SealedStay DEF Kept
<1> QED
  BY <1>4 DEF RoundInv

LEMMA StayRound ==
  ASSUME RoundTrip, OnlyGenuine, ctx.family = "rsa", ctx' = ctx, made' = made, last' = last
  PROVE  RoundTrip' /\ OnlyGenuine'
<1>1. RoundTrip'
  BY DEF RoundTrip, Returned
<1>2. OnlyGenuine'
  <2>1. RsaCiphertexts(last.m)' = RsaCiphertexts(last.m) /\ RsaSignatures(last.m)' = RsaSignatures(last.m)
    BY DEF RsaCiphertexts, TooLong, Pkcs1Room, OaepRoom, OaepBlock, PublicOp, Pkcs1Block,
           RsaSignatures, SignedBlock, PssBlock, ClearTop, DbLen, EmLen, EmBits
  <2>2. ctx.family \notin {"dl", "ec"}
    OBVIOUS
  <2> QED
    BY <2>1, <2>2 DEF OnlyGenuine, InGroup
<1> QED
  BY <1>1, <1>2

LEMMA PublicSealed ==
  ASSUME RoundInv, KeyFacts, SealInv', ctx.family = "rsa", NEW m \in Seq(Byte), NEW em, Below(NumberOf(em)),
         BytesOf(ctx.k, PublicOp(NumberOf(em))) \in RsaCiphertexts(m), SealPublic(m, em)
  PROVE  RoundInv'
<1> DEFINE y == PublicOp(NumberOf(em))
           out == BytesOf(ctx.k, y)
<1>1. Below(y)
  BY Undo
<1>2. Sized(out, ctx.k) /\ NumberOf(out) = y
  BY <1>1, Written DEF Below
<1>3. Seal("encrypt", m, out)
  <2>1. SealBytes("encrypt", m, y)
    BY DEF SealPublic, Below
  <2>2. Fits(ctx.k, y)
    BY OperationsFit DEF Below
  <2> QED
    BY <2>1, <2>2 DEF SealBytes
<1>4. Encrypted(m, out)
  BY <1>1, <1>2 DEF Encrypted, Sized
<1>5. Return("encrypt", m, <<>>, "ok") /\ made' = [call |-> "encrypt", m |-> m, out |-> out]
  BY <1>3 DEF Seal
<1> HIDE DEF out
<1> QED
  BY <1>4, <1>5, SealReturned

LEMMA EncryptKeeps ==
  ASSUME RoundInv, HashesBytes, NEW m \in Seq(Byte), RsaEncrypt(m) PROVE RoundInv'
<1>1. ctx.family = "rsa" /\ SealInv' /\ SealInv
  BY EncryptFits DEF RoundInv, RsaEncrypt
<1>2. KeyFacts
  BY <1>1, RsaFacts
<1>3. ASSUME NEW status, Refuse("encrypt", m, status) PROVE RoundInv'
  BY <1>1, <1>3, SealReturned DEF Refuse
<1>4. CASE ctx.scheme = "textbook" /\ ~TooLong(m) /\ Seal("encrypt", m, Minimal(PublicOp(NumberOf(m))))
  <2> DEFINE x == NumberOf(m)
             y == PublicOp(x)
             out == Minimal(y)
  <2>1. ~(x >= ctx.n)
    BY <1>4 DEF TooLong
  <2>2. Below(x)
    BY <2>1, NumberIn, <1>2, KeyNumbers DEF Below
  <2>3. Below(y)
    BY <1>2, <2>2, Undo
  <2>4. out \in Seq(Byte) /\ NumberOf(out) = y
    BY <2>3, MinimalIs DEF Below
  <2>5. BytesOf(ctx.k, y) \in RsaCiphertexts(m)
    BY <1>2, <1>4, <2>1, CiphertextsAre
  <2>6. Encrypted(m, out)
    BY <1>4, <2>3, <2>4, <2>5 DEF Encrypted
  <2>7. Return("encrypt", m, <<>>, "ok") /\ made' = [call |-> "encrypt", m |-> m, out |-> out]
    BY <1>4 DEF Seal
  <2> HIDE DEF out
  <2> QED
    BY <1>1, <2>6, <2>7, SealReturned
<1>5. CASE ctx.scheme = "pkcs1" /\ ~TooLong(m) /\ Begin("encrypt", m, <<>>)
  <2>1. ctx' = ctx /\ made' = made /\ last' = last /\ pc' = "encrypt" /\ task' = m /\ drawn' = <<>>
    BY <1>5 DEF Begin
  <2>2. RoundTrip' /\ OnlyGenuine'
    BY <1>1, <2>1, StayRound DEF RoundInv
  <2>3. NonZero(<<>>, Len(<<>>))
    BY DEF NonZero
  <2>4. TooLong(m)' = TooLong(m)
    BY <2>1 DEF TooLong, Pkcs1Room, OaepRoom
  <2>5. made.call = "encrypt" => Encrypted(made.m, made.out)
    BY <1>1 DEF RoundInv, Kept
  <2>6. made.call = "sign" => Signed(made.m, made.out)
    BY <1>1 DEF RoundInv, Kept
  <2>7. Kept'
    <3>1. ctx'.scheme = "pkcs1" /\ NonZero(drawn', Len(drawn')) /\ ~TooLong(task)'
      BY <1>5, <2>1, <2>3, <2>4 DEF TooLong, Pkcs1Room, OaepRoom
    <3> QED
      BY <2>1, <2>5, <2>6, <3>1, SealedStay DEF Kept, NonZero
  <2> QED
    BY <1>1, <2>2, <2>7 DEF RoundInv
<1>6. ASSUME ctx.scheme = "oaep_pss", ~TooLong(m), NEW seed \in Blocks(HashLen),
             SealPublic(m, OaepBlock(m, seed))
      PROVE  RoundInv'
  <2>1. ~(Len(m) > OaepRoom)
    BY <1>6 DEF TooLong
  <2>2. Len(m) <= OaepRoom
    <3>1. Len(m) \in Nat /\ OaepRoom \in Int
      BY <1>2, OaepRoomIn
    <3> QED
      BY <2>1, <3>1
  <2>3. Below(NumberOf(OaepBlock(m, seed)))
    BY <1>2, <2>2, OaepFits DEF Below
  <2>4. BytesOf(ctx.k, PublicOp(NumberOf(OaepBlock(m, seed)))) \in RsaCiphertexts(m)
    BY <1>2, <1>6, <2>1, CiphertextsAre
  <2> QED
    BY <1>1, <1>2, <1>6, <2>3, <2>4, PublicSealed
<1> QED
  BY <1>3, <1>4, <1>5, <1>6 DEF RsaEncrypt

LEMMA PaddedKeeps ==
  ASSUME RoundInv, Pad \/ RsaEncryptPadded PROVE RoundInv'
<1>1. ctx.family = "rsa" /\ SealInv' /\ SealInv /\ pc = "encrypt"
  BY PaddedFits DEF RoundInv, Pad, Padding, RsaEncryptPadded
<1>2. KeyFacts
  BY <1>1, RsaFacts
<1>3. /\ task \in Seq(Byte) /\ drawn \in Seq(Byte) /\ 3 + Len(drawn) + Len(task) <= ctx.k
      /\ ctx.scheme = "pkcs1" /\ NonZero(drawn, Len(drawn)) /\ ~TooLong(task)
  BY <1>1 DEF RoundInv, SealInv, Kept
<1>4. CASE Pad
  <2>1. PICK b \in Byte : Drew(IF b = 0 THEN drawn ELSE Append(drawn, b))
    BY <1>4 DEF Pad
  <2>2. ctx' = ctx /\ made' = made /\ last' = last /\ pc' = pc /\ task' = task
        /\ drawn' = IF b = 0 THEN drawn ELSE Append(drawn, b)
    BY <2>1 DEF Drew
  <2>3. RoundTrip' /\ OnlyGenuine'
    BY <1>1, <2>2, StayRound DEF RoundInv
  <2>4. NonZero(drawn', Len(drawn'))
    <3>1. CASE b = 0
      BY <1>3, <2>2, <3>1
    <3>2. CASE b # 0
      <4>1. drawn' = Append(drawn, b)
        BY <2>2, <3>2
      <4>2. Len(drawn') = Len(drawn) + 1 /\ drawn'[Len(drawn) + 1] = b /\ Len(drawn) \in Nat
            /\ \A i \in 1 .. Len(drawn) : drawn'[i] = drawn[i]
        BY <1>3, <4>1
      <4>3. \A i \in 1 .. Len(drawn) : drawn[i] # 0
        BY <1>3 DEF NonZero
      <4> QED
        BY <3>2, <4>2, <4>3 DEF NonZero
    <3> QED
      BY <3>1, <3>2
  <2>5. ~TooLong(task)'
    BY <1>3, <2>2 DEF TooLong, Pkcs1Room, OaepRoom
  <2>6. made.call = "encrypt" => Encrypted(made.m, made.out)
    BY <1>1 DEF RoundInv, Kept
  <2>7. made.call = "sign" => Signed(made.m, made.out)
    BY <1>1 DEF RoundInv, Kept
  <2>8. Kept'
    BY <1>3, <2>2, <2>4, <2>5, <2>6, <2>7, SealedStay DEF Kept, NonZero
  <2> QED
    BY <1>1, <2>3, <2>8 DEF RoundInv
<1>5. CASE RsaEncryptPadded
  <2> DEFINE m == task
             ps == drawn
             b == Len(task)
             a == Len(drawn)
             em == Pkcs1Block(task, drawn)
  <2>1. SealPublic(task, Pkcs1Block(task, drawn)) /\ ~(Len(drawn) < ctx.k - 3 - Len(task))
    BY <1>1, <1>5 DEF RsaEncryptPadded, Padding
  <2>2. a \in Nat /\ b \in Nat /\ ctx.k \in Nat /\ a = ctx.k - 3 - b /\ 3 + a + b = ctx.k
    <3>0. ctx.k \in Nat
      BY <1>2, KeyNumbers
    <3>1. a \in Nat /\ b \in Nat /\ ctx.k \in Nat /\ 3 + a + b <= ctx.k /\ ~(a < ctx.k - 3 - b)
      BY ONLY <1>3, <2>1, <3>0
    <3> HIDE DEF a, b
    <3> QED
      BY ONLY <3>1
  <2>3. Sized(m, b) /\ Sized(ps, a) /\ NonZero(ps, a) /\ a = ctx.k - 3 - b
    BY <1>3, <2>2 DEF Sized
  <2>4. ps \in Pkcs1Paddings(m)
    <3> HIDE DEF m, ps, a, b
    <3> QED
      BY ONLY <2>3, PaddingMade
  <2>5. Below(NumberOf(em))
    BY <1>2, <1>3, <2>2, Pkcs1Fits DEF Below
  <2>6. BytesOf(ctx.k, PublicOp(NumberOf(em))) \in RsaCiphertexts(m)
    <3>1. ~(Len(m) > Pkcs1Room)
      BY <1>3 DEF TooLong
    <3> QED
      BY <1>2, <1>3, <2>4, <3>1, CiphertextsAre
  <2> QED
    BY <1>1, <1>2, <1>3, <2>1, <2>5, <2>6, PublicSealed
<1> QED
  BY <1>4, <1>5

LEMMA PrivateSealed ==
  ASSUME RoundInv, KeyFacts, SealInv', ctx.family = "rsa", ctx.scheme # "textbook",
         NEW m \in Seq(Byte), NEW x, Below(x),
         BytesOf(ctx.k, Power(x, ctx.d, ctx.n)) \in RsaSignatures(m), SealBytes("sign", m, PrivateOp(x))
  PROVE  RoundInv'
<1> DEFINE y == PrivateOp(x)
           out == BytesOf(ctx.k, y)
<1>1. Below(y) /\ Power(x, ctx.d, ctx.n) = y
  BY Undo
<1>2. Sized(out, ctx.k) /\ NumberOf(out) = y
  BY <1>1, Written DEF Below
<1>3. Seal("sign", m, out)
  <2>1. Fits(ctx.k, y)
    BY OperationsFit DEF Below
  <2> QED
    BY <2>1 DEF SealBytes
<1>4. Signed(m, out)
  BY <1>1, <1>2 DEF Signed, Sized
<1>5. Return("sign", m, <<>>, "ok") /\ made' = [call |-> "sign", m |-> m, out |-> out]
  BY <1>3 DEF Seal
<1> HIDE DEF out
<1> QED
  BY <1>4, <1>5, SealReturned

LEMMA SignKeeps ==
  ASSUME RoundInv, HashesBytes, NEW m \in Seq(Byte), RsaSign(m) PROVE RoundInv'
<1>1. ctx.family = "rsa" /\ SealInv' /\ SealInv
  BY SignFits DEF RoundInv, RsaSign
<1>2. KeyFacts
  BY <1>1, RsaFacts
<1>3. ASSUME NEW status, Refuse("sign", m, status) PROVE RoundInv'
  BY <1>1, <1>3, SealReturned DEF Refuse
<1>4. CASE ctx.scheme = "textbook" /\ ~TooLong(m) /\ Seal("sign", m, Minimal(PrivateOp(NumberOf(m))))
  <2> DEFINE x == NumberOf(m)
             y == PrivateOp(x)
             out == Minimal(y)
  <2>1. ~(x >= ctx.n)
    BY <1>4 DEF TooLong
  <2>2. Below(x)
    BY <2>1, NumberIn, <1>2, KeyNumbers DEF Below
  <2>3. Below(y) /\ Power(x, ctx.d, ctx.n) = y
    BY <1>2, <2>2, Undo
  <2>4. out \in Seq(Byte) /\ NumberOf(out) = y
    BY <2>3, MinimalIs DEF Below
  <2>5. BytesOf(ctx.k, y) \in RsaSignatures(m)
    BY <1>2, <1>4, <2>3, SignaturesAre
  <2>6. Signed(m, out)
    BY <1>4, <2>2, <2>3, <2>4, <2>5 DEF Signed
  <2>7. Return("sign", m, <<>>, "ok") /\ made' = [call |-> "sign", m |-> m, out |-> out]
    BY <1>4 DEF Seal
  <2> HIDE DEF out
  <2> QED
    BY <1>1, <2>6, <2>7, SealReturned
<1>5. CASE ctx.scheme = "pkcs1" /\ SealBytes("sign", m, PrivateOp(NumberOf(SignedBlock(m))))
  <2>1. Below(NumberOf(SignedBlock(m)))
    BY <1>2, <1>5, SignedFits DEF Below
  <2>2. BytesOf(ctx.k, Power(NumberOf(SignedBlock(m)), ctx.d, ctx.n)) \in RsaSignatures(m)
    BY <1>2, <1>5, SignaturesAre
  <2> QED
    BY <1>1, <1>2, <1>5, <2>1, <2>2, PrivateSealed
<1>6. ASSUME ctx.scheme = "oaep_pss", NEW salt \in Blocks(HashLen),
             SealBytes("sign", m, PrivateOp(NumberOf(PssBlock(m, salt))))
      PROVE  RoundInv'
  <2>1. Below(NumberOf(PssBlock(m, salt)))
    <3>1. Sized(salt, HashLen)
      BY <1>2, BlocksAre, Sizes
    <3> QED
      BY <1>2, <1>6, <3>1, PssOpens DEF Below
  <2>2. BytesOf(ctx.k, Power(NumberOf(PssBlock(m, salt)), ctx.d, ctx.n)) \in RsaSignatures(m)
    BY <1>2, <1>6, SignaturesAre
  <2> QED
    BY <1>1, <1>2, <1>6, <2>1, <2>2, PrivateSealed
<1> QED
  BY <1>1, <1>3, <1>4, <1>5, <1>6, <1>2, Kinds DEF RsaSign

Held(c) == Unpadded(BytesOf(ctx.k, PrivateOp(NumberOf(c))))

LEMMA Plain ==
  ASSUME KeyFacts, NEW m
  PROVE  /\ ctx.scheme = "textbook" => Returned(m) = Minimal(NumberOf(m))
         /\ ctx.scheme # "textbook" => Returned(m) = m
  BY DEF KeyFacts, Returned

(* The two ways in which the decryption of a ciphertext ends.               *)
LEMMA DecryptIs ==
  ASSUME NEW c, RsaDecrypt(c)
  PROVE  \/ \E status : /\ status # "ok" /\ Open("decrypt", <<>>, c, status)
                        /\ \/ status = "nomem"
                           \/ NumberOf(c) >= ctx.n
                           \/ ctx.scheme # "textbook" /\ (Len(c) # ctx.k \/ ~Held(c).valid)
         \/ \E m : /\ Open("decrypt", m, c, "ok") /\ ~(NumberOf(c) >= ctx.n)
                   /\ \/ ctx.scheme = "textbook" /\ m = Minimal(PrivateOp(NumberOf(c)))
                      \/ ctx.scheme # "textbook" /\ Held(c).valid /\ m = Held(c).m
<1> DEFINE x == NumberOf(c)
<1>1. \/ /\ ctx.scheme = "textbook"
         /\ IF x >= ctx.n THEN Open("decrypt", <<>>, c, "invalid_input")
            ELSE Open("decrypt", Minimal(PrivateOp(x)), c, "ok")
      \/ ctx.scheme # "textbook" /\ Open("decrypt", <<>>, c, "nomem")
      \/ /\ ctx.scheme # "textbook"
         /\ IF Len(c) # ctx.k \/ x >= ctx.n \/ ~Held(c).valid THEN Open("decrypt", <<>>, c, "decrypt")
            ELSE Open("decrypt", Held(c).m, c, "ok")
  BY DEF RsaDecrypt, Held
<1> QED
  BY ONLY <1>1

LEMMA DecryptKeeps ==
  ASSUME RoundInv, HashesBytes, ctx.family = "rsa", NEW c \in Seq(Byte), RsaDecrypt(c), SealInv'
  PROVE  RoundInv'
<1> DEFINE x == NumberOf(c)
<1>1. KeyFacts
  BY RsaFacts DEF RoundInv
<1>2. x \in Nat /\ ctx.n \in Nat
  BY <1>1, NumberIn, KeyNumbers
<1>3. made.call = "encrypt" => Encrypted(made.m, made.out)
  BY DEF RoundInv, Kept
<1>4. ASSUME NEW status, status # "ok", Open("decrypt", <<>>, c, status),
             \/ status = "nomem"
             \/ x >= ctx.n
             \/ ctx.scheme # "textbook" /\ (Len(c) # ctx.k \/ ~Held(c).valid)
      PROVE  RoundInv'
  <2>1. /\ ctx' = ctx /\ made' = made
        /\ last'.call = "decrypt" /\ last'.in = c /\ last'.status = status
    BY <1>4 DEF Open, Return
  <2>2. ASSUME made.call = "encrypt", made.out = c PROVE status = "nomem"
    <3>1. Encrypted(made.m, c)
      BY <1>3, <2>2
    <3>2. Below(x) /\ made.m \in Seq(Byte) /\ BytesOf(ctx.k, x) \in RsaCiphertexts(made.m)
          /\ (ctx.scheme # "textbook" => Len(c) = ctx.k)
      BY <3>1 DEF Encrypted
    <3>3. ctx.scheme # "textbook" => Held(c).valid
      BY <1>1, <3>2, CipherOpens DEF Held
    <3>4. ~(x >= ctx.n)
      BY <1>2, <3>2 DEF Below
    <3> QED
      BY <1>4, <3>2, <3>3, <3>4
  <2>3. RoundTrip'
    BY <2>1, <2>2 DEF RoundTrip
  <2>4. OnlyGenuine'
    BY <1>4, <2>1 DEF OnlyGenuine
  <2> QED
    BY <1>4, <2>3, <2>4, OpenReturned
<1>5. ASSUME NEW m, Open("decrypt", m, c, "ok"), ~(x >= ctx.n),
             \/ ctx.scheme = "textbook" /\ m = Minimal(PrivateOp(x))
             \/ ctx.scheme # "textbook" /\ Held(c).valid /\ m = Held(c).m
      PROVE  RoundInv'
  <2>1. /\ ctx' = ctx /\ made' = made
        /\ last'.call = "decrypt" /\ last'.in = c /\ last'.status = "ok" /\ last'.m = m
    BY <1>5 DEF Open, Return
  <2>2. Below(x)
    BY <1>2, <1>5 DEF Below
  <2>3. BytesOf(ctx.k, x) \in RsaCiphertexts(m)
    BY <1>1, <1>5, <2>2, CipherGenuine DEF Held
  <2>4. ASSUME made.call = "encrypt", made.out = c PROVE m = Returned(made.m)
    <3>1. Encrypted(made.m, c)
      BY <1>3, <2>4
    <3>2. made.m \in Seq(Byte) /\ BytesOf(ctx.k, x) \in RsaCiphertexts(made.m)
      BY <3>1 DEF Encrypted
    <3>3. /\ ctx.scheme = "textbook" => PrivateOp(x) = NumberOf(made.m)
          /\ ctx.scheme # "textbook" => Held(c).m = made.m
      BY <1>1, <2>2, <3>2, CipherOpens DEF Held
    <3> QED
      BY <1>1, <1>5, <3>3, Plain
  <2>5. RoundTrip'
    <3>1. Returned(made.m)' = Returned(made.m)
      BY <2>1 DEF Returned
    <3> QED
      BY <2>1, <2>4, <3>1 DEF RoundTrip, Returned
  <2>6. OnlyGenuine'
    BY <2>1, <2>3, Steady DEF OnlyGenuine, InGroup
  <2> QED
    BY <1>5, <2>5, <2>6, OpenReturned
<1> HIDE DEF x
<1>6. \/ \E status : /\ status # "ok" /\ Open("decrypt", <<>>, c, status)
                     /\ \/ status = "nomem"
                        \/ x >= ctx.n
                        \/ ctx.scheme # "textbook" /\ (Len(c) # ctx.k \/ ~Held(c).valid)
      \/ \E m : /\ Open("decrypt", m, c, "ok") /\ ~(x >= ctx.n)
                /\ \/ ctx.scheme = "textbook" /\ m = Minimal(PrivateOp(x))
                   \/ ctx.scheme # "textbook" /\ Held(c).valid /\ m = Held(c).m
  BY DecryptIs DEF x
<1> QED
  BY ONLY <1>4, <1>5, <1>6

LEMMA VerifyKeeps ==
  ASSUME RoundInv, HashesBytes, ctx.family = "rsa", NEW m \in Seq(Byte), NEW s \in Seq(Byte), RsaVerify(m, s), SealInv'
  PROVE  RoundInv'
<1>1. KeyFacts
  BY RsaFacts DEF RoundInv
<1>2. made.call = "sign" => Signed(made.m, made.out)
  BY DEF RoundInv, Kept
<1>3. PICK status : Open("verify", m, s, status)
                    /\ (status = "nomem" \/ status = IF RsaValid(m, s) THEN "ok" ELSE "verify")
  BY DEF RsaVerify
<1>4. /\ ctx' = ctx /\ made' = made
      /\ last'.call = "verify" /\ last'.in = s /\ last'.status = status /\ last'.m = m
  BY <1>3 DEF Open, Return
<1>5. ASSUME made.call = "sign", made.out = s, made.m = m PROVE status \in {"ok", "nomem"}
  <2>1. Signed(m, s)
    BY <1>2, <1>5
  <2>2. RsaValid(m, s)
    BY <1>1, <2>1, SignatureOpens DEF Signed
  <2> QED
    BY <1>3, <2>2
<1>6. RoundTrip'
  BY <1>4, <1>5 DEF RoundTrip
<1>7. OnlyGenuine'
  <2>1. CASE status = "ok"
    <3>1. RsaValid(m, s)
      BY <1>3, <2>1
    <3>2. BytesOf(ctx.k, NumberOf(s)) \in RsaSignatures(m)
      BY <1>1, <3>1, SignatureGenuine
    <3> QED
      BY <1>4, <3>2, Steady DEF OnlyGenuine, InGroup
  <2>2. CASE status # "ok"
    BY <1>4, <2>2 DEF OnlyGenuine
  <2> QED
    BY <2>1, <2>2
<1> QED
  BY <1>3, <1>6, <1>7, OpenReturned

-----------------------------------------------------------------------------
(* Every step of a context keeps RoundInv.                                  *)
LEMMA OnlyRsa ==
  ASSUME KeyFacts, ctx.family = "rsa"
  PROVE  /\ \A c : Decrypt(c) => RsaDecrypt(c)
         /\ \A m, s : Verify(m, s) => RsaVerify(m, s)
         /\ \A m : ~GroupEncrypt(m) /\ ~GroupSign(m)
         /\ ~Draw /\ ~SignAgain /\ ~SignDone
<1>1. ctx.scheme \in {"textbook", "pkcs1", "oaep_pss"}
  BY DEF KeyFacts
<1> QED
  BY <1>1 DEF Decrypt, DlDecrypt, EcDecrypt, Verify, GroupVerify, GroupEncrypt, GroupSign, Draw, SignAgain, SignDone,
           Signing, InGroup

LEMMA RoundStep ==
  ASSUME HashesBytes, MessagesAreBytes, ForeignAreBytes, RoundInv, [Next]_vars PROVE RoundInv'
<1>1. SealInv /\ SealInv'
  BY SealStep DEF RoundInv
<1>2. CASE ctx.family # "rsa"
  <2>1. ctx' = ctx
    BY DEF Next, vars, Choose, UseCrt, SealAny, OpenMade, OpenForeign, Pad, RsaEncryptPadded, Draw, SignAgain, SignDone,
           DrawNonce, Drew, SealPublic, SealBytes, Refuse, Seal, Begin, Open, Return, RsaEncrypt, RsaSign, GroupEncrypt, GroupSign,
           Decrypt, Verify, RsaDecrypt, RsaVerify, GroupVerify, DlDecrypt, EcDecrypt
  <2> QED
    BY <1>1, <1>2, <2>1 DEF RoundInv
<1>3. CASE ctx.family = "rsa"
  <2>1. KeyFacts
    BY <1>1, <1>3, RsaFacts
  <2>2. CASE SealAny
    <3>1. PICK m \in MessagesFor(ctx) : RsaEncrypt(m) \/ RsaSign(m)
      BY <1>3, <2>1, <2>2, OnlyRsa DEF SealAny
    <3>2. m \in Seq(Byte)
      BY DEF MessagesAreBytes
    <3> QED
      BY <3>1, <3>2, EncryptKeeps, SignKeeps
  <2>3. CASE OpenMade
    <3>1. CASE made.call = "encrypt" /\ Decrypt(made.out)
      <4>1. made.out \in Seq(Byte)
        BY <1>3, <3>1 DEF RoundInv, Kept, Encrypted
      <4>2. RsaDecrypt(made.out)
        BY <1>3, <2>1, <3>1, OnlyRsa
      <4> QED
        BY <1>1, <1>3, <4>1, <4>2, DecryptKeeps
    <3>2. ASSUME made.call = "sign", NEW m \in MessagesFor(ctx), Verify(m, made.out) PROVE RoundInv'
      <4>1. made.out \in Seq(Byte)
        BY <1>3, <3>2 DEF RoundInv, Kept, Signed
      <4>2. RsaVerify(m, made.out)
        BY <1>3, <2>1, <3>2, OnlyRsa
      <4>3. m \in Seq(Byte)
        BY DEF MessagesAreBytes
      <4> QED
        BY <1>1, <1>3, <4>1, <4>2, <4>3, VerifyKeeps
    <3> QED
      BY <2>3, <3>1, <3>2 DEF OpenMade
  <2>4. CASE OpenForeign
    <3>1. ASSUME NEW c \in ForeignCiphers(ctx), Decrypt(c) PROVE RoundInv'
      <4>1. c \in Seq(Byte) /\ RsaDecrypt(c)
        BY <1>3, <2>1, <3>1, OnlyRsa DEF ForeignAreBytes
      <4> QED
        BY <1>1, <1>3, <4>1, DecryptKeeps
    <3>2. ASSUME NEW f \in ForeignSigned(ctx), Verify(f[1], f[2]) PROVE RoundInv'
      <4>1. f[1] \in Seq(Byte) /\ f[2] \in Seq(Byte) /\ RsaVerify(f[1], f[2])
        BY <1>3, <2>1, <3>2, OnlyRsa DEF ForeignAreBytes
      <4> QED
        BY <1>1, <1>3, <4>1, VerifyKeeps
    <3> QED
      BY <2>4, <3>1, <3>2 DEF OpenForeign
  <2>5. CASE Pad \/ RsaEncryptPadded
    BY <2>5, PaddedKeeps
  <2>6. CASE Choose \/ UNCHANGED vars
    <3>1. ctx' = ctx /\ made' = made /\ last' = last /\ pc' = pc /\ task' = task /\ drawn' = drawn
      BY <2>6 DEF Choose, UseCrt, vars
    <3>2. RoundTrip' /\ OnlyGenuine'
      BY <1>3, <3>1, StayRound DEF RoundInv
    <3>3. TooLong(task)' = TooLong(task)
      BY <3>1 DEF TooLong, Pkcs1Room, OaepRoom
    <3>4. pc = "encrypt" => ctx.scheme = "pkcs1" /\ NonZero(drawn, Len(drawn)) /\ ~TooLong(task)
      BY <1>3 DEF RoundInv, Kept
    <3>5. (made.call = "encrypt" => Encrypted(made.m, made.out)) /\ (made.call = "sign" => Signed(made.m, made.out))
      BY <1>3 DEF RoundInv, Kept
    <3>6. Kept'
      BY <3>1, <3>3, <3>4, <3>5, SealedStay DEF Kept, NonZero
    <3> QED
      BY <1>1, <3>2, <3>6 DEF RoundInv
  <2> QED
    BY <1>3, <2>1, <2>2, <2>3, <2>4, <2>5, <2>6, OnlyRsa DEF Next
<1> QED
  BY <1>2, <1>3

-----------------------------------------------------------------------------
(* Powers and products modulo a number.                                     *)
(* g is one when it is multiplied N times, modulo p.                        *)
Turn(g, N, p) == g \in Nat /\ N \in Nat /\ N > 0 /\ p \in Nat /\ p > 1 /\ Pow(g, N) % p = 1

LEMMA PowerJoin ==
  ASSUME NEW g \in Nat, NEW p \in Nat, p > 0, NEW a \in Nat, NEW b \in Nat
  PROVE  (Power(g, a, p) * Power(g, b, p)) % p = Power(g, a + b, p)
<1> DEFINE u == Pow(g, a)
           v == Pow(g, b)
<1>1. u \in Nat /\ v \in Nat
  BY PowSteps
<1>2. Power(g, a, p) = u % p /\ Power(g, b, p) = v % p
  BY PowerIs
<1>3. Power(g, a + b, p) = Pow(g, a + b) % p
  BY PowerIs
<1>4. Pow(g, a + b) = u * v
  BY PowSum
<1> HIDE DEF u, v
<1>5. ((u % p) * (v % p)) % p = (u * v) % p
  <2>1. u \in Nat /\ v \in Nat /\ p \in Nat /\ p > 0
    BY <1>1
  <2> QED
    BY ONLY <2>1, ModProducts, ZenonT(60)
<1> QED
  BY ONLY <1>2, <1>3, <1>4, <1>5, Zenon

LEMMA PowerOver ==
  ASSUME NEW g \in Nat, NEW p \in Nat, p > 0, NEW a \in Nat, NEW b \in Nat
  PROVE  Power(Power(g, a, p), b, p) = Power(g, a * b, p)
<1>1. a * b \in Nat
  BY Sums
<1>2. Power(g, a * b, p) = Pow(g, a * b) % p
  BY ONLY g \in Nat, p \in Nat, p > 0, <1>1, PowerIs
<1>3. Power(Power(g, a, p), b, p) = Pow(g, a * b) % p
  BY ONLY g \in Nat, p \in Nat, p > 0, a \in Nat, b \in Nat, PowerPower
<1> QED
  BY ONLY <1>2, <1>3

LEMMA PowerTurns ==
  ASSUME NEW g, NEW N, NEW p, Turn(g, N, p), NEW a \in Nat, NEW m \in Nat
  PROVE  Power(g, a + m * N, p) = Power(g, a, p)
<1>0. g \in Nat /\ N \in Nat /\ N > 0 /\ p \in Nat /\ p > 1 /\ p > 0 /\ Pow(g, N) % p = 1
  BY DEF Turn
<1> DEFINE t == m * N
           one == 1
           u == Power(g, a, p)
<1>1. t \in Nat
  BY <1>0, Sums
<1>2. Power(g, t, p) = one
  <2>1. Power(g, N, p) = 1
    BY ONLY <1>0, PowerIs
  <2>2. Power(Power(g, N, p), m, p) = Power(g, N * m, p)
    BY ONLY <1>0, m \in Nat, PowerOver
  <2>3. N * m = t
    BY <1>0
  <2>4. Power(1, m, p) = Pow(1, m) % p
    BY ONLY <1>0, m \in Nat, 1 \in Nat, PowerIs
  <2>5. Pow(1, m) = 1
    BY OnePower
  <2>6. 1 % p = 1
    BY ONLY <1>0, SmallRemainder
  <2> HIDE DEF t
  <2> QED
    BY <2>1, <2>2, <2>3, <2>4, <2>5, <2>6
<1>3. u \in 0 .. p - 1
  BY ONLY <1>0, a \in Nat, PowerInRange
<1> HIDE DEF t, u, one
<1>4. (Power(g, a, p) * Power(g, t, p)) % p = Power(g, a + t, p)
  BY ONLY <1>0, <1>1, a \in Nat, PowerJoin
<1>5. (u * one) % p = u
  <2>1. u * 1 = u
    BY <1>3
  <2>2. u % p = u
    BY ONLY <1>0, <1>3, SmallRemainder
  <2> QED
    BY <2>1, <2>2 DEF one
<1> QED
  BY <1>2, <1>4, <1>5 DEF t, u

(* Exponents count up to whole turns.                                       *)
LEMMA PowerSame ==
  ASSUME NEW g, NEW N, NEW p, Turn(g, N, p), NEW a \in Nat, NEW b \in Nat, a % N = b % N
  PROVE  Power(g, a, p) = Power(g, b, p)
<1>0. N \in Nat /\ N > 0
  BY DEF Turn
<1>1. ASSUME NEW c \in Nat PROVE Power(g, c, p) = Power(g, c % N, p)
  <2> DEFINE d == c \div N
             r == c % N
  <2>1. d \in Nat /\ r \in Nat /\ c = r + d * N
    <3>1. d \in Nat /\ r \in 0 .. N - 1 /\ c = d * N + r
      BY <1>0, Division
    <3>2. d * N \in Nat
      BY <1>0, <3>1, Sums
    <3> HIDE DEF d, r
    <3> QED
      BY <1>0, <3>1, <3>2
  <2> HIDE DEF d, r
  <2>2. Power(g, r + d * N, p) = Power(g, r, p)
    BY <2>1, PowerTurns
  <2> QED
    BY <2>1, <2>2 DEF r
<1>2. Power(g, a, p) = Power(g, a % N, p)
  BY <1>1
<1>3. Power(g, b, p) = Power(g, b % N, p)
  BY <1>1
<1> QED
  BY <1>2, <1>3

LEMMA PowerReduced ==
  ASSUME NEW g, NEW N, NEW p, Turn(g, N, p), NEW a \in Nat
  PROVE  a % N \in Nat /\ Power(g, a % N, p) = Power(g, a, p)
<1>0. N \in Nat /\ N > 0
  BY DEF Turn
<1>1. a % N \in 0 .. N - 1
  BY <1>0, Division
<1>2. (a % N) % N = a % N
  BY ONLY <1>0, <1>1, SmallRemainder
<1> QED
  BY <1>1, <1>2, PowerSame

(* A power has an inverse.                                                  *)
LEMMA PowerInverse ==
  ASSUME NEW g, NEW N, NEW p, Turn(g, N, p), NEW a \in Nat
  PROVE  LET z == Power(g, a, p)
             w == InverseOf(z, p)
         IN  Invertible(z, p) /\ z \in 1 .. p - 1 /\ w \in Nat /\ (z * w) % p = 1
<1>0. g \in Nat /\ N \in Nat /\ N > 0 /\ p \in Nat /\ p > 1 /\ p > 0
  BY DEF Turn
<1> DEFINE z == Power(g, a, p)
           r == a % N
           b == N - r
           v == Power(g, b, p)
<1>1. r \in 0 .. N - 1 /\ b \in Nat /\ r + b = N
  BY <1>0, Division
<1>2. z = Power(g, r, p) /\ r \in Nat
  BY PowerReduced
<1>3. z \in 0 .. p - 1 /\ v \in 0 .. p - 1
  BY <1>0, <1>1, PowerInRange
<1> HIDE DEF b, r
<1>4. (Power(g, r, p) * v) % p = Power(g, r + b, p)
  BY ONLY <1>0, <1>1, <1>2, PowerJoin DEF v
<1>5. Power(g, N, p) = 1
  <2>1. Power(g, N, p) = Pow(g, N) % p
    BY ONLY <1>0, PowerIs
  <2> QED
    BY <2>1 DEF Turn
<1>6. (z * v) % p = 1
  BY <1>1, <1>2, <1>4, <1>5
<1> HIDE DEF z, v
<1>7. 1 % p = 1
  BY ONLY <1>0, SmallRemainder
<1>8. Invertible(z, p)
  BY <1>3, <1>6, <1>7 DEF Invertible
<1>9. z # 0
  <2>1. CASE z = 0
    <3>1. 0 * v = 0
      BY <1>3
    <3>2. 0 % p = 0
      BY ONLY <1>0, SmallRemainder
    <3> QED
      BY <1>6, <2>1, <3>1, <3>2
  <2> QED
    BY <2>1
<1>10. InverseOf(z, p) \in Nat /\ (z * InverseOf(z, p)) % p = 1 % p
  BY <1>0, <1>8, InverseIn
<1> QED
  BY <1>3, <1>7, <1>8, <1>9, <1>10 DEF z

(* A product modulo n.                                                      *)
Mul(x, y, n) == (x * y) % n

LEMMA MulIn ==
  ASSUME NEW x \in Nat, NEW y \in Nat, NEW n \in Nat, n > 0
  PROVE  Mul(x, y, n) \in Nat /\ Mul(x, y, n) \in 0 .. n - 1 /\ Mul(x, y, n) = Mul(y, x, n)
<1> DEFINE z == x * y
<1>1. z \in Nat /\ z = y * x
  BY Sums
<1>2. z % n \in 0 .. n - 1
  <2> HIDE DEF z
  <2> QED
    BY <1>1, Division
<1> HIDE DEF z
<1>3. Mul(x, y, n) = z % n /\ Mul(y, x, n) = z % n
  BY <1>1 DEF Mul, z
<1> QED
  BY <1>2, <1>3

LEMMA MulReduced ==
  ASSUME NEW x \in Nat, NEW y \in Nat, NEW n \in Nat, n > 0
  PROVE  Mul(x % n, y, n) = Mul(x, y, n) /\ Mul(x, y % n, n) = Mul(x, y, n)
<1>1. Mul(x % n, y, n) = Mul(x, y, n)
  BY ModProduct, ZenonT(60) DEF Mul
<1>2. x % n \in Nat /\ y % n \in Nat
  BY Division
<1>3. Mul(y % n, x, n) = Mul(y, x, n)
  BY ModProduct, ZenonT(60) DEF Mul
<1>4. Mul(y % n, x, n) = Mul(x, y % n, n) /\ Mul(y, x, n) = Mul(x, y, n)
  BY <1>2, MulIn
<1> QED
  BY <1>1, <1>3, <1>4

LEMMA MulTwice ==
  ASSUME NEW x \in Nat, NEW y \in Nat, NEW z \in Nat, NEW n \in Nat, n > 0
  PROVE  /\ Mul(Mul(x, y, n), z, n) = ((x * y) * z) % n
         /\ Mul(Mul(x, y, n), z, n) = Mul(x, Mul(y, z, n), n)
<1> DEFINE u == x * y
           v == y * z
<1>1. u \in Nat /\ v \in Nat
  BY Sums
<1>2. u * z = x * v
  OBVIOUS
<1>3. Mul(x, y, n) = u % n /\ Mul(y, z, n) = v % n
  BY DEF Mul
<1> HIDE DEF u, v
<1>4. Mul(u % n, z, n) = Mul(u, z, n)
  BY <1>1, MulReduced
<1>5. Mul(x, v % n, n) = Mul(x, v, n)
  BY <1>1, MulReduced
<1>6. Mul(u, z, n) = Mul(x, v, n) /\ Mul(u, z, n) = (u * z) % n
  BY <1>2 DEF Mul
<1>7. Mul(Mul(x, y, n), z, n) = Mul(u, z, n) /\ Mul(x, Mul(y, z, n), n) = Mul(x, v, n)
  BY <1>3, <1>4, <1>5
<1> QED
  BY <1>6, <1>7 DEF u

LEMMA MulOne ==
  ASSUME NEW n \in Nat, n > 0, NEW x \in 0 .. n - 1 PROVE Mul(x, 1, n) = x /\ Mul(1, x, n) = x
<1>1. x * 1 = x /\ 1 * x = x
  OBVIOUS
<1>2. x % n = x
  BY SmallRemainder
<1> QED
  BY <1>1, <1>2 DEF Mul

-----------------------------------------------------------------------------
(* The equations of the signers.                                            *)
LEMMA MulUnit ==
  ASSUME NEW N \in Nat, N > 1, NEW k \in Nat, NEW inv \in Nat, Mul(k, inv, N) = 1, NEW t \in Nat
  PROVE  Mul(k, Mul(inv, t, N), N) = t % N
<1>0. N > 0 /\ t % N \in 0 .. N - 1
  BY Division
<1>1. Mul(Mul(k, inv, N), t, N) = Mul(k, Mul(inv, t, N), N)
  BY <1>0, MulTwice
<1>2. Mul(1, t % N, N) = t % N /\ Mul(1, t % N, N) = Mul(1, t, N)
  BY <1>0, MulOne, MulReduced, 1 \in Nat
<1> QED
  BY <1>1, <1>2

(* The second half, of any difference.                                      *)
LEMMA MulInt ==
  ASSUME NEW N \in Nat, N > 0, NEW inv \in Nat, NEW t \in Int
  PROVE  t % N \in 0 .. N - 1 /\ (inv * t) % N = Mul(inv, t % N, N)
<1> DEFINE d == t \div N
           r == t % N
<1>1. d \in Int /\ r \in 0 .. N - 1 /\ t = d * N + r
  OBVIOUS
<1> HIDE DEF d, r
<1>2. inv * t = inv * r + (inv * d) * N /\ inv * r \in Int /\ inv * d \in Int
  BY <1>1
<1> DEFINE a == inv * r
           b == inv * d
<1>3. a \in Int /\ b \in Int /\ inv * t = a + b * N
  BY <1>2
<1>4. a % N = Mul(inv, r, N)
  BY DEF Mul
<1> HIDE DEF a, b
<1>5. (a + b * N) % N = a % N
  BY ONLY <1>3, N \in Nat, N > 0, IntRemainder
<1> QED
  BY <1>1, <1>3, <1>4, <1>5 DEF r

Solution(inv, h, t, N) == (inv * (h - t)) % N
Solves(s, k, h, t, N) == (t + k * s) % N = h % N

LEMMA ElgamalSolves ==
  ASSUME NEW N \in Nat, N > 1, NEW k \in Nat, NEW inv \in Nat, Mul(k, inv, N) = 1,
         NEW h \in Nat, NEW xr \in Nat, NEW s, s = Solution(inv, h, xr, N)
  PROVE  s \in 0 .. N - 1 /\ Solves(s, k, h, xr, N)
<1> USE DEF Solution, Solves
<1> DEFINE t == h - xr
           u == t % N
           d == t \div N
<1>1. t \in Int /\ d \in Int /\ u \in 0 .. N - 1 /\ t = d * N + u
  OBVIOUS
<1>0. h = xr + t /\ s = (inv * t) % N
  OBVIOUS
<1> HIDE DEF t
<1>2. s = Mul(inv, u, N)
  <2>1. N \in Nat /\ N > 0 /\ inv \in Nat /\ t \in Int
    BY <1>1
  <2>2. (inv * t) % N = Mul(inv, t % N, N)
    BY ONLY <2>1, MulInt
  <2> QED
    BY <1>0, <2>2
<1> HIDE DEF u, d
<1>3. u \in Nat /\ N > 0
  BY <1>1
<1>4. s \in 0 .. N - 1 /\ s \in Nat
  BY <1>2, <1>3, MulIn
<1>5. Mul(k, s, N) = u % N /\ u % N = u
  BY <1>1, <1>2, <1>3, MulUnit, SmallRemainder
<1> DEFINE ks == k * s
           j == ks \div N
<1>6. ks \in Nat /\ j \in Nat /\ ks % N = u /\ ks = j * N + u
  <2>1. ks \in Nat /\ ks % N = u
    BY <1>4, <1>5, Sums DEF Mul
  <2> HIDE DEF ks
  <2> QED
    BY <1>3, <2>1, Division
<1> HIDE DEF ks, j
<1>7. xr + ks = h + (j - d) * N
  <2>1. (j - d) * N = j * N - d * N /\ j * N \in Int /\ d * N \in Int
    BY <1>1, <1>3, <1>6
  <2> DEFINE y == j * N
             z == d * N
             e == (j - d) * N
  <2>2. e = y - z /\ y \in Int /\ z \in Int /\ t = z + u /\ ks = y + u
    BY <1>1, <1>6, <2>1
  <2> HIDE DEF y, z, e
  <2>3. xr + ks = h + e
    BY <1>0, <1>1, <1>3, <1>6, <2>2
  <2> QED
    BY <2>3 DEF e
<1>8. (h + (j - d) * N) % N = h % N
  <2>1. h \in Int /\ j - d \in Int
    BY <1>1, <1>6
  <2> DEFINE f == j - d
  <2> HIDE DEF f
  <2>2. (h + f * N) % N = h % N
    BY <1>3, <2>1, IntRemainder DEF f
  <2> QED
    BY <2>2 DEF f
<1> QED
  BY <1>4, <1>7, <1>8 DEF ks

LEMMA MulSum ==
  ASSUME NEW N \in Nat, N > 1, NEW h \in Nat, NEW r \in Nat, NEW x \in Nat, NEW w \in Nat
  PROVE  (Mul(h, w, N) + x * Mul(r, w, N)) % N = Mul(h + x * r, w, N)
<1> DEFINE a == h * w
           b == r * w
           A == a % N
           B == b % N
           u == a \div N
           v == b \div N
<1>0. N > 0 /\ a \in Nat /\ b \in Nat
  BY Sums
<1>1. A \in Nat /\ u \in Nat /\ a = u * N + A /\ B \in Nat /\ v \in Nat /\ b = v * N + B
  <2> HIDE DEF a, b
  <2> QED
    BY <1>0, Division
<1>2. (h + x * r) * w = a + x * b
  OBVIOUS
<1>3. Mul(h, w, N) = A /\ Mul(r, w, N) = B
  BY DEF Mul
<1> HIDE DEF a, b, A, B, u, v
<1>4. x * (v * N + B) = (x * v) * N + x * B /\ x * v \in Nat /\ x * B \in Nat
  BY <1>1
<1> DEFINE c == x * v
           d == x * B
<1>5. c \in Nat /\ d \in Nat /\ a + x * b = (A + d) + (u + c) * N /\ A + d \in Nat /\ u + c \in Nat
  <2>1. a + x * b = (u * N + A) + (c * N + d)
    BY <1>1, <1>4
  <2>2. c \in Nat /\ d \in Nat
    BY <1>4
  <2> HIDE DEF c, d
  <2>3. u * N + c * N = (u + c) * N /\ u * N \in Nat /\ c * N \in Nat
    BY <1>1, <2>2, Sums
  <2>4. A + d \in Nat /\ u + c \in Nat
    BY <1>1, <2>2
  <2> DEFINE y == u * N
             z == c * N
  <2>5. (y + A) + (z + d) = (A + d) + (y + z) /\ y \in Nat /\ z \in Nat
    BY <1>1, <2>2, <2>3
  <2> QED
    BY <2>1, <2>2, <2>3, <2>4, <2>5
<1> DEFINE e == A + d
           f == u + c
<1>7. e \in Nat /\ f \in Nat
  BY <1>5
<1> HIDE DEF c, d, e, f
<1>6. (e + f * N) % N = e % N
  BY <1>0, <1>7, AddMultiple
<1>8. Mul(h + x * r, w, N) = (e + f * N) % N
  BY <1>2, <1>5 DEF Mul, e, f
<1> QED
  BY <1>3, <1>6, <1>8 DEF d, e

(* What the signer of DSA solved gives its number back.                     *)
LEMMA DsaSolves ==
  ASSUME NEW N \in Nat, N > 1, NEW k \in 0 .. N - 1, NEW inv \in Nat, Mul(k, inv, N) = 1,
         NEW h \in Nat, NEW r \in Nat, NEW x \in Nat, NEW s, s = Mul(inv, h + x * r, N),
         NEW w \in Nat, Mul(s, w, N) = 1
  PROVE  s \in 0 .. N - 1 /\ (Mul(h, w, N) + x * Mul(r, w, N)) % N = k
<1> DEFINE H == h + x * r
<1>1. H \in Nat /\ N > 0 /\ k \in Nat
  <2>1. x * r \in Nat
    BY Sums
  <2> QED
    BY <2>1
<1>2. (Mul(h, w, N) + x * Mul(r, w, N)) % N = Mul(H, w, N)
  BY MulSum
<1>3. s = Mul(inv, H, N)
  OBVIOUS
<1> HIDE DEF H
<1>4. s \in Nat /\ s \in 0 .. N - 1
  BY <1>1, <1>3, MulIn
<1>5. Mul(k, s, N) = H % N
  BY <1>1, <1>3, MulUnit
<1>6. Mul(H, w, N) = Mul(H % N, w, N)
  BY <1>1, MulReduced
<1>7. Mul(Mul(k, s, N), w, N) = Mul(k, Mul(s, w, N), N)
  BY <1>1, <1>4, MulTwice
<1>8. Mul(k, 1, N) = k
  BY <1>1, MulOne
<1> QED
  BY <1>2, <1>4, <1>5, <1>6, <1>7, <1>8

(* What its verifier finds solves the equation of the signer.               *)
LEMMA DsaSolved ==
  ASSUME NEW N \in Nat, N > 1, NEW h \in Nat, NEW r \in Nat, NEW x \in Nat, NEW s \in Nat,
         NEW w \in Nat, Mul(s, w, N) = 1, NEW k, k = (Mul(h, w, N) + x * Mul(r, w, N)) % N
  PROVE  k \in 0 .. N - 1 /\ (s * k - h - x * r) % N = 0
<1> DEFINE H == h + x * r
<1>1. H \in Nat /\ N > 0 /\ x * r \in Nat
  <2>1. x * r \in Nat
    BY Sums
  <2> QED
    BY <2>1
<1>2. k = Mul(H, w, N)
  BY MulSum
<1>9. H = h + x * r
  OBVIOUS
<1> HIDE DEF H
<1>3. k \in Nat /\ k \in 0 .. N - 1 /\ k = Mul(w, H, N)
  BY <1>1, <1>2, MulIn
<1>4. Mul(s, k, N) = H % N
  BY <1>1, <1>3, MulUnit
<1> DEFINE sk == s * k
           u == sk \div N
           v == H \div N
           e == H % N
<1>5. sk \in Nat /\ sk % N = e
  BY <1>3, <1>4, Sums DEF Mul
<1>6. H = v * N + e /\ v \in Nat /\ e \in Nat
  BY <1>1, Division
<1> HIDE DEF sk, v, e
<1>7. sk = u * N + e /\ u \in Nat
  BY <1>1, <1>5, Division
<1> HIDE DEF u
<1>8. sk - H = 0 + (u - v) * N /\ u - v \in Int
  BY <1>1, <1>6, <1>7
<1>10. (0 + (u - v) * N) % N = 0
  <2> DEFINE f == u - v
  <2>1. f \in Int /\ 0 \in Int
    BY <1>8
  <2> HIDE DEF f
  <2>2. (0 + f * N) % N = 0 % N
    BY ONLY <1>1, <2>1, N \in Nat, IntRemainder
  <2>3. 0 % N = 0
    BY <1>1, SmallRemainder
  <2> QED
    BY <2>2, <2>3 DEF f
<1>11. sk - h - x * r = sk - H
  BY <1>1, <1>5, <1>9
<1> QED
  BY <1>3, <1>8, <1>10, <1>11 DEF sk

-----------------------------------------------------------------------------
(* The groups of ElGamal.                                                   *)
(* A prime that is twice an odd prime and one, with a number that is one    *)
(* when it is multiplied q times.                                           *)
SafeGroup(p, q, g) ==
  /\ Prime(p) /\ Prime(q) /\ q > 2 /\ p = 2 * q + 1 /\ g \in 2 .. p - 1 /\ Turn(g, q, p)

LEMMA SafeNumbers ==
  ASSUME NEW p, NEW q, NEW g, SafeGroup(p, q, g)
  PROVE  /\ p \in Nat /\ q \in Nat /\ g \in Nat /\ p > 0 /\ p > 1 /\ p > 2 /\ q > 0 /\ q > 1 /\ q > 2 /\ q % 2 = 1
         /\ p - 1 = 2 * q /\ Turn(g, q, p) /\ Prime(p) /\ Prime(q) /\ g \in 2 .. p - 1 /\ Power(g, q, p) = 1
<1>1. p \in Nat /\ q \in Nat /\ q > 2 /\ p = 2 * q + 1 /\ g \in 2 .. p - 1 /\ Turn(g, q, p) /\ Prime(p) /\ Prime(q)
  BY DEF SafeGroup, Prime
<1>2. q % 2 = 1
  <2>1. 2 \in 2 .. q - 1
    BY <1>1
  <2>2. q % 2 # 0
    BY <2>1, <1>1 DEF Prime
  <2> QED
    BY <1>1, <2>2
<1>3. p \in Nat /\ q \in Nat /\ g \in Nat /\ p > 0 /\ p > 1 /\ p > 2 /\ q > 0 /\ q > 1 /\ q > 2 /\ p - 1 = 2 * q
  BY <1>1
<1>4. Power(g, q, p) = Pow(g, q) % p
  BY ONLY <1>3, PowerIs
<1> QED
  BY <1>1, <1>2, <1>3, <1>4 DEF Turn

(* One to any power.                                                        *)
LEMMA PowerOfOne == ASSUME NEW p \in Nat, p > 1, NEW n \in Nat PROVE Power(1, n, p) = 1
<1>1. Power(1, n, p) = Pow(1, n) % p
  BY PowerIs
<1>2. Pow(1, n) = 1 /\ 1 % p = 1
  BY OnePower
<1> QED
  BY <1>1, <1>2

(* A number and its opposite: the same even powers, opposite odd ones.      *)
LEMMA OppositePower ==
  ASSUME NEW p \in Nat, p > 2, NEW z \in 1 .. p - 1, NEW n \in Nat
  PROVE  (Power(p - z, n, p) + (IF n % 2 = 0 THEN -1 ELSE 1) * Power(z, n, p)) % p = 0
<1> DEFINE y == p - z
           Sign(i) == IF i % 2 = 0 THEN -1 ELSE 1
           A(i) == Pow(y, i)
           B(i) == Pow(z, i)
           S(i) == (A(i) + Sign(i) * B(i)) % p = 0
           T == {i \in Nat : S(i)}
<1>0. y \in Nat /\ z \in Nat /\ p > 0 /\ p > 1
  OBVIOUS
<1>1. \A i \in Nat : A(i) \in Nat /\ B(i) \in Nat /\ A(i + 1) = y * A(i) /\ B(i + 1) = z * B(i)
  BY <1>0, PowSteps
<1>2. 0 \in T
  <2>1. A(0) = 1 /\ B(0) = 1
    BY <1>0, PowSteps, 0 \in Nat
  <2>2. Sign(0) = -1
    OBVIOUS
  <2> HIDE DEF A, B, Sign
  <2>3. (1 + (-1) * 1) % p = 0
    BY <1>0
  <2> QED
    BY <2>1, <2>2, <2>3
<1>3. \A i \in T : i + 1 \in T
  <2> SUFFICES ASSUME NEW i \in Nat, S(i) PROVE S(i + 1)
    OBVIOUS
  <2> DEFINE a == A(i)
             b == B(i)
             s == Sign(i)
             e == a + s * b
             d == e \div p
             h == z * d
  <2>1. a \in Nat /\ b \in Nat /\ A(i + 1) = y * a /\ B(i + 1) = z * b
    BY <1>1
  <2>2. s \in {-1, 1} /\ Sign(i + 1) = -s
    OBVIOUS
  <2> HIDE DEF A, B, Sign, a, b, s
  <2>3. e \in Int /\ e % p = 0 /\ e = d * p /\ d \in Int
    <3>1. e \in Int /\ e % p = 0
      BY <2>1, <2>2 DEF a, b, s
    <3> HIDE DEF e
    <3> QED
      BY <1>0, <3>1
  <2> DEFINE u == y * a
             v == z * b
             x == a * p
             t == z * a
             m == a - h
  <2>4. u = x - t /\ x \in Int /\ t \in Int /\ v \in Int
    BY <1>0, <2>1
  <2>5. h \in Int /\ h * p = z * e
    <3> HIDE DEF e, d
    <3> QED
      BY <1>0, <2>3
  <2>6. z * e = t + s * v
    <3>1. CASE s = 1
      <4>1. e = a + b
        BY <2>1, <3>1
      <4> HIDE DEF e
      <4> QED
        BY <1>0, <2>1, <3>1, <4>1
    <3>2. CASE s = -1
      <4>1. e = a - b
        BY <2>1, <3>2
      <4> HIDE DEF e
      <4> QED
        BY <1>0, <2>1, <3>2, <4>1
    <3> QED
      BY <2>2, <3>1, <3>2
  <2>7. m \in Int /\ m * p = x - h * p
    <3> HIDE DEF h
    <3> QED
      BY <1>0, <2>1, <2>5
  <2> HIDE DEF u, v, x, t, h, e, d, m
  <2>8. u + (-s) * v = m * p
    <3> DEFINE hp == h * p
               ze == z * e
               mp == m * p
               sv == s * v
    <3>1. hp \in Int /\ (-s) * v = -sv /\ sv \in Int
      BY <1>0, <2>2, <2>4, <2>5
    <3>2. hp = ze /\ ze = t + sv /\ mp = x - hp
      BY <2>5, <2>6, <2>7
    <3> HIDE DEF hp, ze, mp, sv
    <3>3. u + (-sv) = mp
      BY <2>4, <3>1, <3>2
    <3> QED
      BY <3>1, <3>3 DEF mp
  <2>9. (0 + m * p) % p = 0 % p
    BY ONLY <2>7, 0 \in Int, p \in Nat, <1>0, IntRemainder
  <2>10. 0 % p = 0 /\ 0 + m * p = m * p
    BY <1>0, <2>7
  <2> QED
    BY <2>1, <2>2, <2>8, <2>9, <2>10 DEF u, v
<1>4. n \in T
  <2> HIDE DEF T
  <2> QED
    BY <1>2, <1>3, Induction
<1> DEFINE a == A(n)
           b == B(n)
           s == Sign(n)
           i == a \div p
           h == b \div p
           ra == a % p
           rb == b % p
<1>5. a \in Nat /\ b \in Nat /\ s \in {-1, 1} /\ (a + s * b) % p = 0
  BY <1>1, <1>4
<1>6. Power(y, n, p) = ra /\ Power(z, n, p) = rb
  BY ONLY <1>0, p \in Nat, n \in Nat, PowerIs
<1> HIDE DEF a, b, s
<1>7. i \in Nat /\ h \in Nat /\ ra \in 0 .. p - 1 /\ rb \in 0 .. p - 1 /\ a = i * p + ra /\ b = h * p + rb
  BY <1>0, <1>5, Division
<1> HIDE DEF i, h, ra, rb
<1> DEFINE f == ra + s * rb
           m == i + s * h
<1>8. a + s * b = f + m * p /\ f \in Int /\ m \in Int
  <2>1. CASE s = 1
    <3>1. f = ra + rb /\ m = i + h /\ a + s * b = a + b
      BY <1>5, <1>7, <2>1
    <3> HIDE DEF f, m
    <3>2. (i + h) * p = i * p + h * p /\ i * p \in Int /\ h * p \in Int
      BY <1>7
    <3> DEFINE ip == i * p
               hp == h * p
    <3>3. ip \in Int /\ hp \in Int /\ m * p = ip + hp /\ a = ip + ra /\ b = hp + rb
      BY <1>7, <3>1, <3>2
    <3> DEFINE mp == m * p
    <3> HIDE DEF ip, hp, mp
    <3>4. a + b = f + mp /\ f \in Int
      BY <1>7, <3>1, <3>3 DEF mp
    <3> QED
      BY <1>7, <3>1, <3>4 DEF mp
  <2>2. CASE s = -1
    <3>1. f = ra - rb /\ m = i - h /\ a + s * b = a - b
      BY <1>5, <1>7, <2>2
    <3> HIDE DEF f, m
    <3>2. (i - h) * p = i * p - h * p /\ i * p \in Int /\ h * p \in Int
      BY <1>7
    <3> DEFINE ip == i * p
               hp == h * p
    <3>3. ip \in Int /\ hp \in Int /\ m * p = ip - hp /\ a = ip + ra /\ b = hp + rb
      BY <1>7, <3>1, <3>2
    <3> DEFINE mp == m * p
    <3> HIDE DEF ip, hp, mp
    <3>4. a - b = f + mp /\ f \in Int
      BY <1>7, <3>1, <3>3 DEF mp
    <3> QED
      BY <1>7, <3>1, <3>4 DEF mp
  <2> QED
    BY <1>5, <2>1, <2>2
<1> HIDE DEF f, m
<1>9. (f + m * p) % p = f % p
  BY ONLY <1>8, p \in Nat, <1>0, IntRemainder
<1>10. f % p = 0
  BY <1>5, <1>8, <1>9
<1> QED
  BY <1>6, <1>10 DEF f, s, y

(* The powers below the prime order are different numbers.                  *)
LEMMA PowersDiffer ==
  ASSUME NEW p, NEW q, NEW g, Prime(q), Turn(g, q, p), g \in 2 .. p - 1,
         NEW i \in 0 .. q - 1, NEW j \in 0 .. q - 1, i < j
  PROVE  Power(g, i, p) # Power(g, j, p)
<1> SUFFICES ASSUME Power(g, i, p) = Power(g, j, p) PROVE FALSE
  OBVIOUS
<1> DEFINE d == j - i
           a == Power(g, i, p)
           b == Power(g, d, p)
           w == InverseOf(a, p)
<1>0. p \in Nat /\ p > 1 /\ p > 0 /\ g \in Nat /\ q \in Nat /\ q > 1 /\ q > 0 /\ i \in Nat /\ j \in Nat
  BY DEF Turn, Prime
<1>1. d \in 1 .. q - 1 /\ d \in Nat /\ i + d = j
  BY <1>0
<1> HIDE DEF d
<1>2. a \in 1 .. p - 1 /\ w \in Nat /\ (a * w) % p = 1
  BY <1>0, PowerInverse
<1>3. b \in 1 .. p - 1
  BY <1>1, PowerInverse
<1>4. Mul(a, b, p) = a
  <2>1. (Power(g, i, p) * Power(g, d, p)) % p = Power(g, i + d, p)
    BY ONLY <1>0, <1>1, PowerJoin
  <2> QED
    BY <1>1, <2>1 DEF Mul
<1> HIDE DEF a, b, w
<1>5. b = 1
  <2>0. a \in Nat /\ b \in Nat /\ a \in 0 .. p - 1 /\ b \in 0 .. p - 1
    BY <1>0, <1>2, <1>3
  <2>1. Mul(w, a, p) = 1
    <3>1. Mul(a, w, p) = 1
      BY <1>2 DEF Mul
    <3> QED
      BY <1>0, <1>2, <2>0, <3>1, MulIn
  <2>2. Mul(Mul(w, a, p), b, p) = Mul(w, Mul(a, b, p), p)
    BY <1>0, <1>2, <2>0, MulTwice
  <2>3. Mul(1, b, p) = b
    BY <1>0, <2>0, MulOne
  <2> QED
    BY <1>4, <2>1, <2>2, <2>3
<1>6. PICK e \in 1 .. q - 1 : (d * e) % q = 1
  BY <1>1, HasInverse
<1> DEFINE t == d * e
<1>7. t \in Nat /\ t % q = 1 /\ e \in Nat
  <2>1. e \in Nat
    BY <1>0
  <2> QED
    BY <1>1, <1>6, <2>1, Sums
<1>8. Power(g, t, p) = 1
  <2>1. Power(Power(g, d, p), e, p) = Power(g, d * e, p)
    BY ONLY <1>0, <1>1, <1>7, PowerOver
  <2>2. Power(1, e, p) = 1
    BY <1>0, <1>7, PowerOfOne
  <2> QED
    BY <1>5, <2>1, <2>2 DEF b
<1> HIDE DEF t
<1>9. Power(g, t, p) = Power(g, 1, p)
  <2>1. 1 % q = 1
    BY <1>0
  <2> QED
    BY <1>7, <2>1, 1 \in Nat, PowerSame
<1>10. Power(g, 1, p) = g
  <2>1. Power(g, 1, p) = Pow(g, 1) % p
    BY ONLY <1>0, 1 \in Nat, PowerIs
  <2>2. Pow(g, 0) = 1 /\ Pow(g, 0 + 1) = g * Pow(g, 0)
    BY <1>0, PowSteps, 0 \in Nat
  <2>3. g * 1 = g /\ 0 + 1 = 1 /\ g % p = g
    BY <1>0
  <2> QED
    BY <2>1, <2>2, <2>3
<1> QED
  BY <1>0, <1>8, <1>9, <1>10

(* The opposite of a power is no power.                                     *)
LEMMA OppositeIsNone ==
  ASSUME NEW p, NEW q, NEW g, SafeGroup(p, q, g), NEW i \in Nat, NEW j \in Nat
  PROVE  Power(g, i, p) # p - Power(g, j, p)
<1> SUFFICES ASSUME Power(g, i, p) = p - Power(g, j, p) PROVE FALSE
  OBVIOUS
<1>0. /\ p \in Nat /\ q \in Nat /\ g \in Nat /\ p > 0 /\ p > 1 /\ p > 2 /\ q % 2 = 1
      /\ Turn(g, q, p) /\ Power(g, q, p) = 1
  BY SafeNumbers
<1>1. ASSUME NEW k \in Nat PROVE Power(Power(g, k, p), q, p) = 1
  <2>0. p \in Nat /\ p > 0 /\ g \in Nat /\ q \in Nat
    BY <1>0
  <2>1. Power(Power(g, k, p), q, p) = Power(g, k * q, p)
    BY ONLY <2>0, k \in Nat, PowerOver
  <2>2. Power(Power(g, q, p), k, p) = Power(g, q * k, p)
    BY ONLY <2>0, k \in Nat, PowerOver
  <2>3. k * q = q * k
    BY <1>0
  <2>4. Power(1, k, p) = 1
    BY <1>0, PowerOfOne
  <2> QED
    BY <1>0, <2>1, <2>2, <2>3, <2>4
<1> DEFINE z == Power(g, j, p)
<1>2. z \in 1 .. p - 1
  BY PowerInverse, <1>0
<1>3. Power(p - z, q, p) = 1 /\ Power(z, q, p) = 1
  BY <1>1
<1> HIDE DEF z
<1>4. (Power(p - z, q, p) + (IF q % 2 = 0 THEN -1 ELSE 1) * Power(z, q, p)) % p = 0
  BY <1>0, <1>2, OppositePower
<1>5. (1 + 1 * 1) % p = 0
  BY <1>0, <1>3, <1>4
<1> QED
  BY <1>0, <1>5

(* Every number other than zero is a power or the opposite of one.          *)
LEMMA PowersAndOpposites ==
  ASSUME NEW p, NEW q, NEW g, SafeGroup(p, q, g), NEW r \in 1 .. p - 1
  PROVE  \E k \in 0 .. q - 1 : r = Power(g, k, p) \/ r = p - Power(g, k, p)
<1>0. /\ p \in Nat /\ q \in Nat /\ g \in Nat /\ p > 0 /\ p > 1 /\ p > 2 /\ q > 2 /\ p - 1 = 2 * q
      /\ Turn(g, q, p) /\ Prime(q) /\ g \in 2 .. p - 1
  BY SafeNumbers
<1> DEFINE P(k) == Power(g, k, p)
           W == 1 .. p - 1
           F == [i \in W |-> IF i <= q THEN P(i - 1) ELSE p - P(i - 1 - q)]
<1>1. \A k \in Nat : P(k) \in W
  BY <1>0, PowerInverse
<1>2. \A i, j \in 0 .. q - 1 : P(i) = P(j) => i = j
  <2>1. \A i, j \in 0 .. q - 1 : i < j => P(i) # P(j)
    BY <1>0, PowersDiffer
  <2> HIDE DEF P
  <2>2. \A i, j \in 0 .. q - 1 : i < j \/ j < i \/ i = j
    BY <1>0
  <2> QED
    BY <2>1, <2>2
<1>3. \A i, j \in Nat : P(i) # p - P(j)
  BY OppositeIsNone
<1> HIDE DEF P
<1>4. F \in [W -> W]
  <2> SUFFICES ASSUME NEW i \in W PROVE F[i] \in W
    OBVIOUS
  <2>1. CASE i <= q
    <3>1. i - 1 \in Nat
      BY <1>0
    <3> QED
      BY <1>1, <2>1, <3>1
  <2>2. CASE ~(i <= q)
    <3>1. i - 1 - q \in Nat
      BY <1>0, <2>2
    <3>2. P(i - 1 - q) \in W
      BY <1>1, <3>1
    <3>3. p - P(i - 1 - q) \in W
      BY <1>0, <3>2
    <3> QED
      BY <2>2, <3>3
  <2> QED
    BY <2>1, <2>2
<1>5. \A i, j \in W : F[i] = F[j] => i = j
  <2> SUFFICES ASSUME NEW i \in W, NEW j \in W, F[i] = F[j] PROVE i = j
    OBVIOUS
  <2>1. CASE i <= q /\ j <= q
    <3>1. i - 1 \in 0 .. q - 1 /\ j - 1 \in 0 .. q - 1
      BY <1>0, <2>1
    <3>2. P(i - 1) = P(j - 1)
      BY <2>1
    <3>3. i - 1 = j - 1
      BY <1>2, <3>1, <3>2
    <3> QED
      BY <3>3
  <2>2. CASE i <= q /\ ~(j <= q)
    <3>1. i - 1 \in Nat /\ j - 1 - q \in Nat
      BY <1>0, <2>2
    <3> QED
      BY <1>3, <2>2, <3>1
  <2>3. CASE ~(i <= q) /\ j <= q
    <3>1. j - 1 \in Nat /\ i - 1 - q \in Nat
      BY <1>0, <2>3
    <3>2. P(j - 1) # p - P(i - 1 - q)
      BY <1>3, <3>1
    <3> QED
      BY <2>3, <3>2
  <2>4. CASE ~(i <= q) /\ ~(j <= q)
    <3>1. i - 1 - q \in 0 .. q - 1 /\ j - 1 - q \in 0 .. q - 1
      BY <1>0, <2>4
    <3>2. p - P(i - 1 - q) = p - P(j - 1 - q)
      BY <2>4
    <3>3. P(i - 1 - q) \in W /\ P(j - 1 - q) \in W
      BY <1>0, <1>1, <3>1
    <3>4. P(i - 1 - q) = P(j - 1 - q)
      BY <1>0, <3>2, <3>3
    <3>5. i - 1 - q = j - 1 - q
      BY <1>2, <3>1, <3>4
    <3> QED
      BY <1>0, <3>5
  <2> QED
    BY <2>1, <2>2, <2>3, <2>4
<1>6. F \in Injection(W, W)
  <2> HIDE DEF F
  <2> QED
    BY <1>4, <1>5 DEF Injection, IsInjective
<1>7. IsFiniteSet(W)
  <2>1. 1 \in Int /\ p - 1 \in Int
    BY <1>0
  <2> QED
    BY <2>1, FS_Interval
<1>8. F \in Surjection(W, W)
  <2> HIDE DEF F, W
  <2> QED
    BY <1>6, <1>7, FS_Injection
<1>9. PICK i \in W : F[i] = r
  <2> HIDE DEF F
  <2> QED
    BY <1>8 DEF Surjection
<1>10. CASE i <= q
  <2>1. i - 1 \in 0 .. q - 1
    BY <1>0, <1>10
  <2> QED
    BY <1>9, <1>10, <2>1 DEF P
<1>11. CASE ~(i <= q)
  <2>1. i - 1 - q \in 0 .. q - 1
    BY <1>0, <1>11
  <2> QED
    BY <1>9, <1>11, <2>1 DEF P
<1> QED
  BY <1>10, <1>11

-----------------------------------------------------------------------------
(* The schemes over numbers.                                                *)
DlFacts ==
  /\ ctx.scheme \in {"elgamal", "dsa"} /\ ctx.family = "dl" /\ ctx.mdLen \in Nat
  /\ Prime(ctx.q) /\ ctx.g \in 2 .. ctx.p - 1 /\ Turn(ctx.g, ctx.q, ctx.p)
  /\ ctx.x \in 1 .. ctx.order - 1 /\ ctx.y = Power(ctx.g, ctx.x, ctx.p)
  /\ ctx.scheme = "elgamal" => SafeGroup(ctx.p, ctx.q, ctx.g) /\ ctx.order = ctx.p - 1
  /\ ctx.scheme = "dsa" => ctx.order = ctx.q

LEMMA TwiceTurns ==
  ASSUME NEW p, NEW q, NEW g, SafeGroup(p, q, g) PROVE Turn(g, p - 1, p)
<1>0. /\ p \in Nat /\ q \in Nat /\ g \in Nat /\ p > 0 /\ p > 1 /\ p > 2 /\ p - 1 = 2 * q /\ 2 \in Nat
      /\ Power(g, q, p) = 1
  BY SafeNumbers
<1>1. Power(Power(g, q, p), 2, p) = Power(g, q * 2, p)
  BY ONLY <1>0, PowerOver
<1>2. Power(1, 2, p) = 1
  BY <1>0, PowerOfOne
<1>3. q * 2 = p - 1 /\ p - 1 \in Nat /\ p - 1 > 0
  BY <1>0
<1>4. Power(g, p - 1, p) = Pow(g, p - 1) % p
  BY ONLY <1>0, <1>3, PowerIs
<1> QED
  BY <1>0, <1>1, <1>2, <1>3, <1>4 DEF Turn

LEMMA DlNumbers ==
  ASSUME DlFacts
  PROVE  /\ ctx.p \in Nat /\ ctx.p > 2 /\ ctx.p > 1 /\ ctx.p > 0 /\ ctx.g \in Nat /\ ctx.mdLen \in Nat
         /\ ctx.q \in Nat /\ ctx.q > 1 /\ ctx.q > 0 /\ ctx.order \in Nat /\ ctx.order > 1 /\ ctx.order > 0
         /\ ctx.x \in Nat /\ ctx.y \in Nat /\ ctx.y \in 0 .. ctx.p - 1 /\ ctx.y = Power(ctx.g, ctx.x, ctx.p)
         /\ Turn(ctx.g, ctx.order, ctx.p)
<1>1. /\ ctx.p \in Nat /\ ctx.q \in Nat /\ ctx.q > 1 /\ ctx.mdLen \in Nat /\ ctx.g \in 2 .. ctx.p - 1
      /\ ctx.x \in 1 .. ctx.order - 1 /\ ctx.y = Power(ctx.g, ctx.x, ctx.p)
  BY DEF DlFacts, Turn, Prime
<1>2. ctx.p > 2 /\ ctx.p > 1 /\ ctx.p > 0 /\ ctx.q > 0 /\ ctx.g \in Nat
  BY <1>1
<1>3. Turn(ctx.g, ctx.order, ctx.p) /\ ctx.order \in Nat /\ ctx.order > 1
  <2>1. CASE ctx.scheme = "elgamal"
    BY <1>1, <1>2, <2>1, TwiceTurns DEF DlFacts
  <2>2. CASE ctx.scheme = "dsa"
    BY <1>1, <2>2 DEF DlFacts
  <2> QED
    BY <2>1, <2>2 DEF DlFacts
<1>4. ctx.x \in Nat /\ ctx.order > 0
  BY <1>1, <1>3
<1>5. Power(ctx.g, ctx.x, ctx.p) \in 0 .. ctx.p - 1
  BY ONLY <1>1, <1>2, <1>4, PowerInRange
<1>6. ctx.y \in Nat /\ ctx.y \in 0 .. ctx.p - 1
  BY <1>1, <1>2, <1>5
<1> QED
  BY <1>1, <1>2, <1>3, <1>4, <1>6

(* What ElGamal encrypted opens.                                            *)
LEMMA DlOpens ==
  ASSUME DlFacts, NEW m \in Seq(Byte), ~(NumberOf(m) >= ctx.p), NEW k \in Nat,
         NEW c, c = DlCipher(m, k), DlDecrypt(c)
  PROVE  Open("decrypt", Minimal(NumberOf(m)), c, "ok")
<1> DEFINE p == ctx.p
           g == ctx.g
           x == ctx.x
           y == ctx.y
           v == NumberOf(m)
           a == Power(g, k, p)
           z == Power(y, k, p)
           w == InverseOf(z, p)
           b == Mul(z, v, p)
<1>1. p \in Nat /\ p > 0 /\ g \in Nat /\ x \in Nat /\ y \in Nat /\ y = Power(g, x, p) /\ Turn(g, ctx.order, p) /\ p > 1
  BY DlNumbers
<1>2. v \in Nat /\ v < p /\ v \in 0 .. p - 1
  BY <1>1, NumberIn
<1> HIDE DEF p, g, x, y, v
<1>3. a \in 1 .. p - 1
  BY <1>1, PowerInverse
<1>4. z = Power(a, x, p) /\ z = Power(g, k * x, p) /\ k * x \in Nat
  <2>1. Power(Power(g, k, p), x, p) = Power(g, k * x, p)
    BY ONLY <1>1, k \in Nat, PowerOver
  <2>2. Power(Power(g, x, p), k, p) = Power(g, x * k, p)
    BY ONLY <1>1, k \in Nat, PowerOver
  <2>3. k * x = x * k /\ k * x \in Nat
    BY <1>1, Sums
  <2> QED
    BY <1>1, <2>1, <2>2, <2>3
<1>5. z \in 1 .. p - 1 /\ w \in Nat /\ (z * w) % p = 1
  BY <1>1, <1>4, PowerInverse
<1>6. z \in Nat /\ b \in 0 .. p - 1 /\ b \in Nat
  <2>1. z \in Nat
    BY <1>1, <1>5
  <2> HIDE DEF z
  <2> QED
    BY <1>1, <1>2, <2>1, MulIn
<1>7. c = <<Minimal(a), Minimal(b)>>
  BY DEF DlCipher, Mul, p, g, y, v
<1> HIDE DEF a, z, w
<1>8. Mul(b, w, p) = v
  <2>1. b = Mul(v, z, p)
    BY <1>1, <1>2, <1>6, MulIn
  <2> HIDE DEF b
  <2>2. Mul(Mul(v, z, p), w, p) = Mul(v, Mul(z, w, p), p)
    BY <1>1, <1>2, <1>5, <1>6, MulTwice
  <2>3. Mul(z, w, p) = 1
    BY <1>5 DEF Mul
  <2>4. Mul(v, 1, p) = v
    BY <1>1, <1>2, MulOne
  <2> QED
    BY <2>1, <2>2, <2>3, <2>4
<1> HIDE DEF b
<1>9. a \in Nat /\ NumberOf(c[1]) = a /\ NumberOf(c[2]) = b
  BY <1>1, <1>3, <1>6, <1>7, MinimalIs
<1>10. ~(a <= 0 \/ a >= p \/ b >= p)
  BY <1>1, <1>3, <1>6
<1>11. (b * InverseOf(Power(a, x, p), p)) % p = v
  BY <1>4, <1>8 DEF Mul, w
<1>12. \/ (a <= 0 \/ a >= p \/ b >= p) /\ Open("decrypt", <<>>, c, "invalid_input")
       \/ Open("decrypt", Minimal((b * InverseOf(Power(a, x, p), p)) % p), c, "ok")
  BY <1>9 DEF DlDecrypt, p, x
<1> QED
  BY <1>10, <1>11, <1>12 DEF v

(* Powers of the generator and of the public key join.                      *)
LEMMA PowersMeet ==
  ASSUME NEW g \in Nat, NEW p \in Nat, p > 0, NEW x \in Nat, NEW a \in Nat, NEW b \in Nat
  PROVE  (Power(g, a, p) * Power(Power(g, x, p), b, p)) % p = Power(g, a + x * b, p)
<1> DEFINE t == x * b
<1>1. t \in Nat
  BY Sums
<1>2. Power(Power(g, x, p), b, p) = Power(g, t, p)
  BY PowerOver
<1> HIDE DEF t
<1>3. (Power(g, a, p) * Power(g, t, p)) % p = Power(g, a + t, p)
  BY <1>1, PowerJoin
<1> QED
  BY <1>2, <1>3 DEF t

(* A product with the opposite of a number.                                 *)
LEMMA MulOpposite ==
  ASSUME NEW p \in Nat, p > 0, NEW x \in Nat, NEW b \in 1 .. p - 1, Mul(x, b, p) # 0
  PROVE  Mul(x, p - b, p) = p - Mul(x, b, p)
<1> DEFINE t == x * b
           d == t \div p
           c == t % p
           v == x * (p - b)
           e == x - d - 1
<1>1. t \in Nat /\ b \in Nat /\ Mul(x, b, p) = c /\ Mul(x, p - b, p) = v % p
  <2>1. b \in Nat
    OBVIOUS
  <2> QED
    BY <2>1, Sums DEF Mul
<1>2. v = x * p - t /\ x * p \in Nat
  <2>1. b \in Nat
    OBVIOUS
  <2> QED
    BY <2>1, Sums
<1> HIDE DEF t
<1>3. d \in Nat /\ c \in 0 .. p - 1 /\ t = d * p + c /\ d * p \in Nat
  <2>1. d \in Nat /\ c \in 0 .. p - 1 /\ t = d * p + c
    BY <1>1, Division
  <2> HIDE DEF d
  <2> QED
    BY <2>1, Sums
<1> HIDE DEF d, c, v
<1>4. e \in Int /\ e * p = x * p - d * p - p
  BY <1>3
<1> DEFINE f == p - c
           ep == e * p
           xp == x * p
           dp == d * p
<1>5. f \in 0 .. p - 1 /\ f \in Int
  BY <1>1, <1>3
<1>6. v = f + ep
  <2>1. v = xp - t /\ xp \in Int /\ t = dp + c /\ dp \in Int /\ ep = xp - dp - p /\ c \in Int
    BY <1>2, <1>3, <1>4
  <2> HIDE DEF ep, xp, dp
  <2> QED
    BY <2>1
<1> HIDE DEF e, f
<1>7. (f + e * p) % p = f % p
  BY ONLY <1>4, <1>5, p \in Nat, p > 0, IntRemainder
<1>8. f % p = f
  BY <1>5
<1> QED
  BY <1>1, <1>6, <1>7, <1>8 DEF f

(* What ElGamal signs verifies.                                             *)
LEMMA ElgamalValid ==
  ASSUME DlFacts, ctx.scheme = "elgamal", NEW h \in Nat, NEW k \in Nonces, ~Unusable(k, h)
  PROVE  LET r == FirstHalf(k)
             s == SecondHalf(k, h)
         IN  r \in Nat /\ s \in Nat /\ InRanges(r, s) /\ DlEquation(r, s, h)
<1> DEFINE p == ctx.p
           g == ctx.g
           x == ctx.x
           N == ctx.order
           r == FirstHalf(k)
           s == SecondHalf(k, h)
           inv == InverseOf(k, N)
           t == x * r
<1>0. /\ p \in Nat /\ p > 2 /\ p > 1 /\ p > 0 /\ g \in Nat /\ N \in Nat /\ N > 1 /\ N > 0 /\ x \in Nat
      /\ ctx.y = Power(g, x, p) /\ Turn(g, N, p)
  BY DlNumbers
<1>1. k \in Nat
  BY <1>0 DEF Nonces
<1>2. r = Power(g, k, p)
  <2>1. ctx.scheme = "elgamal" /\ ctx.scheme # "dsa" /\ ctx.family # "ec"
    BY DEF DlFacts
  <2> QED
    BY ONLY <2>1 DEF FirstHalf, g, p, r
<1>3. r \in 1 .. p - 1
  BY <1>0, <1>1, <1>2, PowerInverse
<1>4. Invertible(k, N)
  BY DEF Unusable
<1>5. inv \in Nat /\ Mul(k, inv, N) = 1
  <2>1. 1 % N = 1
    BY <1>0
  <2> QED
    BY <1>0, <1>4, <2>1, InverseIn DEF Mul
<1>6. s = (inv * (h - t)) % N
  BY DEF SecondHalf
<1>7. r \in Nat
  BY <1>0, <1>3
<1> HIDE DEF p, g, x, N, r, s, inv
<1>8. t \in Nat
  BY <1>0, <1>7, Sums
<1> HIDE DEF t
<1>9. s \in 0 .. N - 1 /\ (t + k * s) % N = h % N
  <2>1. N \in Nat /\ N > 1
    BY <1>0
  <2>2. inv \in Nat /\ k \in Nat /\ h \in Nat /\ t \in Nat /\ Mul(k, inv, N) = 1 /\ s = Solution(inv, h, t, N)
    BY <1>1, <1>5, <1>6, <1>8 DEF Solution
  <2>3. s \in 0 .. N - 1 /\ Solves(s, k, h, t, N)
    BY ONLY <2>1, <2>2, ElgamalSolves
  <2> QED
    BY <2>3 DEF Solves
<1>10. s \in Nat
  BY <1>0, <1>9
<1>11. InRanges(r, s)
  <2>1. 0 < r /\ r < p /\ s < N
    BY <1>0, <1>3, <1>9
  <2> QED
    BY <2>1 DEF InRanges, p, N
<1>12. (Power(ctx.y, r, p) * Power(r, s, p)) % p = Power(g, t + k * s, p)
  <2> DEFINE ks == k * s
  <2>1. ks \in Nat
    BY <1>1, <1>10, Sums
  <2>2. Power(ctx.y, r, p) = Power(g, t, p)
    <3>1. Power(Power(g, x, p), r, p) = Power(g, x * r, p)
      BY <1>0, <1>7, PowerOver
    <3> QED
      BY <1>0, <3>1 DEF t
  <2>3. Power(r, s, p) = Power(g, ks, p)
    BY <1>0, <1>1, <1>2, <1>10, PowerOver
  <2> HIDE DEF ks
  <2>4. (Power(g, t, p) * Power(g, ks, p)) % p = Power(g, t + ks, p)
    BY <1>0, <1>8, <2>1, PowerJoin
  <2> QED
    BY <2>2, <2>3, <2>4 DEF ks
<1>13. Power(g, t + k * s, p) = Power(g, h, p)
  <2> DEFINE u == t + k * s
  <2>1. u \in Nat /\ u % N = h % N
    <3>1. k * s \in Nat
      BY <1>1, <1>10, Sums
    <3> QED
      BY <1>8, <1>9, <3>1
  <2> HIDE DEF u
  <2>2. Power(g, u, p) = Power(g, h, p)
    BY <1>0, <2>1, PowerSame
  <2> QED
    BY <2>2 DEF u
<1>14. DlEquation(r, s, h)
  BY <1>12, <1>13 DEF DlEquation, p, g
<1> QED
  BY <1>7, <1>10, <1>11, <1>14 DEF r, s

(* What verifies with ElGamal solves the equation of the signer, up to the  *)
(* sign of its first half.                                                  *)
LEMMA ElgamalSigned ==
  ASSUME DlFacts, ctx.scheme = "elgamal", NEW h \in Nat, NEW r \in Nat, NEW s \in Nat,
         InRanges(r, s), DlEquation(r, s, h)
  PROVE  \E k \in 0 .. ctx.order - 1 :
           /\ r = Power(ctx.g, k, ctx.p) \/ (r = ctx.p - Power(ctx.g, k, ctx.p) /\ s % 2 = 0)
           /\ Power(ctx.g, (s * k + ctx.x * r) % ctx.order, ctx.p) = Power(ctx.g, h, ctx.p)
<1> DEFINE p == ctx.p
           q == ctx.q
           g == ctx.g
           x == ctx.x
           N == ctx.order
           t == x * r
<1>0. /\ p \in Nat /\ p > 2 /\ p > 1 /\ p > 0 /\ g \in Nat /\ N \in Nat /\ N > 1 /\ N > 0 /\ x \in Nat
      /\ ctx.y = Power(g, x, p) /\ Turn(g, N, p)
  BY DlNumbers
<1>1. SafeGroup(p, q, g) /\ N = p - 1
  BY DEF DlFacts
<1>2. q \in Nat /\ q > 2 /\ p - 1 = 2 * q
  BY <1>1, SafeNumbers
<1>3. r \in 1 .. p - 1 /\ s < N
  <2>1. 0 < r /\ r < p /\ s < N
    BY DEF InRanges
  <2> QED
    BY <1>0, <2>1
<1>4. (Power(ctx.y, r, p) * Power(r, s, p)) % p = Power(g, h, p)
  BY DEF DlEquation
<1> HIDE DEF p, q, g, x, N
<1>5. t \in Nat
  BY <1>0, Sums
<1>6. PICK k \in 0 .. q - 1 : r = Power(g, k, p) \/ r = p - Power(g, k, p)
  BY <1>1, <1>3, PowersAndOpposites
<1>7. k \in Nat /\ k \in 0 .. N - 1
  BY <1>1, <1>2
<1> DEFINE z == Power(g, k, p)
           ks == s * k
           A == Power(g, t, p)
           B == Power(g, ks, p)
           C == Power(g, t + ks, p)
<1>8. ks \in Nat /\ z \in 1 .. p - 1
  <2>1. s * k \in Nat
    BY <1>7, Sums
  <2> QED
    BY <1>0, <1>7, <2>1, PowerInverse
<1>9. Power(ctx.y, r, p) = A
  <2>1. Power(Power(g, x, p), r, p) = Power(g, x * r, p)
    BY <1>0, PowerOver
  <2> QED
    BY <1>0, <2>1
<1>10. Power(z, s, p) = B
  <2>1. Power(Power(g, k, p), s, p) = Power(g, k * s, p)
    BY <1>0, <1>7, PowerOver
  <2>2. k * s = s * k
    BY <1>7
  <2> QED
    BY <2>1, <2>2
<1> HIDE DEF t, ks, z
<1>11. t + ks \in Nat
  BY <1>5, <1>8
<1>12. A \in 1 .. p - 1 /\ B \in 1 .. p - 1 /\ C \in 1 .. p - 1
  BY <1>0, <1>5, <1>8, <1>11, PowerInverse
<1>13. Mul(A, B, p) = C
  BY <1>0, <1>5, <1>8, PowerJoin DEF Mul
<1>14. Power(g, (s * k + x * r) % N, p) = C
  <2>1. s * k + x * r = t + ks
    BY <1>5, <1>8 DEF t, ks
  <2>2. Power(g, (t + ks) % N, p) = Power(g, t + ks, p)
    BY <1>0, <1>11, PowerReduced
  <2> QED
    BY <2>1, <2>2
<1>15. Mul(A, Power(r, s, p), p) = Power(g, h, p)
  BY <1>4, <1>9 DEF Mul
<1> HIDE DEF A, B, C
<1>16. CASE r = z
  <2>1. C = Power(g, h, p)
    BY <1>10, <1>13, <1>15, <1>16
  <2> QED
    BY <1>7, <1>14, <1>16, <2>1 DEF p, g, x, N, z
<1>17. CASE r = p - z
  <2> DEFINE R == Power(r, s, p)
  <2>1. R \in 0 .. p - 1
    BY <1>0, PowerInRange
  <2>2. (R + (IF s % 2 = 0 THEN -1 ELSE 1) * B) % p = 0
    <3>1. (Power(p - z, s, p) + (IF s % 2 = 0 THEN -1 ELSE 1) * Power(z, s, p)) % p = 0
      BY <1>0, <1>8, OppositePower
    <3> QED
      BY <1>10, <1>17, <3>1
  <2>3. Mul(A, R, p) = Power(g, h, p)
    BY <1>15
  <2> HIDE DEF R
  <2>4. CASE s % 2 = 0
    <3>1. (R - B) % p = 0
      BY <2>1, <2>2, <2>4, <1>12
    <3>2. R = B
      BY <1>0, <1>12, <2>1, <3>1
    <3>3. C = Power(g, h, p)
      BY <1>13, <2>3, <3>2
    <3> QED
      BY <1>7, <1>14, <1>17, <2>4, <3>3 DEF p, g, x, N, z
  <2>5. CASE s % 2 # 0
    <3>1. (R + B) % p = 0
      BY <2>1, <2>2, <2>5, <1>12
    <3>2. R = p - B
      BY <1>0, <1>12, <2>1, <3>1
    <3>3. A \in Nat /\ Mul(A, B, p) # 0
      BY <1>0, <1>12, <1>13
    <3>4. Mul(A, p - B, p) = p - C
      BY <1>0, <1>12, <1>13, <3>3, MulOpposite
    <3>5. Power(g, h, p) = p - C
      BY <2>3, <3>2, <3>4
    <3>6. Power(g, h, p) # p - Power(g, t + ks, p)
      BY <1>1, <1>11, OppositeIsNone
    <3> QED
      BY <3>5, <3>6 DEF C
  <2> QED
    BY <2>4, <2>5
<1> QED
  BY <1>6, <1>16, <1>17 DEF z

(* Modulo a prime every number but zero has an inverse, the same with       *)
(* either definition.                                                       *)
LEMMA UnitInverse ==
  ASSUME NEW N, Prime(N), NEW v \in 1 .. N - 1
  PROVE  Invertible(v, N) /\ InverseOf(v, N) \in Nat /\ Mul(v, InverseOf(v, N), N) = 1
<1>0. N \in Nat /\ N > 1 /\ 1 % N = 1
  BY DEF Prime
<1>1. PICK w \in 1 .. N - 1 : (v * w) % N = 1
  BY HasInverse
<1>2. w \in 0 .. N - 1
  BY <1>0
<1>3. Invertible(v, N)
  BY <1>0, <1>1, <1>2 DEF Invertible
<1> QED
  BY <1>0, <1>3, InverseIn DEF Mul

(* The two powers of a verifier join to one.                                *)
Whole(a, x, b, N) == (a + x * b) % N

LEMMA Verified ==
  ASSUME NEW g, NEW N, NEW p, Turn(g, N, p), NEW x \in Nat, NEW a \in Nat, NEW b \in Nat
  PROVE  Mul(Power(g, a, p), Power(Power(g, x, p), b, p), p) = Power(g, Whole(a, x, b, N), p)
<1> USE DEF Mul, Whole
<1>0. p \in Nat /\ p > 0 /\ g \in Nat
  BY DEF Turn
<1>1. a + x * b \in Nat
  <2>1. x * b \in Nat
    BY Sums
  <2> QED
    BY <2>1
<1>2. (Power(g, a, p) * Power(Power(g, x, p), b, p)) % p = Power(g, a + x * b, p)
  BY <1>0, PowersMeet
<1> DEFINE e == a + x * b
<1> HIDE DEF e
<1>3. e \in Nat
  BY <1>1 DEF e
<1>4. Power(g, e % N, p) = Power(g, e, p)
  BY <1>3, PowerReduced
<1> QED
  BY <1>2, <1>4 DEF e

(* What the verifier of DSA compares with the first half.                   *)
LEMMA DsaEquation ==
  ASSUME DlFacts, ctx.scheme = "dsa", NEW h \in Nat, NEW r \in Nat, NEW s \in Nat, InverseOf(s, ctx.q) \in Nat
  PROVE  LET w == InverseOf(s, ctx.q)
             k == (Mul(h, w, ctx.q) + ctx.x * Mul(r, w, ctx.q)) % ctx.q
         IN  DlEquation(r, s, h) <=> Power(ctx.g, k, ctx.p) % ctx.q = r
<1> DEFINE p == ctx.p
           q == ctx.q
           g == ctx.g
           x == ctx.x
           w == InverseOf(s, q)
           a == Mul(h, w, q)
           b == Mul(r, w, q)
<1>0. /\ p \in Nat /\ p > 2 /\ p > 1 /\ p > 0 /\ g \in Nat /\ q \in Nat /\ q > 1 /\ q > 0 /\ x \in Nat
      /\ ctx.y = Power(g, x, p) /\ w \in Nat
  BY DlNumbers
<1>1. Turn(g, q, p)
  BY DEF DlFacts
<1>2. DlEquation(r, s, h) <=> ((Power(g, a, p) * Power(ctx.y, b, p)) % p) % q = r
  BY DEF DlEquation, Mul
<1> HIDE DEF p, q, g, x, w
<1>3. a \in Nat /\ b \in Nat
  BY <1>0, MulIn
<1> HIDE DEF a, b
<1>4. Mul(Power(g, a, p), Power(Power(g, x, p), b, p), p) = Power(g, Whole(a, x, b, q), p)
  BY <1>0, <1>1, <1>3, Verified
<1>5. DlEquation(r, s, h) <=> Power(g, (a + x * b) % q, p) % q = r
  BY <1>0, <1>2, <1>4 DEF Mul, Whole
<1> QED
  BY <1>5 DEF p, q, g, x, w, a, b

LEMMA DsaValid ==
  ASSUME DlFacts, ctx.scheme = "dsa", NEW h \in Nat, NEW k \in Nonces, ~Unusable(k, h)
  PROVE  LET r == FirstHalf(k)
             s == SecondHalf(k, h)
         IN  r \in Nat /\ s \in Nat /\ InRanges(r, s) /\ DlEquation(r, s, h)
<1> DEFINE p == ctx.p
           q == ctx.q
           g == ctx.g
           x == ctx.x
           r == FirstHalf(k)
           s == SecondHalf(k, h)
           inv == InverseOf(k, q)
           w == InverseOf(s, q)
           z == Power(g, k, p)
           H == h + x * r
<1>0. /\ p \in Nat /\ p > 2 /\ p > 1 /\ p > 0 /\ g \in Nat /\ q \in Nat /\ q > 1 /\ q > 0 /\ x \in Nat
      /\ ctx.order = q /\ Prime(q) /\ Turn(g, q, p)
  BY DlNumbers DEF DlFacts
<1>1. k \in 1 .. q - 1 /\ k \in Nat /\ k \in 0 .. q - 1
  BY <1>0 DEF Nonces
<1>2. r = z % q /\ r # 0 /\ s # 0 /\ s = (inv * H) % q
  <2>1. ctx.scheme = "dsa" /\ ctx.scheme # "elgamal" /\ ctx.family # "ec" /\ ctx.order = q
    BY <1>0 DEF DlFacts
  <2>2. r = z % q
    BY ONLY <2>1 DEF FirstHalf, g, p, q, r, z
  <2>3. s = (inv * H) % q
    BY ONLY <2>1 DEF SecondHalf, s, inv, H, r, x
  <2>4. r # 0 /\ s # 0
    BY ONLY <2>1, ~Unusable(k, h) DEF Unusable, r, s
  <2> QED
    BY <2>2, <2>3, <2>4
<1>3. inv \in Nat /\ Mul(k, inv, q) = 1
  <2> HIDE DEF q
  <2> QED
    BY <1>0, <1>1, UnitInverse
<1> HIDE DEF p, q, g, x, r, s, inv
<1>4. r \in Nat /\ r \in 0 .. q - 1
  <2>1. z \in Nat
    <3>1. z \in 0 .. p - 1
      BY <1>0, <1>1, PowerInRange
    <3> QED
      BY <1>0, <3>1
  <2> HIDE DEF z
  <2> QED
    BY <1>0, <1>2, <2>1, Division
<1>5. H \in Nat
  <2>1. x * r \in Nat
    BY <1>0, <1>4, Sums
  <2> QED
    BY <2>1
<1>6. s = Mul(inv, H, q)
  BY <1>2 DEF Mul
<1>7. s \in 0 .. q - 1 /\ s \in Nat /\ s \in 1 .. q - 1
  <2> HIDE DEF H
  <2>1. s \in 0 .. q - 1
    BY <1>0, <1>3, <1>5, <1>6, MulIn
  <2> QED
    BY <1>0, <1>2, <2>1
<1>8. w \in Nat /\ Mul(s, w, q) = 1
  BY <1>0, <1>7, UnitInverse
<1>9. (Mul(h, w, q) + x * Mul(r, w, q)) % q = k
  <2> HIDE DEF w
  <2>1. q \in Nat /\ q > 1 /\ x \in Nat
    BY <1>0
  <2> QED
    BY ONLY <2>1, <1>1, <1>3, <1>4, <1>6, <1>8, h \in Nat, DsaSolves DEF H
<1>10. InRanges(r, s)
  <2>1. 0 < r /\ r < q /\ 0 < s /\ s < q
    BY <1>0, <1>2, <1>4, <1>7
  <2> QED
    BY <1>0, <2>1 DEF InRanges
<1>11. DlEquation(r, s, h) <=> Power(g, k, p) % q = r
  <2>1. InverseOf(s, ctx.q) \in Nat
    BY <1>8 DEF q
  <2>2. LET u == InverseOf(s, ctx.q)
            v == (Mul(h, u, ctx.q) + ctx.x * Mul(r, u, ctx.q)) % ctx.q
        IN  DlEquation(r, s, h) <=> Power(ctx.g, v, ctx.p) % ctx.q = r
    BY <1>4, <1>7, <2>1, DsaEquation
  <2> QED
    BY <1>9, <2>2 DEF q, g, x, p
<1> QED
  BY <1>2, <1>4, <1>7, <1>10, <1>11 DEF r, s

LEMMA DsaSigned ==
  ASSUME DlFacts, ctx.scheme = "dsa", NEW h \in Nat, NEW r \in Nat, NEW s \in Nat,
         InRanges(r, s), DlEquation(r, s, h)
  PROVE  \E k \in 0 .. ctx.order - 1 : FirstHalf(k) = r /\ (s * k - h - ctx.x * r) % ctx.order = 0
<1> DEFINE p == ctx.p
           q == ctx.q
           g == ctx.g
           x == ctx.x
           w == InverseOf(s, q)
           k == (Mul(h, w, q) + x * Mul(r, w, q)) % q
<1>0. q \in Nat /\ q > 1 /\ q > 0 /\ x \in Nat /\ ctx.order = q /\ Prime(q)
  BY DlNumbers DEF DlFacts
<1>1. s \in 1 .. q - 1
  <2>1. 0 < s /\ s < q
    BY <1>0 DEF InRanges
  <2> QED
    BY <1>0, <2>1
<1>2. w \in Nat /\ Mul(s, w, q) = 1
  <2> HIDE DEF q
  <2> QED
    BY <1>0, <1>1, UnitInverse
<1>3. k \in 0 .. q - 1 /\ (s * k - h - x * r) % q = 0
  <2> HIDE DEF w, q, x
  <2>1. q \in Nat /\ q > 1 /\ x \in Nat /\ h \in Nat /\ r \in Nat /\ s \in Nat
    BY <1>0
  <2> QED
    BY ONLY <2>1, <1>2, DsaSolved
<1>4. Power(g, k, p) % q = r
  BY <1>2, DsaEquation
<1>5. FirstHalf(k) = r
  <2>1. ctx.scheme = "dsa" /\ ctx.scheme # "elgamal" /\ ctx.family # "ec"
    BY DEF DlFacts
  <2> HIDE DEF k
  <2>2. FirstHalf(k) = Power(g, k, p) % q
    BY ONLY <2>1 DEF FirstHalf, g, p, q
  <2> QED
    BY <1>4, <2>2
<1> HIDE DEF k
<1> QED
  BY <1>0, <1>3, <1>5 DEF x

-----------------------------------------------------------------------------
(* The schemes over a curve.                                                *)
EcFacts ==
  /\ ctx.scheme \in {"ecdsa", "ecelgamal"} /\ ctx.family = "ec" /\ ctx.mdLen \in Nat
  /\ IsGroup(ctx, ctx.table, ctx.order) /\ IsCurve(ctx.c, ctx.table, ctx.order) /\ ctx.table[1] = ctx.c.g
  /\ ctx.x \in 1 .. ctx.order - 1 /\ ctx.y = ctx.table[ctx.x]

LEMMA EcNumbers ==
  ASSUME EcFacts
  PROVE  /\ ctx.c.p \in Nat /\ ctx.c.p > 2 /\ ctx.c.p > 0 /\ ctx.c.p > 1 /\ ctx.efs \in Nat /\ ctx.mdLen \in Nat
         /\ ctx.order \in Nat /\ ctx.order > 2 /\ ctx.order > 1 /\ ctx.order > 0 /\ Prime(ctx.order)
         /\ IsCyclic(ctx.c, ctx.table, ctx.order) /\ IsGroup(ctx, ctx.table, ctx.order)
         /\ IsCurve(ctx.c, ctx.table, ctx.order) /\ ctx.x \in 1 .. ctx.order - 1 /\ ctx.x \in Nat
         /\ ctx.y = ctx.table[ctx.x]
<1>1. /\ ctx.mdLen \in Nat /\ IsGroup(ctx, ctx.table, ctx.order) /\ IsCurve(ctx.c, ctx.table, ctx.order)
      /\ ctx.x \in 1 .. ctx.order - 1 /\ ctx.y = ctx.table[ctx.x]
  BY DEF EcFacts
<1>2. ctx.efs \in Nat /\ IsCyclic(ctx.c, ctx.table, ctx.order)
  BY <1>1 DEF IsGroup
<1>3. /\ ctx.c.p \in Nat /\ ctx.c.p > 2 /\ ctx.order \in Nat /\ ctx.order > 1 /\ Prime(ctx.order)
  BY <1>2 DEF IsCyclic, Prime
<1>4. ctx.order > 2
  BY <1>1 DEF IsCurve
<1>5. ctx.c.p > 0 /\ ctx.c.p > 1 /\ ctx.order > 0 /\ ctx.x \in Nat
  BY <1>1, <1>3
<1> QED
  BY <1>1, <1>2, <1>3, <1>4, <1>5

(* A mask that is longer than the message.                                  *)
LEMMA MaskTwice ==
  ASSUME NEW s, NEW n, Sized(s, n), NEW t, NEW m, Sized(t, m), n <= m
  PROVE  Sized(XorBytes(s, t), n) /\ XorBytes(XorBytes(s, t), t) = s
<1> DEFINE r == XorBytes(s, t)
           u == XorBytes(r, t)
<1>1. n \in Nat /\ s \in Seq(Byte) /\ t \in Seq(Byte) /\ Len(s) = n /\ Len(t) = m /\ m \in Nat
  BY DEF Sized
<1>2. ASSUME NEW i \in 1 .. n
      PROVE  s[i] \in Byte /\ XorByte(s[i], t[i]) \in Byte /\ XorByte(XorByte(s[i], t[i]), t[i]) = s[i]
  <2>1. i \in 1 .. m
    BY <1>1
  <2>2. s[i] \in Byte /\ t[i] \in Byte
    BY <1>1, <2>1
  <2> QED
    BY <2>2, ByteAssumption
<1>3. r = [i \in 1 .. n |-> XorByte(s[i], t[i])]
  BY <1>1 DEF XorBytes
<1> HIDE DEF r
<1>4. r \in [1 .. n -> Byte]
  BY <1>2, <1>3
<1>5. Sized(r, n)
  BY <1>1, <1>4 DEF Sized
<1>6. u = [i \in 1 .. n |-> XorByte(r[i], t[i])]
  BY <1>4 DEF XorBytes
<1> HIDE DEF u
<1>7. \A i \in 1 .. n : u[i] = s[i]
  BY <1>2, <1>3, <1>6
<1>8. Sized(u, n)
  <2>1. u \in [1 .. n -> Byte]
    BY <1>2, <1>6, <1>7
  <2> QED
    BY <1>1, <2>1 DEF Sized
<1>9. u = s
  BY <1>7, <1>8, SameBytes
<1> QED
  BY <1>5, <1>9 DEF r, u

LEMMA PointBytesIn ==
  ASSUME NEW G, IsGroup(G, G.table, G.order), NEW i \in 1 .. G.order - 1
  PROVE  PointBytes(G, Stored(G, G.table[i])) \in Seq(Byte)
<1> DEFINE S == G.table[i]
<1>1. /\ PointBytes(G, Stored(G, S)) = BytesOf(G.efs, S.x) \o IF Montgomery(G) THEN <<>> ELSE BytesOf(G.efs, S.y)
      /\ S.x \in 0 .. G.c.p - 1 /\ S.y \in 0 .. G.c.p - 1
  BY Encoded
<1>2. G.efs \in Nat /\ G.c.p \in Nat
  BY CurveGroup
<1> HIDE DEF S
<1>3. BytesOf(G.efs, S.x) \in Seq(Byte) /\ BytesOf(G.efs, S.y) \in Seq(Byte) /\ <<>> \in Seq(Byte)
  <2>1. S.x \in Nat /\ S.y \in Nat
    BY <1>1, <1>2
  <2>2. BytesOf(G.efs, S.x) \in Seq(Byte)
    BY ONLY <1>2, <2>1, BytesIn
  <2>3. BytesOf(G.efs, S.y) \in Seq(Byte)
    BY ONLY <1>2, <2>1, BytesIn
  <2> QED
    BY <2>2, <2>3
<1> DEFINE u == BytesOf(G.efs, S.x)
           v == IF Montgomery(G) THEN <<>> ELSE BytesOf(G.efs, S.y)
<1>4. u \in Seq(Byte) /\ v \in Seq(Byte)
  BY <1>3
<1> HIDE DEF u, v
<1>5. u \o v \in Seq(Byte)
  BY <1>4, ConcatProperties
<1> QED
  BY <1>1, <1>5 DEF S, u, v

(* What EC-ElGamal encrypted opens.                                         *)
LEMMA EcOpens ==
  ASSUME EcFacts, HashesBytes, ctx.scheme = "ecelgamal", NEW m \in Seq(Byte), Len(m) <= ctx.mdLen,
         NEW k \in Nonces, NEW c, c = EcCipher(m, k), EcDecrypt(c)
  PROVE  Open("decrypt", m, c, "ok") \/ Open("decrypt", <<>>, c, "nomem")
<1> DEFINE N == ctx.order
           T == ctx.table
           x == ctx.x
           pub == PointBytes(ctx, Stored(ctx, T[k]))
           R == PointFrom(ctx, pub)
           I == At(x * k, N)
           Q == Stored(ctx, T[I])
           M == Mask(Q)
           V == Stored(ctx, Times(ctx, x, Lifted(ctx, R)))
<1>0. /\ ctx.order \in Nat /\ ctx.order > 1 /\ ctx.order > 0 /\ Prime(ctx.order) /\ ctx.mdLen \in Nat
      /\ IsCyclic(ctx.c, ctx.table, ctx.order) /\ IsGroup(ctx, ctx.table, ctx.order)
      /\ ctx.x \in 1 .. ctx.order - 1 /\ ctx.x \in Nat /\ ctx.y = ctx.table[ctx.x]
  BY EcNumbers
<1>1. k \in 1 .. ctx.order - 1 /\ k \in Nat /\ k > 0
  BY <1>0 DEF Nonces
<1>2. AcceptsPoint(ctx, pub)
  BY <1>0, <1>1, Received
<1>3. PointBytes(ctx, V) = PointBytes(ctx, Q)
  BY <1>0, <1>1, SharedMultiple
<1>4. Times(ctx, k, ctx.y) = T[I]
  <2>1. ASSUME NEW j \in 1 .. N PROVE Times(ctx, k, T[j]) = T[At(k * j, N)]
    <3>1. IsCyclic(ctx.c, T, N) /\ j \in 1 .. N /\ k \in Nat /\ k > 0
      BY <1>0, <1>1
    <3> HIDE DEF N, T
    <3> QED
      BY ONLY <3>1, TimesIs
  <2>2. x \in 1 .. N
    BY <1>0
  <2>4. Times(ctx, k, T[x]) = T[At(k * x, N)]
    BY <2>1, <2>2
  <2>3. k * x = x * k
    BY <1>0, <1>1
  <2> QED
    BY <1>0, <2>4, <2>3
<1>5. I \in 1 .. N - 1
  <2>1. ctx.order \in Nat /\ ctx.order > 1 /\ \A d \in 2 .. ctx.order - 1 : ctx.order % d # 0
    BY <1>0 DEF Prime
  <2> QED
    BY ONLY <1>0, <1>1, <2>1, Exponent
<1> HIDE DEF I
<1>6. PointBytes(ctx, Q) \in Seq(Byte)
  BY <1>0, <1>5, PointBytesIn
<1>7. Sized(M, ctx.mdLen)
  BY <1>0, <1>6, HashIn DEF Mask
<1>8. Mask(V) = M
  BY <1>3 DEF Mask
<1>9. c = <<pub, XorBytes(m, M)>>
  BY <1>4 DEF EcCipher
<1> HIDE DEF pub, M, Q, V
<1>10. Sized(m, Len(m)) /\ Len(m) \in Nat
  BY DEF Sized
<1>11. Sized(XorBytes(m, M), Len(m)) /\ XorBytes(XorBytes(m, M), M) = m
  BY <1>7, <1>10, MaskTwice
<1>12. Len(c[2]) = Len(m) /\ c[1] = pub /\ c[2] = XorBytes(m, M)
  BY <1>9, <1>11 DEF Sized
<1>13. ~(Len(c[1]) # PointSize(ctx) \/ Len(c[2]) > ctx.mdLen \/ ~IsValid(ctx, R))
  BY <1>0, <1>2, <1>10, <1>12 DEF AcceptsPoint
<1>14. \/ Open("decrypt", XorBytes(c[2], Mask(V)), c, "ok")
       \/ Open("decrypt", <<>>, c, "nomem")
  BY <1>12, <1>13 DEF EcDecrypt, V, R
<1> QED
  BY <1>8, <1>11, <1>12, <1>14

(* A multiple of the generator, as callers hand it to ec.c.                 *)
LEMMA TableStored ==
  ASSUME NEW G, NEW T, NEW N, IsCurve(G.c, T, N), NEW i \in 1 .. N
  PROVE  Stores(G.c, T, i, Stored(G, T[i]))
<1> DEFINE c == G.c
           S == T[i]
           R == Stored(G, S)
<1>1. /\ c.p \in Nat /\ c.p > 2 /\ N \in Nat /\ N > 2 /\ T[N] = Neutral(c)
      /\ \A f \in 1 .. N - 1 : IsPointOf(c, T, N, f)
  BY CurveFacts
<1>2. 0 \in 0 .. c.p - 1 /\ 1 \in 0 .. c.p - 1 /\ 1 # 0 /\ 0 % c.p = 0
  BY <1>1
<1>3. ASSUME S # O, S.x \in 0 .. c.p - 1, S.y \in 0 .. c.p - 1
      PROVE  Stores(c, T, i, R)
  <2>1. R = Point(S.x, S.y, 1)
    BY <1>3 DEF Stored
  <2>2. S.x \in Int /\ S.y \in Int /\ S.x - S.x * 1 = 0 /\ S.y - S.y * 1 = 0
    BY <1>1, <1>3
  <2> HIDE DEF S, R
  <2>3. R.x = S.x /\ R.y = S.y /\ R.z = 1 /\ R \in Coordinates(c)
    BY <1>2, <1>3, <2>1 DEF Point, Coordinates
  <2>4. Represents(c, R, S)
    BY <1>2, <1>3, <2>2, <2>3 DEF Represents
  <2> QED
    BY <2>3, <2>4 DEF Stores, S
<1>4. CASE i # N
  <2>1. IsPointOf(c, T, N, i)
    BY <1>1, <1>4
  <2>2. S.x \in 0 .. c.p - 1 /\ S.y \in 0 .. c.p - 1
    BY <2>1 DEF IsPointOf
  <2>3. S.x # -1
    BY <1>1, <2>2
  <2>4. S # O
    <3> HIDE DEF S
    <3> QED
      BY <2>3 DEF O
  <2> QED
    BY <1>3, <2>2, <2>4
<1>5. CASE i = N /\ c.type = "edwards"
  <2>1. S = [x |-> 0, y |-> 1]
    BY <1>1, <1>5 DEF Neutral
  <2>2. S # O /\ S.x \in 0 .. c.p - 1 /\ S.y \in 0 .. c.p - 1
    <3> HIDE DEF S
    <3>1. S.x = 0 /\ S.y = 1 /\ S # O
      BY <2>1 DEF O
    <3> QED
      BY <1>2, <3>1
  <2> QED
    BY <1>3, <2>2
<1>6. CASE i = N /\ c.type # "edwards"
  <2>1. R = InfinityOf(c)
    BY <1>1, <1>6 DEF Neutral, Stored
  <2> QED
    BY <1>6, <2>1, InfinityStored
<1> QED
  BY <1>3, <1>4, <1>5, <1>6

(* The affine form of a stored point has the coordinate x of its multiple.  *)
LEMMA AffineX ==
  ASSUME NEW c, NEW T, NEW N, IsCurve(c, T, N), NEW i \in 1 .. N - 1, NEW P, Stores(c, T, i, P)
  PROVE  AffineOn(c, P).x = T[i].x
<1> DEFINE m == c.p
           S == T[i]
           w == InverseMod(c, P.z)
           A == AffineOn(c, P)
<1>1. m \in Nat /\ m > 2 /\ m > 0 /\ N \in Nat /\ N > 2 /\ IsPointOf(c, T, N, i) /\ i \in 1 .. N /\ i # N
  BY CurveFacts
<1>2. S.x \in 0 .. m - 1 /\ S.y \in 0 .. m - 1
  BY <1>1 DEF IsPointOf
<1>3. ~IsInfinityOn(c, P)
  BY <1>1, InfiniteIs
<1>4. A = Reduced(c, P.x * w, P.y * w, 1)
  BY <1>3 DEF AffineOn
<1>5. 1 % m = 1
  BY <1>1
<1>6. A.z = 1
  BY <1>4, <1>5 DEF Reduced, Point
<1>7. Stores(c, T, i, A)
  BY AffineStored
<1>8. S # O
  <2>1. S.x # -1
    BY <1>1, <1>2
  <2> HIDE DEF S
  <2> QED
    BY <2>1 DEF O
<1> HIDE DEF A, S, w
<1>9. A.x \in 0 .. m - 1 /\ (A.x - S.x * A.z) % m = 0
  BY <1>7, <1>8 DEF Stores, Represents, Coordinates, S
<1>10. A.x \in Int /\ S.x \in Int /\ S.x * A.z = S.x
  BY <1>1, <1>2, <1>6, <1>9
<1>11. Same(m, A.x, S.x)
  <2>1. (A.x - S.x) % m = 0
    BY <1>9, <1>10
  <2> QED
    BY <1>1, <1>10, <2>1, SameZero
<1>12. A.x = S.x
  BY <1>1, <1>2, <1>9, <1>11, SameSmall
<1> QED
  BY <1>12 DEF A, S

(* What a verifier multiplies by a number below the order.                  *)
LEMMA MultipleStored ==
  ASSUME NEW G, NEW T, NEW N, IsCurve(G.c, T, N), NEW a \in 0 .. N - 1, NEW j \in 1 .. N
  PROVE  Stores(G.c, T, At(a * j, N), Stored(G, IF a = 0 THEN Neutral(G.c) ELSE Times(G, a, T[j])))
<1> DEFINE t == a * j
<1>1. N \in Nat /\ N > 2 /\ N > 0 /\ T[N] = Neutral(G.c) /\ IsCyclic(G.c, T, N)
  BY CurveFacts DEF IsCurve
<1>2. a \in Nat /\ j \in Nat /\ t \in Int
  BY <1>1
<1>3. At(t, N) \in 1 .. N
  BY <1>1, <1>2, AtRest
<1>4. CASE a = 0
  <2>1. t = 0 /\ 0 \in 0 .. N - 1 /\ N \in 1 .. N
    BY <1>1, <1>2, <1>4
  <2>2. At(0, N) = N
    BY <1>1, <2>1, PlaceIs DEF Place
  <2>3. Stores(G.c, T, N, Stored(G, T[N]))
    BY <2>1, TableStored
  <2> QED
    BY <1>1, <1>4, <2>1, <2>2, <2>3
<1>5. CASE a # 0
  <2>1. IsCyclic(G.c, T, N) /\ j \in 1 .. N /\ a \in Nat /\ a > 0
    BY <1>1, <1>2, <1>5
  <2>2. Times(G, a, T[j]) = T[At(a * j, N)]
    BY ONLY <2>1, TimesIs
  <2>3. Stores(G.c, T, At(t, N), Stored(G, T[At(t, N)]))
    <3> HIDE DEF t
    <3> QED
      BY <1>3, TableStored
  <2> QED
    BY <1>5, <2>2, <2>3
<1> QED
  BY <1>4, <1>5

(* What a verifier over a curve compares with the first half.               *)
LEMMA EcEquationIs ==
  ASSUME EcFacts, ctx.c.type # "montgomery", NEW h \in Nat, NEW r \in Nat, NEW s \in Nat,
         InverseOf(s, ctx.order) \in Nat
  PROVE  LET w == InverseOf(s, ctx.order)
             k == (Mul(h, w, ctx.order) + ctx.x * Mul(r, w, ctx.order)) % ctx.order
         IN  EcEquation(r, s, h) <=> k # 0 /\ FirstHalf(k) = r
<1> DEFINE N == ctx.order
           T == ctx.table
           c == ctx.c
           x == ctx.x
           w == InverseOf(s, N)
           a == Mul(h, w, N)
           b == Mul(r, w, N)
           e == a + x * b
           k == e % N
           i == At(a * 1, N)
           j == At(b * x, N)
           M(n, S) == Stored(ctx, IF n = 0 THEN Neutral(c) ELSE Times(ctx, n, S))
           P == M(a, c.g)
           Q == M(b, ctx.y)
           R == AddOn(c, P, Q)
<1>0. /\ N \in Nat /\ N > 2 /\ N > 0 /\ x \in Nat /\ x \in 1 .. N /\ 1 \in 1 .. N /\ IsCurve(c, T, N)
      /\ w \in Nat /\ c.g = T[1] /\ ctx.y = T[x] /\ c.type # "montgomery" /\ ctx.family = "ec"
      /\ ctx.scheme \in {"ecdsa", "ecelgamal"}
  BY EcNumbers DEF EcFacts
<1>1. EcEquation(r, s, h) <=> ~IsInfinityOn(c, R) /\ XOf(R) % N = r
  BY DEF EcEquation, Mul
<1>2. a \in Nat /\ b \in Nat /\ a \in 0 .. N - 1 /\ b \in 0 .. N - 1
  <2> HIDE DEF N, w
  <2> QED
    BY <1>0, MulIn
<1> HIDE DEF a, b, w
<1>3. Stores(c, T, i, P)
  <2>1. IsCurve(ctx.c, T, N) /\ a \in 0 .. N - 1 /\ 1 \in 1 .. N
    BY <1>0, <1>2
  <2> HIDE DEF T, N
  <2>2. Stores(ctx.c, T, At(a * 1, N), Stored(ctx, IF a = 0 THEN Neutral(ctx.c) ELSE Times(ctx, a, T[1])))
    BY ONLY <2>1, MultipleStored
  <2> QED
    BY <1>0, <2>2
<1>4. Stores(c, T, j, Q)
  <2>1. IsCurve(ctx.c, T, N) /\ b \in 0 .. N - 1 /\ x \in 1 .. N
    BY <1>0, <1>2
  <2> HIDE DEF T, N, x
  <2>2. Stores(ctx.c, T, At(b * x, N), Stored(ctx, IF b = 0 THEN Neutral(ctx.c) ELSE Times(ctx, b, T[x])))
    BY ONLY <2>1, MultipleStored
  <2> QED
    BY <1>0, <2>2
<1> HIDE DEF P, Q, T, N, x, c
<1>5. a * 1 \in Int /\ b * x \in Int /\ a * 1 + b * x = e /\ e \in Int
  BY <1>0, <1>2
<1>6. i \in 1 .. N /\ j \in 1 .. N /\ At(i + j, N) = At(e, N)
  <2> DEFINE u == a * 1
             v == b * x
  <2>1. u \in Int /\ v \in Int /\ u + v = e
    BY <1>5
  <2> HIDE DEF u, v, e
  <2>2. At(u, N) \in 1 .. N /\ At(v, N) \in 1 .. N
    BY <1>0, <2>1, AtRest
  <2>3. At(At(u, N) + At(v, N), N) = At(u + v, N)
    BY <1>0, <2>1, AtAdds
  <2> QED
    BY <2>1, <2>2, <2>3 DEF u, v
<1> HIDE DEF i, j, e
<1>7. k \in 0 .. N - 1 /\ At(e, N) = Place(k, N) /\ Place(k, N) \in 1 .. N
  <2>1. k \in 0 .. N - 1 /\ e \div N \in Int /\ e = k + (e \div N) * N
    BY <1>0, <1>5
  <2> DEFINE d == e \div N
  <2> HIDE DEF d, k
  <2>2. k \in Int /\ d \in Int /\ e = k + d * N
    BY <1>0, <2>1 DEF d
  <2>3. At(e, N) = At(k, N)
    BY <1>0, <1>5, <2>2, AtTurns
  <2>4. Place(k, N) \in 1 .. N /\ At(k, N) = Place(k, N)
    BY <1>0, <2>1, PlaceIs
  <2> QED
    BY <2>1, <2>3, <2>4
<1> HIDE DEF k
<1>8. Stores(c, T, Place(k, N), R)
  <2>1. Stores(c, T, At(i + j, N), R)
    BY <1>0, <1>3, <1>4, <1>6, Added
  <2> QED
    BY <1>6, <1>7, <2>1
<1> HIDE DEF R
<1>9. CASE k = 0
  <2>1. Place(k, N) = N
    BY <1>9 DEF Place
  <2>2. IsInfinityOn(c, R)
    BY <1>0, <1>7, <1>8, <2>1, InfiniteIs
  <2> QED
    BY <1>1, <1>9, <2>2 DEF k, e, a, b, w, x, N
<1>10. CASE k # 0
  <2>1. Place(k, N) = k /\ k \in 1 .. N - 1 /\ k \in 1 .. N /\ k # N
    BY <1>0, <1>7, <1>10 DEF Place
  <2>2. ~IsInfinityOn(c, R)
    BY <1>0, <1>8, <2>1, InfiniteIs
  <2>3. AffineOn(c, R).x = T[k].x
    BY <1>0, <1>8, <2>1, AffineX
  <2>4. Stores(c, T, k, Stored(ctx, T[k]))
    BY <1>0, <2>1, TableStored DEF c
  <2>5. AffineOn(c, Stored(ctx, T[k])).x = T[k].x
    BY <1>0, <2>1, <2>4, AffineX
  <2>6. FirstHalf(k) = XOf(Stored(ctx, T[k])) % N
    <3>1. ctx.family = "ec" /\ ctx.scheme # "elgamal" /\ ctx.scheme # "dsa"
      BY <1>0
    <3> QED
      BY ONLY <3>1 DEF FirstHalf, T, N
  <2>7. XOf(R) % N = FirstHalf(k)
    BY <2>3, <2>5, <2>6 DEF XOf, c
  <2> QED
    BY <1>1, <1>10, <2>2, <2>7 DEF k, e, a, b, w, x, N
<1> QED
  BY <1>9, <1>10

LEMMA EcHalf ==
  ASSUME EcFacts, NEW k \in 1 .. ctx.order - 1
  PROVE  FirstHalf(k) \in Nat /\ FirstHalf(k) \in 0 .. ctx.order - 1
<1> DEFINE z == XOf(Stored(ctx, ctx.table[k]))
<1>0. /\ ctx.c.p \in Nat /\ ctx.order \in Nat /\ ctx.order > 0 /\ IsCurve(ctx.c, ctx.table, ctx.order)
  BY EcNumbers
<1>1. Stores(ctx.c, ctx.table, k, Stored(ctx, ctx.table[k]))
  <2>1. k \in 1 .. ctx.order
    BY <1>0
  <2> QED
    BY <1>0, <2>1, TableStored
<1>2. z = ctx.table[k].x
  BY <1>0, <1>1, AffineX DEF XOf
<1>3. ctx.table[k].x \in 0 .. ctx.c.p - 1
  <2>1. IsPointOf(ctx.c, ctx.table, ctx.order, k)
    BY <1>0, CurveFacts
  <2> QED
    BY <2>1 DEF IsPointOf
<1>4. z \in Nat
  BY <1>0, <1>2, <1>3
<1>5. FirstHalf(k) = z % ctx.order
  <2>1. ctx.family = "ec" /\ ctx.scheme # "elgamal" /\ ctx.scheme # "dsa"
    BY DEF EcFacts
  <2> QED
    BY ONLY <2>1 DEF FirstHalf, z
<1> HIDE DEF z
<1>6. z % ctx.order \in 0 .. ctx.order - 1
  BY <1>0, <1>4, Division
<1> QED
  BY <1>0, <1>5, <1>6

LEMMA EcValid ==
  ASSUME EcFacts, ctx.c.type # "montgomery", NEW h \in Nat, NEW k \in Nonces, ~Unusable(k, h)
  PROVE  LET r == FirstHalf(k)
             s == SecondHalf(k, h)
         IN  r \in Nat /\ s \in Nat /\ InRanges(r, s) /\ EcEquation(r, s, h)
<1> DEFINE q == ctx.order
           x == ctx.x
           r == FirstHalf(k)
           s == SecondHalf(k, h)
           inv == InverseOf(k, q)
           w == InverseOf(s, q)
           H == h + x * r
<1>0. q \in Nat /\ q > 1 /\ q > 0 /\ x \in Nat /\ Prime(q) /\ ctx.scheme # "elgamal"
  BY EcNumbers DEF EcFacts
<1>1. k \in 1 .. q - 1 /\ k \in Nat /\ k \in 0 .. q - 1 /\ k # 0
  BY <1>0 DEF Nonces
<1>2. r # 0 /\ s # 0 /\ s = (inv * H) % q
  <2>1. ctx.scheme # "elgamal"
    BY <1>0
  <2>3. s = (inv * H) % q
    BY ONLY <2>1 DEF SecondHalf, s, inv, H, r, x, q
  <2>4. r # 0 /\ s # 0
    BY ONLY <2>1, ~Unusable(k, h) DEF Unusable, r, s
  <2> QED
    BY <2>3, <2>4
<1>3. inv \in Nat /\ Mul(k, inv, q) = 1
  <2> HIDE DEF q
  <2> QED
    BY <1>0, <1>1, UnitInverse
<1>4. r \in Nat /\ r \in 0 .. q - 1
  BY <1>1, EcHalf
<1> HIDE DEF q, x, r, s, inv
<1>5. H \in Nat
  <2>1. x * r \in Nat
    BY <1>0, <1>4, Sums
  <2> QED
    BY <2>1
<1>6. s = Mul(inv, H, q)
  BY <1>2 DEF Mul
<1>7. s \in 0 .. q - 1 /\ s \in Nat /\ s \in 1 .. q - 1
  <2> HIDE DEF H
  <2>1. s \in 0 .. q - 1
    BY <1>0, <1>3, <1>5, <1>6, MulIn
  <2> QED
    BY <1>0, <1>2, <2>1
<1>8. w \in Nat /\ Mul(s, w, q) = 1
  BY <1>0, <1>7, UnitInverse
<1>9. (Mul(h, w, q) + x * Mul(r, w, q)) % q = k
  <2> HIDE DEF w
  <2>1. q \in Nat /\ q > 1 /\ x \in Nat
    BY <1>0
  <2> QED
    BY ONLY <2>1, <1>1, <1>3, <1>4, <1>6, <1>8, h \in Nat, DsaSolves DEF H
<1>10. InRanges(r, s)
  <2>1. 0 < r /\ r < q /\ 0 < s /\ s < q
    BY <1>0, <1>2, <1>4, <1>7
  <2> QED
    BY <1>0, <2>1 DEF InRanges, q
<1>11. EcEquation(r, s, h) <=> k # 0 /\ FirstHalf(k) = r
  <2>1. InverseOf(s, ctx.order) \in Nat
    BY <1>8 DEF q
  <2>2. LET u == InverseOf(s, ctx.order)
            v == (Mul(h, u, ctx.order) + ctx.x * Mul(r, u, ctx.order)) % ctx.order
        IN  EcEquation(r, s, h) <=> v # 0 /\ FirstHalf(v) = r
    BY <1>4, <1>7, <2>1, EcEquationIs
  <2> QED
    BY <1>9, <2>2 DEF q, x
<1> QED
  BY <1>1, <1>2, <1>4, <1>7, <1>10, <1>11 DEF r, s

LEMMA EcSigned ==
  ASSUME EcFacts, ctx.c.type # "montgomery", NEW h \in Nat, NEW r \in Nat, NEW s \in Nat,
         InRanges(r, s), EcEquation(r, s, h)
  PROVE  \E k \in 1 .. ctx.order - 1 : FirstHalf(k) = r /\ (s * k - h - ctx.x * r) % ctx.order = 0
<1> DEFINE q == ctx.order
           x == ctx.x
           w == InverseOf(s, q)
           k == (Mul(h, w, q) + x * Mul(r, w, q)) % q
<1>0. q \in Nat /\ q > 1 /\ q > 0 /\ x \in Nat /\ Prime(q) /\ ctx.scheme # "elgamal"
  BY EcNumbers DEF EcFacts
<1>1. s \in 1 .. q - 1
  <2>1. 0 < s /\ s < q
    BY <1>0 DEF InRanges
  <2> QED
    BY <1>0, <2>1
<1>2. w \in Nat /\ Mul(s, w, q) = 1
  <2> HIDE DEF q
  <2> QED
    BY <1>0, <1>1, UnitInverse
<1>3. k \in 0 .. q - 1 /\ (s * k - h - x * r) % q = 0
  <2> HIDE DEF w, q, x
  <2>1. q \in Nat /\ q > 1 /\ x \in Nat /\ h \in Nat /\ r \in Nat /\ s \in Nat
    BY <1>0
  <2> QED
    BY ONLY <2>1, <1>2, DsaSolved
<1>4. k # 0 /\ FirstHalf(k) = r
  BY <1>2, EcEquationIs
<1> HIDE DEF k
<1>5. k \in 1 .. q - 1
  BY <1>0, <1>3, <1>4
<1> QED
  BY <1>3, <1>4, <1>5 DEF x, q

(* The digest that is signed is a number.                                   *)
LEMMA DigestIn ==
  ASSUME HashesBytes, NEW m \in Seq(Byte), ctx.mdLen \in Nat, ctx.order \in Nat
  PROVE  Digest(m) \in Nat
<1> DEFINE h == NumberOf(Hash(m, ctx.mdLen))
           L == BitLength(ctx.order)
           e == ByteBits * ctx.mdLen - L
<1>1. h \in Nat
  <2>1. Sized(Hash(m, ctx.mdLen), ctx.mdLen)
    BY HashIn
  <2> QED
    BY <2>1, NumberIn DEF Sized
<1>2. e \in Int
  <2>1. L \in Nat /\ ByteBits \in Nat
    BY BitLengthIs, ByteAssumption
  <2> HIDE DEF L
  <2> QED
    BY <2>1
<1> HIDE DEF h, e
<1>3. ASSUME e > 0 PROVE h \div Pow(2, e) \in Nat
  <2>1. e \in Nat /\ 2 \in Nat /\ 2 > 0
    BY <1>2, <1>3
  <2>2. Pow(2, e) \in Nat /\ Pow(2, e) > 0
    BY <2>1, PowPositive
  <2> QED
    BY <1>1, <2>2, Division
<1>4. Digest(m) = IF ctx.scheme = "ecdsa" /\ e > 0 THEN h \div Pow(2, e) ELSE h
  BY DEF Digest, h, e
<1> QED
  BY <1>1, <1>3, <1>4

-----------------------------------------------------------------------------
(* What is kept of a context over a group: what its calls made.             *)
GroupCiphertext(m, out) ==
  /\ m \in Seq(Byte)
  /\ \/ ctx.scheme = "elgamal" /\ ~(NumberOf(m) >= ctx.p) /\ \E k \in Nonces : out = DlCipher(m, k)
     \/ ctx.scheme = "ecelgamal" /\ Len(m) <= ctx.mdLen /\ \E k \in Nonces : out = EcCipher(m, k)

GroupSignature(m, out) ==
  /\ m \in Seq(Byte) /\ ~OverMontgomery
  /\ \E k \in Nonces : /\ ~Unusable(k, Digest(m))
                       /\ out = <<Minimal(FirstHalf(k)), Minimal(SecondHalf(k, Digest(m)))>>

GroupKey == (ctx.family = "dl" => DlFacts) /\ (ctx.family = "ec" => EcFacts)

GroupTask == pc # "ready" => /\ pc = "sign" /\ task \in Seq(Byte) /\ ~OverMontgomery
                             /\ drawn = <<>> \/ \E k \in Nonces : drawn = <<k>>

GroupMade == /\ made.call = "encrypt" => GroupCiphertext(made.m, made.out)
             /\ made.call = "sign" => GroupSignature(made.m, made.out)

GroupInv == InGroup => GroupKey /\ GroupTask /\ GroupMade /\ RoundTrip /\ OnlyGenuine

(* They depend on the context only. *)
LEMMA GroupSteady ==
  ASSUME ctx' = ctx
  PROVE  /\ InGroup' = InGroup /\ GroupKey' = GroupKey /\ OverMontgomery' = OverMontgomery /\ Nonces' = Nonces
         /\ \A m, out : GroupCiphertext(m, out)' = GroupCiphertext(m, out)
         /\ \A m, out : GroupSignature(m, out)' = GroupSignature(m, out)
         /\ \A m, sig : GroupGenuine(m, sig)' = GroupGenuine(m, sig)
         /\ \A m : Returned(m)' = Returned(m)
<1>1. InGroup' = InGroup /\ OverMontgomery' = OverMontgomery /\ Nonces' = Nonces
  BY DEF InGroup, OverMontgomery, Nonces, Montgomery
<1>2. GroupKey' = GroupKey
  BY DEF GroupKey, DlFacts, EcFacts
<1>3. \A m, out : GroupCiphertext(m, out)' = GroupCiphertext(m, out)
  BY DEF GroupCiphertext, DlCipher, EcCipher, Mask, Nonces
<1>4. \A m : Digest(m)' = Digest(m)
  BY DEF Digest
<1>5. \A k : FirstHalf(k)' = FirstHalf(k)
  BY DEF FirstHalf, XOf
<1>6. \A k, h : SecondHalf(k, h)' = SecondHalf(k, h)
  BY <1>5 DEF SecondHalf
<1>7. \A k, h : Unusable(k, h)' = Unusable(k, h)
  BY <1>5, <1>6 DEF Unusable
<1>8. \A m, out : GroupSignature(m, out)' = GroupSignature(m, out)
  BY <1>1, <1>4, <1>5, <1>6, <1>7 DEF GroupSignature
<1>9. \A m, sig : GroupGenuine(m, sig)' = GroupGenuine(m, sig)
  BY <1>4, <1>5 DEF GroupGenuine
<1>10. \A m : Returned(m)' = Returned(m)
  BY DEF Returned
<1> QED
  BY <1>1, <1>2, <1>3, <1>8, <1>9, <1>10

(* What stays when no call returns, and when one returns.                   *)
LEMMA GroupStays ==
  ASSUME GroupInv, InGroup, ctx' = ctx, made' = made
  PROVE  /\ GroupKey' /\ GroupMade'
         /\ last' = last => RoundTrip' /\ OnlyGenuine'
<1>1. GroupKey /\ GroupMade /\ RoundTrip /\ OnlyGenuine
  BY DEF GroupInv
<1>2. GroupKey'
  BY <1>1, GroupSteady
<1>3. GroupMade'
  BY <1>1, GroupSteady DEF GroupMade
<1>4. ASSUME last' = last PROVE RoundTrip'
  BY <1>1, <1>4, GroupSteady DEF RoundTrip
<1>5. ASSUME last' = last PROVE OnlyGenuine'
  <2>1. ctx.family # "rsa"
    BY DEF InGroup
  <2> QED
    BY <1>1, <1>5, <2>1, GroupSteady DEF OnlyGenuine
<1> QED
  BY <1>2, <1>3, <1>4, <1>5

LEMMA GroupSealed ==
  ASSUME GroupInv, InGroup, NEW call \in {"encrypt", "sign"}, NEW m, NEW status,
         Return(call, m, <<>>, status),
         \/ made' = made
         \/ \E out : /\ made' = [call |-> call, m |-> m, out |-> out]
                     /\ call = "encrypt" => GroupCiphertext(m, out)
                     /\ call = "sign" => GroupSignature(m, out)
  PROVE  GroupInv'
<1>1. ctx' = ctx /\ pc' = "ready" /\ last' = [call |-> call, m |-> m, in |-> <<>>, status |-> status]
  BY DEF Return
<1>2. RoundTrip' /\ OnlyGenuine'
  BY <1>1 DEF RoundTrip, OnlyGenuine
<1>3. GroupKey'
  BY <1>1, GroupSteady DEF GroupInv
<1>4. GroupMade'
  <2>1. CASE made' = made
    BY <1>1, <2>1, GroupStays
  <2>2. ASSUME NEW out, made' = [call |-> call, m |-> m, out |-> out],
               call = "encrypt" => GroupCiphertext(m, out), call = "sign" => GroupSignature(m, out)
        PROVE  GroupMade'
    <3>1. made'.call = call /\ made'.m = m /\ made'.out = out
      BY ONLY <2>2
    <3>2. made'.call = "encrypt" => GroupCiphertext(made'.m, made'.out)
      BY <2>2, <3>1
    <3>3. made'.call = "sign" => GroupSignature(made'.m, made'.out)
      BY <2>2, <3>1
    <3> QED
      BY <1>1, <3>2, <3>3, GroupSteady DEF GroupMade
  <2> QED
    BY <2>1, <2>2
<1> QED
  BY <1>1, <1>2, <1>3, <1>4 DEF GroupInv, GroupTask

LEMMA GroupOpened ==
  ASSUME GroupInv, InGroup, NEW call \in {"decrypt", "verify"}, NEW m, NEW in, NEW status,
         Open(call, m, in, status),
         call = "decrypt" /\ made.call = "encrypt" /\ in = made.out =>
           (status = "ok" /\ m = Returned(made.m)) \/ status = "nomem",
         call = "verify" /\ made.call = "sign" /\ in = made.out /\ m = made.m => status \in {"ok", "nomem"},
         call = "verify" /\ status = "ok" => GroupGenuine(m, in)
  PROVE  GroupInv'
<1>1. /\ ctx' = ctx /\ pc' = "ready" /\ made' = made
      /\ last' = [call |-> call, m |-> m, in |-> in, status |-> status]
  BY DEF Open, Return
<1>2. GroupKey' /\ GroupMade'
  BY <1>1, GroupStays
<1>3. last'.call = call /\ last'.m = m /\ last'.in = in /\ last'.status = status
  BY <1>1
<1>4. RoundTrip'
  BY <1>1, <1>3, GroupSteady DEF RoundTrip
<1>5. OnlyGenuine'
  <2>1. ctx'.family # "rsa"
    BY <1>1 DEF InGroup
  <2> QED
    BY <1>1, <1>3, <2>1, GroupSteady DEF OnlyGenuine
<1> QED
  BY <1>1, <1>2, <1>4, <1>5 DEF GroupInv, GroupTask

(* A call that signs goes on.                                               *)
LEMMA GroupGoesOn ==
  ASSUME GroupInv, InGroup, ctx' = ctx, made' = made, last' = last,
         pc' = "sign", task' \in Seq(Byte), ~OverMontgomery,
         drawn' = <<>> \/ \E k \in Nonces : drawn' = <<k>>
  PROVE  GroupInv'
<1>1. GroupKey' /\ GroupMade' /\ RoundTrip' /\ OnlyGenuine'
  BY GroupStays
<1>2. GroupTask'
  BY GroupSteady DEF GroupTask
<1> QED
  BY <1>1, <1>2 DEF GroupInv

LEMMA GroupEncryptKeeps ==
  ASSUME GroupInv, InGroup, NEW m \in Seq(Byte), GroupEncrypt(m) PROVE GroupInv'
<1>1. ctx.scheme \in {"elgamal", "ecelgamal"} /\ GroupKey
  BY DEF GroupEncrypt, GroupInv
<1>2. /\ ctx.scheme = "elgamal" <=> ctx.family = "dl"
      /\ ctx.scheme = "ecelgamal" <=> ctx.family = "ec"
  BY <1>1 DEF GroupKey, DlFacts, EcFacts, InGroup
<1>3. ASSUME NEW status, Refuse("encrypt", m, status) PROVE GroupInv'
  BY <1>3, GroupSealed DEF Refuse
<1> DEFINE over == IF ctx.family = "dl" THEN NumberOf(m) >= ctx.p ELSE Len(m) > ctx.mdLen
           out(k) == IF ctx.family = "dl" THEN DlCipher(m, k) ELSE EcCipher(m, k)
<1>4. ASSUME ~over, NEW k \in Nonces, Seal("encrypt", m, out(k)) PROVE GroupInv'
  <2>1. GroupCiphertext(m, out(k))
    <3>1. CASE ctx.family = "dl"
      BY <1>2, <1>4, <3>1 DEF GroupCiphertext
    <3>2. CASE ctx.family = "ec"
      <4>1. Len(m) <= ctx.mdLen
        <5>1. ctx.mdLen \in Nat
          BY <1>1, <3>2 DEF GroupKey, EcFacts
        <5>2. ~(Len(m) > ctx.mdLen) /\ Len(m) \in Nat
          BY <1>4, <3>2
        <5> QED
          BY <5>1, <5>2
      <4> QED
        BY <1>2, <3>2, <4>1 DEF GroupCiphertext
    <3> QED
      BY <3>1, <3>2 DEF InGroup
  <2> HIDE DEF out
  <2>2. Return("encrypt", m, <<>>, "ok") /\ made' = [call |-> "encrypt", m |-> m, out |-> out(k)]
    BY <1>4 DEF Seal
  <2> QED
    BY <2>1, <2>2, GroupSealed
<1>5. \/ \E status \in {"too_long", "rng", "nomem"} : Refuse("encrypt", m, status)
      \/ ~over /\ \E k \in Nonces : Seal("encrypt", m, out(k))
  BY DEF GroupEncrypt
<1> HIDE DEF over, out
<1> QED
  BY <1>3, <1>4, <1>5

LEMMA GroupSignKeeps ==
  ASSUME GroupInv, InGroup, NEW m \in Seq(Byte), GroupSign(m) PROVE GroupInv'
<1>1. ASSUME NEW status, Refuse("sign", m, status) PROVE GroupInv'
  BY <1>1, GroupSealed DEF Refuse
<1>2. ASSUME ~OverMontgomery, Begin("sign", m, <<>>) PROVE GroupInv'
  <2>1. ctx' = ctx /\ made' = made /\ last' = last /\ pc' = "sign" /\ task' = m /\ drawn' = <<>>
    BY <1>2 DEF Begin
  <2> QED
    BY <1>2, <2>1, GroupGoesOn
<1> QED
  BY <1>1, <1>2 DEF GroupSign

LEMMA DrawKeeps ==
  ASSUME GroupInv, Draw \/ SignAgain PROVE GroupInv'
<1>1. InGroup /\ pc = "sign"
  BY DEF Draw, DrawNonce, SignAgain, Signing
<1>2. task \in Seq(Byte) /\ ~OverMontgomery
  BY <1>1 DEF GroupInv, GroupTask
<1>3. /\ ctx' = ctx /\ made' = made /\ last' = last /\ pc' = pc /\ task' = task
      /\ drawn' = <<>> \/ \E k \in Nonces : drawn' = <<k>>
  BY DEF Draw, DrawNonce, SignAgain, Drew
<1> QED
  BY <1>1, <1>2, <1>3, GroupGoesOn

LEMMA SignDoneKeeps ==
  ASSUME GroupInv, SignDone PROVE GroupInv'
<1>1. InGroup /\ pc = "sign" /\ drawn # <<>>
  BY DEF SignDone, Signing
<1>2. task \in Seq(Byte) /\ ~OverMontgomery /\ \E k \in Nonces : drawn = <<k>>
  BY <1>1 DEF GroupInv, GroupTask
<1>3. PICK k \in Nonces : drawn = <<k>>
  BY <1>2
<1>4. drawn[1] = k
  BY <1>3
<1> DEFINE out == <<Minimal(FirstHalf(k)), Minimal(SecondHalf(k, Digest(task)))>>
<1>5. ~Unusable(k, Digest(task)) /\ Seal("sign", task, out)
  BY <1>4 DEF SignDone
<1>6. GroupSignature(task, out)
  BY <1>2, <1>5 DEF GroupSignature
<1> HIDE DEF out
<1>7. Return("sign", task, <<>>, "ok") /\ made' = [call |-> "sign", m |-> task, out |-> out]
  BY <1>5 DEF Seal
<1> QED
  BY <1>1, <1>6, <1>7, GroupSealed

LEMMA DlDecryptKeeps ==
  ASSUME GroupInv, InGroup, NEW c, DlDecrypt(c) PROVE GroupInv'
<1>1. ctx.scheme = "elgamal" /\ GroupKey /\ GroupMade
  BY DEF DlDecrypt, GroupInv
<1>2. DlFacts
  BY <1>1 DEF GroupKey, EcFacts, InGroup
<1>3. \E m, status : Open("decrypt", m, c, status)
  BY DEF DlDecrypt
<1>4. CASE ~(made.call = "encrypt" /\ c = made.out)
  <2>1. PICK m, status : Open("decrypt", m, c, status)
    BY <1>3
  <2> QED
    BY <1>4, <2>1, GroupOpened
<1>5. CASE made.call = "encrypt" /\ c = made.out
  <2>1. GroupCiphertext(made.m, c)
    BY <1>1, <1>5 DEF GroupMade
  <2>2. made.m \in Seq(Byte) /\ ~(NumberOf(made.m) >= ctx.p) /\ \E k \in Nonces : c = DlCipher(made.m, k)
    BY <1>1, <2>1 DEF GroupCiphertext
  <2>3. PICK k \in Nonces : c = DlCipher(made.m, k)
    BY <2>2
  <2>4. k \in Nat
    <3>1. ctx.order \in Nat
      BY <1>2, DlNumbers
    <3> QED
      BY <3>1 DEF Nonces
  <2>5. Open("decrypt", Minimal(NumberOf(made.m)), c, "ok")
    BY <1>2, <2>2, <2>3, <2>4, DlOpens
  <2>6. Minimal(NumberOf(made.m)) = Returned(made.m)
    BY <1>1 DEF Returned
  <2> QED
    BY <2>5, <2>6, GroupOpened
<1> QED
  BY <1>4, <1>5

LEMMA EcDecryptKeeps ==
  ASSUME GroupInv, InGroup, HashesBytes, NEW c, EcDecrypt(c) PROVE GroupInv'
<1>1. ctx.scheme = "ecelgamal" /\ GroupKey /\ GroupMade
  BY DEF EcDecrypt, GroupInv
<1>2. EcFacts
  BY <1>1 DEF GroupKey, DlFacts, InGroup
<1>3. \E m, status : Open("decrypt", m, c, status)
  BY DEF EcDecrypt
<1>4. CASE ~(made.call = "encrypt" /\ c = made.out)
  <2>1. PICK m, status : Open("decrypt", m, c, status)
    BY <1>3
  <2> QED
    BY <1>4, <2>1, GroupOpened
<1>5. CASE made.call = "encrypt" /\ c = made.out
  <2>1. GroupCiphertext(made.m, c)
    BY <1>1, <1>5 DEF GroupMade
  <2>2. made.m \in Seq(Byte) /\ Len(made.m) <= ctx.mdLen /\ \E k \in Nonces : c = EcCipher(made.m, k)
    BY <1>1, <2>1 DEF GroupCiphertext
  <2>3. PICK k \in Nonces : c = EcCipher(made.m, k)
    BY <2>2
  <2>4. Open("decrypt", made.m, c, "ok") \/ Open("decrypt", <<>>, c, "nomem")
    BY <1>1, <1>2, <2>2, <2>3, EcOpens
  <2>5. made.m = Returned(made.m)
    BY <1>1 DEF Returned
  <2> QED
    BY <2>4, <2>5, GroupOpened
<1> QED
  BY <1>4, <1>5

(* What a verifier over a group computes, and what it accepts.              *)
GroupValid(r, s, h) == InRanges(r, s) /\ IF ctx.family = "dl" THEN DlEquation(r, s, h) ELSE EcEquation(r, s, h)

LEMMA HalvesValid ==
  ASSUME GroupKey, InGroup, HashesBytes, NEW m \in Seq(Byte), ~OverMontgomery, NEW k \in Nonces, ~Unusable(k, Digest(m))
  PROVE  LET r == FirstHalf(k)
             s == SecondHalf(k, Digest(m))
         IN  r \in Nat /\ s \in Nat /\ GroupValid(r, s, Digest(m))
<1> DEFINE h == Digest(m)
           r == FirstHalf(k)
           s == SecondHalf(k, h)
<1>1. h \in Nat
  <2>1. ctx.mdLen \in Nat /\ ctx.order \in Nat
    BY DlNumbers, EcNumbers DEF GroupKey, InGroup
  <2> QED
    BY <2>1, DigestIn
<1>2. ~Unusable(k, h)
  OBVIOUS
<1> HIDE DEF h
<1>3. r \in Nat /\ s \in Nat /\ GroupValid(r, s, h)
  <2>1. CASE ctx.family = "dl"
    <3>1. DlFacts /\ ctx.scheme \in {"elgamal", "dsa"}
      BY <2>1 DEF GroupKey, DlFacts
    <3>2. r \in Nat /\ s \in Nat /\ InRanges(r, s) /\ DlEquation(r, s, h)
      <4>1. CASE ctx.scheme = "elgamal"
        BY <1>1, <1>2, <3>1, <4>1, ElgamalValid
      <4>2. CASE ctx.scheme = "dsa"
        BY <1>1, <1>2, <3>1, <4>2, DsaValid
      <4> QED
        BY <3>1, <4>1, <4>2
    <3> HIDE DEF r, s
    <3> QED
      BY <2>1, <3>2 DEF GroupValid
  <2>2. CASE ctx.family = "ec"
    <3>1. EcFacts
      BY <2>2 DEF GroupKey
    <3>2. ctx.c.type # "montgomery"
      BY <2>2 DEF OverMontgomery, Montgomery
    <3>3. r \in Nat /\ s \in Nat /\ InRanges(r, s) /\ EcEquation(r, s, h)
      BY <1>1, <1>2, <3>1, <3>2, EcValid
    <3> HIDE DEF r, s
    <3> QED
      BY <2>2, <3>3 DEF GroupValid
  <2> QED
    BY <2>1, <2>2 DEF InGroup
<1> QED
  BY <1>3 DEF h

LEMMA GroupSignedValid ==
  ASSUME GroupKey, InGroup, HashesBytes, NEW m, NEW out, GroupSignature(m, out)
  PROVE  ~OverMontgomery /\ GroupValid(NumberOf(out[1]), NumberOf(out[2]), Digest(m))
<1>1. m \in Seq(Byte) /\ ~OverMontgomery
  BY DEF GroupSignature
<1>2. PICK k \in Nonces : /\ ~Unusable(k, Digest(m))
                          /\ out = <<Minimal(FirstHalf(k)), Minimal(SecondHalf(k, Digest(m)))>>
  BY DEF GroupSignature
<1> DEFINE r == FirstHalf(k)
           s == SecondHalf(k, Digest(m))
<1>3. r \in Nat /\ s \in Nat /\ GroupValid(r, s, Digest(m))
  BY <1>1, <1>2, HalvesValid
<1>4. out[1] = Minimal(r) /\ out[2] = Minimal(s)
  BY <1>2
<1> HIDE DEF r, s
<1>5. NumberOf(out[1]) = r /\ NumberOf(out[2]) = s
  BY <1>3, <1>4, MinimalIs
<1> QED
  BY <1>1, <1>3, <1>5

LEMMA SignatureBytes ==
  ASSUME GroupKey, InGroup, HashesBytes, NEW m, NEW out, GroupSignature(m, out)
  PROVE  out[1] \in Seq(Byte) /\ out[2] \in Seq(Byte)
<1>1. m \in Seq(Byte) /\ ~OverMontgomery
  BY DEF GroupSignature
<1>2. PICK k \in Nonces : /\ ~Unusable(k, Digest(m))
                          /\ out = <<Minimal(FirstHalf(k)), Minimal(SecondHalf(k, Digest(m)))>>
  BY DEF GroupSignature
<1>3. FirstHalf(k) \in Nat /\ SecondHalf(k, Digest(m)) \in Nat
  BY <1>1, <1>2, HalvesValid
<1> QED
  BY <1>2, <1>3, MinimalIs

LEMMA GroupAccepts ==
  ASSUME GroupKey, InGroup, HashesBytes, NEW m \in Seq(Byte), NEW sig, sig[1] \in Seq(Byte), sig[2] \in Seq(Byte),
         ~OverMontgomery, GroupValid(NumberOf(sig[1]), NumberOf(sig[2]), Digest(m))
  PROVE  GroupGenuine(m, sig)
<1> DEFINE h == Digest(m)
           r == NumberOf(sig[1])
           s == NumberOf(sig[2])
<1>1. h \in Nat /\ r \in Nat /\ s \in Nat
  <2>1. ctx.mdLen \in Nat /\ ctx.order \in Nat
    BY DlNumbers, EcNumbers DEF GroupKey, InGroup
  <2> QED
    BY <2>1, DigestIn, NumberIn
<1>2. InRanges(r, s) /\ IF ctx.family = "dl" THEN DlEquation(r, s, h) ELSE EcEquation(r, s, h)
  BY DEF GroupValid
<1>3. CASE ctx.scheme = "elgamal"
  <2>1. DlFacts /\ ctx.family = "dl"
    BY <1>3 DEF GroupKey, EcFacts, DlFacts, InGroup
  <2>2. GroupGenuine(m, sig) <=> \E k \in 0 .. ctx.order - 1 :
           /\ r = Power(ctx.g, k, ctx.p) \/ (r = ctx.p - Power(ctx.g, k, ctx.p) /\ s % 2 = 0)
           /\ Power(ctx.g, (s * k + ctx.x * r) % ctx.order, ctx.p) = Power(ctx.g, h, ctx.p)
    BY ONLY <1>3 DEF GroupGenuine, r, s, h
  <2> HIDE DEF h, r, s
  <2> QED
    BY <1>1, <1>2, <1>3, <2>1, <2>2, ElgamalSigned
<1>4. CASE ctx.scheme # "elgamal"
  <2>1. GroupGenuine(m, sig) <=> \E k \in (IF ctx.scheme = "dsa" THEN 0 ELSE 1) .. ctx.order - 1 :
               FirstHalf(k) = r /\ (s * k - h - ctx.x * r) % ctx.order = 0
    BY ONLY <1>4 DEF GroupGenuine, r, s, h
  <2> HIDE DEF h, r, s
  <2>2. CASE ctx.scheme = "dsa"
    <3>1. DlFacts /\ ctx.family = "dl"
      BY <2>2 DEF GroupKey, EcFacts, DlFacts, InGroup
    <3> QED
      BY <1>1, <1>2, <2>1, <2>2, <3>1, DsaSigned
  <2>3. CASE ctx.scheme # "dsa"
    <3>1. EcFacts /\ ctx.family # "dl" /\ ctx.family = "ec"
      BY <1>4, <2>3 DEF GroupKey, EcFacts, DlFacts, InGroup
    <3>2. ctx.c.type # "montgomery"
      BY <3>1 DEF OverMontgomery, Montgomery
    <3>3. \E k \in 1 .. ctx.order - 1 : FirstHalf(k) = r /\ (s * k - h - ctx.x * r) % ctx.order = 0
      BY <1>1, <1>2, <3>1, <3>2, EcSigned
    <3> QED
      BY <2>1, <2>3, <3>3
  <2> QED
    BY <2>2, <2>3
<1> QED
  BY <1>3, <1>4

LEMMA GroupVerifyKeeps ==
  ASSUME GroupInv, HashesBytes, NEW m \in Seq(Byte), NEW sig, sig[1] \in Seq(Byte), sig[2] \in Seq(Byte),
         GroupVerify(m, sig)
  PROVE  GroupInv'
<1> DEFINE valid == GroupValid(NumberOf(sig[1]), NumberOf(sig[2]), Digest(m))
           status == IF OverMontgomery THEN "unsupported" ELSE IF valid THEN "ok" ELSE "verify"
<1>1. InGroup /\ Open("verify", m, sig, status)
  BY DEF GroupVerify, GroupValid
<1>2. GroupKey /\ GroupMade
  BY <1>1 DEF GroupInv
<1>3. ASSUME made.call = "sign", sig = made.out, m = made.m PROVE status \in {"ok", "nomem"}
  <2>1. GroupSignature(m, sig)
    BY <1>2, <1>3 DEF GroupMade
  <2>2. ~OverMontgomery /\ valid
    BY <1>1, <1>2, <2>1, GroupSignedValid
  <2> HIDE DEF valid
  <2> QED
    BY <2>2
<1>4. ASSUME status = "ok" PROVE GroupGenuine(m, sig)
  <2>1. ~OverMontgomery /\ valid
    <3> HIDE DEF valid
    <3> QED
      BY <1>4
  <2> QED
    BY <1>1, <1>2, <2>1, GroupAccepts
<1> HIDE DEF status
<1> QED
  BY <1>1, <1>3, <1>4, GroupOpened

(* The contexts that begin.                                                 *)
LEMMA DlReady ==
  ASSUME NEW G \in DlGroups, NEW x \in 1 .. (IF G.scheme = "dsa" THEN G.q ELSE G.p - 1) - 1,
         ctx = [family |-> "dl", scheme |-> G.scheme, p |-> G.p, q |-> G.q, g |-> G.g, mdLen |-> G.mdLen,
                order |-> IF G.scheme = "dsa" THEN G.q ELSE G.p - 1, x |-> x, y |-> Power(G.g, x, G.p)]
  PROVE  DlFacts
<1>1. /\ G.scheme \in {"elgamal", "dsa"} /\ G.mdLen \in Nat
      /\ G.p \in Nat /\ G.q \in Nat /\ G.q > 2 /\ \A t \in 2 .. G.q - 1 : G.q % t # 0
      /\ G.g \in 2 .. G.p - 1 /\ Power(G.g, G.q, G.p) = 1
      /\ G.scheme = "elgamal" => G.p = 2 * G.q + 1 /\ \A t \in 2 .. G.p - 1 : G.p % t # 0
  BY DlAssumption
<1>2. /\ ctx.family = "dl" /\ ctx.scheme = G.scheme /\ ctx.p = G.p /\ ctx.q = G.q /\ ctx.g = G.g
      /\ ctx.mdLen = G.mdLen /\ ctx.order = (IF G.scheme = "dsa" THEN G.q ELSE G.p - 1)
      /\ ctx.x = x /\ ctx.y = Power(G.g, x, G.p)
  OBVIOUS
<1>3. Prime(G.q)
  BY <1>1 DEF Prime
<1>4. G.g \in Nat /\ G.q > 0 /\ G.p > 1 /\ G.p > 0
  BY <1>1
<1>5. Turn(G.g, G.q, G.p)
  <2>1. Power(G.g, G.q, G.p) = Pow(G.g, G.q) % G.p
    BY ONLY <1>1, <1>4, PowerIs
  <2> QED
    BY <1>1, <1>4, <2>1 DEF Turn
<1>6. G.scheme = "elgamal" => SafeGroup(G.p, G.q, G.g)
  <2>1. G.scheme = "elgamal" => Prime(G.p)
    BY <1>1, <1>4 DEF Prime
  <2> QED
    BY <1>1, <1>3, <1>5, <2>1 DEF SafeGroup
<1>7. G.scheme = "elgamal" => G.scheme # "dsa"
  OBVIOUS
<1>8. x \in 1 .. ctx.order - 1
  BY <1>2
<1> QED
  BY ONLY <1>1, <1>2, <1>3, <1>5, <1>6, <1>7, <1>8 DEF DlFacts

LEMMA EcReady ==
  ASSUME NEW G \in EcGroups, NEW T, T = MultiplesOf(G.c, G.c.g), NEW x \in 1 .. Len(T) - 1,
         ctx = [family |-> "ec", scheme |-> G.scheme, c |-> G.c, efs |-> G.efs, mdLen |-> G.mdLen,
                order |-> Len(T), table |-> T, x |-> x, y |-> T[x]]
  PROVE  EcFacts
<1>1. /\ G.scheme \in {"ecdsa", "ecelgamal"} /\ G.mdLen \in Nat
      /\ G.efs \in Nat /\ G.c.p <= Pow(ByteMod, G.efs) /\ Generates(G.c)
  BY EcAssumption
<1>2. T[1] = G.c.g /\ IsCurve(G.c, T, Len(T))
  BY <1>1 DEF Generates
<1>3. IsCyclic(G.c, T, Len(T)) /\ \A i \in 1 .. Len(T) - 1 : IsPointOf(G.c, T, Len(T), i)
  BY ONLY <1>2, Zenon DEF IsCurve
<1>4. /\ ctx.family = "ec" /\ ctx.scheme = G.scheme /\ ctx.c = G.c /\ ctx.efs = G.efs /\ ctx.mdLen = G.mdLen
      /\ ctx.order = Len(T) /\ ctx.table = T /\ ctx.x = x /\ ctx.y = T[x]
  OBVIOUS
<1>5. IsGroup(ctx, T, Len(T))
  BY ONLY <1>1, <1>3, <1>4 DEF IsGroup
<1> QED
  BY ONLY <1>1, <1>2, <1>4, <1>5, x \in 1 .. Len(T) - 1 DEF EcFacts

LEMMA GroupInitial == Init => GroupInv /\ (ctx.family = "rsa" \/ InGroup)
<1> SUFFICES ASSUME Init PROVE GroupInv /\ (ctx.family = "rsa" \/ InGroup)
  OBVIOUS
<1>1. pc = "ready" /\ made = Nothing /\ last = NoCall
  BY DEF Init, RsaInit, GroupInit, Ready
<1>2. GroupTask /\ GroupMade /\ RoundTrip /\ OnlyGenuine
  BY <1>1 DEF GroupTask, GroupMade, RoundTrip, OnlyGenuine, NoCall, Nothing
<1>3. CASE RsaInit
  <2>1. ctx.family = "rsa"
    BY <1>3 DEF RsaInit, Ready, RsaKey
  <2> QED
    BY <2>1 DEF GroupInv, InGroup
<1>4. ASSUME NEW G \in DlGroups, NEW x \in 1 .. (IF G.scheme = "dsa" THEN G.q ELSE G.p - 1) - 1,
             ctx = [family |-> "dl", scheme |-> G.scheme, p |-> G.p, q |-> G.q, g |-> G.g, mdLen |-> G.mdLen,
                    order |-> IF G.scheme = "dsa" THEN G.q ELSE G.p - 1, x |-> x, y |-> Power(G.g, x, G.p)]
      PROVE  GroupInv /\ InGroup
  <2>1. DlFacts
    BY <1>4, DlReady
  <2>2. ctx.family = "dl"
    BY <2>1 DEF DlFacts
  <2> QED
    BY <1>2, <2>1, <2>2 DEF GroupInv, GroupKey, InGroup
<1>5. ASSUME NEW G \in EcGroups, NEW x \in 1 .. Len(MultiplesOf(G.c, G.c.g)) - 1,
             ctx = [family |-> "ec", scheme |-> G.scheme, c |-> G.c, efs |-> G.efs, mdLen |-> G.mdLen,
                    order |-> Len(MultiplesOf(G.c, G.c.g)), table |-> MultiplesOf(G.c, G.c.g),
                    x |-> x, y |-> MultiplesOf(G.c, G.c.g)[x]]
      PROVE  GroupInv /\ InGroup
  <2>1. EcFacts
    BY <1>5, EcReady
  <2>2. ctx.family = "ec"
    BY <2>1 DEF EcFacts
  <2> QED
    BY <1>2, <2>1, <2>2 DEF GroupInv, GroupKey, InGroup
<1>6. CASE GroupInit
  BY <1>4, <1>5, <1>6 DEF GroupInit, Ready
<1> QED
  BY <1>3, <1>6 DEF Init

(* Every step of a context over a group keeps GroupInv.                     *)
LEMMA OnlyGroup ==
  ASSUME InGroup
  PROVE  /\ \A c : Decrypt(c) => DlDecrypt(c) \/ EcDecrypt(c)
         /\ \A m, s : Verify(m, s) => GroupVerify(m, s)
         /\ \A m : ~RsaEncrypt(m) /\ ~RsaSign(m)
         /\ ~Pad /\ ~RsaEncryptPadded
<1>1. ctx.family # "rsa"
  BY DEF InGroup
<1> QED
  BY <1>1 DEF Decrypt, RsaDecrypt, Verify, RsaVerify, RsaEncrypt, RsaSign, Pad, Padding, RsaEncryptPadded

LEMMA SameContext == [Next]_vars => ctx' = ctx
  BY DEF Next, vars, Choose, UseCrt, SealAny, OpenMade, OpenForeign, Pad, RsaEncryptPadded, Draw, SignAgain, SignDone,
         DrawNonce, Drew, SealPublic, SealBytes, Refuse, Seal, Begin, Open, Return, RsaEncrypt, RsaSign, GroupEncrypt, GroupSign,
         Decrypt, Verify, RsaDecrypt, RsaVerify, GroupVerify, DlDecrypt, EcDecrypt

LEMMA GroupStep ==
  ASSUME HashesBytes, MessagesAreBytes, ForeignAreBytes, GroupInv, [Next]_vars PROVE GroupInv'
<1>1. ctx' = ctx /\ InGroup' = InGroup
  BY SameContext, GroupSteady
<1>2. CASE ~InGroup
  BY <1>1, <1>2 DEF GroupInv
<1>3. CASE InGroup
  <2>1. CASE SealAny
    <3>1. PICK m \in MessagesFor(ctx) : GroupEncrypt(m) \/ GroupSign(m)
      BY <1>3, <2>1, OnlyGroup DEF SealAny
    <3>2. m \in Seq(Byte)
      BY DEF MessagesAreBytes
    <3> QED
      BY <1>3, <3>1, <3>2, GroupEncryptKeeps, GroupSignKeeps
  <2>2. ASSUME NEW c, Decrypt(c) PROVE GroupInv'
    BY <1>3, <2>2, OnlyGroup, DlDecryptKeeps, EcDecryptKeeps
  <2>3. ASSUME NEW m \in Seq(Byte), NEW s, s[1] \in Seq(Byte), s[2] \in Seq(Byte), Verify(m, s) PROVE GroupInv'
    BY <1>3, <2>3, OnlyGroup, GroupVerifyKeeps
  <2>4. CASE OpenMade
    <3>1. ASSUME made.call = "sign", NEW m \in MessagesFor(ctx), Verify(m, made.out) PROVE GroupInv'
      <4>1. GroupKey /\ GroupSignature(made.m, made.out)
        BY <1>3, <3>1 DEF GroupInv, GroupMade
      <4>2. made.out[1] \in Seq(Byte) /\ made.out[2] \in Seq(Byte)
        BY <1>3, <4>1, SignatureBytes
      <4>3. m \in Seq(Byte)
        BY DEF MessagesAreBytes
      <4> QED
        BY <2>3, <3>1, <4>2, <4>3
    <3> QED
      BY <2>2, <2>4, <3>1 DEF OpenMade
  <2>5. CASE OpenForeign
    <3>1. ASSUME NEW f \in ForeignSigned(ctx), Verify(f[1], f[2]) PROVE GroupInv'
      <4>1. f[1] \in Seq(Byte) /\ f[2][1] \in Seq(Byte) /\ f[2][2] \in Seq(Byte)
        BY <1>3 DEF ForeignAreBytes, InGroup
      <4> QED
        BY <2>3, <3>1, <4>1
    <3> QED
      BY <2>2, <2>5, <3>1 DEF OpenForeign
  <2>6. CASE Draw \/ SignAgain
    BY <2>6, DrawKeeps
  <2>7. CASE SignDone
    BY <2>7, SignDoneKeeps
  <2>8. CASE Choose \/ UNCHANGED vars
    <3>1. made' = made /\ last' = last /\ pc' = pc /\ task' = task /\ drawn' = drawn
      BY <2>8 DEF Choose, UseCrt, vars
    <3>2. GroupKey' /\ GroupMade' /\ RoundTrip' /\ OnlyGenuine'
      BY <1>1, <1>3, <3>1, GroupStays
    <3>3. GroupTask'
      BY <1>1, <1>3, <3>1, GroupSteady DEF GroupInv, GroupTask
    <3> QED
      BY <3>2, <3>3 DEF GroupInv
  <2> QED
    BY <1>3, <2>1, <2>4, <2>5, <2>6, <2>7, <2>8, OnlyGroup DEF Next
<1> QED
  BY <1>2, <1>3

(* What is kept of a context, whatever its scheme.                          *)
SchemeInv == RoundInv /\ GroupInv /\ (ctx.family = "rsa" \/ InGroup)

LEMMA SchemeKept ==
  ASSUME HashesBytes, MessagesAreBytes, ForeignAreBytes
  PROVE  /\ Init => SchemeInv
         /\ SchemeInv /\ [Next]_vars => SchemeInv'
<1>1. Init => SchemeInv
  BY RoundInit, GroupInitial DEF SchemeInv
<1>2. ASSUME SchemeInv, [Next]_vars PROVE SchemeInv'
  <2>1. ctx' = ctx /\ InGroup' = InGroup
    BY <1>2, SameContext, GroupSteady
  <2>2. RoundInv' /\ GroupInv'
    BY <1>2, RoundStep, GroupStep DEF SchemeInv
  <2> QED
    BY <1>2, <2>1, <2>2 DEF SchemeInv
<1> QED
  BY <1>1, <1>2

(* For every scheme, whatever its key, its group or curve, the sizes of its *)
(* paddings and hashes, and whatever was drawn: what was encrypted decrypts *)
(* to its message and what was signed verifies, for RSA with either way to  *)
(* compute on either side.                                                  *)
THEOREM EverySchemeReturns ==
  ASSUME HashesBytes, MessagesAreBytes, ForeignAreBytes
  PROVE  Spec => []RoundTrip
<1>1. SchemeInv => RoundTrip
  BY DEF SchemeInv, RoundInv, GroupInv
<1>2. Init => SchemeInv
  BY SchemeKept
<1>3. SchemeInv /\ [Next]_vars => SchemeInv'
  BY SchemeKept
<1> QED
  BY <1>1, <1>2, <1>3, PTL DEF Spec

(* Whatever bytes are opened: an RSA context returns a message only of a    *)
(* ciphertext that the encryption of this message makes, and a context of   *)
(* any scheme accepts only a signature that solves the equation of the      *)
(* signer of this message.                                                  *)
THEOREM EverySchemeIsGenuine ==
  ASSUME HashesBytes, MessagesAreBytes, ForeignAreBytes
  PROVE  Spec => []OnlyGenuine
<1>1. SchemeInv => OnlyGenuine
  BY DEF SchemeInv, RoundInv, GroupInv
<1>2. Init => SchemeInv
  BY SchemeKept
<1>3. SchemeInv /\ [Next]_vars => SchemeInv'
  BY SchemeKept
<1> QED
  BY <1>1, <1>2, <1>3, PTL DEF Spec
=============================================================================
