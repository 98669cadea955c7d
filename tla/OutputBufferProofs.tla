------------------------- MODULE OutputBufferProofs -------------------------
(***************************************************************************)
(* The output protocol for any number of outputs, of any sizes, and any    *)
(* number of attempts; and the generators of any seeds, under any calls in *)
(* any order: what one has used up follows from what it was asked and      *)
(* answered, so that those of one seed agree, and a temporary one is freed *)
(* by the call that made it.                                               *)
(***************************************************************************)
EXTENDS Outputs, NatLemmas, SequenceTheorems, TLAPS

(* The shape of a call with n outputs. *)
Shaped(n) ==
  /\ DOMAIN room = 1 .. n /\ \A i \in 1 .. n : room[i] \in Nat \cup {-1}
  /\ DOMAIN len = 1 .. n /\ \A i \in 1 .. n : len[i] \in Nat
  /\ DOMAIN written = 1 .. n
  /\ \A s \in op.sizes : Len(s) = n

Shape == op \in Operations /\ room \in Seq(Nat \cup {-1}) /\ Shaped(Len(room))

(* A capacity is never more than the buffer it came with. *)
Honest == pc = "library" => \A i \in Outputs : room[i] # -1 => len[i] <= room[i]

Untouched == pc = "library" => written = None

IInv == Shape /\ Honest /\ Untouched /\ NoOverrun /\ AllOrNothing

-----------------------------------------------------------------------------
LEMMA SizesTypes == ASSUME NEW o \in Operations, NEW s \in o.sizes
  PROVE s \in Seq(Nat) /\ DOMAIN s = 1 .. Len(s) /\ \A i \in 1 .. Len(s) : s[i] \in Nat
<1>1. s \in Seq(Nat)
  BY OperationsAssumption
<1> QED
  BY <1>1

LEMMA InitIInv == Init => IInv
<1> SUFFICES ASSUME Init PROVE IInv
  OBVIOUS
<1> PICK c \in op.capacities :
       /\ room = [i \in 1 .. Len(c) |-> Buffer(c[i])]
       /\ len = [i \in 1 .. Len(c) |-> IF c[i] = -1 THEN 0 ELSE c[i]]
  BY DEF Init
<1>1. op \in Operations /\ c \in Seq(Nat \cup {-1}) /\ \A s \in op.sizes : Len(s) = Len(c)
  BY OperationsAssumption DEF Init
<1>2. Len(c) \in Nat /\ \A i \in 1 .. Len(c) : c[i] \in Nat \cup {-1}
  BY <1>1
<1>3. \A i \in 1 .. Len(c) : Buffer(c[i]) \in Nat \cup {-1} /\ (Buffer(c[i]) # -1 => c[i] \in Nat /\ c[i] <= Buffer(c[i]))
  BY <1>2 DEF Buffer
<1>4. room \in Seq(Nat \cup {-1}) /\ Len(room) = Len(c)
  BY <1>2, <1>3
<1>5. Shape
  BY <1>1, <1>2, <1>3, <1>4 DEF Shape, Shaped, Init, None, Outputs
<1>6. Honest
  BY <1>2, <1>3, <1>4 DEF Honest, Outputs
<1>7. Untouched /\ NoOverrun /\ AllOrNothing
  BY DEF Init, Untouched, NoOverrun, AllOrNothing, None
<1> QED
  BY <1>5, <1>6, <1>7 DEF IInv

(* Run: either nothing was written, or all of it and within the buffers. *)
LEMMA RunIInv == ASSUME IInv, Run PROVE IInv'
<1> PICK s \in op.sizes : needed' = s /\ Output(s)
  BY DEF Run
<1> USE DEF IInv
<1>1. s \in Seq(Nat) /\ DOMAIN s = Outputs /\ \A i \in Outputs : s[i] \in Nat
  BY SizesTypes DEF Shape, Shaped, Outputs
<1>2. UNCHANGED <<op, room>> /\ len' = s /\ pc' = "caller"
  BY DEF Output, Return
<1>3. CASE \A i \in Outputs : Fits(i, s[i])
  <2>1. written' = s /\ status' = "ok"
    BY <1>3 DEF Output, Return
  <2>2. Shape'
    BY <1>1, <1>2, <2>1 DEF Shape, Shaped, Outputs
  <2>3. \A i \in Outputs : s[i] <= room[i]
    BY <1>1, <1>3 DEF Run, Honest, Fits, Shape, Shaped, Outputs
  <2>4. NoOverrun'
    BY <1>2, <2>1, <2>3 DEF NoOverrun, Outputs
  <2> QED
    BY <1>2, <2>1, <2>2, <2>4 DEF Honest, Untouched, AllOrNothing
<1>4. CASE ~ \A i \in Outputs : Fits(i, s[i])
  <2>1. written' = None /\ status' = "too_small"
    BY <1>4 DEF Output, Return
  <2>2. Shape'
    BY <1>1, <1>2, <2>1 DEF Shape, Shaped, Outputs, None
  <2>3. NoOverrun'
    BY <1>2, <2>1 DEF NoOverrun, None, Outputs
  <2> QED
    BY <1>2, <2>1, <2>2, <2>3 DEF Honest, Untouched, AllOrNothing, None, Outputs
<1> QED
  BY <1>3, <1>4

LEMMA RetryIInv == ASSUME IInv, Retry PROVE IInv'
<1> USE DEF IInv
<1>1. \A i \in Outputs : Buffer(len[i]) \in Nat /\ len[i] <= Buffer(len[i])
  BY DEF Shape, Shaped, Outputs, Buffer
<1>2. room' \in Seq(Nat \cup {-1}) /\ Len(room') = Len(room)
  BY <1>1 DEF Retry, Outputs, Shape
<1>3. Shape'
  BY <1>1, <1>2 DEF Retry, Shape, Shaped, Outputs, None
<1>4. Honest'
  BY <1>1, <1>2 DEF Retry, Honest, Outputs
<1>5. written' = None /\ None' = None
  BY <1>2 DEF Retry, None, Outputs
<1>6. Untouched' /\ AllOrNothing'
  BY <1>5 DEF Retry, Untouched, AllOrNothing
<1>7. NoOverrun'
  BY <1>2, <1>5 DEF NoOverrun, None, Outputs
<1> QED
  BY <1>3, <1>4, <1>6, <1>7

LEMMA NextIInv == IInv /\ [Next]_vars => IInv'
<1> SUFFICES ASSUME IInv, [Next]_vars PROVE IInv'
  OBVIOUS
<1>1. CASE Refuse
  BY <1>1 DEF IInv, Refuse, Return, Shape, Shaped, Honest, Untouched, NoOverrun, AllOrNothing, Outputs, None
<1>2. CASE Run
  BY <1>2, RunIInv
<1>3. CASE Retry
  BY <1>3, RetryIInv
<1>4. CASE Take
  BY <1>4 DEF IInv, Take, Shape, Shaped, Honest, Untouched, NoOverrun, AllOrNothing, Outputs, None
<1>5. CASE UNCHANGED vars
  BY <1>5 DEF IInv, vars, Shape, Shaped, Honest, Untouched, NoOverrun, AllOrNothing, Outputs, None
<1> QED
  BY <1>1, <1>2, <1>3, <1>4, <1>5 DEF Next

LEMMA Invariant == Spec => []IInv
  BY InitIInv, NextIInv, PTL DEF Spec

(* No call writes outside a buffer, whatever its outputs and however often  *)
(* the caller tries.                                                        *)
THEOREM WithinBuffers == Spec => []NoOverrun
<1>1. IInv => NoOverrun
  BY DEF IInv
<1> QED
  BY <1>1, Invariant, PTL

(* An output is written whole and announced, or not at all. *)
THEOREM WholeOrNothing == Spec => []AllOrNothing
<1>1. IInv => AllOrNothing
  BY DEF IInv
<1> QED
  BY <1>1, Invariant, PTL

-----------------------------------------------------------------------------
(* The callers of the Python package: the sizes are those of the input, or  *)
(* there is room for any that can come.                                     *)
Ample(o) == \A s \in o.sizes, c \in o.capacities :
              \A i \in 1 .. Len(c) : c[i] # -1 /\ s[i] <= c[i]
Determined == {o \in Operations : \E s \in o.sizes : o.sizes = {s}}
PythonCallers == Attempts >= 2 /\ \A o \in Operations : o \in Determined \/ Ample(o)

Room(s) == \A i \in Outputs : Fits(i, s[i])

Prepared ==
  /\ attempts \in Nat
  /\ pc = "library" => \/ attempts = 1 /\ (Ample(op) => \A s \in op.sizes : Room(s))
                       \/ \A s \in op.sizes : Room(s)
  /\ pc = "caller" /\ status = "too_small" =>
       attempts = 1 /\ op \in Determined /\ len \in op.sizes
  /\ Negotiated

LEMMA InitPrepared == Init => Prepared
<1> SUFFICES ASSUME Init, Ample(op), NEW s \in op.sizes PROVE Room(s)
  BY DEF Init, Prepared, Negotiated
<1> PICK c \in op.capacities :
       /\ room = [i \in 1 .. Len(c) |-> Buffer(c[i])]
       /\ len = [i \in 1 .. Len(c) |-> IF c[i] = -1 THEN 0 ELSE c[i]]
  BY DEF Init
<1>1. op \in Operations /\ c \in Seq(Nat \cup {-1})
  BY OperationsAssumption DEF Init
<1>2. Outputs = 1 .. Len(c)
  BY <1>1 DEF Outputs, Buffer
<1>3. \A i \in Outputs : c[i] # -1 /\ s[i] <= c[i]
  BY <1>2 DEF Ample
<1>4. \A i \in Outputs : room[i] # -1 /\ len[i] = c[i]
  BY <1>1, <1>2, <1>3 DEF Buffer
<1> QED
  BY <1>3, <1>4 DEF Room, Fits

LEMMA NextPrepared == ASSUME PythonCallers, IInv, Prepared, [Next]_vars PROVE Prepared'
<1> USE DEF Prepared, Negotiated
<1>1. CASE Refuse
  BY <1>1 DEF Refuse, Return
<1>2. CASE Run
  <2> PICK s \in op.sizes : needed' = s /\ Output(s)
    BY <1>2 DEF Run
  <2>1. UNCHANGED <<op, room, attempts>> /\ len' = s /\ pc' = "caller"
    BY DEF Output, Return
  <2>2. CASE Room(s)
    BY <2>1, <2>2 DEF Output, Return, Room
  <2>3. CASE ~Room(s)
    <3>1. attempts = 1 /\ ~Ample(op)
      BY <1>2, <2>3 DEF Run
    <3>2. op \in Determined
      BY <3>1 DEF PythonCallers, IInv, Shape
    <3> QED
      BY <2>1, <3>1, <3>2
  <2> QED
    BY <2>2, <2>3
<1>3. CASE Retry
  <2>1. op \in Determined /\ len \in op.sizes /\ op' = op /\ len' = len
    BY <1>3 DEF Retry
  <2>2. \A s \in op.sizes : s = len
    BY <2>1 DEF Determined
  <2>3. \A i \in Outputs : Buffer(len[i]) # -1
    BY DEF IInv, Shape, Shaped, Outputs, Buffer
  <2>4. Outputs' = Outputs
    BY <1>3 DEF Retry, IInv, Shape, Outputs
  <2>5. \A i \in Outputs : room'[i] = Buffer(len[i]) /\ len[i] \in Nat
    BY <1>3 DEF Retry, IInv, Shape, Shaped, Outputs
  <2>6. (\A s \in op.sizes : Room(s))'
    BY <2>1, <2>2, <2>3, <2>4, <2>5 DEF Room, Fits
  <2> QED
    BY <1>3, <2>6 DEF Retry
<1>4. CASE Take
  <2>1. attempts = Attempts => attempts # 1
    BY DEF PythonCallers
  <2> QED
    BY <1>4, <2>1 DEF Take
<1>5. CASE UNCHANGED vars
  BY <1>5 DEF vars, Room, Fits, Outputs
<1> QED
  BY <1>1, <1>2, <1>3, <1>4, <1>5 DEF Next

(* A caller of the package is never refused for want of room, as long as    *)
(* the sizes of an operation follow from its input or fit at once.          *)
THEOREM PythonIsAnswered == ASSUME PythonCallers PROVE Spec => []Negotiated
<1>1. Prepared => Negotiated
  BY DEF Prepared
<1>2. IInv /\ Prepared /\ [Next]_vars => Prepared'
  BY NextPrepared
<1> QED
  BY <1>1, <1>2, InitPrepared, Invariant, PTL DEF Spec

-----------------------------------------------------------------------------
drawVars == <<live, held, drawPc, drawCall, asked, answer>>

(* What a request r is answered when x is drawn for it, and the numbers of  *)
(* the generator that are used up after it.                                 *)
Given(r, x) == LET drawn == Rng!Answer(r, x)
               IN  IF r.kind # "bytes" /\ Len(drawn.bytes) > r.room THEN Rng!Status("too_small")
                   ELSE drawn
After(a, n) == IF a.status = "invalid_arg" THEN n ELSE n + 1

Entry == Requests \X {Given(r, Stream(s, n)) : r \in Requests, s \in Seeds, n \in Nat}
State == [seed : Seeds, used : Nat]

(* u counts what is used up along the entries of l, from seed s. *)
Counts(u, l, s) ==
  /\ u \in [0 .. Len(l) -> Nat] /\ u[0] = 0
  /\ \A k \in 1 .. Len(l) : /\ l[k][2] = Given(l[k][1], Stream(s, u[k - 1]))
                            /\ u[k] = After(l[k][2], u[k - 1])

Explained(l, g) == l \in Seq(Entry) /\ \E u : Counts(u, l, g.seed) /\ u[Len(l)] = g.used

Busy == drawPc # "idle"
Allocated == IF Busy /\ drawCall.uses = Rng!Own THEN held \cup {Rng!Own} ELSE held

DrawInv ==
  /\ held \subseteq Handles
  /\ live \in [Allocated -> State] /\ asked \in [held -> Seq(Entry)]
  /\ Busy => drawCall.uses \in held \cup {Rng!Own} /\ drawCall.request \in Requests
  /\ \A h \in held : Explained(asked[h], live[h])

-----------------------------------------------------------------------------
LEMMA InitDrawInv == Rng!Init => DrawInv
<1> SUFFICES ASSUME Rng!Init PROVE DrawInv
  OBVIOUS
<1>1. held = {} /\ ~Busy /\ live = <<>> /\ asked = <<>>
  BY DEF Rng!Init, Busy
<1>2. \A S : <<>> \in [{} -> S]
  OBVIOUS
<1>3. Allocated = {}
  BY <1>1 DEF Allocated
<1> QED
  BY <1>1, <1>2, <1>3 DEF DrawInv

(* A generator that was not asked. *)
LEMMA FreshExplained == ASSUME NEW s \in Seeds PROVE Rng!Fresh(s) \in State /\ Explained(<<>>, Rng!Fresh(s))
<1> DEFINE u == [k \in 0 .. 0 |-> 0]
           l == <<>>
<1>1. l \in Seq(Entry) /\ Len(l) = 0
  OBVIOUS
<1>2. u \in [0 .. 0 -> Nat] /\ u[0] = 0
  OBVIOUS
<1> HIDE DEF u, l
<1>3. Counts(u, l, s) /\ u[Len(l)] = 0
  BY <1>1, <1>2 DEF Counts
<1>4. Rng!Fresh(s) \in State /\ Rng!Fresh(s).seed = s /\ Rng!Fresh(s).used = 0
  BY DEF Rng!Fresh, State
<1>5. Explained(l, Rng!Fresh(s))
  BY <1>1, <1>3, <1>4 DEF Explained
<1> QED
  BY <1>4, <1>5 DEF l

LEMMA NewKeeps == ASSUME DrawInv, NEW h \in Handles, Rng!New(h) PROVE DrawInv'
<1>1. /\ drawPc = "idle" /\ h \notin held /\ ~Busy /\ ~Busy' /\ Allocated = held
      /\ live \in [held -> State] /\ asked \in [held -> Seq(Entry)]
  BY DEF Rng!New, DrawInv, Busy, Allocated
<1>2. CASE UNCHANGED <<live, held, asked>>
  BY <1>1, <1>2 DEF DrawInv, Allocated
<1>3. ASSUME NEW s \in Seeds, live' = Rng!Put(live, h, Rng!Fresh(s)), held' = held \cup {h},
             asked' = Rng!Put(asked, h, <<>>)
      PROVE  DrawInv'
  <2> DEFINE f == Rng!Fresh(s)
  <2>1. f \in State /\ Explained(<<>>, f) /\ <<>> \in Seq(Entry)
    BY FreshExplained
  <2> HIDE DEF f
  <2>2. /\ live' = [y \in held' |-> IF y = h THEN f ELSE live[y]]
        /\ asked' = [y \in held' |-> IF y = h THEN <<>> ELSE asked[y]]
    BY <1>1, <1>3 DEF Rng!Put, f
  <2>3. live' \in [held' -> State] /\ asked' \in [held' -> Seq(Entry)]
    BY <1>1, <1>3, <2>1, <2>2
  <2>4. ASSUME NEW y \in held' PROVE Explained(asked'[y], live'[y])
    BY <1>3, <2>1, <2>2 DEF DrawInv
  <2> QED
    BY <1>1, <1>3, <2>3, <2>4 DEF DrawInv, Allocated
<1> QED
  BY <1>2, <1>3 DEF Rng!New

LEMMA FreeKeeps == ASSUME DrawInv, NEW h \in Handles, Rng!Free(h) PROVE DrawInv'
<1>1. /\ drawPc = "idle" /\ ~Busy /\ ~Busy' /\ Allocated = held
      /\ live \in [held -> State] /\ asked \in [held -> Seq(Entry)] /\ held' = held \ {h}
  BY DEF Rng!Free, DrawInv, Busy, Allocated
<1>2. live' = [y \in held' |-> live[y]] /\ asked' = [y \in held' |-> asked[y]]
  BY <1>1 DEF Rng!Free, Rng!Drop
<1>3. live' \in [held' -> State] /\ asked' \in [held' -> Seq(Entry)]
  BY <1>1, <1>2
<1>4. ASSUME NEW y \in held' PROVE Explained(asked'[y], live'[y])
  BY <1>1, <1>2 DEF DrawInv
<1> QED
  BY <1>1, <1>3, <1>4 DEF DrawInv, Allocated

(* Where the generators that are held and their logs stay. *)
LEMMA AskKeeps ==
  ASSUME DrawInv, UNCHANGED <<held, asked>>, live' \in [Allocated' -> State],
         \A h \in held : live'[h] = live[h],
         Busy' => drawCall'.uses \in held \cup {Rng!Own} /\ drawCall'.request \in Requests
  PROVE  DrawInv'
  BY DEF DrawInv

LEMMA AcquireKeeps ==
  ASSUME DrawInv, NEW r \in Requests, Rng!Own \notin Handles,
         (\E h \in Handles : Rng!Acquire(r, h)) \/ Rng!AcquireOwn(r)
  PROVE  DrawInv'
<1>1. /\ drawPc = "idle" /\ ~Busy /\ Allocated = held /\ UNCHANGED <<held, asked>>
      /\ live \in [held -> State] /\ Rng!Own \notin held
  BY DEF DrawInv, Busy, Allocated, Rng!Acquire, Rng!AcquireOwn
<1>2. CASE UNCHANGED <<live, drawPc, drawCall>>
  BY <1>1, <1>2, AskKeeps DEF Busy, Allocated
<1>3. ASSUME NEW h \in held, Rng!Begin(r, h), UNCHANGED live PROVE DrawInv'
  <2>1. Busy' /\ drawCall'.uses = h /\ drawCall'.request = r /\ Allocated' = held
    BY <1>1, <1>3 DEF Rng!Begin, Busy, Allocated
  <2> QED
    BY <1>1, <1>3, <2>1, AskKeeps
<1>4. ASSUME NEW s \in Seeds, live' = Rng!Put(live, Rng!Own, Rng!Fresh(s)), Rng!Begin(r, Rng!Own) PROVE DrawInv'
  <2>1. Busy' /\ drawCall'.uses = Rng!Own /\ drawCall'.request = r /\ Allocated' = held \cup {Rng!Own}
    BY <1>1, <1>4 DEF Rng!Begin, Busy, Allocated
  <2>2. Rng!Fresh(s) \in State
    BY FreshExplained
  <2>3. live' = [y \in held \cup {Rng!Own} |-> IF y = Rng!Own THEN Rng!Fresh(s) ELSE live[y]]
    BY <1>1, <1>4 DEF Rng!Put
  <2>4. live' \in [held \cup {Rng!Own} -> State] /\ \A h \in held : live'[h] = live[h]
    BY <1>1, <2>2, <2>3
  <2> QED
    BY <1>1, <2>1, <2>4, AskKeeps
<1> QED
  BY <1>2, <1>3, <1>4 DEF Rng!Acquire, Rng!AcquireOwn

(* One more entry. *)
LEMMA OneMore ==
  ASSUME NEW l, NEW g \in State, Explained(l, g), NEW r \in Requests,
         NEW a, a = Given(r, Stream(g.seed, g.used)),
         NEW h \in State, h.seed = g.seed, h.used = After(a, g.used)
  PROVE  Explained(Append(l, <<r, a>>), h) /\ Append(l, <<r, a>>) \in Seq(Entry)
<1> DEFINE e == <<r, a>>
           m == Append(l, e)
           n == Len(l)
<1>1. PICK u : Counts(u, l, g.seed) /\ u[n] = g.used
  BY DEF Explained
<1>2. l \in Seq(Entry) /\ g.seed \in Seeds /\ g.used \in Nat /\ h.used \in Nat
  BY DEF Explained, State
<1>3. e \in Entry
  BY <1>2 DEF Entry
<1>4. n \in Nat
  BY <1>2
<1> HIDE DEF e
<1>5. /\ m \in Seq(Entry) /\ Len(m) = n + 1 /\ m[n + 1] = e
      /\ \A k \in 1 .. n : m[k] = l[k]
  BY <1>2, <1>3
<1> HIDE DEF m, n
<1> DEFINE v == [k \in 0 .. n + 1 |-> IF k <= n THEN u[k] ELSE h.used]
<1>6. /\ v \in [0 .. n + 1 -> Nat] /\ v[0] = 0 /\ v[n + 1] = h.used
      /\ \A k \in 0 .. n : v[k] = u[k]
  BY <1>1, <1>2, <1>4 DEF Counts, n
<1> HIDE DEF v
<1>7. ASSUME NEW k \in 1 .. n + 1
      PROVE  /\ m[k][2] = Given(m[k][1], Stream(h.seed, v[k - 1]))
             /\ v[k] = After(m[k][2], v[k - 1])
  <2>1. CASE k = n + 1
    <3>1. k - 1 = n /\ n \in 0 .. n
      BY <1>4, <2>1
    <3>2. v[k - 1] = g.used
      BY <1>1, <1>6, <3>1
    <3>3. m[k][1] = r /\ m[k][2] = a
      BY <1>5, <2>1 DEF e
    <3> QED
      BY <1>6, <2>1, <3>2, <3>3
  <2>2. CASE k # n + 1
    <3>1. k \in 1 .. n /\ k \in 0 .. n /\ k - 1 \in 0 .. n
      BY <1>4, <2>2
    <3> QED
      BY <1>1, <1>5, <1>6, <3>1 DEF Counts, n
  <2> QED
    BY <2>1, <2>2
<1>8. Counts(v, m, h.seed)
  BY <1>5, <1>6, <1>7 DEF Counts
<1> QED
  BY <1>5, <1>6, <1>8 DEF Explained, m, e

LEMMA DrawKeeps == ASSUME DrawInv, Rng!Own \notin Handles, Rng!Draw PROVE DrawInv'
<1> DEFINE x == drawCall.uses
           g == live[x]
           r == drawCall.request
           a == Given(r, Stream(g.seed, g.used))
           n == IF a.status = "invalid_arg" THEN g.used ELSE g.used + 1
<1>1. /\ Busy /\ Busy' /\ UNCHANGED <<held, drawCall>> /\ Allocated' = Allocated
      /\ x \in Allocated /\ x \in held \cup {Rng!Own} /\ r \in Requests
      /\ live \in [Allocated -> State] /\ asked \in [held -> Seq(Entry)]
      /\ Rng!Own \notin held /\ held \subseteq Allocated
  BY DEF DrawInv, Rng!Draw, Busy, Allocated
<1>2. /\ live' = [live EXCEPT ![x].used = n]
      /\ asked' = IF x = Rng!Own THEN asked ELSE [asked EXCEPT ![x] = Append(@, <<r, a>>)]
  BY DEF Rng!Draw, Given
<1>3. g \in State /\ n = After(a, g.used)
  BY <1>1 DEF After
<1> HIDE DEF x, g, r, a, n
<1>4. n \in Nat
  BY <1>3 DEF After, State
<1> DEFINE f == [g EXCEPT !.used = n]
<1>5. f \in State /\ f.seed = g.seed /\ f.used = n
  BY <1>3, <1>4 DEF State
<1>6. live' = [live EXCEPT ![x] = f]
  BY <1>2 DEF g
<1> HIDE DEF f
<1>7. live' \in [Allocated' -> State]
  BY <1>1, <1>5, <1>6
<1>8. CASE x = Rng!Own
  <2>1. \A h \in held : live'[h] = live[h]
    BY <1>1, <1>6, <1>8
  <2> QED
    BY <1>1, <1>2, <1>7, <1>8, <2>1, AskKeeps DEF x, r
<1>9. CASE x # Rng!Own
  <2>1. x \in held /\ Explained(asked[x], g)
    BY <1>1, <1>9 DEF DrawInv, g
  <2> DEFINE m == Append(asked[x], <<r, a>>)
  <2>2. Explained(m, f) /\ m \in Seq(Entry)
    BY <1>1, <1>3, <1>5, <2>1, OneMore DEF a
  <2> HIDE DEF m
  <2>3. asked' = [asked EXCEPT ![x] = m]
    BY <1>2, <1>9 DEF m
  <2>4. asked' \in [held -> Seq(Entry)]
    BY <1>1, <2>2, <2>3
  <2>5. ASSUME NEW h \in held PROVE Explained(asked'[h], live'[h])
    <3>1. CASE h = x
      BY <1>1, <1>6, <2>1, <2>2, <2>3, <3>1
    <3>2. CASE h # x
      BY <1>1, <1>6, <2>1, <2>3, <3>2 DEF DrawInv
    <3> QED
      BY <3>1, <3>2
  <2> QED
    BY <1>1, <1>7, <2>4, <2>5 DEF DrawInv, x, r
<1> QED
  BY <1>8, <1>9

LEMMA ReleaseKeeps == ASSUME DrawInv, Rng!Own \notin Handles, Rng!Release PROVE DrawInv'
<1>1. /\ Busy /\ ~Busy' /\ UNCHANGED <<held, asked>> /\ Allocated' = held
      /\ live \in [Allocated -> State] /\ Rng!Own \notin held
  BY DEF DrawInv, Rng!Release, Busy, Allocated
<1>2. live' = [y \in held |-> live[y]]
  <2>1. CASE drawCall.uses = Rng!Own
    <3>1. Allocated \ {Rng!Own} = held
      BY <1>1, <2>1 DEF Allocated
    <3> QED
      BY <1>1, <2>1, <3>1 DEF Rng!Release, Rng!Drop
  <2>2. CASE drawCall.uses # Rng!Own
    BY <1>1, <2>2 DEF Rng!Release, Allocated
  <2> QED
    BY <2>1, <2>2
<1>3. live' \in [held -> State] /\ \A h \in held : live'[h] = live[h]
  BY <1>1, <1>2 DEF Allocated
<1> QED
  BY <1>1, <1>3, AskKeeps

LEMMA NextDrawInv == Rng!Own \notin Handles /\ DrawInv /\ [Rng!Next]_drawVars => DrawInv'
<1> SUFFICES ASSUME Rng!Own \notin Handles, DrawInv, [Rng!Next]_drawVars PROVE DrawInv'
  OBVIOUS
<1>1. CASE UNCHANGED drawVars \/ Rng!Refuse
  <2>1. UNCHANGED <<live, held, drawPc, drawCall, asked>>
    BY <1>1 DEF drawVars, Rng!Refuse
  <2> QED
    BY <2>1, AskKeeps DEF DrawInv, Busy, Allocated
<1>2. CASE \E h \in Handles : Rng!New(h) \/ Rng!Free(h)
  BY <1>2, NewKeeps, FreeKeeps
<1>3. CASE \E r \in Requests : (\E h \in Handles : Rng!Acquire(r, h)) \/ Rng!AcquireOwn(r)
  BY <1>3, AcquireKeeps
<1>4. CASE Rng!Draw \/ Rng!Release
  BY <1>4, DrawKeeps, ReleaseKeeps
<1> QED
  BY <1>1, <1>2, <1>3, <1>4 DEF Rng!Next

-----------------------------------------------------------------------------
(* Two generators of one seed have used up the same as long as they were    *)
(* asked the same.                                                          *)
LEMMA SameCounts ==
  ASSUME NEW l \in Seq(Entry), NEW m \in Seq(Entry), NEW s, NEW u, NEW v,
         Counts(u, l, s), Counts(v, m, s),
         NEW n \in Nat, n <= Len(l), n <= Len(m),
         \A k \in 1 .. n : l[k][1] = m[k][1]
  PROVE  \A k \in 0 .. n : u[k] = v[k]
<1> DEFINE Bad == {k \in 0 .. n : u[k] # v[k]}
<1> SUFFICES ASSUME Bad # {} PROVE FALSE
  OBVIOUS
<1>1. PICK k \in Bad : \A i \in Bad : k <= i
  <2>1. Bad \in SUBSET Nat
    OBVIOUS
  <2> HIDE DEF Bad
  <2> QED
    BY <2>1, LeastNatural
<1>2. k \in 0 .. n /\ u[k] # v[k] /\ Len(l) \in Nat /\ Len(m) \in Nat
  OBVIOUS
<1>3. k # 0
  BY <1>2 DEF Counts
<1>4. k \in 1 .. n /\ k - 1 \in 0 .. n /\ k \in 1 .. Len(l) /\ k \in 1 .. Len(m) /\ ~(k <= k - 1)
  BY <1>2, <1>3
<1>5. u[k - 1] = v[k - 1]
  BY <1>1, <1>4
<1>6. l[k][1] = m[k][1]
  BY <1>4
<1>7. u[k] = v[k]
  BY <1>4, <1>5, <1>6 DEF Counts
<1> QED
  BY <1>2, <1>7

(* What the spec of the runs lets the generators do. *)
LEMMA DrawInvariant == ASSUME Rng!Own \notin Handles PROVE OutputSpec => []DrawInv
<1>1. OutputInit => Rng!Init
  BY DEF OutputInit
<1>2. [OutputNext]_<<vars, rngVars, machine>> => [Rng!Next]_drawVars
  BY DEF OutputNext, rngVars, drawVars
<1> QED
  BY <1>1, <1>2, InitDrawInv, NextDrawInv, PTL DEF OutputSpec

(* Generators of one seed that are asked the same answer the same, and the  *)
(* held ones are the allocated ones between calls, if a temporary one is    *)
(* never one that the application holds.                                    *)
THEOREM SeedsReproduce == ASSUME Rng!Own \notin Handles PROVE OutputSpec => []Reproducible
<1>1. DrawInv => Reproducible
  <2> SUFFICES ASSUME DrawInv PROVE Reproducible
    OBVIOUS
  <2>1. drawPc = "idle" => DOMAIN live = held
    BY DEF DrawInv, Allocated, Busy
  <2>2. ASSUME NEW g \in held, NEW h \in held, live[g].seed = live[h].seed,
               NEW n \in DOMAIN asked[g] \cap DOMAIN asked[h],
               \A k \in 1 .. n : asked[g][k][1] = asked[h][k][1]
        PROVE  asked[g][n][2] = asked[h][n][2]
    <3> DEFINE l == asked[g]
               m == asked[h]
               s == live[g].seed
    <3>1. Explained(l, live[g]) /\ Explained(m, live[h])
      BY DEF DrawInv
    <3>2. PICK u : Counts(u, l, s)
      BY <3>1 DEF Explained
    <3>3. PICK v : Counts(v, m, s)
      BY <2>2, <3>1 DEF Explained
    <3>4. l \in Seq(Entry) /\ m \in Seq(Entry)
      BY <3>1 DEF Explained
    <3>5. /\ n \in Nat /\ n <= Len(l) /\ n <= Len(m) /\ n \in 1 .. Len(l) /\ n \in 1 .. Len(m)
          /\ n - 1 \in 0 .. n /\ n \in 1 .. n
      BY <2>2, <3>4
    <3>6. \A k \in 1 .. n : l[k][1] = m[k][1]
      BY <2>2
    <3> HIDE DEF l, m, s
    <3>7. u[n - 1] = v[n - 1]
      BY <3>2, <3>3, <3>4, <3>5, <3>6, SameCounts
    <3>8. l[n][2] = m[n][2]
      BY <3>2, <3>3, <3>5, <3>6, <3>7 DEF Counts
    <3> QED
      BY <3>8 DEF l, m
  <2> QED
    BY <2>1, <2>2 DEF Reproducible, Rng!Reproducible
<1> QED
  BY <1>1, DrawInvariant, PTL

-----------------------------------------------------------------------------
(* The numbers of a generator are natural. *)
DrawsNaturals == \A s \in Seeds, n \in Nat : Stream(s, n) \in Nat

LEMMA SamePow == \A x, y : Rng!Pow(x, y) = Pow(x, y)
  BY DEF Rng!Pow, Pow

LEMMA SameLength == \A x : Rng!BitLength(x) = BitLength(x)
  BY SamePow DEF Rng!BitLength, BitLength

(* Zeros and then a number without leading zeros are the number in full. *)
LEMMA AlignedInFull ==
  ASSUME NEW n \in Nat, NEW v \in Nat, v < Pow(Pow(2, ByteBits), n)
  PROVE  Rng!RightAligned(v, n) = Rng!BytesOf(n, v)
<1> DEFINE M == Pow(2, ByteBits)
           digit(l, i) == (v \div Pow(M, l - i)) % M
           bytes(l) == [i \in 1 .. l |-> digit(l, i)]
           c == IF v = 0 THEN 0 ELSE Rng!CountBytes(v)
           zeros == [i \in 1 .. n - c |-> 0]
<1>1. M \in Nat /\ M > 0 /\ ByteBits \in Nat /\ ByteBits > 0
  BY RandomAssumption, PowPositive, 2 \in Nat /\ 2 > 0
<1>2. \A l : Rng!BytesOf(l, v) = bytes(l)
  BY SamePow DEF Rng!BytesOf, Rng!ByteMod
<1>3. c \in Nat /\ c <= n /\ v < Pow(M, c)
  <2>1. CASE v = 0
    <3>1. c = 0 /\ Pow(M, 0) = 1
      BY <1>1, <2>1, PowSteps
    <3> QED
      BY <2>1, <3>1
  <2>2. CASE v # 0
    <3>1. c = (BitLength(v) + ByteBits - 1) \div ByteBits
      BY <2>2, SameLength DEF Rng!CountBytes
    <3> HIDE DEF c
    <3>2. c \in Nat /\ c > 0 /\ v < Pow(M, c) /\ (c = 1 \/ Pow(M, c - 1) <= v)
      BY <1>1, <3>1, CountIs
    <3>3. \A k \in Nat : Pow(M, k) \in Nat
      BY <1>1, PowPositive
    <3> HIDE DEF M
    <3>4. v < Pow(M, n)
      BY DEF M
    <3>5. ASSUME n < c PROVE FALSE
      <4>1. CASE c = 1
        <5>1. n = 0 /\ Pow(M, 0) = 1
          BY <1>1, <3>5, <4>1, PowSteps
        <5> QED
          BY <2>2, <3>4, <5>1
      <4>2. CASE c # 1
        <5>1. c - 1 \in Nat /\ n <= c - 1
          BY <3>2, <3>5
        <5>2. Pow(M, n) <= Pow(M, c - 1) /\ Pow(M, c - 1) \in Nat /\ Pow(M, n) \in Nat
          BY <1>1, <3>3, <5>1, PowMonotone
        <5> QED
          BY <3>2, <3>4, <4>2, <5>2
      <4> QED
        BY <4>1, <4>2
    <3> QED
      BY <3>2, <3>5
  <2> QED
    BY <2>1, <2>2
<1>4. Rng!RightAligned(v, n) = zeros \o bytes(c)
  <2>1. CASE v = 0
    <3>1. c = 0 /\ bytes(0) = <<>> /\ zeros = [i \in 1 .. n |-> 0]
      BY <2>1
    <3>2. Rng!RightAligned(v, n) = Rng!Zeros(n - Len(<<>>)) \o <<>>
      BY <2>1 DEF Rng!RightAligned
    <3> QED
      BY <3>1, <3>2 DEF Rng!Zeros
  <2>2. CASE v # 0
    <3>1. Rng!Minimal(v) = bytes(c)
      BY <1>2, <2>2 DEF Rng!Minimal
    <3> HIDE DEF c, digit
    <3>2. Len(bytes(c)) = c
      BY <1>3
    <3> QED
      BY <2>2, <3>1, <3>2 DEF Rng!RightAligned, Rng!Zeros
  <2> QED
    BY <2>1, <2>2
<1> HIDE DEF c, M
<1>5. \A i \in 1 .. n - c : digit(n, i) = 0
  BY <1>1, <1>3, LeadingZeros
<1>6. \A i \in 1 .. c : digit(c, i) = digit(n, i + (n - c))
  BY <1>3
<1> HIDE DEF digit
<1>7. zeros \o bytes(c) = bytes(n)
  <2> DEFINE D == {digit(c, i) : i \in 1 .. c} \cup {0}
             b == bytes(c)
             whole == zeros \o b
  <2>1. zeros \in Seq(D) /\ Len(zeros) = n - c
    BY <1>3
  <2>2. b \in Seq(D) /\ Len(b) = c /\ \A i \in 1 .. c : b[i] = digit(c, i)
    BY <1>3
  <2>3. /\ whole \in Seq(D) /\ Len(whole) = (n - c) + c
        /\ \A i \in 1 .. (n - c) + c : whole[i] = IF i <= n - c THEN zeros[i] ELSE b[i - (n - c)]
    <3> HIDE DEF zeros, b, D
    <3>1. \A u, w \in Seq(D) :
            /\ u \o w \in Seq(D) /\ Len(u \o w) = Len(u) + Len(w)
            /\ \A i \in 1 .. Len(u) + Len(w) : (u \o w)[i] = IF i <= Len(u) THEN u[i] ELSE w[i - Len(u)]
      BY ONLY ConcatProperties
    <3>2. zeros \in Seq(D) /\ b \in Seq(D)
      BY <2>1, <2>2
    <3>3. /\ whole \in Seq(D) /\ Len(whole) = Len(zeros) + Len(b)
          /\ \A i \in 1 .. Len(zeros) + Len(b) :
               whole[i] = IF i <= Len(zeros) THEN zeros[i] ELSE b[i - Len(zeros)]
      BY ONLY <3>1, <3>2 DEF whole
    <3> HIDE DEF whole
    <3>4. Len(zeros) = n - c /\ Len(b) = c
      BY <2>1, <2>2
    <3> QED
      BY ONLY <3>3, <3>4
  <2>4. (n - c) + c = n /\ \A i \in 1 .. n - c : zeros[i] = 0
    BY <1>3
  <2> HIDE DEF zeros, b, whole, D
  <2>5. ASSUME NEW i \in 1 .. n PROVE whole[i] = digit(n, i)
    <3>1. CASE i <= n - c
      BY <1>3, <1>5, <2>3, <2>4, <3>1
    <3>2. CASE ~(i <= n - c)
      <4>1. i - (n - c) \in 1 .. c /\ (i - (n - c)) + (n - c) = i
        BY <1>3, <3>2
      <4> QED
        BY <1>6, <2>2, <2>3, <2>4, <3>2, <4>1
    <3> QED
      BY <3>1, <3>2
  <2>6. whole = [i \in 1 .. n |-> whole[i]]
    BY <2>3, <2>4
  <2> QED
    BY <2>5, <2>6 DEF whole, b
<1> QED
  BY <1>2, <1>4, <1>7

(* A call that drew bytes was answered with the number its generator had.   *)
Answered ==
  drawPc = "release" /\ drawCall.request.kind = "bytes" =>
    LET g == live[drawCall.uses]
    IN  g.used - 1 \in Nat /\ answer = Rng!Answer(drawCall.request, Stream(g.seed, g.used - 1))

LEMMA NextAnswered ==
  ASSUME DrawInv, Answered, [Rng!Next]_drawVars PROVE Answered'
<1>1. CASE UNCHANGED drawVars
  BY <1>1 DEF drawVars, Answered
<1>2. CASE Rng!Draw
  <2> DEFINE x == drawCall.uses
             g == live[x]
             r == drawCall.request
             a == Rng!Answer(r, Stream(g.seed, g.used))
  <2> SUFFICES ASSUME r.kind = "bytes"
               PROVE  /\ live'[x].used - 1 \in Nat
                      /\ answer' = Rng!Answer(r, Stream(live'[x].seed, live'[x].used - 1))
    BY <1>2 DEF Rng!Draw, Answered
  <2>1. a.status = "ok"
    BY DEF Rng!Answer
  <2>2. answer' = a /\ live' = [live EXCEPT ![x].used = g.used + 1]
    BY <1>2, <2>1 DEF Rng!Draw
  <2>3. x \in Allocated /\ live \in [Allocated -> State]
    BY <1>2 DEF DrawInv, Rng!Draw, Busy, Allocated
  <2>4. g.used \in Nat /\ live'[x].used = g.used + 1 /\ live'[x].seed = g.seed
    BY <2>2, <2>3 DEF State
  <2>5. live'[x].used - 1 = g.used
    BY <2>4
  <2> QED
    BY <2>2, <2>4, <2>5
<1>3. CASE Rng!Release
  BY <1>3 DEF Rng!Release, Answered
<1>4. ASSUME NEW h \in Handles, Rng!New(h) \/ Rng!Free(h) \/ \E r \in Requests : Rng!Acquire(r, h)
      PROVE  Answered'
  BY <1>4 DEF Rng!New, Rng!Free, Rng!Acquire, Rng!Begin, Answered
<1>5. ASSUME NEW r \in Requests, Rng!AcquireOwn(r) PROVE Answered'
  BY <1>5 DEF Rng!AcquireOwn, Rng!Begin, Answered
<1>6. CASE Rng!Refuse
  BY <1>6 DEF Rng!Refuse, Answered
<1> QED
  BY <1>1, <1>2, <1>3, <1>4, <1>5, <1>6 DEF Rng!Next

(* rand_bytes fills the buffer with the bits it drew, leading zeros and     *)
(* all, for any size of byte, any request and whatever the generator draws, *)
(* as long as an unsigned int can count the bits.                           *)
THEOREM BytesAreDrawn ==
  ASSUME DrawsNaturals, Rng!Own \notin Handles PROVE OutputSpec => []EveryByteDrawn
<1>1. OutputInit => Answered
  BY DEF OutputInit, Rng!Init, Answered
<1>2. [OutputNext]_<<vars, rngVars, machine>> => [Rng!Next]_drawVars
  BY DEF OutputNext, rngVars, drawVars
<1>3. DrawInv /\ Answered /\ [Rng!Next]_drawVars => Answered'
  BY NextAnswered
<1>4. DrawInv /\ Answered => EveryByteDrawn
  <2> DEFINE g == live[drawCall.uses]
             r == drawCall.request
             n == r.n
             x == Stream(g.seed, g.used - 1)
             M == Pow(2, ByteBits)
             v == x % Pow(2, Rng!BitsOfBytes(n))
  <2> SUFFICES ASSUME DrawInv, Answered, drawPc = "release", r.kind = "bytes",
                      Rng!BitsOfBytes(n) = n * ByteBits
               PROVE  answer.bytes = Rng!BytesOf(n, x % Rng!Pow(Rng!ByteMod, n))
    BY DEF EveryByteDrawn, Rng!EveryByteDrawn
  <2>1. r \in Requests /\ n \in Nat /\ g \in State
    BY RandomAssumption DEF DrawInv, Busy, Allocated
  <2>2. x \in Nat
    BY <2>1 DEF Answered, DrawsNaturals, State
  <2>3. answer.bytes = Rng!RightAligned(v, n)
    BY SamePow DEF Answered, Rng!Answer
  <2>4. ByteBits \in Nat /\ ByteBits > 0 /\ M \in Nat /\ M > 0
    BY RandomAssumption, PowPositive, 2 \in Nat /\ 2 > 0
  <2> DEFINE p == Pow(M, n)
  <2>5. Pow(2, Rng!BitsOfBytes(n)) = p
    <3>1. n * ByteBits = ByteBits * n
      BY <2>1, <2>4
    <3>2. Pow(2, ByteBits * n) = Pow(Pow(2, ByteBits), n)
      BY <2>1, <2>4, 2 \in Nat, PowPow
    <3> QED
      BY <3>1, <3>2
  <2>6. Rng!Pow(Rng!ByteMod, n) = p
    BY SamePow DEF Rng!ByteMod
  <2>7. p \in Nat /\ p > 0
    BY <2>1, <2>4, PowPositive
  <2> HIDE DEF x, n, M, p
  <2>8. v = x % p /\ v \in Nat /\ v < p
    BY <2>2, <2>5, <2>7
  <2> HIDE DEF v
  <2>9. Rng!RightAligned(v, n) = Rng!BytesOf(n, v)
    BY <2>1, <2>8, AlignedInFull DEF p, M
  <2> QED
    BY <2>3, <2>6, <2>8, <2>9
<1> QED
  BY <1>1, <1>2, <1>3, <1>4, DrawInvariant, PTL DEF OutputSpec
=============================================================================
