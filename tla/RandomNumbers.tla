---------------------------- MODULE RandomNumbers ----------------------------
(***************************************************************************)
(* Generators and what is drawn from them: cc_rng_new .. cc_random_below   *)
(* (api/primitives.c) over rng/rng.c.  A call without a generator makes    *)
(* one of its own, seeded by the system, and frees it before it returns.   *)
(*                                                                         *)
(* Stream(s, n) is the n-th number of the generator of GMP seeded with s,  *)
(* of any length; a draw takes its last bits.  MaxDraws bounds the calls   *)
(* made on one generator.                                                  *)
(***************************************************************************)
EXTENDS Bytes

CONSTANTS Handles, Seeds, Stream(_, _), Requests, MaxDraws, UintBits

VARIABLES
  live,    \* the generators that are allocated, and their state
  held,    \* the generators the application holds
  pc,      \* "idle", "draw" or "release"
  call,    \* the request of the call that runs, and the generator it uses
  log,     \* what was asked of each generator it holds, and the answers
  answer   \* of the last call: its status, and the number and bytes drawn

vars == <<live, held, pc, call, log, answer>>

Own == "temporary"   \* rng_ref.owned
NoCall == [request |-> [kind |-> "none"], uses |-> Own]
Status(s) == [status |-> s, number |-> 0, bytes |-> <<>>]
Fresh(s) == [seed |-> s, used |-> 0]

Init == /\ live = <<>> /\ held = {} /\ log = <<>>
        /\ pc = "idle" /\ call = NoCall /\ answer = Status("none")

(* Functions on the allocated generators, or on those that are held. *)
Put(f, x, v) == [y \in DOMAIN f \cup {x} |-> IF y = x THEN v ELSE f[y]]
Drop(f, x) == [y \in DOMAIN f \ {x} |-> f[y]]

-----------------------------------------------------------------------------
(* cc_rng_new and cc_rng_new_seeded: malloc, and the seed of the system,    *)
(* may fail, and then the application holds nothing.                        *)
New(h) ==
  /\ pc = "idle" /\ h \notin held
  /\ \/ /\ \E s \in Seeds : live' = Put(live, h, Fresh(s))
        /\ held' = held \cup {h} /\ log' = Put(log, h, <<>>)
        /\ answer' = Status("ok")
     \/ /\ answer' \in {Status("nomem"), Status("rng")}
        /\ UNCHANGED <<live, held, log>>
  /\ UNCHANGED <<pc, call>>

(* cc_rng_free *)
Free(h) ==
  /\ pc = "idle" /\ h \in held
  /\ live' = Drop(live, h) /\ held' = held \ {h} /\ log' = Drop(log, h)
  /\ answer' = Status("ok")
  /\ UNCHANGED <<pc, call>>

Begin(r, g) == pc' = "draw" /\ call' = [request |-> r, uses |-> g] /\ answer' = Status("none")

(* rng_acquire with a generator, and without one. *)
Acquire(r, h) == /\ pc = "idle" /\ h \in held /\ Len(log[h]) < MaxDraws
                 /\ Begin(r, h) /\ UNCHANGED <<live, held, log>>

AcquireOwn(r) ==
  /\ pc = "idle"
  /\ \/ (\E s \in Seeds : live' = Put(live, Own, Fresh(s))) /\ Begin(r, Own)
     \/ answer' \in {Status("nomem"), Status("rng")} /\ UNCHANGED <<live, pc, call>>
  /\ UNCHANGED <<held, log>>

(* Arguments that are refused before a generator is looked for: NULL, or a  *)
(* number of bytes that is no unsigned int.                                 *)
Refuse == /\ pc = "idle" /\ answer' = Status("invalid_arg")
          /\ UNCHANGED <<live, held, pc, call, log>>

-----------------------------------------------------------------------------
(* Faulty: the bytes of the number are put where the buffer begins. *)
LeftAligned(v, n) == LET s == IF v = 0 THEN <<>> ELSE Minimal(v) IN s \o Zeros(n - Len(s))

(* rand_bytes: mpz_export leaves out the zeros a number begins with. *)
RightAligned(v, n) == LET s == IF v = 0 THEN <<>> ELSE Minimal(v) IN Zeros(n - Len(s)) \o s

(* The bits of n bytes, in an unsigned int. *)
BitsOfBytes(n) == (n * ByteBits) % Pow(2, UintBits)

Answer(r, x) ==
  CASE r.kind = "bytes" -> LET v == x % Pow(2, BitsOfBytes(r.n))
                           IN  [status |-> "ok", number |-> v, bytes |-> RightAligned(v, r.n)]
    [] r.kind = "bits"  -> [status |-> "ok", number |-> x % Pow(2, r.n), bytes |-> Minimal(x % Pow(2, r.n))]
    [] r.kind = "below" -> IF r.n <= 0 THEN Status("invalid_arg")
                           ELSE [status |-> "ok", number |-> x % r.n, bytes |-> Minimal(x % r.n)]

(* rand_bytes, rand_int_b and rand_int_m with api_output_mpz, for which the *)
(* buffer may be too small once the number is drawn.                        *)
Draw ==
  /\ pc = "draw"
  /\ LET g == live[call.uses]
         r == call.request
         drawn == Answer(r, Stream(g.seed, g.used))
         a == IF r.kind # "bytes" /\ Len(drawn.bytes) > r.room THEN Status("too_small") ELSE drawn
     IN  /\ answer' = a
         /\ live' = [live EXCEPT ![call.uses].used = IF a.status = "invalid_arg" THEN @ ELSE @ + 1]
         /\ log' = IF call.uses = Own THEN log
                   ELSE [log EXCEPT ![call.uses] = Append(@, <<r, a>>)]
  /\ pc' = "release"
  /\ UNCHANGED <<held, call>>

(* Faulty: the generator that was used is freed, whoever made it. *)
ReleaseUsed ==
  /\ pc = "release" /\ pc' = "idle" /\ call' = NoCall
  /\ live' = Drop(live, call.uses)
  /\ UNCHANGED <<held, log, answer>>

(* rng_release *)
Release ==
  /\ pc = "release" /\ pc' = "idle" /\ call' = NoCall
  /\ live' = IF call.uses = Own THEN Drop(live, Own) ELSE live
  /\ UNCHANGED <<held, log, answer>>

Next == \/ \E h \in Handles : New(h) \/ Free(h) \/ \E r \in Requests : Acquire(r, h)
        \/ \E r \in Requests : AcquireOwn(r)
        \/ Refuse \/ Draw \/ Release

Spec == Init /\ [][Next]_vars

-----------------------------------------------------------------------------
(* "A seeded generator is reproducible" (cryptocalc.h): generators of one   *)
(* seed that are asked the same give the same answers, whatever calls are   *)
(* made in between on others or on none; and between calls exactly the      *)
(* generators that are held are allocated.                                  *)
Reproducible ==
  /\ pc = "idle" => DOMAIN live = held
  /\ \A g, h \in held : live[g].seed = live[h].seed =>
       \A n \in DOMAIN log[g] \cap DOMAIN log[h] :
         (\A k \in 1 .. n : log[g][k][1] = log[h][k][1]) => log[g][n][2] = log[h][n][2]

(* A draw of bytes fills the buffer with all of its bits, and shifts none   *)
(* of them when the number begins with zeros (rng.c:68), as long as an      *)
(* unsigned int can count those bits.                                       *)
EveryByteDrawn ==
  pc = "release" /\ call.request.kind = "bytes" =>
    LET g == live[call.uses]
        n == call.request.n
    IN  BitsOfBytes(n) = n * ByteBits =>
          answer.bytes = BytesOf(n, Stream(g.seed, g.used - 1) % Pow(ByteMod, n))
=============================================================================
