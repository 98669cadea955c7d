---------------------------- MODULE OutputBuffer ----------------------------
(***************************************************************************)
(* How an output leaves the library: api_output, api_output_mpz and        *)
(* api_output_mpz_pair of api/common.c under a caller that asks again when *)
(* its buffers are too small, as call_out and call_out2 of                 *)
(* python/cryptocalc/_core.py do.  An operation has one or two outputs;    *)
(* the sizes are all that is kept of them.  An operation that draws        *)
(* random numbers is computed anew by each call and may come to other      *)
(* sizes, since numbers are written without leading zeros.                 *)
(***************************************************************************)
EXTENDS Integers, Sequences

CONSTANTS
  Operations,  \* records: sizes, the tuples of sizes a call can come to, and
               \* capacities, the tuples a caller begins with; -1 is NULL
  Attempts     \* calls a caller makes at most

ASSUME OperationsAssumption ==
  /\ Attempts \in Nat \ {0}
  /\ \A o \in Operations :
       /\ o.sizes \subseteq Seq(Nat) /\ o.capacities \subseteq Seq(Nat \cup {-1})
       /\ \A s \in o.sizes, c \in o.capacities : Len(s) = Len(c)

VARIABLES
  op,        \* the operation
  pc,        \* "caller", "library", "done"
  attempts,  \* calls made
  room,      \* the size of each buffer; -1 for NULL
  len,       \* each *out_len
  written,   \* the bytes written to each buffer
  needed,    \* the sizes the last call came to
  status

vars == <<op, pc, attempts, room, len, written, needed, status>>

Outputs == 1 .. Len(room)
None == [i \in Outputs |-> 0]

(* ffi.new("uint8_t[]", max(c, 1)) *)
Buffer(c) == IF c = 0 THEN 1 ELSE c

Init == /\ op \in Operations
        /\ \E c \in op.capacities :
             /\ room = [i \in 1 .. Len(c) |-> Buffer(c[i])]
             /\ len = [i \in 1 .. Len(c) |-> IF c[i] = -1 THEN 0 ELSE c[i]]
        /\ pc = "library" /\ attempts = 1
        /\ written = None /\ needed = None
        /\ status = "none"

Return(s) == pc' = "caller" /\ status' = s /\ UNCHANGED <<op, attempts, room>>

(* Any other error leaves everything alone. *)
Refuse == /\ pc = "library"
          /\ Return("error")
          /\ UNCHANGED <<len, written, needed>>

Fits(i, n) == room[i] # -1 /\ n <= len[i]

(* Faulty: a buffer of any size will do, if there is one. *)
OutputUnchecked(sizes) ==
  /\ len' = sizes
  /\ IF \A i \in Outputs : room[i] # -1
     THEN written' = sizes /\ Return("ok")
     ELSE written' = None /\ Return("too_small")

(* Faulty: the first output is written before the second is looked at. *)
OutputOneByOne(sizes) ==
  /\ len' = sizes
  /\ written' = [i \in Outputs |-> IF \A h \in 1 .. i : Fits(h, sizes[h]) THEN sizes[i] ELSE 0]
  /\ Return(IF \A i \in Outputs : Fits(i, sizes[i]) THEN "ok" ELSE "too_small")

(* Faulty: the required sizes are not told. *)
OutputUntold(sizes) ==
  /\ IF \A i \in Outputs : Fits(i, sizes[i])
     THEN len' = sizes /\ written' = sizes /\ Return("ok")
     ELSE len' = len /\ written' = None /\ Return("too_small")

(* Both sizes are told before either buffer is touched, and nothing is      *)
(* written unless everything fits.                                          *)
Output(sizes) ==
  /\ len' = sizes
  /\ IF \A i \in Outputs : Fits(i, sizes[i])
     THEN written' = sizes /\ Return("ok")
     ELSE written' = None /\ Return("too_small")

Run == /\ pc = "library"
       /\ \E sizes \in op.sizes : needed' = sizes /\ Output(sizes)

(* The caller tries again with what it was told, or takes what it got. *)
Retry == /\ pc = "caller" /\ status = "too_small" /\ attempts < Attempts
         /\ room' = [i \in Outputs |-> Buffer(len[i])]
         /\ written' = None
         /\ attempts' = attempts + 1
         /\ pc' = "library"
         /\ UNCHANGED <<op, len, needed, status>>

Take == /\ pc = "caller"
        /\ status # "too_small" \/ attempts = Attempts
        /\ pc' = "done"
        /\ UNCHANGED <<op, attempts, room, len, written, needed, status>>

Next == Refuse \/ Run \/ Retry \/ Take

Spec == Init /\ [][Next]_vars

-----------------------------------------------------------------------------
(* No byte is written outside a buffer, to a NULL one least of all: the     *)
(* capacity a call trusts is that of the buffer that came with it.          *)
NoOverrun == \A i \in Outputs : written[i] > 0 => written[i] <= room[i]

(* A call that has no room for one of its outputs touches neither; one that *)
(* succeeds writes both whole and says how long they are.                   *)
AllOrNothing ==
  pc = "caller" =>
    /\ status # "ok" => written = None
    /\ status = "ok" => written = needed /\ len = needed

(* What the caller is told is what it needs: the last call never fails for  *)
(* want of room.                                                            *)
Negotiated == pc = "done" => status # "too_small"

(* "If out is NULL or too small, the call returns CC_ERR_BUFFER_TOO_SMALL   *)
(* and sets *out_len to the required size" (cryptocalc.h): the same call    *)
(* with that much room does not fail for want of room.                      *)
RequiredSize == pc = "caller" /\ attempts > 1 => status # "too_small"
=============================================================================
