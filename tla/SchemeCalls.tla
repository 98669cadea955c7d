----------------------------- MODULE SchemeCalls -----------------------------
(***************************************************************************)
(* What the calls on a context with a key have in common.  An application  *)
(* seals a message, by encrypting or signing it, which may draw random     *)
(* numbers several times, and opens what it holds: the result of an        *)
(* earlier call or any other bytes, which it may read from anywhere.       *)
(* Buffers are large enough; the module OutputBuffer is about the others.  *)
(***************************************************************************)
EXTENDS Bytes

CONSTANTS Hash(_, _)   \* the hash of the context: len bytes from a message

VARIABLES
  ctx,    \* the context with its key
  algo,   \* "crt" or "standard", for RSA
  pc,     \* "ready", "encrypt" or "sign"
  task,   \* the message of the call that runs
  drawn,  \* what it has drawn
  made,   \* the last result of a call that seals: its message and its bytes
  last    \* the last call that returned

vars == <<ctx, algo, pc, task, drawn, made, last>>

Nothing == [call |-> "none", m |-> <<>>, out |-> <<>>]
NoCall == [call |-> "none", m |-> <<>>, in |-> <<>>, status |-> "ok"]

Ready(c) == /\ ctx = c /\ algo = "crt"
            /\ pc = "ready" /\ task = <<>> /\ drawn = <<>>
            /\ made = Nothing /\ last = NoCall

(* A call that seals begins, goes on with what it drew, and returns. *)
Begin(call, m, first) ==
  /\ pc = "ready"
  /\ pc' = call /\ task' = m /\ drawn' = first
  /\ UNCHANGED <<ctx, algo, made, last>>

Drew(d) == drawn' = d /\ UNCHANGED <<ctx, algo, pc, task, made, last>>

Return(call, m, in, status) ==
  /\ pc' = "ready" /\ task' = <<>> /\ drawn' = <<>>
  /\ last' = [call |-> call, m |-> m, in |-> in, status |-> status]
  /\ UNCHANGED <<ctx, algo>>

Refuse(call, m, status) == Return(call, m, <<>>, status) /\ UNCHANGED made

Seal(call, m, out) == /\ Return(call, m, <<>>, "ok")
                      /\ made' = [call |-> call, m |-> m, out |-> out]

(* A call that opens returns at once. *)
Open(call, m, in, status) == /\ pc = "ready"
                             /\ Return(call, m, in, status)
                             /\ UNCHANGED made
=============================================================================
