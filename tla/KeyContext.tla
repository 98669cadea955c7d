----------------------------- MODULE KeyContext -----------------------------
(***************************************************************************)
(* The life of the key contexts of the public API: cc_<scheme>_new,        *)
(* _keygen, _get, _encrypt .. _verify and _free (api/rsa.c, api/elgamal.c, *)
(* api/dsa.c, api/ecelgamal.c, api/ecdsa.c) with the backend functions     *)
(* they call.  A context owns four groups of allocations:                  *)
(*   "ctx"   the structure itself                                          *)
(*   "pp"    the public parameters                                         *)
(*   "keys"  the multi-precision numbers (or points) of sk and pk          *)
(*   "tmp"   the random state and the temporaries of the running call      *)
(* A call is a sequence of steps between which other contexts, used from   *)
(* other threads, make steps of their own.  MaxKeygen bounds the keygen    *)
(* calls made on one context.                                              *)
(***************************************************************************)
EXTENDS Naturals

CONSTANTS Ctx, SchemeOf, MaxKeygen

Schemes == {"rsa", "elgamal", "dsa", "ecelgamal", "ecdsa"}

ASSUME SchemeAssumption == SchemeOf \in [Ctx -> Schemes]
ASSUME MaxKeygenAssumption == MaxKeygen \in Nat

VARIABLES
  pc,       \* where the call running on a context is; "idle" between calls
  live,     \* the groups of allocations a context holds
  hasKey,   \* has_key
  key,      \* the keygen call whose numbers "keys" holds, 0: none written
  calls,    \* keygen calls made on the context since it was created
  ret,      \* status returned by the last call, and the key it used
  faults    \* misuses of memory so far

vars == <<pc, live, hasKey, key, calls, ret, faults>>

Groups == {"ctx", "pp", "keys", "tmp"}
Points == {"idle", "setup", "seed", "drawP", "drawQ", "check"}
Status == {"CC_OK", "CC_ERR_INVALID_ARG", "CC_ERR_UNSUPPORTED", "CC_ERR_NOMEM",
           "CC_ERR_RNG", "CC_ERR_NO_KEY", "CC_ERR_INVALID_INPUT"}

Init == /\ pc     = [c \in Ctx |-> "idle"]
        /\ live   = [c \in Ctx |-> {}]
        /\ hasKey = [c \in Ctx |-> FALSE]
        /\ key    = [c \in Ctx |-> 0]
        /\ calls  = [c \in Ctx |-> 0]
        /\ ret    = [c \in Ctx |-> [status |-> "none", key |-> 0]]
        /\ faults = {}

Goto(c, p) == pc' = [pc EXCEPT ![c] = p]

(* The call returns status s after having used key k. *)
Return(c, s, k) == /\ Goto(c, "idle")
                   /\ ret' = [ret EXCEPT ![c] = [status |-> s, key |-> k]]

Opened(c) == "ctx" \in live[c]
Idle(c) == pc[c] = "idle"

(* Allocating over a live group loses it; releasing or reading a group     *)
(* that is not live is undefined behaviour.                                *)
Change(c, released, acquired) ==
  /\ live' = [live EXCEPT ![c] = (@ \ released) \cup acquired]
  /\ faults' = faults
       \cup (IF released \subseteq live[c] THEN {} ELSE {"bad_free"})
       \cup (IF acquired \cap (live[c] \ released) = {} THEN {} ELSE {"leak"})

Read(c, g) == faults' = faults \cup (IF g \in live[c] THEN {} ELSE {"bad_read"})

-----------------------------------------------------------------------------
(* Faulty: a refused curve is reported like a short output buffer. *)
EarlyErrorsAsShort(s) == {"CC_ERR_INVALID_ARG", "CC_ERR_BUFFER_TOO_SMALL"}

(* cc_<scheme>_new.  What each constructor rejects before it allocates, and *)
(* whether its parameters can still be refused afterwards.                  *)
EarlyErrors(s) ==
  (IF s = "elgamal" THEN {} ELSE {"CC_ERR_INVALID_ARG"})
    \cup (IF s = "ecdsa" THEN {"CC_ERR_UNSUPPORTED"} ELSE {})

LateErrors(s) == IF s = "ecdsa" THEN {} ELSE {"CC_ERR_INVALID_ARG"}

New(c) ==
  /\ Idle(c) /\ ~Opened(c)
  /\ \/ /\ \E e \in EarlyErrors(SchemeOf[c]) \cup {"CC_ERR_NOMEM"} : Return(c, e, 0)
        /\ UNCHANGED <<live, faults>>
     \/ /\ Change(c, {}, {"ctx"})
        /\ Goto(c, "setup")
        /\ UNCHANGED ret
  /\ UNCHANGED <<hasKey, key, calls>>

(* The parameters are initialised only when they are accepted, so a refusal *)
(* has nothing but the structure to release.                                *)
Setup(c) ==
  /\ pc[c] = "setup"
  /\ \/ /\ Change(c, {}, {"pp"})
        /\ Return(c, "CC_OK", 0)
     \/ /\ \E e \in LateErrors(SchemeOf[c]) : Return(c, e, 0)
        /\ Change(c, {"ctx"}, {})
  /\ UNCHANGED <<hasKey, key, calls>>

(* Faulty: the keys are released whether or not there are any. *)
FreeBlindly(c) ==
  /\ Idle(c) /\ Opened(c)
  /\ Change(c, {"pp", "ctx", "keys"}, {})
  /\ hasKey' = [hasKey EXCEPT ![c] = FALSE]
  /\ key' = [key EXCEPT ![c] = 0]
  /\ calls' = [calls EXCEPT ![c] = 0]
  /\ Return(c, "CC_OK", 0)

(* cc_<scheme>_free; whatever is still live once the structure is gone has  *)
(* no owner left.                                                           *)
Free(c) ==
  LET owned == {"pp", "ctx"} \cup (IF hasKey[c] THEN {"keys"} ELSE {})
  IN  /\ Idle(c) /\ Opened(c)
      /\ live' = [live EXCEPT ![c] = @ \ owned]
      /\ faults' = faults
           \cup (IF owned \subseteq live[c] THEN {} ELSE {"bad_free"})
           \cup (IF live[c] \subseteq owned THEN {} ELSE {"leak"})
      /\ hasKey' = [hasKey EXCEPT ![c] = FALSE]
      /\ key' = [key EXCEPT ![c] = 0]
      /\ calls' = [calls EXCEPT ![c] = 0]
      /\ Return(c, "CC_OK", 0)

-----------------------------------------------------------------------------
(* Faulty: has_key survives the release of the old pair. *)
KeygenStillMarked(c) ==
  /\ Idle(c) /\ Opened(c)
  /\ calls[c] < MaxKeygen
  /\ calls' = [calls EXCEPT ![c] = @ + 1]
  /\ IF hasKey[c] THEN Change(c, {"keys"}, {}) ELSE UNCHANGED <<live, faults>>
  /\ Goto(c, "seed")
  /\ UNCHANGED <<hasKey, key, ret>>

(* cc_<scheme>_keygen.  The old pair is released first. *)
Keygen(c) ==
  /\ Idle(c) /\ Opened(c)
  /\ calls[c] < MaxKeygen
  /\ calls' = [calls EXCEPT ![c] = @ + 1]
  /\ IF hasKey[c] THEN /\ Change(c, {"keys"}, {})
                       /\ hasKey' = [hasKey EXCEPT ![c] = FALSE]
                       /\ key' = [key EXCEPT ![c] = 0]
                  ELSE UNCHANGED <<live, faults, hasKey, key>>
  /\ Goto(c, "seed")
  /\ UNCHANGED ret

(* Faulty: the status of rng_init is not looked at. *)
SeedUnchecked(c) ==
  /\ pc[c] = "seed"
  /\ \/ Return(c, "CC_OK", 0) /\ UNCHANGED <<live, faults>>
     \/ Change(c, {}, {"keys", "tmp"}) /\ Goto(c, "drawP") /\ UNCHANGED ret
  /\ UNCHANGED <<hasKey, key, calls>>

(* rng_init comes before the mpz_inits of the keys. *)
Seed(c) ==
  /\ pc[c] = "seed"
  /\ \/ /\ Return(c, "CC_ERR_RNG", 0)
        /\ UNCHANGED <<live, faults>>
     \/ /\ Change(c, {}, {"keys", "tmp"})
        /\ Goto(c, "drawP")
        /\ UNCHANGED ret
  /\ UNCHANGED <<hasKey, key, calls>>

(* The numbers are written, the temporaries released, has_key set. *)
Publish(c) ==
  /\ Change(c, {"tmp"}, {})
  /\ key' = [key EXCEPT ![c] = calls[c]]
  /\ hasKey' = [hasKey EXCEPT ![c] = TRUE]
  /\ Return(c, "CC_OK", calls[c])

(* Faulty: the error path forgets the half-made pair. *)
AbandonTemporaries(c) ==
  /\ Change(c, {"tmp"}, {})
  /\ Return(c, "CC_ERR_NOMEM", 0)
  /\ UNCHANGED <<hasKey, key>>

(* gen_prime_b could not allocate its small primes: rsa_keygen releases the *)
(* temporaries and the half-made pair.                                      *)
Abandon(c) ==
  /\ Change(c, {"tmp", "keys"}, {})
  /\ Return(c, "CC_ERR_NOMEM", 0)
  /\ UNCHANGED <<hasKey, key>>

Stay(c, p) == Goto(c, p) /\ UNCHANGED <<live, hasKey, key, ret, faults>>

(* One scalar from rand_int_nonzero, which cannot fail below a group order. *)
DrawScalar(c) ==
  /\ pc[c] = "drawP" /\ SchemeOf[c] # "rsa"
  /\ Publish(c)
  /\ UNCHANGED calls

(* rsa_keygen draws p, then q until q # p, then checks the length of n and  *)
(* that e is invertible modulo phi(n); a refusal starts again from p.       *)
DrawP(c) ==
  /\ pc[c] = "drawP" /\ SchemeOf[c] = "rsa"
  /\ Stay(c, "drawQ") \/ Abandon(c)
  /\ UNCHANGED calls

DrawQ(c) ==
  /\ pc[c] = "drawQ"
  /\ Stay(c, "check") \/ Stay(c, "drawQ") \/ Abandon(c)
  /\ UNCHANGED calls

Reject(c) ==
  /\ pc[c] = "check"
  /\ Stay(c, "drawP")
  /\ UNCHANGED calls

(* Faulty: the loop of rsa_keygen has no way out. *)
AcceptNever(c) == pc[c] = "check" /\ Stay(c, "drawP") /\ UNCHANGED calls

Accept(c) ==
  /\ pc[c] = "check"
  /\ Publish(c)
  /\ UNCHANGED calls

-----------------------------------------------------------------------------
(* The operations on a key: require_key, then a use of the pair that may    *)
(* fail for reasons of its own (no random seed, bad input).                 *)
Use(c) ==
  /\ Idle(c) /\ Opened(c)
  /\ IF hasKey[c]
     THEN /\ Read(c, "keys")
          /\ \/ Return(c, "CC_OK", key[c])
             \/ \E e \in {"CC_ERR_RNG", "CC_ERR_INVALID_INPUT"} : Return(c, e, 0)
     ELSE /\ Return(c, "CC_ERR_NO_KEY", 0)
          /\ UNCHANGED faults
  /\ UNCHANGED <<live, hasKey, key, calls>>

(* cc_elgamal_get and cc_dsa_get hand out p, q and g without a key. *)
GetParams(c) ==
  /\ Idle(c) /\ Opened(c)
  /\ SchemeOf[c] \in {"elgamal", "dsa"}
  /\ Read(c, "pp")
  /\ Return(c, "CC_OK", 0)
  /\ UNCHANGED <<live, hasKey, key, calls>>

Next == \E c \in Ctx :
  \/ New(c) \/ Setup(c) \/ Free(c)
  \/ Keygen(c) \/ Seed(c) \/ DrawScalar(c)
  \/ DrawP(c) \/ DrawQ(c) \/ Reject(c) \/ Accept(c)
  \/ Use(c) \/ GetParams(c)

Spec == Init /\ [][Next]_vars

(* A thread that runs a call makes its next step, and the draws succeed now *)
(* and then: p # q, a full-length n and an invertible e all have positive   *)
(* probability at every attempt.                                            *)
Fairness == \A c \in Ctx :
  /\ WF_vars(Setup(c) \/ Seed(c) \/ DrawScalar(c) \/ DrawP(c) \/ DrawQ(c))
  /\ SF_vars(DrawQ(c) /\ pc'[c] # "drawQ")
  /\ SF_vars(Accept(c))

FairSpec == Spec /\ Fairness

-----------------------------------------------------------------------------
TypeOK ==
  /\ pc \in [Ctx -> Points]
  /\ live \in [Ctx -> SUBSET Groups]
  /\ hasKey \in [Ctx -> BOOLEAN]
  /\ key \in [Ctx -> 0 .. MaxKeygen]
  /\ calls \in [Ctx -> 0 .. MaxKeygen]
  /\ ret \in [Ctx -> [status : Status \cup {"none"}, key : 0 .. MaxKeygen]]
  /\ faults \subseteq {"bad_free", "bad_read", "leak"}

(* No sequence of calls, on any mix of schemes and failures, releases or    *)
(* reads an allocation that is not live, nor loses one that is: rsa.c:50-62 *)
(* and its siblings clear has_key before they try for a new pair.           *)
MemorySafe == faults = {}

(* Between calls the pair is allocated exactly when has_key says so, every  *)
(* temporary is gone, and a closed context holds nothing.                   *)
NothingLeftBehind == \A c \in Ctx : Idle(c) =>
  live[c] \in {{}, {"ctx", "pp"} \cup (IF hasKey[c] THEN {"keys"} ELSE {})}

(* A context that has a key has the one of the latest keygen call: a failed *)
(* regeneration never leaves an earlier pair, or a half-made one, in use.   *)
LatestKeyOnly == \A c \in Ctx : hasKey[c] => /\ key[c] = calls[c]
                                             /\ key[c] # 0
                                             /\ Idle(c)

(* Every keygen call returns. *)
KeygenReturns == \A c \in Ctx : pc[c] = "seed" ~> Idle(c)

-----------------------------------------------------------------------------
(* The vault a context stands for: open from the return of its constructor  *)
(* until it is freed, keyed as has_key says, asking while keygen runs.      *)
StateOf(c) == IF ~Opened(c) \/ pc[c] = "setup" THEN "closed"
              ELSE IF ~Idle(c) THEN "asking"
              ELSE IF hasKey[c] THEN "keyed" ELSE "empty"

AnswerOf(s) == IF s = "none" THEN "none"
               ELSE IF s = "CC_OK" THEN "ok"
               ELSE IF s = "CC_ERR_NO_KEY" THEN "no_key" ELSE "error"

vaultOf == [c \in Ctx |-> [state |-> StateOf(c), asked |-> calls[c]]]
answerOf == [c \in Ctx |-> [status |-> AnswerOf(ret[c].status), key |-> ret[c].key]]

Vaults == INSTANCE KeyVault WITH vault <- vaultOf, answer <- answerOf

(* Every behaviour of the contexts is one of the vaults: a call takes       *)
(* effect once, and success means the pair of the latest request was used.  *)
ImplementsVaults == Vaults!Spec
=============================================================================
