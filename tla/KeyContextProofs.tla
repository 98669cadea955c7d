-------------------------- MODULE KeyContextProofs --------------------------
(***************************************************************************)
(* Proofs about the key contexts, for any set of contexts, any assignment  *)
(* of schemes to them and any number of keygen calls.                      *)
(***************************************************************************)
EXTENDS KeyContext, TLAPS

(* Which allocations are live is a function of where the call is.          *)
Shape(c) ==
  /\ pc[c] = "idle" => \/ live[c] = {}
                       \/ live[c] = {"ctx", "pp"} /\ ~hasKey[c]
                       \/ live[c] = {"ctx", "pp", "keys"} /\ hasKey[c]
  /\ pc[c] = "setup" => live[c] = {"ctx"}
  /\ pc[c] = "seed"  => live[c] = {"ctx", "pp"}
  /\ pc[c] \in {"drawP", "drawQ", "check"} => live[c] = Groups

(* What the flag and the counters say of each other.                       *)
Numbering(c) ==
  /\ hasKey[c] => pc[c] = "idle" /\ live[c] # {} /\ key[c] = calls[c]
  /\ ~hasKey[c] => key[c] = 0
  /\ hasKey[c] \/ pc[c] \in {"seed", "drawP", "drawQ", "check"} => calls[c] # 0
  /\ live[c] = {} \/ pc[c] = "setup" => calls[c] = 0

IInv == /\ TypeOK
        /\ MemorySafe
        /\ \A c \in Ctx : Shape(c) /\ Numbering(c)

(* A step of one context leaves the others as they are. *)
Same(d) == /\ pc'[d] = pc[d]
           /\ live'[d] = live[d]
           /\ hasKey'[d] = hasKey[d]
           /\ key'[d] = key[d]
           /\ calls'[d] = calls[d]

LEMMA InitIInv == Init => IInv
  BY MaxKeygenAssumption
     DEF Init, IInv, TypeOK, MemorySafe, Shape, Numbering, Groups, Points, Status

(* What one step of context c has to establish for the invariant. *)
LEMMA StepIInv ==
  ASSUME IInv, NEW c \in Ctx, TypeOK', MemorySafe', Shape(c)', Numbering(c)',
         \A d \in Ctx \ {c} : Same(d)
  PROVE  IInv'
<1>1. ASSUME NEW d \in Ctx PROVE Shape(d)' /\ Numbering(d)'
  <2>1. CASE d = c
    BY <2>1
  <2>2. CASE d # c
    BY <2>2 DEF IInv, Same, Shape, Numbering
  <2> QED
    BY <2>1, <2>2
<1> QED
  BY <1>1 DEF IInv

LEMMA NewIInv == ASSUME IInv, NEW c \in Ctx, New(c) PROVE IInv'
<1> USE MaxKeygenAssumption, SchemeAssumption
    DEF IInv, TypeOK, New, Return, Goto, Change, Idle, Opened, EarlyErrors
<1>1. TypeOK'
  <2>1. pc' \in [Ctx -> Points]
    BY DEF Points
  <2>2. live' \in [Ctx -> SUBSET Groups]
    BY DEF Groups
  <2>3. /\ hasKey' \in [Ctx -> BOOLEAN]
        /\ key' \in [Ctx -> 0 .. MaxKeygen]
        /\ calls' \in [Ctx -> 0 .. MaxKeygen]
    OBVIOUS
  <2>4. ret' \in [Ctx -> [status : Status \cup {"none"}, key : 0 .. MaxKeygen]]
    BY DEF Status
  <2>5. faults' \subseteq {"bad_free", "bad_read", "leak"}
    OBVIOUS
  <2> QED
    BY <2>1, <2>2, <2>3, <2>4, <2>5
<1>2. MemorySafe'
  BY DEF MemorySafe, Shape, Numbering, Groups
<1>3. Shape(c)'
  BY DEF Shape, Numbering, Groups
<1>4. Numbering(c)'
  BY DEF Shape, Numbering, Groups
<1>5. \A d \in Ctx \ {c} : Same(d)
  BY DEF Same
<1> QED
  BY <1>1, <1>2, <1>3, <1>4, <1>5, StepIInv DEF IInv

LEMMA SetupIInv == ASSUME IInv, NEW c \in Ctx, Setup(c) PROVE IInv'
<1> USE MaxKeygenAssumption, SchemeAssumption
    DEF IInv, TypeOK, Setup, Return, Goto, Change, LateErrors
<1>1. TypeOK'
  <2>1. pc' \in [Ctx -> Points]
    BY DEF Points
  <2>2. live' \in [Ctx -> SUBSET Groups]
    BY DEF Groups
  <2>3. /\ hasKey' \in [Ctx -> BOOLEAN]
        /\ key' \in [Ctx -> 0 .. MaxKeygen]
        /\ calls' \in [Ctx -> 0 .. MaxKeygen]
    OBVIOUS
  <2>4. ret' \in [Ctx -> [status : Status \cup {"none"}, key : 0 .. MaxKeygen]]
    <3>1. \/ UNCHANGED ret
          \/ \E s \in Status, k \in 0 .. MaxKeygen :
               ret' = [ret EXCEPT ![c] = [status |-> s, key |-> k]]
      BY DEF Status
    <3> QED
      BY <3>1
  <2>5. faults' \subseteq {"bad_free", "bad_read", "leak"}
    OBVIOUS
  <2> QED
    BY <2>1, <2>2, <2>3, <2>4, <2>5
<1>2. MemorySafe'
  BY DEF MemorySafe, Shape, Numbering, Groups
<1>3. Shape(c)'
  BY DEF Shape, Numbering, Groups
<1>4. Numbering(c)'
  BY DEF Shape, Numbering, Groups
<1>5. \A d \in Ctx \ {c} : Same(d)
  BY DEF Same
<1> QED
  BY <1>1, <1>2, <1>3, <1>4, <1>5, StepIInv DEF IInv

LEMMA FreeIInv == ASSUME IInv, NEW c \in Ctx, Free(c) PROVE IInv'
<1> USE MaxKeygenAssumption, SchemeAssumption
    DEF IInv, TypeOK, Free, Return, Goto, Idle, Opened
<1>1. TypeOK'
  BY DEF Groups, Points, Status, Shape, Numbering, MemorySafe
<1>2. MemorySafe'
  BY DEF MemorySafe, Shape, Numbering, Groups
<1>3. Shape(c)'
  BY DEF Shape, Numbering, Groups
<1>4. Numbering(c)'
  BY DEF Shape, Numbering, Groups
<1>5. \A d \in Ctx \ {c} : Same(d)
  BY DEF Same
<1> QED
  BY <1>1, <1>2, <1>3, <1>4, <1>5, StepIInv DEF IInv

LEMMA KeygenIInv == ASSUME IInv, NEW c \in Ctx, Keygen(c) PROVE IInv'
<1> USE MaxKeygenAssumption, SchemeAssumption
    DEF IInv, TypeOK, Keygen, Goto, Change, Idle, Opened
<1>1. hasKey[c] \in BOOLEAN /\ calls[c] + 1 \in 0 .. MaxKeygen
  OBVIOUS
<1>2. CASE hasKey[c]
  <2>1. /\ live' = [live EXCEPT ![c] = (@ \ {"keys"}) \cup {}]
        /\ hasKey' = [hasKey EXCEPT ![c] = FALSE]
        /\ key' = [key EXCEPT ![c] = 0]
    BY <1>2
  <2>2. live[c] = {"ctx", "pp", "keys"}
    BY <1>2 DEF Shape, Numbering
  <2>3. live'[c] = {"ctx", "pp"}
    BY <2>1, <2>2
  <2>4. TypeOK' /\ MemorySafe'
    BY <1>1, <1>2, <2>1, <2>2 DEF MemorySafe, Points, Groups
  <2>5. Shape(c)' /\ Numbering(c)'
    BY <1>1, <2>1, <2>3 DEF Shape, Numbering
  <2> QED
    BY <2>1, <2>4, <2>5, StepIInv DEF Same
<1>3. CASE ~hasKey[c]
  <2>1. UNCHANGED <<live, faults, hasKey, key>>
    BY <1>3
  <2>2. live[c] = {"ctx", "pp"}
    BY <1>3 DEF Shape
  <2>3. TypeOK' /\ MemorySafe'
    BY <1>1, <2>1 DEF MemorySafe, Points
  <2>4. Shape(c)' /\ Numbering(c)'
    BY <1>1, <1>3, <2>1, <2>2 DEF Shape, Numbering
  <2> QED
    BY <2>1, <2>3, <2>4, StepIInv DEF Same
<1> QED
  BY <1>1, <1>2, <1>3

LEMMA SeedIInv == ASSUME IInv, NEW c \in Ctx, Seed(c) PROVE IInv'
<1> USE MaxKeygenAssumption, SchemeAssumption
    DEF IInv, TypeOK, Seed, Return, Goto, Change
<1>1. TypeOK'
  <2>1. pc' \in [Ctx -> Points]
    BY DEF Points
  <2>2. live' \in [Ctx -> SUBSET Groups]
    BY DEF Groups
  <2>3. /\ hasKey' \in [Ctx -> BOOLEAN]
        /\ key' \in [Ctx -> 0 .. MaxKeygen]
        /\ calls' \in [Ctx -> 0 .. MaxKeygen]
    OBVIOUS
  <2>4. ret' \in [Ctx -> [status : Status \cup {"none"}, key : 0 .. MaxKeygen]]
    BY DEF Status
  <2>5. faults' \subseteq {"bad_free", "bad_read", "leak"}
    OBVIOUS
  <2> QED
    BY <2>1, <2>2, <2>3, <2>4, <2>5
<1>2. MemorySafe'
  BY DEF MemorySafe, Shape, Numbering, Groups
<1>3. Shape(c)'
  BY DEF Shape, Numbering, Groups
<1>4. Numbering(c)'
  BY DEF Shape, Numbering, Groups
<1>5. \A d \in Ctx \ {c} : Same(d)
  BY DEF Same
<1> QED
  BY <1>1, <1>2, <1>3, <1>4, <1>5, StepIInv DEF IInv

LEMMA DrawScalarIInv == ASSUME IInv, NEW c \in Ctx, DrawScalar(c) PROVE IInv'
<1> USE MaxKeygenAssumption, SchemeAssumption
    DEF IInv, TypeOK, DrawScalar, Publish, Return, Goto, Change
<1>1. TypeOK'
  <2>1. pc' \in [Ctx -> Points]
    BY DEF Points
  <2>2. live' \in [Ctx -> SUBSET Groups]
    BY DEF Groups
  <2>3. /\ hasKey' \in [Ctx -> BOOLEAN]
        /\ key' \in [Ctx -> 0 .. MaxKeygen]
        /\ calls' \in [Ctx -> 0 .. MaxKeygen]
    OBVIOUS
  <2>4. ret' \in [Ctx -> [status : Status \cup {"none"}, key : 0 .. MaxKeygen]]
    BY DEF Status
  <2>5. faults' \subseteq {"bad_free", "bad_read", "leak"}
    OBVIOUS
  <2> QED
    BY <2>1, <2>2, <2>3, <2>4, <2>5
<1>2. MemorySafe'
  BY DEF MemorySafe, Shape, Numbering, Groups
<1>3. Shape(c)'
  BY DEF Shape, Numbering, Groups
<1>4. Numbering(c)'
  <2>1. calls[c] # 0 /\ live[c] = Groups
    BY DEF Shape, Numbering
  <2>2. "ctx" \in live'[c]
    BY <2>1 DEF Groups
  <2>3. pc'[c] = "idle" /\ hasKey'[c] = TRUE
    OBVIOUS
  <2>4. key'[c] = calls[c] /\ calls'[c] = calls[c]
    OBVIOUS
  <2> QED
    BY <2>1, <2>2, <2>3, <2>4 DEF Numbering
<1>5. \A d \in Ctx \ {c} : Same(d)
  BY DEF Same
<1> QED
  BY <1>1, <1>2, <1>3, <1>4, <1>5, StepIInv DEF IInv

LEMMA DrawPIInv == ASSUME IInv, NEW c \in Ctx, DrawP(c) PROVE IInv'
<1> USE MaxKeygenAssumption, SchemeAssumption
    DEF IInv, TypeOK, DrawP, Stay, Abandon, Return, Goto, Change
<1>1. TypeOK'
  <2>1. pc' \in [Ctx -> Points]
    BY DEF Points
  <2>2. live' \in [Ctx -> SUBSET Groups]
    BY DEF Groups
  <2>3. /\ hasKey' \in [Ctx -> BOOLEAN]
        /\ key' \in [Ctx -> 0 .. MaxKeygen]
        /\ calls' \in [Ctx -> 0 .. MaxKeygen]
    OBVIOUS
  <2>4. ret' \in [Ctx -> [status : Status \cup {"none"}, key : 0 .. MaxKeygen]]
    BY DEF Status
  <2>5. faults' \subseteq {"bad_free", "bad_read", "leak"}
    OBVIOUS
  <2> QED
    BY <2>1, <2>2, <2>3, <2>4, <2>5
<1>2. MemorySafe'
  BY DEF MemorySafe, Shape, Numbering, Groups
<1>3. Shape(c)'
  BY DEF Shape, Numbering, Groups
<1>4. Numbering(c)'
  <2>1. ~hasKey[c] /\ key[c] = 0 /\ calls[c] # 0 /\ live[c] = Groups
    BY DEF Shape, Numbering
  <2>2. "ctx" \in live'[c]
    BY <2>1 DEF Groups
  <2>3. pc'[c] # "setup"
    OBVIOUS
  <2>4. UNCHANGED <<hasKey, key, calls>>
    OBVIOUS
  <2> QED
    BY <2>1, <2>2, <2>3, <2>4 DEF Numbering
<1>5. \A d \in Ctx \ {c} : Same(d)
  BY DEF Same
<1> QED
  BY <1>1, <1>2, <1>3, <1>4, <1>5, StepIInv DEF IInv

LEMMA DrawQIInv == ASSUME IInv, NEW c \in Ctx, DrawQ(c) PROVE IInv'
<1> USE MaxKeygenAssumption, SchemeAssumption
    DEF IInv, TypeOK, DrawQ, Stay, Abandon, Return, Goto, Change
<1>1. TypeOK'
  <2>1. pc' \in [Ctx -> Points]
    BY DEF Points
  <2>2. live' \in [Ctx -> SUBSET Groups]
    BY DEF Groups
  <2>3. /\ hasKey' \in [Ctx -> BOOLEAN]
        /\ key' \in [Ctx -> 0 .. MaxKeygen]
        /\ calls' \in [Ctx -> 0 .. MaxKeygen]
    OBVIOUS
  <2>4. ret' \in [Ctx -> [status : Status \cup {"none"}, key : 0 .. MaxKeygen]]
    BY DEF Status
  <2>5. faults' \subseteq {"bad_free", "bad_read", "leak"}
    OBVIOUS
  <2> QED
    BY <2>1, <2>2, <2>3, <2>4, <2>5
<1>2. MemorySafe'
  BY DEF MemorySafe, Shape, Numbering, Groups
<1>3. Shape(c)'
  BY DEF Shape, Numbering, Groups
<1>4. Numbering(c)'
  <2>1. ~hasKey[c] /\ key[c] = 0 /\ calls[c] # 0 /\ live[c] = Groups
    BY DEF Shape, Numbering
  <2>2. "ctx" \in live'[c]
    BY <2>1 DEF Groups
  <2>3. pc'[c] # "setup"
    OBVIOUS
  <2>4. UNCHANGED <<hasKey, key, calls>>
    OBVIOUS
  <2> QED
    BY <2>1, <2>2, <2>3, <2>4 DEF Numbering
<1>5. \A d \in Ctx \ {c} : Same(d)
  BY DEF Same
<1> QED
  BY <1>1, <1>2, <1>3, <1>4, <1>5, StepIInv DEF IInv

LEMMA RejectIInv == ASSUME IInv, NEW c \in Ctx, Reject(c) PROVE IInv'
<1> USE MaxKeygenAssumption, SchemeAssumption
    DEF IInv, TypeOK, Reject, Stay, Goto
<1>1. TypeOK'
  <2>1. pc' \in [Ctx -> Points]
    BY DEF Points
  <2>2. live' \in [Ctx -> SUBSET Groups]
    BY DEF Groups
  <2>3. /\ hasKey' \in [Ctx -> BOOLEAN]
        /\ key' \in [Ctx -> 0 .. MaxKeygen]
        /\ calls' \in [Ctx -> 0 .. MaxKeygen]
    OBVIOUS
  <2>4. ret' \in [Ctx -> [status : Status \cup {"none"}, key : 0 .. MaxKeygen]]
    BY DEF Status
  <2>5. faults' \subseteq {"bad_free", "bad_read", "leak"}
    OBVIOUS
  <2> QED
    BY <2>1, <2>2, <2>3, <2>4, <2>5
<1>2. MemorySafe'
  BY DEF MemorySafe, Shape, Numbering, Groups
<1>3. Shape(c)'
  BY DEF Shape, Numbering, Groups
<1>4. Numbering(c)'
  BY DEF Shape, Numbering, Groups
<1>5. \A d \in Ctx \ {c} : Same(d)
  BY DEF Same
<1> QED
  BY <1>1, <1>2, <1>3, <1>4, <1>5, StepIInv DEF IInv

LEMMA AcceptIInv == ASSUME IInv, NEW c \in Ctx, Accept(c) PROVE IInv'
<1> USE MaxKeygenAssumption, SchemeAssumption
    DEF IInv, TypeOK, Accept, Publish, Return, Goto, Change
<1>1. TypeOK'
  <2>1. pc' \in [Ctx -> Points]
    BY DEF Points
  <2>2. live' \in [Ctx -> SUBSET Groups]
    BY DEF Groups
  <2>3. /\ hasKey' \in [Ctx -> BOOLEAN]
        /\ key' \in [Ctx -> 0 .. MaxKeygen]
        /\ calls' \in [Ctx -> 0 .. MaxKeygen]
    OBVIOUS
  <2>4. ret' \in [Ctx -> [status : Status \cup {"none"}, key : 0 .. MaxKeygen]]
    BY DEF Status
  <2>5. faults' \subseteq {"bad_free", "bad_read", "leak"}
    OBVIOUS
  <2> QED
    BY <2>1, <2>2, <2>3, <2>4, <2>5
<1>2. MemorySafe'
  BY DEF MemorySafe, Shape, Numbering, Groups
<1>3. Shape(c)'
  BY DEF Shape, Numbering, Groups
<1>4. Numbering(c)'
  <2>1. calls[c] # 0 /\ live[c] = Groups
    BY DEF Shape, Numbering
  <2>2. "ctx" \in live'[c]
    BY <2>1 DEF Groups
  <2>3. pc'[c] = "idle" /\ hasKey'[c] = TRUE
    OBVIOUS
  <2>4. key'[c] = calls[c] /\ calls'[c] = calls[c]
    OBVIOUS
  <2> QED
    BY <2>1, <2>2, <2>3, <2>4 DEF Numbering
<1>5. \A d \in Ctx \ {c} : Same(d)
  BY DEF Same
<1> QED
  BY <1>1, <1>2, <1>3, <1>4, <1>5, StepIInv DEF IInv

LEMMA UseIInv == ASSUME IInv, NEW c \in Ctx, Use(c) PROVE IInv'
<1> USE MaxKeygenAssumption, SchemeAssumption
    DEF IInv, TypeOK, Use, Read, Return, Goto, Idle, Opened
<1>1. TypeOK'
  <2>1. pc' \in [Ctx -> Points]
    BY DEF Points
  <2>2. live' \in [Ctx -> SUBSET Groups]
    BY DEF Groups
  <2>3. /\ hasKey' \in [Ctx -> BOOLEAN]
        /\ key' \in [Ctx -> 0 .. MaxKeygen]
        /\ calls' \in [Ctx -> 0 .. MaxKeygen]
    OBVIOUS
  <2>4. ret' \in [Ctx -> [status : Status \cup {"none"}, key : 0 .. MaxKeygen]]
    <3>1. \/ UNCHANGED ret
          \/ \E s \in Status, k \in 0 .. MaxKeygen :
               ret' = [ret EXCEPT ![c] = [status |-> s, key |-> k]]
      BY DEF Status
    <3> QED
      BY <3>1
  <2>5. faults' \subseteq {"bad_free", "bad_read", "leak"}
    OBVIOUS
  <2> QED
    BY <2>1, <2>2, <2>3, <2>4, <2>5
<1>2. MemorySafe'
  BY DEF MemorySafe, Shape, Numbering, Groups
<1>3. Shape(c)'
  BY DEF Shape, Numbering, Groups
<1>4. Numbering(c)'
  BY DEF Shape, Numbering, Groups
<1>5. \A d \in Ctx \ {c} : Same(d)
  BY DEF Same
<1> QED
  BY <1>1, <1>2, <1>3, <1>4, <1>5, StepIInv DEF IInv

LEMMA GetParamsIInv == ASSUME IInv, NEW c \in Ctx, GetParams(c) PROVE IInv'
<1> USE MaxKeygenAssumption, SchemeAssumption
    DEF IInv, TypeOK, GetParams, Read, Return, Goto, Idle, Opened
<1>1. TypeOK'
  BY DEF Groups, Points, Status, Shape, Numbering, MemorySafe
<1>2. MemorySafe'
  BY DEF MemorySafe, Shape, Numbering, Groups
<1>3. Shape(c)'
  BY DEF Shape, Numbering, Groups
<1>4. Numbering(c)'
  BY DEF Shape, Numbering, Groups
<1>5. \A d \in Ctx \ {c} : Same(d)
  BY DEF Same
<1> QED
  BY <1>1, <1>2, <1>3, <1>4, <1>5, StepIInv DEF IInv

LEMMA NextIInv == IInv /\ [Next]_vars => IInv'
<1> SUFFICES ASSUME IInv, [Next]_vars PROVE IInv'
  OBVIOUS
<1>1. CASE UNCHANGED vars
  BY <1>1 DEF vars, IInv, TypeOK, MemorySafe, Shape, Numbering
<1>2. CASE Next
  BY <1>2, NewIInv, SetupIInv, FreeIInv, KeygenIInv, SeedIInv, DrawScalarIInv,
     DrawPIInv, DrawQIInv, RejectIInv, AcceptIInv, UseIInv, GetParamsIInv DEF Next
<1> QED
  BY <1>1, <1>2

(* The invariant holds throughout. *)
THEOREM Invariance == Spec => []IInv
  BY InitIInv, NextIInv, PTL DEF Spec

(* Every variable keeps its type. *)
THEOREM TypeCorrect == Spec => []TypeOK
<1>1. IInv => TypeOK
  BY DEF IInv
<1> QED
  BY <1>1, Invariance, PTL

(* No call of any of the five APIs misuses memory, for any number of contexts
   and of keygen calls. *)
THEOREM Safety == Spec => []MemorySafe
<1>1. IInv => MemorySafe
  BY DEF IInv
<1> QED
  BY <1>1, Invariance, PTL

(* Between calls a context owns its structure, its parameters and, when has_key
   is set, its key pair: nothing leaks across calls. *)
THEOREM Ownership == Spec => []NothingLeftBehind
<1>1. IInv => NothingLeftBehind
  BY DEF IInv, Shape, NothingLeftBehind, Idle
<1> QED
  BY <1>1, Invariance, PTL

(* A usable key is always the one of the latest keygen call. *)
THEOREM Freshness == Spec => []LatestKeyOnly
<1>1. IInv => LatestKeyOnly
  BY DEF IInv, Numbering, LatestKeyOnly, Idle
<1> QED
  BY <1>1, Invariance, PTL

-----------------------------------------------------------------------------
(* The contexts implement the vaults. *)

LEMMA InitRefines == Init => Vaults!Init
  BY DEF Init, Vaults!Init, Vaults!Answer, Vaults!NoKey, vaultOf, answerOf,
     StateOf, AnswerOf, Opened, Idle

(* What a step of c does to the vaults, seen from the state of c alone. *)
LEMMA VaultStep ==
  ASSUME IInv, TypeOK', NEW c \in Ctx, \A d \in Ctx \ {c} : Same(d)
  PROVE  vaultOf' = [vaultOf EXCEPT ![c] = [state |-> StateOf(c)', asked |-> calls'[c]]]
<1>1. ASSUME NEW d \in Ctx \ {c}
      PROVE  vaultOf'[d] = vaultOf[d]
  <2>1. Same(d)
    OBVIOUS
  <2>2. StateOf(d)' = StateOf(d) /\ calls'[d] = calls[d]
    BY <2>1 DEF Same, StateOf, Opened, Idle
  <2> QED
    BY <2>2 DEF vaultOf
<1>2. vaultOf'[c] = [state |-> StateOf(c)', asked |-> calls'[c]]
  BY DEF vaultOf
<1> DEFINE v == [state |-> StateOf(c)', asked |-> calls'[c]]
<1>3. /\ vaultOf' = [d \in Ctx |-> vaultOf'[d]]
      /\ vaultOf = [d \in Ctx |-> vaultOf[d]]
  BY DEF vaultOf
<1> HIDE DEF v
<1>4. vaultOf'[c] = v
  BY <1>2 DEF v
<1>5. vaultOf' = [vaultOf EXCEPT ![c] = v]
  BY <1>1, <1>3, <1>4
<1> QED
  BY <1>5 DEF v

LEMMA AnswerStep ==
  ASSUME NEW c \in Ctx, NEW s, NEW k, IInv, Return(c, s, k)
  PROVE  answerOf' = [answerOf EXCEPT ![c] = [status |-> AnswerOf(s), key |-> k]]
  BY DEF answerOf, Return, IInv, TypeOK

LEMMA KeygenRefines == ASSUME IInv, NEW c \in Ctx, Keygen(c) PROVE Vaults!Ask(c)
<1>1. IInv'
  BY KeygenIInv
<1>2. \A d \in Ctx \ {c} : Same(d)
  BY DEF Keygen, Goto, Change, Same, IInv, TypeOK
<1>3. StateOf(c)' = "asking"
  BY <1>1 DEF Keygen, Goto, Idle, Opened, IInv, TypeOK, Shape, StateOf
<1>4. vaultOf[c].state \in {"empty", "keyed"} /\ vaultOf[c].asked < MaxKeygen
  BY DEF Keygen, vaultOf, StateOf, Idle, Opened
<1>5. vaultOf' = [vaultOf EXCEPT ![c] = [state |-> "asking", asked |-> @.asked + 1]]
  BY <1>1, <1>2, <1>3, VaultStep DEF Keygen, vaultOf, IInv, TypeOK
<1>6. UNCHANGED answerOf
  BY DEF Keygen, answerOf
<1> QED
  BY <1>4, <1>5, <1>6 DEF Vaults!Ask

LEMMA NewRefines ==
  ASSUME IInv, NEW c \in Ctx, New(c)
  PROVE  Vaults!Open(c) \/ UNCHANGED <<vaultOf, answerOf>>
<1> USE DEF New, Idle, Opened
<1>1. IInv'
  BY NewIInv
<1>2. \A d \in Ctx \ {c} : Same(d)
  BY DEF Return, Goto, Change, Same, IInv, TypeOK
<1>3. vaultOf[c].state = "closed"
  BY DEF vaultOf, StateOf
<1>4. StateOf(c)' = "closed"
  BY <1>1 DEF Return, Goto, Change, IInv, TypeOK, StateOf
<1>5. UNCHANGED vaultOf
  BY <1>1, <1>2, <1>4, VaultStep DEF vaultOf, StateOf, IInv
<1>6. CASE \E e \in EarlyErrors(SchemeOf[c]) \cup {"CC_ERR_NOMEM"} : Return(c, e, 0)
  <2>1. PICK e : e \in {"CC_ERR_INVALID_ARG", "CC_ERR_UNSUPPORTED", "CC_ERR_NOMEM"} /\ Return(c, e, 0)
    BY <1>6 DEF EarlyErrors
  <2>2. answerOf' = [answerOf EXCEPT ![c] = [status |-> "error", key |-> 0]]
    BY <2>1, AnswerStep DEF AnswerOf
  <2> QED
    BY <1>3, <1>5, <2>2 DEF Vaults!Open, Vaults!Answer, Vaults!NoKey
<1>7. CASE UNCHANGED ret
  BY <1>5, <1>7 DEF answerOf
<1> QED
  BY <1>6, <1>7

LEMMA SetupRefines == ASSUME IInv, NEW c \in Ctx, Setup(c) PROVE Vaults!Open(c)
<1> USE DEF Setup
<1>1. IInv'
  BY SetupIInv
<1>2. \A d \in Ctx \ {c} : Same(d)
  BY DEF Return, Goto, Change, Same, IInv, TypeOK
<1>3. vaultOf[c] = [state |-> "closed", asked |-> 0] /\ calls'[c] = 0
  BY DEF vaultOf, StateOf, IInv, Numbering
<1>4. CASE Return(c, "CC_OK", 0) /\ Change(c, {}, {"pp"})
  <2>1. StateOf(c)' = "empty"
    BY <1>4 DEF Return, Goto, Change, StateOf, Opened, Idle, IInv, TypeOK, Shape, Numbering
  <2>2. vaultOf' = [vaultOf EXCEPT ![c] = [state |-> "empty", asked |-> 0]]
    BY <1>1, <1>2, <1>3, <2>1, VaultStep DEF IInv
  <2>3. answerOf' = [answerOf EXCEPT ![c] = [status |-> "ok", key |-> 0]]
    BY <1>4, AnswerStep DEF AnswerOf
  <2> QED
    BY <1>3, <2>2, <2>3 DEF Vaults!Open, Vaults!Answer, Vaults!NoKey
<1>5. CASE Return(c, "CC_ERR_INVALID_ARG", 0) /\ Change(c, {"ctx"}, {})
  <2>1. StateOf(c)' = "closed"
    BY <1>5 DEF Return, Goto, Change, StateOf, Opened, IInv, TypeOK
  <2>2. vaultOf' = [vaultOf EXCEPT ![c] = [state |-> "closed", asked |-> 0]]
    BY <1>1, <1>2, <1>3, <2>1, VaultStep DEF IInv
  <2>3. UNCHANGED vaultOf
    BY <1>3, <2>2 DEF vaultOf
  <2>4. answerOf' = [answerOf EXCEPT ![c] = [status |-> "error", key |-> 0]]
    BY <1>5, AnswerStep DEF AnswerOf
  <2> QED
    BY <1>3, <2>3, <2>4 DEF Vaults!Open, Vaults!Answer, Vaults!NoKey
<1> QED
  BY <1>4, <1>5 DEF LateErrors

LEMMA FreeRefines == ASSUME IInv, NEW c \in Ctx, Free(c) PROVE Vaults!Close(c)
<1> USE DEF Free
<1>1. IInv'
  BY FreeIInv
<1>2. \A d \in Ctx \ {c} : Same(d)
  BY DEF Return, Goto, Same, IInv, TypeOK
<1>3. vaultOf[c].state \in {"empty", "keyed"}
  BY DEF vaultOf, StateOf, Idle, Opened
<1>4. StateOf(c)' = "closed" /\ calls'[c] = 0
  BY DEF StateOf, Opened, IInv, TypeOK
<1>5. vaultOf' = [vaultOf EXCEPT ![c] = [state |-> "closed", asked |-> 0]]
  BY <1>1, <1>2, <1>4, VaultStep DEF IInv
<1>6. answerOf' = [answerOf EXCEPT ![c] = [status |-> "ok", key |-> 0]]
  BY AnswerStep DEF AnswerOf
<1> QED
  BY <1>3, <1>5, <1>6 DEF Vaults!Close, Vaults!Answer, Vaults!NoKey

(* A keygen call that ends without a pair, whichever error ends it. *)
LEMMA EmptyHanded ==
  ASSUME IInv, IInv', NEW c \in Ctx, \A d \in Ctx \ {c} : Same(d),
         pc[c] \in {"seed", "drawP", "drawQ"}, UNCHANGED <<hasKey, calls>>,
         Return(c, "CC_ERR_RNG", 0) \/ Return(c, "CC_ERR_NOMEM", 0),
         "ctx" \in live'[c]
  PROVE  Vaults!Obtain(c)
<1>1. vaultOf[c] = [state |-> "asking", asked |-> calls[c]]
  BY DEF vaultOf, StateOf, Idle, Opened, IInv, Shape, Groups
<1>2. StateOf(c)' = "empty"
  BY DEF StateOf, Opened, Idle, Return, Goto, IInv, TypeOK, Numbering
<1>3. vaultOf' = [vaultOf EXCEPT ![c] = [state |-> "empty", asked |-> calls[c]]]
  BY <1>2, VaultStep DEF IInv
<1>4. answerOf' = [answerOf EXCEPT ![c] = [status |-> "error", key |-> 0]]
  BY AnswerStep DEF AnswerOf
<1>5. vaultOf' = [vaultOf EXCEPT ![c].state = "empty"]
  BY <1>1, <1>3 DEF vaultOf
<1> QED
  BY <1>1, <1>4, <1>5 DEF Vaults!Obtain, Vaults!Answer, Vaults!NoKey

(* A keygen call that publishes a pair. *)
LEMMA FullHanded ==
  ASSUME IInv, IInv', NEW c \in Ctx, \A d \in Ctx \ {c} : Same(d),
         pc[c] \in {"drawP", "check"}, Publish(c), UNCHANGED calls
  PROVE  Vaults!Obtain(c)
<1>1. vaultOf[c] = [state |-> "asking", asked |-> calls[c]]
  BY DEF vaultOf, StateOf, Idle, Opened, IInv, Shape, Groups
<1>2. hasKey'[c] /\ pc'[c] = "idle" /\ "ctx" \in live'[c]
  BY DEF Publish, Return, Goto, Change, IInv, TypeOK, Shape, Groups
<1>3. StateOf(c)' = "keyed"
  BY <1>2 DEF StateOf, Opened, Idle
<1>4. vaultOf' = [vaultOf EXCEPT ![c] = [state |-> "keyed", asked |-> calls[c]]]
  BY <1>3, VaultStep DEF IInv
<1>5. answerOf' = [answerOf EXCEPT ![c] = [status |-> "ok", key |-> calls[c]]]
  BY AnswerStep DEF AnswerOf, Publish
<1>6. vaultOf' = [vaultOf EXCEPT ![c].state = "keyed"]
  BY <1>1, <1>4 DEF vaultOf
<1> QED
  BY <1>1, <1>5, <1>6 DEF Vaults!Obtain, Vaults!Answer

(* A step inside keygen that neither ends it nor publishes. *)
LEMMA StillAsking ==
  ASSUME IInv, IInv', NEW c \in Ctx, \A d \in Ctx \ {c} : Same(d),
         pc[c] \in {"seed", "drawP", "drawQ", "check"},
         pc'[c] \in {"drawP", "drawQ", "check"}, UNCHANGED <<calls, ret>>
  PROVE  UNCHANGED <<vaultOf, answerOf>>
<1>1. StateOf(c) = "asking" /\ StateOf(c)' = "asking"
  BY DEF StateOf, Opened, Idle, IInv, Shape, Groups
<1> QED
  BY <1>1, VaultStep DEF vaultOf, answerOf, IInv

LEMMA SeedRefines ==
  ASSUME IInv, NEW c \in Ctx, Seed(c)
  PROVE  Vaults!Obtain(c) \/ UNCHANGED <<vaultOf, answerOf>>
<1>1. IInv' /\ \A d \in Ctx \ {c} : Same(d)
  BY SeedIInv DEF Seed, Return, Goto, Change, Same, IInv, TypeOK
<1>2. CASE Return(c, "CC_ERR_RNG", 0) /\ UNCHANGED live
  BY <1>1, <1>2, EmptyHanded DEF Seed, IInv, Shape
<1>3. CASE Goto(c, "drawP") /\ UNCHANGED ret
  BY <1>1, <1>3, StillAsking DEF Seed, Goto, IInv, TypeOK
<1> QED
  BY <1>2, <1>3 DEF Seed

LEMMA DrawRefines ==
  ASSUME IInv, NEW c \in Ctx, DrawP(c) \/ DrawQ(c) \/ Reject(c)
  PROVE  Vaults!Obtain(c) \/ UNCHANGED <<vaultOf, answerOf>>
<1>1. IInv'
  BY DrawPIInv, DrawQIInv, RejectIInv
<1>2. \A d \in Ctx \ {c} : Same(d)
  BY DEF DrawP, DrawQ, Reject, Stay, Abandon, Return, Goto, Change, Same, IInv, TypeOK
<1>3. CASE Abandon(c) /\ pc[c] \in {"drawP", "drawQ"} /\ UNCHANGED calls
  <2>1. "ctx" \in live'[c]
    BY <1>3 DEF Abandon, Change, IInv, TypeOK, Shape, Groups
  <2> QED
    BY <1>1, <1>2, <1>3, <2>1, EmptyHanded DEF Abandon
<1>4. ASSUME NEW p \in {"drawP", "drawQ", "check"}, Stay(c, p), UNCHANGED calls,
             pc[c] \in {"drawP", "drawQ", "check"}
      PROVE  UNCHANGED <<vaultOf, answerOf>>
  BY <1>1, <1>2, <1>4, StillAsking DEF Stay, Goto, IInv, TypeOK
<1> QED
  BY <1>3, <1>4 DEF DrawP, DrawQ, Reject

LEMMA PublishRefines ==
  ASSUME IInv, NEW c \in Ctx, DrawScalar(c) \/ Accept(c)
  PROVE  Vaults!Obtain(c)
<1>1. IInv'
  BY DrawScalarIInv, AcceptIInv
<1>2. \A d \in Ctx \ {c} : Same(d)
  BY DEF DrawScalar, Accept, Publish, Return, Goto, Change, Same, IInv, TypeOK
<1> QED
  BY <1>1, <1>2, FullHanded DEF DrawScalar, Accept

LEMMA AskingIsQuiet ==
  ASSUME IInv, IInv', NEW c \in Ctx, Idle(c), Opened(c), NEW s, NEW k,
         Return(c, s, k), UNCHANGED <<live, hasKey, calls>>
  PROVE  UNCHANGED vaultOf
  BY DEF vaultOf, StateOf, Idle, Opened, Return, Goto, IInv, TypeOK

LEMMA UseRefines == ASSUME IInv, NEW c \in Ctx, Use(c) PROVE Vaults!Use(c)
<1>1. IInv'
  BY UseIInv
<1>2. PICK s, k : Return(c, s, k)
  BY DEF Use
<1>3. UNCHANGED vaultOf
  BY <1>1, <1>2, AskingIsQuiet DEF Use
<1>4. CASE hasKey[c]
  <2>1. vaultOf[c] = [state |-> "keyed", asked |-> calls[c]] /\ key[c] = calls[c]
    BY <1>4 DEF Use, vaultOf, StateOf, Idle, Opened, IInv, Numbering
  <2>2. \/ Return(c, "CC_OK", calls[c])
        \/ Return(c, "CC_ERR_RNG", 0)
        \/ Return(c, "CC_ERR_INVALID_INPUT", 0)
    BY <1>4, <2>1 DEF Use
  <2>3. \/ answerOf' = [answerOf EXCEPT ![c] = [status |-> "ok", key |-> calls[c]]]
        \/ answerOf' = [answerOf EXCEPT ![c] = [status |-> "error", key |-> 0]]
    BY <2>2, AnswerStep DEF AnswerOf
  <2> QED
    BY <1>3, <2>1, <2>3 DEF Vaults!Use, Vaults!Answer, Vaults!NoKey
<1>5. CASE ~hasKey[c]
  <2>1. vaultOf[c].state = "empty"
    BY <1>5 DEF Use, vaultOf, StateOf, Idle, Opened, IInv, Shape
  <2>2. Return(c, "CC_ERR_NO_KEY", 0)
    BY <1>5 DEF Use
  <2>3. answerOf' = [answerOf EXCEPT ![c] = [status |-> "no_key", key |-> 0]]
    BY <2>2, AnswerStep DEF AnswerOf
  <2> QED
    BY <1>3, <2>1, <2>3 DEF Vaults!Use, Vaults!Answer, Vaults!NoKey
<1> QED
  BY <1>4, <1>5

LEMMA GetParamsRefines == ASSUME IInv, NEW c \in Ctx, GetParams(c) PROVE Vaults!Look(c)
<1>1. IInv'
  BY GetParamsIInv
<1>2. UNCHANGED vaultOf
  BY <1>1, AskingIsQuiet DEF GetParams
<1>3. answerOf' = [answerOf EXCEPT ![c] = [status |-> "ok", key |-> 0]]
  BY AnswerStep DEF GetParams, AnswerOf
<1>4. vaultOf[c].state \in {"empty", "keyed"}
  BY DEF GetParams, vaultOf, StateOf, Idle, Opened
<1> QED
  BY <1>2, <1>3, <1>4 DEF Vaults!Look, Vaults!Answer, Vaults!NoKey

LEMMA NextRefines == IInv /\ [Next]_vars => [Vaults!Next]_(Vaults!vars)
<1> SUFFICES ASSUME IInv, [Next]_vars PROVE [Vaults!Next]_(Vaults!vars)
  OBVIOUS
<1>1. CASE UNCHANGED vars
  BY <1>1 DEF vars, Vaults!vars, vaultOf, answerOf, StateOf, Opened, Idle
<1>2. CASE Next
  BY <1>2, NewRefines, SetupRefines, FreeRefines, KeygenRefines, SeedRefines,
     DrawRefines, PublishRefines, UseRefines, GetParamsRefines
     DEF Next, Vaults!Next, Vaults!vars
<1> QED
  BY <1>1, <1>2

(* The contexts implement the vaults, for every number of contexts. *)
THEOREM Refinement == Spec => ImplementsVaults
  BY InitRefines, NextRefines, Invariance, PTL DEF Spec, ImplementsVaults, Vaults!Spec
=============================================================================
