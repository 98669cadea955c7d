------------------------------ MODULE KeyVault ------------------------------
(***************************************************************************)
(* What a client of the library may rely on when it holds key contexts     *)
(* (cc_rsa_t, cc_elgamal_t, cc_dsa_t, cc_ecelgamal_t, cc_ecdsa_t): each    *)
(* context is a vault holding at most one key pair.  Asking for a new pair *)
(* gives the old one up at once, whether or not a new one is obtained, and *)
(* an operation that succeeds used the pair of the latest request.         *)
(*                                                                         *)
(* Key pairs are named by the number of the request that produced them.    *)
(***************************************************************************)
EXTENDS Naturals

CONSTANTS Ctx, MaxKeygen

VARIABLES vault, answer

NoKey == 0

Answer(status, k) == [status |-> status, key |-> k]

Init == /\ vault = [c \in Ctx |-> [state |-> "closed", asked |-> 0]]
        /\ answer = [c \in Ctx |-> Answer("none", NoKey)]

(* A vault is opened empty, or not at all. *)
Open(c) ==
  /\ vault[c].state = "closed"
  /\ \/ /\ vault' = [vault EXCEPT ![c] = [state |-> "empty", asked |-> 0]]
        /\ answer' = [answer EXCEPT ![c] = Answer("ok", NoKey)]
     \/ /\ answer' = [answer EXCEPT ![c] = Answer("error", NoKey)]
        /\ UNCHANGED vault

Close(c) ==
  /\ vault[c].state \in {"empty", "keyed"}
  /\ vault' = [vault EXCEPT ![c] = [state |-> "closed", asked |-> 0]]
  /\ answer' = [answer EXCEPT ![c] = Answer("ok", NoKey)]

(* The old pair is gone as soon as a new one is asked for. *)
Ask(c) ==
  /\ vault[c].state \in {"empty", "keyed"}
  /\ vault[c].asked < MaxKeygen
  /\ vault' = [vault EXCEPT ![c] = [state |-> "asking", asked |-> @.asked + 1]]
  /\ UNCHANGED answer

Obtain(c) ==
  /\ vault[c].state = "asking"
  /\ \/ /\ vault' = [vault EXCEPT ![c].state = "keyed"]
        /\ answer' = [answer EXCEPT ![c] = Answer("ok", vault[c].asked)]
     \/ /\ vault' = [vault EXCEPT ![c].state = "empty"]
        /\ answer' = [answer EXCEPT ![c] = Answer("error", NoKey)]

(* Success names the pair of the latest request; without a pair there is   *)
(* no success.                                                             *)
Use(c) ==
  /\ \/ /\ vault[c].state = "keyed"
        /\ \E a \in {Answer("ok", vault[c].asked), Answer("error", NoKey)} :
             answer' = [answer EXCEPT ![c] = a]
     \/ /\ vault[c].state = "empty"
        /\ answer' = [answer EXCEPT ![c] = Answer("no_key", NoKey)]
  /\ UNCHANGED vault

(* Public parameters are answered with or without a pair. *)
Look(c) ==
  /\ vault[c].state \in {"empty", "keyed"}
  /\ answer' = [answer EXCEPT ![c] = Answer("ok", NoKey)]
  /\ UNCHANGED vault

Next == \E c \in Ctx : Open(c) \/ Close(c) \/ Ask(c) \/ Obtain(c)
                     \/ Use(c) \/ Look(c)

vars == <<vault, answer>>

Spec == Init /\ [][Next]_vars
=============================================================================
