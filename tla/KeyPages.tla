------------------------------ MODULE KeyPages ------------------------------
(***************************************************************************)
(* The pages of the calculator that hold a key: rsa.py, elgamal.py and     *)
(* ecelgamal.py, with one tab to encrypt and one to sign, dsa.py and       *)
(* ecdsa.py, which only sign (all under frontend/), and the Python objects *)
(* they hold (python/cryptocalc/asymmetric.py).                            *)
(*                                                                         *)
(* The attribute that names the object is rebound by keygen and by a       *)
(* change of tab; the texts of a key stay until they are written over.     *)
(* Keys are numbered in the order they are made; MaxKeys bounds them.      *)
(***************************************************************************)
EXTENDS Naturals, Sequences

CONSTANT MaxKeys

VARIABLES
  page,    \* the page
  tab,     \* selectedTab
  missing, \* the choices that were not made yet
  object,  \* what the attribute names
  keys,    \* history: of every key the tab it was made on, and whether keygen
           \* came to its end with it or to the dialog of an error
  text,    \* of each tab the key of each of its two fields, 0: none
  answer   \* of the last handler: its status and the key it used

vars == <<page, tab, missing, object, keys, text, answer>>

Tabbed == {"rsa", "elgamal", "ecelgamal"}
Pages == Tabbed \cup {"dsa", "ecdsa"}
Tabs == {0, 1}
Fields == {"public", "private"}

Choices(p) == CASE p = "rsa"     -> {"algo", "variant", "level"}
                [] p = "elgamal" -> {"level"}
                [] p = "dsa"     -> {"level", "hash"}
                [] OTHER         -> {"curve"}

(* The attribute does not exist, is None, or names an object without or     *)
(* with a key.                                                              *)
Object(state, key) == [state |-> state, key |-> key]
Answer(status, key) == [status |-> status, key |-> key]

Init == /\ page \in Pages
        /\ tab = 0
        /\ missing = Choices(page)
        /\ object = Object("missing", 0)
        /\ keys = <<>>
        /\ text = [t \in Tabs |-> [f \in Fields |-> 0]]
        /\ answer = Answer("none", 0)

(* toggleRsaAlgo, toggleSecurityLevel, toggleCurveType, ...: the choices    *)
(* belong to the page, not to the tab they were made on.                    *)
Choose(o) ==
  /\ missing' = missing \ {o}
  /\ answer' = Answer("none", 0)
  /\ UNCHANGED <<page, tab, object, keys, text>>

(* Faulty: the object stays when the tab is changed. *)
ToggleTabOnly ==
  /\ page \in Tabbed
  /\ tab' = 1 - tab
  /\ answer' = Answer("none", 0)
  /\ UNCHANGED <<page, missing, object, keys, text>>

(* toggleTab *)
ToggleTab ==
  /\ page \in Tabbed
  /\ tab' = 1 - tab
  /\ object' = Object("none", 0)
  /\ answer' = Answer("none", 0)
  /\ UNCHANGED <<page, missing, keys, text>>

(* keygen of a page, up to the key: the constructor may refuse the choices  *)
(* or fail, which leaves the attribute alone; the key generation may fail,  *)
(* which leaves the new object in it, without a key.  The texts stay.       *)
KeygenFails ==
  /\ \/ UNCHANGED object
     \/ missing = {} /\ object' = Object("empty", 0)
  /\ answer' = Answer("error", 0)
  /\ UNCHANGED <<keys, text>>

(* Past that line the object has its key, and every one that follows may    *)
(* raise: the numbers are read, then made into texts and shown one field    *)
(* after the other.  (The d of RSA at level 3 has more digits than newer    *)
(* Pythons make into a text, so there the private field is never shown.)    *)
KeygenMakes ==
  /\ missing = {} /\ Len(keys) < MaxKeys
  /\ \E shown \in {{}, {"public"}, Fields} :
       /\ keys' = Append(keys, [tab |-> tab, whole |-> shown = Fields])
       /\ text' = [text EXCEPT ![tab] = [f \in Fields |-> IF f \in shown THEN Len(keys') ELSE @[f]]]
       /\ answer' = Answer(IF shown = Fields THEN "ok" ELSE "error", 0)
  /\ object' = Object("keyed", Len(keys'))

Keygen == (KeygenFails \/ KeygenMakes) /\ UNCHANGED <<page, tab, missing>>

(* encrypt, decrypt, sign and verify: a button of the tab.  It breaks off   *)
(* before the call, for want of an object with a key or of a proper input;  *)
(* or the call on its key succeeds or fails, or its result cannot be shown. *)
Use ==
  /\ answer' \in {Answer("error", 0)}
                   \cup IF object.state = "keyed"
                        THEN {Answer(s, object.key) : s \in {"ok", "error"}} ELSE {}
  /\ UNCHANGED <<page, tab, missing, object, keys, text>>

Next == (\E o \in Choices(page) : Choose(o)) \/ ToggleTab \/ Keygen \/ Use

Spec == Init /\ [][Next]_vars

-----------------------------------------------------------------------------
(* Whatever a button does, it does with the newest key, one that was made   *)
(* on its own tab; and unless the keygen that made it ended in a dialog,    *)
(* both fields of the tab show this key (rsa.py:74, 81).  Not only the      *)
(* keygen before the button counts: one that was refused in between keeps   *)
(* the object and the texts together.                                       *)
Accounted(k) ==
  /\ k = Len(keys) /\ keys[k].tab = tab
  /\ keys[k].whole => text[tab] = [f \in Fields |-> k]

TabsKeyIsUsed == [][answer'.key # 0 => Accounted(answer'.key)]_vars
=============================================================================
