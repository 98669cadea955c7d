-------------------------------- MODULE Pages --------------------------------
(***************************************************************************)
(* The pages of the calculator, for the runs and for the proofs: those     *)
(* that exchange keys and those that hold one.  The first state chooses a  *)
(* page of one kind; the others rest.                                      *)
(***************************************************************************)
EXTENDS KeyAgreement

CONSTANT MaxKeys

VARIABLES machine, page, tab, missing, object, keys, text, answer

Keys == INSTANCE KeyPages
pageVars == <<page, tab, missing, object, keys, text, answer>>

PagesInit == /\ AgreementInit /\ Keys!Init
             /\ \/ machine = "agreement" /\ page = "rsa"
                \/ machine = "key" /\ groups = DhGroups

PagesNext == /\ \/ machine = "agreement" /\ AgreementNext /\ UNCHANGED pageVars
                \/ machine = "key" /\ Keys!Next /\ UNCHANGED agreementVars
             /\ UNCHANGED machine

PagesSpec == PagesInit /\ [][PagesNext]_<<agreementVars, pageVars, machine>>

(* A button works with the newest key, made on its tab, and shown there     *)
(* unless its keygen ended in a dialog (rsa.py:74, 81).                     *)
TabsKeyIsUsed == Keys!TabsKeyIsUsed

-----------------------------------------------------------------------------
(* The values of the run.  Two groups of numbers, so that a secret of the   *)
(* larger may be too large for the smaller, and a curve of each form; bytes *)
(* of two bits, so that some coordinates begin with a byte of zeros.        *)
NumberGroups == {[family |-> "dl", p |-> 11, g |-> 3], [family |-> "dl", p |-> 23, g |-> 2]}

W11 == [type |-> "weierstrass", p |-> 11, a |-> 2, b |-> 7, g |-> [x |-> 6, y |-> 2]]
E13 == [type |-> "edwards", p |-> 13, a |-> -1, b |-> 6, g |-> [x |-> 3, y |-> 9]]
M19 == [type |-> "montgomery", p |-> 19, a |-> 6, b |-> 1, g |-> [x |-> 7, y |-> 6]]
OnCurve(c) == LET multiples == MultiplesOf(c, c.g)
              IN  [family |-> "ec", c |-> c, efs |-> CountBytes(c.p),
                   order |-> Len(multiples), table |-> multiples]
CurveGroups == {OnCurve(W11), OnCurve(E13), OnCurve(M19)}

(* No byte is combined with another on these pages. *)
Unused(a, b) == a
=============================================================================
