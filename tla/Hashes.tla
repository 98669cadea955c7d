------------------------------- MODULE Hashes -------------------------------
(***************************************************************************)
(* The three kinds of streaming hash side by side, for the runs and for    *)
(* the proofs.  The first state chooses which one is at work; the others   *)
(* rest.                                                                   *)
(***************************************************************************)
EXTENDS BytewiseHash

CONSTANTS Rate, MaxLen, MaxOut, Pieces

VARIABLES machine,
          phase, fed, xored, cnt, given, msgLen, out, outLen, absorbed, squeezed, result

Sha2 == INSTANCE BlockwiseHash
Shake == INSTANCE ShakeObject

shakeVars == <<phase, fed, xored, cnt, given, msgLen, out, outLen, absorbed, squeezed, result>>

HashInit == /\ Shake!Init
            /\ \/ Init /\ machine \in {"md5", "shake"}
               \/ Sha2!Init /\ i = 0 /\ n = 0 /\ machine = "sha2"

HashNext == /\ \/ machine = "md5" /\ Next /\ UNCHANGED shakeVars
               \/ machine = "sha2" /\ Sha2!Next /\ UNCHANGED <<i, n, shakeVars>>
               \/ machine = "shake" /\ Shake!Next /\ UNCHANGED vars
            /\ UNCHANGED machine

(* The loop of a running call makes progress. *)
HashSpec == HashInit /\ [][HashNext]_<<vars, shakeVars, machine>>
                     /\ WF_<<vars, shakeVars, machine>>(pc = "loop" /\ HashNext)

(* The permutation sees the padded message in blocks of the rate, and then  *)
(* nothing but empty blocks (sha3_update, shake_xof, shake_out).            *)
FedIsPadded == Shake!FedIsPadded

(* Pieces squeezed from the SHAKE object are consecutive pieces of the      *)
(* stream of everything absorbed, and update starts a new stream.           *)
ImplementsXof == Shake!ImplementsXof

(* The sizes of the runs: messages of any length the bound allows, in any   *)
(* pieces, and output in pieces of 0 to 4 bytes.                            *)
AnyLength == 0 .. MaxTotal
FewBytes == 0 .. 4
=============================================================================
