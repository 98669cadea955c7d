----------------------------- MODULE HashContext -----------------------------
(***************************************************************************)
(* What the contexts of MD5, SHA-1 and SHA-2 have in common, and what is   *)
(* to hold of each of them.                                                *)
(***************************************************************************)
EXTENDS HashSizes

VARIABLES
  pc,       \* "ready", "loop" inside update, "done" after final
  data,     \* the buffer: data, or block of SHA-2
  datalen,  \* how much of it is filled: datalen, or len
  count,    \* what was compressed so far: bitlen in bits, or tot_len in bytes
  hashed,   \* what the compression function has consumed
  taken     \* bytes the finished update calls were given

ctx == <<pc, data, datalen, count, hashed, taken>>

Fresh(size) == /\ pc = "ready"
               /\ data = [j \in 1 .. size |-> Junk]
               /\ datalen = 0 /\ count = 0 /\ hashed = <<>>
               /\ taken = 0

Stream == INSTANCE HashStream
  WITH absorbed <- taken, digest <- IF pc = "done" THEN hashed ELSE <<>>

-----------------------------------------------------------------------------
(* However the message is cut into update calls, the digest is the one of   *)
(* the whole padded message (md5_final, sha1_final, sha224_final and its    *)
(* kin), the length field included when the bit count wraps.                *)
ImplementsStream == Stream!Spec

(* The bytes compressed and the bytes buffered are the message so far, in   *)
(* order and without a gap, at every turn of the loops of update; nothing   *)
(* left in the buffer by an earlier block is counted again.                 *)
BufferIsTail == pc # "done" =>
  hashed \o SubSeq(data, 1, datalen) = [j \in 1 .. Len(hashed) + datalen |-> Msg(j)]
=============================================================================
