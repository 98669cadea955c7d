----------------------------- MODULE CipherCalls -----------------------------
(***************************************************************************)
(* The calls of api/symmetric.c on AES and DES, cc_aes_* and cc_des_*, on  *)
(* buffers and on files, around the loops of BlockModes: the checks of the *)
(* arguments, PKCS#7, and the delivery of the result.                      *)
(*                                                                         *)
(* A place holds bytes that an application keeps in a buffer or in a file, *)
(* as it likes; the result of a call may overwrite what it was made from.  *)
(* The key is one and the same.  Budget(s) bounds the number of calls of a *)
(* behaviour that begins with the bytes s.                                 *)
(***************************************************************************)
EXTENDS BlockModes

CONSTANTS Places, Contents, First, Ivs, NoIv, Capacities, Budget(_)

ASSUME CallsAssumption == /\ First \in Places /\ Contents \subseteq Seq(Byte)
                          /\ Ivs \subseteq Block /\ Capacities \subseteq Nat

VARIABLES
  pc,       \* "idle", or "loop" while a call runs
  place,    \* the bytes of each place
  call,     \* the iv, from, to and capacity of the call
  outcome,  \* the status of the last call
  left,     \* calls left
  made      \* what each place was encrypted from, and how

callVars == <<pc, place, call, outcome, left, made>>
vars == <<loopVars, callVars>>

Nothing == [mode |-> "none"]
NoCall == [iv |-> NoIv, from |-> First, to |-> First, capacity |-> 0]
Zeros(n) == [j \in 1 .. n |-> 0]

Init ==
  /\ place \in {[p \in Places |-> IF p = First THEN s ELSE <<>>] : s \in Contents}
  /\ pc = "idle" /\ call = NoCall /\ outcome = "ok"
  /\ left = Budget(place[First])
  /\ made = [p \in Places |-> Nothing]
  /\ mode = "ecb" /\ forward = TRUE /\ way = "buffer"
  /\ input = <<>> /\ output = <<>>
  /\ chain = Zeros(BlockSize) /\ at = 0

-----------------------------------------------------------------------------
(* pkcs7_padding *)
Pad(s) == LET v == BlockSize - (Len(s) % BlockSize) IN s \o [j \in 1 .. v |-> v]

(* Faulty: only the last byte of the padding is looked at. *)
ValidLastByte(s) == s # <<>> /\ s[Len(s)] \in 1 .. BlockSize

(* pkcs7_unpadding, given whole blocks *)
ValidPadding(s) == /\ s # <<>> /\ s[Len(s)] \in 1 .. BlockSize
                   /\ \A j \in Len(s) - s[Len(s)] + 1 .. Len(s) : s[j] = s[Len(s)]
Unpad(s) == SubSeq(s, 1, Len(s) - s[Len(s)])

-----------------------------------------------------------------------------
Unchained(m) == m \in {"ecb", "des"}

(* aes_params *)
Incomplete(m, iv) == iv = NoIv /\ ~Unchained(m)

(* The size needed is told before anything is encrypted into a buffer. *)
Short(f, w, c) == f /\ w = "buffer" /\ c.capacity < Len(Pad(place[c.from]))

(* Not a whole number of blocks; an empty file is only refused later. *)
Ragged(f, w, c) == ~f /\ \/ Len(place[c.from]) % BlockSize # 0
                         \/ w = "buffer" /\ place[c.from] = <<>>

(* A call that returns before its loop. *)
Refused(status) == outcome' = status /\ UNCHANGED <<loopVars, pc, place, call, made>>

Refuse(m, f, w, c) ==
  \/ Incomplete(m, c.iv) /\ Refused("invalid_arg")
  \/ /\ ~Incomplete(m, c.iv)
     /\ \/ Short(f, w, c) /\ Refused("too_small")
        \/ Ragged(f, w, c) /\ Refused("invalid_input")
        \/ ~Short(f, w, c) /\ (w = "file" \/ ~Ragged(f, w, c)) /\ Refused("nomem")
        \/ w = "file" /\ Refused("io")

(* The input is padded into, or copied to, memory of the call. *)
Load(m, f, w, c) ==
  /\ ~Incomplete(m, c.iv) /\ ~Short(f, w, c) /\ ~Ragged(f, w, c)
  /\ pc' = "loop" /\ call' = c
  /\ mode' = m /\ forward' = f /\ way' = w
  /\ input' = IF f THEN Pad(place[c.from]) ELSE place[c.from]
  /\ output' = Zeros(Len(input'))
  /\ chain' = IF c.iv = NoIv THEN Zeros(BlockSize) ELSE c.iv
  /\ at' = 0
  /\ UNCHANGED <<place, outcome, made>>

(* cc_aes_encrypt .. cc_des_decrypt_file are entered. *)
Begin ==
  /\ pc = "idle" /\ left > 0
  /\ left' = left - 1
  /\ \E m \in {"ecb", "cbc", "cfb", "ofb", "ctr", "des"}, f \in BOOLEAN, w \in {"buffer", "file"},
        iv \in Ivs \cup {NoIv}, p, q \in Places, room \in Capacities :
       LET c == [iv |-> IF m = "des" THEN NoIv ELSE iv, from |-> p, to |-> q, capacity |-> room]
       IN  Refuse(m, f, w, c) \/ Load(m, f, w, c)

Loop == pc = "loop" /\ OneBlock /\ UNCHANGED callVars

-----------------------------------------------------------------------------
(* The memory of the call is freed, its locals are gone, and it returns. *)
Return(status) ==
  /\ pc' = "idle" /\ call' = NoCall /\ outcome' = status
  /\ mode' = "ecb" /\ forward' = TRUE /\ way' = "buffer"
  /\ input' = <<>> /\ output' = <<>>
  /\ chain' = Zeros(BlockSize) /\ at' = 0
  /\ UNCHANGED left

Done == pc = "loop" /\ at = Count(input)

Record(s) == [mode |-> mode, iv |-> IF Unchained(mode) THEN NoIv ELSE call.iv,
              way |-> IF mode = "des" THEN way ELSE "any", plain |-> s]

(* The result s goes to its place.  write_file may also fail to open the    *)
(* file, or after it cut it down and wrote some of it.                      *)
Deliver(s, record) ==
  \/ /\ Return("ok")
     /\ place' = [place EXCEPT ![call.to] = s]
     /\ made' = [made EXCEPT ![call.to] = record]
  \/ /\ way = "file" /\ Return("io")
     /\ \/ UNCHANGED <<place, made>>
        \/ \E n \in 0 .. Len(s) : /\ place' = [place EXCEPT ![call.to] = SubSeq(s, 1, n)]
                                  /\ made' = [made EXCEPT ![call.to] = Nothing]

FinishEncrypt == Done /\ forward /\ Deliver(output, Record(place[call.from]))

Stop(status) == Return(status) /\ UNCHANGED <<place, made>>

(* api_output *)
TooSmall(s) == way = "buffer" /\ call.capacity < Len(s)

(* Faulty: the bytes are handed over before their padding is checked. *)
FinishDecryptEarly ==
  /\ Done /\ ~forward
  /\ \/ /\ ~ValidPadding(output)
        /\ Return(IF output = <<>> THEN "invalid_input" ELSE "decrypt")
        /\ place' = [place EXCEPT ![call.to] = output]
        /\ made' = [made EXCEPT ![call.to] = Nothing]
     \/ ValidPadding(output) /\ Stop("nomem")
     \/ ValidPadding(output) /\ TooSmall(Unpad(output)) /\ Stop("too_small")
     \/ ValidPadding(output) /\ ~TooSmall(Unpad(output)) /\ Deliver(Unpad(output), Nothing)

FinishDecrypt ==
  /\ Done /\ ~forward
  /\ \/ ~ValidPadding(output) /\ Stop(IF output = <<>> THEN "invalid_input" ELSE "decrypt")
     \/ ValidPadding(output) /\ Stop("nomem")
     \/ ValidPadding(output) /\ TooSmall(Unpad(output)) /\ Stop("too_small")
     \/ ValidPadding(output) /\ ~TooSmall(Unpad(output)) /\ Deliver(Unpad(output), Nothing)

Next == Begin \/ Loop \/ FinishEncrypt \/ FinishDecrypt

Spec == Init /\ [][Next]_vars

-----------------------------------------------------------------------------
(* The equations of the modes (NIST SP 800-38A) over the blocks of a text;  *)
(* the counters are numbers, modulo the number of blocks.                   *)
Value(s) == LET V[n \in 0 .. Len(s)] == IF n = 0 THEN 0 ELSE ByteMod * V[n - 1] + s[n]
            IN  V[Len(s)]

Blocks == LET P[i \in 0 .. BlockSize] == IF i = 0 THEN 1 ELSE ByteMod * P[i - 1] IN P[BlockSize]

CounterBlock(iv, n) == CHOOSE b \in Block : Value(b) = (Value(iv) + n) % Blocks

StreamBlock(iv, n) == LET O[i \in 0 .. n] == IF i = 0 THEN iv ELSE Encipher(O[i - 1]) IN O[n]

(* Block n of the ciphertext, from block n of the text and the one before.  *)
CipherBlock(m, iv, n, text, before) == CASE Unchained(m) -> Encipher(text)
                                         [] m = "cbc"    -> Encipher(XorBlock(text, before))
                                         [] m = "cfb"    -> XorBlock(text, Encipher(before))
                                         [] m = "ofb"    -> XorBlock(text, StreamBlock(iv, n))
                                         [] m = "ctr"    -> XorBlock(text, Encipher(CounterBlock(iv, n - 1)))

CipherBlocks(m, iv, text) ==
  LET C[n \in 0 .. Count(text)] ==
        IF n = 0 THEN iv ELSE CipherBlock(m, iv, n, BlockOf(text, n - 1), C[n - 1])
  IN  C

Enciphered(m, iv, text, cipher) ==
  /\ Len(cipher) = Len(text)
  /\ \A n \in 1 .. Count(text) : BlockOf(cipher, n - 1) = CipherBlocks(m, iv, text)[n]

Finished(status) == pc = "loop" /\ pc' = "idle" /\ outcome' = status
Native == mode = "des" /\ way = "file" /\ LittleEndian
Iv == IF call.iv = NoIv THEN Zeros(BlockSize) ELSE call.iv

(* What an encryption delivers is the padded text under the equations of    *)
(* its mode, from buffers and files, in place or not; aes_ctr carries its   *)
(* counter through every byte.  (DES on files has a run of its own.)        *)
Textbook == [][(Finished("ok") /\ forward /\ ~Native) =>
  Enciphered(mode, Iv, Pad(place[call.from]), place'[call.to])]_vars

(* A decryption is only accepted of the one encryption of its result: the   *)
(* whole padding is checked (pkcs7_unpadding), whatever bytes it is given.  *)
Canonical == [][(Finished("ok") /\ ~forward /\ ~Native) =>
  Enciphered(mode, Iv, Pad(place'[call.to]), place[call.from])]_vars

(* Whatever was encrypted decrypts to the text it came from, also from a    *)
(* file to a buffer and in place; it is never said to be corrupted.         *)
RoundTrip == [][(pc = "loop" /\ pc' = "idle" /\ ~forward /\ made[call.from] # Nothing
                   /\ made[call.from] = Record(made[call.from].plain)) =>
  /\ outcome' \notin {"decrypt", "invalid_input"}
  /\ outcome' = "ok" => place'[call.to] = made[call.from].plain]_vars

(* A call that fails leaves every place as it was; only write_file may      *)
(* leave a part of the result behind.  No buffer receives more than fits.   *)
OnlyResults == [][place' # place =>
  /\ \A p \in Places \ {call.to} : place'[p] = place[p]
  /\ outcome' = "ok" \/ (way = "file" /\ outcome' = "io")
  /\ way = "buffer" => Len(place'[call.to]) <= call.capacity]_vars

(* "blocks are big-endian as in FIPS 46-3" (cryptocalc.h), on files too. *)
BigEndianBlocks == [][(Finished("ok") /\ forward /\ mode = "des") =>
  Enciphered("des", Iv, Pad(place[call.from]), place'[call.to])]_vars
=============================================================================
