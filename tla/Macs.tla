-------------------------------- MODULE Macs --------------------------------
(***************************************************************************)
(* The calls cc_hmac*, cc_cbc_mac* of api/symmetric.c, which make a tag of *)
(* a message or compare one with bytes that are claimed to be it, around   *)
(* mac/hmac.c and mac/cbc_mac.c.  A CBC-MAC is a run of the loop of        *)
(* BlockModes over the padded message, under the key in use there; an HMAC *)
(* is two calls of a hash, here any function of bytes.                     *)
(***************************************************************************)
EXTENDS CipherCalls

CONSTANTS Hash(_),          \* HashLen bytes of any bytes
          HashBlock,        \* bytes of a block of it
          HashLen, IPad, OPad,
          Keys, Messages

ASSUME HashAssumption == /\ HashBlock \in Nat /\ HashLen \in 1 .. HashBlock
                         /\ {IPad, OPad} \subseteq Byte /\ \A x \in Byte : XorByte(0, x) = x
                         /\ Keys \cup Messages \subseteq Seq(Byte)
                         /\ \A k \in Keys : Hash(k) \in [1 .. HashLen -> Byte]

VARIABLES
  macPc,  \* "idle", or "hash" or "loop" while a tag is computed
  task,   \* the call that runs
  result  \* the status the last call returned, and its tag

macVars == <<loopVars, macPc, task, result>>

NoTask == [kind |-> "none", verify |-> FALSE, key |-> <<>>, m |-> <<>>, claim |-> <<>>]

MacInit == /\ macPc = "idle" /\ task = NoTask
           /\ result = [status |-> "none", tag |-> <<>>]

-----------------------------------------------------------------------------
XorWith(k, pad) == [j \in DOMAIN k |-> XorByte(k[j], pad)]

(* Faulty: a key of exactly one block is hashed too. *)
KeyBlockHashed(key) ==
  LET k == IF Len(key) >= HashBlock THEN Hash(key) ELSE key IN k \o Zeros(HashBlock - Len(k))

(* The key of the context: hashed if it is longer than a block, then filled *)
(* with zeros.                                                              *)
KeyBlock(key) ==
  LET k == IF Len(key) > HashBlock THEN Hash(key) ELSE key IN k \o Zeros(HashBlock - Len(k))

(* hmac_init, hmac_update with the whole message, hmac_final *)
HmacTag(key, m) ==
  LET k == KeyBlock(key) IN Hash(XorWith(k, OPad) \o Hash(XorWith(k, IPad) \o m))

ASSUME DigestAssumption == \A k \in Keys, m \in Messages : Len(HmacTag(k, m)) = HashLen

(* ct_memcmp over the bytes claimed, once their number is right. *)
Verdict(t, tag) == IF t.verify /\ t.claim # tag THEN "verify" ELSE "ok"

MacReturn(status, tag) ==
  /\ macPc' = "idle" /\ task' = NoTask
  /\ result' = [status |-> status, tag |-> IF status = "ok" THEN tag ELSE <<>>]

(* A call is entered: a file is read, the context of an HMAC or the padded  *)
(* copy of a CBC-MAC made.  The claim is the last tag, a beginning of it, or*)
(* that and one byte more.                                                  *)
Claims == {result.tag \o <<0>>} \cup {SubSeq(result.tag, 1, n) : n \in 0 .. Len(result.tag)}

EnterHmac(m, v, s) ==
  /\ \E k \in Keys : task' = [kind |-> "hmac", verify |-> v, key |-> k, m |-> m, claim |-> s]
  /\ macPc' = "hash"
  /\ UNCHANGED <<loopVars, result>>

EnterCbcMac(m, v, s) ==
  /\ task' = [kind |-> "cbc_mac", verify |-> v, key |-> <<>>, m |-> m, claim |-> s]
  /\ macPc' = "loop"
  /\ mode' = "cbc" /\ forward' = TRUE /\ way' = "buffer"
  /\ input' = Pad(m) /\ output' = Zeros(Len(input'))
  /\ chain' = Zeros(BlockSize) /\ at' = 0
  /\ UNCHANGED result

(* A file that cannot be read, a level without a key size, bytes that are   *)
(* missing, or no memory.                                                   *)
RefuseMac == \E s \in {"io", "invalid_arg", "nomem"} : MacReturn(s, <<>>) /\ UNCHANGED loopVars

Call == macPc = "idle" /\
  (RefuseMac \/ \E m \in Messages : \/ EnterHmac(m, FALSE, <<>>) \/ EnterCbcMac(m, FALSE, <<>>)
                                   \/ \E s \in Claims : EnterHmac(m, TRUE, s) \/ EnterCbcMac(m, TRUE, s))

(* hmac, hmac_verify; the length of a claim is looked at before the tag is  *)
(* computed.                                                                *)
FinishHmac ==
  /\ macPc = "hash"
  /\ IF task.verify /\ Len(task.claim) # HashLen THEN MacReturn("verify", <<>>)
     ELSE LET tag == HmacTag(task.key, task.m) IN MacReturn(Verdict(task, tag), tag)
  /\ UNCHANGED loopVars

MacLoop == macPc = "loop" /\ OneBlock /\ UNCHANGED <<macPc, task, result>>

(* cbc_mac and cbc_mac_verify: the last block of the ciphertext. *)
FinishCbcMac ==
  /\ macPc = "loop" /\ at = Count(input)
  /\ LET tag == BlockOf(output, at - 1) IN MacReturn(Verdict(task, tag), tag)
  /\ mode' = "ecb" /\ forward' = TRUE /\ way' = "buffer"
  /\ input' = <<>> /\ output' = <<>> /\ chain' = Zeros(BlockSize) /\ at' = 0

MacNext == Call \/ FinishHmac \/ MacLoop \/ FinishCbcMac

MacSpec == MacInit /\ [][MacNext]_macVars

-----------------------------------------------------------------------------
(* The tags of the standards: RFC 2104, in which a key that fits a block is *)
(* taken as it is, and the last block of a CBC encryption that starts from  *)
(* a block of zeros.                                                        *)
Standard(t) ==
  IF t.kind = "cbc_mac"
  THEN CipherBlocks("cbc", Zeros(BlockSize), Pad(t.m))[Count(Pad(t.m))]
  ELSE LET k == IF Len(t.key) <= HashBlock THEN t.key ELSE Hash(t.key)
           Padded(pad) == [j \in 1 .. HashBlock |->
                             IF j <= Len(k) THEN XorByte(k[j], pad) ELSE pad]
       IN  Hash(Padded(OPad) \o Hash(Padded(IPad) \o t.m))

(* A call that succeeds has made, or was shown, the tag of its message      *)
(* under its key, whole: no beginning of it and nothing longer              *)
(* (hmac.c:98, 159; cbc_mac.c:57).  And a tag is never refused of the       *)
(* message and the key it was made of.                                      *)
OnlyTheTag == [][macPc # "idle" /\ macPc' = "idle" =>
  /\ result'.status = "ok" => /\ result'.tag = Standard(task)
                              /\ task.verify => task.claim = result'.tag
  /\ result'.status = "verify" => task.claim # Standard(task)]_macVars
=============================================================================
