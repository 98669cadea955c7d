# Verification of crypto-calcul

crypto-calcul is a C cryptography library on GMP, a stable C API over it
(`cc_*`, `src/backend/api`, `src/backend/include/cryptocalc.h`), a cffi Python
package over the API (`src/python/cryptocalc`) and a PyQt calculator
(`src/frontend`). This directory holds the TLA+ models of its logic, the TLC
runs that check them and the TLAPS proofs about them. Paths below are relative
to the repository; `backend/x` stands for `src/backend/x`.

## Inventory

The library has no threads, no global variables and no persistent state of its
own. Concurrency is between callers that hold different contexts; failure is an
allocation or a random seed that cannot be had; ordering is the order of calls
on one context, and of calls that split one computation (`update`, `squeeze`,
the size query before the output call).

| Part | Source | State it keeps | Operations | Correct when |
|---|---|---|---|---|
| Key contexts | `backend/api/{rsa,elgamal,dsa,ecelgamal,ecdsa}.c` | the structure, parameters, key numbers, `has_key` | `new`, `keygen`, `get`, `encrypt` .. `verify`, `free` | memory is released exactly once, a usable pair is always the latest, `keygen` returns |
| Output protocol | `backend/api/common.c`, `_core.py` | the caller's capacity, `*out_len` | `api_output*`, `call_out`, `call_out2` | nothing is written when it does not fit, the size asked for suffices |
| Streaming hashes | `backend/{md5,sha1,sha2,sha3}` | buffer, fill, length counter, chaining value | `init`, `update`, `final`, `shake_xof`, `shake_out` | any split of the message gives the digest of the whole message, every call returns |
| SHAKE object | `primitives.py` | absorbed bytes, bytes squeezed | `update`, `squeeze` | the pieces squeezed form a prefix of one stream |
| Elliptic curves | `backend/ec` | curve, points | `ec_add`, `ec_dbl`, `ec_mul`, conversions | `ec_mul` computes kP, also in place |
| Primes and random numbers | `backend/{prime,rng}` | GMP random state | `gen_prime_b`, `gen_prime_m`, tests, `rand_*` | the size asked for, primality, termination |
| RSA | `backend/rsa` | parameters, key | textbook, PKCS#1 v1.5, OAEP, PSS, CRT | decrypt(encrypt(m)) = m, verify(sign(m)), malformed input refused |
| ElGamal, DSA, DH | `backend/{elgamal,dsa,dh}` | group, key | encrypt, sign, verify, agree | round trip, verification, both sides agree |
| EC schemes | `backend/{ecdsa,ecelgamal,ecdh}` | curve, key | the same over a curve | the same |
| Block ciphers | `backend/{aes,des}` | key schedule | ECB, CBC, CFB, OFB, CTR | decrypt inverts encrypt |
| Padding and files | `backend/misc`, `aes_file_*`, `des_file` | buffers, files | PKCS#7, `read_file`, `write_file` | padding is removed only if it is valid, files and buffers agree |
| MACs | `backend/mac` | inner message, key | HMAC, CBC-MAC, verify | a tag verifies exactly its message |
| GUI | `src/frontend` | one object per page, the selections | page slots | a button uses the newest key of its tab, and another than the one shown only after a dialog |

How the parts call each other: a page of the calculator owns one object of the
Python package, the object owns one context of the C API, and every call of the
API that has an output goes through the output protocol of `common.c`. A
context's operations call the backend (`rsa`, `elgamal`, `dsa`, `ec*`), which
draws from `rng`, searches primes with `prime` (RSA), multiplies points with
`ec` (the curve schemes) and hashes with `md5`, `sha1`, `sha2`, `sha3` (padding,
signatures). The block ciphers use `misc` for PKCS#7 and files; CBC-MAC is the
CBC loop of AES, HMAC two hashes.

What is hard to test here, with the line where it bites, is the list `hazards`
of `PROJECT.json`: calls in an order nobody tried (a second `keygen`, an
`update` after a `squeeze`), a failure between two steps that own memory, sizes
told by one call and used by the next, loops whose end depends on luck, and the
boundaries of padding, counters and bit lengths.

## Modules

| Module | Models | State and actions |
|---|---|---|
| `KeyVault` | what a client may rely on (abstract) | one vault per context: closed, empty, asking, keyed |
| `KeyContext` | `cc_<scheme>_new/_keygen/_get/…/_free` of five schemes and the backend functions below them | `live`: the groups of allocations a context owns; `hasKey` is `has_key`; `key` numbers the `keygen` call whose numbers are stored; a call is a sequence of steps (`Seed`, `DrawP`, `DrawQ`, `Reject`, `Accept`, …) so that another thread's context can step in between; `faults` collects what would be undefined behaviour |
| `OutputBuffer` | `api_output`, `api_output_mpz`, `api_output_mpz_pair` and their callers `call_out`, `call_out2` | `room` is the real size of each buffer, `len` is `*out_len`; `Run` is the operation and its output, `Retry` the second call |
| `RandomNumbers` | `cc_rng_*`, `cc_random_*`, `rng_acquire`, `rng_release`, `rand_*` | `live`: the generators that are allocated, with seed and position; `held`: those the application has; a call is `Acquire`, `Draw`, `Release` |
| `HashStream` | what a hash promises (abstract): the digest is that of the whole padded message | `absorbed`, `digest` |
| `HashSizes`, `HashContext` | the parameters and the context MD5, SHA-1 and SHA-2 share | `data`, `datalen`, `count` (`bitlen` or `tot_len`), `hashed`: what the compression function consumed |
| `BytewiseHash` | `md5_*`, `sha1_*` | one action per turn of the loop of `update`; `Final` is the two-way padding |
| `BlockwiseHash` | `sha224_*` to `sha512_*` | `Update` is the split into first copy, whole blocks and tail |
| `XofStream` | what an extendable output promises (abstract) | `absorbed`, `position` |
| `Sponge` | `sha3_update`, `sha3_final`, `shake_xof`, `shake_out` | a byte of the block is the set of values xored into it; `fed` lists the permuted blocks |
| `ShakeObject` | the `SHAKE` class of Python over `cc_shake` | `absorbed`, `squeezed`; composes `Sponge`, refines `XofStream` |
| `BlockModes` | the loops of ECB, CBC, CFB, OFB, CTR and of DES | `input`, `output`, `chain` (`last_block`, `counter_block`), one block per step |
| `CipherCalls` | `cc_aes_*`, `cc_des_*` on buffers and files, PKCS#7, `read_file`, `write_file` | `place`: the bytes kept in each buffer or file; `Begin` holds the checks, `Loop` a turn of `BlockModes`, `FinishEncrypt` and `FinishDecrypt` the delivery |
| `Macs` | `cc_hmac*`, `cc_cbc_mac*` over `hmac.c` and `cbc_mac.c` | `task`: the call that runs; a CBC-MAC runs the loop of `BlockModes`, an HMAC two hashes; `result` is its status and tag |
| `CurveFormulas` | `add`, `dbl`, `dadd`, `neg`, `equals`, `is_on_curve`, `to_affine` | pure operators on projective points |
| `GroupLaw` | the textbook group law on affine points (reference) | pure operators |
| `CurveWalk` | any sequence of point operations | `first`, `second`: two points; `firstIs`, `secondIs`: the multiples of the generator they should be |
| `ScalarMul` | `mul`: shortcuts, double-and-add, Montgomery ladder, result in place | accumulators `q`, `q1`, the bit `j`, `alias` for "r and p are the same point"; the point operations are constants |
| `BigNumbers` | powers, inverses and roots as `mpz_powm`, `mpz_invert` and their callers use them | pure operators |
| `Bytes` | numbers and bytes: `api_input_mpz`, `api_output_mpz`, `bigint_to_bytes_fixed`, … | pure operators; a byte has `ByteBits` bits |
| `CurvePoints` | `point_to_bytes`, `point_from_bytes`, `is_valid_point` and `mul` as its callers see it | pure operators |
| `SchemeCalls` | what calls on a keyed context have in common | `task` and `drawn`: the call that runs and what it drew; `made`, `last`: what the application holds |
| `RsaSchemes` | `cc_rsa_encrypt/_decrypt/_sign/_verify` over `rsa/enc.c`, `rsa/sig.c` | padding drawn byte by byte (`Pad`), PKCS#1, OAEP and PSS layouts, both ways to compute |
| `GroupSchemes` | the same calls of ElGamal, DSA, EC-ElGamal, ECDSA | `DrawNonce`, `SignAgain`, `SignDone`: the loops of the signers |
| `Schemes` | an application with one context of any of these | seals, then opens what it made, or opens any bytes |
| `KeyAgreement` | `cc_dh_*`, `cc_ecdh_*` and the pages `dh.py`, `ecdh.py` | `dh`: the object of the page, `secrets`: `sA`, `sB`; a handler is one action that may break off at any call |
| `KeyPages` | `rsa.py`, `elgamal.py`, `ecelgamal.py`, `dsa.py`, `ecdsa.py` and the objects they hold | `tab`, `missing` choices, `object`: what the attribute names, `text`: the key in each field of each tab, `keys`: a history of the keys made; `KeygenFails` and `KeygenMakes` are `keygen` up to and past the key |
| `PrimeTest` | one round of Fermat and of Miller–Rabin | pure operators |
| `PrimeSearch` | `cc_is_prime`, `gen_prime_b`, `gen_prime_m` with trial division | the candidate `q`, the start of its walk, the rounds left; draws are choices |
| `Hashes` | an application with one streaming context: bytewise, blockwise or SHAKE | composes `BytewiseHash`, `BlockwiseHash` and `ShakeObject` |
| `Outputs` | an application that either makes outputs or draws numbers | composes `OutputBuffer` and `RandomNumbers` |
| `Pages` | a calculator page: one of the five with a key, or a key agreement | composes `KeyPages` and `KeyAgreement` |
| `NatLemmas`, `…Proofs` | proofs; `NatLemmas` holds what several of them use: numbers, powers, primes, the multiples of a point, the projective formulas | |
| `MC…` | the constants and bounds of the runs | |

How they compose: `Schemes` puts `RsaSchemes` and `GroupSchemes` under one
application; these stand on `BigNumbers`, `Bytes` and `CurvePoints`, and `CurvePoints` on
`GroupLaw` and `CurveFormulas`. `Macs` and `CipherCalls` run the same
`BlockModes`. `ShakeObject` drives `Sponge`. `KeyAgreement` puts a page on the
calls it makes. `Hashes`, `Outputs` and `Pages` put side by side what shares a run.

`PROJECT.json` maps every definition to the lines it stands for. A definition
whose comment begins with "Faulty:" is not part of the model: it is a plausible
mistake, placed before the definition it would replace, and each property is
known to fail when one of them does.

Data are kept only as far as the properties tell them apart. A compression
function and a permutation of the sponge are injective, so what they consumed
is kept instead of what they return. A key of `KeyContext` and `KeyPages` is the
number of the call that made it. A cipher under its key is a permutation of the
blocks. An output of `OutputBuffer` is its size. Curves, primality tests, RSA,
the groups and the paddings, on the other hand, are computed in full on small
fields and numbers, with bytes of one or two bits.

## Runs

| Run | Asks | Bounds |
|---|---|---|
| `key_context` | memory safety, ownership between calls, freshness of the key, return of `keygen`, refinement of the vaults | two contexts, RSA (the only loop) beside DSA (errors before and after allocation, parameters without a key); two `keygen` calls each, so that one can fail after one succeeded, and more after `free` |
| `hashes` | the digest is that of the whole message for every split; buffer and chain never skip or repeat a byte; every `update` returns; SHAKE pieces are of one stream, its blocks padded right | blocks of 6 bytes with a length field of 2; messages to 32 bytes end at every place of a block, fill six blocks and wrap the bit count modulo 128. SHAKE: rate 3, messages to 7 bytes, output to 8 in pieces of 0 to 4, three blocks each way |
| `md5_long_message` | **fails**: `md5_update` on a message longer than its counter | the counter has 16 values, the message up to 32 bytes |
| `cipher_calls` | equations of the modes, strict padding, round trip, no half results; tags are those of the standards and nothing else verifies | blocks of two bytes of two bits; all texts to two bytes with two calls in a row, longer ones and doubtful paddings with one; chaining values that make the counter carry and wrap. Tags of texts to three bytes under keys shorter than, of and longer than a block of the hash, claims of every length |
| `des_files` | **fails**: blocks of DES files are big-endian | the same, on a little-endian host |
| `curves` | projective formulas follow the group law, points stay on the curve, `equals` compares points; `mul` is right, also at 0, 1, 2, infinity, beyond the order and in place | six curves with a generator of odd prime order, one for each branch of the formulas, walked through every representation of every point; all scalars of four bits (beyond the order of both curves) on every representation of two bases per curve, one of them infinity |
| `prime_search` | legal draws, results in range, nothing skipped, at most a quarter of liars, return | every call on numbers to 35, lengths to 5 bits and bounds to 12; one round on every odd number to 1111, past the Carmichael numbers 561 and 1105 |
| `prime_length` | **fails**: `cc_prime_bits` returns the length asked for | four bits |
| `output_buffer` | nothing outside a buffer or by halves, callers of Python are never refused for room; seeded generators are reproducible and none is left allocated, drawn bytes are whole | one and two outputs of 0 to 3 units, capacities from NULL to 4. Two generators, two seeds, two draws on each and any number on temporary ones, bytes of one bit, of which an `unsigned int` counts three |
| `size_query` | **fails**: a size told by one call suffices for the next, for randomised outputs | one and two outputs of 1 to 3 units |
| `schemes` | round trips, no draw makes a call fail, only genuine ciphertexts and signatures open, the loops of the signers end | RSA with the larger prime first and last, moduli at which PKCS#1 and OAEP just fit, a PSS block shorter than the modulus and one with a bit to clear; groups and curves (all three forms) in which drawn numbers make r or s zero; every private key of a group; everything to open: all byte strings of the length of the modulus, all pairs of halves up to it, the encodings of all points and non-points |
| `key_pages` | both parties agree, fresh secrets exchange, a page uses the newest key of its tab, which it shows unless a dialog said otherwise | two groups and three curves, of different sizes, so that a secret of one may be too large for another and coordinates may begin with zeros; pages with up to three keys |

A first state may choose between machines that share a run and nothing else,
while the others rest: `hashes` (bytewise, blockwise, SHAKE), `curves` (walk,
`mul`), `cipher_calls` (ciphers, tags), `output_buffer` (outputs, generators)
and `key_pages` (the two pages of key agreement, the five pages with a key).

Deadlock is checked where the system cannot stop (`key_context`, `key_pages`).
The others model one call, or a bounded number of them, and end.

### What the failing runs show

- `md5_update` counts with `uint32_t i` up to a `size_t len`
  (`backend/md5/md5.c:135`). With 2^32 bytes or more in one call the loop never
  ends, and `cc_hash` does not return.
- `gen_prime_b` sets the top bit of its first candidate and adds two until it
  meets a prime (`backend/prime/prime_gen.c:78`); from 15 it walks to 17, a
  prime of five bits for a call that asked for four. RSA key generation checks
  the length of n itself and draws again, so only `cc_prime_bits` shows it.
- `cryptocalc.h` says that a call without room sets `*out_len` to the required
  size. For signatures and ciphertexts made with random numbers the second call
  draws others, and its output may be a byte longer: it can be refused again.
  The Python package avoids this by beginning with a capacity no output exceeds.
- `cryptocalc.h` says that DES blocks are big-endian; `des_file` copies bytes
  into words of the host. On a little-endian host the files of
  `cc_des_encrypt_file` are not DES-ECB and cannot be read with
  `cc_des_decrypt`; they can with `cc_des_decrypt_file`, which
  `RoundTrip` checks.

### Fairness

- `KeyContext`: a thread that runs a call makes its next step (weak fairness of
  the steps). `DrawQ` leaving its loop and `Accept` are strongly fair: p and q
  differ, n has full length and e is invertible with positive probability at
  every attempt. Nothing obliges a caller to make a call.
- `BytewiseHash`: the loop of a running `update` makes progress.
- `Schemes`: a call that runs makes its next step (weak fairness), and a number
  that the signer can use is drawn in the end (strong fairness): each draw has one
  with positive probability, and the code draws afresh in every turn of its loop
  (`ecdsa.c:7`, `dsa.c`, the two ElGamals). A byte of zero in a PKCS#1 padding is
  thrown away and changes nothing, so the weak fairness also assumes that the
  next byte other than zero comes.
- `PrimeSearch`: the call runs on, and a draw of 2, possible at every attempt of
  `gen_prime_m`, happens in the end. No other draw is assumed; the walk of
  `gen_prime_b` needs none.

## Proofs

All are checked to the last leaf; none depends on a bound of a run.

**`KeyContextProofs`**, for any set of contexts, any assignment of schemes and
any number of calls: `TypeCorrect`, `Safety`, `Ownership`, `Freshness` and
`Refinement` (`KeyContext` implements `KeyVault`). The properties speak of idle
contexts and of faults; the invariant adds what a context owns at each point of
a running call (`Shape`) and that the number of the stored key is 0 exactly
while there is none and never beyond the calls made (`Numbering`). One lemma per
action preserves it, one per action maps it to a step of the vault or to a
stutter.

**`CurveProofs`** is about the points, first about `mul`. For scalars of any length
and any points: `Multiplication` (the result is k times the argument), `Accumulation`,
`TypeCorrect`. Assumed is what `ScalarMul` states of the operations: doubling doubles,
adding the base adds one, differential addition of neighbours adds them, infinity is
recognised. The invariant says that before bit j the accumulator represents
`k \div 2^(j+1)` times the base, that the ladder holds the next multiple beside it, and
that the argument is intact as long as it is read, which is what makes the result in
place correct. The step needs arithmetic on quotients (`NatLemmas`), where induction is
by least elements.

`FormulasAreAsAssumed` discharges those assumptions: on every curve that satisfies
`CurvesAssumption`, for every multiple of its generator as the base, infinity included,
the projective formulas of `ec.c` do what `ScalarMul` asks of them. Over the same
curves, of any size, `PointsAreMultiples`, `PointsStayOnCurve` and `EqualsComparesPoints`
prove the three properties of the walk for any sequence of operations. The argument,
whose lemmas are in `NatLemmas` because other proofs use them too:

- The textbook law divides, the formulas do not. Each formula is compared with the law
  on affine coordinates by an identity of polynomials, then scaled to the coordinates of
  the operands (`Stands`, `StandsInX`); a congruence carries both to the remainders kept.
- No scale vanishes where a result is finite. Additions of equal, of opposite and of
  neutral points are the cases of `add` and `dbl`; the order is odd, so no multiple is
  its own opposite, and no doubling of a finite point is infinite.
- On an Edwards curve there is one formula and no case, and it never divides by zero
  because a is a square and d is not.
- On a Montgomery curve the points have no y. Differential addition follows from an
  identity of the two chords through the operands, doubling from the tangent, and both
  again with an operand or a result at infinity.

`WalkInv` is the invariant: each point is stored in reduced coordinates and stands for
its multiple and, on a Montgomery curve, the second is the neighbour of the first.
`CurvesAssumption` says what the parameters in `ec_param.h` are: a prime field, a
generator of odd prime order whose multiples are points of the curve, the textbook law
on them closed and cyclic (that it is a group is not proved here), a + 2 divisible by
four on a Montgomery curve, a square and d no square on an Edwards curve. TLC evaluates
it on the six curves of `curves`, and the assumptions of `ScalarMul` on its two.

**`PrimeSearchProofs`**, for every bound, length, number of small primes and
rounds: `DrawsAreLegal`, `ResultInRange`, `TypeCorrect`, and `NoPrimeDenied`: a search
passes over no prime and `cc_is_prime` denies none. The invariant `OnTheWay` relates the
candidate to the start of its walk and to the bound. `PrimePasses` is the number theory
behind it: a round of Fermat or of Miller and Rabin passes every prime with every base
below it. It stands on Fermat's theorem (`LittleTheorem` of `NatLemmas`, by the product
of the numbers below a prime, which multiplying by a base only rearranges) and on one
having no other square roots than one and minus one (`RootOfOne`).

**`HashProofs`**, for every size of block, of length field and of length counter, any
message and any calls: `NothingLostBytewise` and
`NothingLostBlockwise` (what was compressed and what is buffered are the message so
far), `BytewiseImplements` and `BlockwiseImplements` (MD5 and SHA-1, and SHA-2,
implement `HashStream`). The invariant `Holds` says it cell by cell, inside the loop
of `update` too; `BytewiseCount` and `BlockwiseCount` add that what was compressed is
whole blocks and that the counter is its length modulo its width. `Ended` shows that
such a context with the blocks of `final` behind it is the padded message, one lemma
for both families; `PaddedLength` that the number of blocks `final` adds leaves the
fewest zeros. The bytewise theorems assume `CounterIsWide`: the counter of the loop
can hold the length of a call. `sha1_update` has it, `md5_update` has it below
4 GiB; `md5_long_message` shows what happens beyond.

The same module proves, under `ShakeSizes` (a positive rate, pieces that are numbers
of bytes), `ShakeFeedsPadded` and `ShakeImplements`: the properties `FedIsPadded` and
`ImplementsXof` of the run, for any rate, message and pieces. `ShakeInv` gives the
blocks that were permuted as those of the padded message, ties the bytes absorbed and
read to the number of blocks and `cnt` (`Absorbing`, `Squeezing`), and names every
byte read by its place in the stream; `ReadShake` is where a read that crosses a
block is the next byte of the same stream.

**`OutputBufferProofs`**, for any number of outputs, sizes, capacities and attempts:
`WithinBuffers`, `WholeOrNothing`, and `PythonIsAnswered` under the hypothesis
`PythonCallers`, which says what the callers of `_core.py` do: two attempts at least,
and sizes that follow from the input or fit at once. It is the hypothesis that
`size_query` drops. The invariant adds that the length a call trusts never exceeds the
buffer that came with it (`Honest`) and that nothing was written while a call is under
way (`Untouched`).

The same module proves `SeedsReproduce` of the generators (`Reproducible` of the run), for
any seeds, requests and calls in any order.
The invariant `Explained` says that the state of a held generator follows from its
seed and its log: a function `u` counts the numbers used up along the entries. Two
generators of one seed then have the same count as long as they are asked the same
(`SameCounts`, by a least difference). Assumed is that a temporary generator, freshly
allocated, is none of those the application holds. `BytesAreDrawn` proves
`EveryByteDrawn` for a generator of natural numbers and requests of any size that an
`unsigned int` can count: the bytes are the digits of the number drawn, its zeros in
front included.

**`CipherProofs`**, for every size of block and of byte, any permutation of the
blocks, any involution for the exclusive or, texts and chaining values of any kind
and any number of calls: `DecryptsWhatWasEncrypted` (the round trip, in all six
modes, in place, from buffers and from files) and `WritesOnlyResults`. `Enc` and
`Dec` are one block under a mode and `After` the chain behind it, which depends on
the ciphertext only; that is why both directions walk the same chain. `Linked` says
that a function `ch` is that chain along the blocks; the invariant says that the
output of an encryption is linked to its padded source so far, that every place whose
encryption is on record is linked to its text, and that a decryption of such a place
has followed its chain and has the blocks of the text so far. The loop overwrites its
input: `LoopOK` keeps the blocks that are still to be read. `EncryptsByTheBook` and
`AcceptsOnlyEncryptions` prove the equations, `Textbook` and `Canonical`: what an
encryption delivers is linked to the text it was given behind its padding, and a
decryption that succeeds has the chain of exactly that link; the counter of CTR is
shown to be addition on the number that its bytes stand for. `MakesOnlyTheTag` proves
`OnlyTheTag` of HMAC and CBC-MAC, for any hash, cipher and size of block, with keys
shorter than, of and longer than a block, and claims of any length.

**`SchemeProofs`** is about the pages and the schemes.

`SecretsAgree` and `FreshSecretsAreExchanged` prove `Agreement` and
`FreshSecretsExchange` of the pages of Diffie-Hellman, over any numbers below a prime
with an invertible generator and any curves whose points form a cyclic group.
`IsGroup` says what the handlers rely on: a table of the multiples of the generator,
closed under `At`; for numbers it is a consequence of `PowProduct` and `UnitPower`, for
curves it is `GroupAssumption`, which TLC evaluates on the curves of `key_pages`. Public
values travel as bytes, a secret of one group may be given to
another, and a handler may break off at any call. The invariant `ExchangeInv` says what
the page's two secrets and its public values have to do with each other at every moment.
That no public number is refused (`NumberAccepted`) needs Euclid's lemma
(`PrimeFactor` of `NatLemmas`).

`OnlyTheTabsKey` proves `TabsKeyIsUsed` of the pages with a key, for any number of
keys and wherever `keygen` breaks off: the key a button works with is the newest, was
made on the tab of the button, and is in both fields of that tab unless the `keygen`
that made it ended in a dialog. Its invariant `ObjectIsTheTabs` speaks of objects that
have a key only: the text of a key outlives its object on the other tab and after a
failed generation. More is not so: past `self.rsa.keygen()` the object in the attribute
has its key, while reading it and making it a text may still raise (`rsa.py:86-97`,
and the same lines of the other four pages). For RSA at level 3 that is the rule, not
the exception, under a Python that makes no text of more than 4300 digits: `d` has
some 4600, the private field keeps what it showed, and `encrypt` and `sign` use the new
key. `KeygenMakes` leaves the choice open on every page; no document says that a key
made is shown, so there is no run that fails.

`SealingFits` proves `EncodingsFit`, for keys and paddings of any size and any hash: every
encoding is below the modulus, since its first byte is zero and what follows has the
length left (`SealInv` keeps the room a padding needs while its bytes are drawn), and
both ways to compute stay below the modulus, the Chinese remainder also where the
difference of its halves is negative. Its hypotheses are types: a hash returns bytes and
messages are bytes. `RsaAssumption` states what the code checks or `keygen` ensures: two odd primes,
an exponent with an inverse, and a modulus with room for the encodings (`sig.c:79`,
`sig.c:162`, `enc.c:314`). That keys are primes is more than Miller and Rabin promise;
it is where the probability of an error is left out.

`EverySchemeReturns` and `EverySchemeIsGenuine` prove `RoundTrip` and `OnlyGenuine` of
every context of every scheme.

For RSA, also when the way to compute changes between sealing and opening, the
argument has three floors. The operations undo each other on every number below the
modulus, those that share a prime with it included (`OperationsUndo`): an exponent
that is one modulo p - 1 changes no remainder of p (`Fermat`, from Fermat's theorem,
`FermatHolds` of `NatLemmas`), and Garner's formula is
the power with `d` (`CrtIsPower`). Each encoding opens to its message, with the
place of the first zero, or of the first byte that is not, found where the encoder put
it (`Pkcs1Opens`, `OaepOpens`, `PssOpens`), and each block that opens is one the
encoder makes (`Pkcs1Encoded`, `OaepEncoded`, `PssEncoded`): the second is what
`OnlyGenuine` needs and what a missing check of the decoder breaks. For PSS the bits
beyond `EmBits` are cleared before and after masking, so `ByteAssumption` says that the
exclusive or works bit by bit. `RoundInv` is the invariant: `SealInv`, and of what was
made that it is a ciphertext, or a signature, of its message, of the right length; a
PKCS#1 padding under way has no zero. `ForeignAreBytes` is one more hypothesis on
types: what is opened is bytes, and the halves of a signature are.

For the schemes over a group `DlAssumption` and `EcAssumption` say what the headers
hold: for ElGamal a safe prime p = 2 q + 1 and for DSA a prime q, with a g that is one
to the q; curves as in `CurvesAssumption`, with bytes for an element of the field. Then

- exponents count modulo the order (`PowerSame`), so that a mask made with the public
  key is the one made with the private key (`DlOpens`; `EcOpens` with `SharedMultiple`,
  which is also what Diffie-Hellman rests on, the negative of a point on a Montgomery
  curve included);
- modulo a prime order what the signer solved gives the verifier the number that was
  drawn (`DsaSolves`), and the number the verifier finds solves the equation of the
  signer (`DsaSolved`): one direction is the round trip, the other is `OnlyGenuine`.
  For ECDSA and EC-ElGamal the sum of two multiples is the multiple of the sum
  (`EcEquationIs`, by the theorem on the addition formulas), infinity when that is zero:
  the verifier refuses exactly there;
- the order of ElGamal's exponents, p - 1, is no prime, and its g generates half the
  numbers below p. So the r of a signature that verifies is a power of g or the
  opposite of one (`PowersAndOpposites`, by counting), and the opposite only with an
  even s (`OppositePower`): this is the exception in `GroupGenuine`, and the proof shows
  that there is no other.

`GroupInv` is the invariant: the key is one of its group, what a call that signs has
drawn is in the range, and what was made is a ciphertext of its message under some
drawn number, or a signature under one that the signer could use.

A recursive function of the model is reached in a proof by an explicit witness of its
equation and induction by least elements (`StepRecursion`, `StepInduction` of
`NatLemmas`), as no backend can use the library's theorems on induction.

Only model-checked: liveness (`KeygenReturns`, `UpdateReturns`, `Returns`,
`SealReturns`), which is out of reach here; `QuarterLiars`, Rabin's theorem, of which
the proofs hold the half that every prime passes.

## What is not modelled

- The rounds of AES and DES, the compression functions and Keccak: no control,
  all data; the repository tests them with vectors.
- Text: hexadecimal conversions, and everything the calculator draws. Its other pages
  (hashes, tags, ciphers, numbers) keep nothing between two handlers.
- On Montgomery curves `equals` finds infinity, stored as (0, 0), equal to every
  point. No scheme calls it there; `EqualsAgrees` leaves the case out.
- The number of blocks of a DES file is an `int`; the lengths of the model are
  too small for it to wrap (see `hazards`).
- `rand_bytes` (`rng.c:68`) multiplies the number of bytes by eight in an `unsigned
  int`. `RandomNumbers` has that width (`UintBits`), and `EveryByteDrawn` claims the
  bytes only of requests it can count: below 2^29 bytes with an `int` of 32 bits.
- Where a page has two tabs, a choice (level, curve, variant) made on one holds for
  `keygen` on the other too (`rsa.py:77`). `KeyPages` models it; no document says
  otherwise, so nothing is claimed of it.
- `cc_ecelgamal_encrypt`, `cc_ecelgamal_decrypt` and `cc_ecdh_public` write outputs of a
  known size and compare the capacity themselves (`ecelgamal.c:112`, `:129`, `:199`)
  instead of calling `api_output`; `OutputBuffer` has the outputs of `common.c` only.
  Whether a tag fits its buffer is `OutputBuffer`'s question and not repeated in `Macs`.
- That `write_file` cuts a file down before it writes (`file_io.c:28`): `CipherCalls` has
  the loss, and `OnlyResults` permits it.
- Quality of random numbers, timing, and the time a search takes.

## Plan

Every safety property that a run checks has its theorem, `QuarterLiars` excepted. What
is left to model is a composition: a page with the Python object, the context of
`KeyContext` and the output protocol below it, so that a failed `keygen` reaches the
tab. `KeyPages` keeps of the object only whether it has a key and which one. The
theorems about `KeyContext` hold of any caller, those about `OutputBuffer` of the
callers its hypotheses describe.
