# A verification project for CryptographyEngineering

The repository is a course on optimised cryptography for the Arm Cortex-M: SHAKE256, a
Diffie-Hellman key exchange on the ristretto group of Curve25519, ML-KEM and ML-DSA, each in C
with parts in assembly, on a small board support layer for an emulated MPS2 board and an
STM32F4. This directory holds TLA+ modules that model it, TLC configurations that check them on
small instances, and TLAPS proofs of the results that matter most for all instances.

Every definition is translated from the code it names; `PROJECT.json` maps definitions to lines.

## 1. The system

| Component | State it keeps | Operations | How others use it |
|---|---|---|---|
| **Keccak front ends** `ml-kem/fips202.c`, `ml-dsa/fips202.c`, `shake256/shake256.c` | `keccak_state`: 25 words and a position | init, absorb, finalize, squeeze, squeezeblocks, absorb_once, one-shot SHAKE and SHA3 | hashes, samplers and the test programs call them; three separate copies that must agree |
| **Keccak permutation** `keccakp1600_*.S` (vendored) | none | AddBytes, ExtractBytes, Permute | called by `ml-kem/fips202.c`; the other two copies have a permutation in C |
| **Cycle clock** `common/hal-*.c` | SysTick counter, `overflowcnt` | `SysTick_Handler`, `hal_get_time` | shared between an interrupt and a thread without a lock |
| **Random bytes** `common/randombytes.c` | a 128-bit counter, a buffer and its fill; or the hardware generator | `randombytes` | key generation, encapsulation, signing |
| **Stack measurement, heap** `common/hal-*.c` | sprayed stack region, break pointer | `hal_spraystack`, `hal_checkstack`, `__wrap__sbrk` | test programs |
| **Field arithmetic** `ecdh25519/fe25519*.{c,S}` | none (operands in place) | add, sub, neg, mul, square, freeze, cmov, cswap | the group |
| **Ristretto group** `ecdh25519/group.c` | none | add, double, pack, unpack, cswap | scalar multiplication |
| **Scalar multiplication** `ecdh25519/smult.c`, `gen_base_table.c` | a table made at build time | `crypto_scalarmult`, `crypto_scalarmult_base` | the key exchange of the test program |
| **ML-KEM coefficients** `ml-kem/reduce.c`, `poly.c`, `poly.S`, `polyvec.c` | none | Barrett and Montgomery reduction, compression, message bits | encryption |
| **Samplers** `ml-kem/indcpa.c`, `cbd.c`, `ml-dsa/poly.c` | locals: a buffer of blocks, a position, a count | rejection sampling, binomial noise, challenges | key generation, encryption, signing |
| **ML-KEM** `ml-kem/indcpa.c`, `kem.c`, `cbd.c`, `verify.c` | key pairs and ciphertexts of the callers | keypair, enc, dec | the top-level interface |
| **ML-DSA encoding** `ml-dsa/packing.c` | none | pack and unpack keys, signatures, hints | signing, verification |
| **ML-DSA rounding** `ml-dsa/rounding.c`, `reduce.c` | none | power2round, decompose, make_hint, use_hint, reduce32, caddq | signing, verification |
| **ML-DSA** `ml-dsa/sign.c`, `poly.c`, `polyvec.c` | locals of the signing loop | keypair, signature, verify, sign, open | the top-level interface |
| **Transforms** `ml-kem/ntt.S`, `ml-dsa/ntt.c` | tables of roots | ntt, invntt, base multiplication | all products |
| **Tests, start-up, output, build files** | | | |

### What is hard in it, and what makes each part correct

* **Concurrency** happens in one place. `hal_get_time` reads a 64-bit counter that an interrupt
  handler writes, in two 32-bit accesses, around a read of a hardware counter that wraps. It is
  correct if the time returned was the time at some moment of the call, and if it returns.
* **Positions that outlive a call**: the sponges keep a position between calls, each copy of the
  code with its own convention (an index returned from a loop, a block buffer, `pos == rate` for
  "the block is used up"). They are correct if the output depends only on the bytes absorbed and
  the suffix, never on how message and output are cut into calls. `randombytes` has the same
  problem with a buffer that is handed out from its end.
* **Bounds that no test reaches**: carries that wait in the top bits of a word, quotients that are
  approximated by a multiplication and a shift, values next to the prime, low bits at exactly
  `-GAMMA2`, sums of a transform that nothing reduces. They are correct if residue and range hold
  for every operand that other operations can leave behind.
* **State in an unusual place**: the Keccak assembly keeps a lane as its even and odd bits, in
  place, for three rounds of four at the address of another lane and before a rotation it should
  have had. It is correct if, seen through that encoding, every round is the round of the two
  copies in C.
* **Streams in blocks**: samplers reject candidates of a stream that arrives in blocks, and the
  block after the first squeeze is hardly ever needed: once in some 100000 polynomials by
  `poly_uniform_eta` with ETA 4, practically never by `poly_uniform`. They are correct if the
  polynomial depends on the stream alone. (The blocks of 168 bytes are a multiple of three, so that no
  candidate of three bytes is cut by the end of one; `poly_uniform` has code for it, which the run
  reaches with blocks of 10.)
* **Fields without a separator**: keys, signatures and ciphertexts are bits behind bits, at widths
  from 3 to 20, written by one expression and read by another. They are correct if both agree, if
  no byte is left as it was and no bit is ignored.
* **Memory that others write to**: the stack is measured by loops through memory into which an
  interrupt pushes its frame. They are correct if the result is never too small.
* **Loops without a bound and branches that are almost never taken**: the rejection loop of ML-DSA
  has four tests; one is hardly ever true, and a test that is a little too weak still gives
  signatures that verify. It is correct if the signature verifies, if it hides the key, and if no
  mask is used twice.
* **Failure**: decapsulation of a changed ciphertext, signatures that are refused, contexts that
  are too long, strings that are no point or no hint. They are correct if nothing is accepted that
  was not made by the other side, and nothing of what was refused is left.
* **Arguments that share memory**: a signed message is made and opened in place.

`PROJECT.json` lists the hazards one by one, at the line where each bites, with the properties
that would show it.

## 2. The modules

| Module | Models | Builds on |
|---|---|---|
| `Sponge` | the state as lanes of symbolic bits, what is absorbed into which byte and padding; the permutation is symbolic: it moves the window by one block | |
| `XofSpec` | **abstract**: an extendable-output function; a message grows, is finalised, bytes of its stream reach the caller in order | `Sponge` |
| `KeccakF1600` | the permutations of `ml-dsa/fips202.c` and `shake256/shake256.c`, a lane as the set of its bits: planes, pairs of rounds, constants | |
| `KeccakP1600` | the assembly of `ml-kem`: interleaved halves, places and delayed rotations, half plane by half plane, with its entry points for bytes; runs beside the two copies in C | `KeccakF1600` |
| `Keccak` | `ml-kem/fips202.c`, a call, an iteration of a loop or a return per step | `Sponge`, implements `XofSpec` |
| `KeccakBytes` | `ml-dsa/fips202.c`: loops over bytes with an index that is returned | `Sponge`, implements `XofSpec` |
| `Shake256` | `shake256/shake256.c`: padded block buffer, last partial block through a second one | `Sponge`, implements `XofSpec` |
| `HalTime` | tick, handler, each access of `hal_get_time`, words of `overflowcnt` in any order | |
| `RandomBytes` | `randombytes` with its counter, buffer and loop, and the branch for a hardware generator | |
| `BoardMemory` | `hal_spraystack`, `hal_checkstack`, `__wrap__sbrk` word by word, the measured function and the frames of interrupts | |
| `Fe25519` | limbs, waiting carries, products in wide limbs of a mixed radix and the contraction to bytes, freezing, conditional moves; places are given by weights, not by shifts | |
| `Group` | the formulas of `group.c` on residues, packing, square roots | |
| `Ristretto` | one operation at a time on two points and a string, beside their discrete logarithms | `Group` |
| `ScalarMult` | the ladder bit by bit, the windows, the table and its generator, an exchange of two parties | `Group` |
| `KyberCoeff` | reduction, compression, message bits of ML-KEM, at the real constants | |
| `KyberChannel` | one message bit through encryption and decryption | `KyberCoeff` |
| `KyberNtt` | the transforms of `ntt.S` pass by pass on 256 coefficients of 16 bits, base multiplication, and the reductions around them | `KyberCoeff` |
| `KyberSampling` | `gen_matrix` with its rejection sampling, an iteration of a loop per step; binomial noise | |
| `PackedKeys` | the expressions by which each packing function makes a byte, and each unpacking function a word (a word is the set of its bits); keys, signatures and ciphertexts as lists of fields at offsets, for every parameter set; packed and read, or read and packed again | |
| `IndCpa` | the encryption scheme, packing included, on polynomials of `KYBER_N` coefficients in vectors of `KYBER_K` | `KyberCoeff` |
| `MlKem` | key owners and senders, ciphertexts delivered as sent, changed or to another key | `IndCpa` |
| `Rounding` | coefficients of ML-DSA: reduction, rounding, hints | |
| `Reduction` | `poly_reduce` and `poly_caddq` on one coefficient | `Rounding` |
| `DilithiumNtt` | `ntt`, `invntt_tomont` butterfly by butterfly with `montgomery_reduce`, and the product between them | |
| `DilithiumSampling` | `poly_uniform`, `poly_uniform_eta`, `poly_challenge`, an iteration of a loop or another block per step | |
| `Signing` | key generation, the rejection loop test by test, verification, small polynomials | `Rounding` |
| `HintCodec` | the hint part of `pack_sig` and `unpack_sig`, a byte per step | |
| `SignedMessage` | `crypto_sign`, `_open`, `_signature`, `_verify` with contexts over one memory | |

`*Proofs` modules hold the proofs about the module they extend; `MC*` modules give the constants
of a run their values. Some `MC` modules put components that share nothing into one run: `MCSponges`
(the three sponges), `MCBoard` (clock, random bytes, memory), `MCGroup` (the group and what is
computed with it), `MCSignature` (hints, fields, signed messages) and `MCPolynomials` (transforms
and samplers). A behaviour of such a run is of one component, the others rest.

How they compose: the hashes that `IndCpa`, `MlKem`, `Signing` and `SignedMessage` use are terms,
equal only for equal inputs; that the code computes a function of the input, however it is fed,
is what the sponge modules show; that the permutation under them is one function, in three
implementations, is `KeccakP1600`. `Group` works on residues because `Fe25519` shows that the limbs
stand for them and that freezing is canonical. `MlKem` extends `IndCpa`, which uses the operators
`KyberChannel` is about. `Signing` takes its rounding from `Rounding` and leaves the hint as an
array that `HintCodec` encodes (its other fields are in `PackedKeys`); the matrices, vectors and
challenges that `IndCpa` and `Signing` take as given are what `KyberSampling` and
`DilithiumSampling` produce, and the products they compute directly are what `KyberNtt` and
`DilithiumNtt` come to. `SignedMessage` takes a signature as bytes that determine what was
signed, which is what `Signing` and `HintCodec` are about.

### State and actions

* A function with a loop that keeps state is several actions, one for the call, one for an
  iteration and one for the return (`Keccak`, `RandomBytes`, `ScalarMult`, `HintCodec`), so that
  what the loop computes is an invariant and not a definition. `pc` or `op` says where it is.
* A function that computes one value is an operator (`Fe25519`, `Group`, `KyberCoeff`, `Rounding`)
  and the state machine around it applies one after the other, so that each is seen on what the
  others leave.
* A transform is butterfly by butterfly where its ranges are proved (`DilithiumNtt`) and pass by
  pass where all 256 coefficients are computed (`KyberNtt`).
* In `Signing` each test of the loop is an action of two branches: reject (`goto rej`) or go on.
* `SignedMessage` has one action per library function. Memory is one array, and the copying loops
  are functions on it, from the first or from the last byte as in the code.
* Names are those of the source. Variables without a counterpart in the code say in their comment
  what they record (`given`, `asked`, `used`, `turns`, `signed`, `intact`, ...).

## 3. The runs

| Run | Bounds | States | What it shows |
|---|---|---|---|
| `sponges` | the three copies; rate 3, messages to 7 bytes, outputs to 8, digests of 2 | 27450 | `AbsorbPosition` between calls; every output byte is its byte of the stream (`OutputIsStream`), digests too (`DigestComplete`); each copy implements `XofSpec`; every call returns |
| `permutation` | all 1600 bits and 24 rounds; three calls, five regions of the state | 21418 | after every round the assembly holds the state of the two copies in C, in its own representation (`RoundsAgree`); bytes go in and out at every offset alike (`BytesAgree`) |
| `board` | clock: period 16, words of one bit, handler latency 3, passes of 5, 70 ticks; generator: words of one bit, blocks of 4, requests to 6, 28 bytes; memory: nine words, two interrupts | 257759 | time within the call, at most one retry, every call returns; one stream, served in full; the measured depth is never too small |
| `fe25519` | p = 2^14 - 3, three limbs, every two operations in a row | 14128 | limbs are bytes afterwards and the residue is right (`FieldValue`), packing is canonical |
| `group` | the curve d = 11 over 109 elements: 104 = 8 * 13 points, every pair, every string; scalars of two bytes | 124918 | complete formulas; packed forms are equal exactly modulo torsion; unpacking accepts exactly what packing makes; the loops hold the multiple read so far; windows never need a doubling; two parties agree |
| `kyber_channel` | the real q, 4 and 5 bits, nine products, every noise to 840 | 181548 | within the tolerance the bit arrives; compression loses at most half a step |
| `ml_kem` | vectors of two, four coefficients, two keys, two messages, every byte of a ciphertext raised by one | 21515 | secrets agree exactly when the ciphertext arrives; one secret per ciphertext |
| `signing` | prime 113, eight intervals of 14, two coefficients, 2 x 2 matrices, masks of six values, three turns, four nonces | 109324 | what is signed verifies and nothing else does (`SignatureVerifies`); what leaves the loop fits every short secret that has the same public key (`ResponseHidesSecret`); masks are fresh until the nonces are used up (`MasksAreFresh`) |
| `signature` | hints of three polynomials of five coefficients, three ones; fields of eight coefficients in vectors of one and two, all parameter sets; signatures of two bytes, messages to three, contexts to one and one too long, three calls | 447948 | what is packed is read (`PackedIsRead`), what is accepted is the one encoding of what was read (`AcceptedIsCanonical`), bytes are the bits of the coefficients in both directions (`FieldsAndBytesAgree`); messages come out as signed, nothing else is accepted, what is refused is cleared |
| `polynomials` | ML-DSA: 16 coefficients modulo 641 in words of 15 bits; ML-KEM: 256 coefficients, q and tables of the source; samplers: 8 coefficients from blocks of 10 bytes, two at first, 2 x 2 entries of 4 coefficients from blocks of 3 | 25301 | no sum leaves its word (`StaysInWord`); the transforms give the product (`DilithiumProduct`, `KyberProduct`); the samplers take the first accepted candidates in order (`FirstAccepted`, `KyberSamples`); challenges are uniform and noise is binomial |
| `kyber_compress_c`, `reduce32` | | | findings, see section 6 |

### Why the bounds are enough

* **Sponges.** What can go wrong depends on where a call begins and ends relative to a block. With
  a rate of 3 the bounds allow every remainder on both sides of one and of two blocks, for message
  and output, and padding that shares a byte with the suffix or not. The permutation is symbolic,
  so two streams agree only if the same bits were absorbed at the same places. The proofs in
  `SpongesProofs` lift the bounds for all three copies.
* **Permutation.** There is no bound on state or rounds. Offsets and lengths begin and end inside a
  lane, within one lane, at its borders and over whole lanes, on either half. A bit of the
  input reaches the whole state within a few rounds, so that one input with bits everywhere
  tells any two different steps apart; four rounds bring the places and rotations back, and 24 go
  through them six times.
* **Clock.** Words of one bit make the carry into the high word, which on the board comes after
  2^32 wraps, the second of four wraps. `Latency + Pass + 1 < Period` is what the code relies on:
  one pass and one handler fit into one period of 2^24 cycles. The proofs lift all values.
* **Random bytes.** 28 bytes of blocks of 4 take the counter through the carry into each of its
  four words, with every way to cut them into requests. A request of up to six bytes from the
  hardware generator is of one word, of a part, and of both.
* **Memory.** Nine words hold a heap that moves by one, a frame, two pushed frames and a call of
  every depth; what happens depends on the order of those borders only.
* **Fe25519.** The prime has the shape of 2^255 - 19: the top limb is one bit short, odd wide limbs
  are one bit short of even ones, p is 5 modulo 8, and the waiting bits of a limb are in the same
  proportion to the constants that are folded in. Operands are at the bounds of their limbs and
  what operations made of them. The proofs lift the bounds.
* **Group.** The small curve is twisted by -1, has a square root of -1 and non-square d, and
  a cyclic group of eight times a prime, as in the code: everything that packing is about (the
  torsion, the signs, the rotation) is there, and the run takes all points, so that no special case
  of the formulas is missed.
* **Scalars** are two bytes: with all bits, few bits, and patterns that make every window value and
  carry, over both ends of the loop over bytes.
* **Transform of ML-KEM.** The arithmetic is exact and of full size; the five pairs of polynomials
  have coefficients at their limits, with alternating signs, and one pair whose transformed product
  is 1664 everywhere, which gives the largest sums of the inverse. That the result is the product
  is linear in each operand, so that a wrong root shows on any of them.
* **Transform of ML-DSA.** TLC has integers of 32 bits, so that the run takes 16 coefficients and
  words of 15 bits, with the largest prime below the limit that has the roots. Ranges and product are
  proved for the real parameters (section 4). The table of the run is computed, in the order of the
  source. The 256 numbers in the table of `ml-dsa/ntt.c` are in the module too (`ZetasOfSource`), and
  TLC evaluates for them what the proof asks of a table (`TableOfSource`, products modulo Q by
  doubling): a digit that is wrong makes it false.
* **Samplers.** Streams are rejected often, at both sides of the limit, so that three and more blocks
  are needed, as poly_uniform_eta needs them with ETA 4 (the first squeeze is of two blocks, and what
  is left of it in the buffer must not be read again). Blocks of 10 bytes end inside a candidate of
  three bytes in every way, which the code allows for and its own blocks never do. 40 streams, and all
  ways to give three streams to four entries. Noise is made from words with every pattern of
  12 bits, repeated and reversed so that both halves and all fields are hit.
* **Fields.** One block of the longest format; the coefficients go through all powers of two, none
  and all bits, moved on 22 times, so that each bit of each coefficient of a group is seen alone.
* **ML-KEM.** A byte of a ciphertext holds parts of up to two coefficients of its four, so four
  coefficients exercise all of the packing; larger polynomials repeat it.
* **Signing.** The parameters keep the relations that the tests rest on (`BETA = TAU * ETA`,
  `BETA < GAMMA1, GAMMA2`, `Q - 1` a multiple of `2 * GAMMA2`, `GAMMA1 <= (Q-1)/8`). The keys were
  chosen so that every branch is taken often: signatures with no, one and two hints, with too many,
  with low bits of exactly `-GAMMA2`, and with a `c t0` that is too large. With the parameters of
  mode 3 the last cannot happen (49 * 4096 < 261888), with those of mode 2 it can. Two turns show
  what one turn leaves for the next; the nonces of the third begin again, since there are four.
* **Signed messages.** A message of three bytes moves by two, so that source and destination
  overlap and the direction of the copy matters. Three calls are a signature, what happens to it,
  and what is done with it.

Cap and bound constants are named and described where they are declared (`MaxIn`, `MaxOut`,
`MaxTime`, `MaxBytes`, `MaxDrawn`, `MaxPushes`, `MaxOps`, `MaxKeys`, `MaxSent`, `MaxReceived`, `MaxAttempts`, `MaxCalls`).
Runs without a deadlock check are of components that stop at such a bound or after one call.

### Fairness

* `Keccak`, `KeccakBytes`, `Shake256`: weak fairness of `Step`. A function that was called runs on;
  nothing says that a caller calls.
* `HalTime`: `WF_vars(Step)` for the thread, `WF_vars(SysTick_Handler)` because the interrupt is
  enabled and nothing in the program masks it for ever, and `WF_vars(Tick)` because the counter is
  hardware. No strong fairness is needed: that the loop ends is a matter of how often it can be
  disturbed in the length of a pass.
* Everything else is checked for safety only. That a request is served in full is part of the
  invariant `OutputIsStream` of `RandomBytes` (what a return has delivered). The rejection samplers
  end when enough candidates are accepted, which no fairness gives. The rejection loop of ML-DSA has no bound
  and terminates with probability one, which is not a property of behaviours; that it ends is
  neither assumed nor shown.

## 4. What is proved

All proofs are checked by TLAPS for every value of the constants that the named assumptions allow.
Eight modules hold them. Almost no property is inductive: it says what holds between two calls, and
a call is many steps. Each module therefore defines an invariant (`...Inv`) that says what holds at
each place of each loop, shows that every action keeps it, and that it implies the property.

**Induction.** The library's induction theorems cannot be instantiated by the installed provers.
Where a proof needs induction over naturals it uses the lemma `SetInduction` (a set of naturals with
0 that is closed under successor is all of them), which follows from the well-foundedness of strict
inclusion on finite sets, or of `<`. What a recursive function computes for every length is proved with it.

* **`SpongesProofs`** (`SpongeAssumption`, `HashAssumption`). For each of the three copies: types,
  `AbsorbPosition`, `OutputIsStream`, `DigestComplete`, and that it implements `XofSpec`. `IInv`
  (`Keccak`), `BytesInv` and `BlocksInv` add what holds inside each loop: how much of the message is
  in the lanes, how much is still to come, where in the stream the block is that is being copied, and
  for `shake256.c` what its block buffer holds. The lemmas are about division by the rate, about one
  more byte range absorbed or extracted, and about padding. The refinement maps `n` to `given` and `m`
  to `outp`; an iteration of a squeezing loop is a `Squeeze` of the abstract function, every other
  step of a call stutters. The theorems about `MCSponges` put the three together: whatever the
  message and the way it is cut, the copies agree, since they implement one function.
* **`BoardProofs`** (`HalTimeAssumption`, `BoardAssumption`).
  - `ReturnsTrueTime` for every period, word size and latency. `IInv` says that counter and handler
    agree up to the pending interrupt (`Clock`), that the handler runs at most once in a pass
    (`AtMostOneHandler`), and that a pass with a wrong result will see a changed `overflowcnt`, word
    by word as far as it has been read (`WrongIsNoticed`).
  - `RetriesAtMostOnce` needs more room than `ReturnsTrueTime`: not one pass but two and the latency
    between two interrupts, `Latency + 2 * Pass + 2 < Period`. With periods 12 and 13, latency 3 and
    passes of 5 `HalTimeAssumption` holds and a third pass happens; on the board a period is 2^24
    cycles and a pass a few dozen.
  - `OutputIsStream` of `randombytes`: `RandomInv` says how many blocks have been computed, from which
    counter, and how much of the last is left; that the four words with their carries are the number
    of the block is an induction over the words.
  - `StackMeasured`: `MemoryInv` says where the pattern still is while the two loops go through the
    memory and interrupts push their frames below them.
* **`GroupProofs`** (`GroupAssumption`, `CurveAssumption`, `RistrettoAssumption`,
  `ScalarMultAssumption`). `CurveAssumption` is what mathematics knows of the curve and says nothing of
  the code: p is a prime (residues have reciprocals, and x^(p - 1) = 1), the points are a cyclic group of
  8 * Prime elements under the affine addition law, that law divides by neither 0, and a point is an even
  multiple exactly if 1 - y^2 is a square. The last holds because there is one point of order 2, so that
  the even multiples are the image of an isogeny of degree 2, whose points 1 - y^2 tells apart. TLC
  evaluates all of it for the curve of the run.
  - `PointsAreMultiples`: `group_ge_add` and `group_ge_double` are that law for every two points, equal,
    opposite, neutral or of small order, in all coordinates (`AddRepresents`, `DoubleRepresents`: the
    polynomial identities behind the formulas, and that no denominator is 0); a string that
    `group_ge_unpack` does not reject gives a point on the curve (`DecodedPoint`: the test of the square
    root makes it one, whatever the root is when the test fails) and an even multiple
    (`UnpackRepresents`). `RistrettoInv` adds that the exponents are even and the string a number.
  - `PackIsCanonical`: the four points that differ by 4-torsion are `Coset`, and their exponents are those
    that are the same modulo 2 * Prime (`TorsionExponents`, `CosetExponents`). Packing takes the one whose
    first coordinate and whose product of coordinates are not negative (`Folded`), the same for all four
    (`FoldedOfCoset`), and gives the root of (1 - y) / (1 + y) that is not negative (`PackRoot`, by one
    polynomial identity for each side of the rotation: `StraightRoot`, `TurnedRoot`). That root is known
    from y and gives back y, then x (`RootIsUnique`, `FoldedIsUnique`). The four points with a coordinate
    0 are packed to 0, and no others (`PackDegenerate`, `ZeroIsNoRoot`). All this needs the square root
    to be one: `RootOfSquare` shows it of `fe25519_invsqrt` for the square of every number but 0, with the
    exponents of its addition chain and the second try with `sqrtm1`; for 0 it gives 0 (`RootOfZero`).
  - `UnpackInvertsPack`: what is not rejected is such a root for a point that `Folded` leaves alone
    (`PackGivesBack`); and what was packed makes the number under the root a square
    (`RadicandIsSquare`), so that `group_ge_unpack` comes to the folded point, whose signs it accepts
    (`UnpackTakesPacked`).
  - `LadderIsPrefix`, `WindowsAddUp`: `ExchangeInv` says in which call the machine is, that the scalar is
    that of its party, and what each key and each secret stands for. Clamping makes the bits above the
    first one of the loop a 1 (`ClampedTop`); one more bit or window is `LadderSteps` or `WindowSteps`;
    the recursive functions that make the table are followed entry by entry (`WindowBases`,
    `TableEntries`).
  - `SecretsAgree`: what is unpacked from a public key is the multiple that was packed, up to 4-torsion
    (`PackingTellsPoints`), and both products of scalars are the same modulo 2 * Prime (`ExponentsMeet`).
* **`Fe25519Proofs`** (`Fe25519Assumption`, `WideAssumption`). `FieldValue` and `PackIsCanonical` for
  limbs and wide limbs of any number and size and every modulus that the assumptions allow. `FieldValue`
  is inductive as it stands: every operation takes carried elements to carried elements. What has to
  be shown is that the carries of each operation suffice.
  - `Fe25519Assumption` bounds the constants: `2C <= B`, the top limb holds at least 4 values, a word
    at least `4B`. `WideAssumption` says that the wide limbs hold the same numbers
    (`WideWeight[n] = M`), that every product of two weights is a multiple of the weight it is counted
    at (limbs of 26 and 25 bits in turn, so that only a factor of 2 is needed), and that what the
    largest product carries out of the top is small (`C * (LargestProduct \div M + 4) <= M`). TLC
    evaluates them for the run. In the code B = 256, Top = 128, N = 32, C = 19, W = 2^32, and there are
    ten wide limbs of 26 and 25 bits, 255 in all; the largest product is below 2^285, so that what comes
    out of the top counts less than 2^34.
  - Sums of limbs: a fold over a set is the sum in any order (`IterationIsSum`, `SumReordered`), sums
    are linear, double sums may be exchanged. Limbs times weights are numbers in mixed radix: digits
    exist and are unique (`DigitsOfNumber`, `DigitsAreUnique`), and a chain of carries keeps the number
    but for what goes out of it (`CarriesKeepValue`, `CarriesDivide`).
  - `reduce_add_sub`: up to three carries wait in each limb after a sum. If the first pass leaves the top
    limb below Top, the second finds nothing to do; if not, it has just passed Top, and what the second
    leaves there has room for the carry from below (`ReduceCarries`). `fe25519_sub` adds 2p limb by limb,
    with no limb below zero.
  - `fe25519_freeze`: a carried element is p or more only if all limbs but the lowest are those of p
    (`FreezeIsResidue`), so that one subtraction is enough; equal residues then have equal limbs.
  - Products: each limb of a product is the sum over the pairs of limbs that count there, and its weight
    times the factor is the product of their weights, or C instead of M times it (`Factors`). The square
    takes each pair once (`SquareIsProduct`). Each rounded carry changes the number by a multiple of p
    (`RoundingStep`), the n + 2 of them leave what is within the reach of `contract_limbs`
    (`CarrySequence`, `ProductContracts`), whose chains do the rest (`ContractKeepsResidue`): adding C and
    taking it away subtracts p from what is not below it.
  - The wide limbs of the model are integers. At the parameters of the code the largest limb of a product
    is below 2^59 and a carry adds less than 2^40, so that the 64-bit accumulators of the assembly hold
    them; that is arithmetic on constants too large for TLC, done by hand.
* **`MlKemProofs`** (`KyberChannelAssumption` and those of `MlKem`). `barrett_reduce` for every 16-bit
  word; `LostInCompression` and `BitSurvives` for every product and every noise, at the real constants:
  `ChannelInv` records what each variable was computed from, the rest is arithmetic in lemmas about
  one function each.
  - For the encryption (`IndCpaAssumption`), `MlKemDecryptionWorks`: for every number of coefficients
    that is a multiple of four, every number of polynomials, every key and all coins, `indcpa_dec` of
    `indcpa_enc` is the message, if no coefficient of `DecryptionNoise` is beyond 727, the tolerance of
    `BitSurvives` for 4 bits. A key holds t, which is A s + e modulo q; a ciphertext holds the transpose
    of A times r with its error, up to what compression takes away (`Compress10`: at most 2), and t r
    with its error, up to 104 (`Compress4`). `ProductsDiffer` says that r (A s) and s (A transposed r)
    cancel, in the ring of polynomials modulo x^n + 1, whose products are sums that may be exchanged
    (`SumsExchange`, `ProductsExchange`, `Transposed`) and commute. What remains is `DecryptionNoise`:
    r e - s (error and loss) + the last error. The bytes give back what was packed: `BytesRoundTrip`
    (12 bits), `VectorRoundTrip` (10 bits, four coefficients in five bytes at their place in the
    vector), `PolyRoundTrip` (4 bits, after the vector).
  - For the protocol (`MlKemAssumption`), `MlKemInv`: every key, every ciphertext sent and every secret
    returned is that of a call of the functions. From it `ChangedIsRejected` and
    `OneSecretPerCiphertext`; with the decryption, `SecretsAgree` where the noise is small for the
    messages sent to the keys made (`MlKemSecretsAgree`): the comparison with the re-encryption rejects
    nothing that was sent. `NoiseBound` bounds the noise by `12 * n * k + 2`, since `cbd2` gives numbers
    within 2 of zero: that is 98 in the run, where both sides agree for all coins, and 9218 with the
    dimensions of the source, which is more than 727. That it is small for all
    but very few is a probability and no theorem here, so that it stays a condition. The hashes are
    terms, so that `ChangedIsRejected` says that no two different calls hash the same input.
* **`SigningProofs`** (`RoundingAssumption`, `SigningAssumption`, `MaterialAssumption`,
  `WidthAssumption`; TLC evaluates the last one for the three parameter sets of `params.h`).
  - Rounding: the hint gives the high bits back (`HintRecoversHighBits`), by the interval in which the
    sum lies, with the wrap at Q as the fourth case; the shifts of `decompose` are the division they
    stand for, for all 8380417 coefficients of both sets; `reduce32` and `power2round` keep their
    ranges.
  - `MasksAreFresh`: the cardinality of a set is not inductive, so the invariant says which nonces there
    were: those from 0 to `L * turns - 1`, each modulo the word, and the counter is the number of turns
    modulo the word (`NoncesInOrder`). Both the counter and the product with L wrap, and a remainder
    does not depend on which of them did (`WordsDropped`). A loop of more than 2^16 / L turns begins to
    repeat its masks (13107 in mode 3, where the expected number is about five); the run goes there.
  - `SignatureVerifies`. `SigningInv` says what key generation, the commitment and each test leave.
    The verifier computes A z - c t1 2^D, the signer has A y, and both are the same up to a correction
    `v` of the low bits that the tests have bounded. That is the algebra of polynomials modulo x^N + 1,
    and it is proved from the loops that add: sums are linear (`SumIsLinear`, also of residues), double
    sums may be exchanged (`SumsExchange`); a polynomial that goes on beyond its end with the sign
    changed (`Wrapped`) turns the two branches of `Product` into one sum (`Conv`), so that
    A (c s) and c (A s) are the same residues (`ProductsExchange`, `RowOfResponse`). The residues have
    one standard representative (`StandardCoefficient`, which bounds what `reduce32` is given), and
    `HintRecoversHighBits` does the rest. Fields of key and signature are read back because the tests
    and the ranges of the samplers bound what is put into them.
  - `ResponseHidesSecret`: the sum of TAU coefficients of a short polynomial is within BETA
    (`SumOfFew`), so that `z - c s` is in range for every short `s`, whichever representative the
    product has (the test of z leaves BETA of room). The second part is the algebra again, with t - s in
    place of t1 2^D: the low bits differ from those that were tested by c s, for which the test of the
    low bits leaves BETA of room too, and as they stay below GAMMA2 the high bits are the same
    (`HintOfCorrection`). A mutant of each test shows that the room is needed.
* **`SignatureProofs`** (`SignatureAssumption`, `SignedMessageAssumption`). `HintInv` says for each loop
  of `pack_sig` and `unpack_sig` what it has done so far: `PackedIsRead` (never outside the array,
  whatever the bytes are, and what was packed is read) and `AcceptedIsCanonical` (what is accepted is
  the one encoding of what was read). `MessageInv` says that every cell of a signature in memory
  belongs to something that was signed: `AcceptedWasSigned`, `OpenReturnsMessage`,
  `RejectedIsCleared`. The copying loops are recursive functions on the memory; that they move what
  overlaps, from the right end, is an induction over their turns.
* **`PolynomialsProofs`** (`NttAssumption`, `RootsAssumption`, `PolynomialsAssumption`).
  `StaysInWord` for every size up to 256, prime, word and table: `N * Q < R / 2`, which for ML-DSA
  is 256 * 8380417 = 2145386752 < 2^31 = 2147483648, and `(layers + 1)^2 (Q - 1) <= R / 2`, which is
  81 * 8380416 = 678813696 < 2^31. `NttInv` gives the range of each coefficient from its place in
  the loops: before a forward layer all are within `(layers done + 1) (Q - 1)`, inside a layer those
  before the current butterfly have the range of the next layer and the others still their own; the
  inverse doubles the range instead. Montgomery reduction of a product of a root and a word is
  within Q - 1 (`MontgomeryRange`). The bound is used up: the last layer of the inverse reaches `N
  (Q - 1)`.
  - `DilithiumProduct` (`NttProduct`, `PolynomialsProduct`), for every two polynomials.
    `RootsAssumption` is what the table has to be: the square of the first root is -1, the squares of
    the roots 2k and 2k + 1 are plus and minus the root k, the roots of a layer in reverse and negated
    are the inverses of those in order, and F takes out N and two factors of a Montgomery reduction.
    `ValueInv` says beside `NttInv` which layer each coefficient has come to: in `ntt`, `vec[i]` is
    congruent to what the layers so far make of the polynomial (`Value`), a linear map over the
    integers (`ValueOfSum`); in `invntt_tomont`, to `len / R` times what the layers that are not undone
    make of the product. A layer makes 1 of 1 (`LayerOfOne`) and commutes with the multiplication by x
    modulo what the block is a residue of, x^len - gamma (`LayerOfShift`: here the squares of the roots
    are needed). After the last layer the blocks have one coefficient, in which x is a number, so that
    the value of a power of x times y is the product of their values (`ValueOfTurned`), and so is that
    of x times y (`ValueOfProduct`); the sums of `Product` are taken apart by `PartialProducts`. The
    layers of the inverse undo a layer and double it, for which the roots need to be inverses
    (`MirrorRoots`).
  - `FirstAccepted` (`StreamsOfBytes`) is proved for `poly_uniform` and `poly_uniform_eta`, every
    stream of bytes and every length of blocks. `SamplingInv`: the buffer is the end of what was
    squeezed, and the candidates seen are the bytes before the position. `SamplersInv` is the
    invariant of the run, in which the sampler of ML-KEM uses the same variables.
  - `KyberSamples` (`PolynomialsKyberSamples`, `KyberStreamsOfBytes`), every stream of bytes, size of a
    matrix, length of an entry and number of blocks. `MatrixInv`: the entries before the current one
    are full, those after it are not written, the buffer is the end of what was squeezed from the
    current entry's own stream, and the bytes before the position are a whole number of pairs of
    candidates, whose accepted ones are what was written (`Entry`). The argument needs that a block is
    a multiple of three bytes, as the #error demands: `rej_uniform` forgets what it could not read. The
    second candidate of the last pair may be dropped, which is why an entry that is full has the first
    accepted candidates without being all of them. `NoiseInv` says that the noise is what `cbd2` or
    `cbd3` make of the word; that the fields of the sums do not reach each other (`DigitsOfTwo`,
    `DigitsOfThree`) then gives the difference of the numbers of ones (`NumberOfOnes`).

Only model-checked, and why:

* liveness (`CallReturns`), which the prover does not do;
* `RoundsAgree` and `BytesAgree`: the permutation is one computation and not a family of them;
* `KyberProduct`: the machine of `KyberNtt` is that of one table and one prime, with seven layers and
  products of pairs, and the argument of `DilithiumProduct` would have to be made again for it;
* `FieldsAndBytesAgree`: the expressions of each format are given as they are, and each of the finitely
  many is checked on every bit;
* `ChallengeIsUniform`, which counts the ways in which a challenge can come about.

## 5. What is not modelled, and why

* The entry points of the Keccak assembly that nothing here calls (`OverwriteBytes`,
  `ExtractAndAddBytes`, 12 rounds, any number of rounds). The multiplication assembly of
  `fe25519_mul.S` is modelled at the level of limbs, not of registers.
* The numbers in the generated tables of base points: TLC cannot compute even one of them, and
  `ScalarMult` models what they stand for.
* The samplers and the schemes are not composed: in `IndCpa` the matrix is a function of its seed, in
  `Signing` masks, challenges and short vectors are any value in their range. `poly_uniform_gamma1`
  unpacks a stream without rejection; its packing is `Z17` and `Z19` of `PackedKeys`.
* Compression to 10 and 11 bits at the real constants are operators of `KyberCoeff` that no run goes
  through for every coefficient; for 10 bits `Compress10` is proved, for all of them.
* Probabilities: that a decapsulation fails rarely, that the signing loop ends soon, that a
  sampler ends, that noise is within the tolerance of `BitSurvives`. Timing and side channels.
* Addresses: `BoardMemory` keeps the heap below the stack, which `__wrap__sbrk` does not test.
* Serial output, start-up, linker scripts, build files, vendored headers, the scripts that made the
  tables, and the tests.

## 6. Findings

* `kyber_compress_c`: `ml-kem/test.c` measures `c_poly_compress` and `poly_compress_s` side by side
  as one function in C and in assembly. They differ in one coefficient of a reduced polynomial: for
  3225 (or -104, the same residue) the assembly of `poly.S` gives 15 and the C function 0, which is
  what the rounding of the standard gives. The bit that is decompressed later survives (see
  `BitSurvives`, which is about the assembly), so no test shows it.
* `reduce32`: the comment of `reduce32` in `ml-dsa/reduce.c` promises a result of at least -6283008
  for every word up to 2^31 - 2^22 - 1. The word -2143289344 gives -6283009. `ReducedIsStandard`
  proves the range that holds, and that `caddq` still returns a standard representative.

Also worth knowing, though no comment says otherwise: message bits are read with `KYBER_Q/2 = 1664`
in place of 1665, so that 2497 is read as 0. The tolerance of `BitSurvives` accounts for it. And the
range `-Q < r < Q` that the comment of `montgomery_reduce` in `ml-dsa/reduce.c` gives for inputs up to
`Q * 2^31` is open on one side too many: `a = Q * 2^31` itself gives `Q`. No caller comes near it.

## 7. Plan

Done: all components of the table above, except those named in section 5; proofs for the sponges,
the board, the field, the group and the key exchange, compression, the encryption and the protocol of
ML-KEM, signing, signatures as bytes, the transform of ML-DSA, its samplers and those of ML-KEM.

Next, the most important first:

1. **`KyberProduct`**, along the argument of `DilithiumProduct`, with seven layers, products of pairs
   and the table of `ml-kem/ntt.c`; and the streams of the samplers from the sponge.
2. **An abstract key encapsulation** and an abstract signature scheme that `MlKem` and
   `SignedMessage` implement.
3. **Compression to 11 bits and noise from three bits** (`KYBER_K` of 4 and 2), with the loss and the
   bound that go with them.
