------------------------------- MODULE Keccak -------------------------------
(***************************************************************************)
(* ml-kem/fips202.c: the incremental API (init, absorb, finalize, squeeze, *)
(* squeezeblocks), absorb_once and the one-shot functions, over one        *)
(* keccak_state.  A step is a call, one iteration of a loop, or a return,  *)
(* so that what a loop computes is a matter of invariants.                 *)
(***************************************************************************)
EXTENDS Sponge

CONSTANT HashLen  \* bytes a sha3 digest takes from its only output block

ASSUME HashAssumption == HashLen \in 0 .. Rate /\ HashLen <= MaxOut

VARIABLES
  lanes, base,  \* the state s[25], see Sponge
  pos,          \* state->pos
  op,           \* the loop or straight-line code being executed
  call,         \* the function the caller called: it decides what follows
  in,           \* index of the next message byte to absorb
  left,         \* inlen, outlen or nblocks of the loop being executed
  outlen,       \* one-shot functions: bytes still to be squeezed
  out, outp,    \* the output buffer and the output pointer
  phase,        \* where the caller is in the protocol of the API
  given,        \* message bytes the caller has handed over so far
  asked         \* output bytes the caller has asked for so far

state == <<lanes, base, pos>>
ghost == <<phase, given, asked>>
vars == <<lanes, base, pos, op, call, in, left, outlen, out, outp, phase, given, asked>>

Ops == {"idle", "absorb", "absorb_once", "squeezeblocks", "squeeze", "hash"}
Calls == {"incremental", "shake", "sha3"}
Phases == {"none", "absorb", "squeeze"}

\* keccak_state is an uninitialised local until the first init or absorb_once.
Init ==
  /\ lanes \in {[a \in Addr |-> b] : b \in {Suffix, TopBit}}
  /\ base = 0
  /\ pos \in 0 .. Rate
  /\ op = "idle"
  /\ call = "incremental"
  /\ in = 0
  /\ left = 0
  /\ outlen = 0
  /\ out = EmptyBuffer
  /\ outp = 0
  /\ phase = "none"
  /\ given = 0
  /\ asked = 0

NewDigest(k) ==
  /\ phase' = "absorb"
  /\ given' = k
  /\ asked' = 0
  /\ out' = EmptyBuffer
  /\ outp' = 0

shake_init ==
  /\ op = "idle"
  /\ lanes' = ZeroLanes
  /\ base' = 0
  /\ pos' = 0
  /\ NewDigest(0)
  /\ UNCHANGED <<op, call, in, left, outlen>>

-----------------------------------------------------------------------------
\* Incremental absorbing.

shake_absorb(k) ==
  /\ op = "idle"
  /\ phase = "absorb"
  /\ given + k <= MaxIn
  /\ op' = "absorb"
  /\ in' = given
  /\ left' = k
  /\ given' = given + k
  /\ UNCHANGED <<state, call, outlen, out, outp, phase, asked>>

TakeWholeBlock == Rate  \* mutant: the bytes already in the block are forgotten
Take == Rate - pos

keccak_absorb_block ==
  /\ op = "absorb"
  /\ pos + left >= Rate
  /\ lanes' = AddBytes(lanes, base + pos, in, Take)
  /\ in' = in + Take
  /\ left' = left - Take
  /\ base' = Permute(base)
  /\ pos' = 0
  /\ UNCHANGED <<op, call, outlen, out, outp, ghost>>

keccak_absorb_tail ==
  /\ op = "absorb"
  /\ pos + left < Rate
  /\ lanes' = AddBytes(lanes, base + pos, in, left)
  /\ pos' = pos + left
  /\ op' = "idle"
  /\ left' = 0
  /\ UNCHANGED <<base, call, in, outlen, out, outp, ghost>>

Pad(l, b, off) == AddByte(AddByte(l, b + off, Suffix), b + Rate - 1, TopBit)

shake_finalize ==
  /\ op = "idle"
  /\ phase = "absorb"
  /\ lanes' = Pad(lanes, base, pos)
  /\ pos' = Rate
  /\ phase' = "squeeze"
  /\ UNCHANGED <<base, op, call, in, left, outlen, out, outp, given, asked>>

-----------------------------------------------------------------------------
\* keccak_absorb_once, called by shake_absorb_once and by the one-shot functions.

keccak_absorb_once(f, k, m) ==
  /\ op = "idle"
  /\ op' = "absorb_once"
  /\ call' = f
  /\ outlen' = m
  /\ lanes' = ZeroLanes
  /\ base' = 0
  /\ in' = 0
  /\ left' = k
  /\ NewDigest(k)
  /\ UNCHANGED pos

shake_absorb_once(k) == keccak_absorb_once("incremental", k, 0)
shake(k, m) == keccak_absorb_once("shake", k, m)
sha3(k) == keccak_absorb_once("sha3", k, HashLen)

absorb_once_block ==
  /\ op = "absorb_once"
  /\ left >= Rate
  /\ lanes' = AddBytes(lanes, base, in, Rate)
  /\ in' = in + Rate
  /\ left' = left - Rate
  /\ base' = Permute(base)
  /\ UNCHANGED <<pos, op, call, outlen, out, outp, ghost>>

absorb_once_tail ==
  /\ op = "absorb_once"
  /\ left < Rate
  /\ lanes' = Pad(AddBytes(lanes, base, in, left), base, left)
  /\ pos' = Rate
  /\ phase' = "squeeze"
  /\ op' = CASE call = "incremental" -> "idle"
             [] call = "shake" -> "squeezeblocks"
             [] call = "sha3" -> "hash"
  /\ left' = IF call = "shake" THEN outlen \div Rate ELSE 0
  /\ asked' = outlen
  /\ UNCHANGED <<base, call, in, outlen, out, outp, given>>

-----------------------------------------------------------------------------
\* Squeezing.

\* "Assumes new block has not yet been started (state->pos = SHAKE128_RATE)."
shake_squeezeblocks(nb) ==
  /\ op = "idle"
  /\ phase = "squeeze"
  /\ pos = Rate
  /\ asked + nb * Rate <= MaxOut
  /\ op' = "squeezeblocks"
  /\ call' = "incremental"
  /\ left' = nb
  /\ outp' = asked
  /\ asked' = asked + nb * Rate
  /\ UNCHANGED <<state, in, outlen, out, phase, given>>

squeezeblocks_block ==
  /\ op = "squeezeblocks"
  /\ left > 0
  /\ base' = Permute(base)
  /\ out' = ExtractBytes(lanes, base', out, outp, Rate)
  /\ outp' = outp + Rate
  /\ left' = left - 1
  /\ UNCHANGED <<lanes, pos, op, call, in, outlen, ghost>>

\* outlen -= nblocks * SHAKE128_RATE in the one-shot functions.
Remainder(len) == len - (len \div Rate) * Rate

squeezeblocks_return ==
  /\ op = "squeezeblocks"
  /\ left = 0
  /\ IF call = "shake"
       THEN op' = "squeeze" /\ left' = Remainder(outlen)
       ELSE op' = "idle" /\ left' = 0
  /\ UNCHANGED <<state, call, in, outlen, out, outp, ghost>>

shake_squeeze(k) ==
  /\ op = "idle"
  /\ phase = "squeeze"
  /\ asked + k <= MaxOut
  /\ op' = "squeeze"
  /\ call' = "incremental"
  /\ left' = k
  /\ outp' = asked
  /\ asked' = asked + k
  /\ UNCHANGED <<state, in, outlen, out, phase, given>>

BlockUsedUpLate == pos > Rate  \* mutant: off by one
BlockUsedUp == pos = Rate

Chunk(p) == IF Rate - p > left THEN left ELSE Rate - p

\* The permutation is put off until the first byte of the next block is wanted.
keccak_squeeze_chunk ==
  /\ op = "squeeze"
  /\ left > 0
  /\ base' = IF BlockUsedUp THEN Permute(base) ELSE base
  /\ LET p == IF BlockUsedUp THEN 0 ELSE pos
         chunk == Chunk(p)
     IN  /\ out' = ExtractBytes(lanes, base' + p, out, outp, chunk)
         /\ outp' = outp + chunk
         /\ left' = left - chunk
         /\ pos' = p + chunk
  /\ UNCHANGED <<lanes, op, call, in, outlen, ghost>>

\* The state of a one-shot function dies with its frame.
keccak_squeeze_return ==
  /\ op = "squeeze"
  /\ left = 0
  /\ op' = "idle"
  /\ phase' = IF call = "shake" THEN "none" ELSE phase
  /\ UNCHANGED <<state, call, in, left, outlen, out, outp, given, asked>>

sha3_digest ==
  /\ op = "hash"
  /\ base' = Permute(base)
  /\ out' = ExtractBytes(lanes, base', out, outp, HashLen)
  /\ outp' = outp + HashLen
  /\ op' = "idle"
  /\ phase' = "none"
  /\ UNCHANGED <<lanes, pos, call, in, left, outlen, given, asked>>

-----------------------------------------------------------------------------
Call ==
  \/ shake_init
  \/ \E k \in 0 .. MaxIn :
       \/ shake_absorb(k)
       \/ shake_absorb_once(k)
       \/ sha3(k)
       \/ \E m \in 0 .. MaxOut : shake(k, m)
  \/ shake_finalize
  \/ \E nb \in 0 .. MaxOut : shake_squeezeblocks(nb)
  \/ \E k \in 0 .. MaxOut : shake_squeeze(k)

Step ==
  \/ keccak_absorb_block
  \/ keccak_absorb_tail
  \/ absorb_once_block
  \/ absorb_once_tail
  \/ squeezeblocks_block
  \/ squeezeblocks_return
  \/ keccak_squeeze_chunk
  \/ keccak_squeeze_return
  \/ sha3_digest

Next == Call \/ Step

\* A called function keeps running; a caller need never call again.
Spec == Init /\ [][Next]_vars /\ WF_vars(Step)

-----------------------------------------------------------------------------
TypeOK ==
  /\ lanes \in Lanes
  /\ base \in Nat
  /\ pos \in 0 .. Rate
  /\ op \in Ops
  /\ call \in Calls
  /\ in \in 0 .. MaxIn
  /\ left \in Nat
  /\ outlen \in 0 .. MaxOut
  /\ out \in Buffer
  /\ outp \in 0 .. MaxOut
  /\ phase \in Phases
  /\ given \in 0 .. MaxIn
  /\ asked \in 0 .. MaxOut

\* The part of the message that lies below address a, and nothing above it.
Absorbed(a) == [x \in Addr |-> IF x < a THEN Msg[x] ELSE {}]

\* Between two absorb calls of the incremental API the state holds exactly the
\* message handed over so far, and state->pos is where its next byte belongs,
\* inside the block: no chunking loses, repeats or displaces a byte.
AbsorbPosition ==
  op = "idle" /\ phase = "absorb" =>
    /\ pos < Rate
    /\ base + pos = given
    /\ lanes = Absorbed(given)

\* Every output byte written so far, by whatever mix of squeeze, squeezeblocks
\* and one-shot calls, is its byte of the stream of the padded message.
OutputIsStream ==
  \A j \in 0 .. MaxOut - 1 :
    out[j] = IF j < outp THEN Stream(given, j) ELSE Blank

\* When a call has returned, all the bytes it was asked for are delivered: no
\* last partial block is forgotten (OutputIsStream says that they are right).
DigestComplete == op = "idle" => outp = asked

\* The code implements the extendable-output function of XofSpec.
XOF == INSTANCE XofSpec WITH n <- given, m <- outp
ImplementsXof == XOF!Spec

-----------------------------------------------------------------------------
\* The inductive invariant: what holds inside the loops as well.

AbsorbLoop ==
  op = "absorb" =>
    /\ phase = "absorb"
    /\ pos < Rate
    /\ in = base + pos
    /\ in + left = given
    /\ lanes = Absorbed(in)

AbsorbOnceLoop ==
  op = "absorb_once" =>
    /\ phase = "absorb"
    /\ in = base
    /\ in + left = given
    /\ lanes = Absorbed(base)
    /\ call = "sha3" => outlen = HashLen
    /\ call = "incremental" => outlen = 0

SqueezeLoops ==
  /\ op \in {"squeezeblocks", "squeeze", "hash"} => phase = "squeeze"
  /\ op = "squeezeblocks" =>
       /\ pos = Rate
       /\ asked = outp + left * Rate + (IF call = "shake" THEN Remainder(outlen) ELSE 0)
  /\ op = "squeeze" => asked = outp + left
  /\ op = "hash" => pos = Rate /\ outp = 0 /\ asked = HashLen

AbsorbPhase ==
  /\ op \in {"absorb", "absorb_once"} => phase = "absorb"
  /\ phase = "absorb" => /\ op \in {"idle", "absorb", "absorb_once"}
                         /\ outp = 0
                         /\ asked = 0

SqueezePhase ==
  phase = "squeeze" =>
    /\ lanes = Padded(given)
    /\ pos > 0
    /\ base + pos = FirstOut(given) + outp

IInv ==
  /\ TypeOK
  /\ base % Rate = 0
  /\ AbsorbLoop
  /\ AbsorbOnceLoop
  /\ SqueezeLoops
  /\ AbsorbPhase
  /\ SqueezePhase
  /\ AbsorbPosition
  /\ DigestComplete
  /\ OutputIsStream

-----------------------------------------------------------------------------
\* Every call returns: the loops over blocks and chunks make progress.
CallReturns == (op # "idle") ~> (op = "idle")
=============================================================================
