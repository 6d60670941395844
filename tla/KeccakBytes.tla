---------------------------- MODULE KeccakBytes -----------------------------
(***************************************************************************)
(* ml-dsa/fips202.c: the incremental API, absorb_once and the one-shot     *)
(* functions.  Its loops XOR and copy one byte at a time and share the     *)
(* index i with the code after them; where the code goes through a whole   *)
(* block a word at a time (load64, store64), the block is one step.        *)
(***************************************************************************)
EXTENDS Sponge

CONSTANT HashLen  \* bytes a sha3 digest takes from its only output block

VARIABLES
  lanes, base,  \* the state s[25], see Sponge
  pos,          \* state->pos
  op,           \* which loop is being executed
  call,         \* the function the caller called: it decides what follows
  left,         \* nblocks, as in keccak_squeezeblocks
  i,            \* the loop index
  in,           \* index of the next message byte to absorb
  inlen,        \* as in keccak_absorb
  outlen,       \* as in keccak_squeeze; one-shot: bytes still to be squeezed
  out, outp,    \* the output buffer and the output pointer
  phase,        \* where the caller is in the protocol of the API
  given,        \* message bytes handed over
  asked         \* output bytes asked for

vars == <<lanes, base, pos, op, call, left, i, in, inlen, outlen, out, outp, phase, given, asked>>

Init ==
  /\ lanes \in {[a \in Addr |-> b] : b \in {Suffix, TopBit}}
  /\ base = 0
  /\ pos \in 0 .. Rate
  /\ op = "idle"
  /\ call = "incremental"
  /\ left = 0
  /\ i \in 0 .. Rate
  /\ in = 0
  /\ inlen = 0
  /\ outlen = 0
  /\ out = EmptyBuffer
  /\ outp = 0
  /\ phase = "none"
  /\ given = 0
  /\ asked = 0

shake_init ==
  /\ op = "idle"
  /\ lanes' = ZeroLanes
  /\ base' = 0
  /\ pos' = 0
  /\ phase' = "absorb"
  /\ given' = 0
  /\ asked' = 0
  /\ out' = EmptyBuffer
  /\ outp' = 0
  /\ UNCHANGED <<op, call, left, i, in, inlen, outlen>>

-----------------------------------------------------------------------------
shake_absorb(k) ==
  /\ op = "idle"
  /\ phase = "absorb"
  /\ given + k <= MaxIn
  /\ op' = "absorb"
  /\ in' = given
  /\ inlen' = k
  /\ given' = given + k
  /\ UNCHANGED <<lanes, base, pos, call, left, i, outlen, out, outp, phase, asked>>

\* The test of the outer loop; both branches start a loop at i = pos.
absorb_test ==
  /\ op = "absorb"
  /\ op' = IF pos + inlen >= Rate THEN "fill" ELSE "tail"
  /\ i' = pos
  /\ UNCHANGED <<call, left, lanes, base, pos, in, inlen, outlen, out, outp, phase, given, asked>>

\* s[i/8] ^= (uint64_t)*in++ << 8*(i%8)
XorNextByte ==
  /\ lanes' = AddByte(lanes, base + i, Msg[in])
  /\ in' = in + 1
  /\ i' = i + 1
  /\ UNCHANGED <<call, left, base, pos, op, inlen, outlen, out, outp, phase, given, asked>>

fill_byte == op = "fill" /\ i < Rate /\ XorNextByte

fill_end ==
  /\ op = "fill"
  /\ i = Rate
  /\ inlen' = inlen - (Rate - pos)
  /\ base' = Permute(base)
  /\ pos' = 0
  /\ op' = "absorb"
  /\ UNCHANGED <<call, left, lanes, i, in, outlen, out, outp, phase, given, asked>>

tail_byte == op = "tail" /\ i < pos + inlen /\ XorNextByte

\* Mutant: the new position forgets the old one.
absorb_return_inlen ==
  /\ op = "tail"
  /\ i = pos + inlen
  /\ pos' = inlen
  /\ op' = "idle"
  /\ UNCHANGED <<call, left, lanes, base, i, in, inlen, outlen, out, outp, phase, given, asked>>

absorb_return ==
  /\ op = "tail"
  /\ i = pos + inlen
  /\ pos' = i
  /\ op' = "idle"
  /\ UNCHANGED <<call, left, lanes, base, i, in, inlen, outlen, out, outp, phase, given, asked>>

shake_finalize ==
  /\ op = "idle"
  /\ phase = "absorb"
  /\ lanes' = AddByte(AddByte(lanes, base + pos, Suffix), base + Rate - 1, TopBit)
  /\ pos' = Rate
  /\ phase' = "squeeze"
  /\ UNCHANGED <<call, left, base, op, i, in, inlen, outlen, out, outp, given, asked>>

-----------------------------------------------------------------------------
shake_squeeze(k) ==
  /\ op = "idle"
  /\ phase = "squeeze"
  /\ asked + k <= MaxOut
  /\ op' = "squeeze"
  /\ call' = "incremental"
  /\ outlen' = k
  /\ outp' = asked
  /\ asked' = asked + k
  /\ UNCHANGED <<left, lanes, base, pos, i, in, inlen, out, phase, given>>

squeeze_block ==
  /\ op = "squeeze"
  /\ outlen > 0
  /\ IF pos = Rate THEN base' = Permute(base) /\ pos' = 0
                   ELSE UNCHANGED <<base, pos>>
  /\ i' = pos'
  /\ op' = "copy"
  /\ UNCHANGED <<call, left, lanes, in, inlen, outlen, out, outp, phase, given, asked>>

copy_byte ==
  /\ op = "copy"
  /\ i < Rate
  /\ i < pos + outlen
  /\ out' = ExtractBytes(lanes, base + i, out, outp, 1)
  /\ outp' = outp + 1
  /\ i' = i + 1
  /\ UNCHANGED <<call, left, lanes, base, pos, op, in, inlen, outlen, phase, given, asked>>

copy_end ==
  /\ op = "copy"
  /\ ~ (i < Rate /\ i < pos + outlen)
  /\ outlen' = outlen - (i - pos)
  /\ pos' = i
  /\ op' = "squeeze"
  /\ UNCHANGED <<call, left, lanes, base, i, in, inlen, out, outp, phase, given, asked>>

\* The state of a one-shot function dies with its frame.
squeeze_return ==
  /\ op = "squeeze"
  /\ outlen = 0
  /\ op' = "idle"
  /\ phase' = IF call = "shake" THEN "none" ELSE phase
  /\ UNCHANGED <<call, left, lanes, base, pos, i, in, inlen, outlen, out, outp, given, asked>>

-----------------------------------------------------------------------------
\* keccak_absorb_once, called by shake_absorb_once and by the one-shot functions.
keccak_absorb_once(f, k, m) ==
  /\ op = "idle"
  /\ op' = "once"
  /\ call' = f
  /\ lanes' = ZeroLanes
  /\ base' = 0
  /\ in' = 0
  /\ inlen' = k
  /\ outlen' = m
  /\ phase' = "absorb"
  /\ given' = k
  /\ asked' = 0
  /\ out' = EmptyBuffer
  /\ outp' = 0
  /\ UNCHANGED <<pos, left, i>>

shake_absorb_once(k) == keccak_absorb_once("incremental", k, 0)
shake(k, m) == keccak_absorb_once("shake", k, m)
sha3(k) == keccak_absorb_once("sha3", k, HashLen)

once_block ==
  /\ op = "once"
  /\ inlen >= Rate
  /\ lanes' = AddBytes(lanes, base, in, Rate)
  /\ in' = in + Rate
  /\ inlen' = inlen - Rate
  /\ base' = Permute(base)
  /\ UNCHANGED <<pos, op, call, left, i, outlen, out, outp, phase, given, asked>>

once_tail ==
  /\ op = "once"
  /\ inlen < Rate
  /\ op' = "once_tail"
  /\ i' = 0
  /\ UNCHANGED <<lanes, base, pos, call, left, in, inlen, outlen, out, outp, phase, given, asked>>

once_byte ==
  /\ op = "once_tail"
  /\ i < inlen
  /\ lanes' = AddByte(lanes, base + i, Msg[in + i])
  /\ i' = i + 1
  /\ UNCHANGED <<base, pos, op, call, left, in, inlen, outlen, out, outp, phase, given, asked>>

\* The suffix goes where the loop ended; a keccak_state is left used up.
once_return ==
  /\ op = "once_tail"
  /\ i = inlen
  /\ lanes' = AddByte(AddByte(lanes, base + i, Suffix), base + Rate - 1, TopBit)
  /\ pos' = Rate
  /\ phase' = "squeeze"
  /\ op' = CASE call = "incremental" -> "idle"
             [] call = "shake" -> "squeezeblocks"
             [] call = "sha3" -> "hash"
  /\ left' = outlen \div Rate
  /\ asked' = outlen
  /\ UNCHANGED <<base, call, i, in, inlen, outlen, out, outp, given>>

shake_squeezeblocks(nb) ==
  /\ op = "idle"
  /\ phase = "squeeze"
  /\ pos = Rate
  /\ asked + nb * Rate <= MaxOut
  /\ op' = "squeezeblocks"
  /\ call' = "incremental"
  /\ left' = nb
  /\ outp' = asked
  /\ asked' = asked + nb * Rate
  /\ UNCHANGED <<lanes, base, pos, i, in, inlen, outlen, out, phase, given>>

squeezeblocks_block ==
  /\ op = "squeezeblocks"
  /\ left > 0
  /\ base' = Permute(base)
  /\ out' = ExtractBytes(lanes, base', out, outp, Rate)
  /\ outp' = outp + Rate
  /\ left' = left - 1
  /\ UNCHANGED <<lanes, pos, op, call, i, in, inlen, outlen, phase, given, asked>>

RemainderNone == 0  \* mutant: the last partial block is forgotten
Remainder == outlen - (outlen \div Rate) * Rate

squeezeblocks_return ==
  /\ op = "squeezeblocks"
  /\ left = 0
  /\ IF call = "shake"
       THEN op' = "squeeze" /\ outlen' = Remainder
       ELSE op' = "idle" /\ UNCHANGED outlen
  /\ UNCHANGED <<lanes, base, pos, call, left, i, in, inlen, out, outp, phase, given, asked>>

sha3_digest ==
  /\ op = "hash"
  /\ base' = Permute(base)
  /\ out' = ExtractBytes(lanes, base', out, outp, HashLen)
  /\ outp' = outp + HashLen
  /\ op' = "idle"
  /\ phase' = "none"
  /\ UNCHANGED <<lanes, pos, call, left, i, in, inlen, outlen, given, asked>>

-----------------------------------------------------------------------------
Call ==
  \/ shake_init
  \/ \E k \in 0 .. MaxIn :
       \/ shake_absorb(k)
       \/ shake_absorb_once(k)
       \/ sha3(k)
       \/ \E m \in 0 .. MaxOut : shake(k, m)
  \/ shake_finalize
  \/ \E k \in 0 .. MaxOut : shake_squeeze(k) \/ shake_squeezeblocks(k)

Step ==
  \/ absorb_test \/ fill_byte \/ fill_end \/ tail_byte \/ absorb_return
  \/ squeeze_block \/ copy_byte \/ copy_end \/ squeeze_return
  \/ once_block \/ once_tail \/ once_byte \/ once_return
  \/ squeezeblocks_block \/ squeezeblocks_return \/ sha3_digest

Next == Call \/ Step
=============================================================================
