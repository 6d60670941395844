------------------------------ MODULE Shake256 ------------------------------
(***************************************************************************)
(* shake256/shake256.c: absorb in one go through a padded block buffer t,  *)
(* squeeze whole blocks, and the one-shot shake256(), which takes a last   *)
(* partial block through a second buffer.                                  *)
(***************************************************************************)
EXTENDS Sponge

VARIABLES
  lanes, base,  \* the state s[25], see Sponge
  op,           \* the loop or straight-line code being executed
  oneshot,      \* the caller called shake256() and not the two-step API
  m,            \* index of the next message byte to absorb
  mlen,         \* message bytes still to absorb
  nblocks,      \* blocks still to squeeze in the running loop
  outlen,       \* one-shot: bytes asked for
  out, outp,    \* the output buffer and the output pointer
  phase,        \* where the caller is in the protocol of the API
  given,        \* message bytes handed over
  asked         \* output bytes asked for

vars == <<lanes, base, op, oneshot, m, mlen, nblocks, outlen, out, outp, phase, given, asked>>

Init ==
  /\ lanes \in {[a \in Addr |-> b] : b \in {Suffix, TopBit}}
  /\ base = 0
  /\ op = "idle"
  /\ oneshot = FALSE
  /\ m = 0
  /\ mlen = 0
  /\ nblocks = 0
  /\ outlen = 0
  /\ out = EmptyBuffer
  /\ outp = 0
  /\ phase = "none"
  /\ given = 0
  /\ asked = 0

keccak_absorb(one, k, len) ==
  /\ op = "idle"
  /\ op' = "absorb"
  /\ oneshot' = one
  /\ lanes' = ZeroLanes
  /\ base' = 0
  /\ m' = 0
  /\ mlen' = k
  /\ outlen' = len
  /\ phase' = "absorb"
  /\ given' = k
  /\ asked' = 0
  /\ out' = EmptyBuffer
  /\ outp' = 0
  /\ UNCHANGED nblocks

shake256_absorb(k) == keccak_absorb(FALSE, k, 0)
shake256(k, len) == keccak_absorb(TRUE, k, len)

absorb_block ==
  /\ op = "absorb"
  /\ mlen >= Rate
  /\ lanes' = AddBytes(lanes, base, m, Rate)
  /\ base' = Permute(base)
  /\ mlen' = mlen - Rate
  /\ m' = m + Rate
  /\ UNCHANGED <<op, oneshot, nblocks, outlen, out, outp, phase, given, asked>>

\* Mutant: the rest of t keeps what was on the stack.
PaddedBlockStale ==
  LET t == [i \in 0 .. Rate - 1 |-> IF i < mlen THEN Msg[m + i] ELSE Suffix]
  IN  [t EXCEPT ![Rate - 1] = @ \cup TopBit]

\* t after t[i] = 0, t[i] = m[i], t[mlen] = p and t[r - 1] |= 128.
PaddedBlock ==
  LET t == [i \in 0 .. Rate - 1 |-> IF i < mlen THEN Msg[m + i]
                                   ELSE IF i = mlen THEN Suffix ELSE {}]
  IN  [t EXCEPT ![Rate - 1] = @ \cup TopBit]

absorb_tail ==
  /\ op = "absorb"
  /\ mlen < Rate
  /\ lanes' = [a \in Addr |-> IF base <= a /\ a < base + Rate
                                THEN Xor(lanes[a], PaddedBlock[a - base]) ELSE lanes[a]]
  /\ phase' = "squeeze"
  /\ op' = IF oneshot THEN "squeezeblocks" ELSE "idle"
  /\ nblocks' = outlen \div Rate
  /\ asked' = outlen
  /\ UNCHANGED <<base, oneshot, m, mlen, outlen, out, outp, given>>

shake256_squeezeblocks(nb) ==
  /\ op = "idle"
  /\ phase = "squeeze"
  /\ asked + nb * Rate <= MaxOut
  /\ op' = "squeezeblocks"
  /\ nblocks' = nb
  /\ outp' = asked
  /\ asked' = asked + nb * Rate
  /\ UNCHANGED <<lanes, base, oneshot, m, mlen, outlen, out, phase, given>>

squeeze_block ==
  /\ op = "squeezeblocks"
  /\ nblocks > 0
  /\ base' = Permute(base)
  /\ out' = ExtractBytes(lanes, base', out, outp, Rate)
  /\ outp' = outp + Rate
  /\ nblocks' = nblocks - 1
  /\ UNCHANGED <<lanes, op, oneshot, m, mlen, outlen, phase, given, asked>>

Remainder == outlen - (outlen \div Rate) * Rate

squeeze_return ==
  /\ op = "squeezeblocks"
  /\ nblocks = 0
  /\ IF oneshot
       THEN op' = "remainder" /\ outlen' = Remainder
       ELSE op' = "idle" /\ UNCHANGED outlen
  /\ UNCHANGED <<lanes, base, oneshot, m, mlen, nblocks, out, outp, phase, given, asked>>

\* if (outlen): one more block goes through t, and its first bytes to the output.
\* The state is a local of shake256() and ends here.
squeeze_remainder ==
  /\ op = "remainder"
  /\ IF outlen > 0
       THEN /\ base' = Permute(base)
            /\ out' = ExtractBytes(lanes, base', out, outp, outlen)
            /\ outp' = outp + outlen
       ELSE UNCHANGED <<base, out, outp>>
  /\ op' = "idle"
  /\ phase' = "none"
  /\ UNCHANGED <<lanes, oneshot, m, mlen, nblocks, outlen, given, asked>>

Call ==
  \/ \E k \in 0 .. MaxIn :
       shake256_absorb(k) \/ \E len \in 0 .. MaxOut : shake256(k, len)
  \/ \E nb \in 0 .. MaxOut : shake256_squeezeblocks(nb)

Step == absorb_block \/ absorb_tail \/ squeeze_block \/ squeeze_return \/ squeeze_remainder

Next == Call \/ Step
=============================================================================
