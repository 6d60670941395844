--------------------------- MODULE SpongesProofs ----------------------------
(***************************************************************************)
(* All three copies of the sponge implement XofSpec, for every rate,       *)
(* message and way of cutting message and output into calls: first the one *)
(* of ml-kem/fips202.c (Keccak), then the other two, each with the         *)
(* inductive invariant of its own loops.                                   *)
(***************************************************************************)
EXTENDS MCSponges, TLAPS

\* The Euclidean division of a by Rate is the only one.
LEMMA DivisionUnique ==
  ASSUME NEW a \in Nat, NEW q \in Nat, NEW r \in Nat, r < Rate, a = Rate * q + r
  PROVE  a \div Rate = q /\ a % Rate = r
<1>1. Rate \in Nat /\ Rate > 0
  BY SpongeAssumption
<1>2. QED
  BY <1>1, SMTT(30)

\* The block that holds position n of the message is followed by FirstOut(n).
LEMMA FirstOutOfBlock ==
  ASSUME NEW q \in Nat, NEW r \in 0 .. Rate - 1
  PROVE  FirstOut(Rate * q + r) = Rate * q + Rate
<1>1. Rate \in Nat /\ Rate > 0
  BY SpongeAssumption
<1>2. (Rate * q + r) \div Rate = q
  BY <1>1, DivisionUnique
<1>3. QED
  BY <1>1, <1>2, SMT DEF FirstOut

LEMMA NextBlock ==
  ASSUME NEW b \in Nat, b % Rate = 0
  PROVE  /\ b = Rate * (b \div Rate)
         /\ b \div Rate \in Nat
         /\ (b + Rate) % Rate = 0
<1>1. Rate \in Nat /\ Rate > 0
  BY SpongeAssumption
<1>2. b = Rate * (b \div Rate) /\ b \div Rate \in Nat
  BY <1>1, SMTT(30)
<1>3. b + Rate = Rate * (b \div Rate + 1) + 0
  BY <1>1, <1>2, SMT
<1>4. (b + Rate) % Rate = 0
  <2> DEFINE q == b \div Rate + 1
             a == b + Rate
  <2>1. q \in Nat /\ a \in Nat /\ a = Rate * q + 0
    BY <1>1, <1>2, <1>3
  <2> HIDE DEF q, a
  <2>2. a % Rate = 0
    BY <1>1, <2>1, DivisionUnique
  <2>3. QED
    BY <2>2 DEF a
<1>5. QED
  BY <1>2, <1>4

LEMMA FirstOutAt ==
  ASSUME NEW b \in Nat, b % Rate = 0, NEW r \in 0 .. Rate - 1
  PROVE  FirstOut(b + r) = b + Rate
  BY NextBlock, FirstOutOfBlock

\* A length is its whole blocks and a remainder shorter than a block.
LEMMA RemainderBound ==
  ASSUME NEW len \in Nat
  PROVE  /\ len \div Rate \in Nat
         /\ Remainder(len) \in 0 .. Rate - 1
         /\ len = (len \div Rate) * Rate + Remainder(len)
<1>1. Rate \in Nat /\ Rate > 0
  BY SpongeAssumption
<1>2. /\ len \div Rate \in Nat
      /\ len % Rate \in 0 .. Rate - 1
      /\ len = Rate * (len \div Rate) + (len % Rate)
  BY <1>1, SMTT(30)
<1>3. QED
  BY <1>1, <1>2, SMT DEF Remainder

-----------------------------------------------------------------------------
\* What the state holds.

LEMMA LanesTypes ==
  /\ ZeroLanes \in Lanes
  /\ Absorbed(0) = ZeroLanes
  /\ \A a \in 0 .. MaxIn : Absorbed(a) \in Lanes
  /\ \A n \in 0 .. MaxIn : Padded(n) \in Lanes
<1>1. \A a \in 0 .. MaxIn : \A x \in Addr : x < a => Msg[x] \in Byte
  BY SpongeAssumption DEF Byte, Addr
<1>2. \A x, y \in Byte : Xor(x, y) \in Byte
  BY DEF Xor, Byte
<1>3. Suffix \in Byte /\ TopBit \in Byte /\ {} \in Byte
  BY SpongeAssumption DEF Byte
<1>4. QED
  BY <1>1, <1>2, <1>3, SpongeAssumption DEF ZeroLanes, Absorbed, Padded, Lanes, Addr

\* XORing the next bytes of the message at the next addresses extends what is
\* absorbed by exactly those bytes.
LEMMA AbsorbMore ==
  ASSUME NEW a \in Nat, NEW len \in Nat, a + len <= MaxIn
  PROVE  AddBytes(Absorbed(a), a, a, len) = Absorbed(a + len)
<1>1. \A b : Xor({}, b) = b
  BY DEF Xor
<1>2. \A x \in Addr : a <= x /\ x < a + len => Absorbed(a)[x] = {} /\ a + x - a = x
  BY SpongeAssumption DEF Absorbed, Addr
<1>3. \A x \in Addr : AddBytes(Absorbed(a), a, a, len)[x] = Absorbed(a + len)[x]
  BY <1>1, <1>2, SpongeAssumption DEF AddBytes, Absorbed, Addr
<1>4. QED
  BY <1>3 DEF AddBytes, Absorbed

\* Suffix and top bit go where pad10*1 puts them, also when they meet in the
\* last byte of the block.
LEMMA PadIsPadded ==
  ASSUME NEW b \in Nat, b % Rate = 0, NEW r \in 0 .. Rate - 1, b + r <= MaxIn
  PROVE  Pad(Absorbed(b + r), b, r) = Padded(b + r)
<1>1. Rate \in Nat /\ Rate > 0 /\ MaxIn \in Nat
  BY SpongeAssumption
<1>2. FirstOut(b + r) - 1 = b + Rate - 1
  <2>1. FirstOut(b + r) = b + Rate
    BY FirstOutAt
  <2>2. QED
    BY <1>1, <2>1
<1>3. b + r \in Addr /\ b + Rate - 1 \in Addr
  BY <1>1 DEF Addr
<1>4. \A x : Xor({}, x) = x /\ Xor(x, {}) = x
  BY DEF Xor
<1>5. \A x \in Addr : Pad(Absorbed(b + r), b, r)[x] = Padded(b + r)[x]
  <2> SUFFICES ASSUME NEW x \in Addr
               PROVE  Pad(Absorbed(b + r), b, r)[x] = Padded(b + r)[x]
    OBVIOUS
  <2>1. Absorbed(b + r)[x] = IF x < b + r THEN Msg[x] ELSE {}
    BY DEF Absorbed
  <2>2. Padded(b + r)[x] =
          IF x < b + r THEN Msg[x]
          ELSE Xor(IF x = b + r THEN Suffix ELSE {}, IF x = b + Rate - 1 THEN TopBit ELSE {})
    BY <1>2 DEF Padded
  <2>3. AddByte(Absorbed(b + r), b + r, Suffix)[x] =
          IF x = b + r THEN Xor(Absorbed(b + r)[x], Suffix) ELSE Absorbed(b + r)[x]
    BY <1>3 DEF AddByte, Absorbed
  <2>4. Pad(Absorbed(b + r), b, r)[x] =
          IF x = b + Rate - 1
            THEN Xor(AddByte(Absorbed(b + r), b + r, Suffix)[x], TopBit)
            ELSE AddByte(Absorbed(b + r), b + r, Suffix)[x]
    BY <1>3 DEF Pad, AddByte, Absorbed
  <2>5. CASE x < b + r
    BY <1>1, <2>1, <2>2, <2>3, <2>4, <2>5 DEF Addr
  <2>6. CASE x >= b + r
    BY <1>1, <1>4, <2>1, <2>2, <2>3, <2>4, <2>6 DEF Addr
  <2>7. QED
    BY <1>1, <2>5, <2>6 DEF Addr
<1>6. QED
  BY <1>5 DEF Pad, AddByte, Absorbed, Padded

-----------------------------------------------------------------------------
\* What reaches the output buffer.

BufferUpTo(g, o) == [j \in 0 .. MaxOut - 1 |-> IF j < o THEN Stream(g, j) ELSE Blank]

LEMMA FirstOutNat ==
  ASSUME NEW g \in 0 .. MaxIn
  PROVE  FirstOut(g) \in Nat
<1>1. Rate \in Nat /\ Rate > 0 /\ g \in Nat
  BY SpongeAssumption
<1>2. g \div Rate \in Nat
  BY <1>1, SMT
<1>3. QED
  BY <1>1, <1>2, SMT DEF FirstOut

LEMMA ExtractMore ==
  ASSUME NEW g \in 0 .. MaxIn, NEW o \in Nat, NEW len \in Nat
  PROVE  ExtractBytes(Padded(g), FirstOut(g) + o, BufferUpTo(g, o), o, len)
           = BufferUpTo(g, o + len)
<1>1. FirstOut(g) \in Nat
  BY FirstOutNat
<1>2. \A j \in 0 .. MaxOut - 1 : o <= j => FirstOut(g) + o + j - o = FirstOut(g) + j
  BY <1>1, SpongeAssumption
<1>3. \A j \in 0 .. MaxOut - 1 : o <= j => <<Padded(g), FirstOut(g) + o + j - o>> = Stream(g, j)
  BY <1>2 DEF Stream
<1>4. DOMAIN BufferUpTo(g, o) = 0 .. MaxOut - 1
  BY DEF BufferUpTo
<1>5. \A j \in 0 .. MaxOut - 1 :
        ExtractBytes(Padded(g), FirstOut(g) + o, BufferUpTo(g, o), o, len)[j]
          = BufferUpTo(g, o + len)[j]
  <2> SUFFICES ASSUME NEW j \in 0 .. MaxOut - 1
               PROVE  ExtractBytes(Padded(g), FirstOut(g) + o, BufferUpTo(g, o), o, len)[j]
                        = BufferUpTo(g, o + len)[j]
    OBVIOUS
  <2>1. ExtractBytes(Padded(g), FirstOut(g) + o, BufferUpTo(g, o), o, len)[j] =
          IF o <= j /\ j < o + len THEN <<Padded(g), FirstOut(g) + o + j - o>>
                                   ELSE BufferUpTo(g, o)[j]
    BY <1>4 DEF ExtractBytes
  <2>2. BufferUpTo(g, o)[j] = IF j < o THEN Stream(g, j) ELSE Blank
    BY DEF BufferUpTo
  <2>3. BufferUpTo(g, o + len)[j] = IF j < o + len THEN Stream(g, j) ELSE Blank
    BY DEF BufferUpTo
  <2>4. j \in Int
    BY SpongeAssumption
  <2>5. QED
    BY <1>3, <2>1, <2>2, <2>3, <2>4
<1>6. QED
  BY <1>4, <1>5 DEF ExtractBytes, BufferUpTo

\* The same, as XofSpec writes the squeezed bytes.
LEMMA BufferMore ==
  ASSUME NEW g \in 0 .. MaxIn, NEW o \in Nat, NEW len \in Nat
  PROVE  BufferUpTo(g, o + len) =
           [j \in 0 .. MaxOut - 1 |->
              IF o <= j /\ j < o + len THEN Stream(g, j) ELSE BufferUpTo(g, o)[j]]
  BY SpongeAssumption DEF BufferUpTo

LEMMA BufferTypes ==
  /\ EmptyBuffer \in Buffer
  /\ \A g \in 0 .. MaxIn : BufferUpTo(g, 0) = EmptyBuffer
  /\ \A g \in 0 .. MaxIn, o \in Nat : BufferUpTo(g, o) \in Buffer
<1>1. ASSUME NEW g \in 0 .. MaxIn PROVE FirstOut(g) \in Nat
  BY FirstOutNat
<1>2. \A g \in 0 .. MaxIn, j \in 0 .. MaxOut - 1 : Stream(g, j) \in Lanes \X Nat
  BY <1>1, LanesTypes, SpongeAssumption DEF Stream
<1>3. QED
  BY <1>2, SpongeAssumption DEF EmptyBuffer, Buffer, Cell, BufferUpTo

\* OutputIsStream, as an equation.
LEMMA OutputAsBuffer ==
  ASSUME out \in Buffer
  PROVE  OutputIsStream <=> out = BufferUpTo(given, outp)
  BY DEF OutputIsStream, BufferUpTo, Buffer

-----------------------------------------------------------------------------
\* The inductive invariant.

LEMMA InitIInv == Init => IInv
<1> SUFFICES ASSUME Init PROVE IInv
  OBVIOUS
<1>1. TypeOK
  <2>1. \A b \in Byte : [a \in Addr |-> b] \in Lanes
    BY DEF Lanes
  <2>2. Suffix \in Byte /\ TopBit \in Byte
    BY SpongeAssumption DEF Byte
  <2>3. lanes \in Lanes
    BY <2>1, <2>2 DEF Init
  <2>4. QED
    BY <2>3, BufferTypes, SpongeAssumption
       DEF Init, TypeOK, Ops, Calls, Phases
<1>2. base % Rate = 0
  BY SpongeAssumption, SMT DEF Init
<1>3. OutputIsStream
  BY SpongeAssumption DEF Init, OutputIsStream, EmptyBuffer
<1>4. QED
  BY <1>1, <1>2, <1>3 DEF Init, IInv, AbsorbLoop, AbsorbOnceLoop, SqueezeLoops,
       AbsorbPhase, SqueezePhase, AbsorbPosition, DigestComplete

\* One lemma per kind of step.
LEMMA AbsorbSteps ==
  ASSUME IInv,
         \/ shake_init
         \/ \E k \in 0 .. MaxIn : shake_absorb(k)
         \/ keccak_absorb_block
         \/ keccak_absorb_tail
         \/ shake_finalize
  PROVE  IInv'
<1> USE SpongeAssumption
<1>1. TypeOK /\ base % Rate = 0 /\ AbsorbLoop /\ AbsorbPhase /\ AbsorbPosition
  BY DEF IInv
<1>2. CASE shake_init
  <2>1. ZeroLanes \in Lanes /\ EmptyBuffer \in Buffer /\ Absorbed(0) = ZeroLanes
    BY LanesTypes, BufferTypes
  <2>2. 0 % Rate = 0
    BY SMT
  <2>3. OutputIsStream'
    BY <1>2 DEF shake_init, NewDigest, OutputIsStream, EmptyBuffer
  <2>4. TypeOK'
    BY <1>1, <1>2, <2>1 DEF shake_init, NewDigest, TypeOK, Phases
  <2>5. QED
    BY <1>1, <1>2, <2>1, <2>2, <2>3, <2>4
       DEF shake_init, NewDigest, IInv, TypeOK, AbsorbLoop, AbsorbOnceLoop, SqueezeLoops,
           AbsorbPhase, SqueezePhase, AbsorbPosition, DigestComplete
<1>3. ASSUME NEW k \in 0 .. MaxIn, shake_absorb(k) PROVE IInv'
  <2>1. OutputIsStream'
    BY <1>1, <1>3 DEF IInv, OutputIsStream, shake_absorb, AbsorbPhase, TypeOK
  <2>2. TypeOK'
    BY <1>1, <1>3 DEF shake_absorb, TypeOK, state, Ops
  <2>3. QED
    BY <1>1, <1>3, <2>1, <2>2
       DEF shake_absorb, state, IInv, TypeOK, AbsorbLoop, AbsorbOnceLoop, SqueezeLoops,
           AbsorbPhase, SqueezePhase, AbsorbPosition, DigestComplete
<1>4. CASE keccak_absorb_block
  <2>1. /\ pos \in Nat /\ base \in Nat /\ in = base + pos /\ in \in Nat /\ left \in Nat
        /\ pos < Rate /\ in + left = given /\ lanes = Absorbed(in) /\ pos + left >= Rate
    BY <1>1, <1>4 DEF keccak_absorb_block, TypeOK, AbsorbLoop
  <2>2. lanes' = Absorbed(in + (Rate - pos)) /\ in + (Rate - pos) <= MaxIn
    BY <1>1, <1>4, <2>1, AbsorbMore DEF keccak_absorb_block, TypeOK, Take
  <2>3. (base + Rate) % Rate = 0
    BY <1>1, NextBlock DEF TypeOK
  <2>4. lanes' \in Lanes
    BY <2>1, <2>2, LanesTypes
  <2>5. OutputIsStream'
    BY <1>4 DEF IInv, OutputIsStream, keccak_absorb_block, ghost
  <2>6. TypeOK'
    BY <1>1, <1>4, <2>1, <2>2, <2>4 DEF keccak_absorb_block, TypeOK, ghost, Permute, Take
  <2>7. QED
    BY <1>1, <1>4, <2>1, <2>2, <2>3, <2>5, <2>6
       DEF keccak_absorb_block, Take, ghost, Permute, IInv, TypeOK, AbsorbLoop, AbsorbOnceLoop,
           SqueezeLoops, AbsorbPhase, SqueezePhase, AbsorbPosition, DigestComplete
<1>5. CASE keccak_absorb_tail
  <2>1. /\ pos \in Nat /\ base \in Nat /\ in = base + pos /\ in \in Nat /\ left \in Nat
        /\ in + left = given /\ lanes = Absorbed(in) /\ pos + left < Rate
    BY <1>1, <1>5 DEF keccak_absorb_tail, TypeOK, AbsorbLoop
  <2>2. lanes' = Absorbed(given) /\ lanes' \in Lanes
    BY <1>1, <1>5, <2>1, AbsorbMore, LanesTypes DEF keccak_absorb_tail, TypeOK
  <2>3. OutputIsStream'
    BY <1>5 DEF IInv, OutputIsStream, keccak_absorb_tail, ghost
  <2>4. TypeOK'
    BY <1>1, <1>5, <2>1, <2>2 DEF keccak_absorb_tail, TypeOK, ghost, Ops
  <2>5. QED
    BY <1>1, <1>5, <2>1, <2>2, <2>3, <2>4
       DEF keccak_absorb_tail, ghost, IInv, TypeOK, AbsorbLoop, AbsorbOnceLoop,
           SqueezeLoops, AbsorbPhase, SqueezePhase, AbsorbPosition, DigestComplete
<1>6. CASE shake_finalize
  <2>1. /\ pos \in 0 .. Rate - 1 /\ base \in Nat /\ base + pos = given /\ given <= MaxIn
        /\ lanes = Absorbed(base + pos)
    BY <1>1, <1>6 DEF shake_finalize, TypeOK, AbsorbPosition, DigestComplete
  <2>2. lanes' = Padded(given) /\ FirstOut(given) = base + Rate
    BY <1>1, <1>6, <2>1, PadIsPadded, FirstOutAt DEF shake_finalize
  <2>3. lanes' \in Lanes
    BY <1>1, <2>2, LanesTypes DEF TypeOK
  <2>4. OutputIsStream'
    BY <1>6 DEF IInv, OutputIsStream, shake_finalize
  <2>5. TypeOK'
    BY <1>1, <1>6, <2>3 DEF shake_finalize, TypeOK, Phases
  <2>6. QED
    BY <1>1, <1>6, <2>1, <2>2, <2>4, <2>5
       DEF shake_finalize, IInv, TypeOK, AbsorbLoop, AbsorbOnceLoop,
           SqueezeLoops, AbsorbPhase, SqueezePhase, AbsorbPosition, DigestComplete
<1>7. QED
  BY <1>2, <1>3, <1>4, <1>5, <1>6

LEMMA AbsorbOnceSteps ==
  ASSUME IInv,
         \/ \E f \in Calls, k \in 0 .. MaxIn, len \in 0 .. MaxOut :
              /\ keccak_absorb_once(f, k, len)
              /\ f = "sha3" => len = HashLen
              /\ f = "incremental" => len = 0
         \/ absorb_once_block
         \/ absorb_once_tail
  PROVE  IInv'
<1> USE SpongeAssumption
<1>1. TypeOK /\ base % Rate = 0 /\ AbsorbOnceLoop /\ AbsorbPhase
  BY DEF IInv
<1>2. ASSUME NEW f \in Calls, NEW k \in 0 .. MaxIn, NEW len \in 0 .. MaxOut,
             keccak_absorb_once(f, k, len),
             f = "sha3" => len = HashLen,
             f = "incremental" => len = 0
      PROVE  IInv'
  <2>1. ZeroLanes \in Lanes /\ EmptyBuffer \in Buffer /\ Absorbed(0) = ZeroLanes
    BY LanesTypes, BufferTypes
  <2>2. 0 % Rate = 0
    BY SMT
  <2>3. OutputIsStream'
    BY <1>2 DEF keccak_absorb_once, NewDigest, OutputIsStream, EmptyBuffer
  <2>4. TypeOK'
    BY <1>1, <1>2, <2>1 DEF keccak_absorb_once, NewDigest, TypeOK, Phases, Ops
  <2>5. QED
    BY <1>1, <1>2, <2>1, <2>2, <2>3, <2>4
       DEF keccak_absorb_once, NewDigest, IInv, TypeOK, AbsorbLoop, AbsorbOnceLoop,
           SqueezeLoops, AbsorbPhase, SqueezePhase, AbsorbPosition, DigestComplete
<1>3. CASE absorb_once_block
  <2>1. /\ base \in Nat /\ in = base /\ left \in Nat /\ left >= Rate
        /\ in + left = given /\ lanes = Absorbed(base) /\ given <= MaxIn
    BY <1>1, <1>3 DEF absorb_once_block, TypeOK, AbsorbOnceLoop
  <2>2. lanes' = Absorbed(base + Rate) /\ base + Rate <= MaxIn
    BY <1>1, <1>3, <2>1, AbsorbMore DEF absorb_once_block
  <2>3. (base + Rate) % Rate = 0
    BY <1>1, NextBlock DEF TypeOK
  <2>4. lanes' \in Lanes
    BY <2>1, <2>2, LanesTypes
  <2>5. OutputIsStream'
    BY <1>3 DEF IInv, OutputIsStream, absorb_once_block, ghost
  <2>6. TypeOK'
    BY <1>1, <1>3, <2>1, <2>2, <2>4 DEF absorb_once_block, TypeOK, ghost, Permute
  <2>7. QED
    BY <1>1, <1>3, <2>1, <2>2, <2>3, <2>5, <2>6
       DEF absorb_once_block, ghost, Permute, IInv, TypeOK, AbsorbLoop, AbsorbOnceLoop,
           SqueezeLoops, AbsorbPhase, SqueezePhase, AbsorbPosition, DigestComplete
<1>4. CASE absorb_once_tail
  <2>1. /\ base \in Nat /\ in = base /\ left \in 0 .. Rate - 1
        /\ base + left = given /\ lanes = Absorbed(base) /\ given <= MaxIn
    BY <1>1, <1>4 DEF absorb_once_tail, TypeOK, AbsorbOnceLoop
  <2>2. AddBytes(lanes, base, in, left) = Absorbed(base + left)
    BY <2>1, AbsorbMore
  <2>3. lanes' = Padded(given) /\ FirstOut(given) = base + Rate
    BY <1>1, <1>4, <2>1, <2>2, PadIsPadded, FirstOutAt DEF absorb_once_tail
  <2>4. lanes' \in Lanes
    BY <1>1, <2>3, LanesTypes DEF TypeOK
  <2>5. OutputIsStream'
    BY <1>4 DEF IInv, OutputIsStream, absorb_once_tail
  <2>6. outp = 0 /\ asked = 0 /\ phase' = "squeeze" /\ outlen \in Nat
    BY <1>1, <1>4 DEF absorb_once_tail, AbsorbPhase, AbsorbOnceLoop, TypeOK
  <2>7. /\ outlen \div Rate \in Nat
        /\ outlen = (outlen \div Rate) * Rate + Remainder(outlen)
    BY <2>6, RemainderBound
  <2>8. TypeOK'
    BY <1>1, <1>4, <2>4, <2>7 DEF absorb_once_tail, TypeOK, Phases, Ops, Calls
  <2>9. SqueezeLoops' /\ DigestComplete'
    BY <1>1, <1>4, <2>6, <2>7
       DEF absorb_once_tail, TypeOK, Calls, SqueezeLoops, DigestComplete, AbsorbOnceLoop
  <2>10. op' \in {"idle", "squeezeblocks", "hash"}
    BY <1>1, <1>4 DEF absorb_once_tail, TypeOK, Calls
  <2>11. SqueezePhase'
    <3>1. /\ base' = base /\ given' = given /\ outp' = outp /\ pos' = Rate
      BY <1>4 DEF absorb_once_tail
    <3>2. base + Rate = FirstOut(given) + 0
      BY <2>1, <2>3
    <3>3. QED
      BY <2>3, <2>6, <3>1, <3>2 DEF SqueezePhase
  <2>12. AbsorbLoop' /\ AbsorbOnceLoop' /\ AbsorbPhase' /\ AbsorbPosition'
    BY <2>6, <2>10 DEF AbsorbLoop, AbsorbOnceLoop, AbsorbPhase, AbsorbPosition, DigestComplete
  <2>13. base' % Rate = 0
    BY <1>1, <1>4 DEF absorb_once_tail
  <2>14. QED
    BY <2>5, <2>8, <2>9, <2>11, <2>12, <2>13 DEF IInv, DigestComplete
<1>5. QED
  BY <1>2, <1>3, <1>4

LEMMA SqueezeSteps ==
  ASSUME IInv,
         \/ \E nb \in 0 .. MaxOut : shake_squeezeblocks(nb)
         \/ squeezeblocks_block
         \/ squeezeblocks_return
         \/ \E k \in 0 .. MaxOut : shake_squeeze(k)
         \/ keccak_squeeze_chunk
         \/ keccak_squeeze_return
         \/ sha3_digest
  PROVE  IInv'
<1> USE SpongeAssumption
<1>1. TypeOK /\ base % Rate = 0 /\ SqueezeLoops /\ SqueezePhase
  BY DEF IInv
<1>2. out = BufferUpTo(given, outp) /\ given \in 0 .. MaxIn /\ outp \in Nat /\ out \in Buffer
  BY OutputAsBuffer DEF IInv, DigestComplete, TypeOK
<1>3. ASSUME NEW nb \in 0 .. MaxOut, shake_squeezeblocks(nb) PROVE IInv'
  <2>1. outp = asked /\ asked + nb * Rate \in 0 .. MaxOut
    <3>1. nb * Rate \in Nat
      BY SMT
    <3>2. QED
      BY <1>1, <1>3, <3>1 DEF shake_squeezeblocks, IInv, DigestComplete, TypeOK
  <2>2. TypeOK'
    BY <1>1, <1>3, <2>1 DEF shake_squeezeblocks, TypeOK, state, Ops, Calls
  <2>3. OutputIsStream'
    BY <1>3, <2>1 DEF IInv, OutputIsStream, shake_squeezeblocks
  <2>4. QED
    BY <1>1, <1>3, <2>1, <2>2, <2>3
       DEF shake_squeezeblocks, state, IInv, TypeOK, AbsorbLoop, AbsorbOnceLoop,
           SqueezeLoops, AbsorbPhase, SqueezePhase, AbsorbPosition, DigestComplete
<1>4. CASE squeezeblocks_block
  <2>1. /\ phase = "squeeze" /\ pos = Rate /\ left \in Nat \ {0} /\ lanes = Padded(given)
        /\ base + Rate = FirstOut(given) + outp /\ base \in Nat
    BY <1>1, <1>4 DEF squeezeblocks_block, SqueezeLoops, SqueezePhase, TypeOK
  <2>2. out' = BufferUpTo(given, outp + Rate) /\ out' \in Buffer
    <3>1. out' = ExtractBytes(Padded(given), FirstOut(given) + outp, BufferUpTo(given, outp), outp, Rate)
      BY <1>2, <1>4, <2>1 DEF squeezeblocks_block, Permute
    <3>2. out' = BufferUpTo(given, outp + Rate)
      BY <1>2, <2>1, <3>1, ExtractMore
    <3>3. QED
      BY <1>2, <3>2, BufferTypes
  <2>3. (base + Rate) % Rate = 0
    BY <1>1, NextBlock DEF TypeOK
  <2>4. left * Rate = (left - 1) * Rate + Rate /\ (left - 1) * Rate \in Nat
    BY <2>1, SMT
  <2>5. Remainder(outlen) \in Nat
    <3>1. outlen \in Nat
      BY <1>1 DEF TypeOK
    <3>2. Remainder(outlen) \in 0 .. Rate - 1
      BY <3>1, RemainderBound
    <3>3. QED
      BY <3>2
  <2>6. /\ asked = outp + Rate + (left - 1) * Rate
                      + (IF call = "shake" THEN Remainder(outlen) ELSE 0)
        /\ outp + Rate <= MaxOut
    BY <1>1, <1>4, <2>1, <2>4, <2>5 DEF squeezeblocks_block, SqueezeLoops, TypeOK
  <2>7. TypeOK'
    BY <1>1, <1>4, <2>1, <2>2, <2>6 DEF squeezeblocks_block, TypeOK, ghost, Permute
  <2>8. OutputIsStream'
    BY <1>2, <1>4, <2>2 DEF squeezeblocks_block, ghost, OutputIsStream, BufferUpTo
  <2>9. SqueezeLoops'
    BY <1>1, <1>4, <2>1, <2>5, <2>6 DEF squeezeblocks_block, ghost, TypeOK, SqueezeLoops
  <2>10. SqueezePhase'
    <3>1. /\ base' = base + Rate /\ given' = given /\ outp' = outp + Rate /\ pos' = Rate
          /\ lanes' = lanes /\ phase' = phase
      BY <1>4, <2>1 DEF squeezeblocks_block, ghost, Permute
    <3>2. FirstOut(given) \in Nat
      BY <1>2, FirstOutNat
    <3>3. base' + pos' = FirstOut(given') + outp'
      BY <1>2, <2>1, <3>1, <3>2
    <3>4. QED
      BY <2>1, <3>1, <3>3 DEF SqueezePhase
  <2>11. QED
    BY <1>1, <1>4, <2>1, <2>3, <2>7, <2>8, <2>9, <2>10
       DEF squeezeblocks_block, ghost, Permute, IInv, AbsorbLoop, AbsorbOnceLoop,
           AbsorbPhase, AbsorbPosition, DigestComplete
<1>5. CASE squeezeblocks_return
  <2>1. /\ phase = "squeeze" /\ pos = Rate /\ left = 0 /\ 0 * Rate = 0
        /\ asked = outp + left * Rate + (IF call = "shake" THEN Remainder(outlen) ELSE 0)
    BY <1>1, <1>5, SMT DEF squeezeblocks_return, SqueezeLoops
  <2>2. Remainder(outlen) \in Nat
    <3>1. outlen \in Nat
      BY <1>1 DEF TypeOK
    <3>2. Remainder(outlen) \in 0 .. Rate - 1
      BY <3>1, RemainderBound
    <3>3. QED
      BY <3>2
  <2>3. TypeOK'
    BY <1>1, <1>5, <2>2 DEF squeezeblocks_return, TypeOK, state, ghost, Ops
  <2>4. SqueezeLoops' /\ DigestComplete'
    BY <1>1, <1>5, <2>1, <2>2 DEF squeezeblocks_return, TypeOK, state, ghost, SqueezeLoops, DigestComplete
  <2>5. OutputIsStream' /\ SqueezePhase' /\ base' % Rate = 0
    BY <1>1, <1>5 DEF IInv, squeezeblocks_return, state, ghost, OutputIsStream, SqueezePhase
  <2>6. QED
    BY <1>5, <2>1, <2>3, <2>4, <2>5
       DEF squeezeblocks_return, state, ghost, IInv, AbsorbLoop, AbsorbOnceLoop,
           AbsorbPhase, AbsorbPosition, DigestComplete
<1>6. ASSUME NEW k \in 0 .. MaxOut, shake_squeeze(k) PROVE IInv'
  <2>1. outp = asked /\ asked + k \in 0 .. MaxOut
    BY <1>1, <1>6 DEF shake_squeeze, IInv, DigestComplete, TypeOK
  <2>2. TypeOK'
    BY <1>1, <1>6, <2>1 DEF shake_squeeze, TypeOK, state, Ops, Calls
  <2>3. OutputIsStream' /\ SqueezePhase' /\ base' % Rate = 0
    BY <1>1, <1>6, <2>1 DEF IInv, OutputIsStream, SqueezePhase, shake_squeeze, state
  <2>4. QED
    BY <1>1, <1>6, <2>1, <2>2, <2>3
       DEF shake_squeeze, state, IInv, TypeOK, AbsorbLoop, AbsorbOnceLoop,
           SqueezeLoops, AbsorbPhase, AbsorbPosition, DigestComplete
<1>7. CASE keccak_squeeze_chunk
  <2> DEFINE p == IF pos = Rate THEN 0 ELSE pos
             chunk == Chunk(p)
  <2>1. /\ phase = "squeeze" /\ left \in Nat \ {0} /\ lanes = Padded(given)
        /\ base + pos = FirstOut(given) + outp /\ base \in Nat /\ pos \in 1 .. Rate
        /\ asked = outp + left /\ asked <= MaxOut
    BY <1>1, <1>7 DEF keccak_squeeze_chunk, SqueezeLoops, SqueezePhase, TypeOK
  <2>2. /\ p \in 0 .. Rate - 1 /\ chunk \in 1 .. Rate - p /\ chunk <= left
        /\ base' = (IF pos = Rate THEN base + Rate ELSE base)
        /\ base' + p = FirstOut(given) + outp
    BY <1>7, <2>1 DEF keccak_squeeze_chunk, Permute, BlockUsedUp, Chunk
  <2>3. /\ out' = ExtractBytes(lanes, base' + p, out, outp, chunk)
        /\ outp' = outp + chunk /\ left' = left - chunk /\ pos' = p + chunk
        /\ UNCHANGED <<lanes, op, call, in, outlen, phase, given, asked>>
    BY <1>7 DEF keccak_squeeze_chunk, ghost, BlockUsedUp
  <2> HIDE DEF p, chunk
  <2>4. out' = BufferUpTo(given, outp + chunk) /\ out' \in Buffer
    <3>1. out' = ExtractBytes(Padded(given), FirstOut(given) + outp, BufferUpTo(given, outp), outp, chunk)
      BY <1>2, <2>1, <2>2, <2>3
    <3>2. chunk \in Nat
      BY <2>1, <2>2
    <3>3. out' = BufferUpTo(given, outp + chunk)
      BY <1>2, <2>2, <3>1, <3>2, ExtractMore
    <3>4. QED
      BY <1>2, <3>2, <3>3, BufferTypes
  <2>5. base' \in Nat /\ base' % Rate = 0
    <3>1. (base + Rate) % Rate = 0
      BY <1>1, NextBlock DEF TypeOK
    <3>2. QED
      BY <1>1, <2>1, <2>2, <3>1
  <2>6. TypeOK'
    BY <1>1, <2>1, <2>2, <2>3, <2>4, <2>5 DEF TypeOK
  <2>7. OutputIsStream'
    BY <1>2, <2>3, <2>4 DEF OutputIsStream, BufferUpTo
  <2>8. SqueezePhase'
    <3>1. FirstOut(given) \in Nat
      BY <1>2, FirstOutNat
    <3>2. base' + pos' = FirstOut(given) + outp' /\ pos' > 0
      BY <1>2, <2>1, <2>2, <2>3, <2>5, <3>1
    <3>3. QED
      BY <2>1, <2>3, <3>2 DEF SqueezePhase
  <2>9. op = "squeeze"
    BY <1>7 DEF keccak_squeeze_chunk
  <2>10. SqueezeLoops'
    BY <1>1, <1>2, <2>1, <2>2, <2>3, <2>9 DEF SqueezeLoops, TypeOK
  <2>11. AbsorbLoop' /\ AbsorbOnceLoop' /\ AbsorbPhase' /\ AbsorbPosition' /\ op' # "idle"
    BY <2>1, <2>3, <2>9 DEF AbsorbLoop, AbsorbOnceLoop, AbsorbPhase, AbsorbPosition, DigestComplete
  <2>12. QED
    BY <2>5, <2>6, <2>7, <2>8, <2>10, <2>11 DEF IInv, DigestComplete
<1>8. CASE keccak_squeeze_return
  <2>1. phase = "squeeze" /\ outp = asked
    BY <1>1, <1>8 DEF keccak_squeeze_return, SqueezeLoops, TypeOK
  <2>2. TypeOK' /\ OutputIsStream' /\ SqueezePhase' /\ base' % Rate = 0
    BY <1>1, <1>8, <2>1 DEF IInv, keccak_squeeze_return, state, TypeOK, Ops, Phases,
       OutputIsStream, SqueezePhase
  <2>3. QED
    BY <1>8, <2>1, <2>2 DEF IInv, keccak_squeeze_return, state, AbsorbLoop, AbsorbOnceLoop,
       SqueezeLoops, AbsorbPhase, AbsorbPosition, DigestComplete
<1>9. CASE sha3_digest
  <2>1. /\ phase = "squeeze" /\ pos = Rate /\ outp = 0 /\ asked = HashLen
        /\ lanes = Padded(given) /\ base \in Nat /\ base + Rate = FirstOut(given) + outp
    BY <1>1, <1>9 DEF sha3_digest, SqueezeLoops, SqueezePhase, TypeOK
  <2>2. HashLen \in Nat /\ HashLen <= MaxOut
    BY HashAssumption
  <2>3. out' = BufferUpTo(given, outp + HashLen) /\ out' \in Buffer
    <3>1. out' = ExtractBytes(Padded(given), FirstOut(given) + outp, BufferUpTo(given, outp), outp, HashLen)
      BY <1>2, <1>9, <2>1 DEF sha3_digest, Permute
    <3>2. out' = BufferUpTo(given, outp + HashLen)
      BY <1>2, <2>1, <2>2, <3>1, ExtractMore
    <3>3. QED
      BY <1>2, <2>2, <3>2, BufferTypes
  <2>4. (base + Rate) % Rate = 0
    BY <1>1, NextBlock DEF TypeOK
  <2>5. TypeOK' /\ base' % Rate = 0
    BY <1>1, <1>9, <2>1, <2>2, <2>3, <2>4 DEF sha3_digest, TypeOK, Ops, Phases, Permute
  <2>6. OutputIsStream'
    BY <1>2, <1>9, <2>3 DEF sha3_digest, OutputIsStream, BufferUpTo
  <2>7. QED
    BY <1>9, <2>1, <2>2, <2>5, <2>6 DEF IInv, DigestComplete, sha3_digest, AbsorbLoop, AbsorbOnceLoop,
       SqueezeLoops, SqueezePhase, AbsorbPhase, AbsorbPosition, DigestComplete
<1>10. QED
  BY <1>3, <1>4, <1>5, <1>6, <1>7, <1>8, <1>9

-----------------------------------------------------------------------------
\* The steps together.
LEMMA NextIInv ==
  ASSUME IInv, [Next]_vars
  PROVE  IInv'
<1>1. ASSUME NEW k \in 0 .. MaxIn, shake_absorb_once(k) PROVE IInv'
  <2>1. keccak_absorb_once("incremental", k, 0)
    BY <1>1 DEF shake_absorb_once
  <2>2. "incremental" \in Calls /\ 0 \in 0 .. MaxOut
    BY SpongeAssumption DEF Calls
  <2>3. QED
    BY <2>1, <2>2, AbsorbOnceSteps
<1>2. ASSUME NEW k \in 0 .. MaxIn, sha3(k) PROVE IInv'
  <2>1. keccak_absorb_once("sha3", k, HashLen)
    BY <1>2 DEF sha3
  <2>2. "sha3" \in Calls /\ HashLen \in 0 .. MaxOut
    BY SpongeAssumption, HashAssumption DEF Calls
  <2>3. QED
    BY <2>1, <2>2, AbsorbOnceSteps
<1>3. ASSUME NEW k \in 0 .. MaxIn, NEW len \in 0 .. MaxOut, shake(k, len) PROVE IInv'
  <2>1. keccak_absorb_once("shake", k, len)
    BY <1>3 DEF shake
  <2>2. "shake" \in Calls
    BY DEF Calls
  <2>3. QED
    BY <2>1, <2>2, AbsorbOnceSteps
<1>4. CASE absorb_once_block \/ absorb_once_tail
  BY <1>4, AbsorbOnceSteps
<1>5. CASE \/ shake_init
           \/ \E k \in 0 .. MaxIn : shake_absorb(k)
           \/ keccak_absorb_block
           \/ keccak_absorb_tail
           \/ shake_finalize
  BY <1>5, AbsorbSteps
<1>6. CASE \/ \E nb \in 0 .. MaxOut : shake_squeezeblocks(nb)
           \/ squeezeblocks_block
           \/ squeezeblocks_return
           \/ \E k \in 0 .. MaxOut : shake_squeeze(k)
           \/ keccak_squeeze_chunk
           \/ keccak_squeeze_return
           \/ sha3_digest
  BY <1>6, SqueezeSteps
<1>7. CASE UNCHANGED vars
  BY <1>7 DEF vars, IInv, TypeOK, AbsorbLoop, AbsorbOnceLoop, SqueezeLoops, AbsorbPhase,
         SqueezePhase, AbsorbPosition, DigestComplete, OutputIsStream
<1>8. QED
  BY <1>1, <1>2, <1>3, <1>4, <1>5, <1>6, <1>7 DEF Next, Call, Step

\* Every behaviour of the code keeps the invariant of its loops.
THEOREM KeccakInvariant == Spec => []IInv
  BY InitIInv, NextIInv, PTL DEF Spec

\* Every variable keeps to its type: no loop runs past the message or the buffer.
THEOREM KeccakTypes == Spec => []TypeOK
<1>1. IInv => TypeOK
  BY DEF IInv
<1>2. QED
  BY <1>1, KeccakInvariant, PTL

\* Between two absorb calls the state holds exactly the message so far.
THEOREM KeccakAbsorbPosition == Spec => []AbsorbPosition
<1>1. IInv => AbsorbPosition
  BY DEF IInv
<1>2. QED
  BY <1>1, KeccakInvariant, PTL

\* Whatever the calls, output byte j is byte j of the stream of the message.
THEOREM KeccakOutputIsStream == Spec => []OutputIsStream
<1>1. IInv => OutputIsStream
  BY DEF IInv
<1>2. QED
  BY <1>1, KeccakInvariant, PTL

\* A call that has returned has delivered every byte it was asked for.
THEOREM KeccakDigestComplete == Spec => []DigestComplete
<1>1. IInv => DigestComplete
  BY DEF IInv
<1>2. QED
  BY <1>1, KeccakInvariant, PTL

-----------------------------------------------------------------------------
\* Refinement: every step is a step of XofSpec or leaves its variables alone.

LEMMA RefineCalls ==
  ASSUME IInv,
         \/ shake_init
         \/ \E k \in 0 .. MaxIn : shake_absorb(k)
         \/ \E f \in Calls, k \in 0 .. MaxIn, len \in 0 .. MaxOut : keccak_absorb_once(f, k, len)
         \/ shake_finalize
         \/ \E nb \in 0 .. MaxOut : shake_squeezeblocks(nb)
         \/ \E k \in 0 .. MaxOut : shake_squeeze(k)
  PROVE  [XOF!Next]_(XOF!vars)
<1> USE SpongeAssumption
<1>1. CASE shake_init
  <2>1. XOF!Begin(0) /\ 0 \in 0 .. MaxIn
    BY <1>1 DEF shake_init, NewDigest, XOF!Begin, XOF!EmptyBuffer, EmptyBuffer, XOF!Blank, Blank
  <2>2. QED
    BY <2>1 DEF XOF!Next
<1>2. ASSUME NEW k \in 0 .. MaxIn, shake_absorb(k) PROVE XOF!Next
  <2>1. XOF!Absorb(k)
    BY <1>2 DEF shake_absorb, XOF!Absorb
  <2>2. QED
    BY <2>1 DEF XOF!Next
<1>3. ASSUME NEW f \in Calls, NEW k \in 0 .. MaxIn, NEW len \in 0 .. MaxOut,
             keccak_absorb_once(f, k, len)
      PROVE  XOF!Next
  <2>1. XOF!Begin(k)
    BY <1>3 DEF keccak_absorb_once, NewDigest, XOF!Begin, XOF!EmptyBuffer, EmptyBuffer, XOF!Blank, Blank
  <2>2. QED
    BY <2>1 DEF XOF!Next
<1>4. CASE shake_finalize
  BY <1>4 DEF shake_finalize, XOF!Finalize, XOF!Next
<1>5. ASSUME NEW nb \in 0 .. MaxOut, shake_squeezeblocks(nb) PROVE UNCHANGED XOF!vars
  BY <1>5 DEF shake_squeezeblocks, IInv, DigestComplete, XOF!vars
<1>6. ASSUME NEW k \in 0 .. MaxOut, shake_squeeze(k) PROVE UNCHANGED XOF!vars
  BY <1>6 DEF shake_squeeze, IInv, DigestComplete, XOF!vars
<1>7. QED
  BY <1>1, <1>2, <1>3, <1>4, <1>5, <1>6

\* The operators of Sponge mean the same in both modules.
LEMMA SameOperators ==
  /\ XOF!EmptyBuffer = EmptyBuffer
  /\ \A g, j : XOF!Stream(g, j) = Stream(g, j)
<1>1. \A g : XOF!FirstOut(g) = FirstOut(g)
  BY DEF XOF!FirstOut, FirstOut
<1>2. XOF!Addr = Addr
  BY DEF XOF!Addr, Addr
<1>3. \A x, y : XOF!Xor(x, y) = Xor(x, y)
  BY DEF XOF!Xor, Xor
<1>4. \A g : XOF!Padded(g) = Padded(g)
  BY <1>1, <1>2, <1>3 DEF XOF!Padded, Padded
<1>5. QED
  BY <1>1, <1>4 DEF XOF!Stream, Stream, XOF!EmptyBuffer, EmptyBuffer, XOF!Blank, Blank

\* Writing the next k bytes of the stream is what XofSpec calls a squeeze.
LEMMA RefineSqueeze ==
  ASSUME given \in 0 .. MaxIn, outp \in Nat, out \in Buffer, OutputIsStream,
         NEW k \in 0 .. MaxOut,
         phase = "squeeze",
         phase' \in {"squeeze", "none"},
         given' = given,
         outp' = outp + k,
         outp' <= MaxOut,
         OutputIsStream',
         out' \in Buffer
  PROVE  XOF!Squeeze(k)
<1>1. /\ out = BufferUpTo(given, outp) /\ out' = BufferUpTo(given, outp + k)
      /\ given \in 0 .. MaxIn /\ outp \in Nat /\ k \in Nat
  BY OutputAsBuffer, SpongeAssumption DEF OutputIsStream, BufferUpTo, Buffer
<1>2. out' = [j \in 0 .. MaxOut - 1 |->
                IF outp <= j /\ j < outp + k THEN XOF!Stream(given, j) ELSE out[j]]
  <2>1. BufferUpTo(given, outp + k) =
          [j \in 0 .. MaxOut - 1 |->
             IF outp <= j /\ j < outp + k THEN Stream(given, j) ELSE BufferUpTo(given, outp)[j]]
    BY <1>1, BufferMore
  <2>2. \A j : XOF!Stream(given, j) = Stream(given, j)
    BY SameOperators
  <2>3. QED
    BY <1>1, <2>1, <2>2
<1>3. QED
  BY <1>2 DEF XOF!Squeeze

LEMMA RefineSteps ==
  ASSUME IInv, IInv', Step
  PROVE  [XOF!Next]_(XOF!vars)
<1> USE SpongeAssumption
<1>1. /\ OutputIsStream' /\ out' \in Buffer /\ outp' <= MaxOut /\ TypeOK /\ TypeOK' /\ SqueezeLoops
      /\ OutputIsStream /\ out \in Buffer /\ outp \in Nat /\ given \in 0 .. MaxIn
  BY DEF IInv, TypeOK
<1>2. CASE keccak_absorb_block \/ keccak_absorb_tail \/ absorb_once_block \/ squeezeblocks_return
  BY <1>2 DEF keccak_absorb_block, keccak_absorb_tail, absorb_once_block,
     squeezeblocks_return, state, ghost, XOF!vars
<1>3. CASE absorb_once_tail
  <2>1. XOF!Finalize
    BY <1>3 DEF absorb_once_tail, IInv, AbsorbOnceLoop, XOF!Finalize
  <2>2. QED
    BY <2>1 DEF XOF!Next
<1>4. CASE squeezeblocks_block
  <2>1. /\ phase = "squeeze" /\ phase' = phase /\ given' = given /\ outp' = outp + Rate
        /\ outp \in Nat
    BY <1>1, <1>4 DEF squeezeblocks_block, SqueezeLoops, ghost, TypeOK
  <2>2. Rate \in 0 .. MaxOut
    BY <1>1, <2>1
  <2>3. XOF!Squeeze(Rate)
    BY <1>1, <2>1, <2>2, RefineSqueeze
  <2>4. QED
    BY <2>2, <2>3 DEF XOF!Next
<1>5. CASE keccak_squeeze_chunk
  <2> DEFINE p == IF pos = Rate THEN 0 ELSE pos
             chunk == Chunk(p)
  <2>1. /\ phase = "squeeze" /\ phase' = phase /\ given' = given /\ outp' = outp + chunk
        /\ outp \in Nat /\ chunk \in Nat
    BY <1>1, <1>5, HashAssumption DEF keccak_squeeze_chunk, SqueezeLoops, ghost, TypeOK, BlockUsedUp, Chunk
  <2> HIDE DEF chunk
  <2>2. chunk \in 0 .. MaxOut
    BY <1>1, <2>1
  <2>3. XOF!Squeeze(chunk)
    BY <1>1, <2>1, <2>2, RefineSqueeze
  <2>4. QED
    BY <2>2, <2>3 DEF XOF!Next
<1>6. CASE keccak_squeeze_return
  <2>1. XOF!Drop \/ UNCHANGED XOF!vars
    BY <1>6 DEF keccak_squeeze_return, XOF!Drop, XOF!vars
  <2>2. QED
    BY <2>1 DEF XOF!Next
<1>7. CASE sha3_digest
  <2>1. /\ phase = "squeeze" /\ phase' = "none" /\ given' = given /\ outp' = outp + HashLen
        /\ HashLen \in 0 .. MaxOut
    BY <1>1, <1>7, HashAssumption DEF sha3_digest, SqueezeLoops
  <2>2. XOF!Squeeze(HashLen)
    BY <1>1, <2>1, RefineSqueeze
  <2>3. QED
    BY <2>1, <2>2 DEF XOF!Next
<1>8. QED
  BY <1>2, <1>3, <1>4, <1>5, <1>6, <1>7 DEF Step

LEMMA RefineInit == Init => XOF!Init
  BY DEF Init, XOF!Init, XOF!EmptyBuffer, EmptyBuffer, XOF!Blank, Blank

LEMMA RefineNext ==
  ASSUME IInv, IInv', [Next]_vars
  PROVE  [XOF!Next]_(XOF!vars)
<1>1. ASSUME NEW k \in 0 .. MaxIn, NEW len \in 0 .. MaxOut,
             shake_absorb_once(k) \/ sha3(k) \/ shake(k, len)
      PROVE  [XOF!Next]_(XOF!vars)
  <2>1. \E f \in Calls, l \in 0 .. MaxOut : keccak_absorb_once(f, k, l)
    BY <1>1, HashAssumption, SpongeAssumption DEF shake_absorb_once, sha3, shake, Calls
  <2>2. QED
    BY <2>1, RefineCalls
<1>2. CASE \/ shake_init
           \/ \E k \in 0 .. MaxIn : shake_absorb(k)
           \/ shake_finalize
           \/ \E nb \in 0 .. MaxOut : shake_squeezeblocks(nb)
           \/ \E k \in 0 .. MaxOut : shake_squeeze(k)
  BY <1>2, RefineCalls
<1>3. CASE Step
  BY <1>3, RefineSteps
<1>4. CASE UNCHANGED vars
  BY <1>4 DEF vars, XOF!vars
<1>5. 0 \in 0 .. MaxOut
  BY SpongeAssumption
<1>6. QED
  BY <1>1, <1>2, <1>3, <1>4, <1>5 DEF Next, Call

\* The incremental and the one-shot functions of ml-kem/fips202.c implement the
\* extendable-output function, for every rate, message and sequence of calls.
THEOREM KeccakImplementsXof == Spec => ImplementsXof
  BY RefineInit, RefineNext, KeccakInvariant, PTL DEF Spec, ImplementsXof, XOF!Spec

-----------------------------------------------------------------------------
(*  ml-dsa/fips202.c and shake256.c  *)

\* What the three keep in the variables they share: types, whole blocks, and what
\* the caller sees of the output.
SharedTypes ==
  /\ lanes \in Lanes
  /\ base \in Nat
  /\ base % Rate = 0
  /\ out \in Buffer
  /\ outlen \in 0 .. MaxOut
  /\ outp \in 0 .. MaxOut
  /\ phase \in Phases
  /\ given \in 0 .. MaxIn
  /\ asked \in 0 .. MaxOut

Shared == SharedTypes /\ OutputIsStream /\ DigestComplete

-----------------------------------------------------------------------------
\* ml-dsa/fips202.c.

BytesAbsorbs == {"absorb", "fill", "tail", "once", "once_tail"}
BytesSqueezes == {"squeeze", "copy", "squeezeblocks", "hash"}

BytesTypes ==
  /\ pos \in 0 .. Rate
  /\ op \in {"idle"} \cup BytesAbsorbs \cup BytesSqueezes
  /\ call \in Calls
  /\ in \in 0 .. MaxIn
  /\ left \in Nat
  /\ i \in 0 .. Rate
  /\ inlen \in 0 .. MaxIn

\* The message loops: in is the next message byte, i its place in the block.
BytesAbsorbLoops ==
  /\ op \in {"absorb", "fill", "tail"} =>
       /\ pos < Rate
       /\ base + pos + inlen = given
       /\ lanes = Absorbed(in)
  /\ op = "absorb" => in = base + pos
  /\ op \in {"fill", "tail"} => pos <= i /\ in = base + i
  /\ op = "fill" => pos + inlen >= Rate
  /\ op = "tail" => pos + inlen < Rate /\ i <= pos + inlen

BytesOnceLoops ==
  /\ op \in {"once", "once_tail"} =>
       /\ in = base
       /\ base + inlen = given
       /\ call = "sha3" => outlen = HashLen
       /\ call = "incremental" => outlen = 0
  /\ op = "once" => lanes = Absorbed(base)
  /\ op = "once_tail" => inlen < Rate /\ i <= inlen /\ lanes = Absorbed(base + i)

BytesSqueezeLoops ==
  /\ op = "squeeze" => asked = outp + outlen
  /\ op = "copy" =>
       /\ pos < Rate
       /\ pos <= i
       /\ i <= pos + outlen
       /\ asked = outp + (outlen - (i - pos))
  /\ op = "squeezeblocks" =>
       /\ pos = Rate
       /\ asked = outp + left * Rate + (IF call = "shake" THEN Remainder(outlen) ELSE 0)
  /\ op = "hash" => pos = Rate /\ outp = 0 /\ asked = HashLen

BytesPhases ==
  /\ op \in BytesAbsorbs => phase = "absorb"
  /\ op \in BytesSqueezes => phase = "squeeze"
  /\ phase = "absorb" => outp = 0 /\ asked = 0
  /\ phase = "squeeze" =>
       /\ lanes = Padded(given)
       /\ base + (IF op = "copy" THEN i ELSE pos) = FirstOut(given) + outp

BytesInv ==
  /\ Shared
  /\ BytesTypes
  /\ BytesAbsorbLoops
  /\ BytesOnceLoops
  /\ BytesSqueezeLoops
  /\ BytesPhases
  /\ AbsorbPosition

-----------------------------------------------------------------------------
\* shake256/shake256.c.

BlocksTypes ==
  /\ op \in {"idle", "absorb", "squeezeblocks", "remainder"}
  /\ oneshot \in BOOLEAN
  /\ m \in Nat
  /\ mlen \in Nat
  /\ nblocks \in Nat

\* All of the message goes in before the call returns.
BlocksAbsorbLoop ==
  /\ op = "absorb" <=> phase = "absorb"
  /\ op = "absorb" =>
       /\ m = base
       /\ m + mlen = given
       /\ lanes = Absorbed(base)
       /\ outp = 0
       /\ ~ oneshot => outlen = 0

BlocksSqueezeLoops ==
  /\ op \in {"squeezeblocks", "remainder"} => phase = "squeeze"
  /\ op = "remainder" => oneshot /\ asked = outp + outlen
  /\ op = "idle" /\ phase = "squeeze" => ~ oneshot
  /\ op = "squeezeblocks" =>
       asked = outp + nblocks * Rate + (IF oneshot THEN Remainder(outlen) ELSE 0)
  /\ phase = "squeeze" =>
       /\ lanes = Padded(given)
       /\ base + Rate = FirstOut(given) + outp

BlocksInv ==
  /\ Shared
  /\ BlocksTypes
  /\ BlocksAbsorbLoop
  /\ BlocksSqueezeLoops

-----------------------------------------------------------------------------
\* The loops of the copy that runs.
SpongesInv ==
  /\ code \in {"ml-kem", "ml-dsa", "shake256"}
  /\ code = "ml-kem" => IInv
  /\ code = "ml-dsa" => BytesInv
  /\ code = "shake256" => BlocksInv

-----------------------------------------------------------------------------
\* The operators of Sponge mean the same in the three modules.

LEMMA BytesOperators ==
  /\ Bytes!ZeroLanes = ZeroLanes /\ Bytes!EmptyBuffer = EmptyBuffer
  /\ \A l, a, b : Bytes!AddByte(l, a, b) = AddByte(l, a, b)
  /\ \A l, a, k, n : Bytes!AddBytes(l, a, k, n) = AddBytes(l, a, k, n)
  /\ \A b : Bytes!Permute(b) = b + Rate
  /\ \A l, a, o, p, n : Bytes!ExtractBytes(l, a, o, p, n) = ExtractBytes(l, a, o, p, n)
<1>1. \A x, y : Bytes!Xor(x, y) = Xor(x, y)
  BY DEF Bytes!Xor, Xor
<1>2. Bytes!Addr = Addr
  BY DEF Bytes!Addr, Addr
<1>3. QED
  BY <1>1, <1>2 DEF Bytes!ZeroLanes, ZeroLanes, Bytes!EmptyBuffer, EmptyBuffer, Bytes!Blank, Blank,
     Bytes!AddByte, AddByte, Bytes!AddBytes, AddBytes, Bytes!Permute, Bytes!ExtractBytes, ExtractBytes

LEMMA BlocksOperators ==
  /\ Blocks!ZeroLanes = ZeroLanes /\ Blocks!EmptyBuffer = EmptyBuffer /\ Blocks!Addr = Addr
  /\ \A x, y : Blocks!Xor(x, y) = Xor(x, y)
  /\ \A l, a, k, n : Blocks!AddBytes(l, a, k, n) = AddBytes(l, a, k, n)
  /\ \A b : Blocks!Permute(b) = b + Rate
  /\ \A l, a, o, p, n : Blocks!ExtractBytes(l, a, o, p, n) = ExtractBytes(l, a, o, p, n)
<1>1. \A x, y : Blocks!Xor(x, y) = Xor(x, y)
  BY DEF Blocks!Xor, Xor
<1>2. Blocks!Addr = Addr
  BY DEF Blocks!Addr, Addr
<1>3. QED
  BY <1>1, <1>2 DEF Blocks!ZeroLanes, ZeroLanes, Blocks!EmptyBuffer, EmptyBuffer, Blocks!Blank, Blank,
     Blocks!AddBytes, AddBytes, Blocks!Permute, Blocks!ExtractBytes, ExtractBytes

-----------------------------------------------------------------------------
\* What the steps of the two modules do to the message and to the output.

\* XORing the next byte of the message at the next address extends what is
\* absorbed by that byte.
LEMMA AbsorbByte ==
  ASSUME NEW a \in Nat, a < MaxIn
  PROVE  AddByte(Absorbed(a), a, Msg[a]) = Absorbed(a + 1)
<1>1. AddBytes(Absorbed(a), a, a, 1) = Absorbed(a + 1)
  BY AbsorbMore, SpongeAssumption
<1>2. a \in Addr /\ a + a - a = a
  BY SpongeAssumption DEF Addr
<1>3. \A x \in Addr : (a <= x /\ x < a + 1) <=> x = a
  BY SpongeAssumption DEF Addr
<1>4. AddByte(Absorbed(a), a, Msg[a]) = AddBytes(Absorbed(a), a, a, 1)
  BY <1>2, <1>3 DEF AddByte, AddBytes, Absorbed
<1>5. QED
  BY <1>1, <1>4

\* A new digest empties the buffer.
LEMMA OutputNew ==
  ASSUME out' = EmptyBuffer, outp' = 0
  PROVE  OutputIsStream' /\ out' \in Buffer
  BY SpongeAssumption, BufferTypes DEF OutputIsStream, EmptyBuffer

\* The message may grow only while nothing is written.
LEMMA OutputKept ==
  ASSUME OutputIsStream, out \in Buffer, UNCHANGED <<out, outp>>, given' = given \/ outp = 0
  PROVE  OutputIsStream' /\ out' \in Buffer
  BY SpongeAssumption DEF OutputIsStream

\* The bytes at the place of the next output byte are the next bytes of the
\* stream.
LEMMA OutputMore ==
  ASSUME OutputIsStream, out \in Buffer, given \in 0 .. MaxIn, outp \in Nat,
         lanes = Padded(given),
         NEW len \in Nat, NEW a, a = FirstOut(given) + outp,
         out' = ExtractBytes(lanes, a, out, outp, len),
         outp' = outp + len, given' = given
  PROVE  OutputIsStream' /\ out' \in Buffer
<1>1. out = BufferUpTo(given, outp)
  BY OutputAsBuffer
<1>2. out' = BufferUpTo(given, outp + len) /\ outp + len \in Nat
  BY <1>1, ExtractMore
<1>3. out' \in Buffer
  BY <1>2, BufferTypes
<1>4. QED
  BY <1>2, <1>3 DEF OutputIsStream, BufferUpTo

\* To the caller, such a step is a squeeze of XofSpec.
LEMMA SqueezeStep ==
  ASSUME OutputIsStream, out \in Buffer, given \in 0 .. MaxIn, outp \in Nat,
         OutputIsStream', out' \in Buffer,
         NEW len \in Nat, outp' = outp + len, outp' <= MaxOut, given' = given,
         phase = "squeeze", phase' \in {"squeeze", "none"}
  PROVE  [XOF!Next]_(XOF!vars)
<1>1. len \in 0 .. MaxOut
  BY SpongeAssumption
<1>2. XOF!Squeeze(len)
  BY <1>1, RefineSqueeze
<1>3. QED
  BY <1>1, <1>2 DEF XOF!Next

LEMMA BeginStep ==
  ASSUME NEW k \in 0 .. MaxIn, phase' = "absorb", given' = k, outp' = 0, out' = EmptyBuffer
  PROVE  [XOF!Next]_(XOF!vars)
<1>1. XOF!Begin(k)
  BY SameOperators DEF XOF!Begin
<1>2. QED
  BY <1>1 DEF XOF!Next

LEMMA FinalizeStep ==
  ASSUME phase = "absorb", phase' = "squeeze", UNCHANGED <<given, outp, out>>
  PROVE  [XOF!Next]_(XOF!vars)
<1>1. XOF!Finalize
  BY DEF XOF!Finalize
<1>2. QED
  BY <1>1 DEF XOF!Next

LEMMA SilentStep ==
  ASSUME UNCHANGED <<phase, given, outp, out>>
  PROVE  [XOF!Next]_(XOF!vars)
  BY DEF XOF!vars

LEMMA DropStep ==
  ASSUME phase' \in {phase, "none"}, UNCHANGED <<given, outp, out>>
  PROVE  [XOF!Next]_(XOF!vars)
<1>1. XOF!Drop \/ UNCHANGED XOF!vars
  BY DEF XOF!Drop, XOF!vars
<1>2. QED
  BY <1>1 DEF XOF!Next

-----------------------------------------------------------------------------
\* ml-dsa/fips202.c: one lemma per kind of step.

LEMMA BytesInit ==
  ASSUME Bytes!Init
  PROVE  BytesInv
<1> USE SpongeAssumption
<1>1. lanes \in Lanes
  <2>1. \A b \in Byte : [a \in Addr |-> b] \in Lanes
    BY DEF Lanes
  <2>2. Suffix \in Byte /\ TopBit \in Byte /\ Bytes!Addr = Addr
    BY DEF Byte, Bytes!Addr, Addr
  <2>3. QED
    BY <2>1, <2>2 DEF Bytes!Init
<1>2. out = EmptyBuffer /\ out \in Buffer /\ outp = 0 /\ given = 0 /\ asked = 0 /\ phase = "none"
  BY BytesOperators, BufferTypes DEF Bytes!Init
<1>3. 0 % Rate = 0
  BY SMT
<1>4. OutputIsStream
  BY <1>2 DEF OutputIsStream, EmptyBuffer
<1>5. QED
  BY <1>1, <1>2, <1>3, <1>4
     DEF Bytes!Init, BytesInv, Shared, SharedTypes, DigestComplete, BytesTypes, BytesAbsorbs,
         BytesSqueezes, Calls, Phases, BytesAbsorbLoops, BytesOnceLoops, BytesSqueezeLoops,
         BytesPhases, AbsorbPosition

LEMMA BytesBegins ==
  ASSUME BytesInv,
         \/ Bytes!shake_init
         \/ \E f \in Calls, k \in 0 .. MaxIn, n \in 0 .. MaxOut :
              /\ Bytes!keccak_absorb_once(f, k, n)
              /\ f = "sha3" => n = HashLen
              /\ f = "incremental" => n = 0
  PROVE  BytesInv' /\ [XOF!Next]_(XOF!vars)
<1> USE SpongeAssumption
<1>1. ZeroLanes \in Lanes /\ EmptyBuffer \in Buffer /\ Absorbed(0) = ZeroLanes
  BY LanesTypes, BufferTypes
<1>2. 0 % Rate = 0
  BY SMT
<1>3. SharedTypes /\ BytesTypes /\ BytesPhases
  BY DEF BytesInv, Shared
<1>4. CASE Bytes!shake_init
  <2>1. /\ op = "idle" /\ lanes' = Absorbed(0) /\ base' = 0 /\ pos' = 0 /\ phase' = "absorb"
        /\ given' = 0 /\ asked' = 0 /\ out' = EmptyBuffer /\ outp' = 0
        /\ UNCHANGED <<op, call, left, i, in, inlen, outlen>>
    BY <1>1, <1>4, BytesOperators DEF Bytes!shake_init
  <2>2. OutputIsStream' /\ out' \in Buffer
    BY <2>1, OutputNew
  <2>3. Shared'
    BY <1>1, <1>2, <1>3, <2>1, <2>2 DEF Shared, SharedTypes, Phases, DigestComplete
  <2>4. BytesTypes'
    BY <1>3, <2>1 DEF BytesTypes
  <2>5. BytesInv'
    BY <2>1, <2>3, <2>4 DEF BytesInv, BytesAbsorbs, BytesSqueezes, BytesAbsorbLoops,
       BytesOnceLoops, BytesSqueezeLoops, BytesPhases, AbsorbPosition
  <2>6. [XOF!Next]_(XOF!vars)
    BY <2>1, BeginStep
  <2>7. QED
    BY <2>5, <2>6
<1>5. ASSUME NEW f \in Calls, NEW k \in 0 .. MaxIn, NEW n \in 0 .. MaxOut,
             Bytes!keccak_absorb_once(f, k, n),
             f = "sha3" => n = HashLen,
             f = "incremental" => n = 0
      PROVE  BytesInv' /\ [XOF!Next]_(XOF!vars)
  <2>1. /\ op' = "once" /\ call' = f /\ lanes' = Absorbed(0) /\ base' = 0 /\ in' = 0 /\ inlen' = k
        /\ outlen' = n /\ phase' = "absorb" /\ given' = k /\ asked' = 0 /\ out' = EmptyBuffer
        /\ outp' = 0 /\ UNCHANGED <<pos, left, i>>
    BY <1>1, <1>5, BytesOperators DEF Bytes!keccak_absorb_once
  <2>2. OutputIsStream' /\ out' \in Buffer
    BY <2>1, OutputNew
  <2>3. Shared'
    BY <1>1, <1>2, <2>1, <2>2 DEF Shared, SharedTypes, Phases, DigestComplete
  <2>4. BytesTypes'
    BY <1>3, <2>1 DEF BytesTypes, BytesAbsorbs
  <2>5. BytesInv'
    BY <1>5, <2>1, <2>3, <2>4 DEF BytesInv, BytesAbsorbs, BytesSqueezes, BytesAbsorbLoops,
       BytesOnceLoops, BytesSqueezeLoops, BytesPhases, AbsorbPosition
  <2>6. [XOF!Next]_(XOF!vars)
    BY <2>1, BeginStep
  <2>7. QED
    BY <2>5, <2>6
<1>6. QED
  BY <1>4, <1>5

\* The message loops of the incremental API.
LEMMA BytesAbsorbSteps ==
  ASSUME BytesInv,
         \/ \E k \in 0 .. MaxIn : Bytes!shake_absorb(k)
         \/ Bytes!absorb_test
         \/ Bytes!fill_byte
         \/ Bytes!fill_end
         \/ Bytes!tail_byte
         \/ Bytes!absorb_return
  PROVE  BytesInv' /\ [XOF!Next]_(XOF!vars)
<1> USE SpongeAssumption
<1>1. /\ SharedTypes /\ OutputIsStream /\ DigestComplete /\ BytesTypes /\ BytesAbsorbLoops
      /\ BytesPhases /\ AbsorbPosition
  BY DEF BytesInv, Shared
<1>2. ASSUME NEW k \in 0 .. MaxIn, Bytes!shake_absorb(k)
      PROVE  BytesInv' /\ [XOF!Next]_(XOF!vars)
  <2>1. /\ op = "idle" /\ phase = "absorb" /\ given + k <= MaxIn
        /\ op' = "absorb" /\ in' = given /\ inlen' = k /\ given' = given + k
        /\ UNCHANGED <<lanes, base, pos, call, left, i, outlen, out, outp, phase, asked>>
    BY <1>2 DEF Bytes!shake_absorb
  <2>2. outp = 0 /\ pos < Rate /\ base + pos = given /\ lanes = Absorbed(given)
    BY <1>1, <2>1 DEF BytesPhases, AbsorbPosition
  <2>3. OutputIsStream' /\ out' \in Buffer
    BY <1>1, <2>1, <2>2, OutputKept DEF SharedTypes
  <2>4. Shared'
    BY <1>1, <2>1, <2>3 DEF Shared, SharedTypes, DigestComplete
  <2>5. BytesTypes'
    BY <1>1, <2>1 DEF BytesTypes, SharedTypes, BytesAbsorbs
  <2>6. BytesInv'
    BY <1>1, <2>1, <2>2, <2>4, <2>5 DEF BytesInv, SharedTypes, BytesAbsorbs, BytesSqueezes,
       BytesAbsorbLoops, BytesOnceLoops, BytesSqueezeLoops, BytesPhases, AbsorbPosition
  <2>7. XOF!Absorb(k)
    BY <2>1 DEF XOF!Absorb
  <2>8. QED
    BY <2>6, <2>7 DEF XOF!Next
<1>3. CASE Bytes!absorb_test
  <2>1. /\ op = "absorb" /\ op' = (IF pos + inlen >= Rate THEN "fill" ELSE "tail") /\ i' = pos
        /\ UNCHANGED <<lanes, base, pos, call, left, in, inlen, outlen, out, outp, phase, given, asked>>
    BY <1>3 DEF Bytes!absorb_test
  <2>2. /\ pos < Rate /\ base + pos + inlen = given /\ lanes = Absorbed(in) /\ in = base + pos
        /\ phase = "absorb" /\ outp = 0 /\ asked = 0
    BY <1>1, <2>1 DEF BytesAbsorbLoops, BytesPhases, BytesAbsorbs
  <2>3. OutputIsStream' /\ out' \in Buffer
    BY <1>1, <2>1, OutputKept DEF SharedTypes
  <2>4. Shared'
    BY <1>1, <2>1, <2>2, <2>3 DEF Shared, SharedTypes, DigestComplete
  <2>5. BytesTypes'
    BY <1>1, <2>1 DEF BytesTypes, BytesAbsorbs
  <2>6. BytesInv'
    BY <1>1, <2>1, <2>2, <2>4, <2>5 DEF BytesInv, BytesTypes, BytesAbsorbs, BytesSqueezes,
       BytesAbsorbLoops, BytesOnceLoops, BytesSqueezeLoops, BytesPhases, AbsorbPosition
  <2>7. QED
    BY <2>1, <2>6, SilentStep
<1>4. ASSUME Bytes!fill_byte \/ Bytes!tail_byte
      PROVE  BytesInv' /\ [XOF!Next]_(XOF!vars)
  <2>1. /\ op \in {"fill", "tail"}
        /\ op = "fill" => i < Rate
        /\ op = "tail" => i < pos + inlen
        /\ lanes' = AddByte(lanes, base + i, Msg[in]) /\ in' = in + 1 /\ i' = i + 1
        /\ UNCHANGED <<op, call, left, base, pos, inlen, outlen, out, outp, phase, given, asked>>
    BY <1>4, BytesOperators DEF Bytes!fill_byte, Bytes!tail_byte, Bytes!XorNextByte
  <2>2. /\ pos < Rate /\ base + pos + inlen = given /\ lanes = Absorbed(in) /\ in = base + i
        /\ op = "fill" => pos + inlen >= Rate
        /\ op = "tail" => pos + inlen < Rate
        /\ pos <= i /\ phase = "absorb" /\ outp = 0 /\ asked = 0
        /\ in \in Nat /\ base \in Nat /\ pos \in Nat /\ i \in Nat /\ inlen \in Nat /\ given <= MaxIn
    BY <1>1, <2>1 DEF BytesAbsorbLoops, BytesPhases, BytesAbsorbs, BytesTypes, SharedTypes
  <2>3. in < MaxIn /\ i < Rate
    BY <2>1, <2>2
  <2>4. lanes' = Absorbed(in + 1) /\ lanes' \in Lanes
    <3>1. lanes' = Absorbed(in + 1)
      BY <2>1, <2>2, <2>3, AbsorbByte
    <3>2. QED
      BY <2>2, <2>3, <3>1, LanesTypes
  <2>5. OutputIsStream' /\ out' \in Buffer
    BY <1>1, <2>1, OutputKept DEF SharedTypes
  <2>6. Shared'
    BY <1>1, <2>1, <2>4, <2>5 DEF Shared, SharedTypes, DigestComplete
  <2>7. BytesTypes'
    BY <1>1, <2>1, <2>2, <2>3 DEF BytesTypes
  <2>8. BytesInv'
    BY <2>1, <2>2, <2>3, <2>4, <2>6, <2>7 DEF BytesInv, BytesAbsorbs, BytesSqueezes,
       BytesAbsorbLoops, BytesOnceLoops, BytesSqueezeLoops, BytesPhases, AbsorbPosition
  <2>9. QED
    BY <2>1, <2>8, SilentStep
<1>5. CASE Bytes!fill_end
  <2>1. /\ op = "fill" /\ i = Rate /\ inlen' = inlen - (Rate - pos) /\ base' = base + Rate
        /\ pos' = 0 /\ op' = "absorb"
        /\ UNCHANGED <<call, left, lanes, i, in, outlen, out, outp, phase, given, asked>>
    BY <1>5, BytesOperators DEF Bytes!fill_end
  <2>2. /\ pos < Rate /\ base + pos + inlen = given /\ lanes = Absorbed(in) /\ in = base + i
        /\ pos + inlen >= Rate /\ phase = "absorb" /\ outp = 0 /\ asked = 0
        /\ base \in Nat /\ pos \in Nat /\ inlen \in Nat /\ inlen <= MaxIn
    BY <1>1, <2>1 DEF BytesAbsorbLoops, BytesPhases, BytesAbsorbs, BytesTypes, SharedTypes
  <2>3. base' % Rate = 0 /\ base' \in Nat
    <3>1. (base + Rate) % Rate = 0
      BY <1>1, NextBlock DEF SharedTypes
    <3>2. QED
      BY <2>1, <2>2, <3>1
  <2>4. OutputIsStream' /\ out' \in Buffer
    BY <1>1, <2>1, OutputKept DEF SharedTypes
  <2>5. Shared'
    BY <1>1, <2>1, <2>3, <2>4 DEF Shared, SharedTypes, DigestComplete
  <2>6. BytesTypes'
    BY <1>1, <2>1, <2>2 DEF BytesTypes, BytesAbsorbs
  <2>7. BytesInv'
    BY <2>1, <2>2, <2>5, <2>6 DEF BytesInv, BytesAbsorbs, BytesSqueezes,
       BytesAbsorbLoops, BytesOnceLoops, BytesSqueezeLoops, BytesPhases, AbsorbPosition
  <2>8. QED
    BY <2>1, <2>7, SilentStep
<1>6. CASE Bytes!absorb_return
  <2>1. /\ op = "tail" /\ i = pos + inlen /\ pos' = i /\ op' = "idle"
        /\ UNCHANGED <<call, left, lanes, base, i, in, inlen, outlen, out, outp, phase, given, asked>>
    BY <1>6 DEF Bytes!absorb_return
  <2>2. /\ base + pos + inlen = given /\ lanes = Absorbed(in) /\ in = base + i
        /\ pos + inlen < Rate /\ phase = "absorb" /\ outp = 0 /\ asked = 0
        /\ base \in Nat /\ pos \in Nat /\ inlen \in Nat
    BY <1>1, <2>1 DEF BytesAbsorbLoops, BytesPhases, BytesAbsorbs, BytesTypes, SharedTypes
  <2>3. OutputIsStream' /\ out' \in Buffer
    BY <1>1, <2>1, OutputKept DEF SharedTypes
  <2>4. Shared'
    BY <1>1, <2>1, <2>2, <2>3 DEF Shared, SharedTypes, DigestComplete
  <2>5. BytesTypes'
    BY <1>1, <2>1 DEF BytesTypes
  <2>6. in = given
    BY <2>1, <2>2
  <2>7. BytesInv'
    BY <2>1, <2>2, <2>4, <2>5, <2>6 DEF BytesInv, BytesAbsorbs, BytesSqueezes,
       BytesAbsorbLoops, BytesOnceLoops, BytesSqueezeLoops, BytesPhases, AbsorbPosition
  <2>8. QED
    BY <2>1, <2>7, SilentStep
<1>7. QED
  BY <1>2, <1>3, <1>4, <1>5, <1>6

\* keccak_absorb_once, and the padding of both ways to absorb.
LEMMA BytesOnceSteps ==
  ASSUME BytesInv,
         \/ Bytes!once_block
         \/ Bytes!once_tail
         \/ Bytes!once_byte
         \/ Bytes!once_return
         \/ Bytes!shake_finalize
  PROVE  BytesInv' /\ [XOF!Next]_(XOF!vars)
<1> USE SpongeAssumption
<1>1. /\ SharedTypes /\ OutputIsStream /\ DigestComplete /\ BytesTypes /\ BytesOnceLoops
      /\ BytesPhases /\ AbsorbPosition
  BY DEF BytesInv, Shared
<1>2. CASE Bytes!once_block
  <2>1. /\ op = "once" /\ inlen >= Rate /\ lanes' = AddBytes(lanes, base, in, Rate)
        /\ in' = in + Rate /\ inlen' = inlen - Rate /\ base' = base + Rate
        /\ UNCHANGED <<pos, op, call, left, i, outlen, out, outp, phase, given, asked>>
    BY <1>2, BytesOperators DEF Bytes!once_block
  <2>2. /\ in = base /\ base + inlen = given /\ lanes = Absorbed(base)
        /\ call = "sha3" => outlen = HashLen
        /\ call = "incremental" => outlen = 0
        /\ phase = "absorb" /\ outp = 0 /\ asked = 0
        /\ base \in Nat /\ inlen \in Nat /\ given <= MaxIn
    BY <1>1, <2>1 DEF BytesOnceLoops, BytesPhases, BytesAbsorbs, BytesTypes, SharedTypes
  <2>3. lanes' = Absorbed(base + Rate) /\ base + Rate <= MaxIn
    BY <2>1, <2>2, AbsorbMore
  <2>4. lanes' \in Lanes
    BY <2>2, <2>3, LanesTypes
  <2>5. (base + Rate) % Rate = 0
    BY <1>1, NextBlock DEF SharedTypes
  <2>6. OutputIsStream' /\ out' \in Buffer
    BY <1>1, <2>1, OutputKept DEF SharedTypes
  <2>7. Shared'
    BY <1>1, <2>1, <2>2, <2>4, <2>5, <2>6 DEF Shared, SharedTypes, DigestComplete
  <2>8. BytesTypes'
    BY <1>1, <2>1, <2>2, <2>3 DEF BytesTypes
  <2>9. BytesInv'
    BY <2>1, <2>2, <2>3, <2>7, <2>8 DEF BytesInv, BytesAbsorbs, BytesSqueezes,
       BytesAbsorbLoops, BytesOnceLoops, BytesSqueezeLoops, BytesPhases, AbsorbPosition
  <2>10. QED
    BY <2>1, <2>9, SilentStep
<1>3. CASE Bytes!once_tail
  <2>1. /\ op = "once" /\ inlen < Rate /\ op' = "once_tail" /\ i' = 0
        /\ UNCHANGED <<lanes, base, pos, call, left, in, inlen, outlen, out, outp, phase, given, asked>>
    BY <1>3 DEF Bytes!once_tail
  <2>2. /\ in = base /\ base + inlen = given /\ lanes = Absorbed(base)
        /\ call = "sha3" => outlen = HashLen
        /\ call = "incremental" => outlen = 0
        /\ phase = "absorb" /\ outp = 0 /\ asked = 0
        /\ base \in Nat /\ inlen \in Nat
    BY <1>1, <2>1 DEF BytesOnceLoops, BytesPhases, BytesAbsorbs, BytesTypes, SharedTypes
  <2>3. OutputIsStream' /\ out' \in Buffer
    BY <1>1, <2>1, OutputKept DEF SharedTypes
  <2>4. Shared'
    BY <1>1, <2>1, <2>2, <2>3 DEF Shared, SharedTypes, DigestComplete
  <2>5. BytesTypes'
    BY <1>1, <2>1 DEF BytesTypes, BytesAbsorbs
  <2>6. base + 0 = base
    BY <2>2
  <2>7. BytesInv'
    BY <2>1, <2>2, <2>4, <2>5, <2>6 DEF BytesInv, BytesAbsorbs, BytesSqueezes,
       BytesAbsorbLoops, BytesOnceLoops, BytesSqueezeLoops, BytesPhases, AbsorbPosition
  <2>8. QED
    BY <2>1, <2>7, SilentStep
<1>4. CASE Bytes!once_byte
  <2>1. /\ op = "once_tail" /\ i < inlen /\ lanes' = AddByte(lanes, base + i, Msg[in + i])
        /\ i' = i + 1
        /\ UNCHANGED <<base, pos, op, call, left, in, inlen, outlen, out, outp, phase, given, asked>>
    BY <1>4, BytesOperators DEF Bytes!once_byte
  <2>2. /\ in = base /\ base + inlen = given /\ lanes = Absorbed(base + i) /\ inlen < Rate
        /\ call = "sha3" => outlen = HashLen
        /\ call = "incremental" => outlen = 0
        /\ phase = "absorb" /\ outp = 0 /\ asked = 0
        /\ base \in Nat /\ inlen \in Nat /\ i \in Nat /\ given <= MaxIn
    BY <1>1, <2>1 DEF BytesOnceLoops, BytesPhases, BytesAbsorbs, BytesTypes, SharedTypes
  <2>3. base + i \in Nat /\ base + i < MaxIn /\ base + i + 1 = base + (i + 1) /\ i + 1 <= inlen
    BY <2>1, <2>2
  <2>4. lanes' = Absorbed(base + (i + 1)) /\ lanes' \in Lanes
    <3>1. AddByte(Absorbed(base + i), base + i, Msg[base + i]) = Absorbed(base + i + 1)
      BY <2>3, AbsorbByte
    <3>2. lanes' = Absorbed(base + i + 1)
      BY <2>1, <2>2, <3>1
    <3>3. QED
      BY <2>2, <2>3, <3>2, LanesTypes
  <2>5. OutputIsStream' /\ out' \in Buffer
    BY <1>1, <2>1, OutputKept DEF SharedTypes
  <2>6. Shared'
    BY <1>1, <2>1, <2>2, <2>4, <2>5 DEF Shared, SharedTypes, DigestComplete
  <2>7. BytesTypes'
    BY <1>1, <2>1, <2>2, <2>3 DEF BytesTypes
  <2>8. BytesInv'
    BY <2>1, <2>2, <2>3, <2>4, <2>6, <2>7 DEF BytesInv, BytesAbsorbs, BytesSqueezes,
       BytesAbsorbLoops, BytesOnceLoops, BytesSqueezeLoops, BytesPhases, AbsorbPosition
  <2>9. QED
    BY <2>1, <2>8, SilentStep
<1>5. CASE Bytes!once_return
  <2>1. /\ op = "once_tail" /\ i = inlen /\ lanes' = Pad(lanes, base, i) /\ pos' = Rate
        /\ phase' = "squeeze"
        /\ op' = (CASE call = "incremental" -> "idle"
                    [] call = "shake" -> "squeezeblocks"
                    [] call = "sha3" -> "hash")
        /\ left' = outlen \div Rate /\ asked' = outlen
        /\ UNCHANGED <<base, call, i, in, inlen, outlen, out, outp, given>>
    BY <1>5, BytesOperators DEF Bytes!once_return, Pad
  <2>2. /\ base + inlen = given /\ lanes = Absorbed(base + i) /\ inlen < Rate
        /\ call = "sha3" => outlen = HashLen
        /\ call = "incremental" => outlen = 0
        /\ phase = "absorb" /\ outp = 0 /\ asked = 0
        /\ base \in Nat /\ inlen \in Nat /\ given <= MaxIn /\ base % Rate = 0 /\ outlen \in Nat
        /\ call \in {"incremental", "shake", "sha3"}
    BY <1>1, <2>1 DEF BytesOnceLoops, BytesPhases, BytesAbsorbs, BytesTypes, SharedTypes, Calls
  <2>3. lanes' = Padded(given) /\ FirstOut(given) = base + Rate
    BY <2>1, <2>2, PadIsPadded, FirstOutAt
  <2>4. lanes' \in Lanes
    BY <1>1, <2>3, LanesTypes DEF SharedTypes
  <2>5. /\ outlen \div Rate \in Nat
        /\ outlen = (outlen \div Rate) * Rate + Remainder(outlen)
    BY <2>2, RemainderBound
  <2>6. op' = (IF call = "incremental" THEN "idle"
               ELSE IF call = "shake" THEN "squeezeblocks" ELSE "hash")
    BY <2>1, <2>2
  <2>7. OutputIsStream' /\ out' \in Buffer
    BY <1>1, <2>1, OutputKept DEF SharedTypes
  <2>8. Shared'
    BY <1>1, <2>1, <2>2, <2>4, <2>6, <2>7 DEF Shared, SharedTypes, DigestComplete, Phases
  <2>9. BytesTypes'
    BY <1>1, <2>1, <2>2, <2>5, <2>6 DEF BytesTypes, BytesSqueezes
  <2>10. BytesSqueezeLoops'
    <3>1. (op' = "squeezeblocks" => call = "shake") /\ op' \notin {"squeeze", "copy"}
          /\ (op' = "hash" => call = "sha3")
      BY <2>2, <2>6
    <3>2. asked' = 0 + (outlen \div Rate) * Rate + Remainder(outlen)
      BY <2>1, <2>5
    <3>3. QED
      BY <2>1, <2>2, <3>1, <3>2 DEF BytesSqueezeLoops
  <2>11. BytesPhases'
    <3>1. op' \in {"idle", "squeezeblocks", "hash"}
      BY <2>6
    <3>2. base' + pos' = FirstOut(given) + outp'
      BY <2>1, <2>2, <2>3
    <3>3. QED
      BY <2>1, <2>3, <3>1, <3>2 DEF BytesPhases, BytesAbsorbs, BytesSqueezes
  <2>12. BytesAbsorbLoops' /\ BytesOnceLoops' /\ AbsorbPosition'
    BY <2>1, <2>6 DEF BytesAbsorbLoops, BytesOnceLoops, AbsorbPosition
  <2>13. [XOF!Next]_(XOF!vars)
    BY <2>1, <2>2, FinalizeStep
  <2>14. QED
    BY <2>8, <2>9, <2>10, <2>11, <2>12, <2>13 DEF BytesInv
<1>6. CASE Bytes!shake_finalize
  <2>1. /\ op = "idle" /\ phase = "absorb" /\ lanes' = Pad(lanes, base, pos) /\ pos' = Rate
        /\ phase' = "squeeze"
        /\ UNCHANGED <<call, left, base, op, i, in, inlen, outlen, out, outp, given, asked>>
    BY <1>6, BytesOperators DEF Bytes!shake_finalize, Pad
  <2>2. /\ pos \in 0 .. Rate - 1 /\ base \in Nat /\ base % Rate = 0 /\ base + pos = given
        /\ given <= MaxIn /\ lanes = Absorbed(base + pos) /\ outp = 0 /\ asked = 0
    BY <1>1, <2>1 DEF BytesTypes, SharedTypes, BytesPhases, AbsorbPosition
  <2>3. lanes' = Padded(given) /\ FirstOut(given) = base + Rate
    BY <2>1, <2>2, PadIsPadded, FirstOutAt
  <2>4. lanes' \in Lanes
    BY <1>1, <2>3, LanesTypes DEF SharedTypes
  <2>5. OutputIsStream' /\ out' \in Buffer
    BY <1>1, <2>1, OutputKept DEF SharedTypes
  <2>6. Shared'
    BY <1>1, <2>1, <2>2, <2>4, <2>5 DEF Shared, SharedTypes, DigestComplete, Phases
  <2>7. BytesTypes'
    BY <1>1, <2>1 DEF BytesTypes
  <2>8. BytesInv'
    BY <2>1, <2>2, <2>3, <2>6, <2>7 DEF BytesInv, BytesAbsorbs, BytesSqueezes,
       BytesAbsorbLoops, BytesOnceLoops, BytesSqueezeLoops, BytesPhases, AbsorbPosition
  <2>9. [XOF!Next]_(XOF!vars)
    BY <2>1, FinalizeStep
  <2>10. QED
    BY <2>8, <2>9
<1>7. QED
  BY <1>2, <1>3, <1>4, <1>5, <1>6

\* The output, a byte or a block at a time.
LEMMA BytesSqueezeSteps ==
  ASSUME BytesInv,
         \/ \E k \in 0 .. MaxOut : Bytes!shake_squeeze(k) \/ Bytes!shake_squeezeblocks(k)
         \/ Bytes!squeeze_block
         \/ Bytes!copy_byte
         \/ Bytes!copy_end
         \/ Bytes!squeeze_return
         \/ Bytes!squeezeblocks_block
         \/ Bytes!squeezeblocks_return
         \/ Bytes!sha3_digest
  PROVE  BytesInv' /\ [XOF!Next]_(XOF!vars)
<1> USE SpongeAssumption
<1>1. /\ SharedTypes /\ OutputIsStream /\ DigestComplete /\ BytesTypes /\ BytesSqueezeLoops
      /\ BytesPhases
  BY DEF BytesInv, Shared
<1>2. /\ lanes \in Lanes /\ base \in Nat /\ base % Rate = 0 /\ (base + Rate) % Rate = 0
      /\ out \in Buffer /\ outlen \in Nat /\ outp \in Nat /\ given \in 0 .. MaxIn
      /\ asked \in 0 .. MaxOut /\ pos \in 0 .. Rate /\ i \in 0 .. Rate /\ left \in Nat
      /\ FirstOut(given) \in Nat
  <2>1. (base + Rate) % Rate = 0
    BY <1>1, NextBlock DEF SharedTypes
  <2>2. FirstOut(given) \in Nat
    BY <1>1, FirstOutNat DEF SharedTypes
  <2>3. QED
    BY <1>1, <2>1, <2>2 DEF SharedTypes, BytesTypes
<1>3. ASSUME NEW k \in 0 .. MaxOut, Bytes!shake_squeeze(k)
      PROVE  BytesInv' /\ [XOF!Next]_(XOF!vars)
  <2>1. /\ op = "idle" /\ phase = "squeeze" /\ asked + k <= MaxOut /\ op' = "squeeze"
        /\ call' = "incremental" /\ outlen' = k /\ outp' = asked /\ asked' = asked + k
        /\ UNCHANGED <<left, lanes, base, pos, i, in, inlen, out, phase, given>>
    BY <1>3 DEF Bytes!shake_squeeze
  <2>2. /\ outp' = outp /\ lanes = Padded(given) /\ base + pos = FirstOut(given) + outp
    BY <1>1, <2>1 DEF DigestComplete, BytesPhases
  <2>3. OutputIsStream' /\ out' \in Buffer
    BY <1>1, <1>2, <2>1, <2>2, OutputKept
  <2>4. Shared'
    BY <1>1, <1>2, <2>1, <2>2, <2>3 DEF Shared, SharedTypes, DigestComplete
  <2>5. BytesTypes'
    BY <1>1, <2>1 DEF BytesTypes, BytesSqueezes, Calls
  <2>6. BytesInv'
    BY <1>2, <2>1, <2>2, <2>4, <2>5 DEF BytesInv, BytesAbsorbs, BytesSqueezes,
       BytesAbsorbLoops, BytesOnceLoops, BytesSqueezeLoops, BytesPhases, AbsorbPosition
  <2>7. QED
    BY <2>1, <2>2, <2>6, SilentStep
<1>4. ASSUME NEW k \in 0 .. MaxOut, Bytes!shake_squeezeblocks(k)
      PROVE  BytesInv' /\ [XOF!Next]_(XOF!vars)
  <2>1. /\ op = "idle" /\ phase = "squeeze" /\ pos = Rate /\ asked + k * Rate <= MaxOut
        /\ op' = "squeezeblocks" /\ call' = "incremental" /\ left' = k /\ outp' = asked
        /\ asked' = asked + k * Rate
        /\ UNCHANGED <<lanes, base, pos, i, in, inlen, outlen, out, phase, given>>
    BY <1>4 DEF Bytes!shake_squeezeblocks
  <2>2. /\ outp' = outp /\ lanes = Padded(given) /\ base + pos = FirstOut(given) + outp
        /\ outp = asked
    BY <1>1, <2>1 DEF DigestComplete, BytesPhases
  <2>3. k * Rate \in Nat
    BY SMT
  <2>4. OutputIsStream' /\ out' \in Buffer
    BY <1>1, <1>2, <2>1, <2>2, OutputKept
  <2>5. Shared'
    BY <1>1, <1>2, <2>1, <2>2, <2>3, <2>4 DEF Shared, SharedTypes, DigestComplete
  <2>6. BytesTypes'
    BY <1>1, <2>1 DEF BytesTypes, BytesSqueezes, Calls
  <2>7. BytesSqueezeLoops'
    BY <1>2, <2>1, <2>2, <2>3 DEF BytesSqueezeLoops
  <2>8. BytesInv'
    BY <1>2, <2>1, <2>2, <2>5, <2>6, <2>7 DEF BytesInv, BytesAbsorbs, BytesSqueezes,
       BytesAbsorbLoops, BytesOnceLoops, BytesPhases, AbsorbPosition
  <2>9. QED
    BY <2>1, <2>2, <2>8, SilentStep
<1>5. CASE Bytes!squeeze_block
  <2>1. /\ op = "squeeze" /\ outlen > 0
        /\ base' = (IF pos = Rate THEN base + Rate ELSE base)
        /\ pos' = (IF pos = Rate THEN 0 ELSE pos)
        /\ i' = pos' /\ op' = "copy"
        /\ UNCHANGED <<call, left, lanes, in, inlen, outlen, out, outp, phase, given, asked>>
    BY <1>5, BytesOperators DEF Bytes!squeeze_block
  <2>2. /\ asked = outp + outlen /\ phase = "squeeze" /\ lanes = Padded(given)
        /\ base + pos = FirstOut(given) + outp
    BY <1>1, <2>1 DEF BytesSqueezeLoops, BytesPhases, BytesSqueezes
  <2>3. /\ pos' \in 0 .. Rate - 1 /\ base' \in Nat /\ base' % Rate = 0
        /\ base' + pos' = FirstOut(given) + outp
    BY <1>2, <2>1, <2>2
  <2>4. OutputIsStream' /\ out' \in Buffer
    BY <1>1, <1>2, <2>1, OutputKept
  <2>5. Shared'
    BY <1>1, <2>1, <2>3, <2>4 DEF Shared, SharedTypes, DigestComplete
  <2>6. BytesTypes'
    BY <1>1, <2>1, <2>3 DEF BytesTypes, BytesSqueezes
  <2>7. BytesSqueezeLoops'
    BY <1>2, <2>1, <2>2, <2>3 DEF BytesSqueezeLoops
  <2>8. BytesInv'
    BY <1>2, <2>1, <2>2, <2>3, <2>5, <2>6, <2>7 DEF BytesInv, BytesAbsorbs, BytesSqueezes,
       BytesAbsorbLoops, BytesOnceLoops, BytesPhases, AbsorbPosition
  <2>9. QED
    BY <2>1, <2>8, SilentStep
<1>6. CASE Bytes!copy_byte
  <2>1. /\ op = "copy" /\ i < Rate /\ i < pos + outlen
        /\ out' = ExtractBytes(lanes, base + i, out, outp, 1)
        /\ outp' = outp + 1 /\ i' = i + 1
        /\ UNCHANGED <<call, left, lanes, base, pos, op, in, inlen, outlen, phase, given, asked>>
    BY <1>6, BytesOperators DEF Bytes!copy_byte
  <2>2. /\ pos < Rate /\ pos <= i /\ asked = outp + (outlen - (i - pos)) /\ phase = "squeeze"
        /\ lanes = Padded(given) /\ base + i = FirstOut(given) + outp
    BY <1>1, <2>1 DEF BytesSqueezeLoops, BytesPhases, BytesSqueezes
  <2>3. OutputIsStream' /\ out' \in Buffer
    BY <1>1, <1>2, <2>1, <2>2, OutputMore
  <2>4. outp' <= MaxOut
    BY <1>2, <2>1, <2>2
  <2>5. Shared'
    BY <1>1, <1>2, <2>1, <2>3, <2>4 DEF Shared, SharedTypes, DigestComplete
  <2>6. BytesTypes'
    BY <1>1, <1>2, <2>1 DEF BytesTypes
  <2>7. BytesSqueezeLoops'
    BY <1>2, <2>1, <2>2 DEF BytesSqueezeLoops
  <2>8. BytesInv'
    BY <1>2, <2>1, <2>2, <2>5, <2>6, <2>7 DEF BytesInv, BytesAbsorbs, BytesSqueezes,
       BytesAbsorbLoops, BytesOnceLoops, BytesPhases, AbsorbPosition
  <2>9. [XOF!Next]_(XOF!vars)
    BY <1>1, <1>2, <2>1, <2>2, <2>3, <2>4, SqueezeStep
  <2>10. QED
    BY <2>8, <2>9
<1>7. CASE Bytes!copy_end
  <2>1. /\ op = "copy" /\ ~ (i < Rate /\ i < pos + outlen) /\ outlen' = outlen - (i - pos)
        /\ pos' = i /\ op' = "squeeze"
        /\ UNCHANGED <<call, left, lanes, base, i, in, inlen, out, outp, phase, given, asked>>
    BY <1>7 DEF Bytes!copy_end
  <2>2. /\ pos < Rate /\ pos <= i /\ i <= pos + outlen /\ asked = outp + (outlen - (i - pos))
        /\ phase = "squeeze" /\ lanes = Padded(given) /\ base + i = FirstOut(given) + outp
    BY <1>1, <2>1 DEF BytesSqueezeLoops, BytesPhases, BytesSqueezes
  <2>3. OutputIsStream' /\ out' \in Buffer
    BY <1>1, <1>2, <2>1, OutputKept
  <2>4. outlen' \in 0 .. MaxOut
    BY <1>1, <1>2, <2>1, <2>2 DEF SharedTypes
  <2>5. Shared'
    BY <1>1, <2>1, <2>3, <2>4 DEF Shared, SharedTypes, DigestComplete
  <2>6. BytesTypes'
    BY <1>1, <2>1 DEF BytesTypes, BytesSqueezes
  <2>7. BytesInv'
    BY <1>2, <2>1, <2>2, <2>5, <2>6 DEF BytesInv, BytesAbsorbs, BytesSqueezes,
       BytesAbsorbLoops, BytesOnceLoops, BytesSqueezeLoops, BytesPhases, AbsorbPosition
  <2>8. QED
    BY <2>1, <2>7, SilentStep
<1>8. CASE Bytes!squeeze_return
  <2>1. /\ op = "squeeze" /\ outlen = 0 /\ op' = "idle"
        /\ phase' = (IF call = "shake" THEN "none" ELSE phase)
        /\ UNCHANGED <<call, left, lanes, base, pos, i, in, inlen, outlen, out, outp, given, asked>>
    BY <1>8 DEF Bytes!squeeze_return
  <2>2. /\ asked = outp /\ phase = "squeeze" /\ lanes = Padded(given)
        /\ base + pos = FirstOut(given) + outp
    BY <1>1, <1>2, <2>1 DEF BytesSqueezeLoops, BytesPhases, BytesSqueezes
  <2>3. OutputIsStream' /\ out' \in Buffer
    BY <1>1, <1>2, <2>1, OutputKept
  <2>4. Shared'
    BY <1>1, <2>1, <2>2, <2>3 DEF Shared, SharedTypes, DigestComplete, Phases
  <2>5. BytesTypes'
    BY <1>1, <2>1 DEF BytesTypes
  <2>6. BytesInv'
    BY <2>1, <2>2, <2>4, <2>5 DEF BytesInv, BytesAbsorbs, BytesSqueezes,
       BytesAbsorbLoops, BytesOnceLoops, BytesSqueezeLoops, BytesPhases, AbsorbPosition
  <2>7. [XOF!Next]_(XOF!vars)
    BY <2>1, DropStep
  <2>8. QED
    BY <2>6, <2>7
<1>9. CASE Bytes!squeezeblocks_block
  <2>1. /\ op = "squeezeblocks" /\ left > 0 /\ base' = base + Rate
        /\ out' = ExtractBytes(lanes, base + Rate, out, outp, Rate)
        /\ outp' = outp + Rate /\ left' = left - 1
        /\ UNCHANGED <<lanes, pos, op, call, i, in, inlen, outlen, phase, given, asked>>
    BY <1>9, BytesOperators DEF Bytes!squeezeblocks_block
  <2>2. /\ pos = Rate /\ phase = "squeeze" /\ lanes = Padded(given)
        /\ asked = outp + left * Rate + (IF call = "shake" THEN Remainder(outlen) ELSE 0)
        /\ base + Rate = FirstOut(given) + outp
    BY <1>1, <2>1 DEF BytesSqueezeLoops, BytesPhases, BytesSqueezes
  <2>3. OutputIsStream' /\ out' \in Buffer
    BY <1>1, <1>2, <2>1, <2>2, OutputMore
  <2>4. left * Rate = Rate + (left - 1) * Rate /\ (left - 1) * Rate \in Nat
    BY <1>2, <2>1, SMT
  <2>5. Remainder(outlen) \in Nat
    <3>1. Remainder(outlen) \in 0 .. Rate - 1
      BY <1>2, RemainderBound
    <3>2. QED
      BY <3>1
  <2>6. /\ asked = outp' + left' * Rate + (IF call = "shake" THEN Remainder(outlen) ELSE 0)
        /\ outp' <= MaxOut
    BY <1>2, <2>1, <2>2, <2>4, <2>5
  <2>7. Shared'
    BY <1>1, <1>2, <2>1, <2>3, <2>6 DEF Shared, SharedTypes, DigestComplete
  <2>8. BytesTypes'
    BY <1>1, <1>2, <2>1 DEF BytesTypes
  <2>9. BytesSqueezeLoops'
    BY <2>1, <2>2, <2>6 DEF BytesSqueezeLoops
  <2>10. BytesInv'
    <3>1. /\ base' = base + Rate /\ pos' = Rate /\ outp' = outp + Rate
          /\ base + Rate = FirstOut(given) + outp
      BY <2>1, <2>2
    <3>2. base' + pos' = FirstOut(given) + outp'
      BY <1>2, <3>1
    <3>3. QED
      BY <2>1, <2>2, <2>7, <2>8, <2>9, <3>2 DEF BytesInv, BytesAbsorbs, BytesSqueezes,
         BytesAbsorbLoops, BytesOnceLoops, BytesPhases, AbsorbPosition
  <2>11. [XOF!Next]_(XOF!vars)
    BY <1>1, <1>2, <2>1, <2>2, <2>3, <2>6, SqueezeStep
  <2>12. QED
    BY <2>10, <2>11
<1>10. CASE Bytes!squeezeblocks_return
  <2>1. /\ op = "squeezeblocks" /\ left = 0
        /\ op' = (IF call = "shake" THEN "squeeze" ELSE "idle")
        /\ outlen' = (IF call = "shake" THEN Remainder(outlen) ELSE outlen)
        /\ UNCHANGED <<lanes, base, pos, call, left, i, in, inlen, out, outp, phase, given, asked>>
    BY <1>10 DEF Bytes!squeezeblocks_return, Bytes!Remainder, Remainder
  <2>2. /\ pos = Rate /\ phase = "squeeze" /\ lanes = Padded(given) /\ 0 * Rate = 0
        /\ asked = outp + left * Rate + (IF call = "shake" THEN Remainder(outlen) ELSE 0)
        /\ base + pos = FirstOut(given) + outp
    BY <1>1, <2>1, SMT DEF BytesSqueezeLoops, BytesPhases, BytesSqueezes
  <2>3. OutputIsStream' /\ out' \in Buffer
    BY <1>1, <1>2, <2>1, OutputKept
  <2>4. Remainder(outlen) \in Nat
    <3>1. Remainder(outlen) \in 0 .. Rate - 1
      BY <1>2, RemainderBound
    <3>2. QED
      BY <3>1
  <2>5. outlen' \in 0 .. MaxOut
    BY <1>1, <1>2, <2>1, <2>2, <2>4 DEF SharedTypes
  <2>6. Shared'
    BY <1>1, <1>2, <2>1, <2>2, <2>3, <2>5 DEF Shared, SharedTypes, DigestComplete
  <2>7. BytesTypes'
    BY <1>1, <2>1 DEF BytesTypes, BytesSqueezes
  <2>8. BytesSqueezeLoops'
    BY <1>2, <2>1, <2>2, <2>4 DEF BytesSqueezeLoops
  <2>9. BytesInv'
    BY <2>1, <2>2, <2>6, <2>7, <2>8 DEF BytesInv, BytesAbsorbs, BytesSqueezes,
       BytesAbsorbLoops, BytesOnceLoops, BytesPhases, AbsorbPosition
  <2>10. QED
    BY <2>1, <2>9, SilentStep
<1>11. CASE Bytes!sha3_digest
  <2>1. /\ op = "hash" /\ base' = base + Rate
        /\ out' = ExtractBytes(lanes, base + Rate, out, outp, HashLen)
        /\ outp' = outp + HashLen /\ op' = "idle" /\ phase' = "none"
        /\ UNCHANGED <<lanes, pos, call, left, i, in, inlen, outlen, given, asked>>
    BY <1>11, BytesOperators DEF Bytes!sha3_digest
  <2>2. /\ pos = Rate /\ outp = 0 /\ asked = HashLen /\ phase = "squeeze" /\ lanes = Padded(given)
        /\ base + Rate = FirstOut(given) + outp
    BY <1>1, <2>1 DEF BytesSqueezeLoops, BytesPhases, BytesSqueezes
  <2>3. HashLen \in Nat /\ HashLen <= MaxOut
    BY HashAssumption
  <2>4. OutputIsStream' /\ out' \in Buffer
    BY <1>1, <1>2, <2>1, <2>2, <2>3, OutputMore
  <2>5. Shared'
    BY <1>1, <1>2, <2>1, <2>2, <2>3, <2>4 DEF Shared, SharedTypes, DigestComplete, Phases
  <2>6. BytesTypes'
    BY <1>1, <2>1 DEF BytesTypes
  <2>7. BytesInv'
    BY <2>1, <2>5, <2>6 DEF BytesInv, BytesAbsorbs, BytesSqueezes,
       BytesAbsorbLoops, BytesOnceLoops, BytesSqueezeLoops, BytesPhases, AbsorbPosition
  <2>8. [XOF!Next]_(XOF!vars)
    BY <1>1, <1>2, <2>1, <2>2, <2>3, <2>4, SqueezeStep
  <2>9. QED
    BY <2>7, <2>8
<1>12. QED
  BY <1>3, <1>4, <1>5, <1>6, <1>7, <1>8, <1>9, <1>10, <1>11

LEMMA BytesNext ==
  ASSUME BytesInv, [Bytes!Next]_(Bytes!vars)
  PROVE  BytesInv' /\ [XOF!Next]_(XOF!vars)
<1>1. ASSUME NEW k \in 0 .. MaxIn, Bytes!shake_absorb_once(k) \/ Bytes!sha3(k)
      PROVE  BytesInv' /\ [XOF!Next]_(XOF!vars)
  <2>1. /\ "incremental" \in Calls /\ "sha3" \in Calls
        /\ 0 \in 0 .. MaxOut /\ HashLen \in 0 .. MaxOut
    BY SpongeAssumption, HashAssumption DEF Calls
  <2>2. \/ Bytes!keccak_absorb_once("incremental", k, 0)
        \/ Bytes!keccak_absorb_once("sha3", k, HashLen)
    BY <1>1 DEF Bytes!shake_absorb_once, Bytes!sha3
  <2>3. QED
    BY <2>1, <2>2, BytesBegins
<1>2. ASSUME NEW k \in 0 .. MaxIn, NEW n \in 0 .. MaxOut, Bytes!shake(k, n)
      PROVE  BytesInv' /\ [XOF!Next]_(XOF!vars)
  <2>1. "shake" \in Calls
    BY DEF Calls
  <2>2. Bytes!keccak_absorb_once("shake", k, n)
    BY <1>2 DEF Bytes!shake
  <2>3. QED
    BY <2>1, <2>2, BytesBegins
<1>3. CASE Bytes!shake_init
  BY <1>3, BytesBegins
<1>4. CASE \/ \E k \in 0 .. MaxIn : Bytes!shake_absorb(k)
           \/ Bytes!absorb_test \/ Bytes!fill_byte \/ Bytes!fill_end \/ Bytes!tail_byte
           \/ Bytes!absorb_return
  BY <1>4, BytesAbsorbSteps
<1>5. CASE \/ Bytes!once_block \/ Bytes!once_tail \/ Bytes!once_byte \/ Bytes!once_return
           \/ Bytes!shake_finalize
  BY <1>5, BytesOnceSteps
<1>6. CASE \/ \E k \in 0 .. MaxOut : Bytes!shake_squeeze(k) \/ Bytes!shake_squeezeblocks(k)
           \/ Bytes!squeeze_block \/ Bytes!copy_byte \/ Bytes!copy_end \/ Bytes!squeeze_return
           \/ Bytes!squeezeblocks_block \/ Bytes!squeezeblocks_return \/ Bytes!sha3_digest
  BY <1>6, BytesSqueezeSteps
<1>7. CASE UNCHANGED Bytes!vars
  <2>1. UNCHANGED <<lanes, base, pos, op, call, left, i, in, inlen, outlen, out, outp, phase, given, asked>>
    BY <1>7 DEF Bytes!vars
  <2>2. BytesInv'
    BY <2>1 DEF BytesInv, Shared, SharedTypes, OutputIsStream, DigestComplete, BytesTypes,
       BytesAbsorbLoops, BytesOnceLoops, BytesSqueezeLoops, BytesPhases, AbsorbPosition
  <2>3. QED
    BY <2>1, <2>2, SilentStep
<1>8. QED
  BY <1>1, <1>2, <1>3, <1>4, <1>5, <1>6, <1>7 DEF Bytes!Next, Bytes!Call, Bytes!Step

-----------------------------------------------------------------------------
\* shake256/shake256.c.

\* The buffer t for the last n bytes of a message, without and with the top bit,
\* and the XOR of t into the block at address b.
LastBytes(b, n) == [j \in 0 .. Rate - 1 |-> IF j < n THEN Msg[b + j]
                                            ELSE IF j = n THEN Suffix ELSE {}]
LastBlock(b, n) == [LastBytes(b, n) EXCEPT ![Rate - 1] = @ \cup TopBit]
XorBlock(l, b, t) == [a \in Addr |-> IF b <= a /\ a < b + Rate THEN Xor(l[a], t[a - b]) ELSE l[a]]

\* What goes through t is the rest of the message and what pad10*1 adds.
LEMMA BlockIsPadded ==
  ASSUME NEW b \in Nat, b % Rate = 0, NEW n \in 0 .. Rate - 1, b + n <= MaxIn
  PROVE  XorBlock(Absorbed(b), b, LastBlock(b, n)) = Padded(b + n)
<1> DEFINE u == LastBytes(b, n)
           t == LastBlock(b, n)
           l == XorBlock(Absorbed(b), b, t)
<1>1. \A j \in 0 .. Rate - 1 : u[j] = IF j < n THEN Msg[b + j] ELSE IF j = n THEN Suffix ELSE {}
  BY DEF LastBytes
<1>2. \A j \in 0 .. Rate - 1 : t[j] = IF j = Rate - 1 THEN u[j] \cup TopBit ELSE u[j]
  BY SpongeAssumption DEF LastBlock, LastBytes
<1>3. \A a \in Addr : l[a] = IF b <= a /\ a < b + Rate THEN Xor(Absorbed(b)[a], t[a - b])
                                                       ELSE Absorbed(b)[a]
  BY DEF XorBlock
<1> HIDE DEF u, t, l
<1>4. Rate \in Nat /\ Rate > 0 /\ MaxIn \in Nat
  BY SpongeAssumption
<1>5. FirstOut(b + n) - 1 = b + Rate - 1
  <2>1. FirstOut(b + n) = b + Rate
    BY FirstOutAt
  <2>2. QED
    BY <1>4, <2>1
<1>6. \A x : Xor({}, x) = x /\ Xor(x, {}) = x
  BY DEF Xor
<1>7. Xor(Suffix, TopBit) = Suffix \cup TopBit
  BY SpongeAssumption DEF Xor
<1>8. \A a \in Addr : l[a] = Padded(b + n)[a]
  <2> SUFFICES ASSUME NEW a \in Addr
               PROVE  l[a] = Padded(b + n)[a]
    OBVIOUS
  <2>1. a \in Nat
    BY <1>4 DEF Addr
  <2>2. Padded(b + n)[a] =
          IF a < b + n THEN Msg[a]
          ELSE Xor(IF a = b + n THEN Suffix ELSE {}, IF a = b + Rate - 1 THEN TopBit ELSE {})
    BY <1>5 DEF Padded
  <2>3. Absorbed(b)[a] = IF a < b THEN Msg[a] ELSE {}
    BY DEF Absorbed
  <2>4. l[a] = IF b <= a /\ a < b + Rate THEN Xor(Absorbed(b)[a], t[a - b]) ELSE Absorbed(b)[a]
    BY <1>3
  <2>5. CASE a < b
    BY <1>4, <2>1, <2>2, <2>3, <2>4, <2>5
  <2>6. CASE a >= b + Rate
    <3>1. Padded(b + n)[a] = Xor({}, {})
      BY <1>4, <2>1, <2>2, <2>6
    <3>2. l[a] = {}
      BY <1>4, <2>1, <2>3, <2>4, <2>6
    <3>3. QED
      BY <1>6, <3>1, <3>2
  <2>7. CASE b <= a /\ a < b + Rate
    <3>1. a - b \in 0 .. Rate - 1 /\ b + (a - b) = a
      BY <1>4, <2>1, <2>7
    <3>2. l[a] = t[a - b]
      <4>1. l[a] = Xor({}, t[a - b])
        BY <1>4, <2>1, <2>3, <2>4, <2>7
      <4>2. QED
        BY <1>6, <4>1
    <3>3. u[a - b] = IF a - b < n THEN Msg[a] ELSE IF a - b = n THEN Suffix ELSE {}
      BY <1>1, <3>1
    <3>4. t[a - b] = IF a - b = Rate - 1 THEN u[a - b] \cup TopBit ELSE u[a - b]
      BY <1>2, <3>1
    <3>5. CASE a < b + n
      <4>1. a - b < n /\ a - b # Rate - 1
        BY <1>4, <2>1, <3>5
      <4>2. QED
        BY <2>2, <3>2, <3>3, <3>4, <3>5, <4>1
    <3>6. CASE a = b + n
      <4>1. ~ (a - b < n) /\ a - b = n /\ ~ (a < b + n)
        BY <1>4, <2>1, <3>6
      <4>2. (a - b = Rate - 1) <=> (a = b + Rate - 1)
        BY <1>4, <2>1
      <4>3. QED
        BY <1>6, <1>7, <2>2, <3>2, <3>3, <3>4, <3>6, <4>1, <4>2
    <3>7. CASE a > b + n
      <4>1. ~ (a - b < n) /\ a - b # n /\ ~ (a < b + n) /\ a # b + n
        BY <1>4, <2>1, <3>7
      <4>2. (a - b = Rate - 1) <=> (a = b + Rate - 1)
        BY <1>4, <2>1
      <4>3. {} \cup TopBit = TopBit
        OBVIOUS
      <4>4. QED
        BY <1>6, <2>2, <3>2, <3>3, <3>4, <4>1, <4>2, <4>3
    <3>8. QED
      BY <1>4, <2>1, <3>5, <3>6, <3>7
  <2>8. QED
    BY <1>4, <2>1, <2>5, <2>6, <2>7
<1>9. QED
  <2>1. l = [a \in Addr |-> l[a]] /\ Padded(b + n) = [a \in Addr |-> Padded(b + n)[a]]
    BY DEF l, XorBlock, Padded
  <2>2. l = Padded(b + n)
    BY <1>8, <2>1
  <2>3. QED
    BY <2>2 DEF l, t

LEMMA BlocksInit ==
  ASSUME Blocks!Init
  PROVE  BlocksInv
<1> USE SpongeAssumption
<1>1. lanes \in Lanes
  <2>1. \A b \in Byte : [a \in Addr |-> b] \in Lanes
    BY DEF Lanes
  <2>2. Suffix \in Byte /\ TopBit \in Byte /\ Blocks!Addr = Addr
    BY DEF Byte, Blocks!Addr, Addr
  <2>3. QED
    BY <2>1, <2>2 DEF Blocks!Init
<1>2. out = EmptyBuffer /\ out \in Buffer /\ outp = 0 /\ given = 0 /\ asked = 0 /\ phase = "none"
  BY BlocksOperators, BufferTypes DEF Blocks!Init
<1>3. 0 % Rate = 0
  BY SMT
<1>4. OutputIsStream
  BY <1>2 DEF OutputIsStream, EmptyBuffer
<1>5. oneshot \in BOOLEAN
  BY Zenon DEF Blocks!Init
<1>6. QED
  BY <1>1, <1>2, <1>3, <1>4, <1>5
     DEF Blocks!Init, BlocksInv, Shared, SharedTypes, DigestComplete, BlocksTypes, Phases,
         BlocksAbsorbLoop, BlocksSqueezeLoops

LEMMA BlocksAbsorbSteps ==
  ASSUME BlocksInv,
         \/ \E k \in 0 .. MaxIn : Blocks!shake256_absorb(k)
         \/ \E k \in 0 .. MaxIn, n \in 0 .. MaxOut : Blocks!shake256(k, n)
         \/ Blocks!absorb_block
         \/ Blocks!absorb_tail
  PROVE  BlocksInv' /\ [XOF!Next]_(XOF!vars)
<1> USE SpongeAssumption
<1>1. /\ SharedTypes /\ OutputIsStream /\ DigestComplete /\ BlocksTypes /\ BlocksAbsorbLoop
  BY DEF BlocksInv, Shared
<1>2. ASSUME NEW k \in 0 .. MaxIn, NEW n \in 0 .. MaxOut,
             \/ Blocks!shake256_absorb(k) /\ n = 0
             \/ Blocks!shake256(k, n)
      PROVE  BlocksInv' /\ [XOF!Next]_(XOF!vars)
  <2>1. /\ op' = "absorb" /\ lanes' = Absorbed(0) /\ base' = 0 /\ m' = 0 /\ mlen' = k
        /\ outlen' = n /\ phase' = "absorb" /\ given' = k /\ asked' = 0 /\ out' = EmptyBuffer
        /\ outp' = 0 /\ UNCHANGED nblocks
    BY <1>2, LanesTypes, BlocksOperators
       DEF Blocks!shake256_absorb, Blocks!shake256, Blocks!keccak_absorb
  <2>2. oneshot' \in BOOLEAN /\ (oneshot' \/ n = 0)
    BY <1>2, Zenon DEF Blocks!shake256_absorb, Blocks!shake256, Blocks!keccak_absorb
  <2>3. OutputIsStream' /\ out' \in Buffer
    BY <2>1, OutputNew
  <2>4. lanes' \in Lanes /\ 0 % Rate = 0
    BY <2>1, LanesTypes, SMT
  <2>5. Shared'
    BY <2>1, <2>3, <2>4 DEF Shared, SharedTypes, DigestComplete, Phases
  <2>6. BlocksTypes'
    BY <1>1, <2>1, <2>2 DEF BlocksTypes
  <2>7. BlocksInv'
    BY <2>1, <2>2, <2>5, <2>6 DEF BlocksInv, BlocksAbsorbLoop, BlocksSqueezeLoops
  <2>8. QED
    BY <2>1, <2>7, BeginStep
<1>3. CASE Blocks!absorb_block
  <2>1. /\ op = "absorb" /\ mlen >= Rate /\ lanes' = AddBytes(lanes, base, m, Rate)
        /\ base' = base + Rate /\ mlen' = mlen - Rate /\ m' = m + Rate
        /\ UNCHANGED <<op, oneshot, nblocks, outlen, out, outp, phase, given, asked>>
    BY <1>3, BlocksOperators DEF Blocks!absorb_block
  <2>2. /\ m = base /\ m + mlen = given /\ lanes = Absorbed(base) /\ outp = 0 /\ phase = "absorb"
        /\ ~ oneshot => outlen = 0
        /\ base \in Nat /\ mlen \in Nat /\ given <= MaxIn
    BY <1>1, <2>1 DEF BlocksAbsorbLoop, BlocksTypes, SharedTypes
  <2>3. lanes' = Absorbed(base + Rate) /\ base + Rate <= MaxIn
    BY <2>1, <2>2, AbsorbMore
  <2>4. lanes' \in Lanes
    BY <2>2, <2>3, LanesTypes
  <2>5. (base + Rate) % Rate = 0
    BY <1>1, NextBlock DEF SharedTypes
  <2>6. OutputIsStream' /\ out' \in Buffer
    BY <1>1, <2>1, OutputKept DEF SharedTypes
  <2>7. Shared'
    BY <1>1, <2>1, <2>2, <2>4, <2>5, <2>6 DEF Shared, SharedTypes, DigestComplete
  <2>8. BlocksTypes'
    BY <1>1, <2>1, <2>2 DEF BlocksTypes
  <2>9. BlocksInv'
    BY <2>1, <2>2, <2>3, <2>7, <2>8 DEF BlocksInv, BlocksAbsorbLoop, BlocksSqueezeLoops
  <2>10. QED
    BY <2>1, <2>9, SilentStep
<1>4. CASE Blocks!absorb_tail
  <2>1. /\ op = "absorb" /\ mlen < Rate /\ phase' = "squeeze" /\ nblocks' = outlen \div Rate
        /\ asked' = outlen
        /\ UNCHANGED <<base, oneshot, m, mlen, outlen, out, outp, given>>
    BY <1>4 DEF Blocks!absorb_tail
  <2>2. op' = IF oneshot THEN "squeezeblocks" ELSE "idle"
    BY <1>4 DEF Blocks!absorb_tail
  <2>3. /\ m = base /\ m + mlen = given /\ lanes = Absorbed(base) /\ outp = 0 /\ phase = "absorb"
        /\ ~ oneshot => outlen = 0
        /\ base \in Nat /\ base % Rate = 0 /\ mlen \in Nat /\ given <= MaxIn /\ outlen \in Nat
    BY <1>1, <2>1 DEF BlocksAbsorbLoop, BlocksTypes, SharedTypes
  <2>4. lanes' = Padded(given) /\ FirstOut(given) = base + Rate
    <3>1. mlen \in 0 .. Rate - 1 /\ base + mlen = given
      BY <2>1, <2>3
    <3>2. Blocks!PaddedBlock = LastBlock(base, mlen)
      BY <2>3 DEF Blocks!PaddedBlock, LastBlock, LastBytes
    <3>3. lanes' = XorBlock(lanes, base, Blocks!PaddedBlock)
      BY <1>4, BlocksOperators DEF Blocks!absorb_tail, XorBlock
    <3>4. lanes' = Padded(base + mlen) /\ FirstOut(base + mlen) = base + Rate
      BY <2>3, <3>1, <3>2, <3>3, BlockIsPadded, FirstOutAt
    <3>5. QED
      BY <3>1, <3>4
  <2>5. lanes' \in Lanes
    BY <1>1, <2>4, LanesTypes DEF SharedTypes
  <2>6. /\ outlen \div Rate \in Nat
        /\ outlen = (outlen \div Rate) * Rate + Remainder(outlen)
    BY <2>3, RemainderBound
  <2>7. OutputIsStream' /\ out' \in Buffer
    BY <1>1, <2>1, OutputKept DEF SharedTypes
  <2>8. Shared'
    BY <1>1, <2>1, <2>2, <2>3, <2>5, <2>7 DEF Shared, SharedTypes, DigestComplete, Phases
  <2>9. BlocksTypes'
    BY <1>1, <2>1, <2>2, <2>6 DEF BlocksTypes
  <2>10. BlocksAbsorbLoop'
    BY <2>1, <2>2 DEF BlocksAbsorbLoop
  <2>11. BlocksSqueezeLoops'
    <3>1. asked' = 0 + nblocks' * Rate + Remainder(outlen)
      BY <2>1, <2>6
    <3>2. base' + Rate = FirstOut(given) + outp'
      BY <2>1, <2>3, <2>4
    <3>3. QED
      BY <2>1, <2>2, <2>3, <2>4, <3>1, <3>2 DEF BlocksSqueezeLoops
  <2>12. [XOF!Next]_(XOF!vars)
    BY <2>1, <2>3, FinalizeStep
  <2>13. QED
    BY <2>8, <2>9, <2>10, <2>11, <2>12 DEF BlocksInv
<1>5. QED
  <2>1. 0 \in 0 .. MaxOut
    OBVIOUS
  <2>2. QED
    BY <1>2, <1>3, <1>4, <2>1

LEMMA BlocksSqueezeSteps ==
  ASSUME BlocksInv,
         \/ \E nb \in 0 .. MaxOut : Blocks!shake256_squeezeblocks(nb)
         \/ Blocks!squeeze_block
         \/ Blocks!squeeze_return
         \/ Blocks!squeeze_remainder
  PROVE  BlocksInv' /\ [XOF!Next]_(XOF!vars)
<1> USE SpongeAssumption
<1>1. /\ SharedTypes /\ OutputIsStream /\ DigestComplete /\ BlocksTypes /\ BlocksAbsorbLoop
      /\ BlocksSqueezeLoops
  BY DEF BlocksInv, Shared
<1>2. /\ lanes \in Lanes /\ base \in Nat /\ base % Rate = 0 /\ (base + Rate) % Rate = 0
      /\ out \in Buffer /\ outlen \in 0 .. MaxOut /\ outp \in Nat /\ given \in 0 .. MaxIn
      /\ asked \in 0 .. MaxOut /\ nblocks \in Nat /\ FirstOut(given) \in Nat
      /\ Remainder(outlen) \in Nat
  <2>1. (base + Rate) % Rate = 0
    BY <1>1, NextBlock DEF SharedTypes
  <2>2. FirstOut(given) \in Nat
    BY <1>1, FirstOutNat DEF SharedTypes
  <2>3. Remainder(outlen) \in 0 .. Rate - 1
    <3>1. outlen \in Nat
      BY <1>1 DEF SharedTypes
    <3>2. QED
      BY <3>1, RemainderBound
  <2>4. QED
    BY <1>1, <2>1, <2>2, <2>3 DEF SharedTypes, BlocksTypes
<1>3. ASSUME NEW k \in 0 .. MaxOut, Blocks!shake256_squeezeblocks(k)
      PROVE  BlocksInv' /\ [XOF!Next]_(XOF!vars)
  <2>1. /\ op = "idle" /\ phase = "squeeze" /\ asked + k * Rate <= MaxOut
        /\ op' = "squeezeblocks" /\ nblocks' = k /\ outp' = asked /\ asked' = asked + k * Rate
        /\ UNCHANGED <<lanes, base, oneshot, m, mlen, outlen, out, phase, given>>
    BY <1>3 DEF Blocks!shake256_squeezeblocks
  <2>2. /\ outp' = outp /\ outp = asked /\ lanes = Padded(given)
        /\ base + Rate = FirstOut(given) + outp /\ ~ oneshot
    BY <1>1, <2>1 DEF DigestComplete, BlocksSqueezeLoops
  <2>3. k * Rate \in Nat
    BY SMT
  <2>4. OutputIsStream' /\ out' \in Buffer
    BY <1>1, <1>2, <2>1, <2>2, OutputKept
  <2>5. Shared'
    BY <1>1, <1>2, <2>1, <2>2, <2>3, <2>4 DEF Shared, SharedTypes, DigestComplete
  <2>6. BlocksTypes'
    BY <1>1, <2>1 DEF BlocksTypes
  <2>7. BlocksInv'
    BY <1>2, <2>1, <2>2, <2>3, <2>5, <2>6 DEF BlocksInv, BlocksAbsorbLoop, BlocksSqueezeLoops
  <2>8. QED
    BY <2>1, <2>2, <2>7, SilentStep
<1>4. CASE Blocks!squeeze_block
  <2>1. /\ op = "squeezeblocks" /\ nblocks > 0 /\ base' = base + Rate
        /\ out' = ExtractBytes(lanes, base + Rate, out, outp, Rate)
        /\ outp' = outp + Rate /\ nblocks' = nblocks - 1
        /\ UNCHANGED <<lanes, op, oneshot, m, mlen, outlen, phase, given, asked>>
    BY <1>4, BlocksOperators DEF Blocks!squeeze_block
  <2>2. /\ phase = "squeeze" /\ lanes = Padded(given)
        /\ asked = outp + nblocks * Rate + (IF oneshot THEN Remainder(outlen) ELSE 0)
    BY <1>1, <2>1 DEF BlocksSqueezeLoops
  <2>3. base + Rate = FirstOut(given) + outp
    BY <1>1, <2>2 DEF BlocksSqueezeLoops
  <2>4. OutputIsStream' /\ out' \in Buffer
    BY <1>1, <1>2, <2>1, <2>2, <2>3, OutputMore
  <2>5. nblocks * Rate = Rate + (nblocks - 1) * Rate /\ (nblocks - 1) * Rate \in Nat
    BY <1>2, <2>1, SMT
  <2>6. /\ asked = outp' + nblocks' * Rate + (IF oneshot THEN Remainder(outlen) ELSE 0)
        /\ outp' <= MaxOut
    BY <1>2, <2>1, <2>2, <2>5
  <2>7. Shared'
    BY <1>1, <1>2, <2>1, <2>4, <2>6 DEF Shared, SharedTypes, DigestComplete
  <2>8. BlocksTypes'
    BY <1>1, <1>2, <2>1 DEF BlocksTypes
  <2>9. BlocksInv'
    <3>1. base' + Rate = FirstOut(given) + outp'
      BY <1>2, <2>1, <2>3
    <3>2. QED
      BY <2>1, <2>2, <2>6, <2>7, <2>8, <3>1 DEF BlocksInv, BlocksAbsorbLoop, BlocksSqueezeLoops
  <2>10. [XOF!Next]_(XOF!vars)
    BY <1>1, <1>2, <2>1, <2>2, <2>4, <2>6, SqueezeStep
  <2>11. QED
    BY <2>9, <2>10
<1>5. CASE Blocks!squeeze_return
  <2>1. /\ op = "squeezeblocks" /\ nblocks = 0
        /\ op' = (IF oneshot THEN "remainder" ELSE "idle")
        /\ outlen' = (IF oneshot THEN Remainder(outlen) ELSE outlen)
        /\ UNCHANGED <<lanes, base, oneshot, m, mlen, nblocks, out, outp, phase, given, asked>>
    BY <1>5 DEF Blocks!squeeze_return, Blocks!Remainder, Remainder
  <2>2. /\ phase = "squeeze" /\ lanes = Padded(given) /\ base + Rate = FirstOut(given) + outp
        /\ 0 * Rate = 0
        /\ asked = outp + nblocks * Rate + (IF oneshot THEN Remainder(outlen) ELSE 0)
    BY <1>1, <2>1, SMT DEF BlocksSqueezeLoops
  <2>3. OutputIsStream' /\ out' \in Buffer
    BY <1>1, <1>2, <2>1, OutputKept
  <2>4. asked = outp + (IF oneshot THEN Remainder(outlen) ELSE 0)
    BY <1>2, <2>1, <2>2
  <2>5. outlen' \in 0 .. MaxOut
    BY <1>2, <2>1, <2>4
  <2>6. Shared'
    BY <1>1, <1>2, <2>1, <2>3, <2>4, <2>5 DEF Shared, SharedTypes, DigestComplete
  <2>7. BlocksTypes'
    BY <1>1, <2>1 DEF BlocksTypes
  <2>8. BlocksInv'
    BY <2>1, <2>2, <2>4, <2>6, <2>7 DEF BlocksInv, BlocksAbsorbLoop, BlocksSqueezeLoops
  <2>9. QED
    BY <2>1, <2>8, SilentStep
<1>6. CASE Blocks!squeeze_remainder
  <2>1. /\ op = "remainder" /\ op' = "idle" /\ phase' = "none"
        /\ UNCHANGED <<lanes, oneshot, m, mlen, nblocks, outlen, given, asked>>
    BY <1>6 DEF Blocks!squeeze_remainder
  <2>2. /\ asked = outp + outlen /\ phase = "squeeze" /\ lanes = Padded(given)
        /\ base + Rate = FirstOut(given) + outp
    BY <1>1, <2>1 DEF BlocksSqueezeLoops
  <2>3. /\ outp' = outp + outlen
        /\ base' \in {base, base + Rate}
        /\ \/ outlen > 0 /\ out' = ExtractBytes(lanes, base + Rate, out, outp, outlen)
           \/ outlen = 0 /\ UNCHANGED <<out, outp>>
    BY <1>2, <1>6, BlocksOperators DEF Blocks!squeeze_remainder
  <2>4. OutputIsStream' /\ out' \in Buffer
    <3>1. CASE outlen > 0 /\ out' = ExtractBytes(lanes, base + Rate, out, outp, outlen)
      BY <1>1, <1>2, <2>1, <2>2, <2>3, <3>1, OutputMore
    <3>2. CASE outlen = 0 /\ UNCHANGED <<out, outp>>
      BY <1>1, <1>2, <2>1, <3>2, OutputKept
    <3>3. QED
      BY <2>3, <3>1, <3>2
  <2>5. Shared'
    <3>1. base' \in Nat /\ base' % Rate = 0
      <4>1. base + Rate \in Nat
        BY <1>2
      <4>2. base' = base \/ base' = base + Rate
        BY <2>3
      <4>3. QED
        BY <1>2, <4>1, <4>2, Zenon
    <3>2. outp' = asked
      BY <2>2, <2>3
    <3>3. QED
      BY <1>1, <1>2, <2>1, <2>4, <3>1, <3>2 DEF Shared, SharedTypes, DigestComplete, Phases
  <2>6. BlocksTypes'
    BY <1>1, <2>1 DEF BlocksTypes
  <2>7. BlocksInv'
    BY <2>1, <2>5, <2>6 DEF BlocksInv, BlocksAbsorbLoop, BlocksSqueezeLoops
  <2>8. [XOF!Next]_(XOF!vars)
    BY <1>1, <1>2, <2>1, <2>2, <2>3, <2>4, SqueezeStep
  <2>9. QED
    BY <2>7, <2>8
<1>7. QED
  BY <1>3, <1>4, <1>5, <1>6

LEMMA BlocksNext ==
  ASSUME BlocksInv, [Blocks!Next]_(Blocks!vars)
  PROVE  BlocksInv' /\ [XOF!Next]_(XOF!vars)
<1>1. CASE \/ \E k \in 0 .. MaxIn : Blocks!shake256_absorb(k)
           \/ \E k \in 0 .. MaxIn, n \in 0 .. MaxOut : Blocks!shake256(k, n)
           \/ Blocks!absorb_block
           \/ Blocks!absorb_tail
  BY <1>1, BlocksAbsorbSteps
<1>2. CASE \/ \E nb \in 0 .. MaxOut : Blocks!shake256_squeezeblocks(nb)
           \/ Blocks!squeeze_block
           \/ Blocks!squeeze_return
           \/ Blocks!squeeze_remainder
  BY <1>2, BlocksSqueezeSteps
<1>3. CASE UNCHANGED Blocks!vars
  <2>1. UNCHANGED <<lanes, base, op, oneshot, m, mlen, nblocks, outlen, out, outp, phase, given, asked>>
    BY <1>3 DEF Blocks!vars
  <2>2. BlocksInv'
    BY <2>1 DEF BlocksInv, Shared, SharedTypes, OutputIsStream, DigestComplete, BlocksTypes,
       BlocksAbsorbLoop, BlocksSqueezeLoops
  <2>3. QED
    BY <2>1, <2>2, SilentStep
<1>4. QED
  BY <1>1, <1>2, <1>3 DEF Blocks!Next, Blocks!Call, Blocks!Step

-----------------------------------------------------------------------------
\* The three together.

LEMMA SpongesStarts == SpongesInit => SpongesInv /\ XOF!Init
<1> SUFFICES ASSUME SpongesInit PROVE SpongesInv /\ XOF!Init
  OBVIOUS
<1>1. SpongesInv
  BY InitIInv, BytesInit, BlocksInit DEF SpongesInit, SpongesInv
<1>2. XOF!EmptyBuffer = EmptyBuffer
  BY SameOperators
<1>3. phase = "none" /\ given = 0 /\ outp = 0 /\ out = EmptyBuffer
  BY BytesOperators, BlocksOperators DEF SpongesInit, Init, Bytes!Init, Blocks!Init
<1>4. QED
  BY <1>1, <1>2, <1>3 DEF XOF!Init

LEMMA SpongesSteps ==
  ASSUME SpongesInv, [SpongesNext]_sponges
  PROVE  SpongesInv' /\ [XOF!Next]_(XOF!vars)
<1>1. CASE OfKem(Next) \/ (code = "ml-kem" /\ UNCHANGED sponges)
  <2>1. code = "ml-kem" /\ code' = code /\ IInv /\ [Next]_vars
    BY <1>1 DEF OfKem, SpongesInv, sponges
  <2>2. IInv'
    BY <2>1, NextIInv
  <2>3. [XOF!Next]_(XOF!vars)
    BY <2>1, <2>2, RefineNext
  <2>4. QED
    BY <2>1, <2>2, <2>3 DEF SpongesInv
<1>2. CASE OfDsa(Bytes!Next) \/ (code = "ml-dsa" /\ UNCHANGED sponges)
  <2>1. code = "ml-dsa" /\ code' = code /\ BytesInv /\ [Bytes!Next]_(Bytes!vars)
    BY <1>2 DEF OfDsa, SpongesInv, sponges, ofBytes, vars, Bytes!vars
  <2>2. QED
    BY <2>1, BytesNext DEF SpongesInv
<1>3. CASE OfShake256(Blocks!Next) \/ (code = "shake256" /\ UNCHANGED sponges)
  <2>1. code = "shake256" /\ code' = code /\ BlocksInv /\ [Blocks!Next]_(Blocks!vars)
    BY <1>3 DEF OfShake256, SpongesInv, sponges, ofBlocks, vars, Blocks!vars
  <2>2. QED
    BY <2>1, BlocksNext DEF SpongesInv
<1>4. QED
  BY <1>1, <1>2, <1>3 DEF SpongesNext, SpongesInv

LEMMA SpongesInvHolds ==
  ASSUME SpongesInv
  PROVE  AbsorbPosition /\ OutputIsStream /\ DigestComplete
  BY DEF SpongesInv, IInv, BytesInv, BlocksInv, Shared, BlocksAbsorbLoop, AbsorbPosition

\* In each of the three copies the loops keep their invariant.
THEOREM SpongesInvariant == SpongesSpec => []SpongesInv
  BY SpongesStarts, SpongesSteps, PTL DEF SpongesSpec

\* Between two absorb calls the state of each copy holds exactly the message
\* handed over so far, and its position is where the next byte belongs.
THEOREM SpongesAbsorbPosition == SpongesSpec => []AbsorbPosition
  BY SpongesInvariant, SpongesInvHolds, PTL

\* Whatever the calls, output byte j of each copy is byte j of the stream.
THEOREM SpongesOutputIsStream == SpongesSpec => []OutputIsStream
  BY SpongesInvariant, SpongesInvHolds, PTL

\* A call of any of the copies that has returned has delivered every byte it
\* was asked for: also the last partial block of a one-shot call.
THEOREM SpongesDigestComplete == SpongesSpec => []DigestComplete
  BY SpongesInvariant, SpongesInvHolds, PTL

\* All three copies implement the extendable-output function of XofSpec, so
\* that they agree on every message and every way to ask for its output.
THEOREM SpongesImplementXof == SpongesSpec => ImplementsXof
  BY SpongesStarts, SpongesSteps, SpongesInvariant, PTL DEF SpongesSpec, ImplementsXof, XOF!Spec
=============================================================================
