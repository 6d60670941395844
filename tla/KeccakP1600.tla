---------------------------- MODULE KeccakP1600 ----------------------------
(***************************************************************************)
(* The Keccak state of ml-kem/fips202.c: keccakp1600_balanced_cortexm3-4.S.*)
(*                                                                         *)
(* Each lane is two words of 32 bits, its even and its odd bits.  A round  *)
(* works in place: a word of the new state is stored where a word of the   *)
(* old one was, so that for three of four rounds lanes are in other places *)
(* (Place), and it is stored before the rotation that it should have had   *)
(* (Delay), which the next round makes up for.  The fifth word of a half   *)
(* plane stays in a register until the next half plane is loaded.          *)
(*                                                                         *)
(* Beside the memory run the two states in C, A of ml-dsa/fips202.c and S  *)
(* of shake256/shake256.c, fed with the same bytes.                        *)
(***************************************************************************)
EXTENDS KeccakF1600, FiniteSetsExt

CONSTANTS Regions,    \* offset and length of the bytes that calls add and extract
          Data(_),    \* the i-th byte that is added: the set of its bits
          MaxCalls    \* bound: calls in a behaviour

VARIABLES mem,        \* the state of the assembly, words by lane and half
          D,          \* column parities of Theta, by column and half
          r1,         \* the word that is still to be stored, and where
          round,      \* round of the permutation
          step,       \* half planes of the round that are done, -1 outside
          A, S,       \* the states in C
          outp,       \* bytes extracted by the last call
          from,       \* its offset
          calls       \* calls so far
vars == <<mem, D, r1, round, step, A, S, outp, from, calls>>

Halves == Lanes \X {0, 1}
Bits32 == 0..31
Lsr(t, n) == {b - n : b \in {c \in t : c >= n}}
Lsl(t, n) == {b + n : b \in {c \in t : c < 32 - n}}
Ror(t, n) == {(b + 32 - n) % 32 : b \in t}
Rol(t, n) == Ror(t, (32 - n) % 32)

---------------------------------------------------------------------------
(* Bytes of a lane.                                                        *)

\* The masks 0x55555555, 0x33333333, 0x0F0F0F0F, 0x00FF00FF for k = 1, 2, 4, 8,
\* and their complements.
Low(t, k) == {b \in t : (b \div k) % 2 = 0}
High(t, k) == {b \in t : (b \div k) % 2 = 1}
Gather(t) ==
  LET a == Low(t, 1)
      b == Low(a \cup Lsr(a, 1), 2)
      c == Low(b \cup Lsr(b, 2), 4)
  IN  Low(c \cup Lsr(c, 4), 8)
GatherHigh(t) ==
  LET a == High(t, 1)
      b == High(a \cup Lsl(a, 1), 2)
      c == High(b \cup Lsl(b, 2), 4)
      d == High(c \cup Lsl(c, 4), 8)
  IN  d \cup Lsl(d, 8)
\* The halves of a lane with words x0, x1.
toBitInterleaving(x0, x1) ==
  LET t0 == Gather(x0)
      t1 == Gather(x1)
      bfi == {b \in t0 : b \notin 8..15} \cup {b + 8 : b \in {c \in t0 : c < 8}}
  IN  << Xor(Lsr(bfi, 8), Lsl(t1 \cup Lsr(t1, 8), 16)),
         Xor(Lsr(GatherHigh(x0), 16), {b \in GatherHigh(x1) : b >= 16}) >>

\* The exchange of bits that are k apart, under the masks 0x0000FF00,
\* 0x00F000F0, 0x0C0C0C0C, 0x22222222 for k = 8, 4, 2, 1.
Exchange(x, k) ==
  LET t == {b \in Xor(x, Lsr(x, k)) : (b % (4 * k)) \div k = 1}
  IN  Xor(Xor(x, t), Lsl(t, k))
Spread(x) == Exchange(Exchange(Exchange(Exchange(x, 8), 4), 2), 1)
fromBitInterleaving(x0, x1) ==
  << Spread({b \in x0 : b < 16} \cup Lsl(x1, 16)),
     Spread({b \in x1 : b >= 16} \cup Lsr(x0, 16)) >>

\* A call with an offset and a length is cut into a part of the first lane,
\* whole lanes, and a part of the last.
Parts(offset, length) ==
  LET off  == offset % 8
      head == IF off = 0 THEN 0 ELSE Min({length, 8 - off})
      next == offset \div 8 + (IF off = 0 THEN 0 ELSE 1)
      n    == (length - head) \div 8
  IN  {p \in {[lane |-> offset \div 8, off |-> off, at |-> 0, len |-> head]}
             \cup {[lane |-> next + i, off |-> 0, at |-> head + 8 * i, len |-> 8] : i \in 0..(n - 1)}
             \cup {[lane |-> next + n, off |-> 0, at |-> head + 8 * n,
                    len |-> (length - head) % 8]} : p.len > 0}

\* The bytes of a part are written to eight bytes on the stack, from off on.
__KeccakP1600_AddBytesInLane(m, p) ==
  LET word(k) == UNION {{8 * (i - 4 * k) + b : b \in Data(p.at + i - p.off)} :
                          i \in (p.off..(p.off + p.len - 1)) \cap ((4 * k)..(4 * k + 3))}
      halves  == toBitInterleaving(word(0), word(1))
  IN  [m EXCEPT ![<<p.lane, 0>>] = Xor(@, halves[1]), ![<<p.lane, 1>>] = Xor(@, halves[2])]

\* Mutant: the bytes are always taken from the first byte of the lane on.
ExtractFromFirstByte(m, p, i) ==
  LET words == fromBitInterleaving(m[<<p.lane, 0>>], m[<<p.lane, 1>>])
      k     == i - p.at
  IN  {b \in 0..7 : 8 * (k % 4) + b \in words[k \div 4 + 1]}

__KeccakP1600_ExtractBytesInLane(m, p, i) ==
  LET words == fromBitInterleaving(m[<<p.lane, 0>>], m[<<p.lane, 1>>])
      k     == p.off + i - p.at
  IN  {b \in 0..7 : 8 * (k % 4) + b \in words[k \div 4 + 1]}

---------------------------------------------------------------------------
(* The permutation.                                                        *)

\* Even and odd bits of the round constants, and the word that ends the list.
Terminator == 0..7
RoundConstants24 == <<
  <<{0}, {}>>, <<{}, {0, 3, 7}>>, <<{}, {0, 1, 3, 7, 31}>>, <<{}, {7, 15, 31}>>,
  <<{0}, {0, 1, 3, 7}>>, <<{0}, {15}>>, <<{0}, {3, 7, 15, 31}>>, <<{0}, {1, 7, 31}>>,
  <<{}, {0, 1, 3}>>, <<{}, {1, 3}>>, <<{0}, {1, 7, 15}>>, <<{}, {0, 1, 15}>>,
  <<{0}, {0, 1, 3, 7, 15}>>, <<{0}, {0, 1, 3, 31}>>, <<{0}, {1, 3, 7, 31}>>, <<{0}, {0, 7, 31}>>,
  <<{}, {0, 7, 31}>>, <<{}, {3, 31}>>, <<{}, {0, 1, 7}>>, <<{}, {0, 1, 15, 31}>>,
  <<{0}, {3, 7, 15, 31}>>, <<{}, {3, 7, 31}>>, <<{0}, {15}>>, <<{}, {1, 7, 15, 31}>>,
  <<Terminator, {}>> >>

\* A lane rotated by r is, of either half, a half rotated by about r \div 2;
\* an odd rotation exchanges the halves.
SourceHalf(r, h) == (h + r) % 2
HalfRotation(r, h) == IF r % 2 = 0 THEN r \div 2 ELSE (r + 1) \div 2 - h

\* Where the source of word j of half h of row y is in the numbering of lanes.
SourceOf(y, j, h) == <<Source(y, j), SourceHalf(Offset[y][j], h)>>

\* In place: a new word goes where the source of its own column was.
Place[k \in 0..4] ==
  [q \in Halves |->
     LET y == q[1] \div 5
     IN  IF k = 0 THEN q ELSE Place[k - 1][SourceOf(y, (q[1] + 2 * y) % 5, q[2])]]

\* Lazy: Chi is computed on words that are rotated as its third operand is, and
\* the result is left so, except for the word of Iota and in KeccakRound3.
Delay(k, q) ==
  IF k = 0 \/ q[1] = 0 THEN 0
  ELSE HalfRotation(Offset[q[1] \div 5][(q[1] + 2) % 5], q[2])

Quad == round % 4
Load(q) == Rol(mem[Place[Quad][q]], Delay(Quad, q))

\* xor5 of the five words of a column
Column(x, h) ==
  Xor(Xor(Xor(Load(<<x, h>>), Load(<<x + 5, h>>)), Xor(Load(<<x + 10, h>>), Load(<<x + 15, h>>))),
      Load(<<x + 20, h>>))

\* The half planes in the order of a round: row, and half of the words made.
Order == << <<1, 0>>, <<2, 1>>, <<3, 0>>, <<4, 1>>, <<0, 0>>,
            <<1, 1>>, <<2, 0>>, <<3, 1>>, <<4, 0>>, <<0, 1>> >>

\* The parities.  r1 still holds a word of the state, which is stored to a place
\* that the first half plane overwrites.
ThetaParity ==
  /\ step = 0
  /\ D' = [x \in 0..4 |->
             << Xor(Column((x + 4) % 5, 0), Rol(Column((x + 1) % 5, 1), 1)),
                Xor(Column((x + 4) % 5, 1), Column((x + 1) % 5, 0)) >>]
  /\ r1' = [to |-> Place[Quad][SourceOf(1, 2, 0)], word |-> mem[Place[Quad][<<5, 1>>]]]
  /\ step' = 1
  /\ UNCHANGED <<mem, round, A, S, outp, from, calls>>

\* KeccakThetaRhoPiChi and KeccakThetaRhoPiChiIota: the loads, the store of the
\* word that waits in r1, the five new words, of which one waits.
HalfPlane ==
  /\ step \in 1..10
  /\ LET y == Order[step][1]
         h == Order[step][2]
         rc == IF y = 0 THEN RoundConstants24[round + 1][h + 1] ELSE {}
         next == (round + 1) % 4
         waits == IF y = 0 THEN 0 ELSE 4
         B(j) == LET q == SourceOf(y, j % 5, h)
                 IN  Rol(Xor(Load(q), D[q[1] % 5][q[2] + 1]), HalfRotation(Offset[y][j % 5], h))
         word == [x \in 0..4 |-> Ror(Xor(Xor(B(x), B(x + 2) \ B(x + 1)), IF x = 0 THEN rc ELSE {}),
                                     Delay(next, <<x + 5 * y, h>>))]
         to   == [x \in 0..4 |-> Place[Quad + 1][<<x + 5 * y, h>>]]
         kept == [mem EXCEPT ![r1.to] = r1.word]
         now  == IF step = 10 THEN 0..4 ELSE (0..4) \ {waits}
     IN  /\ mem' = [q \in Halves |-> IF \E x \in now : to[x] = q
                                     THEN word[CHOOSE x \in now : to[x] = q] ELSE kept[q]]
         /\ r1' = [to |-> to[waits], word |-> word[waits]]
  /\ IF step < 10
     THEN step' = step + 1 /\ UNCHANGED <<round, A, S>>
     ELSE /\ A' = ThetaRhoPiChiIota(A, round)
          /\ S' = IF round % 2 = 1 THEN RoundPair(S, round - 1) ELSE S
          /\ round' = round + 1
          /\ step' = IF Quad = 3 /\ RoundConstants24[round + 2][1] = Terminator THEN -1 ELSE 0
  /\ UNCHANGED <<D, outp, from, calls>>

---------------------------------------------------------------------------
(* The calls of ml-kem/fips202.c.                                          *)

Idle == step = -1 /\ calls < MaxCalls
Rest == UNCHANGED <<D, r1, round, step>>

\* KeccakP1600_OverwriteWithZeroes of all 200 bytes: whole lanes only.
KeccakP1600_OverwriteWithZeroes ==
  /\ Idle
  /\ mem' = [q \in Halves |-> {}]
  /\ A' = [l \in Lanes |-> {}] /\ S' = A'
  /\ calls' = calls + 1 /\ outp' = <<>> /\ from' = 0
  /\ Rest

KeccakP1600_AddByte(offset) ==
  /\ Idle
  /\ mem' = __KeccakP1600_AddBytesInLane(mem,
              [lane |-> offset \div 8, off |-> offset % 8, at |-> 0, len |-> 1])
  /\ A' = AbsorbByte(A, offset, Data(0))
  /\ S' = AddBlock(S, [i \in 0..199 |-> IF i = offset THEN Data(0) ELSE {}])
  /\ calls' = calls + 1 /\ outp' = <<>> /\ from' = 0
  /\ Rest

KeccakP1600_AddBytes(offset, length) ==
  /\ Idle
  /\ mem' = FoldSet(LAMBDA p, m : __KeccakP1600_AddBytesInLane(m, p), mem, Parts(offset, length))
  /\ A' = FoldSet(LAMBDA i, s : AbsorbByte(s, offset + i, Data(i)), A, 0..(length - 1))
  /\ S' = AddBlock(S, [i \in 0..199 |->
                        IF i \in offset..(offset + length - 1) THEN Data(i - offset) ELSE {}])
  /\ calls' = calls + 1 /\ outp' = <<>> /\ from' = 0
  /\ Rest

KeccakP1600_Permute_24rounds ==
  /\ Idle
  /\ step' = 0 /\ round' = 0
  /\ calls' = calls + 1 /\ outp' = <<>> /\ from' = 0
  /\ UNCHANGED <<mem, D, r1, A, S>>

KeccakP1600_ExtractBytes(offset, length) ==
  /\ Idle
  /\ outp' = [i \in 1..length |->
                LET p == CHOOSE p \in Parts(offset, length) : i - 1 \in p.at..(p.at + p.len - 1)
                IN  __KeccakP1600_ExtractBytesInLane(mem, p, i - 1)]
  /\ from' = offset
  /\ calls' = calls + 1
  /\ Rest /\ UNCHANGED <<mem, A, S>>

Init ==
  /\ mem = [q \in Halves |-> {}]
  /\ A = [l \in Lanes |-> {}] /\ S = A
  /\ D = [x \in 0..4 |-> <<{}, {}>>]
  /\ r1 = [to |-> <<0, 0>>, word |-> {}]
  /\ round = 0 /\ step = -1 /\ outp = <<>> /\ from = 0 /\ calls = 0

Next ==
  \/ ThetaParity \/ HalfPlane
  \/ KeccakP1600_OverwriteWithZeroes
  \/ KeccakP1600_Permute_24rounds
  \/ \E g \in Regions : \/ KeccakP1600_AddByte(g[1])
                        \/ KeccakP1600_AddBytes(g[1], g[2])
                        \/ KeccakP1600_ExtractBytes(g[1], g[2])

Spec == Init /\ [][Next]_vars

---------------------------------------------------------------------------
\* The lane that two halves in their own places stand for.
Lane(l) == {2 * b : b \in Load(<<l, 0>>)} \cup {2 * b + 1 : b \in Load(<<l, 1>>)}

\* The three copies compute one permutation.  At each end of a round the words of
\* the assembly are the lanes of the C copy of ml-dsa, once places and delayed
\* rotations are accounted for; after every second round the copy of shake256,
\* typed out with tables of its own, has the same lanes.
RoundsAgree ==
  step \in {-1, 0} => /\ A = [l \in Lanes |-> Lane(l)]
                      /\ round % 2 = 0 => S = A

\* Between calls nothing is delayed, so bytes are read from the lanes they were
\* added to: KeccakP1600_ExtractBytes, with its parts of lanes and its
\* interleaving, gives the bytes that ml-dsa/fips202.c squeezes from its words.
BytesAgree == \A i \in 1..Len(outp) : outp[i] = SqueezeByte(A, from + i - 1)
===========================================================================
