---------------------------- MODULE KeccakF1600 ----------------------------
(***************************************************************************)
(* The permutation Keccak-f[1600] as the two C copies compute it,          *)
(* ml-dsa/fips202.c and shake256/shake256.c.  A word is the set of the     *)
(* positions of its bits that are one; the state is 25 words of 64 bits,   *)
(* word x + 5y being lane (x, y).                                          *)
(***************************************************************************)
EXTENDS Integers, Sequences

Lanes == 0..24

Xor(a, b) == (a \ b) \cup (b \ a)
ROL(a, n) == {(b + n) % 64 : b \in a}

KeccakF_RoundConstants == <<
  {0}, {1, 7, 15}, {1, 3, 7, 15, 63}, {15, 31, 63},
  {0, 1, 3, 7, 15}, {0, 31}, {0, 7, 15, 31, 63}, {0, 3, 15, 63},
  {1, 3, 7}, {3, 7}, {0, 3, 15, 31}, {1, 3, 31},
  {0, 1, 3, 7, 15, 31}, {0, 1, 3, 7, 63}, {0, 3, 7, 15, 63}, {0, 1, 15, 63},
  {1, 15, 63}, {7, 63}, {1, 3, 15}, {1, 3, 31, 63},
  {0, 7, 15, 31, 63}, {7, 15, 63}, {0, 31}, {3, 15, 31, 63} >>

NROUNDS == 24

---------------------------------------------------------------------------
(* ml-dsa/fips202.c                                                        *)

\* Theta, "prepareTheta" first: the parities of the five columns.
PrepareTheta(A) ==
  [x \in 0..4 |-> Xor(Xor(Xor(A[x], A[x + 5]), Xor(A[x + 10], A[x + 15])), A[x + 20])]
ThetaD(BC) == [x \in 0..4 |-> Xor(BC[(x + 4) % 5], ROL(BC[(x + 1) % 5], 1))]

\* Row y of the new state is made of one lane of each row of the old one:
\* the j-th word of the row is lane Source(y, j), rotated by Offset[y][j].
Source(y, j) == ((j + 3 * y) % 5) + 5 * j
Offset == [y \in 0..4 |-> CASE y = 0 -> [j \in 0..4 |-> <<0, 44, 43, 21, 14>>[j + 1]]
                            [] y = 1 -> [j \in 0..4 |-> <<28, 20, 3, 45, 61>>[j + 1]]
                            [] y = 2 -> [j \in 0..4 |-> <<1, 6, 25, 8, 18>>[j + 1]]
                            [] y = 3 -> [j \in 0..4 |-> <<27, 36, 10, 15, 56>>[j + 1]]
                            [] y = 4 -> [j \in 0..4 |-> <<62, 55, 39, 41, 2>>[j + 1]]]

\* Rho and Pi of a word, and Chi with it and the next two.
Rotated(A, D, y, j) ==
  ROL(Xor(A[Source(y, j)], D[Source(y, j) % 5]), Offset[y][j])
Chi(A, D, y, x) ==
  Xor(Rotated(A, D, y, x), Rotated(A, D, y, (x + 2) % 5) \ Rotated(A, D, y, (x + 1) % 5))

\* One round from A to E (and in the second half of the loop from E to A):
\* all planes, Iota on lane 0.
ThetaRhoPiChiIota(A, round) ==
  LET D == ThetaD(PrepareTheta(A))
      iota == KeccakF_RoundConstants[round + 1]
  IN  [l \in Lanes |-> IF l = 0 THEN Xor(Chi(A, D, 0, 0), iota)
                                ELSE Chi(A, D, l \div 5, l % 5)]

\* The bytes that keccak_absorb adds and keccak_squeeze reads.
AbsorbByte(s, pos, byte) ==
  [s EXCEPT ![pos \div 8] = Xor(@, {8 * (pos % 8) + b : b \in byte})]
SqueezeByte(s, pos) == {b \in 0..7 : 8 * (pos % 8) + b \in s[pos \div 8]}

---------------------------------------------------------------------------
(* shake256/shake256.c.  The statements of a plane, in their order: the    *)
(* lane and its rotation.                                                  *)

PlaneB == << <<0, 0>>, <<6, 44>>, <<12, 43>>, <<18, 21>>, <<24, 14>> >>
PlaneG == << <<3, 28>>, <<9, 20>>, <<10, 3>>, <<16, 45>>, <<22, 61>> >>
PlaneK == << <<1, 1>>, <<7, 6>>, <<13, 25>>, <<19, 8>>, <<20, 18>> >>
\* Mutant: one rotation is mistyped.
PlaneMistyped == << <<4, 27>>, <<5, 36>>, <<11, 25>>, <<17, 15>>, <<23, 56>> >>
PlaneM == << <<4, 27>>, <<5, 36>>, <<11, 10>>, <<17, 15>>, <<23, 56>> >>
PlaneS == << <<2, 62>>, <<8, 55>>, <<14, 39>>, <<15, 41>>, <<21, 2>> >>

Planes == <<PlaneB, PlaneG, PlaneK, PlaneM, PlaneS>>

\* prepareTheta and Da ... Du, for the column of one lane.
Parity(A, x) == Xor(Xor(Xor(A[x], A[x + 5]), Xor(A[x + 10], A[x + 15])), A[x + 20])
AddD(A, l) == Xor(A[l], Xor(Parity(A, (l + 4) % 5), ROL(Parity(A, (l + 1) % 5), 1)))

\* BCa ... BCu of a plane, and the five words stored from them.
BC(A, plane, j) == ROL(AddD(A, plane[(j % 5) + 1][1]), plane[(j % 5) + 1][2])
RoundAE(A, rc) ==
  [l \in Lanes |->
     LET plane == Planes[l \div 5 + 1]
         word  == Xor(BC(A, plane, l), BC(A, plane, l + 2) \ BC(A, plane, l + 1))
     IN  IF l = 0 THEN Xor(word, rc) ELSE word]

\* An iteration of the loop of KeccakF1600_StatePermute is two rounds.
RoundPair(A, round) ==
  RoundAE(RoundAE(A, KeccakF_RoundConstants[round + 1]), KeccakF_RoundConstants[round + 2])

\* keccak_absorb adds a block by words; the bytes of t are those of the block.
Load64(t, l) == {b \in 0..63 : b % 8 \in t[8 * l + b \div 8]}
AddBlock(s, t) == [l \in Lanes |-> Xor(s[l], Load64(t, l))]
===========================================================================
