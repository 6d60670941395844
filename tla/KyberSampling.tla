--------------------------- MODULE KyberSampling ---------------------------
(***************************************************************************)
(* The samplers of ml-kem: gen_matrix of indcpa.c with its rejection       *)
(* sampling, and the binomial noise of cbd.c.                              *)
(***************************************************************************)
EXTENDS Integers, Sequences, FiniteSets

CONSTANTS KYBER_N, KYBER_K,
          XOF_BLOCKBYTES,        \* a multiple of three, as an #error demands
          GEN_MATRIX_NBLOCKS,    \* blocks that are squeezed at first
          Streams,               \* the outputs of the XOF
          Byte(_, _),            \* byte k of one of them
          Words                  \* words that the noise is made from: sets of bits

\* What the parameters must be.
KyberSamplingParameters ==
  /\ KYBER_N \in Nat \ {0} /\ KYBER_K \in Nat \ {0}
  /\ XOF_BLOCKBYTES \in Nat \ {0} /\ XOF_BLOCKBYTES % 3 = 0 /\ GEN_MATRIX_NBLOCKS \in Nat \ {0}
  /\ Words \subseteq SUBSET (0 .. 31)

VARIABLES at,          \* "matrix", "reject", "noise" or "done"
          transposed,  \* the argument of gen_matrix
          xof,         \* the stream for each pair of bytes that xof_absorb adds
          i, j,        \* the entry of the matrix
          sq,          \* bytes squeezed for it
          buf, pos,    \* the buffer
          ctr, len,    \* of rej_uniform; what it wrote before is in done
          done,        \* coefficients that earlier calls of rej_uniform wrote
          m,           \* the matrix
          word, noise  \* of cbd2 and cbd3: the word, and the coefficients
vars == <<at, transposed, xof, i, j, sq, buf, pos, ctr, len, done, m, word, noise>>

KYBER_Q == 3329
Rows == 0..(KYBER_K - 1)
Index == 0..(KYBER_N - 1)
Unwritten == [p \in Rows \X Rows |-> [k \in Index |-> -1]]

---------------------------------------------------------------------------
(* gen_matrix                                                              *)

\* Mutant: gen_at and gen_a have the same streams.
AbsorbedPlain == <<j, i>>
\* The stream of an entry is that of (j, i), or of (i, j) for the transpose.
Absorbed == IF transposed = 1 THEN <<i, j>> ELSE <<j, i>>
SqueezeBlocks(n) == [k \in 0..(n * XOF_BLOCKBYTES - 1) |-> Byte(xof[Absorbed], sq + k)]

xof_absorb ==
  /\ at = "matrix" /\ sq = 0
  /\ buf' = SqueezeBlocks(GEN_MATRIX_NBLOCKS)
  /\ sq' = GEN_MATRIX_NBLOCKS * XOF_BLOCKBYTES
  /\ at' = "reject" /\ pos' = 0 /\ ctr' = 0 /\ len' = KYBER_N /\ done' = 0
  /\ UNCHANGED <<transposed, xof, i, j, m, word, noise>>

val0(b) == (b[pos] + 256 * b[pos + 1]) % 4096
val1(b) == ((b[pos + 1] \div 16) + 16 * b[pos + 2]) % 4096

\* An iteration of rej_uniform, which takes both candidates of three bytes.
\* The second is not used when there is no room for it.
rej_uniform ==
  /\ at = "reject" /\ ctr < len /\ pos + 3 <= Cardinality(DOMAIN buf)
  /\ LET c1 == IF val0(buf) < KYBER_Q THEN ctr + 1 ELSE ctr
         two == c1 < len /\ val1(buf) < KYBER_Q
     IN  /\ m' = [m EXCEPT ![<<i, j>>] =
                    [k \in Index |-> IF k = done + ctr /\ val0(buf) < KYBER_Q THEN val0(buf)
                                     ELSE IF k = done + c1 /\ two THEN val1(buf) ELSE @[k]]]
         /\ ctr' = IF two THEN c1 + 1 ELSE c1
  /\ pos' = pos + 3
  /\ UNCHANGED <<at, transposed, xof, i, j, sq, buf, len, done, word, noise>>

\* rej_uniform returns: another block while coefficients are missing, else the
\* next entry.
NextEntry ==
  IF j + 1 < KYBER_K THEN i' = i /\ j' = j + 1 /\ at' = "matrix"
  ELSE j' = 0 /\ i' = i + 1 /\ at' = IF i + 1 < KYBER_K THEN "matrix" ELSE "done"

rej_uniform_returns ==
  /\ at = "reject" /\ ~(ctr < len /\ pos + 3 <= Cardinality(DOMAIN buf))
  /\ done' = done + ctr
  /\ IF done + ctr < KYBER_N
     THEN /\ buf' = SqueezeBlocks(1)
          /\ sq' = sq + XOF_BLOCKBYTES
          /\ pos' = 0 /\ ctr' = 0 /\ len' = KYBER_N - (done + ctr)
          /\ UNCHANGED <<at, i, j>>
     ELSE /\ NextEntry /\ sq' = 0
          /\ UNCHANGED <<buf, pos, ctr, len>>
  /\ UNCHANGED <<transposed, xof, m, word, noise>>

---------------------------------------------------------------------------
(* cbd.c                                                                   *)

Shift(t, n) == {b - n : b \in {c \in t : c >= n}}
Number(t) ==
  LET low[n \in 0 .. 24] ==
        IF n = 0 THEN 0 ELSE low[n - 1] + (IF n - 1 \in t THEN 2 ^ (n - 1) ELSE 0)
  IN low[24]

\* The sum of t and its shifts under a mask; the mask leaves a field of the word
\* as many bits as the sum needs.  The 32 bits of cbd2 are taken as two halves.
d2(t, h) ==
  LET masked(u) == Number({b \in Shift(u, 16 * h) \cap 0..15 : b % 2 = 0})   \* 0x55555555
  IN  masked(t) + masked(Shift(t, 1))
d3(t) ==
  LET masked(u) == Number({b \in u \cap 0..23 : b % 3 = 0})                  \* 0x00249249
  IN  masked(t) + masked(Shift(t, 1)) + masked(Shift(t, 2))

cbd2(t) ==
  [k \in 0..7 |-> LET d0 == d2(t, k \div 4) \div 16 ^ (k % 4)
                  IN  (d0 % 4) - ((d0 \div 4) % 4)]
cbd3(t) ==
  [k \in 0..3 |-> ((d3(t) \div 64 ^ k) % 8) - ((d3(t) \div (8 * 64 ^ k)) % 8)]

poly_cbd(eta) ==
  /\ at = "noise"
  /\ noise' = IF eta = 2 THEN cbd2(word) ELSE cbd3(word \cap 0..23) \* load24_littleendian
  /\ at' = "done"
  /\ UNCHANGED <<transposed, xof, i, j, sq, buf, pos, ctr, len, done, m, word>>

---------------------------------------------------------------------------
Init ==
  /\ \/ /\ at = "matrix" /\ transposed \in {0, 1} /\ xof \in [Rows \X Rows -> Streams]
        /\ word = {}
     \/ at = "noise" /\ transposed = 0 /\ xof = <<>> /\ word \in Words
  /\ i = 0 /\ j = 0 /\ sq = 0 /\ buf = <<>> /\ pos = 0 /\ ctr = 0 /\ len = 0 /\ done = 0
  /\ m = Unwritten /\ noise = <<>>

Next ==
  \/ xof_absorb \/ rej_uniform \/ rej_uniform_returns
  \/ poly_cbd(2) \/ poly_cbd(3)

Spec == Init /\ [][Next]_vars

---------------------------------------------------------------------------
\* The candidates of a stream, of 12 bits each, and those of the first n that are
\* accepted.
CandidateAt(s, c) ==
  LET k == 3 * (c \div 2)
  IN  IF c % 2 = 0 THEN (Byte(s, k) + 256 * Byte(s, k + 1)) % 4096
      ELSE (Byte(s, k + 1) \div 16) + 16 * Byte(s, k + 2)
AcceptedOf(s, n) ==
  LET first[c \in 0 .. n] ==
        IF c = 0 THEN <<>>
        ELSE IF CandidateAt(s, c - 1) < KYBER_Q THEN Append(first[c - 1], CandidateAt(s, c - 1))
        ELSE first[c - 1]
  IN first[n]

\* gen_matrix: every entry of the matrix has the first accepted candidates of its
\* own stream in order, however many blocks that took; in gen_at the entries
\* (i, j) and (j, i) have exchanged their streams, so that encryption works with
\* the transpose of the matrix of the key.
SampledFrom(n) ==
  xof # <<>> =>
    \A p \in Rows \X Rows, k \in Index :
      LET accepted == AcceptedOf(xof[IF transposed = 1 THEN p ELSE <<p[2], p[1]>>], n)
          isWritten == \/ p[1] * KYBER_K + p[2] < i * KYBER_K + j
                       \/ p = <<i, j>> /\ sq > 0 /\ k < done + ctr
      IN  IF isWritten THEN k < Len(accepted) => m[p][k] = accepted[k + 1] ELSE m[p][k] = -1
EntriesAreSampled == SampledFrom(16 * KYBER_N)

\* cbd2, cbd3: a coefficient is the number of ones in its first eta bits less the
\* number of ones in the next eta: no sum of a field reaches the next field.
NoiseIsBinomial ==
  noise # <<>> =>
    LET eta == IF Cardinality(DOMAIN noise) = 8 THEN 2 ELSE 3
        ones(b) == Cardinality(word \cap b..(b + eta - 1))
    IN  \A k \in DOMAIN noise : noise[k] = ones(2 * eta * k) - ones(2 * eta * k + eta)

\* What ML-KEM samples is what its streams say.
KyberSamples == EntriesAreSampled /\ NoiseIsBinomial
===========================================================================
