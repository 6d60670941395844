---------------------------- MODULE DilithiumNtt ----------------------------
(***************************************************************************)
(* The number-theoretic transform of ML-DSA, butterfly by butterfly:       *)
(* ml-dsa/ntt.c with montgomery_reduce of reduce.c.  Sums are never        *)
(* reduced; N * Q is just below the 2^31 that a word can hold.  A          *)
(* behaviour transforms two polynomials, multiplies them pointwise and     *)
(* transforms back, as the signing loop does with c and s1.                *)
(***************************************************************************)
EXTENDS Integers

CONSTANTS
  N, Q,     \* coefficients, and the prime
  R,        \* the values of a word
  QInv,     \* the inverse of Q modulo R
  Zetas,    \* the table of roots
  F,        \* what invntt_tomont multiplies by at the end
  Factors   \* the pairs of polynomials that are multiplied

\* The powers of two up to n: the layers that are left when len is n.
Layers(n) ==
  IF n < 1 THEN 0 ELSE IF n < 2 THEN 1 ELSE IF n < 4 THEN 2 ELSE IF n < 8 THEN 3
  ELSE IF n < 16 THEN 4 ELSE IF n < 32 THEN 5 ELSE IF n < 64 THEN 6
  ELSE IF n < 128 THEN 7 ELSE 8

\* What the parameters must be.  The sum of N coefficients fits into a word: for
\* 256 * 8380417 it does by a thousandth.  So does the product of two transformed
\* coefficients, divided by Q: 81 * 8380416 is a third of 2^31.
ASSUME NttAssumption ==
  /\ N \in {2, 4, 8, 16, 32, 64, 128, 256}
  /\ Q \in Nat \ {0} /\ R \in Nat \ {0} /\ R % 2 = 0
  /\ QInv \in Int /\ (Q * QInv) % R = 1
  /\ N * Q < R \div 2
  /\ (Layers(N \div 2) + 1) * (Layers(N \div 2) + 1) * (Q - 1) <= R \div 2
  /\ Zetas \in [0 .. N - 1 -> -(Q - 1) .. Q - 1] /\ F \in 0 .. Q - 1
  /\ \A f \in Factors : \A n \in {1, 2} : f[n] \in [0 .. N - 1 -> -(Q - 1) .. Q - 1]

\* The table has the roots that halve the polynomials, times R: x^N + 1 is taken
\* apart by a root of -1, and what that gives by its roots and those of its
\* opposite.  In reverse and negated the roots of a layer are the inverses, and F
\* takes out the N that the layers of invntt_tomont multiply by.
ASSUME RootsAssumption ==
  /\ (Zetas[1] * Zetas[1] + R * R) % Q = 0
  /\ \A k \in 1 .. N \div 2 - 1 : /\ (Zetas[2 * k] * Zetas[2 * k] - R * Zetas[k]) % Q = 0
                                 /\ (Zetas[2 * k + 1] * Zetas[2 * k + 1] + R * Zetas[k]) % Q = 0
  /\ \A n \in {1, 2, 4, 8, 16, 32, 64, 128} :
       2 * n <= N => \A k \in n .. 2 * n - 1 : (Zetas[k] * Zetas[3 * n - 1 - k] + R * R) % Q = 0
  /\ (F * N - R * R) % Q = 0

Coeffs == 0 .. N - 1

VARIABLES
  phase,              \* the function that runs
  factors,            \* the two polynomials
  vec,                \* the one that is being transformed
  first,              \* the first one, transformed
  len, start,
  place, root         \* the loop variables len, start, j and k

nttVars == <<phase, factors, vec, first, len, start, place, root>>

-----------------------------------------------------------------------------
\* An int32_t.
Word(x) == ((x + R \div 2) % R) - R \div 2

\* montgomery_reduce: t = (int32_t)a * QINV; (a - t * Q) >> 32
MontgomeryReduce(x) == (x - Word(Word(x) * QInv) * Q) \div R

\* A call begins at the outer loop; root is the index of the last root used.
Begin(name, l, index) == phase' = name /\ len' = l /\ start' = 0 /\ place' = 0 /\ root' = index

NttInit ==
  /\ factors \in Factors
  /\ phase = "ntt" /\ vec = factors[1] /\ first = << >>
  /\ len = N \div 2 /\ start = 0 /\ place = 0 /\ root = 1

\* ntt: the two coefficients of a butterfly.
forward ==
  /\ phase = "ntt" /\ len > 0 /\ start < N /\ place < start + len
  /\ LET t == MontgomeryReduce(Zetas[root] * vec[place + len]) IN
     vec' = [vec EXCEPT ![place + len] = Word(vec[place] - t), ![place] = Word(vec[place] + t)]
  /\ place' = place + 1
  /\ UNCHANGED <<phase, factors, first, len, start, root>>

\* ntt: the next block, with the next root.
forward_block ==
  /\ phase = "ntt" /\ len > 0 /\ start < N /\ place = start + len
  /\ start' = place + len /\ place' = start'
  /\ root' = IF start' < N THEN root + 1 ELSE root
  /\ UNCHANGED <<phase, factors, vec, first, len>>

\* ntt: the next layer.
forward_layer ==
  /\ phase = "ntt" /\ len > 0 /\ start >= N
  /\ len' = len \div 2 /\ start' = 0 /\ place' = 0
  /\ root' = IF len' > 0 THEN root + 1 ELSE root
  /\ UNCHANGED <<phase, factors, vec, first>>

\* poly_ntt is called for the second polynomial, then
\* poly_pointwise_montgomery and poly_invntt_tomont.
second ==
  /\ phase = "ntt" /\ len = 0 /\ first = << >>
  /\ first' = vec /\ vec' = factors[2]
  /\ Begin("ntt", N \div 2, 1)
  /\ UNCHANGED factors

\* Mutant: the low word of the products is kept.
pointwise_unreduced ==
  /\ phase = "ntt" /\ len = 0 /\ first # << >>
  /\ vec' = [i \in Coeffs |-> Word(first[i] * vec[i])]
  /\ Begin("invntt", 1, N - 1)
  /\ UNCHANGED <<factors, first>>
pointwise ==
  /\ phase = "ntt" /\ len = 0 /\ first # << >>
  /\ vec' = [i \in Coeffs |-> MontgomeryReduce(first[i] * vec[i])]
  /\ Begin("invntt", 1, N - 1)
  /\ UNCHANGED <<factors, first>>

\* invntt_tomont: a butterfly, the roots negated and in reverse.
inverse ==
  /\ phase = "invntt" /\ len < N /\ start < N /\ place < start + len
  /\ LET difference == Word(vec[place] - vec[place + len]) IN
     vec' = [vec EXCEPT ![place] = Word(@ + vec[place + len]),
                    ![place + len] = MontgomeryReduce(-Zetas[root] * difference)]
  /\ place' = place + 1
  /\ UNCHANGED <<phase, factors, first, len, start, root>>

\* Mutant: the root of a block is used for the next one as well.
NextRootKept == root
NextRoot == root - 1

inverse_block ==
  /\ phase = "invntt" /\ len < N /\ start < N /\ place = start + len
  /\ start' = place + len /\ place' = start'
  /\ root' = IF start' < N THEN NextRoot ELSE root
  /\ UNCHANGED <<phase, factors, vec, first, len>>

inverse_layer ==
  /\ phase = "invntt" /\ len < N /\ start >= N
  /\ len' = 2 * len /\ start' = 0 /\ place' = 0
  /\ root' = IF len' < N THEN root - 1 ELSE root
  /\ UNCHANGED <<phase, factors, vec, first>>

\* The last loop of invntt_tomont.
scale ==
  /\ phase = "invntt" /\ len >= N
  /\ vec' = [i \in Coeffs |-> MontgomeryReduce(F * vec[i])]
  /\ phase' = "done"
  /\ UNCHANGED <<factors, first, len, start, place, root>>

NttNext ==
  \/ forward \/ forward_block \/ forward_layer \/ second \/ pointwise
  \/ inverse \/ inverse_block \/ inverse_layer \/ scale

NttSpec == NttInit /\ [][NttNext]_nttVars

-----------------------------------------------------------------------------
\* No sum or difference of a butterfly leaves a word, although nothing is reduced
\* between the layers, and the coefficients that invntt_tomont is given are smaller
\* than Q, as it asks.
InWord(x) == x \in -(R \div 2) .. R \div 2 - 1
Small(x) == x \in -(Q - 1) .. Q - 1
StaysInWord ==
  /\ (phase = "ntt" /\ len > 0 /\ start < N /\ place < start + len) =>
       LET t == MontgomeryReduce(Zetas[root] * vec[place + len]) IN
       InWord(vec[place] + t) /\ InWord(vec[place] - t)
  /\ (phase = "invntt" /\ len < N /\ start < N /\ place < start + len) =>
       InWord(vec[place] + vec[place + len]) /\ InWord(vec[place] - vec[place + len])
  /\ (phase = "invntt" /\ len = 1 /\ start = 0 /\ place = 0) => \A i \in Coeffs : Small(vec[i])

\* The product of the two polynomials modulo x^N + 1, by its definition.
Product(x, y, i) ==
  LET sum[n \in 0 .. N] ==
        IF n = 0 THEN 0
        ELSE LET m == n - 1 IN
             IF m <= i THEN sum[n - 1] + x[m] * y[i - m] ELSE sum[n - 1] - x[m] * y[N + i - m]
  IN sum[N]

\* invntt_tomont gives back the product, smaller than Q.
DilithiumProduct ==
  phase = "done" =>
    \A i \in Coeffs : /\ (vec[i] - Product(factors[1], factors[2], i)) % Q = 0
                      /\ Small(vec[i])
=============================================================================
