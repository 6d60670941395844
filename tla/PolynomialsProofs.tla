------------------------- MODULE PolynomialsProofs --------------------------
(***************************************************************************)
(* That no sum of the transform of ML-DSA leaves a word, for all sizes,    *)
(* primes and words that NttAssumption allows.  A layer of the forward     *)
(* transform adds one multiple of Q - 1 to the range of a coefficient, a   *)
(* layer of the inverse doubles the range; inside a layer the coefficients *)
(* before the butterfly have the new range already, the others the old.    *)
(*                                                                         *)
(* That what invntt_tomont gives is the product modulo x^N + 1, for all    *)
(* such sizes and all tables that RootsAssumption allows.  A layer of ntt  *)
(* is a linear map that commutes with the multiplication by x, and ends in *)
(* places where x is a number: what it makes of a product is the product   *)
(* of what it makes of the factors.  A layer of invntt_tomont undoes one   *)
(* and doubles the coefficients, and F takes all that out again.           *)
(*                                                                         *)
(* And that the samplers of ML-DSA take the accepted candidates of their   *)
(* stream in order, for every stream of bytes, blocks of any length and    *)
(* polynomials of any size: where a block ends in a candidate, its bytes   *)
(* go on in the next one, and no byte is skipped or read twice.            *)
(*                                                                         *)
(* The same for the matrix of ML-KEM, whose rejection sampling starts over *)
(* with what is missing of an entry at every block, and that a coefficient *)
(* of its noise is a difference of two numbers of ones.                    *)
(***************************************************************************)
EXTENDS MCPolynomials, WellFoundedInduction, FiniteSetTheorems, TLAPS

-----------------------------------------------------------------------------
(* Words and the Montgomery reduction                                      *)

\* Half of the values of a word.
H == R \div 2

LEMMA HalfWord == H \in Nat /\ H > 0 /\ R = 2 * H
<1>1. R \in Nat /\ R > 0 /\ R % 2 = 0
  BY NttAssumption
<1> QED
  BY <1>1 DEF H

LEMMA Division ==
  ASSUME NEW x \in Int
  PROVE  /\ x \div R \in Int
         /\ x % R \in Int /\ 0 <= x % R /\ x % R < R
         /\ x = R * (x \div R) + (x % R)
<1>1. R \in Nat /\ R > 0
  BY NttAssumption
<1> QED
  BY <1>1, SMTT(30)

\* A word is the number it is taken from, less a multiple of R.
LEMMA WordRange ==
  ASSUME NEW x \in Int
  PROVE  /\ Word(x) \in Int /\ -H <= Word(x) /\ Word(x) <= H - 1
         /\ \E m \in Int : Word(x) = x - R * m
<1>1. H \in Nat /\ H > 0 /\ R = 2 * H
  BY HalfWord
<1> DEFINE y == x + H
<1>2. y \in Int
  BY <1>1
<1>3. Word(x) = (y % R) - H
  BY DEF Word, H
<1> HIDE DEF y
<1>4. /\ y \div R \in Int /\ y % R \in Int /\ 0 <= y % R /\ y % R < R
      /\ y = R * (y \div R) + (y % R)
  BY <1>2, Division
<1>5. Word(x) = x - R * (y \div R)
  BY <1>1, <1>3, <1>4 DEF y
<1>6. \E m \in Int : Word(x) = x - R * m
  BY <1>4, <1>5
<1>7. Word(x) \in Int /\ -H <= Word(x) /\ Word(x) <= H - 1
  BY <1>1, <1>3, <1>4
<1> QED
  BY <1>6, <1>7

LEMMA MultipleOfWord ==
  ASSUME NEW m \in Int
  PROVE  /\ R * m < R => m <= 0
         /\ R * m > -R => m >= 0
         /\ (R * m) \div R = m
<1>1. R \in Nat /\ R > 0
  BY NttAssumption
<1>2. R * m < R => m <= 0
  BY <1>1, SMT
<1>3. R * m > -R => m >= 0
  BY <1>1, SMT
<1>4. (R * m) \div R = m
  BY <1>1, SMTT(30)
<1> QED
  BY <1>2, <1>3, <1>4

LEMMA WordIsItself ==
  ASSUME NEW x \in Int, -H <= x, x <= H - 1
  PROVE  Word(x) = x
<1>1. H \in Nat /\ H > 0 /\ R = 2 * H
  BY HalfWord
<1>2. Word(x) \in Int /\ -H <= Word(x) /\ Word(x) <= H - 1
  BY WordRange
<1>3. PICK m \in Int : Word(x) = x - R * m
  BY WordRange
<1> DEFINE t == R * m
<1>4. t \in Int /\ t < R /\ t > -R
  BY <1>1, <1>2, <1>3
<1>5. m = 0
  BY <1>4, MultipleOfWord
<1> QED
  BY <1>1, <1>3, <1>5

\* montgomery_reduce: the multiple of Q makes the difference a multiple of R,
\* and a product in range gives less than Q.
LEMMA MontgomeryRange ==
  ASSUME NEW x \in Int, -((Q - 1) * H) <= x, x <= (Q - 1) * H
  PROVE  MontgomeryReduce(x) \in Int
         /\ -(Q - 1) <= MontgomeryReduce(x) /\ MontgomeryReduce(x) <= Q - 1
<1>1. H \in Nat /\ H > 0 /\ R = 2 * H /\ Q \in Nat /\ Q > 0 /\ QInv \in Int
  BY HalfWord, NttAssumption
<1> DEFINE low == Word(x)
           t == Word(low * QInv)
<1>2. low \in Int
  BY WordRange
<1>3. PICK m1 \in Int : low = x - R * m1
  BY WordRange
<1>4. low * QInv \in Int
  BY <1>1, <1>2
<1>5. t \in Int /\ -H <= t /\ t <= H - 1
  BY <1>4, WordRange
<1>6. PICK m2 \in Int : t = low * QInv - R * m2
  BY <1>4, WordRange
<1> DEFINE m3 == (Q * QInv) \div R
<1>7. m3 \in Int /\ Q * QInv = R * m3 + 1
  <2>1. Q * QInv \in Int /\ (Q * QInv) % R = 1
    BY <1>1, NttAssumption
  <2> QED
    BY <2>1, Division
<1>8. MontgomeryReduce(x) = (x - t * Q) \div R
  BY DEF MontgomeryReduce
<1> HIDE DEF low, t, m3
<1> DEFINE k == m1 - low * m3 + m2 * Q
<1>9. k \in Int
  BY <1>1, <1>2, <1>3, <1>6, <1>7
<1>10. x - t * Q = R * k
  <2>1. t * Q = low * (Q * QInv) - (R * m2) * Q
    BY <1>1, <1>2, <1>6
  <2>2. low * (Q * QInv) = low * (R * m3) + low
    BY <1>1, <1>2, <1>7
  <2>3. x - low = R * m1
    BY <1>1, <1>3
  <2> QED
    BY <2>1, <2>2, <2>3, <1>1, <1>2, <1>3, <1>5, <1>6, <1>7
<1>11. MontgomeryReduce(x) = k
  BY <1>8, <1>9, <1>10, MultipleOfWord
<1>12. t * Q <= H * Q - Q /\ t * Q >= -(H * Q)
  BY <1>1, <1>5
<1>13. R * k < R * Q /\ R * k > -(R * Q)
  BY <1>1, <1>5, <1>10, <1>12
<1> HIDE DEF k
<1>14. k < Q /\ k > -Q
  BY <1>1, <1>9, <1>13
<1> QED
  BY <1>1, <1>9, <1>11, <1>14

-----------------------------------------------------------------------------
(* Ranges as multiples of the largest residue                              *)

Within(x, n) == -(n * (Q - 1)) <= x /\ x <= n * (Q - 1)

\* Two transformed coefficients are within so many.
All == Layers(N \div 2) + 1

Lens == {1, 2, 4, 8, 16, 32, 64, 128}

LEMMA Sizes ==
  /\ N \in Nat /\ N >= 2 /\ N % 2 = 0 /\ N \div 2 \in Lens /\ 2 * (N \div 2) = N
  /\ Q \in Nat /\ Q > 0
  /\ All \in Nat /\ All >= 2 /\ All <= N
  /\ N * (Q - 1) <= H - 1
  /\ All * All * (Q - 1) <= H
<1>1. N \in {2, 4, 8, 16, 32, 64, 128, 256}
  BY NttAssumption
<1>2. N \in Nat /\ N >= 2 /\ N % 2 = 0 /\ N \div 2 \in Lens /\ 2 * (N \div 2) = N
  BY <1>1 DEF Lens
<1>3. All \in Nat /\ All >= 2 /\ All <= N
  BY <1>1 DEF All, Layers
<1>4. Q \in Nat /\ Q > 0 /\ N * Q < H
  BY NttAssumption DEF H
<1>5. H \in Nat
  BY HalfWord
<1>6. N * (Q - 1) <= H - 1
  BY <1>2, <1>4, <1>5
<1>7. All * All * (Q - 1) <= H
  BY NttAssumption DEF All, H
<1> QED
  BY <1>2, <1>3, <1>4, <1>6, <1>7

LEMMA WithinMore ==
  ASSUME NEW x \in Int, NEW n \in Nat, NEW m \in Nat, n <= m, Within(x, n)
  PROVE  Within(x, m)
<1>1. Q - 1 \in Nat
  BY Sizes
<1> DEFINE b == Q - 1
<1> HIDE DEF b
<1>2. n * b <= m * b
  BY <1>1 DEF b
<1>3. b \in Nat
  BY <1>1 DEF b
<1>4. -(n * b) <= x /\ x <= n * b
  BY DEF Within, b
<1>5. -(m * b) <= x /\ x <= m * b
  BY <1>2, <1>3, <1>4
<1> QED
  BY <1>5 DEF Within, b

LEMMA WithinSum ==
  ASSUME NEW x \in Int, NEW y \in Int, NEW n \in Nat, NEW m \in Nat, Within(x, n), Within(y, m)
  PROVE  Within(x + y, n + m) /\ Within(x - y, n + m)
<1>1. Q - 1 \in Nat
  BY Sizes
<1>2. (n + m) * (Q - 1) = n * (Q - 1) + m * (Q - 1)
  BY <1>1
<1>3. n * (Q - 1) \in Nat /\ m * (Q - 1) \in Nat
  BY <1>1
<1> QED
  BY <1>2, <1>3 DEF Within

LEMMA WithinWord ==
  ASSUME NEW x \in Int, Within(x, N)
  PROVE  Word(x) = x /\ InWord(x)
<1>1. H \in Nat /\ N * (Q - 1) \in Nat /\ N * (Q - 1) <= H - 1
  BY HalfWord, Sizes
<1>2. -H <= x /\ x <= H - 1
  BY <1>1 DEF Within
<1>3. x \in -H .. H - 1
  BY <1>1, <1>2
<1> QED
  BY <1>2, <1>3, WordIsItself DEF InWord, H

LEMMA WithinOne ==
  ASSUME NEW x
  PROVE  /\ x \in -(Q - 1) .. Q - 1 => x \in Int /\ Within(x, 1)
         /\ x \in Int /\ Within(x, 1) => Small(x)
  BY Sizes DEF Within, Small

\* A root times a coefficient, reduced.
LEMMA ReduceProduct ==
  ASSUME NEW z \in -(Q - 1) .. Q - 1, NEW x \in Int, Within(x, N)
  PROVE  /\ MontgomeryReduce(z * x) \in Int /\ Within(MontgomeryReduce(z * x), 1)
         /\ MontgomeryReduce(-z * x) \in Int /\ Within(MontgomeryReduce(-z * x), 1)
<1> DEFINE b == Q - 1
<1>1. b \in Nat /\ H \in Nat
  BY Sizes, HalfWord
<1>2. z \in Int /\ -b <= z /\ z <= b
  BY <1>1
<1>3. -H <= x /\ x <= H
  BY <1>1, Sizes DEF Within
<1> HIDE DEF b
<1>4. z * x <= b * H /\ z * x >= -(b * H)
  BY <1>1, <1>2, <1>3, SMTT(30)
<1>5. z * x \in Int /\ -z * x \in Int /\ -z * x = -(z * x) /\ b * H \in Nat
  BY <1>1, <1>2
<1>6. -z * x <= b * H /\ -z * x >= -(b * H)
  BY <1>4, <1>5
<1> QED
  BY <1>4, <1>5, <1>6, MontgomeryRange, WithinOne, Sizes DEF b, Within

\* Two coefficients, multiplied and reduced.
LEMMA ReducePointwise ==
  ASSUME NEW x \in Int, NEW y \in Int, Within(x, All), Within(y, All)
  PROVE  MontgomeryReduce(x * y) \in Int /\ Within(MontgomeryReduce(x * y), 1)
<1> DEFINE b == Q - 1
           c == All * b
<1>1. b \in Nat /\ H \in Nat /\ All \in Nat /\ c \in Nat
  BY Sizes, HalfWord
<1>2. -c <= x /\ x <= c /\ -c <= y /\ y <= c
  BY DEF Within
<1>3. c * c = (All * All * b) * b
  BY <1>1
<1>4. All * All * b \in Nat /\ All * All * b <= H
  BY <1>1, Sizes
<1> HIDE DEF b
<1>5. (All * All * b) * b <= H * b
  <2> DEFINE d == All * All * b
  <2> HIDE DEF d
  <2>1. d \in Nat /\ d <= H => d * b <= H * b
    BY <1>1
  <2> QED
    BY <1>4, <2>1 DEF d
<1>6. c * c <= b * H
  BY <1>1, <1>3, <1>5
<1> HIDE DEF c
<1>7. x * y <= c * c /\ x * y >= -(c * c)
  BY <1>1, <1>2, SMTT(30)
<1>8. x * y \in Int /\ c * c \in Int /\ b * H \in Int
  BY <1>1
<1>9. x * y <= b * H /\ x * y >= -(b * H)
  BY <1>6, <1>7, <1>8
<1> QED
  BY <1>8, <1>9, MontgomeryRange, Sizes DEF b, Within

-----------------------------------------------------------------------------
(* The loops                                                               *)

LEMMA LayersLeft ==
  ASSUME NEW l \in Lens, l < N
  PROVE  /\ Layers(l) \in Nat /\ Layers(l) > 0 /\ Layers(l) < All
         /\ l \div 2 \in {0} \cup Lens /\ l \div 2 < N
         /\ Layers(l \div 2) = Layers(l) - 1
         /\ l \div 2 > 0 => 2 * (l \div 2) = l
<1>1. N \in {2, 4, 8, 16, 32, 64, 128, 256}
  BY NttAssumption
<1>2. CASE l \in {1, 2, 4, 8}
  BY <1>1, <1>2 DEF Lens, Layers, All
<1>3. CASE l \in {16, 32, 64, 128}
  BY <1>1, <1>3 DEF Lens, Layers, All
<1> QED
  BY <1>2, <1>3 DEF Lens

\* A block of two halves of l coefficients ends at or before N, where another one
\* begins; so it is for half of l and, unless there is only one block, for twice l.
LEMMA Blocks ==
  ASSUME NEW l \in Lens, N % (2 * l) = 0
  PROVE  /\ l \in Nat /\ l > 0 /\ 2 * l <= N
         /\ \A s \in Nat : (s % (2 * l) = 0 /\ s < N) => /\ s + 2 * l <= N
                                                       /\ (s + 2 * l) % (2 * l) = 0
         /\ l \div 2 > 0 => N % (2 * (l \div 2)) = 0
         /\ 2 * l < N => 2 * l \in Lens /\ N % (2 * (2 * l)) = 0
<1>1. N \in {2, 4, 8, 16, 32, 64, 128, 256}
  BY NttAssumption
<1>2. l \in Nat /\ l > 0 /\ 2 * l <= N
  BY <1>1 DEF Lens
<1>3. l \div 2 > 0 => N % (2 * (l \div 2)) = 0
  BY <1>1 DEF Lens
<1>4. 2 * l < N => 2 * l \in Lens /\ N % (2 * (2 * l)) = 0
  BY <1>1 DEF Lens
<1>5. ASSUME NEW s \in Nat, s % (2 * l) = 0, s < N
      PROVE  s + 2 * l <= N /\ (s + 2 * l) % (2 * l) = 0
  <2>1. CASE l \in {1, 2, 4, 8}
    BY <1>1, <1>5, <2>1
  <2>2. CASE l \in {16, 32, 64, 128}
    BY <1>1, <1>5, <2>2
  <2> QED
    BY <2>1, <2>2 DEF Lens
<1> QED
  BY <1>2, <1>3, <1>4, <1>5

\* The index of a root, from the place of its block.
LEMMA RootIndex ==
  ASSUME NEW l \in Lens, N % (2 * l) = 0, NEW n \in Nat
  PROVE  /\ \A s \in Nat : (s + 2 * l <= N /\ n * (2 * l) = N + s) => n \in 0 .. N - 1
         /\ \A s \in Nat : (s + 2 * l <= N /\ n * (2 * l) = 2 * N - 2 * l - s) => n \in 1 .. N - 1
         /\ n * (2 * l) = N => n - 1 \in Nat
         /\ (n + 1) * (2 * l) = n * (2 * l) + 2 * l
         /\ (n - 1) * (2 * l) = n * (2 * l) - 2 * l
<1>1. l \in Nat /\ l > 0 /\ 2 * l <= N /\ N \in Nat
  BY Blocks, Sizes
<1>2. N \in {2, 4, 8, 16, 32, 64, 128, 256}
  BY NttAssumption
<1>3. ASSUME NEW s \in Nat, s + 2 * l <= N, n * (2 * l) = N + s
      PROVE  n \in 0 .. N - 1
  <2>1. n * (2 * l) < N * 2
    BY <1>1, <1>3
  <2> QED
    BY <2>1, <1>1 DEF Lens
<1>4. ASSUME NEW s \in Nat, s + 2 * l <= N, n * (2 * l) = 2 * N - 2 * l - s
      PROVE  n \in 1 .. N - 1
  <2>1. n * (2 * l) < N * 2 /\ n * (2 * l) > 0
    BY <1>1, <1>4
  <2> QED
    BY <2>1, <1>1 DEF Lens
<1>5. n * (2 * l) = N => n - 1 \in Nat
  BY <1>1 DEF Lens
<1>6. /\ (n + 1) * (2 * l) = n * (2 * l) + 2 * l
      /\ (n - 1) * (2 * l) = n * (2 * l) - 2 * l
  BY <1>1
<1> QED
  BY <1>3, <1>4, <1>5, <1>6

-----------------------------------------------------------------------------
(* The inductive invariant                                                 *)

\* The coefficients that the butterflies of a layer have come to.
Touched(i) == i < place \/ (i >= start + len /\ i < place + len)

InLayer == len > 0 /\ len < N

Loops ==
  /\ start \in Nat /\ place \in Nat /\ start <= place
  /\ InLayer => /\ len \in Lens /\ N % (2 * len) = 0
                /\ start % (2 * len) = 0 /\ start <= N /\ (start = N => place = N)
                /\ place <= start + len

\* In ntt a coefficient is within one multiple for each layer it went through, and
\* one more; the roots are those of the blocks.
ForwardRange ==
  phase = "ntt" =>
    /\ len \in {0} \cup Lens /\ len < N
    /\ \A i \in Coeffs :
         Within(vec[i], (All - Layers(len)) + (IF len > 0 /\ Touched(i) THEN 1 ELSE 0))
    /\ len > 0 => /\ root \in Nat
                  /\ root * (2 * len) = (IF start < N THEN N + start ELSE 2 * N - 2 * len)

\* In invntt_tomont the multiple is the length of a half of a block.
BackwardRange ==
  phase = "invntt" =>
    /\ len \in Lens \cup {N} /\ len <= N
    /\ \A i \in Coeffs : Within(vec[i], IF len < N /\ Touched(i) THEN 2 * len ELSE len)
    /\ len < N => /\ root \in Nat
                  /\ root * (2 * len) = (IF start < N THEN 2 * N - 2 * len - start ELSE N)

NttInv ==
  /\ phase \in {"ntt", "invntt", "done"}
  /\ factors \in Factors
  /\ vec \in [Coeffs -> Int]
  /\ \/ first = << >>
     \/ first \in [Coeffs -> Int] /\ (\A i \in Coeffs : Within(first[i], All))
  /\ Loops /\ ForwardRange /\ BackwardRange

\* A polynomial that is given to ntt.
LEMMA Given ==
  ASSUME NEW f \in Factors, NEW n \in {1, 2}
  PROVE  f[n] \in [Coeffs -> Int] /\ (\A i \in Coeffs : Within(f[n][i], 1))
<1>1. f[n] \in [Coeffs -> -(Q - 1) .. Q - 1]
  BY NttAssumption DEF Coeffs
<1>2. \A i \in Coeffs : f[n][i] \in Int /\ Within(f[n][i], 1)
  BY <1>1, WithinOne
<1> QED
  BY <1>1, <1>2

\* The beginning of ntt on such a polynomial.
LEMMA FirstLayer ==
  /\ N \div 2 \in Lens /\ N \div 2 < N /\ N \div 2 > 0 /\ N % (2 * (N \div 2)) = 0
  /\ All - Layers(N \div 2) = 1
  /\ 1 * (2 * (N \div 2)) = N
  /\ 0 % (2 * (N \div 2)) = 0
<1>1. N \in {2, 4, 8, 16, 32, 64, 128, 256}
  BY NttAssumption
<1> QED
  BY <1>1 DEF Lens, All, Layers

LEMMA NttInvInit == NttInit => NttInv
<1> SUFFICES ASSUME NttInit PROVE NttInv
  OBVIOUS
<1>1. factors \in Factors /\ vec = factors[1] /\ first = << >> /\ phase = "ntt"
  BY DEF NttInit
<1>2. vec \in [Coeffs -> Int] /\ (\A i \in Coeffs : Within(vec[i], 1))
  BY <1>1, Given
<1>3. len = N \div 2 /\ start = 0 /\ place = 0 /\ root = 1
  BY DEF NttInit
<1>4. \A i \in Coeffs : ~Touched(i)
  BY <1>3, FirstLayer, Sizes DEF Touched, Coeffs
<1>5. Loops
  BY <1>3, FirstLayer, Sizes DEF Loops, InLayer
<1>6. ForwardRange
  BY <1>2, <1>3, <1>4, FirstLayer, Sizes DEF ForwardRange
<1>7. BackwardRange
  BY <1>1 DEF BackwardRange
<1> QED
  BY <1>1, <1>2, <1>5, <1>6, <1>7 DEF NttInv

\* The two coefficients of a butterfly of ntt, and what is added to one.
LEMMA ForwardButterfly ==
  ASSUME NttInv, phase = "ntt", len > 0, start < N, place < start + len,
         NEW t, t = MontgomeryReduce(Zetas[root] * vec[place + len])
  PROVE  /\ len \in Lens /\ len < N /\ len \in Nat /\ place \in Coeffs /\ place + len \in Coeffs
         /\ start + 2 * len <= N
         /\ vec[place] \in Int /\ t \in Int
         /\ Within(vec[place] + t, (All - Layers(len)) + 1)
         /\ Within(vec[place] - t, (All - Layers(len)) + 1)
         /\ Word(vec[place] + t) = vec[place] + t /\ InWord(vec[place] + t)
         /\ Word(vec[place] - t) = vec[place] - t /\ InWord(vec[place] - t)
<1>1. /\ len \in Lens /\ len < N /\ N % (2 * len) = 0 /\ start \in Nat /\ place \in Nat
      /\ start <= place /\ start % (2 * len) = 0
      /\ root \in Nat /\ root * (2 * len) = N + start
  BY DEF NttInv, Loops, ForwardRange, InLayer, Lens
<1>2. len \in Nat /\ start + 2 * len <= N
  BY <1>1, Blocks
<1>3. place \in Coeffs /\ place + len \in Coeffs
  BY <1>1, <1>2, Sizes DEF Coeffs
<1>4. ~Touched(place) /\ ~Touched(place + len)
  BY <1>1, <1>2 DEF Touched
<1> DEFINE n == All - Layers(len)
<1>5. n \in Nat /\ n + 1 <= N /\ n + 1 <= All
  BY <1>1, LayersLeft, Sizes
<1>6. /\ vec[place] \in Int /\ vec[place + len] \in Int
      /\ Within(vec[place], n) /\ Within(vec[place + len], n)
  <2>1. \A i \in Coeffs : vec[i] \in Int /\ (~Touched(i) => Within(vec[i], n + 0))
    BY DEF NttInv, ForwardRange
  <2> QED
    BY <1>3, <1>4, <1>5, <2>1
<1> HIDE DEF n
<1>7. root \in 0 .. N - 1
  BY <1>1, <1>2, RootIndex
<1>8. Zetas[root] \in -(Q - 1) .. Q - 1
  BY <1>7, NttAssumption
<1>9. Within(vec[place + len], N)
  BY <1>5, <1>6, WithinMore, Sizes
<1>10. t \in Int /\ Within(t, 1)
  BY <1>6, <1>8, <1>9, ReduceProduct
<1>11. Within(vec[place] + t, n + 1) /\ Within(vec[place] - t, n + 1)
  BY <1>5, <1>6, <1>10, WithinSum
<1>12. vec[place] + t \in Int /\ vec[place] - t \in Int
  BY <1>6, <1>10
<1>13. Within(vec[place] + t, N) /\ Within(vec[place] - t, N)
  BY <1>5, <1>11, <1>12, WithinMore, Sizes
<1> QED
  BY <1>1, <1>2, <1>3, <1>6, <1>10, <1>11, <1>12, <1>13, WithinWord DEF n

\* The same for invntt_tomont, with the sum, the difference and its product.
LEMMA BackwardButterfly ==
  ASSUME NttInv, phase = "invntt", len < N, start < N, place < start + len,
         NEW d, d = vec[place] - vec[place + len],
         NEW t, t = MontgomeryReduce(-Zetas[root] * d)
  PROVE  /\ len \in Lens /\ len \in Nat /\ place \in Coeffs /\ place + len \in Coeffs
         /\ start + 2 * len <= N
         /\ vec[place] \in Int /\ vec[place + len] \in Int /\ t \in Int
         /\ Within(vec[place] + vec[place + len], 2 * len) /\ Within(t, 2 * len)
         /\ Word(vec[place] + vec[place + len]) = vec[place] + vec[place + len]
         /\ InWord(vec[place] + vec[place + len])
         /\ Word(d) = d /\ InWord(d)
<1>1. /\ len \in Lens /\ N % (2 * len) = 0 /\ start \in Nat /\ place \in Nat
      /\ start <= place /\ start % (2 * len) = 0
      /\ root \in Nat /\ root * (2 * len) = 2 * N - 2 * len - start
  <2>1. Loops /\ BackwardRange
    BY DEF NttInv
  <2>2. len \in Lens
    BY <2>1, Sizes DEF BackwardRange
  <2>3. len > 0 /\ len < N
    BY <2>2 DEF Lens
  <2>4. /\ N % (2 * len) = 0 /\ start \in Nat /\ place \in Nat
        /\ start <= place /\ start % (2 * len) = 0
    BY <2>1, <2>3 DEF Loops, InLayer
  <2>5. root \in Nat /\ root * (2 * len) = 2 * N - 2 * len - start
    BY <2>1 DEF BackwardRange
  <2> QED
    BY <2>2, <2>4, <2>5
<1>2. len \in Nat /\ len > 0 /\ 2 * len <= N /\ start + 2 * len <= N
  BY <1>1, Blocks
<1>3. place \in Coeffs /\ place + len \in Coeffs
  BY <1>1, <1>2, Sizes DEF Coeffs
<1>4. ~Touched(place) /\ ~Touched(place + len)
  BY <1>1, <1>2 DEF Touched
<1>5. /\ vec[place] \in Int /\ vec[place + len] \in Int
      /\ Within(vec[place], len) /\ Within(vec[place + len], len)
  BY <1>3, <1>4 DEF NttInv, BackwardRange
<1>6. root \in 0 .. N - 1
  BY <1>1, <1>2, RootIndex
<1>7. Zetas[root] \in -(Q - 1) .. Q - 1
  BY <1>6, NttAssumption
<1>8. d \in Int /\ vec[place] + vec[place + len] \in Int
  BY <1>5
<1>9. Within(vec[place] + vec[place + len], 2 * len) /\ Within(d, 2 * len)
  <2>1. /\ Within(vec[place] + vec[place + len], len + len)
        /\ Within(vec[place] - vec[place + len], len + len)
    BY <1>2, <1>5, WithinSum
  <2>2. len + len = 2 * len
    BY <1>2
  <2> QED
    BY <2>1, <2>2
<1>10. Within(vec[place] + vec[place + len], N) /\ Within(d, N)
  BY <1>2, <1>8, <1>9, WithinMore, Sizes
<1>11. t \in Int /\ Within(t, 1)
  BY <1>7, <1>8, <1>10, ReduceProduct
<1>12. Within(t, 2 * len)
  BY <1>2, <1>11, WithinMore
<1> QED
  BY <1>1, <1>2, <1>3, <1>5, <1>8, <1>9, <1>10, <1>11, <1>12, WithinWord

-----------------------------------------------------------------------------
(* Every step keeps the invariant                                          *)

\* The two coefficients of a butterfly are touched by it, and no others.
LEMMA TouchedNext ==
  ASSUME len \in Nat, start \in Nat, place \in Nat, start <= place, place < start + len,
         place' = place + 1, start' = start, len' = len, NEW i \in Coeffs
  PROVE  Touched(i)' <=> Touched(i) \/ i = place \/ i = place + len
  BY Sizes DEF Touched, Coeffs

LEMMA StepForward == NttInv /\ forward => NttInv'
<1> SUFFICES ASSUME NttInv, forward PROVE NttInv'
  OBVIOUS
<1> DEFINE t == MontgomeryReduce(Zetas[root] * vec[place + len])
           sum == vec[place] + t
           difference == vec[place] - t
<1>1. /\ phase = "ntt" /\ len > 0 /\ start < N /\ place < start + len
      /\ vec' = [vec EXCEPT ![place + len] = Word(difference), ![place] = Word(sum)]
      /\ place' = place + 1
      /\ UNCHANGED <<phase, factors, first, len, start, root>>
  BY DEF forward
<1>2. /\ len \in Lens /\ len < N /\ len \in Nat /\ place \in Coeffs /\ place + len \in Coeffs
      /\ sum \in Int /\ difference \in Int /\ Word(sum) = sum /\ Word(difference) = difference
      /\ Within(sum, (All - Layers(len)) + 1) /\ Within(difference, (All - Layers(len)) + 1)
  BY <1>1, ForwardButterfly
<1> HIDE DEF sum, difference, t
<1>3. /\ vec \in [Coeffs -> Int] /\ Loops /\ ForwardRange
  BY DEF NttInv
<1>4. vec' = [vec EXCEPT ![place + len] = difference, ![place] = sum]
  BY <1>1, <1>2
<1>5. vec' \in [Coeffs -> Int]
  BY <1>2, <1>3, <1>4
<1>6. /\ start \in Nat /\ place \in Nat /\ start <= place
  BY <1>3 DEF Loops
<1>7. Loops'
  BY <1>1, <1>2, <1>3, <1>6, Sizes DEF Loops, InLayer
<1>8. \A i \in Coeffs :
        Within(vec'[i], (All - Layers(len)) + (IF len > 0 /\ Touched(i)' THEN 1 ELSE 0))
  <2> SUFFICES ASSUME NEW i \in Coeffs
               PROVE  Within(vec'[i], (All - Layers(len)) + (IF len > 0 /\ Touched(i)' THEN 1 ELSE 0))
    OBVIOUS
  <2>1. Touched(i)' <=> Touched(i) \/ i = place \/ i = place + len
    BY <1>1, <1>2, <1>6, TouchedNext
  <2>2. CASE i = place \/ i = place + len
    BY <1>1, <1>2, <1>3, <1>4, <2>1, <2>2
  <2>3. CASE i # place /\ i # place + len
    <3>1. vec'[i] = vec[i]
      BY <1>3, <1>4, <2>3
    <3>2. Within(vec[i], (All - Layers(len)) + (IF len > 0 /\ Touched(i) THEN 1 ELSE 0))
      BY <1>1, <1>3 DEF ForwardRange
    <3> QED
      BY <2>1, <2>3, <3>1, <3>2
  <2> QED
    BY <2>2, <2>3
<1>9. ForwardRange'
  BY <1>1, <1>3, <1>8 DEF ForwardRange
<1>10. BackwardRange'
  BY <1>1 DEF BackwardRange
<1> QED
  BY <1>1, <1>5, <1>7, <1>9, <1>10 DEF NttInv

LEMMA StepInverse == NttInv /\ inverse => NttInv'
<1> SUFFICES ASSUME NttInv, inverse PROVE NttInv'
  OBVIOUS
<1> DEFINE d == vec[place] - vec[place + len]
           sum == vec[place] + vec[place + len]
           t == MontgomeryReduce(-Zetas[root] * d)
<1>1. /\ phase = "invntt" /\ len < N /\ start < N /\ place < start + len
      /\ vec' = [vec EXCEPT ![place] = Word(@ + vec[place + len]),
                            ![place + len] = MontgomeryReduce(-Zetas[root] * Word(d))]
      /\ place' = place + 1
      /\ UNCHANGED <<phase, factors, first, len, start, root>>
  BY DEF inverse
<1>2. /\ len \in Lens /\ len \in Nat /\ place \in Coeffs /\ place + len \in Coeffs
      /\ sum \in Int /\ t \in Int /\ Word(sum) = sum /\ Word(d) = d
      /\ Within(sum, 2 * len) /\ Within(t, 2 * len)
  BY <1>1, BackwardButterfly
<1>3. /\ vec \in [Coeffs -> Int] /\ Loops /\ BackwardRange
  BY DEF NttInv
<1>4. vec' = [vec EXCEPT ![place] = sum, ![place + len] = t]
  BY <1>1, <1>2, <1>3
<1> HIDE DEF sum, d, t
<1>5. vec' \in [Coeffs -> Int]
  BY <1>2, <1>3, <1>4
<1>6. /\ start \in Nat /\ place \in Nat /\ start <= place
  BY <1>3 DEF Loops
<1>7. Loops'
  BY <1>1, <1>2, <1>3, <1>6, Sizes DEF Loops, InLayer
<1>8. \A i \in Coeffs : Within(vec'[i], IF len < N /\ Touched(i)' THEN 2 * len ELSE len)
  <2> SUFFICES ASSUME NEW i \in Coeffs
               PROVE  Within(vec'[i], IF len < N /\ Touched(i)' THEN 2 * len ELSE len)
    OBVIOUS
  <2>1. Touched(i)' <=> Touched(i) \/ i = place \/ i = place + len
    BY <1>1, <1>2, <1>6, TouchedNext
  <2>2. CASE i = place \/ i = place + len
    <3>1. place + len # place
      BY <1>2, <1>6 DEF Lens
    <3> QED
      BY <1>1, <1>2, <1>3, <1>4, <2>1, <2>2, <3>1
  <2>3. CASE i # place /\ i # place + len
    <3>1. vec'[i] = vec[i]
      BY <1>3, <1>4, <2>3
    <3>2. Within(vec[i], IF len < N /\ Touched(i) THEN 2 * len ELSE len)
      BY <1>1, <1>3 DEF BackwardRange
    <3> QED
      BY <2>1, <2>3, <3>1, <3>2
  <2> QED
    BY <2>2, <2>3
<1>9. BackwardRange'
  BY <1>1, <1>3, <1>8 DEF BackwardRange
<1>10. ForwardRange'
  BY <1>1 DEF ForwardRange
<1> QED
  BY <1>1, <1>5, <1>7, <1>9, <1>10 DEF NttInv

\* The next block: what was touched is behind it.
LEMMA NextBlock ==
  ASSUME Loops, InLayer, start < N, place = start + len,
         start' = place + len, place' = start', len' = len
  PROVE  /\ Loops' /\ len \in Lens /\ start' = start + 2 * len /\ start' <= N
         /\ start' < N => start' + 2 * len <= N
         /\ \A i \in Coeffs : Touched(i)' <=> Touched(i)
<1>1. /\ len \in Lens /\ N % (2 * len) = 0 /\ start \in Nat /\ place \in Nat
      /\ start % (2 * len) = 0
  BY DEF Loops
<1>2. /\ len \in Nat /\ len > 0 /\ start + 2 * len <= N /\ (start + 2 * len) % (2 * len) = 0
  BY <1>1, Blocks
<1>3. start' = start + 2 * len /\ start' \in Nat
  BY <1>1, <1>2
<1>4. start' < N => start' + 2 * len <= N
  BY <1>1, <1>2, <1>3, Blocks
<1>5. Loops'
  BY <1>1, <1>2, <1>3, Sizes DEF Loops, InLayer
<1>6. \A i \in Coeffs : Touched(i)' <=> Touched(i)
  BY <1>1, <1>2, <1>3, Sizes DEF Touched, Coeffs
<1> QED
  BY <1>1, <1>2, <1>3, <1>4, <1>5, <1>6

LEMMA StepForwardBlock == NttInv /\ forward_block => NttInv'
<1> SUFFICES ASSUME NttInv, forward_block PROVE NttInv'
  OBVIOUS
<1>1. /\ phase = "ntt" /\ len > 0 /\ start < N /\ place = start + len
      /\ start' = place + len /\ place' = start'
      /\ root' = IF start' < N THEN root + 1 ELSE root
      /\ UNCHANGED <<phase, factors, vec, first, len>>
  BY DEF forward_block
<1>2. Loops /\ ForwardRange /\ InLayer
  BY <1>1 DEF NttInv, ForwardRange, InLayer
<1>3. /\ Loops' /\ len \in Lens /\ start' = start + 2 * len /\ start' <= N
      /\ start' < N => start' + 2 * len <= N
      /\ \A i \in Coeffs : Touched(i)' <=> Touched(i)
  BY <1>1, <1>2, NextBlock
<1>4. /\ root \in Nat /\ root * (2 * len) = N + start /\ N % (2 * len) = 0 /\ start \in Nat
  BY <1>1, <1>2 DEF ForwardRange, Loops
<1>5. root' \in Nat /\ root' * (2 * len) = (IF start' < N THEN N + start' ELSE 2 * N - 2 * len)
  <2>1. (root + 1) * (2 * len) = root * (2 * len) + 2 * len
    BY <1>3, <1>4, RootIndex
  <2>2. len \in Nat /\ N \in Nat
    BY <1>3, <1>4, Blocks, Sizes
  <2>3. CASE start' < N
    BY <1>1, <1>3, <1>4, <2>1, <2>2, <2>3
  <2>4. CASE ~(start' < N)
    <3>1. start + 2 * len = N
      BY <1>3, <1>4, <2>2, <2>4
    <3>2. root * (2 * len) = 2 * N - 2 * len
      BY <1>4, <2>2, <3>1
    <3> QED
      BY <1>1, <1>4, <2>4, <3>2
  <2> QED
    BY <2>3, <2>4
<1>6. ForwardRange'
  BY <1>1, <1>2, <1>3, <1>5 DEF ForwardRange
<1>7. BackwardRange'
  BY <1>1 DEF BackwardRange
<1> QED
  BY <1>1, <1>3, <1>6, <1>7 DEF NttInv

LEMMA StepInverseBlock == NttInv /\ inverse_block => NttInv'
<1> SUFFICES ASSUME NttInv, inverse_block PROVE NttInv'
  OBVIOUS
<1>1. /\ phase = "invntt" /\ len < N /\ start < N /\ place = start + len
      /\ start' = place + len /\ place' = start'
      /\ root' = IF start' < N THEN root - 1 ELSE root
      /\ UNCHANGED <<phase, factors, vec, first, len>>
  BY DEF inverse_block, NextRoot
<1>2. Loops /\ BackwardRange /\ InLayer
  <2>1. Loops /\ BackwardRange
    BY DEF NttInv
  <2>2. len \in Lens
    BY <1>1, <2>1, Sizes DEF BackwardRange
  <2> QED
    BY <1>1, <2>1, <2>2 DEF InLayer, Lens
<1>3. /\ Loops' /\ len \in Lens /\ start' = start + 2 * len /\ start' <= N
      /\ start' < N => start' + 2 * len <= N
      /\ \A i \in Coeffs : Touched(i)' <=> Touched(i)
  BY <1>1, <1>2, NextBlock
<1>4. /\ root \in Nat /\ root * (2 * len) = 2 * N - 2 * len - start /\ N % (2 * len) = 0
      /\ start \in Nat /\ start % (2 * len) = 0
  BY <1>1, <1>2 DEF BackwardRange, Loops
<1>5. root' \in Nat /\ root' * (2 * len) = (IF start' < N THEN 2 * N - 2 * len - start' ELSE N)
  <2>1. (root - 1) * (2 * len) = root * (2 * len) - 2 * len
    BY <1>3, <1>4, RootIndex
  <2>2. len \in Nat /\ N \in Nat /\ start + 2 * len <= N
    BY <1>1, <1>3, <1>4, Blocks, Sizes
  <2>3. root \in 1 .. N - 1
    BY <1>3, <1>4, <2>2, RootIndex
  <2>4. CASE start' < N
    BY <1>1, <1>3, <1>4, <2>1, <2>2, <2>3, <2>4
  <2>5. CASE ~(start' < N)
    <3>1. start + 2 * len = N
      BY <1>3, <1>4, <2>2, <2>5
    <3>2. root * (2 * len) = N
      BY <1>4, <2>2, <3>1
    <3> QED
      BY <1>1, <1>4, <2>5, <3>2
  <2> QED
    BY <2>4, <2>5
<1>6. BackwardRange'
  BY <1>1, <1>2, <1>3, <1>5 DEF BackwardRange
<1>7. ForwardRange'
  BY <1>1 DEF ForwardRange
<1> QED
  BY <1>1, <1>3, <1>6, <1>7 DEF NttInv

LEMMA StepForwardLayer == NttInv /\ forward_layer => NttInv'
<1> SUFFICES ASSUME NttInv, forward_layer PROVE NttInv'
  OBVIOUS
<1>1. /\ phase = "ntt" /\ len > 0 /\ start >= N
      /\ len' = len \div 2 /\ start' = 0 /\ place' = 0
      /\ root' = IF len' > 0 THEN root + 1 ELSE root
      /\ UNCHANGED <<phase, factors, vec, first>>
  BY DEF forward_layer
<1>2. Loops /\ ForwardRange /\ InLayer
  BY <1>1 DEF NttInv, ForwardRange, InLayer
<1>3. /\ len \in Lens /\ N % (2 * len) = 0 /\ start = N /\ place = N
      /\ root \in Nat /\ root * (2 * len) = 2 * N - 2 * len
  BY <1>1, <1>2, Sizes DEF Loops, ForwardRange, InLayer
<1>4. /\ len' \in {0} \cup Lens /\ len' < N /\ Layers(len') = Layers(len) - 1
      /\ len' > 0 => 2 * len' = len
      /\ Layers(len) \in Nat
  BY <1>1, <1>2, <1>3, LayersLeft DEF InLayer
<1>5. len' > 0 => N % (2 * len') = 0 /\ len' \in Lens
  BY <1>1, <1>3, <1>4, Blocks
<1>6. \A i \in Coeffs : Touched(i) /\ ~Touched(i)'
  BY <1>1, <1>3, <1>4, Sizes DEF Touched, Coeffs, Lens
<1>7. Loops'
  BY <1>1, <1>4, <1>5, Sizes DEF Loops, InLayer, Lens
<1>8. \A i \in Coeffs : Within(vec[i], All - Layers(len'))
  <2>1. (All - Layers(len)) + 1 = All - Layers(len')
    BY <1>4, Sizes
  <2> QED
    BY <1>1, <1>2, <1>6, <2>1 DEF ForwardRange
<1>9. len' > 0 => root' \in Nat /\ root' * (2 * len') = N + 0
  <2>1. SUFFICES ASSUME len' > 0 PROVE root + 1 \in Nat /\ (root + 1) * len = N
    BY <1>1, <1>4, Sizes
  <2>2. (root + 1) * (2 * len) = root * (2 * len) + 2 * len
    BY <1>3, RootIndex
  <2>3. len \in Nat /\ N \in Nat
    BY <1>3, Blocks, Sizes
  <2>4. (root + 1) * (2 * len) = 2 * N
    BY <1>3, <2>2, <2>3
  <2>5. (root + 1) * (2 * len) = 2 * ((root + 1) * len)
    BY <1>3, <2>3
  <2> QED
    BY <1>3, <2>3, <2>4, <2>5
<1>10. ForwardRange'
  <2>1. \A i \in Coeffs :
          Within(vec'[i], (All - Layers(len')) + (IF len' > 0 /\ Touched(i)' THEN 1 ELSE 0))
    <3>1. (All - Layers(len')) + 0 = All - Layers(len')
      BY <1>4, Sizes
    <3> QED
      BY <1>1, <1>6, <1>8, <3>1
  <2>2. start' < N
    BY <1>1, Sizes
  <2> QED
    BY <1>1, <1>4, <1>9, <2>1, <2>2 DEF ForwardRange
<1>11. BackwardRange'
  BY <1>1 DEF BackwardRange
<1> QED
  BY <1>1, <1>7, <1>10, <1>11 DEF NttInv

LEMMA StepInverseLayer == NttInv /\ inverse_layer => NttInv'
<1> SUFFICES ASSUME NttInv, inverse_layer PROVE NttInv'
  OBVIOUS
<1>1. /\ phase = "invntt" /\ len < N /\ start >= N
      /\ len' = 2 * len /\ start' = 0 /\ place' = 0
      /\ root' = IF len' < N THEN root - 1 ELSE root
      /\ UNCHANGED <<phase, factors, vec, first>>
  BY DEF inverse_layer
<1>2. Loops /\ BackwardRange
  BY DEF NttInv
<1>3. len \in Lens
  BY <1>1, <1>2, Sizes DEF BackwardRange
<1>4. InLayer
  BY <1>1, <1>3 DEF InLayer, Lens
<1>5. /\ N % (2 * len) = 0 /\ start = N /\ place = N
      /\ root \in Nat /\ root * (2 * len) = N
  BY <1>1, <1>2, <1>4, Sizes DEF Loops, BackwardRange, InLayer
<1>6. len \in Nat /\ len > 0 /\ len' <= N /\ (len' < N => len' \in Lens /\ N % (2 * len') = 0)
  BY <1>1, <1>3, <1>5, Blocks
<1>7. \A i \in Coeffs : Touched(i)
  BY <1>5, Sizes DEF Touched, Coeffs
<1>8. \A i \in Coeffs : Within(vec[i], len')
  BY <1>1, <1>2, <1>7 DEF BackwardRange
<1>9. \A i \in Coeffs : len' < N => ~Touched(i)'
  BY <1>1, <1>6, Sizes DEF Touched, Coeffs
<1>10. Loops'
  BY <1>1, <1>6, Sizes DEF Loops, InLayer, Lens
<1>11. len' < N => root' \in Nat /\ root' * (2 * len') = 2 * N - 2 * len' - 0
  <2>1. root - 1 \in Nat
    BY <1>3, <1>5, RootIndex
  <2>2. (root - 1) * (2 * len) = root * (2 * len) - 2 * len
    BY <1>3, <1>5, RootIndex
  <2>3. (root - 1) * (2 * (2 * len)) = 2 * ((root - 1) * (2 * len))
    BY <1>6, <2>1
  <2>4. (root - 1) * (2 * (2 * len)) = 2 * N - 2 * (2 * len)
    BY <1>5, <1>6, <2>2, <2>3, Sizes
  <2> QED
    BY <1>1, <1>6, <2>1, <2>4, Sizes
<1>12. BackwardRange'
  <2>1. len' \in Lens \cup {N} /\ len' <= N
    BY <1>1, <1>6, Sizes
  <2>2. \A i \in Coeffs : Within(vec'[i], IF len' < N /\ Touched(i)' THEN 2 * len' ELSE len')
    BY <1>1, <1>8, <1>9
  <2>3. start' < N
    BY <1>1, Sizes
  <2> QED
    BY <1>1, <1>11, <2>1, <2>2, <2>3 DEF BackwardRange
<1>13. ForwardRange'
  BY <1>1 DEF ForwardRange
<1> QED
  BY <1>1, <1>10, <1>12, <1>13 DEF NttInv

\* A transformed polynomial.
LEMMA TransformedRange ==
  ASSUME NttInv, phase = "ntt", len = 0
  PROVE  vec \in [Coeffs -> Int] /\ (\A i \in Coeffs : Within(vec[i], All))
<1>1. \A i \in Coeffs : Within(vec[i], (All - Layers(len)) + 0)
  BY DEF NttInv, ForwardRange
<1>2. (All - Layers(0)) + 0 = All
  BY Sizes DEF Layers
<1> QED
  BY <1>1, <1>2 DEF NttInv

LEMMA StepSecond == NttInv /\ second => NttInv'
<1> SUFFICES ASSUME NttInv, second PROVE NttInv'
  OBVIOUS
<1>1. /\ phase = "ntt" /\ len = 0 /\ first' = vec /\ vec' = factors[2]
      /\ phase' = "ntt" /\ len' = N \div 2 /\ start' = 0 /\ place' = 0 /\ root' = 1
      /\ UNCHANGED factors
  BY DEF second, Begin
<1>2. factors \in Factors
  BY DEF NttInv
<1>3. vec' \in [Coeffs -> Int] /\ (\A i \in Coeffs : Within(vec'[i], 1))
  BY <1>1, <1>2, Given
<1>4. first' \in [Coeffs -> Int] /\ (\A i \in Coeffs : Within(first'[i], All))
  BY <1>1, TransformedRange
<1>5. \A i \in Coeffs : ~Touched(i)'
  BY <1>1, FirstLayer, Sizes DEF Touched, Coeffs
<1>6. Loops'
  BY <1>1, FirstLayer, Sizes DEF Loops, InLayer
<1>7. ForwardRange'
  BY <1>1, <1>3, <1>5, FirstLayer, Sizes DEF ForwardRange
<1>8. BackwardRange'
  BY <1>1 DEF BackwardRange
<1> QED
  BY <1>1, <1>2, <1>3, <1>4, <1>6, <1>7, <1>8 DEF NttInv

LEMMA StepPointwise == NttInv /\ pointwise => NttInv'
<1> SUFFICES ASSUME NttInv, pointwise PROVE NttInv'
  OBVIOUS
<1>1. /\ phase = "ntt" /\ len = 0 /\ first # << >>
      /\ vec' = [i \in Coeffs |-> MontgomeryReduce(first[i] * vec[i])]
      /\ phase' = "invntt" /\ len' = 1 /\ start' = 0 /\ place' = 0 /\ root' = N - 1
      /\ UNCHANGED <<factors, first>>
  BY DEF pointwise, Begin
<1>2. first \in [Coeffs -> Int] /\ (\A i \in Coeffs : Within(first[i], All))
  BY <1>1 DEF NttInv
<1>3. vec \in [Coeffs -> Int] /\ (\A i \in Coeffs : Within(vec[i], All))
  BY <1>1, TransformedRange
<1>4. \A i \in Coeffs : vec'[i] \in Int /\ Within(vec'[i], 1)
  BY <1>1, <1>2, <1>3, ReducePointwise
<1>5. vec' \in [Coeffs -> Int]
  BY <1>1, <1>4
<1>6. \A i \in Coeffs : ~Touched(i)'
  BY <1>1, Sizes DEF Touched, Coeffs
<1>7. Loops'
  BY <1>1, Sizes DEF Loops, InLayer, Lens
<1>8. BackwardRange'
  <2>1. root' \in Nat /\ root' * (2 * 1) = 2 * N - 2 * 1 - 0
    BY <1>1, Sizes
  <2> QED
    BY <1>1, <1>4, <1>6, <2>1, Sizes DEF BackwardRange, Lens
<1>9. ForwardRange'
  BY <1>1 DEF ForwardRange
<1> QED
  BY <1>1, <1>2, <1>5, <1>7, <1>8, <1>9 DEF NttInv

LEMMA StepScale == NttInv /\ scale => NttInv'
<1> SUFFICES ASSUME NttInv, scale PROVE NttInv'
  OBVIOUS
<1>1. /\ phase = "invntt" /\ len >= N /\ phase' = "done"
      /\ vec' = [i \in Coeffs |-> MontgomeryReduce(F * vec[i])]
      /\ UNCHANGED <<factors, first, len, start, place, root>>
  BY DEF scale
<1>2. vec \in [Coeffs -> Int] /\ Loops /\ BackwardRange
  BY DEF NttInv
<1>3. len = N
  <2>1. len \in Lens \cup {N} /\ len <= N
    BY <1>1, <1>2 DEF BackwardRange
  <2> QED
    BY <1>1, <2>1, Sizes DEF Lens
<1>4. \A i \in Coeffs : Within(vec[i], N)
  BY <1>1, <1>2, <1>3, Sizes DEF BackwardRange
<1>5. F \in -(Q - 1) .. Q - 1
  BY NttAssumption, Sizes
<1>6. \A i \in Coeffs : vec'[i] \in Int
  BY <1>1, <1>2, <1>4, <1>5, ReduceProduct
<1>7. vec' \in [Coeffs -> Int]
  BY <1>1, <1>6
<1>8. Loops' /\ ForwardRange' /\ BackwardRange'
  BY <1>1, <1>2, <1>3 DEF Loops, InLayer, ForwardRange, BackwardRange
<1> QED
  BY <1>1, <1>7, <1>8 DEF NttInv

LEMMA NttInvStutter == NttInv /\ UNCHANGED nttVars => NttInv'
  BY DEF NttInv, nttVars, Loops, InLayer, ForwardRange, BackwardRange, Touched, Within

LEMMA NttInductive == NttSpec => []NttInv
<1>1. NttInv /\ [NttNext]_nttVars => NttInv'
  BY StepForward, StepForwardBlock, StepForwardLayer, StepSecond, StepPointwise,
     StepInverse, StepInverseBlock, StepInverseLayer, StepScale, NttInvStutter DEF NttNext
<1> QED
  BY <1>1, NttInvInit, PTL DEF NttSpec

\* For all parameters, no sum or difference of a butterfly of ntt or
\* invntt_tomont leaves a word, and invntt_tomont is given coefficients smaller
\* than Q (StaysInWord).
THEOREM NttStaysInWord == NttSpec => []StaysInWord
<1>1. NttInv => StaysInWord
  <2> SUFFICES ASSUME NttInv PROVE StaysInWord
    OBVIOUS
  <2>1. (phase = "ntt" /\ len > 0 /\ start < N /\ place < start + len) =>
          LET t == MontgomeryReduce(Zetas[root] * vec[place + len]) IN
          InWord(vec[place] + t) /\ InWord(vec[place] - t)
    BY ForwardButterfly
  <2>2. (phase = "invntt" /\ len < N /\ start < N /\ place < start + len) =>
          InWord(vec[place] + vec[place + len]) /\ InWord(vec[place] - vec[place + len])
    BY BackwardButterfly
  <2>3. ASSUME phase = "invntt" /\ len = 1 /\ start = 0 /\ place = 0, NEW i \in Coeffs
        PROVE  Small(vec[i])
    <3>1. ~Touched(i)
      BY <2>3 DEF Touched, Coeffs
    <3>2. vec[i] \in Int /\ Within(vec[i], 1)
      BY <2>3, <3>1 DEF NttInv, BackwardRange
    <3> QED
      BY <3>2, WithinOne
  <2> QED
    BY <2>1, <2>2, <2>3 DEF StaysInWord
<1> QED
  BY <1>1, NttInductive, PTL

-----------------------------------------------------------------------------
(*  Numbers that are equal but for a multiple of Q  *)

Congruent(x, y) == \E m \in Int : x = y + m * Q

\* Congruence is an equivalence.
LEMMA CongruentEquivalence ==
  ASSUME NEW x \in Int, NEW y \in Int, NEW z \in Int
  PROVE  /\ Congruent(x, x)
         /\ Congruent(x, y) => Congruent(y, x)
         /\ Congruent(x, y) /\ Congruent(y, z) => Congruent(x, z)
<1>1. Q \in Int
  BY Sizes
<1>2. Congruent(x, x)
  <2>1. x = x + 0 * Q
    BY <1>1
  <2> QED
    BY <2>1 DEF Congruent
<1>3. ASSUME Congruent(x, y) PROVE Congruent(y, x)
  <2>1. PICK m \in Int : x = y + m * Q
    BY <1>3 DEF Congruent
  <2>2. y = x + (-m) * Q /\ -m \in Int
    BY <1>1, <2>1
  <2> QED
    BY <2>2 DEF Congruent
<1>4. ASSUME Congruent(x, y), Congruent(y, z) PROVE Congruent(x, z)
  <2>1. PICK m \in Int : x = y + m * Q
    BY <1>4 DEF Congruent
  <2>2. PICK k \in Int : y = z + k * Q
    BY <1>4 DEF Congruent
  <2>3. x = z + (m + k) * Q /\ m + k \in Int
    BY <1>1, <2>1, <2>2
  <2> QED
    BY <2>3 DEF Congruent
<1> QED
  BY <1>2, <1>3, <1>4

\* Sums, differences and products of congruent numbers are congruent.
LEMMA CongruentCombines ==
  ASSUME NEW x \in Int, NEW y \in Int, Congruent(x, y),
         NEW u \in Int, NEW v \in Int, Congruent(u, v)
  PROVE  Congruent(x + u, y + v) /\ Congruent(x - u, y - v) /\ Congruent(x * u, y * v)
<1>1. Q \in Int
  BY Sizes
<1>2. PICK m \in Int : x = y + m * Q
  BY DEF Congruent
<1>3. PICK k \in Int : u = v + k * Q
  BY DEF Congruent
<1>4. x + u = (y + v) + (m + k) * Q /\ m + k \in Int
  BY <1>1, <1>2, <1>3
<1>5. x - u = (y - v) + (m - k) * Q /\ m - k \in Int
  BY <1>1, <1>2, <1>3
<1>6. x * u = y * v + (y * k + m * v + m * (k * Q)) * Q
  <2>1. PICK s \in Int, t \in Int : s = m * Q /\ t = k * Q
    BY <1>1
  <2>2. x * u = y * v + y * t + s * v + s * t
    BY <1>2, <1>3, <2>1
  <2>3. y * t = (y * k) * Q /\ s * v = (m * v) * Q /\ s * t = (m * (k * Q)) * Q
    BY <1>1, <2>1
  <2>4. PICK d \in Int, e \in Int, f \in Int : d = y * k /\ e = m * v /\ f = m * (k * Q)
    BY <1>1
  <2>5. (d + e + f) * Q = d * Q + e * Q + f * Q /\ d * Q \in Int /\ e * Q \in Int /\ f * Q \in Int
    BY <1>1
  <2> QED
    BY <2>2, <2>3, <2>4, <2>5
<1>7. y * k + m * v + m * (k * Q) \in Int
  BY <1>1
<1> QED
  BY <1>4, <1>5, <1>6, <1>7 DEF Congruent

\* The products and sums of a butterfly.
LEMMA CongruentTimes ==
  ASSUME NEW c, NEW x, NEW y, c \in Int, x \in Int, y \in Int, Congruent(x, y)
  PROVE  Congruent(c * x, c * y) /\ Congruent(x * c, y * c)
BY CongruentCombines, CongruentEquivalence

\* Congruence that goes through y.
LEMMA CongruentThrough ==
  ASSUME NEW x, NEW y, NEW z, x \in Int, y \in Int, z \in Int, Congruent(x, y), Congruent(y, z)
  PROVE  Congruent(x, z)
BY CongruentEquivalence

\* Congruence, by remainders.
LEMMA CongruentRemainder ==
  ASSUME NEW x \in Int, NEW y \in Int
  PROVE  /\ (x - y) % Q = 0 => Congruent(x, y)
         /\ Congruent(x, y) => (x - y) % Q = 0
<1>1. Q \in Nat /\ Q > 0
  BY Sizes
<1>2. ASSUME (x - y) % Q = 0 PROVE Congruent(x, y)
  <2> DEFINE m == (x - y) \div Q
  <2>1. m \in Int /\ x - y = Q * m
    BY <1>1, <1>2, SMTT(30)
  <2> HIDE DEF m
  <2>2. x = y + m * Q
    BY <1>1, <2>1
  <2> QED
    BY <2>1, <2>2 DEF Congruent
<1>3. ASSUME Congruent(x, y) PROVE (x - y) % Q = 0
  <2>1. PICK m \in Int : x = y + m * Q
    BY <1>3 DEF Congruent
  <2>2. x - y = m * Q
    BY <1>1, <2>1
  <2>3. (m * Q) % Q = 0
    BY <1>1, SMTT(30)
  <2> QED
    BY <2>2, <2>3
<1> QED
  BY <1>2, <1>3

-----------------------------------------------------------------------------
(*  Roots  *)

\* The inverse of R modulo Q.
RInv == -((Q * QInv) \div R)

\* RInv is an inverse of R: what QInv is to R makes it one.
LEMMA RInvInverts ==
  RInv \in Int /\ R * RInv = 1 - Q * QInv /\ Congruent(R * RInv, 1)
<1>1. Q \in Int /\ R \in Int /\ QInv \in Int /\ Q * QInv \in Int /\ (Q * QInv) % R = 1
  BY NttAssumption
<1> DEFINE m == (Q * QInv) \div R
<1>2. m \in Int /\ Q * QInv = R * m + 1
  BY <1>1, Division
<1>3. RInv = -m
  BY DEF RInv
<1> HIDE DEF m
<1>4. RInv \in Int /\ R * RInv = 1 - Q * QInv
  BY <1>1, <1>2, <1>3
<1>5. 1 - Q * QInv = 1 + (-QInv) * Q /\ -QInv \in Int
  BY <1>1
<1> QED
  BY <1>4, <1>5 DEF Congruent

\* montgomery_reduce divides by R.
LEMMA MontgomeryValue ==
  ASSUME NEW x \in Int
  PROVE  MontgomeryReduce(x) \in Int /\ Congruent(MontgomeryReduce(x), RInv * x)
<1>1. Q \in Int /\ R \in Int /\ QInv \in Int /\ RInv \in Int /\ R * RInv = 1 - Q * QInv
  BY NttAssumption, RInvInverts
<1> DEFINE low == Word(x)
           t == Word(low * QInv)
<1>2. low \in Int
  BY WordRange
<1>3. PICK m1 \in Int : low = x - R * m1
  BY WordRange
<1>4. low * QInv \in Int
  BY <1>1, <1>2
<1>5. t \in Int
  BY <1>4, WordRange
<1>6. PICK m2 \in Int : t = low * QInv - R * m2
  BY <1>4, WordRange
<1>8. MontgomeryReduce(x) = (x - t * Q) \div R
  BY DEF MontgomeryReduce
<1> HIDE DEF low, t
<1> DEFINE k == m1 + low * RInv + m2 * Q
<1>9. k \in Int
  BY <1>1, <1>2, <1>3, <1>6
<1>10. x - t * Q = R * k
  <2>1. t * Q = low * (Q * QInv) - (R * m2) * Q
    BY <1>1, <1>2, <1>6
  <2>2. low * (R * RInv) = low - low * (Q * QInv)
    BY <1>1, <1>2
  <2>3. x - low = R * m1
    BY <1>1, <1>3
  <2> QED
    BY <2>1, <2>2, <2>3, <1>1, <1>2, <1>3, <1>5, <1>6
<1>11. MontgomeryReduce(x) = k
  BY <1>8, <1>9, <1>10, MultipleOfWord
<1> HIDE DEF k
<1>12. k = RInv * x + (k * QInv - RInv * t) * Q
  <2>1. k * (R * RInv) = k - k * (Q * QInv)
    BY <1>1, <1>9
  <2>2. RInv * x - RInv * (t * Q) = RInv * (R * k)
    BY <1>1, <1>5, <1>9, <1>10
  <2>3. RInv * (R * k) = k * (R * RInv)
    BY <1>1, <1>9
  <2>4. /\ k * (Q * QInv) = (k * QInv) * Q /\ RInv * (t * Q) = (RInv * t) * Q
        /\ k * QInv \in Int /\ RInv * t \in Int
    BY <1>1, <1>5, <1>9
  <2> QED
    BY <2>1, <2>2, <2>3, <2>4, <1>1, <1>9
<1>13. k * QInv - RInv * t \in Int
  BY <1>1, <1>5, <1>9
<1> QED
  BY <1>9, <1>11, <1>12, <1>13 DEF Congruent

\* The root of index k, and the number that x^len is compared with in the block
\* that it takes apart.
Z(k) == Zetas[k] * RInv
Gamma(k) == IF k = 1 THEN -1 ELSE IF k % 2 = 0 THEN Z(k \div 2) ELSE -Z(k \div 2)

\* What the table is assumed to be, said of the roots without their factor R.
LEMMA RootValues ==
  ASSUME NEW k \in 1 .. N - 1
  PROVE  /\ Zetas[k] \in Int /\ Z(k) \in Int /\ Gamma(k) \in Int
         /\ Congruent(Z(k) * Z(k), Gamma(k))
<1>1. Q \in Int /\ R \in Int /\ RInv \in Int /\ N \in Nat
  BY NttAssumption, RInvInverts, Sizes
<1>2. ASSUME NEW j \in 1 .. N - 1 PROVE Zetas[j] \in Int /\ Z(j) \in Int
  <2>1. Zetas[j] \in Int
    BY <1>1, NttAssumption
  <2> QED
    BY <1>1, <2>1 DEF Z
<1> DEFINE s == RInv * RInv
           one == R * RInv
<1>3. s \in Int /\ one \in Int /\ Congruent(one, 1) /\ Congruent(one * one, 1)
  BY <1>1, RInvInverts, CongruentCombines
<1>4. Z(k) * Z(k) = (Zetas[k] * Zetas[k]) * s
  BY <1>1, <1>2 DEF Z
<1>5. CASE k = 1
  <2>1. Zetas[1] \in Int /\ Zetas[1] * Zetas[1] \in Int /\ R * R \in Int /\ -(R * R) \in Int
    BY <1>1, <1>2, <1>5
  <2>2. (Zetas[1] * Zetas[1] - (-(R * R))) % Q = 0
    <3>1. Zetas[1] * Zetas[1] - (-(R * R)) = Zetas[1] * Zetas[1] + R * R
      BY <1>1, <2>1
    <3> QED
      BY <3>1, RootsAssumption
  <2>3. Congruent(Zetas[1] * Zetas[1], -(R * R))
    BY <2>1, <2>2, CongruentRemainder
  <2>4. Congruent((Zetas[1] * Zetas[1]) * s, (-(R * R)) * s)
    BY <1>3, <2>1, <2>3, CongruentTimes
  <2>5. (-(R * R)) * s = (-1) * (one * one)
    BY <1>1
  <2>6. Congruent((-1) * (one * one), (-1) * 1)
    <3>1. PICK e \in Int : e = -1
      OBVIOUS
    <3>2. one * one \in Int /\ 1 \in Int
      BY <1>3
    <3>3. Congruent(e * (one * one), e * 1)
      <4> HIDE DEF one
      <4> QED
        BY <1>3, <3>2, CongruentTimes
    <3> QED
      BY <3>1, <3>3
  <2> HIDE DEF s, one
  <2>7. Congruent((Zetas[1] * Zetas[1]) * s, -1)
    BY <1>3, <2>1, <2>4, <2>5, <2>6, CongruentEquivalence
  <2>8. Gamma(k) = -1
    BY <1>5 DEF Gamma
  <2> QED
    BY <1>2, <1>4, <1>5, <2>7, <2>8
<1>6. CASE k # 1
  <2> DEFINE j == k \div 2
  <2>0. N % 2 = 0
    BY Sizes
  <2>1. j \in 1 .. N \div 2 - 1 /\ j \in 1 .. N - 1
    BY <1>1, <1>6, <2>0
  <2>2. (k % 2 = 0 /\ k = 2 * j) \/ (k % 2 # 0 /\ k = 2 * j + 1)
    BY <1>1
  <2> HIDE DEF j
  <2>3. Zetas[j] \in Int /\ Zetas[k] \in Int /\ Z(j) \in Int /\ Zetas[k] * Zetas[k] \in Int
        /\ R * Zetas[j] \in Int /\ -(R * Zetas[j]) \in Int
    BY <1>1, <1>2, <2>1
  <2>4. (R * Zetas[j]) * s = one * Z(j) /\ (-(R * Zetas[j])) * s = one * (-Z(j))
    BY <1>1, <2>3 DEF Z
  <2>5. Congruent(one * Z(j), Z(j)) /\ Congruent(one * (-Z(j)), -Z(j))
    <3>1. 1 * Z(j) = Z(j) /\ 1 * (-Z(j)) = -Z(j) /\ -Z(j) \in Int
      BY <2>3
    <3> HIDE DEF one
    <3> QED
      BY <1>3, <2>3, <3>1, CongruentTimes
  <2> HIDE DEF s, one
  <2>6. CASE k % 2 = 0
    <3>1. (Zetas[k] * Zetas[k] - R * Zetas[j]) % Q = 0
      BY <2>1, <2>2, <2>6, RootsAssumption
    <3>2. Congruent(Zetas[k] * Zetas[k], R * Zetas[j])
      BY <2>3, <3>1, CongruentRemainder
    <3>3. Congruent((Zetas[k] * Zetas[k]) * s, (R * Zetas[j]) * s)
      BY <1>3, <2>3, <3>2, CongruentTimes
    <3>4. (Zetas[k] * Zetas[k]) * s \in Int /\ (R * Zetas[j]) * s \in Int
      BY <1>3, <2>3
    <3>5. Congruent((Zetas[k] * Zetas[k]) * s, Z(j))
      BY <2>3, <2>4, <2>5, <3>3, <3>4, CongruentEquivalence
    <3>6. Gamma(k) = Z(j)
      BY <1>6, <2>6 DEF Gamma, j
    <3> QED
      BY <1>2, <1>4, <2>3, <3>5, <3>6
  <2>7. CASE k % 2 # 0
    <3>1. (Zetas[k] * Zetas[k] - (-(R * Zetas[j]))) % Q = 0
      <4>1. (Zetas[k] * Zetas[k] + R * Zetas[j]) % Q = 0
        BY <2>1, <2>2, <2>7, RootsAssumption
      <4>2. Zetas[k] * Zetas[k] - (-(R * Zetas[j])) = Zetas[k] * Zetas[k] + R * Zetas[j]
        BY <2>3
      <4> QED
        BY <4>1, <4>2
    <3>2. Congruent(Zetas[k] * Zetas[k], -(R * Zetas[j]))
      BY <2>3, <3>1, CongruentRemainder
    <3>3. Congruent((Zetas[k] * Zetas[k]) * s, (-(R * Zetas[j])) * s)
      BY <1>3, <2>3, <3>2, CongruentTimes
    <3>4. (Zetas[k] * Zetas[k]) * s \in Int /\ (-(R * Zetas[j])) * s \in Int /\ -Z(j) \in Int
      BY <1>3, <2>3
    <3>5. Congruent((Zetas[k] * Zetas[k]) * s, -Z(j))
      BY <2>3, <2>4, <2>5, <3>3, <3>4, CongruentEquivalence
    <3>6. Gamma(k) = -Z(j)
      BY <1>6, <2>7 DEF Gamma, j
    <3> QED
      BY <1>2, <1>4, <2>3, <3>4, <3>5, <3>6
  <2> QED
    BY <2>6, <2>7
<1> QED
  BY <1>5, <1>6

\* In the inverse the root of a block is the negated inverse of its own.
LEMMA MirrorRoots ==
  ASSUME NEW n \in {1, 2, 4, 8, 16, 32, 64, 128}, 2 * n <= N, NEW k \in n .. 2 * n - 1
  PROVE  /\ 3 * n - 1 - k \in 1 .. N - 1 /\ k \in 1 .. N - 1
         /\ Congruent(-Z(3 * n - 1 - k) * Z(k), 1)
<1>1. Q \in Int /\ R \in Int /\ RInv \in Int /\ N \in Nat
  BY NttAssumption, RInvInverts, Sizes
<1> DEFINE j == 3 * n - 1 - k
           s == RInv * RInv
           one == R * RInv
<1>2. j \in 1 .. N - 1 /\ k \in 1 .. N - 1
  BY <1>1
<1>3. Zetas[j] \in Int /\ Zetas[k] \in Int /\ Zetas[k] * Zetas[j] \in Int /\ -(R * R) \in Int
  BY <1>1, <1>2, RootValues
<1>4. s \in Int /\ -s \in Int /\ one \in Int /\ Congruent(one * one, 1)
  BY <1>1, RInvInverts, CongruentCombines
<1>5. (Zetas[k] * Zetas[j] + R * R) % Q = 0
  BY RootsAssumption
<1> HIDE DEF j
<1>6. Zetas[k] * Zetas[j] - (-(R * R)) = Zetas[k] * Zetas[j] + R * R
  BY <1>1, <1>3
<1>7. Congruent(Zetas[k] * Zetas[j], -(R * R))
  BY <1>3, <1>5, <1>6, CongruentRemainder
<1>8. Congruent((-s) * (Zetas[k] * Zetas[j]), (-s) * (-(R * R)))
  BY <1>3, <1>4, <1>7, CongruentTimes
<1>9. (-s) * (-(R * R)) = one * one
  BY <1>1
<1>10. -Z(j) * Z(k) = (-s) * (Zetas[k] * Zetas[j])
  BY <1>1, <1>3 DEF Z
<1> HIDE DEF s, one
<1>11. (-s) * (Zetas[k] * Zetas[j]) \in Int /\ one * one \in Int
  BY <1>3, <1>4
<1>12. Congruent(-Z(j) * Z(k), 1)
  <2>1. Congruent((-s) * (Zetas[k] * Zetas[j]), one * one)
    BY <1>8, <1>9
  <2>2. Congruent((-s) * (Zetas[k] * Zetas[j]), 1)
    BY <1>4, <1>11, <2>1, CongruentThrough
  <2> QED
    BY <1>10, <2>2, Zenon
<1>13. j = 3 * n - 1 - k
  BY DEF j
<1> QED
  BY <1>2, <1>12, <1>13, Zenon

-----------------------------------------------------------------------------
(*  Blocks  *)

\* The node of the tree of blocks that place i belongs to when they have l places.
Node(i, l) == (N + i) \div l

\* A quotient is known by its remainder.
LEMMA QuotientIsUnique ==
  ASSUME NEW x \in Int, NEW d \in Nat, d > 0, NEW q \in Int, NEW e \in Int,
         0 <= e, e < d, x = d * q + e
  PROVE  x \div d = q /\ x % d = e
<1> DEFINE y == x \div d
           z == x % d
<1>1. y \in Int /\ z \in Int /\ 0 <= z /\ z < d /\ x = d * y + z
  BY d \in Nat \ {0}
<1> HIDE DEF y, z
<1>2. d * (q - y) = z - e
  BY <1>1
<1>3. CASE q - y >= 1
  <2>1. d * (q - y) >= d
    BY <1>1, <1>3
  <2> QED
    BY <1>1, <1>2, <2>1
<1>4. CASE q - y <= -1
  <2>1. d * (q - y) <= -d
    BY <1>1, <1>4
  <2> QED
    BY <1>1, <1>2, <2>1
<1>5. CASE q = y
  <2>1. z = e
    BY <1>1, <1>2, <1>5
  <2> QED
    BY <1>5, <2>1 DEF y, z
<1> QED
  BY <1>1, <1>3, <1>4, <1>5

\* The place of a coefficient in its block of two halves of h.
LEMMA PlaceInBlock ==
  ASSUME NEW h \in Lens, N % (2 * h) = 0, NEW i \in Coeffs
  PROVE  /\ h \in Nat /\ h > 0 /\ i \in Nat
         /\ \E c \in Nat, b \in Nat, e \in Nat :
              /\ N = (2 * h) * c /\ c >= 1 /\ i = (2 * h) * b + e /\ e < 2 * h /\ b < c
              /\ e = i % (2 * h) /\ Node(i, 2 * h) = c + b
<1>1. h \in Nat /\ h > 0 /\ i \in Nat /\ N \in Nat /\ N > 0 /\ i < N
  BY Sizes DEF Lens, Coeffs
<1> DEFINE d == 2 * h
           c == N \div d
           b == i \div d
           e == i % d
<1>2. d \in Nat /\ d > 0
  BY <1>1
<1>3. c \in Int /\ N = d * c
  <2>1. N % d = 0
    OBVIOUS
  <2> HIDE DEF d
  <2> QED
    BY <1>1, <1>2, <2>1, SMTT(30)
<1>4. b \in Int /\ e \in Int /\ 0 <= e /\ e < d /\ i = d * b + e
  <2> HIDE DEF d
  <2> QED
    BY <1>1, <1>2, SMTT(30)
<1> HIDE DEF b, c, d
<1>5. c >= 1
  <2>1. c <= 0 => d * c <= 0
    BY <1>2, <1>3
  <2> QED
    BY <1>1, <1>3, <2>1
<1>6. b >= 0
  <2>1. b <= -1 => d * b <= -d
    BY <1>2, <1>4
  <2> QED
    BY <1>1, <1>2, <1>4, <2>1
<1>7. b < c
  <2>1. b >= c => d * b >= d * c
    BY <1>2, <1>3, <1>4
  <2> QED
    BY <1>1, <1>2, <1>3, <1>4, <2>1
<1>8. (N + i) \div d = c + b
  <2>1. N + i = d * (c + b) + e
    BY <1>2, <1>3, <1>4
  <2>2. c + b \in Int /\ N + i \in Int
    BY <1>1, <1>3, <1>4
  <2> QED
    BY <1>2, <1>4, <2>1, <2>2, QuotientIsUnique
<1> QED
  BY <1>1, <1>3, <1>4, <1>5, <1>6, <1>7, <1>8 DEF d, e, Node

\* The two halves of a block, and where the blocks and their halves begin.
LEMMA Halves ==
  ASSUME NEW h \in Lens, N % (2 * h) = 0, NEW i \in Coeffs
  PROVE  LET n == Node(i, 2 * h)
             e == i % (2 * h)
         IN /\ n \in 1 .. N - 1 /\ e \in 0 .. 2 * h - 1 /\ e <= i /\ i + (2 * h - e) <= N
            /\ \A j \in Coeffs : (i - e <= j /\ j < i + (2 * h - e)) =>
                 /\ j % (2 * h) = j - (i - e) /\ Node(j, 2 * h) = n
            /\ e < h => i % h = e /\ Node(i, h) = 2 * n
            /\ e >= h => i % h = e - h /\ Node(i, h) = 2 * n + 1
<1>1. h \in Nat /\ h > 0 /\ i \in Nat /\ N \in Nat
  BY PlaceInBlock, Sizes
<1>2. PICK c \in Nat, b \in Nat, e \in Nat :
         /\ N = (2 * h) * c /\ c >= 1 /\ i = (2 * h) * b + e /\ e < 2 * h /\ b < c
         /\ e = i % (2 * h) /\ Node(i, 2 * h) = c + b
  BY PlaceInBlock
<1> DEFINE n == c + b
<1>3. n \in 1 .. N - 1
  <2>1. (2 * h) * c >= 2 * c
    BY <1>1
  <2> QED
    BY <1>1, <1>2, <2>1
<1>4. e \in 0 .. 2 * h - 1 /\ e <= i /\ i + (2 * h - e) <= N
  <2>1. (2 * h) * b >= 0
    BY <1>1
  <2>2. (2 * h) * (b + 1) <= (2 * h) * c
    BY <1>1, <1>2
  <2>3. (2 * h) * (b + 1) = (2 * h) * b + 2 * h
    BY <1>1
  <2>4. PICK k \in Int, l \in Int : k = (2 * h) * b /\ l = (2 * h) * c
    BY <1>1
  <2>5. 0 <= k /\ k + 2 * h <= l /\ N = l /\ i = k + e
    BY <1>2, <2>1, <2>2, <2>3, <2>4
  <2>6. e \in Nat /\ e < 2 * h
    BY <1>2
  <2> QED
    BY <1>1, <2>4, <2>5, <2>6
<1>5. ASSUME NEW j \in Coeffs, i - e <= j, j < i + (2 * h - e)
      PROVE  j % (2 * h) = j - (i - e) /\ Node(j, 2 * h) = n
  <2> DEFINE s == j - (i - e)
  <2>1. s \in Int /\ 0 <= s /\ s < 2 * h /\ j \in Int
    <3>1. j \in Int /\ i \in Int /\ e \in Int /\ h \in Int
      BY <1>1 DEF Coeffs
    <3> QED
      BY <1>5, <3>1
  <2>2. j = (2 * h) * b + s
    <3>1. (2 * h) * b \in Int
      BY <1>1
    <3> QED
      BY <1>1, <1>2, <2>1, <3>1
  <2>3. N + j = (2 * h) * n + s
    <3>1. (2 * h) * n = (2 * h) * c + (2 * h) * b
      BY <1>1
    <3>2. (2 * h) * c \in Int /\ (2 * h) * b \in Int
      BY <1>1
    <3> QED
      BY <1>1, <1>2, <2>1, <2>2, <3>1, <3>2
  <2> HIDE DEF s
  <2>4. 2 * h \in Nat /\ 2 * h > 0 /\ n \in Int /\ N + j \in Int
    BY <1>1, <2>1
  <2> HIDE DEF n
  <2>5. PICK d \in Nat : d = 2 * h
    BY <2>4
  <2>6. /\ d > 0 /\ s \in Int /\ 0 <= s /\ s < d /\ b \in Int
        /\ j = d * b + s /\ N + j = d * n + s
    BY <2>1, <2>2, <2>3, <2>4, <2>5
  <2>7. j % d = s
    BY <2>1, <2>6, QuotientIsUnique
  <2>8. (N + j) \div d = n
    BY <2>4, <2>6, QuotientIsUnique
  <2> QED
    BY <2>5, <2>7, <2>8 DEF Node, s
<1>6. ASSUME e < h PROVE i % h = e /\ Node(i, h) = 2 * n
  <2>1. i = h * (2 * b) + e /\ 2 * b \in Int
    BY <1>1, <1>2
  <2>2. N + i = h * (2 * n) + e /\ 2 * n \in Int /\ N + i \in Int
    BY <1>1, <1>2
  <2>3. PICK k \in Int, m \in Int : k = 2 * b /\ m = 2 * n
    BY <2>1, <2>2
  <2>4. e \in Int /\ 0 <= e /\ i = h * k + e /\ N + i = h * m + e
    BY <2>1, <2>2, <2>3
  <2> HIDE DEF n
  <2>5. i % h = e
    BY <1>1, <1>6, <2>4, QuotientIsUnique
  <2>6. (N + i) \div h = m
    BY <1>1, <1>6, <2>2, <2>4, QuotientIsUnique
  <2> QED
    BY <2>3, <2>5, <2>6 DEF Node
<1>7. ASSUME e >= h PROVE i % h = e - h /\ Node(i, h) = 2 * n + 1
  <2>1. i = h * (2 * b + 1) + (e - h) /\ 2 * b + 1 \in Int
    BY <1>1, <1>2
  <2>2. N + i = h * (2 * n + 1) + (e - h) /\ 2 * n + 1 \in Int /\ N + i \in Int
    <3>1. h * (2 * n + 1) = (2 * h) * c + (2 * h) * b + h
      BY <1>1
    <3>2. (2 * h) * c \in Int /\ (2 * h) * b \in Int /\ n \in Int
      BY <1>1
    <3> HIDE DEF n
    <3> QED
      BY <1>1, <1>2, <3>1, <3>2
  <2>3. PICK k \in Int, m \in Int, s \in Int : k = 2 * b + 1 /\ m = 2 * n + 1 /\ s = e - h
    BY <1>1, <2>1, <2>2
  <2>4. s \in Int /\ 0 <= s /\ s < h /\ i = h * k + s /\ N + i = h * m + s
    BY <1>1, <1>2, <1>7, <2>1, <2>2, <2>3
  <2> HIDE DEF n
  <2>5. i % h = s
    BY <1>1, <2>4, QuotientIsUnique
  <2>6. (N + i) \div h = m
    BY <1>1, <2>2, <2>4, QuotientIsUnique
  <2> QED
    BY <2>3, <2>5, <2>6 DEF Node
<1> QED
  BY <1>2, <1>3, <1>4, <1>5, <1>6, <1>7

-----------------------------------------------------------------------------
(*  A layer, over the integers  *)

\* Polynomials, unreduced.
Polys == [Coeffs -> Int]

\* What a layer of ntt with halves of h makes of the polynomials u.
Layer(u, h) ==
  [i \in Coeffs |-> IF i % (2 * h) < h THEN u[i] + Z(Node(i, 2 * h)) * u[i + h]
                    ELSE u[i - h] - Z(Node(i, 2 * h)) * u[i]]

\* The coefficients of the lower and of the upper half of a block.
LEMMA LayerValue ==
  ASSUME NEW h \in Lens, N % (2 * h) = 0, NEW u \in Polys
  PROVE  /\ Layer(u, h) \in Polys
         /\ \A i \in Coeffs : i % (2 * h) < h =>
              /\ i + h \in Coeffs /\ (i + h) % (2 * h) >= h /\ Node(i + h, 2 * h) = Node(i, 2 * h)
              /\ Z(Node(i, 2 * h)) \in Int
              /\ Layer(u, h)[i] = u[i] + Z(Node(i, 2 * h)) * u[i + h]
              /\ Layer(u, h)[i + h] = u[i] - Z(Node(i, 2 * h)) * u[i + h]
         /\ \A i \in Coeffs : i % (2 * h) >= h =>
              /\ i - h \in Coeffs /\ (i - h) % (2 * h) < h /\ Node(i - h, 2 * h) = Node(i, 2 * h)
              /\ Z(Node(i, 2 * h)) \in Int
              /\ Layer(u, h)[i] = u[i - h] - Z(Node(i, 2 * h)) * u[i]
<1>1. h \in Nat /\ h > 0 /\ N \in Nat
  BY Sizes DEF Lens
<1>2. ASSUME NEW i \in Coeffs, i % (2 * h) < h
      PROVE  /\ i + h \in Coeffs /\ (i + h) % (2 * h) >= h /\ Node(i + h, 2 * h) = Node(i, 2 * h)
             /\ Node(i, 2 * h) \in 1 .. N - 1
  <2> DEFINE e == i % (2 * h)
             n == Node(i, 2 * h)
  <2>1. /\ n \in 1 .. N - 1 /\ e \in 0 .. 2 * h - 1 /\ e <= i /\ i + (2 * h - e) <= N
        /\ \A j \in Coeffs : (i - e <= j /\ j < i + (2 * h - e)) =>
             j % (2 * h) = j - (i - e) /\ Node(j, 2 * h) = n
    BY Halves
  <2>2. i \in Int /\ i >= 0 /\ e < h
    BY <1>2 DEF Coeffs
  <2> HIDE DEF e, n
  <2>3. i + h \in Coeffs /\ i - e <= i + h /\ i + h < i + (2 * h - e)
    BY <1>1, <2>1, <2>2 DEF Coeffs
  <2>4. PICK j \in Coeffs : j = i + h
    BY <2>3
  <2>5. j % (2 * h) = j - (i - e) /\ Node(j, 2 * h) = n
    BY <2>1, <2>3, <2>4
  <2>6. j - (i - e) >= h
    BY <1>1, <2>1, <2>2, <2>4
  <2>7. j \in Coeffs /\ j % (2 * h) >= h /\ Node(j, 2 * h) = Node(i, 2 * h)
    BY <2>5, <2>6 DEF n
  <2> QED
    BY <2>1, <2>4, <2>7 DEF n
<1>3. ASSUME NEW i \in Coeffs, i % (2 * h) >= h
      PROVE  /\ i - h \in Coeffs /\ (i - h) % (2 * h) < h /\ Node(i - h, 2 * h) = Node(i, 2 * h)
             /\ Node(i, 2 * h) \in 1 .. N - 1
  <2> DEFINE e == i % (2 * h)
             n == Node(i, 2 * h)
  <2>1. /\ n \in 1 .. N - 1 /\ e \in 0 .. 2 * h - 1 /\ e <= i /\ i + (2 * h - e) <= N
        /\ \A j \in Coeffs : (i - e <= j /\ j < i + (2 * h - e)) =>
             j % (2 * h) = j - (i - e) /\ Node(j, 2 * h) = n
    BY Halves
  <2>2. i \in Int /\ i >= 0 /\ i < N /\ e >= h
    BY <1>3, <1>1 DEF Coeffs
  <2> HIDE DEF e, n
  <2>3. i - h \in Coeffs /\ i - e <= i - h /\ i - h < i + (2 * h - e) /\ i - h - (i - e) < h
    BY <1>1, <2>1, <2>2 DEF Coeffs
  <2>4. PICK j \in Coeffs : j = i - h
    BY <2>3
  <2>5. j % (2 * h) = j - (i - e) /\ Node(j, 2 * h) = n
    BY <2>1, <2>3, <2>4
  <2> QED
    BY <2>1, <2>3, <2>4, <2>5 DEF n
<1>4. ASSUME NEW i \in Coeffs
      PROVE  /\ Node(i, 2 * h) \in 1 .. N - 1 /\ Z(Node(i, 2 * h)) \in Int
             /\ i % (2 * h) \in Int /\ (i % (2 * h) < h \/ i % (2 * h) >= h)
  <2>1. Node(i, 2 * h) \in 1 .. N - 1 /\ i % (2 * h) \in Int
    BY Halves
  <2> QED
    BY <1>1, <2>1, RootValues
<1>5. ASSUME NEW i \in Coeffs, i % (2 * h) < h
      PROVE  Layer(u, h)[i] = u[i] + Z(Node(i, 2 * h)) * u[i + h]
  BY <1>5 DEF Layer
<1>6. ASSUME NEW i \in Coeffs, i % (2 * h) >= h
      PROVE  Layer(u, h)[i] = u[i - h] - Z(Node(i, 2 * h)) * u[i]
  <2>1. ~(i % (2 * h) < h)
    BY <1>1, <1>4, <1>6
  <2> QED
    BY <2>1 DEF Layer
<1>7. \A i \in Coeffs : u[i] \in Int
  BY DEF Polys
<1>8. ASSUME NEW i \in Coeffs PROVE Layer(u, h)[i] \in Int
  <2>1. CASE i % (2 * h) < h
    BY <1>2, <1>4, <1>5, <1>7, <2>1
  <2>2. CASE i % (2 * h) >= h
    BY <1>3, <1>4, <1>6, <1>7, <2>2
  <2> QED
    BY <1>4, <2>1, <2>2
<1>9. Layer(u, h) \in Polys
  <2>1. Layer(u, h) = [i \in Coeffs |-> Layer(u, h)[i]]
    BY DEF Layer
  <2> QED
    BY <1>8, <2>1 DEF Polys
<1>10. ASSUME NEW i \in Coeffs, i % (2 * h) < h
       PROVE  Layer(u, h)[i + h] = u[i] - Z(Node(i, 2 * h)) * u[i + h]
  <2>1. i + h \in Coeffs /\ (i + h) % (2 * h) >= h /\ Node(i + h, 2 * h) = Node(i, 2 * h)
    BY <1>2, <1>10
  <2>2. PICK j \in Coeffs : j = i + h
    BY <2>1
  <2>3. Layer(u, h)[j] = u[j - h] - Z(Node(j, 2 * h)) * u[j]
    BY <1>6, <2>1, <2>2
  <2>4. j - h = i
    BY <1>1, <2>2 DEF Coeffs
  <2> QED
    BY <2>1, <2>2, <2>3, <2>4
<1> QED
  BY <1>2, <1>3, <1>4, <1>5, <1>6, <1>9, <1>10

\* A layer of a sum is the sum of the layers.
IsSum(u, v, c, w) == \A i \in Coeffs : u[i] = v[i] + c * w[i]

LEMMA LayerOfSum ==
  ASSUME NEW h \in Lens, N % (2 * h) = 0, NEW u \in Polys, NEW v \in Polys, NEW w \in Polys,
         NEW c \in Int, IsSum(u, v, c, w)
  PROVE  IsSum(Layer(u, h), Layer(v, h), c, Layer(w, h))
<1>1. \A i \in Coeffs : u[i] \in Int /\ v[i] \in Int /\ w[i] \in Int
  BY DEF Polys
<1>2. \A i \in Coeffs : u[i] = v[i] + c * w[i]
  BY DEF IsSum
<1> SUFFICES ASSUME NEW i \in Coeffs
             PROVE  Layer(u, h)[i] = Layer(v, h)[i] + c * Layer(w, h)[i]
  BY DEF IsSum
<1>3. PICK z : z = Z(Node(i, 2 * h))
  OBVIOUS
<1>4. i % (2 * h) < h \/ i % (2 * h) >= h
  <2>1. h \in Int /\ i % (2 * h) \in Int
    BY Halves DEF Lens
  <2> QED
    BY <2>1
<1>5. CASE i % (2 * h) < h
  <2>1. PICK j \in Coeffs : j = i + h
    BY <1>5, LayerValue
  <2>2. /\ z \in Int /\ Layer(u, h)[i] = u[i] + z * u[j] /\ Layer(v, h)[i] = v[i] + z * v[j]
        /\ Layer(w, h)[i] = w[i] + z * w[j]
    BY <1>3, <1>5, <2>1, LayerValue
  <2>3. u[i] = v[i] + c * w[i] /\ u[j] = v[j] + c * w[j]
    BY <1>2
  <2> QED
    BY <1>1, <2>2, <2>3
<1>6. CASE i % (2 * h) >= h
  <2>1. PICK j \in Coeffs : j = i - h
    BY <1>6, LayerValue
  <2>2. /\ z \in Int /\ Layer(u, h)[i] = u[j] - z * u[i] /\ Layer(v, h)[i] = v[j] - z * v[i]
        /\ Layer(w, h)[i] = w[j] - z * w[i]
    BY <1>3, <1>6, <2>1, LayerValue
  <2>3. u[i] = v[i] + c * w[i] /\ u[j] = v[j] + c * w[j]
    BY <1>2
  <2> QED
    BY <1>1, <2>2, <2>3
<1> QED
  BY <1>4, <1>5, <1>6

\* The polynomial 1, modulo all that x^N + 1 is taken apart into.
IsOne(u, l) == \A i \in Coeffs : u[i] = IF i % l = 0 THEN 1 ELSE 0

\* A layer makes 1 of 1.
LEMMA LayerOfOne ==
  ASSUME NEW h \in Lens, N % (2 * h) = 0, NEW u \in Polys, IsOne(u, 2 * h)
  PROVE  IsOne(Layer(u, h), h)
<1>0. h \in Nat /\ h > 0
  BY DEF Lens
<1> SUFFICES ASSUME NEW i \in Coeffs
             PROVE  Layer(u, h)[i] = IF i % h = 0 THEN 1 ELSE 0
  BY DEF IsOne
<1> DEFINE e == i % (2 * h)
<1>1. /\ e \in 0 .. 2 * h - 1
      /\ e < h => i % h = e
      /\ e >= h => i % h = e - h
  BY Halves
<1>2. \A j \in Coeffs : u[j] = IF j % (2 * h) = 0 THEN 1 ELSE 0
  BY DEF IsOne
<1>3. PICK z : z = Z(Node(i, 2 * h))
  OBVIOUS
<1>4. CASE e < h
  <2>1. PICK j \in Coeffs : j = i + h /\ j % (2 * h) >= h
    BY <1>4, LayerValue
  <2>2. z \in Int /\ Layer(u, h)[i] = u[i] + z * u[j]
    BY <1>3, <1>4, <2>1, LayerValue
  <2>3. u[j] = 0
    BY <1>0, <1>2, <2>1
  <2>4. u[i] = IF e = 0 THEN 1 ELSE 0
    BY <1>2
  <2> HIDE DEF e
  <2> QED
    BY <1>1, <1>4, <2>2, <2>3, <2>4
<1>5. CASE e >= h
  <2>1. PICK j \in Coeffs : j = i - h
    BY <1>5, LayerValue
  <2>2. z \in Int /\ Layer(u, h)[i] = u[j] - z * u[i]
    BY <1>3, <1>5, <2>1, LayerValue
  <2>3. u[i] = 0
    BY <1>0, <1>2, <1>5
  <2>4. j % (2 * h) = e - h
    <3>1. \A k \in Coeffs : (i - e <= k /\ k < i + (2 * h - e)) => k % (2 * h) = k - (i - e)
      BY Halves
    <3>2. i - e <= j /\ j < i + (2 * h - e) /\ j - (i - e) = e - h
      <4>1. i \in Int /\ e \in Int
        BY <1>1 DEF Coeffs
      <4> HIDE DEF e
      <4> QED
        BY <1>0, <1>1, <1>5, <2>1, <4>1
    <3> QED
      BY <3>1, <3>2
  <2>5. u[j] = IF e - h = 0 THEN 1 ELSE 0
    BY <1>2, <2>4
  <2> HIDE DEF e
  <2> QED
    BY <1>1, <1>5, <2>2, <2>3, <2>5
<1> QED
  <2> HIDE DEF e
  <2> QED
    BY <1>0, <1>1, <1>4, <1>5

\* A butterfly keeps congruence.
LEMMA ButterflyCongruent ==
  ASSUME NEW z, NEW x, NEW y, NEW u, NEW v,
         z \in Int, x \in Int, y \in Int, u \in Int, v \in Int, Congruent(x, u), Congruent(y, v)
  PROVE  Congruent(x + z * y, u + z * v) /\ Congruent(x - z * y, u - z * v)
<1>1. Congruent(z * y, z * v)
  BY CongruentTimes
<1>2. z * y \in Int /\ z * v \in Int
  OBVIOUS
<1> QED
  BY <1>1, <1>2, CongruentCombines

\* A butterfly on x times the root of g, and y.
LEMMA TwistedButterfly ==
  ASSUME NEW z, NEW g, NEW x, NEW y, NEW u, NEW v,
         z \in Int, g \in Int, x \in Int, y \in Int, u \in Int, v \in Int,
         Congruent(z * z, g), Congruent(u, g * x), Congruent(v, y)
  PROVE  Congruent(u + z * v, z * (y + z * x)) /\ Congruent(u - z * v, (-z) * (y - z * x))
<1>1. z * z \in Int /\ g * x \in Int /\ (z * z) * x \in Int
  OBVIOUS
<1>2. Congruent(g, z * z)
  BY <1>1, CongruentEquivalence
<1>3. Congruent(g * x, (z * z) * x)
  BY <1>1, <1>2, CongruentTimes
<1>4. Congruent(u, (z * z) * x)
  BY <1>1, <1>3, CongruentThrough
<1>5. PICK t \in Int : t = (z * z) * x
  BY <1>1
<1>6. Congruent(u + z * v, t + z * y) /\ Congruent(u - z * v, t - z * y)
  BY <1>4, <1>5, ButterflyCongruent
<1>7. t + z * y = z * (y + z * x) /\ t - z * y = (-z) * (y - z * x)
  BY <1>5
<1> QED
  BY <1>6, <1>7

\* u is w times x, modulo what l coefficients stand for in each block.
IsShift(u, w, l) ==
  \A i \in Coeffs : /\ i % l # 0 => Congruent(u[i], w[i - 1])
                    /\ i % l = 0 => Congruent(u[i], Gamma(Node(i, l)) * w[i + l - 1])

\* A layer commutes with the multiplication by x.
LEMMA LayerOfShift ==
  ASSUME NEW h \in Lens, N % (2 * h) = 0, NEW u \in Polys, NEW w \in Polys, IsShift(u, w, 2 * h)
  PROVE  IsShift(Layer(u, h), Layer(w, h), h)
<1>0. h \in Nat /\ h > 0 /\ N \in Nat
  BY Sizes DEF Lens
<1> SUFFICES ASSUME NEW i \in Coeffs
             PROVE  /\ i % h # 0 => Congruent(Layer(u, h)[i], Layer(w, h)[i - 1])
                    /\ i % h = 0 =>
                         Congruent(Layer(u, h)[i], Gamma(Node(i, h)) * Layer(w, h)[i + h - 1])
  BY DEF IsShift
<1> DEFINE e == i % (2 * h)
           n == Node(i, 2 * h)
<1>1. /\ n \in 1 .. N - 1 /\ e \in 0 .. 2 * h - 1 /\ e <= i /\ i + (2 * h - e) <= N
      /\ \A j \in Coeffs : (i - e <= j /\ j < i + (2 * h - e)) =>
           j % (2 * h) = j - (i - e) /\ Node(j, 2 * h) = n
      /\ e < h => i % h = e /\ Node(i, h) = 2 * n
      /\ e >= h => i % h = e - h /\ Node(i, h) = 2 * n + 1
  BY Halves
<1>2. \A j \in Coeffs : u[j] \in Int /\ w[j] \in Int
  BY DEF Polys
<1>3. \A j \in Coeffs : /\ j % (2 * h) # 0 => Congruent(u[j], w[j - 1])
                        /\ j % (2 * h) = 0 => Congruent(u[j], Gamma(Node(j, 2 * h)) * w[j + 2 * h - 1])
  BY DEF IsShift
<1>4. PICK z \in Int, g \in Int : z = Z(n) /\ g = Gamma(n) /\ Congruent(z * z, g)
  BY <1>1, RootValues
<1>5. \A j \in Coeffs : j >= 0 /\ j < N /\ j \in Int
  BY <1>0 DEF Coeffs
<1>6. /\ Gamma(2 * n) = z /\ Gamma(2 * n + 1) = -z
  <2> HIDE DEF n
  <2>1. 2 * n # 1 /\ (2 * n) % 2 = 0 /\ (2 * n) \div 2 = n
    BY <1>1
  <2>2. 2 * n + 1 # 1 /\ (2 * n + 1) % 2 # 0 /\ (2 * n + 1) \div 2 = n
    BY <1>1
  <2> QED
    BY <1>4, <2>1, <2>2 DEF Gamma
<1>7. \A j \in Coeffs : (i - e <= j /\ j < i + (2 * h - e)) =>
        /\ j - (i - e) < h => \A k \in Coeffs : k = j + h =>
             Layer(u, h)[j] = u[j] + z * u[k] /\ Layer(w, h)[j] = w[j] + z * w[k]
        /\ j - (i - e) >= h => \A k \in Coeffs : k = j - h =>
             Layer(u, h)[j] = u[k] - z * u[j] /\ Layer(w, h)[j] = w[k] - z * w[j]
  <2> HIDE DEF e, n
  <2> SUFFICES ASSUME NEW j \in Coeffs, i - e <= j, j < i + (2 * h - e)
               PROVE  /\ j - (i - e) < h => \A k \in Coeffs : k = j + h =>
                           Layer(u, h)[j] = u[j] + z * u[k] /\ Layer(w, h)[j] = w[j] + z * w[k]
                      /\ j - (i - e) >= h => \A k \in Coeffs : k = j - h =>
                           Layer(u, h)[j] = u[k] - z * u[j] /\ Layer(w, h)[j] = w[k] - z * w[j]
    OBVIOUS
  <2>1. j % (2 * h) = j - (i - e) /\ Node(j, 2 * h) = n
    BY <1>1
  <2> QED
    BY <1>4, <2>1, LayerValue
<1>8. CASE e < h /\ e # 0
  <2> HIDE DEF e, n
  <2>1. PICK j \in Coeffs, k \in Coeffs, m \in Coeffs :
          /\ j = i - 1 /\ k = i + h /\ m = j + h /\ m = k - 1
    <3>1. i - 1 \in Coeffs /\ i + h \in Coeffs /\ i - 1 + h \in Coeffs
      BY <1>0, <1>1, <1>5, <1>8 DEF Coeffs
    <3>2. i - 1 + h = i + h - 1
      BY <1>0, <1>5
    <3> QED
      BY <1>0, <1>5, <3>1, <3>2
  <2>2. Layer(u, h)[i] = u[i] + z * u[k]
    BY <1>0, <1>1, <1>5, <1>7, <1>8, <2>1
  <2>3. Layer(w, h)[j] = w[j] + z * w[m]
    BY <1>0, <1>1, <1>5, <1>7, <1>8, <2>1
  <2>4. Congruent(u[i], w[j])
    BY <1>3, <1>8, <2>1 DEF e
  <2>5. Congruent(u[k], w[m])
    <3>1. k % (2 * h) = k - (i - e)
      BY <1>0, <1>1, <1>5, <1>8, <2>1
    <3>2. k % (2 * h) # 0
      BY <1>0, <1>1, <1>5, <1>8, <2>1, <3>1
    <3> QED
      BY <1>3, <2>1, <3>2
  <2>6. Congruent(Layer(u, h)[i], Layer(w, h)[j])
    BY <1>2, <2>2, <2>3, <2>4, <2>5, ButterflyCongruent
  <2> QED
    BY <1>1, <1>8, <2>1, <2>6
<1>9. CASE e = 0
  <2> HIDE DEF e, n
  <2>1. PICK k \in Coeffs, j \in Coeffs, m \in Coeffs :
          /\ k = i + h /\ j = i + h - 1 /\ m = i + 2 * h - 1 /\ j = k - 1 /\ m = j + h
    <3>1. i + h \in Coeffs /\ i + h - 1 \in Coeffs /\ i + 2 * h - 1 \in Coeffs
      BY <1>0, <1>1, <1>5, <1>9 DEF Coeffs
    <3> QED
      BY <1>0, <1>5, <3>1
  <2>2. Layer(u, h)[i] = u[i] + z * u[k]
    BY <1>0, <1>1, <1>5, <1>7, <1>9, <2>1
  <2>3. Layer(w, h)[j] = w[j] + z * w[m]
    BY <1>0, <1>1, <1>5, <1>7, <1>9, <2>1
  <2>4. Congruent(u[i], g * w[m])
    BY <1>3, <1>4, <1>9, <2>1 DEF e, n
  <2>5. Congruent(u[k], w[j])
    <3>1. k % (2 * h) = k - (i - e)
      BY <1>0, <1>1, <1>5, <1>9, <2>1
    <3>2. k % (2 * h) # 0
      BY <1>0, <1>1, <1>5, <1>9, <2>1, <3>1
    <3> QED
      BY <1>3, <2>1, <3>2
  <2>6. Congruent(Layer(u, h)[i], z * Layer(w, h)[j])
    BY <1>2, <1>4, <2>2, <2>3, <2>4, <2>5, TwistedButterfly
  <2> QED
    BY <1>0, <1>1, <1>6, <1>9, <2>1, <2>6
<1>10. CASE e = h
  <2> HIDE DEF e, n
  <2>1. PICK k \in Coeffs, j \in Coeffs, m \in Coeffs :
          /\ k = i - h /\ j = i - 1 /\ m = i + h - 1 /\ j = m - h /\ m = k + 2 * h - 1
    <3>1. i - h \in Coeffs /\ i - 1 \in Coeffs /\ i + h - 1 \in Coeffs
      BY <1>0, <1>1, <1>5, <1>10 DEF Coeffs
    <3> QED
      BY <1>0, <1>5, <3>1
  <2>2. Layer(u, h)[i] = u[k] - z * u[i]
    BY <1>0, <1>1, <1>5, <1>7, <1>10, <2>1
  <2>3. Layer(w, h)[m] = w[j] - z * w[m]
    BY <1>0, <1>1, <1>5, <1>7, <1>10, <2>1
  <2>4. Congruent(u[i], w[j])
    BY <1>0, <1>3, <1>10, <2>1 DEF e
  <2>5. Congruent(u[k], g * w[m])
    <3>1. k % (2 * h) = k - (i - e) /\ Node(k, 2 * h) = n
      BY <1>0, <1>1, <1>5, <1>10, <2>1
    <3>2. k % (2 * h) = 0
      BY <1>0, <1>1, <1>5, <1>10, <2>1, <3>1
    <3> QED
      BY <1>3, <1>4, <2>1, <3>1, <3>2
  <2>6. Congruent(Layer(u, h)[i], (-z) * Layer(w, h)[m])
    BY <1>2, <1>4, <2>2, <2>3, <2>4, <2>5, TwistedButterfly
  <2>7. i % h = 0 /\ Node(i, h) = 2 * n + 1
    BY <1>0, <1>1, <1>10
  <2> QED
    BY <1>6, <2>1, <2>6, <2>7
<1>11. CASE e > h
  <2> HIDE DEF e, n
  <2>1. PICK j \in Coeffs, k \in Coeffs, m \in Coeffs :
          /\ j = i - 1 /\ k = i - h /\ m = j - h /\ m = k - 1
    <3>1. i - 1 \in Coeffs /\ i - h \in Coeffs /\ i - 1 - h \in Coeffs
      BY <1>0, <1>1, <1>5, <1>11 DEF Coeffs
    <3>2. i - 1 - h = i - h - 1
      BY <1>0, <1>5
    <3> QED
      BY <1>0, <1>5, <3>1, <3>2
  <2>2. Layer(u, h)[i] = u[k] - z * u[i]
    BY <1>0, <1>1, <1>5, <1>7, <1>11, <2>1
  <2>3. Layer(w, h)[j] = w[m] - z * w[j]
    BY <1>0, <1>1, <1>5, <1>7, <1>11, <2>1
  <2>4. Congruent(u[i], w[j])
    BY <1>0, <1>1, <1>3, <1>11, <2>1 DEF e
  <2>5. Congruent(u[k], w[m])
    <3>1. k % (2 * h) = k - (i - e)
      BY <1>0, <1>1, <1>5, <1>11, <2>1
    <3>2. k % (2 * h) # 0
      BY <1>0, <1>1, <1>5, <1>11, <2>1, <3>1
    <3> QED
      BY <1>3, <2>1, <3>2
  <2>6. Congruent(Layer(u, h)[i], Layer(w, h)[j])
    BY <1>2, <2>2, <2>3, <2>4, <2>5, ButterflyCongruent
  <2> QED
    BY <1>0, <1>1, <1>11, <2>1, <2>6
<1> QED
  <2> HIDE DEF e, n
  <2> QED
    BY <1>0, <1>1, <1>8, <1>9, <1>10, <1>11

-----------------------------------------------------------------------------
(*  All layers  *)

\* The layers of ntt from the first to that with halves of l.
Down(u, h) == IF 2 * h > N THEN u ELSE Layer(u, h)
To128(u) == Down(u, 128)
To64(u) == Down(To128(u), 64)
To32(u) == Down(To64(u), 32)
To16(u) == Down(To32(u), 16)
To8(u) == Down(To16(u), 8)
To4(u) == Down(To8(u), 4)
To2(u) == Down(To4(u), 2)
Value(u, l) ==
  IF l = 1 THEN Down(To2(u), 1) ELSE IF l = 2 THEN To2(u) ELSE IF l = 4 THEN To4(u)
  ELSE IF l = 8 THEN To8(u) ELSE IF l = 16 THEN To16(u) ELSE IF l = 32 THEN To32(u)
  ELSE IF l = 64 THEN To64(u) ELSE IF l = 128 THEN To128(u) ELSE u

\* The layers follow each other as in the loop of ntt.
LEMMA ValueLayer ==
  ASSUME NEW u
  PROVE  /\ Value(u, N) = u
         /\ \A h \in Lens : N % (2 * h) = 0 => Value(u, h) = Layer(Value(u, 2 * h), h)
<1>1. N \in {2, 4, 8, 16, 32, 64, 128, 256}
  BY NttAssumption
<1>2. /\ 256 > N => To128(u) = u
      /\ 128 > N => To64(u) = u
      /\ 64 > N => To32(u) = u
      /\ 32 > N => To16(u) = u
      /\ 16 > N => To8(u) = u
      /\ 8 > N => To4(u) = u
      /\ 4 > N => To2(u) = u
  BY <1>1 DEF Down, To128, To64, To32, To16, To8, To4, To2
<1>3. Value(u, N) = u
  BY <1>1, <1>2 DEF Value
<1>4. ASSUME NEW h \in Lens, N % (2 * h) = 0
      PROVE  Value(u, h) = Layer(Value(u, 2 * h), h)
  <2>1. 2 * h <= N
    BY <1>4, Blocks
  <2>2. CASE h \in {1, 2, 4, 8}
    BY <2>1, <2>2, <1>1 DEF Value, Down, To2, To4, To8
  <2>3. CASE h \in {16, 32, 64, 128}
    BY <2>1, <2>3, <1>1 DEF Value, Down, To128, To64, To32, To16
  <2> QED
    BY <2>2, <2>3 DEF Lens
<1> QED
  BY <1>3, <1>4

\* Induction over the layers of ntt.
LEMMA LayerInduction ==
  ASSUME NEW G, N \in G, \A h \in Lens : N % (2 * h) = 0 /\ 2 * h \in G => h \in G
  PROVE  \A l \in Lens : N % (2 * l) = 0 => l \in G /\ 2 * l \in G
<1>1. N \in {2, 4, 8, 16, 32, 64, 128, 256}
  BY NttAssumption
<1> QED
  BY <1>1 DEF Lens

\* The last layer is one.
LEMMA LastLayer ==
  1 \in Lens /\ N % (2 * 1) = 0
BY Sizes DEF Lens

\* All layers give integers.
LEMMA ValuePoly ==
  ASSUME NEW u \in Polys
  PROVE  \A l \in Lens : N % (2 * l) = 0 => Value(u, l) \in Polys /\ Value(u, 2 * l) \in Polys
<1> DEFINE G == {l \in Nat : Value(u, l) \in Polys}
<1>1. N \in G
  BY ValueLayer, Sizes
<1>2. ASSUME NEW h \in Lens, N % (2 * h) = 0, 2 * h \in G PROVE h \in G
  BY <1>2, ValueLayer, LayerValue DEF Lens
<1> HIDE DEF G
<1>3. \A l \in Lens : N % (2 * l) = 0 => l \in G /\ 2 * l \in G
  BY <1>1, <1>2, LayerInduction
<1> QED
  BY <1>3 DEF G

\* The value of a sum is the sum of the values.
LEMMA ValueOfSum ==
  ASSUME NEW u \in Polys, NEW v \in Polys, NEW w \in Polys, NEW c \in Int, IsSum(u, v, c, w)
  PROVE  IsSum(Value(u, 1), Value(v, 1), c, Value(w, 1))
<1> DEFINE G == {l \in Nat : IsSum(Value(u, l), Value(v, l), c, Value(w, l))}
<1>1. N \in G
  BY ValueLayer, Sizes
<1>2. ASSUME NEW h \in Lens, N % (2 * h) = 0, 2 * h \in G PROVE h \in G
  <2>1. /\ Value(u, 2 * h) \in Polys /\ Value(v, 2 * h) \in Polys /\ Value(w, 2 * h) \in Polys
        /\ IsSum(Value(u, 2 * h), Value(v, 2 * h), c, Value(w, 2 * h))
    BY <1>2, ValuePoly
  <2> QED
    BY <1>2, <2>1, ValueLayer, LayerOfSum DEF Lens
<1> HIDE DEF G
<1>3. 1 \in G
  BY <1>1, <1>2, LayerInduction, LastLayer
<1> QED
  BY <1>3 DEF G

\* The value of 1 is 1 everywhere.
LEMMA ValueOfOne ==
  ASSUME NEW u \in Polys, IsOne(u, N)
  PROVE  \A i \in Coeffs : Value(u, 1)[i] = 1
<1> DEFINE G == {l \in Nat : IsOne(Value(u, l), l)}
<1>1. N \in G
  BY ValueLayer, Sizes
<1>2. ASSUME NEW h \in Lens, N % (2 * h) = 0, 2 * h \in G PROVE h \in G
  <2>1. Value(u, 2 * h) \in Polys /\ IsOne(Value(u, 2 * h), 2 * h)
    BY <1>2, ValuePoly
  <2> QED
    BY <1>2, <2>1, ValueLayer, LayerOfOne DEF Lens
<1> HIDE DEF G
<1>3. 1 \in G
  BY <1>1, <1>2, LayerInduction, LastLayer
<1>4. IsOne(Value(u, 1), 1)
  BY <1>3 DEF G
<1>5. \A i \in Coeffs : i % 1 = 0
  BY DEF Coeffs
<1> QED
  BY <1>4, <1>5 DEF IsOne

\* After the last layer x is a number at each place.
LEMMA ValueOfShift ==
  ASSUME NEW u \in Polys, NEW w \in Polys, IsShift(u, w, N), NEW i \in Coeffs
  PROVE  Gamma(N + i) \in Int /\ Congruent(Value(u, 1)[i], Gamma(N + i) * Value(w, 1)[i])
<1> DEFINE G == {l \in Nat : IsShift(Value(u, l), Value(w, l), l)}
<1>1. N \in G
  BY ValueLayer, Sizes
<1>2. ASSUME NEW h \in Lens, N % (2 * h) = 0, 2 * h \in G PROVE h \in G
  <2>1. /\ Value(u, 2 * h) \in Polys /\ Value(w, 2 * h) \in Polys
        /\ IsShift(Value(u, 2 * h), Value(w, 2 * h), 2 * h)
    BY <1>2, ValuePoly
  <2> QED
    BY <1>2, <2>1, ValueLayer, LayerOfShift DEF Lens
<1> HIDE DEF G
<1>3. 1 \in G
  BY <1>1, <1>2, LayerInduction, LastLayer
<1>4. IsShift(Value(u, 1), Value(w, 1), 1)
  BY <1>3 DEF G
<1>5. i % 1 = 0 /\ Node(i, 1) = N + i /\ i + 1 - 1 = i
  BY Sizes DEF Coeffs, Node
<1>6. Congruent(Value(u, 1)[i], Gamma(N + i) * Value(w, 1)[i])
  BY <1>4, <1>5 DEF IsShift
<1>7. Gamma(N + i) \in Int
  <2> DEFINE k == (N + i) \div 2
  <2>1. N % 2 = 0 /\ N >= 2
    BY Sizes
  <2>2. k \in 1 .. N - 1 /\ N + i # 1
    BY <2>1, Sizes DEF Coeffs
  <2>3. Z(k) \in Int
    BY <2>2, RootValues
  <2> HIDE DEF k
  <2> QED
    BY <2>2, <2>3 DEF Gamma, k
<1> QED
  BY <1>6, <1>7

-----------------------------------------------------------------------------
(*  Recursion on an interval  *)

\* Induction over a set of naturals.
LEMMA SetInduction ==
  ASSUME NEW T, T \subseteq Nat, 0 \in T, \A m \in T : m + 1 \in T
  PROVE  Nat \subseteq T
<1> DEFINE U == Nat \ T
           Order == OpToRel(<, Nat)
<1>1. SUFFICES ASSUME U # {} PROVE FALSE
  OBVIOUS
<1>2. IsWellFoundedOn(Order, Nat)
  BY NatLessThanWellFounded, Zenon
<1>3. PICK x \in U : \A y \in U : ~(<<y, x>> \in Order)
  <2> HIDE DEF Order
  <2> QED
    BY <1>1, <1>2, WFMin, Zenon
<1>4. x # 0 /\ x \in Nat /\ x - 1 \in Nat
  OBVIOUS
<1>5. x - 1 \in U
  BY <1>4
<1>6. <<x - 1, x>> \in Order
  BY <1>4 DEF OpToRel
<1> QED
  BY <1>3, <1>5, <1>6

\* Induction up to a bound.
LEMMA UptoInduction ==
  ASSUME NEW m \in Nat, NEW Good, 0 \in Good,
         \A k \in 0 .. m - 1 : k \in Good => k + 1 \in Good
  PROVE  \A k \in 0 .. m : k \in Good
<1> DEFINE T == {k \in Nat : k <= m => k \in Good}
<1>1. 0 \in T /\ T \subseteq Nat
  OBVIOUS
<1>2. ASSUME NEW k \in T PROVE k + 1 \in T
  OBVIOUS
<1>3. Nat \subseteq T
  <2> HIDE DEF T
  <2> QED
    BY <1>1, <1>2, SetInduction
<1> QED
  BY <1>3

\* A recursion on 0 .. m.
IsChain(f, m, S, base, rule) ==
  /\ f \in [0 .. m -> S]
  /\ f = [i \in 0 .. m |-> IF i = 0 THEN base ELSE rule[<<i, f[i - 1]>>]]

\* There is a function for every recursion on 0 .. m.
LEMMA ChainExists ==
  ASSUME NEW m \in Nat, NEW S, NEW base \in S, NEW rule \in [(0 .. m) \X S -> S]
  PROVE  \E f : IsChain(f, m, S, base, rule)
<1> DEFINE Upto(f, k) == /\ f \in [0 .. k -> S] /\ f[0] = base
                         /\ \A i \in 1 .. k : f[i] = rule[<<i, f[i - 1]>>]
           T == {k \in Nat : k <= m => \E f : Upto(f, k)}
<1>1. 0 \in T /\ T \subseteq Nat
  <2>1. Upto([i \in 0 .. 0 |-> base], 0)
    OBVIOUS
  <2> QED
    BY <2>1
<1>2. ASSUME NEW k \in T PROVE k + 1 \in T
  <2> SUFFICES ASSUME k + 1 <= m PROVE \E f : Upto(f, k + 1)
    OBVIOUS
  <2>1. PICK f : Upto(f, k)
    OBVIOUS
  <2> DEFINE v == rule[<<k + 1, f[k]>>]
             g == [i \in 0 .. k + 1 |-> IF i <= k THEN f[i] ELSE v]
  <2>2. v \in S
    BY <2>1
  <2>3. g \in [0 .. k + 1 -> S] /\ g[0] = base
    BY <2>1, <2>2
  <2>4. ASSUME NEW i \in 1 .. k + 1 PROVE g[i] = rule[<<i, g[i - 1]>>]
    <3>1. CASE i <= k
      <4>1. g[i] = f[i] /\ g[i - 1] = f[i - 1] /\ i \in 1 .. k
        BY <3>1
      <4> QED
        BY <2>1, <4>1
    <3>2. CASE i = k + 1
      <4>1. g[i] = v /\ g[i - 1] = f[k]
        BY <3>2
      <4> QED
        BY <3>2, <4>1
    <3> QED
      BY <3>1, <3>2
  <2> QED
    BY <2>3, <2>4
<1>3. m \in T
  <2> HIDE DEF T
  <2> QED
    BY <1>1, <1>2, SetInduction
<1>4. PICK f : Upto(f, m)
  BY <1>3
<1>5. ASSUME NEW i \in 0 .. m PROVE f[i] = IF i = 0 THEN base ELSE rule[<<i, f[i - 1]>>]
  BY <1>4
<1> QED
  BY <1>4, <1>5 DEF IsChain

-----------------------------------------------------------------------------
(*  The product, as a sum  *)

\* y times x^m modulo x^N + 1.
Turned(y, m) == [i \in Coeffs |-> IF m <= i THEN y[i - m] ELSE -y[N + i - m]]

\* Turned polynomials are polynomials.
LEMMA TurnedPoly ==
  ASSUME NEW y \in Polys, NEW m \in 0 .. N - 1
  PROVE  /\ Turned(y, m) \in Polys
         /\ \A i \in Coeffs : Turned(y, m)[i] = IF m <= i THEN y[i - m] ELSE -y[N + i - m]
<1>1. \A j \in Coeffs : y[j] \in Int
  BY DEF Polys
<1>2. ASSUME NEW i \in Coeffs PROVE (IF m <= i THEN y[i - m] ELSE -y[N + i - m]) \in Int
  <2>1. m <= i => i - m \in Coeffs
    BY Sizes DEF Coeffs
  <2>2. ~(m <= i) => N + i - m \in Coeffs
    BY Sizes DEF Coeffs
  <2> QED
    BY <1>1, <2>1, <2>2
<1> QED
  BY <1>2 DEF Turned, Polys

\* The sums of Product are partial products, and the last of them is the product.
LEMMA PartialProducts ==
  ASSUME NEW x \in Polys, NEW y \in Polys
  PROVE  \E p \in [0 .. N -> Polys] :
           /\ \A i \in Coeffs : p[0][i] = 0
           /\ \A n \in 0 .. N - 1 : IsSum(p[n + 1], p[n], x[n], Turned(y, n))
           /\ \A i \in Coeffs : p[N][i] = Product(x, y, i)
<1>0. N \in Nat /\ N > 0
  BY Sizes
<1>1. /\ \A i \in Coeffs : x[i] \in Int
      /\ \A n \in 0 .. N - 1, i \in Coeffs : Turned(y, n)[i] \in Int
  <2>1. \A i \in Coeffs : x[i] \in Int
    BY DEF Polys
  <2>2. ASSUME NEW n \in 0 .. N - 1, NEW i \in Coeffs PROVE Turned(y, n)[i] \in Int
    <3>1. Turned(y, n) \in [Coeffs -> Int]
      BY TurnedPoly DEF Polys
    <3> QED
      BY <3>1
  <2> QED
    BY <2>1, <2>2
<1> DEFINE Entry(s, i, n) ==
             IF n = 0 THEN 0
             ELSE LET m == n - 1 IN
                  IF m <= i THEN s[n - 1] + x[m] * y[i - m] ELSE s[n - 1] - x[m] * y[N + i - m]
           Whole(s, i) == [n \in 0 .. N |-> Entry(s, i, n)]
           Sums(i) == CHOOSE s : s = Whole(s, i)
<1>2. ASSUME NEW i \in Coeffs
      PROVE  /\ Product(x, y, i) = Sums(i)[N]
             /\ Sums(i) \in [0 .. N -> Int] /\ Sums(i)[0] = 0
             /\ \A n \in 0 .. N - 1 : Sums(i)[n + 1] = Sums(i)[n] + x[n] * Turned(y, n)[i]
  <2>1. Product(x, y, i) = Sums(i)[N]
    BY DEF Product
  <2> DEFINE rule == [v \in (0 .. N) \X Int |->
                        IF v[1] = 0 THEN 0 ELSE v[2] + x[v[1] - 1] * Turned(y, v[1] - 1)[i]]
  <2>2. rule \in [(0 .. N) \X Int -> Int] /\ 0 \in Int
    <3>1. ASSUME NEW v \in (0 .. N) \X Int
          PROVE  (IF v[1] = 0 THEN 0 ELSE v[2] + x[v[1] - 1] * Turned(y, v[1] - 1)[i]) \in Int
      <4>1. v[1] \in 0 .. N /\ v[2] \in Int
        OBVIOUS
      <4>2. v[1] # 0 => v[1] - 1 \in 0 .. N - 1 /\ v[1] - 1 \in Coeffs
        BY <1>0, <4>1 DEF Coeffs
      <4> QED
        BY <1>1, <4>1, <4>2
    <3> QED
      BY <3>1
  <2>3. PICK f : IsChain(f, N, Int, 0, rule)
    <3> HIDE DEF rule
    <3> QED
      BY <1>0, <2>2, ChainExists, Zenon
  <2>4. f \in [0 .. N -> Int]
    BY <2>3 DEF IsChain
  <2>5. f[0] = 0 /\ \A n \in 0 .. N - 1 : f[n + 1] = f[n] + x[n] * Turned(y, n)[i]
    <3>1. \A n \in 0 .. N : f[n] = IF n = 0 THEN 0 ELSE rule[<<n, f[n - 1]>>]
      <4> HIDE DEF rule
      <4> QED
        BY <2>3 DEF IsChain
    <3>2. f[0] = 0
      <4> HIDE DEF rule
      <4>1. 0 \in 0 .. N
        BY <1>0
      <4> QED
        BY <3>1, <4>1, Zenon
    <3>3. ASSUME NEW n \in 0 .. N - 1 PROVE f[n + 1] = f[n] + x[n] * Turned(y, n)[i]
      <4>1. n + 1 \in 0 .. N /\ n + 1 # 0 /\ n + 1 - 1 = n
        BY <1>0
      <4>2. f[n + 1] = rule[<<n + 1, f[n]>>]
        <5> HIDE DEF rule
        <5> QED
          BY <3>1, <4>1
      <4>3. n + 1 \in 0 .. N /\ f[n] \in Int
        BY <1>0, <2>4
      <4>4. rule[<<n + 1, f[n]>>] = f[n] + x[n] * Turned(y, n)[i]
        BY <4>1, <4>3
      <4> HIDE DEF rule
      <4> QED
        BY <4>2, <4>4
    <3> HIDE DEF rule
    <3> QED
      BY <3>2, <3>3
  <2>6. ASSUME NEW s, NEW n \in 1 .. N
        PROVE  Entry(s, i, n) = IF n - 1 <= i THEN s[n - 1] + x[n - 1] * y[i - (n - 1)]
                                ELSE s[n - 1] - x[n - 1] * y[N + i - (n - 1)]
    BY <1>0
  <2>7. ASSUME NEW s, NEW n \in 0 .. N - 1, s[n] \in Int
        PROVE  Entry(s, i, n + 1) = s[n] + x[n] * Turned(y, n)[i]
    <3>1. PICK k \in 1 .. N : k = n + 1 /\ k - 1 = n
      BY <1>0
    <3> HIDE DEF Entry
    <3>2. Entry(s, i, n + 1) = IF n <= i THEN s[n] + x[n] * y[i - n]
                               ELSE s[n] - x[n] * y[N + i - n]
      <4>1. Entry(s, i, k) = IF k - 1 <= i THEN s[k - 1] + x[k - 1] * y[i - (k - 1)]
                             ELSE s[k - 1] - x[k - 1] * y[N + i - (k - 1)]
        BY <2>6, Zenon
      <4> QED
        BY <3>1, <4>1, Zenon
    <3>3. Turned(y, n)[i] = IF n <= i THEN y[i - n] ELSE -y[N + i - n]
      BY TurnedPoly
    <3>4. n \in Coeffs /\ x[n] \in Int /\ s[n] \in Int /\ Turned(y, n)[i] \in Int
      BY <1>0, <1>1, <2>7 DEF Coeffs
    <3>5. CASE n <= i
      BY <3>2, <3>3, <3>5
    <3>6. CASE ~(n <= i)
      <4>1. PICK w : w = y[N + i - n]
        OBVIOUS
      <4>2. w \in Int
        <5>1. N + i - n \in Coeffs
          BY <1>0, <3>6 DEF Coeffs
        <5> QED
          BY <4>1, <5>1 DEF Polys
      <4>3. s[n] - x[n] * w = s[n] + x[n] * (-w)
        BY <3>4, <4>2
      <4> QED
        BY <3>2, <3>3, <3>6, <4>1, <4>3
    <3> QED
      BY <3>5, <3>6
  <2>8. f = Whole(f, i)
    <3>1. Entry(f, i, 0) = 0
      OBVIOUS
    <3>2. ASSUME NEW n \in 0 .. N PROVE f[n] = Entry(f, i, n)
      <4> HIDE DEF Entry
      <4>1. CASE n = 0
        BY <2>5, <3>1, <4>1
      <4>2. CASE n # 0
        <5>1. PICK k \in 0 .. N - 1 : n = k + 1
          <6>1. n - 1 \in 0 .. N - 1 /\ n = n - 1 + 1
            BY <1>0, <4>2
          <6> QED
            BY <6>1
        <5>2. f[k] \in Int
          BY <1>0, <2>4
        <5>3. Entry(f, i, k + 1) = f[k] + x[k] * Turned(y, k)[i]
          BY <2>7, <5>2
        <5> QED
          BY <2>5, <5>1, <5>3, Zenon
      <4> QED
        BY <4>1, <4>2
    <3>3. f = [n \in 0 .. N |-> f[n]]
      BY <2>4
    <3> HIDE DEF Entry
    <3> QED
      BY <3>2, <3>3
  <2> HIDE DEF Entry
  <2>9. Sums(i) = Whole(Sums(i), i)
    <3> HIDE DEF Whole
    <3> QED
      BY <2>8
  <2> DEFINE s == Sums(i)
  <2> HIDE DEF Sums
  <2>10. \A n \in 0 .. N : s[n] = Entry(s, i, n)
    BY <2>9
  <2>11. s[0] = 0
    <3>1. Entry(s, i, 0) = 0
      BY DEF Entry
    <3> QED
      BY <1>0, <2>10, <3>1
  <2>12. \A n \in 0 .. N - 1 : s[n] \in Int => s[n + 1] = s[n] + x[n] * Turned(y, n)[i]
    <3> SUFFICES ASSUME NEW n \in 0 .. N - 1, s[n] \in Int
                 PROVE  s[n + 1] = s[n] + x[n] * Turned(y, n)[i]
      OBVIOUS
    <3>1. n + 1 \in 0 .. N
      BY <1>0
    <3> QED
      BY <2>7, <2>10, <3>1
  <2> DEFINE Good == {n \in 0 .. N : s[n] \in Int}
  <2>13. 0 \in Good
    BY <1>0, <2>11
  <2>14. ASSUME NEW n \in 0 .. N - 1, n \in Good PROVE n + 1 \in Good
    <3>1. n \in Coeffs /\ n + 1 \in 0 .. N
      BY <1>0 DEF Coeffs
    <3> QED
      BY <1>1, <2>12, <2>14, <3>1
  <2>15. \A n \in 0 .. N : n \in Good
    <3> HIDE DEF Good
    <3> QED
      BY <1>0, <2>13, <2>14, UptoInduction
  <2>16. s \in [0 .. N -> Int]
    <3>1. s = [n \in 0 .. N |-> Entry(s, i, n)]
      BY <2>9
    <3>2. \A n \in 0 .. N : s[n] \in Int
      BY <2>15
    <3>3. s = [n \in 0 .. N |-> s[n]]
      BY <3>1
    <3> HIDE DEF s
    <3> QED
      BY <3>2, <3>3
  <2> QED
    BY <1>0, <2>1, <2>11, <2>12, <2>16
<1> HIDE DEF Sums
<1> DEFINE p == [n \in 0 .. N |-> [i \in Coeffs |-> Sums(i)[n]]]
<1>3. p \in [0 .. N -> Polys]
  <2>1. ASSUME NEW n \in 0 .. N PROVE [i \in Coeffs |-> Sums(i)[n]] \in Polys
    BY <1>2 DEF Polys
  <2> QED
    BY <2>1
<1>4. \A n \in 0 .. N, i \in Coeffs : p[n][i] = Sums(i)[n]
  OBVIOUS
<1> HIDE DEF p
<1>5. \A i \in Coeffs : p[0][i] = 0
  BY <1>0, <1>2, <1>4
<1>6. ASSUME NEW n \in 0 .. N - 1 PROVE IsSum(p[n + 1], p[n], x[n], Turned(y, n))
  <2>1. n \in 0 .. N /\ n + 1 \in 0 .. N
    BY <1>0
  <2> QED
    BY <1>2, <1>4, <2>1 DEF IsSum
<1>7. \A i \in Coeffs : p[N][i] = Product(x, y, i)
  BY <1>0, <1>2, <1>4
<1> QED
  BY <1>3, <1>5, <1>6, <1>7

-----------------------------------------------------------------------------
(*  The value of a product is the product of the values  *)

\* The polynomial 1.
Unit == [i \in Coeffs |-> IF i = 0 THEN 1 ELSE 0]

\* A value is an integer.
LEMMA ValueTyped ==
  ASSUME NEW u \in Polys, NEW i \in Coeffs
  PROVE  Value(u, 1)[i] \in Int
<1>1. Value(u, 1) \in Polys
  BY LastLayer, ValuePoly
<1> QED
  BY <1>1 DEF Polys

\* One more power of x is one shift.
LEMMA TurnedOnce ==
  ASSUME NEW y \in Polys
  PROVE  /\ Turned(y, 0) = y
         /\ \A m \in 0 .. N - 2 : IsShift(Turned(y, m + 1), Turned(y, m), N)
<1>0. N \in Nat /\ N >= 2
  BY Sizes
<1>1. \A j \in Coeffs : y[j] \in Int
  BY DEF Polys
<1>2. Turned(y, 0) = y
  <2>1. ASSUME NEW i \in Coeffs PROVE Turned(y, 0)[i] = y[i]
    <3>1. 0 \in 0 .. N - 1 /\ 0 <= i /\ i - 0 = i
      BY <1>0 DEF Coeffs
    <3> QED
      BY <3>1, TurnedPoly
  <2>2. y = [i \in Coeffs |-> y[i]] /\ Turned(y, 0) = [i \in Coeffs |-> Turned(y, 0)[i]]
    BY DEF Polys, Turned
  <2> QED
    BY <2>1, <2>2
<1>3. ASSUME NEW m \in 0 .. N - 2 PROVE IsShift(Turned(y, m + 1), Turned(y, m), N)
  <2> SUFFICES ASSUME NEW i \in Coeffs
               PROVE  /\ i % N # 0 => Congruent(Turned(y, m + 1)[i], Turned(y, m)[i - 1])
                      /\ i % N = 0 => Congruent(Turned(y, m + 1)[i],
                                                Gamma(Node(i, N)) * Turned(y, m)[i + N - 1])
    BY DEF IsShift
  <2>1. PICK k \in 0 .. N - 1 : k = m + 1 /\ m \in 0 .. N - 1
    BY <1>0
  <2>2. i \in Int /\ i >= 0 /\ i < N /\ i % N = i
    <3>1. i \in Int /\ i >= 0 /\ i < N
      BY <1>0 DEF Coeffs
    <3>2. i = N * 0 + i
      BY <1>0, <3>1
    <3> QED
      BY <1>0, <3>1, <3>2, QuotientIsUnique
  <2>3. \A j \in Coeffs : /\ Turned(y, k)[j] = IF k <= j THEN y[j - k] ELSE -y[N + j - k]
                          /\ Turned(y, m)[j] = IF m <= j THEN y[j - m] ELSE -y[N + j - m]
                          /\ Turned(y, k)[j] \in Int /\ Turned(y, m)[j] \in Int
    BY <2>1, TurnedPoly DEF Polys
  <2>4. CASE i # 0
    <3>1. PICK j \in Coeffs : j = i - 1
      BY <1>0, <2>2, <2>4 DEF Coeffs
    <3>2. Turned(y, k)[i] = Turned(y, m)[j]
      <4>1. i - k = j - m /\ N + i - k = N + j - m /\ (k <= i <=> m <= j)
        BY <1>0, <2>1, <2>2, <3>1
      <4> QED
        BY <2>3, <4>1
    <3>3. Congruent(Turned(y, k)[i], Turned(y, m)[j])
      BY <2>3, <3>2, CongruentEquivalence
    <3> QED
      BY <2>1, <2>2, <2>4, <3>1, <3>3
  <2>5. CASE i = 0
    <3>1. PICK j \in Coeffs : j = i + N - 1 /\ j = N - 1
      BY <1>0, <2>5 DEF Coeffs
    <3>2. Node(i, N) = 1
      <4>1. N + i = N * 1 + 0
        BY <1>0, <2>5
      <4> QED
        BY <1>0, <2>5, <4>1, QuotientIsUnique DEF Node
    <3>3. Gamma(Node(i, N)) = -1
      BY <3>2 DEF Gamma
    <3>4. Turned(y, k)[i] = (-1) * Turned(y, m)[j]
      <4>1. N + i - k = j - m /\ ~(k <= i) /\ m <= j
        BY <1>0, <2>1, <2>5, <3>1
      <4>2. Turned(y, k)[i] = -y[j - m] /\ Turned(y, m)[j] = y[j - m] /\ Turned(y, m)[j] \in Int
        BY <2>3, <4>1
      <4> QED
        BY <4>2
    <3>5. Congruent(Turned(y, k)[i], Gamma(Node(i, N)) * Turned(y, m)[j])
      <4>1. Congruent(Turned(y, k)[i], Turned(y, k)[i])
        BY <2>3, CongruentEquivalence
      <4> QED
        BY <3>3, <3>4, <4>1
    <3> QED
      BY <2>1, <2>2, <2>5, <3>1, <3>5
  <2> QED
    BY <2>4, <2>5
<1> QED
  BY <1>2, <1>3

\* The powers of x have one coefficient.
LEMMA UnitTurned ==
  /\ Unit \in Polys /\ IsOne(Unit, N)
  /\ \A m \in 0 .. N - 1, i \in Coeffs : Turned(Unit, m)[i] = IF i = m THEN 1 ELSE 0
<1>0. N \in Nat /\ N >= 2
  BY Sizes
<1>1. Unit \in Polys
  BY DEF Unit, Polys
<1>2. IsOne(Unit, N)
  <2> SUFFICES ASSUME NEW i \in Coeffs PROVE Unit[i] = IF i % N = 0 THEN 1 ELSE 0
    BY DEF IsOne
  <2>1. i \in Int /\ i >= 0 /\ i < N
    BY <1>0 DEF Coeffs
  <2>2. i = N * 0 + i
    BY <1>0, <2>1
  <2>3. i % N = i
    BY <1>0, <2>1, <2>2, QuotientIsUnique
  <2> QED
    BY <2>3 DEF Unit
<1>3. ASSUME NEW m \in 0 .. N - 1, NEW i \in Coeffs
      PROVE  Turned(Unit, m)[i] = IF i = m THEN 1 ELSE 0
  <2>1. Turned(Unit, m)[i] = IF m <= i THEN Unit[i - m] ELSE -Unit[N + i - m]
    BY <1>1, TurnedPoly
  <2>2. CASE m <= i
    <3>1. i - m \in Coeffs
      BY <1>0, <2>2 DEF Coeffs
    <3>2. Unit[i - m] = IF i - m = 0 THEN 1 ELSE 0
      BY <3>1 DEF Unit
    <3>3. i - m = 0 <=> i = m
      BY DEF Coeffs
    <3>4. Turned(Unit, m)[i] = Unit[i - m]
      BY <2>1, <2>2
    <3> QED
      BY <3>2, <3>3, <3>4, Zenon
  <2>3. CASE ~(m <= i)
    <3>1. N + i - m \in Coeffs /\ N + i - m # 0 /\ i # m
      BY <1>0, <2>3 DEF Coeffs
    <3>2. PICK k \in Coeffs : k = N + i - m /\ k # 0
      BY <3>1
    <3>3. Turned(Unit, m)[i] = -Unit[k]
      BY <2>1, <2>3, <3>2, Zenon
    <3>4. PICK z \in Int : z = Unit[k] /\ z = 0
      BY <3>2 DEF Unit
    <3>5. z <= 0 /\ z >= 0
      BY <3>4
    <3>6. -z = 0
      BY <3>5
    <3> QED
      BY <3>1, <3>3, <3>4, <3>6, Zenon
  <2> QED
    BY <2>2, <2>3
<1> QED
  BY <1>1, <1>2, <1>3

\* The value of y times x^m is the value of x^m times that of y.
LEMMA ValueOfTurned ==
  ASSUME NEW y \in Polys, NEW i \in Coeffs
  PROVE  \A m \in 0 .. N - 1 :
           Congruent(Value(Turned(y, m), 1)[i], Value(Turned(Unit, m), 1)[i] * Value(y, 1)[i])
<1>0. N \in Nat /\ N >= 2 /\ N - 1 \in Nat
  BY Sizes
<1> DEFINE v == Value(y, 1)[i]
           A(m) == Value(Turned(y, m), 1)[i]
           B(m) == Value(Turned(Unit, m), 1)[i]
<1>1. v \in Int /\ \A m \in 0 .. N - 1 : A(m) \in Int /\ B(m) \in Int
  BY TurnedPoly, UnitTurned, ValueTyped
<1> DEFINE Good == {m \in 0 .. N - 1 : Congruent(A(m), B(m) * v)}
<1>2. 0 \in Good
  <2>1. A(0) = v
    BY TurnedOnce
  <2>2. B(0) = 1
    BY TurnedOnce, UnitTurned, ValueOfOne
  <2> HIDE DEF A, B, v
  <2>3. B(0) * v = v
    BY <1>1, <2>2
  <2>4. Congruent(v, v)
    BY <1>1, CongruentEquivalence
  <2> QED
    BY <1>0, <2>1, <2>3, <2>4
<1>3. ASSUME NEW m \in 0 .. N - 1 - 1, m \in Good PROVE m + 1 \in Good
  <2>1. m \in 0 .. N - 2 /\ m \in 0 .. N - 1 /\ m + 1 \in 0 .. N - 1
    BY <1>0
  <2>2. PICK k \in 0 .. N - 1 : k = m + 1
    BY <2>1
  <2>3. IsShift(Turned(y, k), Turned(y, m), N) /\ IsShift(Turned(Unit, k), Turned(Unit, m), N)
    BY <2>1, <2>2, TurnedOnce, UnitTurned
  <2>4. PICK g \in Int : g = Gamma(N + i) /\ Congruent(A(k), g * A(m)) /\ Congruent(B(k), g * B(m))
    <3>1. /\ Turned(y, k) \in Polys /\ Turned(y, m) \in Polys
          /\ Turned(Unit, k) \in Polys /\ Turned(Unit, m) \in Polys
      BY <2>1, TurnedPoly, UnitTurned
    <3>2. Gamma(N + i) \in Int /\ Congruent(A(k), Gamma(N + i) * A(m))
      BY <2>3, <3>1, ValueOfShift
    <3>3. Congruent(B(k), Gamma(N + i) * B(m))
      BY <2>3, <3>1, ValueOfShift
    <3> QED
      BY <3>2, <3>3
  <2>5. Congruent(A(m), B(m) * v)
    BY <1>3
  <2>6. A(m) \in Int /\ B(m) \in Int /\ A(k) \in Int /\ B(k) \in Int
    BY <1>1, <2>1
  <2> HIDE DEF A, B, v, Good
  <2>7. PICK a0 \in Int, b0 \in Int, a1 \in Int, b1 \in Int :
          a0 = A(m) /\ b0 = B(m) /\ a1 = A(k) /\ b1 = B(k)
    BY <2>6
  <2>8. Congruent(a1, g * a0) /\ Congruent(b1, g * b0) /\ Congruent(a0, b0 * v)
    BY <2>4, <2>5, <2>7
  <2>9. g * a0 \in Int /\ g * b0 \in Int /\ b0 * v \in Int /\ g * (b0 * v) \in Int /\ b1 * v \in Int
        /\ (g * b0) * v \in Int
    BY <1>1
  <2>10. Congruent(g * a0, g * (b0 * v))
    BY <2>8, <2>9, CongruentTimes
  <2>11. Congruent((g * b0) * v, b1 * v)
    <3>1. Congruent(g * b0, b1)
      BY <2>8, <2>9, CongruentEquivalence
    <3> QED
      BY <1>1, <2>9, <3>1, CongruentTimes
  <2>12. g * (b0 * v) = (g * b0) * v
    BY <1>1
  <2>13. Congruent(a1, g * (b0 * v))
    BY <2>8, <2>9, <2>10, CongruentThrough
  <2>14. Congruent(a1, b1 * v)
    BY <2>9, <2>11, <2>12, <2>13, CongruentThrough
  <2> QED
    BY <2>2, <2>7, <2>14 DEF Good
<1>4. \A m \in 0 .. N - 1 : m \in Good
  <2> HIDE DEF Good
  <2> QED
    BY <1>0, <1>2, <1>3, UptoInduction
<1> QED
  BY <1>4

\* The value of 0 is 0.
LEMMA ValueOfZero ==
  ASSUME NEW u \in Polys, \A i \in Coeffs : u[i] = 0
  PROVE  \A i \in Coeffs : Value(u, 1)[i] = 0
<1>1. PICK c \in Int : c = 1
  OBVIOUS
<1>2. IsSum(u, u, c, u)
  BY <1>1 DEF IsSum
<1>3. IsSum(Value(u, 1), Value(u, 1), c, Value(u, 1))
  BY <1>2, ValueOfSum
<1> SUFFICES ASSUME NEW i \in Coeffs PROVE Value(u, 1)[i] = 0
  OBVIOUS
<1>4. Value(u, 1)[i] \in Int
  BY ValueTyped
<1>5. Value(u, 1)[i] = Value(u, 1)[i] + c * Value(u, 1)[i]
  BY <1>3 DEF IsSum
<1>6. PICK v \in Int : v = Value(u, 1)[i]
  BY <1>4
<1>7. c * v = v
  BY <1>1
<1>8. v = v + v
  BY <1>5, <1>6, <1>7, Zenon
<1>9. v = 0
  BY <1>8
<1> QED
  BY <1>6, <1>9

\* A polynomial is the sum of its powers of x.
LEMMA UnitProduct ==
  ASSUME NEW x \in Polys, NEW w \in [0 .. N -> Polys],
         \A i \in Coeffs : w[0][i] = 0,
         \A n \in 0 .. N - 1 : IsSum(w[n + 1], w[n], x[n], Turned(Unit, n))
  PROVE  w[N] = x
<1>0. N \in Nat /\ N >= 2
  BY Sizes
<1>1. \A i \in Coeffs : x[i] \in Int
  BY DEF Polys
<1> DEFINE Good == {n \in 0 .. N : \A i \in Coeffs : w[n][i] = IF i < n THEN x[i] ELSE 0}
<1>2. 0 \in Good
  BY <1>0 DEF Coeffs
<1>3. ASSUME NEW n \in 0 .. N - 1, n \in Good PROVE n + 1 \in Good
  <2> SUFFICES ASSUME NEW i \in Coeffs PROVE w[n + 1][i] = IF i < n + 1 THEN x[i] ELSE 0
    BY <1>0
  <2>1. w[n + 1][i] = w[n][i] + x[n] * Turned(Unit, n)[i]
    BY DEF IsSum
  <2>2. w[n][i] = IF i < n THEN x[i] ELSE 0
    BY <1>3
  <2>3. Turned(Unit, n)[i] = IF i = n THEN 1 ELSE 0
    BY UnitTurned
  <2>4. n \in Coeffs /\ x[n] \in Int /\ x[i] \in Int /\ i \in Int /\ n \in Int
    BY <1>0, <1>1 DEF Coeffs
  <2>5. CASE i = n
    BY <2>1, <2>2, <2>3, <2>4, <2>5
  <2>6. CASE i # n
    BY <2>1, <2>2, <2>3, <2>4, <2>6
  <2> QED
    BY <2>5, <2>6
<1>4. \A n \in 0 .. N : n \in Good
  <2> HIDE DEF Good
  <2> QED
    BY <1>0, <1>2, <1>3, UptoInduction
<1>5. ASSUME NEW i \in Coeffs PROVE w[N][i] = x[i]
  <2>1. N \in 0 .. N /\ i < N
    BY <1>0 DEF Coeffs
  <2> QED
    BY <1>4, <2>1
<1>6. w[N] \in [Coeffs -> Int] /\ x \in [Coeffs -> Int]
  BY <1>0 DEF Polys
<1> HIDE DEF Good
<1> QED
  BY <1>5, <1>6

\* What ntt makes of a product, from what it makes of the factors.
LEMMA ValueOfProduct ==
  ASSUME NEW x \in Polys, NEW y \in Polys, NEW u \in Polys,
         \A i \in Coeffs : u[i] = Product(x, y, i), NEW i \in Coeffs
  PROVE  Congruent(Value(u, 1)[i], Value(x, 1)[i] * Value(y, 1)[i])
<1>0. N \in Nat /\ N >= 2 /\ Unit \in Polys
  BY Sizes, UnitTurned
<1>1. PICK p \in [0 .. N -> Polys] :
        /\ \A j \in Coeffs : p[0][j] = 0
        /\ \A n \in 0 .. N - 1 : IsSum(p[n + 1], p[n], x[n], Turned(y, n))
        /\ \A j \in Coeffs : p[N][j] = Product(x, y, j)
  BY PartialProducts
<1>2. PICK w \in [0 .. N -> Polys] :
        /\ \A j \in Coeffs : w[0][j] = 0
        /\ \A n \in 0 .. N - 1 : IsSum(w[n + 1], w[n], x[n], Turned(Unit, n))
  BY <1>0, PartialProducts
<1> DEFINE v == Value(y, 1)[i]
           A(n) == Value(p[n], 1)[i]
           B(n) == Value(w[n], 1)[i]
<1>3. v \in Int /\ \A n \in 0 .. N : A(n) \in Int /\ B(n) \in Int
  BY ValueTyped
<1> DEFINE Good == {n \in 0 .. N : Congruent(A(n), B(n) * v)}
<1>4. 0 \in Good
  <2>0. p[0] \in Polys /\ w[0] \in Polys /\ 0 \in 0 .. N
    BY <1>0
  <2>1. A(0) = 0 /\ B(0) = 0
    BY <1>1, <1>2, <2>0, ValueOfZero
  <2> HIDE DEF A, B, v
  <2>2. PICK e \in Int : e = 0
    OBVIOUS
  <2>3. Congruent(e, e)
    BY CongruentEquivalence
  <2>4. A(0) = e /\ B(0) * v = e
    BY <1>3, <2>1, <2>2
  <2> QED
    BY <2>0, <2>3, <2>4
<1>5. ASSUME NEW n \in 0 .. N - 1, n \in Good PROVE n + 1 \in Good
  <2>1. n \in 0 .. N /\ n + 1 \in 0 .. N /\ n \in Coeffs
    BY <1>0 DEF Coeffs
  <2>2. PICK c \in Int : c = x[n]
    BY <2>1 DEF Polys
  <2>3. /\ Turned(y, n) \in Polys /\ Turned(Unit, n) \in Polys /\ p[n] \in Polys /\ w[n] \in Polys
        /\ p[n + 1] \in Polys /\ w[n + 1] \in Polys
    BY <1>0, <2>1, TurnedPoly
  <2>4. IsSum(p[n + 1], p[n], c, Turned(y, n)) /\ IsSum(w[n + 1], w[n], c, Turned(Unit, n))
    BY <1>1, <1>2, <2>2
  <2>5. /\ IsSum(Value(p[n + 1], 1), Value(p[n], 1), c, Value(Turned(y, n), 1))
        /\ IsSum(Value(w[n + 1], 1), Value(w[n], 1), c, Value(Turned(Unit, n), 1))
    BY <2>3, <2>4, ValueOfSum
  <2>6. PICK f \in Int, e \in Int : f = Value(Turned(y, n), 1)[i] /\ e = Value(Turned(Unit, n), 1)[i]
    BY <2>3, ValueTyped
  <2>7. A(n + 1) = A(n) + c * f /\ B(n + 1) = B(n) + c * e
    BY <2>5, <2>6 DEF IsSum
  <2>8. Congruent(f, e * v)
    BY <2>6, ValueOfTurned
  <2>9. Congruent(A(n), B(n) * v)
    BY <1>5
  <2>10. A(n) \in Int /\ B(n) \in Int
    BY <1>3, <2>1
  <2> HIDE DEF A, B, v, Good
  <2>11. PICK a0 \in Int, b0 \in Int : a0 = A(n) /\ b0 = B(n)
    BY <2>10
  <2>12. b0 * v \in Int /\ e * v \in Int
    BY <1>3
  <2>13. Congruent(a0 + c * f, b0 * v + c * (e * v))
    BY <2>8, <2>9, <2>11, <2>12, ButterflyCongruent
  <2>14. b0 * v + c * (e * v) = (b0 + c * e) * v
    BY <1>3
  <2>15. Congruent(A(n + 1), B(n + 1) * v)
    BY <2>7, <2>11, <2>13, <2>14
  <2> QED
    BY <2>1, <2>15 DEF Good
<1>6. \A n \in 0 .. N : n \in Good
  <2> HIDE DEF Good
  <2> QED
    BY <1>0, <1>4, <1>5, UptoInduction
<1>7. p[N] = u
  <2>1. p[N] \in [Coeffs -> Int] /\ u \in [Coeffs -> Int]
    BY <1>0 DEF Polys
  <2> QED
    BY <1>1, <2>1
<1>8. w[N] = x
  BY <1>2, UnitProduct
<1>9. N \in Good
  BY <1>0, <1>6
<1> QED
  BY <1>7, <1>8, <1>9

-----------------------------------------------------------------------------
(*  What the coefficients stand for  *)

\* The polynomial that ntt is applied to, and the product.
Current == IF first = << >> THEN factors[1] ELSE factors[2]
Goal == [i \in Coeffs |-> Product(factors[1], factors[2], i)]

\* The layer that a coefficient has come to.
ForwardLayer(i) == IF len = 0 THEN 1 ELSE IF Touched(i) THEN len ELSE 2 * len
BackwardLayer(i) == IF len < N /\ Touched(i) THEN 2 * len ELSE len

ForwardValue ==
  phase = "ntt" => \A i \in Coeffs : Congruent(vec[i], Value(Current, ForwardLayer(i))[i])
FirstValue ==
  first # << >> => \A i \in Coeffs : Congruent(first[i], Value(factors[1], 1)[i])
BackwardValue ==
  phase = "invntt" =>
    \A i \in Coeffs :
      Congruent(vec[i], (BackwardLayer(i) * RInv) * Value(Goal, BackwardLayer(i))[i])
DoneValue ==
  phase = "done" => \A i \in Coeffs : Congruent(vec[i], Goal[i]) /\ Small(vec[i])

ValueInv == ForwardValue /\ FirstValue /\ BackwardValue /\ DoneValue

\* The factors and their product are polynomials.
LEMMA FactorsArePolys ==
  ASSUME NttInv
  PROVE  factors[1] \in Polys /\ factors[2] \in Polys /\ Current \in Polys /\ Goal \in Polys
<1>1. factors[1] \in Polys /\ factors[2] \in Polys
  BY Given DEF NttInv, Polys
<1>2. PICK p \in [0 .. N -> Polys] : \A i \in Coeffs : p[N][i] = Product(factors[1], factors[2], i)
  BY <1>1, PartialProducts
<1>3. ASSUME NEW i \in Coeffs PROVE Product(factors[1], factors[2], i) \in Int
  <2>1. p[N] \in [Coeffs -> Int]
    BY Sizes DEF Polys
  <2> QED
    BY <1>2, <2>1
<1>4. Goal \in Polys
  BY <1>3 DEF Goal, Polys
<1> QED
  BY <1>1, <1>4 DEF Current

\* Their values are integers.
LEMMA ValueInt ==
  ASSUME NEW u \in Polys, NEW l \in Lens, N % (2 * l) = 0, NEW i \in Coeffs
  PROVE  Value(u, l)[i] \in Int /\ Value(u, 2 * l)[i] \in Int
BY ValuePoly DEF Polys

\* The block of a butterfly, and its root.
LEMMA BlockOfPlace ==
  ASSUME NEW l \in Lens, N % (2 * l) = 0, NEW s \in Nat, s % (2 * l) = 0,
         NEW i \in Coeffs, s <= i, i < s + l, NEW n \in Nat, n * (2 * l) = N + s
  PROVE  Node(i, 2 * l) = n /\ i % (2 * l) < l
<1>0. l \in Nat /\ l > 0 /\ N \in Nat /\ i \in Nat
  BY Sizes DEF Lens, Coeffs
<1>1. PICK d \in Nat : d = 2 * l /\ d > 0
  BY <1>0
<1>2. PICK b \in Int : s = d * b
  <2> DEFINE b == s \div d
  <2>1. b \in Int /\ s = d * b
    BY <1>1, SMTT(30)
  <2> QED
    BY <2>1
<1>3. PICK e \in Int : e = i - s
  BY <1>0
<1>4. 0 <= e /\ e < d /\ e < l
  BY <1>0, <1>1, <1>3
<1>5. i = d * b + e
  BY <1>0, <1>2, <1>3
<1>6. N + i = d * n + e
  <2>1. d * n = N + s
    BY <1>0, <1>1
  <2> QED
    BY <1>0, <1>3, <2>1
<1>7. i % d = e
  BY <1>0, <1>1, <1>4, <1>5, QuotientIsUnique
<1>8. (N + i) \div d = n
  BY <1>0, <1>1, <1>4, <1>6, QuotientIsUnique
<1> QED
  BY <1>1, <1>4, <1>7, <1>8 DEF Node

\* Where the loops of ntt are: its root is that of the block.
LEMMA ForwardPlace ==
  ASSUME NttInv, phase = "ntt", len > 0, start < N, place < start + len
  PROVE  /\ len \in Lens /\ N % (2 * len) = 0 /\ place \in Coeffs /\ place + len \in Coeffs
         /\ ~Touched(place) /\ ~Touched(place + len)
         /\ root \in 1 .. N - 1 /\ Node(place, 2 * len) = root /\ place % (2 * len) < len
<1>1. /\ len \in Lens /\ len < N /\ N % (2 * len) = 0 /\ start \in Nat /\ place \in Nat
      /\ start <= place /\ start % (2 * len) = 0
      /\ root \in Nat /\ root * (2 * len) = N + start
  BY DEF NttInv, Loops, ForwardRange, InLayer, Lens
<1>2. len \in Nat /\ start + 2 * len <= N
  BY <1>1, Blocks
<1>3. place \in Coeffs /\ place + len \in Coeffs
  BY <1>1, <1>2, Sizes DEF Coeffs
<1>4. ~Touched(place) /\ ~Touched(place + len)
  BY <1>1, <1>2 DEF Touched
<1>5. Node(place, 2 * len) = root /\ place % (2 * len) < len
  BY <1>1, <1>3, BlockOfPlace
<1>6. root \in 1 .. N - 1
  BY <1>1, <1>3, <1>5, Halves
<1> QED
  BY <1>1, <1>3, <1>4, <1>5, <1>6

\* A butterfly of ntt takes two places to the next layer.
LEMMA ValueForward == NttInv /\ ValueInv /\ forward => ValueInv'
<1> SUFFICES ASSUME NttInv, ValueInv, forward PROVE ValueInv'
  OBVIOUS
<1> DEFINE t == MontgomeryReduce(Zetas[root] * vec[place + len])
<1>1. /\ phase = "ntt" /\ len > 0 /\ start < N /\ place < start + len
      /\ vec' = [vec EXCEPT ![place + len] = Word(vec[place] - t), ![place] = Word(vec[place] + t)]
      /\ place' = place + 1
      /\ UNCHANGED <<phase, factors, first, len, start, root>>
  BY DEF forward
<1>2. /\ len \in Nat /\ vec[place] \in Int
      /\ Word(vec[place] + t) = vec[place] + t /\ Word(vec[place] - t) = vec[place] - t
  BY <1>1, ForwardButterfly
<1>3. /\ len \in Lens /\ N % (2 * len) = 0 /\ place \in Coeffs /\ place + len \in Coeffs
      /\ ~Touched(place) /\ ~Touched(place + len)
      /\ root \in 1 .. N - 1 /\ Node(place, 2 * len) = root /\ place % (2 * len) < len
  BY <1>1, ForwardPlace
<1>4. vec \in [Coeffs -> Int] /\ start \in Nat /\ place \in Nat /\ start <= place /\ Current \in Polys
  BY FactorsArePolys DEF NttInv, Loops
<1>5. PICK j \in Coeffs : j = place + len /\ j # place
  BY <1>1, <1>2, <1>3, <1>4
<1>6. PICK x \in Int, y \in Int, z \in Int : x = vec[place] /\ y = vec[j] /\ z = Z(root)
  BY <1>3, <1>4, RootValues
<1>7. t \in Int /\ Congruent(t, z * y)
  <2>1. Zetas[root] \in Int /\ RInv \in Int
    BY <1>3, RootValues, RInvInverts
  <2>2. Zetas[root] * y \in Int
    BY <2>1
  <2>3. t = MontgomeryReduce(Zetas[root] * y)
    BY <1>5, <1>6
  <2> HIDE DEF t
  <2>4. t \in Int /\ Congruent(t, RInv * (Zetas[root] * y))
    BY <2>2, <2>3, MontgomeryValue
  <2>5. RInv * (Zetas[root] * y) = z * y
    BY <1>6, <2>1 DEF Z
  <2> QED
    BY <2>4, <2>5
<1>8. vec' = [vec EXCEPT ![j] = x - t, ![place] = x + t]
  BY <1>1, <1>2, <1>5, <1>6
<1> HIDE DEF t
<1> DEFINE u == Value(Current, 2 * len)
           w == Value(Current, len)
<1>9. u \in Polys /\ w = Layer(u, len)
  BY <1>3, <1>4, ValuePoly, ValueLayer
<1> HIDE DEF u, w
<1>10. w[place] = u[place] + z * u[j] /\ w[j] = u[place] - z * u[j]
  BY <1>3, <1>5, <1>6, <1>9, LayerValue
<1>11. \A i \in Coeffs : Congruent(vec[i], Value(Current, ForwardLayer(i))[i])
  BY <1>1 DEF ValueInv, ForwardValue
<1>12. Congruent(x, u[place]) /\ Congruent(y, u[j])
  <2>1. ForwardLayer(place) = 2 * len /\ ForwardLayer(j) = 2 * len
    BY <1>1, <1>3, <1>5 DEF ForwardLayer
  <2> QED
    BY <1>3, <1>6, <1>11, <2>1 DEF u
<1>13. PICK a0 \in Int, b0 \in Int : a0 = u[place] /\ b0 = u[j]
  BY <1>3, <1>9 DEF Polys
<1>14. Congruent(x + t, w[place]) /\ Congruent(x - t, w[j])
  <2>1. z * y \in Int /\ z * b0 \in Int /\ Congruent(z * y, z * b0)
    <3>1. Congruent(z * y, z * b0)
      BY <1>12, <1>13, CongruentTimes
    <3> QED
      BY <3>1
  <2>2. Congruent(t, z * b0)
    BY <1>7, <2>1, CongruentThrough
  <2>3. Congruent(x + t, a0 + z * b0) /\ Congruent(x - t, a0 - z * b0)
    BY <1>7, <1>12, <1>13, <2>1, <2>2, CongruentCombines
  <2> QED
    BY <1>10, <1>13, <2>3
<1>15. ForwardValue'
  <2> SUFFICES ASSUME NEW i \in Coeffs PROVE Congruent(vec'[i], Value(Current', ForwardLayer(i)')[i])
    BY DEF ForwardValue
  <2>1. Current' = Current
    BY <1>1 DEF Current
  <2>2. Touched(i)' <=> Touched(i) \/ i = place \/ i = place + len
    BY <1>1, <1>2, <1>4, TouchedNext
  <2>3. ForwardLayer(i)' = IF Touched(i)' THEN len ELSE 2 * len
    BY <1>1 DEF ForwardLayer
  <2>4. CASE i = place
    BY <1>4, <1>5, <1>8, <1>14, <2>1, <2>2, <2>3, <2>4 DEF w
  <2>5. CASE i = j
    BY <1>4, <1>5, <1>8, <1>14, <2>1, <2>2, <2>3, <2>5 DEF w
  <2>6. CASE i # place /\ i # j
    <3>1. vec'[i] = vec[i]
      BY <1>4, <1>8, <2>6
    <3>2. ForwardLayer(i)' = ForwardLayer(i)
      BY <1>1, <1>5, <2>2, <2>3, <2>6 DEF ForwardLayer
    <3> QED
      BY <1>11, <2>1, <3>1, <3>2
  <2> QED
    BY <2>4, <2>5, <2>6
<1>16. FirstValue'
  BY <1>1 DEF ValueInv, FirstValue
<1>17. BackwardValue' /\ DoneValue'
  BY <1>1 DEF BackwardValue, DoneValue
<1> QED
  BY <1>15, <1>16, <1>17 DEF ValueInv

\* Where the loops of invntt_tomont are: its root is the inverse of that of the block.
LEMMA InversePlace ==
  ASSUME NttInv, phase = "invntt", len < N, start < N, place < start + len
  PROVE  /\ len \in Lens /\ N % (2 * len) = 0 /\ place \in Coeffs /\ place + len \in Coeffs
         /\ start \in Nat /\ start <= place /\ ~Touched(place) /\ ~Touched(place + len)
         /\ root \in 1 .. N - 1 /\ place % (2 * len) < len
         /\ Z(root) \in Int /\ Z(Node(place, 2 * len)) \in Int
         /\ Congruent(-Z(root) * Z(Node(place, 2 * len)), 1)
<1>0. Loops /\ BackwardRange
  BY DEF NttInv
<1>1. len \in Lens
  BY <1>0, Sizes DEF BackwardRange
<1>2. /\ N % (2 * len) = 0 /\ start \in Nat /\ place \in Nat /\ start <= place
      /\ start % (2 * len) = 0 /\ root \in Nat /\ root * (2 * len) = 2 * N - 2 * len - start
  <2>1. len > 0 /\ len < N
    BY <1>1 DEF Lens
  <2> QED
    BY <1>0, <2>1 DEF Loops, BackwardRange, InLayer
<1>3. len \in Nat /\ len > 0 /\ start + 2 * len <= N /\ N \in Nat
  BY <1>1, <1>2, Blocks, Sizes
<1>4. place \in Coeffs /\ place + len \in Coeffs
  BY <1>2, <1>3 DEF Coeffs
<1>5. ~Touched(place) /\ ~Touched(place + len)
  BY <1>2, <1>3 DEF Touched
<1>6. PICK d \in Nat : d = 2 * len /\ d > 0
  BY <1>3
<1>7. PICK b \in Int : start = d * b
  <2> DEFINE b == start \div d
  <2>1. b \in Int /\ start = d * b
    BY <1>2, <1>6, SMTT(30)
  <2> QED
    BY <2>1
<1>8. PICK c \in Int : N = d * c
  <2> DEFINE c == N \div d
  <2>1. c \in Int /\ N = d * c
    BY <1>2, <1>3, <1>6, SMTT(30)
  <2> QED
    BY <2>1
<1>9. b >= 0 /\ c >= 1 /\ b < c
  <2>1. b <= -1 => d * b <= -d
    BY <1>6
  <2>2. c <= 0 => d * c <= 0
    BY <1>6
  <2>3. b >= c => d * b >= d * c
    BY <1>6
  <2> QED
    BY <1>2, <1>3, <1>6, <1>7, <1>8, <2>1, <2>2, <2>3
<1>10. PICK n \in Nat : n = c + b
  BY <1>9
<1>11. n * (2 * len) = N + start
  <2>1. d * n = d * c + d * b
    BY <1>10
  <2>2. d * n = N + start
    BY <1>7, <1>8, <2>1
  <2> QED
    BY <1>6, <2>2
<1>12. Node(place, 2 * len) = n /\ place % (2 * len) < len
  <2>1. place < start + len
    OBVIOUS
  <2> QED
    BY <1>1, <1>2, <1>4, <1>11, <2>1, BlockOfPlace
<1>13. root = 3 * c - 1 - n
  <2>1. d * (root + n + 1) = d * (3 * c)
    <3>1. d * (root + n + 1) = d * root + d * n + d
      BY <1>2
    <3>2. d * root = 2 * N - 2 * len - start /\ d * n = N + start
      BY <1>2, <1>6, <1>11
    <3>3. d * (3 * c) = 3 * (d * c)
      OBVIOUS
    <3>4. d * root \in Int /\ d * n \in Int
      BY <1>2
    <3> QED
      BY <1>2, <1>3, <1>6, <1>8, <3>1, <3>2, <3>3, <3>4
  <2>2. PICK x \in Int, y \in Int : x = root + n + 1 /\ y = 3 * c
    BY <1>2
  <2>3. d * x = d * y
    BY <2>1, <2>2
  <2>4. x = y
    <3>1. x < y => d * x < d * y
      BY <1>6
    <3>2. y < x => d * y < d * x
      BY <1>6
    <3>3. d * x \in Int /\ d * y \in Int
      OBVIOUS
    <3> QED
      BY <2>3, <3>1, <3>2, <3>3
  <2> QED
    BY <1>2, <2>2, <2>4
<1>14. c \in {1, 2, 4, 8, 16, 32, 64, 128} /\ 2 * c <= N
  <2>1. N \in {2, 4, 8, 16, 32, 64, 128, 256}
    BY NttAssumption
  <2>2. 2 * c <= N
    <3>1. d * c >= 2 * c
      BY <1>3, <1>6, <1>9
    <3> QED
      BY <1>8, <3>1
  <2>3. N = (2 * len) * c
    BY <1>6, <1>8
  <2>4. CASE len \in {1, 2, 4, 8}
    BY <1>9, <2>1, <2>3, <2>4
  <2>5. CASE len \in {16, 32, 64, 128}
    BY <1>9, <2>1, <2>3, <2>5
  <2> QED
    BY <1>1, <2>2, <2>4, <2>5 DEF Lens
<1>15. n \in c .. 2 * c - 1
  BY <1>9, <1>10
<1>16. /\ 3 * c - 1 - n \in 1 .. N - 1 /\ n \in 1 .. N - 1
       /\ Congruent(-Z(3 * c - 1 - n) * Z(n), 1)
  BY <1>14, <1>15, MirrorRoots
<1>17. Z(root) \in Int /\ Z(n) \in Int
  BY <1>13, <1>16, RootValues
<1> QED
  BY <1>1, <1>2, <1>4, <1>5, <1>12, <1>13, <1>16, <1>17

\* A butterfly of invntt_tomont takes two places one layer back, and doubles them.
LEMMA ValueInverse == NttInv /\ ValueInv /\ inverse => ValueInv'
<1> SUFFICES ASSUME NttInv, ValueInv, inverse PROVE ValueInv'
  OBVIOUS
<1> DEFINE d == vec[place] - vec[place + len]
           t == MontgomeryReduce(-Zetas[root] * d)
<1>1. /\ phase = "invntt" /\ len < N /\ start < N /\ place < start + len
      /\ vec' = [vec EXCEPT ![place] = Word(@ + vec[place + len]),
                            ![place + len] = MontgomeryReduce(-Zetas[root] * Word(d))]
      /\ place' = place + 1
      /\ UNCHANGED <<phase, factors, first, len, start, root>>
  BY DEF inverse
<1>2. /\ len \in Nat /\ vec[place] \in Int /\ vec[place + len] \in Int
      /\ Word(vec[place] + vec[place + len]) = vec[place] + vec[place + len] /\ Word(d) = d
  BY <1>1, BackwardButterfly
<1>3. /\ len \in Lens /\ N % (2 * len) = 0 /\ place \in Coeffs /\ place + len \in Coeffs
      /\ start \in Nat /\ start <= place /\ ~Touched(place) /\ ~Touched(place + len)
      /\ root \in 1 .. N - 1 /\ place % (2 * len) < len
      /\ Z(root) \in Int /\ Z(Node(place, 2 * len)) \in Int
      /\ Congruent(-Z(root) * Z(Node(place, 2 * len)), 1)
  BY <1>1, InversePlace
<1>4. vec \in [Coeffs -> Int] /\ place \in Nat /\ Goal \in Polys
  BY FactorsArePolys DEF NttInv, Loops
<1>5. PICK j \in Coeffs : j = place + len /\ j # place
  BY <1>2, <1>3, <1>4 DEF Lens
<1>6. PICK x \in Int, y \in Int, z \in Int, o \in Int :
        /\ x = vec[place] /\ y = vec[j] /\ z = Z(Node(place, 2 * len)) /\ o = Z(root)
        /\ Congruent(-o * z, 1)
  BY <1>3, <1>4
<1>7. t \in Int /\ Congruent(t, -o * (x - y))
  <2>1. Zetas[root] \in Int /\ RInv \in Int
    BY <1>3, RootValues, RInvInverts
  <2>2. -Zetas[root] * (x - y) \in Int
    BY <2>1
  <2>3. t = MontgomeryReduce(-Zetas[root] * (x - y))
    BY <1>5, <1>6
  <2> HIDE DEF t
  <2>4. t \in Int /\ Congruent(t, RInv * (-Zetas[root] * (x - y)))
    BY <2>2, <2>3, MontgomeryValue
  <2>5. RInv * (-Zetas[root] * (x - y)) = -o * (x - y)
    BY <1>6, <2>1 DEF Z
  <2> QED
    BY <2>4, <2>5
<1>8. vec' = [vec EXCEPT ![place] = x + y, ![j] = t]
  BY <1>1, <1>2, <1>4, <1>5, <1>6
<1> HIDE DEF t, d
<1> DEFINE u == Value(Goal, 2 * len)
           w == Value(Goal, len)
<1>9. u \in Polys /\ w = Layer(u, len)
  BY <1>3, <1>4, ValuePoly, ValueLayer
<1> HIDE DEF u, w
<1>10. w[place] = u[place] + z * u[j] /\ w[j] = u[place] - z * u[j]
  BY <1>3, <1>5, <1>6, <1>9, LayerValue
<1>11. \A i \in Coeffs : Congruent(vec[i], (BackwardLayer(i) * RInv) * Value(Goal, BackwardLayer(i))[i])
  BY <1>1 DEF ValueInv, BackwardValue
<1>12. PICK c \in Int : c = len * RInv /\ 2 * c = (2 * len) * RInv
  BY <1>2, RInvInverts
<1>13. Congruent(x, c * w[place]) /\ Congruent(y, c * w[j])
  <2>1. BackwardLayer(place) = len /\ BackwardLayer(j) = len
    BY <1>1, <1>3, <1>5 DEF BackwardLayer
  <2> QED
    BY <1>3, <1>6, <1>11, <1>12, <2>1 DEF w
<1>14. PICK a0 \in Int, b0 \in Int : a0 = u[place] /\ b0 = u[j]
  BY <1>3, <1>9 DEF Polys
<1>15. PICK a1 \in Int, b1 \in Int :
         /\ a1 = c * (a0 + z * b0) /\ b1 = c * (a0 - z * b0)
         /\ Congruent(x, a1) /\ Congruent(y, b1)
  BY <1>10, <1>13, <1>14
<1>16. Congruent(x + y, (2 * c) * a0)
  <2>1. Congruent(x + y, a1 + b1)
    BY <1>15, CongruentCombines
  <2>2. a1 + b1 = (2 * c) * a0
    <3>1. PICK e \in Int : e = z * b0
      OBVIOUS
    <3>2. a1 = c * (a0 + e) /\ b1 = c * (a0 - e)
      BY <1>15, <3>1
    <3> QED
      BY <3>2
  <2> QED
    BY <2>1, <2>2
<1>17. Congruent(t, (2 * c) * b0)
  <2>1. Congruent(x - y, a1 - b1) /\ x - y \in Int /\ a1 - b1 \in Int /\ -o \in Int
    BY <1>15, CongruentCombines
  <2>2. PICK p \in Int, k \in Int, e \in Int : p = x - y /\ k = a1 - b1 /\ e = -o
    BY <2>1
  <2>3. Congruent(e * p, e * k)
    BY <2>1, <2>2, CongruentTimes
  <2>4. PICK f \in Int, g \in Int : f = e * z /\ g = (2 * c) * b0
    OBVIOUS
  <2>5. e * k = f * g
    <3>1. a1 - b1 = (2 * c) * (z * b0)
      <4>1. PICK s \in Int : s = z * b0
        OBVIOUS
      <4>2. a1 = c * (a0 + s) /\ b1 = c * (a0 - s)
        BY <1>15, <4>1
      <4>3. a1 - b1 = (2 * c) * s
        BY <4>2
      <4> QED
        BY <4>1, <4>3
    <3>2. k = z * g
      BY <2>2, <2>4, <3>1
    <3> QED
      BY <2>4, <3>2
  <2>6. Congruent(f, 1)
    <3>1. -o * z = (-o) * z
      BY <1>6
    <3> QED
      BY <1>6, <2>2, <2>4, <3>1
  <2>7. Congruent(f * g, 1 * g)
    BY <2>6, CongruentTimes
  <2>8. 1 * g = g /\ e * p \in Int /\ f * g \in Int
    OBVIOUS
  <2>9. Congruent(e * p, g)
    BY <2>3, <2>5, <2>7, <2>8, CongruentThrough
  <2>10. -o * (x - y) = e * p
    BY <2>2
  <2>11. Congruent(t, e * p)
    BY <1>7, <2>10
  <2> QED
    BY <1>7, <2>4, <2>8, <2>9, <2>11, CongruentThrough
<1>18. BackwardValue'
  <2> SUFFICES ASSUME NEW i \in Coeffs
               PROVE  Congruent(vec'[i], (BackwardLayer(i)' * RInv) * Value(Goal', BackwardLayer(i)')[i])
    BY DEF BackwardValue
  <2>1. Goal' = Goal
    BY <1>1 DEF Goal
  <2>2. Touched(i)' <=> Touched(i) \/ i = place \/ i = place + len
    BY <1>1, <1>2, <1>3, <1>4, TouchedNext
  <2>3. BackwardLayer(i)' = IF Touched(i)' THEN 2 * len ELSE len
    BY <1>1 DEF BackwardLayer
  <2>4. CASE i = place
    BY <1>4, <1>5, <1>8, <1>12, <1>14, <1>16, <2>1, <2>2, <2>3, <2>4 DEF u
  <2>5. CASE i = j
    BY <1>4, <1>5, <1>8, <1>12, <1>14, <1>17, <2>1, <2>2, <2>3, <2>5 DEF u
  <2>6. CASE i # place /\ i # j
    <3>1. vec'[i] = vec[i]
      BY <1>4, <1>8, <2>6
    <3>2. BackwardLayer(i)' = BackwardLayer(i)
      BY <1>1, <1>5, <2>2, <2>3, <2>6 DEF BackwardLayer
    <3> QED
      BY <1>11, <2>1, <3>1, <3>2
  <2> QED
    BY <2>4, <2>5, <2>6
<1>19. FirstValue'
  BY <1>1 DEF ValueInv, FirstValue
<1>20. ForwardValue' /\ DoneValue'
  BY <1>1 DEF ForwardValue, DoneValue
<1> QED
  BY <1>18, <1>19, <1>20 DEF ValueInv

\* Where nothing but the loops goes on, no coefficient comes to another layer.
LEMMA ValueBlock == NttInv /\ ValueInv /\ (forward_block \/ inverse_block) => ValueInv'
<1> SUFFICES ASSUME NttInv, ValueInv, forward_block \/ inverse_block PROVE ValueInv'
  OBVIOUS
<1>1. /\ start < N /\ place = start + len /\ start' = place + len /\ place' = start'
      /\ UNCHANGED <<phase, factors, vec, first, len>>
  BY DEF forward_block, inverse_block
<1>2. Loops /\ InLayer
  <2>1. Loops /\ ForwardRange /\ BackwardRange
    BY DEF NttInv
  <2>2. CASE forward_block
    BY <2>1, <2>2 DEF forward_block, ForwardRange, InLayer
  <2>3. CASE inverse_block
    <3>1. len \in Lens /\ len < N
      BY <2>1, <2>3, Sizes DEF inverse_block, BackwardRange
    <3> QED
      BY <2>1, <3>1 DEF InLayer, Lens
  <2> QED
    BY <2>2, <2>3
<1>3. \A i \in Coeffs : Touched(i)' <=> Touched(i)
  BY <1>1, <1>2, NextBlock
<1>4. \A i \in Coeffs : ForwardLayer(i)' = ForwardLayer(i) /\ BackwardLayer(i)' = BackwardLayer(i)
  BY <1>1, <1>3 DEF ForwardLayer, BackwardLayer
<1>5. Current' = Current /\ Goal' = Goal
  BY <1>1 DEF Current, Goal
<1>6. ForwardValue'
  BY <1>1, <1>4, <1>5 DEF ValueInv, ForwardValue
<1>7. BackwardValue'
  BY <1>1, <1>4, <1>5 DEF ValueInv, BackwardValue
<1>8. FirstValue' /\ DoneValue'
  BY <1>1, <1>5 DEF ValueInv, FirstValue, DoneValue, Small
<1> QED
  BY <1>6, <1>7, <1>8 DEF ValueInv

\* A layer of ntt is complete.
LEMMA ValueForwardLayer == NttInv /\ ValueInv /\ forward_layer => ValueInv'
<1> SUFFICES ASSUME NttInv, ValueInv, forward_layer PROVE ValueInv'
  OBVIOUS
<1>1. /\ phase = "ntt" /\ len > 0 /\ start >= N
      /\ len' = len \div 2 /\ start' = 0 /\ place' = 0
      /\ UNCHANGED <<phase, factors, vec, first>>
  BY DEF forward_layer
<1>2. Loops /\ ForwardRange /\ InLayer
  BY <1>1 DEF NttInv, ForwardRange, InLayer
<1>3. len \in Lens /\ N % (2 * len) = 0 /\ start = N /\ place = N
  BY <1>1, <1>2, Sizes DEF Loops, ForwardRange, InLayer
<1>4. \A i \in Coeffs : Touched(i)
  BY <1>3, Sizes DEF Touched, Coeffs
<1>5. /\ len' \in {0} \cup Lens
      /\ len' = 0 => len = 1
      /\ len' # 0 => 2 * len' = len /\ \A i \in Coeffs : ~Touched(i)'
  <2>1. len \div 2 \in {0} \cup Lens /\ (len \div 2 > 0 => 2 * (len \div 2) = len) /\ len < N
    BY <1>2, <1>3, LayersLeft DEF InLayer
  <2>2. len \div 2 = 0 => len = 1
    BY <1>3 DEF Lens
  <2>3. len' # 0 => \A i \in Coeffs : ~Touched(i)'
    BY <1>1, <2>1, Sizes DEF Touched, Coeffs, Lens
  <2> QED
    BY <1>1, <2>1, <2>2, <2>3 DEF Lens
<1>6. \A i \in Coeffs : ForwardLayer(i)' = ForwardLayer(i)
  BY <1>1, <1>4, <1>5 DEF ForwardLayer
<1>7. Current' = Current
  BY <1>1 DEF Current
<1>8. ForwardValue'
  BY <1>1, <1>6, <1>7 DEF ValueInv, ForwardValue
<1>9. FirstValue' /\ BackwardValue' /\ DoneValue'
  BY <1>1 DEF ValueInv, FirstValue, BackwardValue, DoneValue
<1> QED
  BY <1>8, <1>9 DEF ValueInv

\* A layer of invntt_tomont is complete.
LEMMA ValueInverseLayer == NttInv /\ ValueInv /\ inverse_layer => ValueInv'
<1> SUFFICES ASSUME NttInv, ValueInv, inverse_layer PROVE ValueInv'
  OBVIOUS
<1>1. /\ phase = "invntt" /\ len < N /\ start >= N
      /\ len' = 2 * len /\ start' = 0 /\ place' = 0
      /\ UNCHANGED <<phase, factors, vec, first>>
  BY DEF inverse_layer
<1>2. Loops /\ BackwardRange
  BY DEF NttInv
<1>3. len \in Lens /\ len \in Nat /\ len > 0
  BY <1>1, <1>2, Sizes DEF BackwardRange, Lens
<1>4. start = N /\ place = N
  BY <1>1, <1>2, <1>3, Sizes DEF Loops, InLayer
<1>5. \A i \in Coeffs : Touched(i) /\ (len' < N => ~Touched(i)')
  BY <1>1, <1>3, <1>4, Sizes DEF Touched, Coeffs
<1>6. \A i \in Coeffs : BackwardLayer(i)' = BackwardLayer(i)
  BY <1>1, <1>5 DEF BackwardLayer
<1>7. Goal' = Goal
  BY <1>1 DEF Goal
<1>8. BackwardValue'
  BY <1>1, <1>6, <1>7 DEF ValueInv, BackwardValue
<1>9. FirstValue' /\ ForwardValue' /\ DoneValue'
  BY <1>1 DEF ValueInv, FirstValue, ForwardValue, DoneValue
<1> QED
  BY <1>8, <1>9 DEF ValueInv

\* Before the first layer a polynomial stands for itself.
LEMMA ValueGiven ==
  ASSUME NEW f, f \in Polys, NEW i \in Coeffs
  PROVE  Congruent(f[i], Value(f, N)[i])
<1>1. f[i] \in Int
  BY DEF Polys
<1>2. Value(f, N) = f
  BY ValueLayer
<1> QED
  BY <1>1, <1>2, CongruentEquivalence

\* At first the coefficients are those of the first factor.
LEMMA ValueInit == NttInit => ValueInv
<1> SUFFICES ASSUME NttInit PROVE ValueInv
  OBVIOUS
<1>0. NttInv
  BY NttInvInit
<1>1. /\ factors \in Factors /\ vec = factors[1] /\ first = << >> /\ phase = "ntt"
      /\ len = N \div 2 /\ start = 0 /\ place = 0
  BY DEF NttInit
<1>2. factors[1] \in Polys /\ Current = factors[1]
  BY <1>0, <1>1, FactorsArePolys DEF Current
<1>3. \A i \in Coeffs : ForwardLayer(i) = N
  <2>1. \A i \in Coeffs : ~Touched(i)
    BY <1>1, FirstLayer, Sizes DEF Touched, Coeffs
  <2> QED
    BY <1>1, <2>1, FirstLayer, Sizes DEF ForwardLayer
<1>4. ForwardValue
  BY <1>1, <1>2, <1>3, ValueGiven DEF ForwardValue
<1> QED
  BY <1>1, <1>4 DEF ValueInv, FirstValue, BackwardValue, DoneValue

\* The first polynomial, once transformed, is there.
LEMMA NotEmpty ==
  ASSUME NEW f \in [Coeffs -> Int]
  PROVE  f # << >>
<1>1. 0 \in DOMAIN f
  BY Sizes DEF Coeffs
<1>2. ~(0 \in DOMAIN << >>)
  OBVIOUS
<1> QED
  BY <1>1, <1>2

\* The second factor begins.
LEMMA ValueSecond == NttInv /\ ValueInv /\ second => ValueInv'
<1> SUFFICES ASSUME NttInv, ValueInv, second PROVE ValueInv'
  OBVIOUS
<1>1. /\ phase = "ntt" /\ len = 0 /\ first = << >> /\ first' = vec /\ vec' = factors[2]
      /\ phase' = "ntt" /\ len' = N \div 2 /\ start' = 0 /\ place' = 0 /\ root' = 1
      /\ UNCHANGED factors
  BY DEF second, Begin
<1>2. first' # << >>
  BY <1>1, NotEmpty DEF NttInv
<1>3. factors[2] \in Polys /\ Current' = factors[2] /\ Current = factors[1]
  BY <1>1, <1>2, FactorsArePolys DEF Current
<1>4. \A i \in Coeffs : ForwardLayer(i)' = N /\ ForwardLayer(i) = 1
  <2>1. \A i \in Coeffs : ~Touched(i)'
    BY <1>1, FirstLayer, Sizes DEF Touched, Coeffs
  <2> QED
    BY <1>1, <2>1, FirstLayer, Sizes DEF ForwardLayer
<1>5. ForwardValue'
  BY <1>1, <1>3, <1>4, ValueGiven DEF ForwardValue
<1>6. FirstValue'
  <2>1. \A i \in Coeffs : Congruent(vec[i], Value(Current, ForwardLayer(i))[i])
    BY <1>1 DEF ValueInv, ForwardValue
  <2> QED
    BY <1>1, <1>3, <1>4, <2>1 DEF FirstValue
<1>7. BackwardValue' /\ DoneValue'
  BY <1>1 DEF BackwardValue, DoneValue
<1> QED
  BY <1>5, <1>6, <1>7 DEF ValueInv

\* The products of the transformed coefficients are the transformed product.
LEMMA ValuePointwise == NttInv /\ ValueInv /\ pointwise => ValueInv'
<1> SUFFICES ASSUME NttInv, ValueInv, pointwise PROVE ValueInv'
  OBVIOUS
<1>1. /\ phase = "ntt" /\ len = 0 /\ first # << >>
      /\ vec' = [i \in Coeffs |-> MontgomeryReduce(first[i] * vec[i])]
      /\ phase' = "invntt" /\ len' = 1 /\ start' = 0 /\ place' = 0 /\ root' = N - 1
      /\ UNCHANGED <<factors, first>>
  BY DEF pointwise, Begin
<1>2. first \in [Coeffs -> Int] /\ vec \in [Coeffs -> Int]
  BY <1>1 DEF NttInv
<1>3. /\ factors[1] \in Polys /\ factors[2] \in Polys /\ Goal \in Polys
      /\ Current = factors[2] /\ Goal' = Goal
  BY <1>1, FactorsArePolys DEF Current, Goal
<1>4. \A i \in Coeffs : BackwardLayer(i)' = 1 /\ ForwardLayer(i) = 1
  <2>1. \A i \in Coeffs : ~Touched(i)'
    BY <1>1, Sizes DEF Touched, Coeffs
  <2> QED
    BY <1>1, <2>1 DEF BackwardLayer, ForwardLayer
<1>5. ASSUME NEW i \in Coeffs
      PROVE  Congruent(vec'[i], (1 * RInv) * Value(Goal, 1)[i])
  <2>1. PICK x \in Int, y \in Int : x = first[i] /\ y = vec[i]
    BY <1>2
  <2>2. PICK u \in Int, w \in Int, g \in Int :
          u = Value(factors[1], 1)[i] /\ w = Value(factors[2], 1)[i] /\ g = Value(Goal, 1)[i]
    BY <1>3, ValueTyped
  <2>3. Congruent(x, u) /\ Congruent(y, w)
    BY <1>1, <1>3, <1>4, <2>1, <2>2 DEF ValueInv, FirstValue, ForwardValue
  <2>4. Congruent(g, u * w)
    <3>1. \A j \in Coeffs : Goal[j] = Product(factors[1], factors[2], j)
      BY DEF Goal
    <3> QED
      BY <1>3, <2>2, <3>1, ValueOfProduct
  <2>5. x * y \in Int /\ u * w \in Int /\ RInv \in Int
    BY RInvInverts
  <2>6. Congruent(x * y, u * w)
    BY <2>3, CongruentCombines
  <2>7. Congruent(x * y, g)
    BY <2>4, <2>5, <2>6, CongruentEquivalence
  <2>8. Congruent(RInv * (x * y), RInv * g)
    BY <2>5, <2>7, CongruentTimes
  <2>9. MontgomeryReduce(x * y) \in Int /\ Congruent(MontgomeryReduce(x * y), RInv * (x * y))
    BY <2>5, MontgomeryValue
  <2>10. RInv * (x * y) \in Int /\ RInv * g \in Int
    BY <2>5
  <2>11. Congruent(MontgomeryReduce(x * y), RInv * g)
    BY <2>8, <2>9, <2>10, CongruentThrough
  <2>12. vec'[i] = MontgomeryReduce(x * y)
    BY <1>1, <2>1
  <2>13. 1 * RInv = RInv
    BY <2>5
  <2> QED
    BY <2>2, <2>11, <2>12, <2>13
<1>6. BackwardValue'
  BY <1>3, <1>4, <1>5 DEF BackwardValue
<1>7. FirstValue'
  BY <1>1 DEF ValueInv, FirstValue
<1>8. ForwardValue' /\ DoneValue'
  BY <1>1 DEF ForwardValue, DoneValue
<1> QED
  BY <1>6, <1>7, <1>8 DEF ValueInv

\* F takes out the factors of the layers and of the reductions.
LEMMA LastFactor ==
  F \in Int /\ Congruent((RInv * F) * (N * RInv), 1)
<1>1. F \in Int /\ R \in Int /\ RInv \in Int /\ N \in Int /\ R * R \in Int
      /\ F * N \in Int /\ (F * N - R * R) % Q = 0
  BY NttAssumption, RootsAssumption, RInvInverts, Sizes
<1>2. Congruent(F * N, R * R)
  BY <1>1, CongruentRemainder
<1> DEFINE s == RInv * RInv
           one == R * RInv
<1>3. s \in Int /\ one \in Int /\ Congruent(one * one, 1)
  BY <1>1, RInvInverts, CongruentCombines
<1>4. (RInv * F) * (N * RInv) = s * (F * N) /\ s * (R * R) = one * one
  BY <1>1
<1> HIDE DEF s, one
<1>5. Congruent(s * (F * N), s * (R * R))
  BY <1>1, <1>2, <1>3, CongruentTimes
<1>6. s * (F * N) \in Int /\ one * one \in Int
  BY <1>1, <1>3
<1>7. Congruent(s * (F * N), 1)
  BY <1>3, <1>4, <1>5, <1>6, CongruentThrough
<1> QED
  BY <1>1, <1>4, <1>7

\* The last loop leaves the product.
LEMMA ValueScale == NttInv /\ ValueInv /\ scale => ValueInv'
<1> SUFFICES ASSUME NttInv, ValueInv, scale PROVE ValueInv'
  OBVIOUS
<1>1. /\ phase = "invntt" /\ len >= N /\ phase' = "done"
      /\ vec' = [i \in Coeffs |-> MontgomeryReduce(F * vec[i])]
      /\ UNCHANGED <<factors, first, len, start, place, root>>
  BY DEF scale
<1>2. vec \in [Coeffs -> Int] /\ BackwardRange /\ Goal \in Polys
  BY FactorsArePolys DEF NttInv
<1>3. len = N
  <2>1. len \in Lens \cup {N} /\ len <= N
    BY <1>1, <1>2 DEF BackwardRange
  <2> QED
    BY <1>1, <2>1, Sizes DEF Lens
<1>4. \A i \in Coeffs : Within(vec[i], N)
  BY <1>1, <1>2, <1>3, Sizes DEF BackwardRange
<1>5. F \in -(Q - 1) .. Q - 1
  BY NttAssumption, Sizes
<1>6. ASSUME NEW i \in Coeffs PROVE Congruent(vec'[i], Goal[i]) /\ Small(vec'[i])
  <2>1. PICK x \in Int, g \in Int : x = vec[i] /\ g = Goal[i]
    BY <1>2 DEF Polys
  <2>2. MontgomeryReduce(F * x) \in Int /\ Within(MontgomeryReduce(F * x), 1)
    BY <1>4, <1>5, <2>1, ReduceProduct
  <2>3. vec'[i] = MontgomeryReduce(F * x)
    BY <1>1, <2>1
  <2>4. Small(vec'[i])
    BY <2>2, <2>3, WithinOne
  <2>5. Congruent(x, (N * RInv) * g)
    <3>1. BackwardLayer(i) = N
      BY <1>3, Sizes DEF BackwardLayer
    <3>2. Value(Goal, N) = Goal
      BY ValueLayer
    <3> QED
      BY <1>1, <2>1, <3>1, <3>2 DEF ValueInv, BackwardValue
  <2>6. F \in Int /\ RInv \in Int /\ N \in Int /\ Congruent((RInv * F) * (N * RInv), 1)
    BY LastFactor, RInvInverts, Sizes
  <2>7. PICK e \in Int, f \in Int : e = RInv * F /\ f = N * RInv
    BY <2>6
  <2>8. F * x \in Int /\ RInv * (F * x) = e * x /\ e * x \in Int
    BY <2>6, <2>7
  <2>9. Congruent(MontgomeryReduce(F * x), e * x)
    <3>1. Congruent(MontgomeryReduce(F * x), RInv * (F * x))
      BY <2>8, MontgomeryValue
    <3> QED
      BY <2>8, <3>1
  <2>10. Congruent(e * x, e * (f * g)) /\ e * (f * g) \in Int
    <3>1. f * g \in Int /\ Congruent(x, f * g)
      BY <2>5, <2>7
    <3>2. Congruent(e * x, e * (f * g))
      BY <3>1, CongruentTimes
    <3> QED
      BY <3>2
  <2>11. Congruent(e * (f * g), g)
    <3>1. PICK p \in Int : p = e * f /\ Congruent(p, 1)
      BY <2>6, <2>7
    <3>2. Congruent(p * g, 1 * g)
      BY <3>1, CongruentTimes
    <3>3. p * g = e * (f * g) /\ 1 * g = g
      BY <3>1
    <3> QED
      BY <3>2, <3>3
  <2>12. Congruent(e * x, g)
    BY <2>8, <2>10, <2>11, CongruentThrough
  <2>13. Congruent(MontgomeryReduce(F * x), g)
    BY <2>2, <2>8, <2>9, <2>12, CongruentThrough
  <2> QED
    BY <2>1, <2>3, <2>4, <2>13
<1>7. Goal' = Goal
  BY <1>1 DEF Goal
<1>8. DoneValue'
  BY <1>6, <1>7 DEF DoneValue, Small
<1>9. FirstValue'
  BY <1>1 DEF ValueInv, FirstValue
<1>10. ForwardValue' /\ BackwardValue'
  BY <1>1 DEF ForwardValue, BackwardValue
<1> QED
  BY <1>8, <1>9, <1>10 DEF ValueInv

\* The invariant is about the variables of the transform.
LEMMA ValueStutter == ValueInv /\ UNCHANGED nttVars => ValueInv'
BY DEF ValueInv, nttVars, ForwardValue, FirstValue, BackwardValue, DoneValue, Current, Goal,
       ForwardLayer, BackwardLayer, Touched, Small

\* For all parameters and tables of roots as they are assumed to be, what
\* invntt_tomont gives is the product of the two polynomials, and its coefficients
\* are smaller than Q (DilithiumProduct).
THEOREM NttProduct == NttSpec => []DilithiumProduct
<1>1. NttInv /\ ValueInv /\ [NttNext]_nttVars => ValueInv'
  BY ValueForward, ValueBlock, ValueForwardLayer, ValueSecond, ValuePointwise,
     ValueInverse, ValueInverseLayer, ValueScale, ValueStutter DEF NttNext
<1>2. NttInv /\ ValueInv => DilithiumProduct
  <2> SUFFICES ASSUME NttInv, ValueInv, phase = "done", NEW i \in Coeffs
               PROVE  (vec[i] - Product(factors[1], factors[2], i)) % Q = 0 /\ Small(vec[i])
    BY DEF DilithiumProduct
  <2>1. Congruent(vec[i], Goal[i]) /\ Small(vec[i]) /\ Goal[i] = Product(factors[1], factors[2], i)
    BY DEF ValueInv, DoneValue, Goal
  <2>2. vec[i] \in Int /\ Goal[i] \in Int
    BY FactorsArePolys DEF NttInv, Polys
  <2>3. (vec[i] - Goal[i]) % Q = 0
    BY <2>1, <2>2, CongruentRemainder
  <2> QED
    BY <2>1, <2>3
<1>3. NttSpec => []ValueInv
  BY <1>1, NttInductive, ValueInit, PTL DEF NttSpec
<1> QED
  BY <1>2, <1>3, NttInductive, PTL

-----------------------------------------------------------------------------
(*  The samplers of ML-DSA  *)

\* A stream is one of bytes.
StreamsOfBytes == \A s \in Nonces, k \in Nat : DilithiumStream(s, k) \in 0 .. 255

Sampled == {"uniform", "eta"}

SamplingTypes ==
  /\ fn \in {"none", "challenge"} \cup Sampled
  /\ eta \in {2, 4} /\ nonce \in Nonces
  /\ fn # "challenge" => origin \in [Dilithium!Index -> Int] /\ sampled = [i \in Dilithium!Index |-> sampled[i]]
  /\ fn \in Sampled =>
       /\ ctr \in 0 .. SampleN /\ seen \in Nat
       /\ sq \in Nat /\ buflen \in Nat /\ pos \in Nat /\ buflen <= sq /\ pos <= buflen

\* The buffer has the last bytes that were squeezed, and what comes before
\* `pos` of them is what the candidates were made from.
BufferIsStream ==
  /\ fn \in Sampled => \A i \in 0 .. buflen - 1 : buf[i] = DilithiumStream(nonce, sq - buflen + i)
  /\ fn = "uniform" => 3 * seen = sq - buflen + pos /\ pos % 3 = 0
  /\ fn = "eta" => seen = 2 * (sq - buflen + pos)

SamplingInv == SamplingTypes /\ BufferIsStream /\ Dilithium!FirstAccepted

-----------------------------------------------------------------------------
LEMMA Parameters ==
  ASSUME Dilithium!SamplingParameters
  PROVE  /\ SampleN \in Nat /\ SampleN > 0 /\ SampleQ \in Nat /\ Block \in Nat /\ Block > 2
         /\ NBlocks * Block \in Nat
         /\ Etas \subseteq {2, 4}
         /\ \A i : i \in Dilithium!Index <=> i \in 0 .. SampleN - 1
<1>1. SampleN \in Nat /\ SampleN > 0 /\ SampleQ \in Nat /\ Block \in Nat /\ Block > 2 /\ NBlocks \in Nat
  BY DEF Dilithium!SamplingParameters
<1>2. NBlocks * Block \in Nat
  BY <1>1
<1> QED
  BY <1>1, <1>2 DEF Dilithium!SamplingParameters, Dilithium!Index

\* rej_eta computes t mod 5 by a multiplication and a shift; either way the
\* coefficient is the one residue in -eta .. eta.
LEMMA CentredIsValue ==
  ASSUME eta \in {2, 4}, fn = "eta", NEW t \in 0 .. 15, Dilithium!Accepted(t)
  PROVE  Dilithium!Centred(t) = Dilithium!ValueOf(t)
<1> DEFINE Is(v) == (eta - v - t) % (2 * eta + 1) = 0
<1>1. Dilithium!Centred(t) \in (-eta) .. eta /\ Is(Dilithium!Centred(t))
  <2>1. CASE eta = 2
    <3>1. t \in 0 .. 14 /\ Dilithium!Centred(t) = 2 - (t - ((205 * t) \div 1024) * 5)
      BY <2>1 DEF Dilithium!Accepted, Dilithium!Centred
    <3>2. \A u \in 0 .. 14 : LET v == 2 - (u - ((205 * u) \div 1024) * 5) IN
            v \in -2 .. 2 /\ (2 - v - u) % 5 = 0
      <4>1. \A u \in 0 .. 4 : (205 * u) \div 1024 = 0
        OBVIOUS
      <4>2. \A u \in 5 .. 9 : (205 * u) \div 1024 = 1
        OBVIOUS
      <4>3. \A u \in 10 .. 14 : (205 * u) \div 1024 = 2
        OBVIOUS
      <4> QED
        BY <4>1, <4>2, <4>3
    <3>3. Dilithium!Centred(t) \in -2 .. 2 /\ (2 - Dilithium!Centred(t) - t) % 5 = 0
      BY <3>1, <3>2
    <3> QED
      BY <2>1, <3>3
  <2>2. CASE eta = 4
    <3>1. t \in 0 .. 8 /\ Dilithium!Centred(t) = 4 - t
      BY <2>2 DEF Dilithium!Accepted, Dilithium!Centred
    <3>2. Dilithium!Centred(t) \in -4 .. 4 /\ (4 - Dilithium!Centred(t) - t) % 9 = 0
      BY <3>1
    <3> QED
      BY <2>2, <3>2
  <2> QED
    BY <2>1, <2>2
<1>2. \A v \in (-eta) .. eta, w \in (-eta) .. eta : Is(v) /\ Is(w) => v = w
  <2>1. \A v \in -2 .. 2, w \in -2 .. 2 :
          (2 - v - t) % 5 = 0 /\ (2 - w - t) % 5 = 0 => v = w
    OBVIOUS
  <2>2. \A v \in -4 .. 4, w \in -4 .. 4 :
          (4 - v - t) % 9 = 0 /\ (4 - w - t) % 9 = 0 => v = w
    OBVIOUS
  <2>3. CASE eta = 2
    BY <2>1, <2>3
  <2>4. CASE eta = 4
    BY <2>2, <2>4
  <2> QED
    BY <2>3, <2>4
<1>3. Dilithium!ValueOf(t) = CHOOSE v \in (-eta) .. eta : Is(v)
  BY DEF Dilithium!ValueOf
<1> HIDE DEF Is
<1> QED
  BY <1>1, <1>2, <1>3

\* What a call of the sampler looks at stays what it is.
LEMMA SameStream ==
  ASSUME fn' = fn, eta' = eta, nonce' = nonce
  PROVE  /\ \A c : /\ Dilithium!CandidateAt(c)' = Dilithium!CandidateAt(c)
                   /\ Dilithium!AcceptedAt(c)' = Dilithium!AcceptedAt(c)
         /\ \A t : Dilithium!ValueOf(t)' = Dilithium!ValueOf(t)
<1>1. \A c : Dilithium!CandidateAt(c)' = Dilithium!CandidateAt(c)
  BY DEF Dilithium!CandidateAt
<1>2. \A c : Dilithium!AcceptedAt(c)' = Dilithium!AcceptedAt(c)
  BY <1>1 DEF Dilithium!AcceptedAt, Dilithium!Accepted
<1>3. \A t : Dilithium!ValueOf(t)' = Dilithium!ValueOf(t)
  BY DEF Dilithium!ValueOf
<1> QED
  BY <1>1, <1>2, <1>3

-----------------------------------------------------------------------------
(*  One candidate after the other  *)

\* After s candidates n coefficients b are written, from the candidates o.
First(o, b, n, s) ==
  /\ \A i \in 0 .. n - 1 :
       /\ o[i] < s /\ Dilithium!AcceptedAt(o[i])
       /\ b[i] = Dilithium!ValueOf(Dilithium!CandidateAt(o[i]))
       /\ i > 0 => o[i - 1] < o[i]
  /\ \A c \in 0 .. s - 1 :
       Dilithium!AcceptedAt(c) => \/ \E i \in 0 .. n - 1 : o[i] = c
                                  \/ n = SampleN /\ c > o[SampleN - 1]

\* The next candidate is accepted and written.
LEMMA Accept ==
  ASSUME SampleN \in Nat, NEW o, NEW b, NEW n \in 0 .. SampleN - 1, NEW s \in Nat, First(o, b, n, s),
         \A i \in 0 .. n - 1 : o[i] \in Int,
         NEW p, NEW d, \A i \in 0 .. n - 1 : p[i] = o[i] /\ d[i] = b[i],
         p[n] = s, Dilithium!AcceptedAt(s), d[n] = Dilithium!ValueOf(Dilithium!CandidateAt(s))
  PROVE  First(p, d, n + 1, s + 1)
<1>1. ASSUME NEW i \in 0 .. n
      PROVE  /\ p[i] < s + 1 /\ Dilithium!AcceptedAt(p[i])
             /\ d[i] = Dilithium!ValueOf(Dilithium!CandidateAt(p[i]))
             /\ i > 0 => p[i - 1] < p[i]
  <2>1. CASE i < n
    <3>1. i \in 0 .. n - 1 /\ (i > 0 => i - 1 \in 0 .. n - 1)
      BY <2>1
    <3>2. /\ o[i] \in Int /\ o[i] < s /\ Dilithium!AcceptedAt(o[i])
          /\ b[i] = Dilithium!ValueOf(Dilithium!CandidateAt(o[i]))
      BY <3>1 DEF First
    <3>3. i > 0 => o[i - 1] < o[i]
      BY <3>1 DEF First
    <3>4. p[i] = o[i] /\ d[i] = b[i] /\ (i > 0 => p[i - 1] = o[i - 1])
      BY <3>1
    <3> QED
      BY <3>2, <3>3, <3>4
  <2>2. CASE i = n
    <3>1. n > 0 => n - 1 \in 0 .. n - 1
      OBVIOUS
    <3>2. n > 0 => p[n - 1] = o[n - 1] /\ o[n - 1] < s
      BY <3>1 DEF First
    <3> QED
      BY <2>2, <3>2
  <2> QED
    BY <2>1, <2>2
<1>2. ASSUME NEW c \in 0 .. s, Dilithium!AcceptedAt(c)
      PROVE  \E i \in 0 .. n : p[i] = c
  <2>1. CASE c = s
    BY <2>1
  <2>2. CASE c < s
    <3>1. PICK i \in 0 .. n - 1 : o[i] = c
      BY <1>2, <2>2 DEF First
    <3> QED
      BY <3>1
  <2> QED
    BY <2>1, <2>2
<1>3. n + 1 - 1 = n /\ s + 1 - 1 = s
  OBVIOUS
<1> QED
  BY <1>1, <1>2, <1>3 DEF First

\* The next candidate is not accepted, or there is no room for it.
LEMMA Skip ==
  ASSUME SampleN \in Nat, SampleN > 0, NEW o, NEW b, NEW n \in 0 .. SampleN, NEW s \in Nat, First(o, b, n, s),
         \A i \in 0 .. n - 1 : o[i] \in Int,
         NEW p, NEW d, \A i \in 0 .. n - 1 : p[i] = o[i] /\ d[i] = b[i],
         ~ Dilithium!AcceptedAt(s) \/ n = SampleN
  PROVE  First(p, d, n, s + 1)
<1>1. ASSUME NEW i \in 0 .. n - 1
      PROVE  /\ p[i] < s + 1 /\ Dilithium!AcceptedAt(p[i])
             /\ d[i] = Dilithium!ValueOf(Dilithium!CandidateAt(p[i]))
             /\ i > 0 => p[i - 1] < p[i]
  <2>1. i > 0 => i - 1 \in 0 .. n - 1
    OBVIOUS
  <2>2. /\ o[i] \in Int /\ o[i] < s /\ Dilithium!AcceptedAt(o[i])
        /\ b[i] = Dilithium!ValueOf(Dilithium!CandidateAt(o[i]))
    BY DEF First
  <2>3. i > 0 => o[i - 1] < o[i]
    BY DEF First
  <2>4. p[i] = o[i] /\ d[i] = b[i] /\ (i > 0 => p[i - 1] = o[i - 1])
    BY <2>1
  <2> QED
    BY <2>2, <2>3, <2>4
<1>2. ASSUME NEW c \in 0 .. s, Dilithium!AcceptedAt(c)
      PROVE  \/ \E i \in 0 .. n - 1 : p[i] = c
             \/ n = SampleN /\ c > p[SampleN - 1]
  <2>1. CASE c = s
    <3>1. n = SampleN
      BY <1>2, <2>1
    <3>2. SampleN - 1 \in 0 .. n - 1
      BY <3>1
    <3>3. p[SampleN - 1] = o[SampleN - 1] /\ o[SampleN - 1] < s /\ o[SampleN - 1] \in Int
      BY <3>2 DEF First
    <3> QED
      BY <2>1, <3>1, <3>3
  <2>2. CASE c < s
    <3>1. \/ \E i \in 0 .. n - 1 : o[i] = c
          \/ n = SampleN /\ c > o[SampleN - 1]
      BY <1>2, <2>2 DEF First
    <3>2. n = SampleN => p[SampleN - 1] = o[SampleN - 1]
      OBVIOUS
    <3> QED
      BY <3>1, <3>2
  <2> QED
    BY <2>1, <2>2
<1>3. s + 1 - 1 = s
  OBVIOUS
<1> QED
  BY <1>1, <1>2, <1>3 DEF First

\* FirstAccepted after a step of a sampler.
LEMMA FirstAfter ==
  ASSUME fn' = fn, eta' = eta, nonce' = nonce, First(origin', sampled', ctr', seen')
  PROVE  Dilithium!FirstAccepted'
<1>1. /\ \A c : /\ Dilithium!CandidateAt(c)' = Dilithium!CandidateAt(c)
                /\ Dilithium!AcceptedAt(c)' = Dilithium!AcceptedAt(c)
      /\ \A t : Dilithium!ValueOf(t)' = Dilithium!ValueOf(t)
  BY SameStream
<1> QED
  BY <1>1 DEF First, Dilithium!FirstAccepted

-----------------------------------------------------------------------------
(*  The steps  *)

LEMMA SamplingInit == Dilithium!SamplingParameters /\ Dilithium!Init => SamplingInv
<1> SUFFICES ASSUME Dilithium!SamplingParameters, Dilithium!Init PROVE SamplingInv
  OBVIOUS
<1>1. /\ sampled = [i \in Dilithium!Index |-> 0] /\ origin = sampled
      /\ fn = "none" /\ eta \in Etas /\ nonce \in Nonces
  BY DEF Dilithium!Init
<1>2. origin \in [Dilithium!Index -> Int] /\ sampled = [i \in Dilithium!Index |-> sampled[i]]
  BY <1>1
<1> QED
  BY <1>1, <1>2, Parameters DEF SamplingInv, SamplingTypes, BufferIsStream, Dilithium!FirstAccepted, Sampled

\* The first blocks of a call.
LEMMA SamplingCall ==
  ASSUME Dilithium!SamplingParameters, SamplingInv, NEW s \in Nonces,
         Dilithium!poly_uniform(s) \/ Dilithium!poly_uniform_eta(s)
  PROVE  SamplingInv'
<1> DEFINE n == NBlocks * Block
<1>1. n \in Nat /\ SampleN \in Nat
  BY Parameters
<1>2. /\ fn' \in Sampled /\ fn = "none" /\ nonce' = s /\ eta' = eta
      /\ buflen' = n /\ sq' = n /\ buf' = Dilithium!Squeeze(s, 0, <<>>, 0, n)
      /\ pos' = 0 /\ ctr' = 0 /\ seen' = 0 /\ sampled' = sampled /\ origin' = origin
  BY DEF Dilithium!poly_uniform, Dilithium!poly_uniform_eta, Sampled
<1> HIDE DEF n
<1>3. SamplingTypes'
  BY <1>1, <1>2 DEF SamplingInv, SamplingTypes
<1>4. \A i \in 0 .. n - 1 : buf'[i] = DilithiumStream(s, i)
  <2>1. buf' = [i \in 0 .. n - 1 |-> IF i < 0 THEN <<>>[i] ELSE DilithiumStream(s, 0 + i - 0)]
    BY <1>1, <1>2 DEF Dilithium!Squeeze
  <2> QED
    BY <1>1, <2>1
<1>5. BufferIsStream'
  <2>1. \A i \in 0 .. n - 1 : n - n + i = i
    BY <1>1
  <2>2. \A i \in 0 .. n - 1 : DilithiumStream(s, n - n + i) = DilithiumStream(s, i)
    BY <2>1
  <2> QED
    BY <1>1, <1>2, <1>4, <2>2 DEF BufferIsStream
<1>6. Dilithium!FirstAccepted'
  BY <1>2 DEF Dilithium!FirstAccepted
<1> QED
  BY <1>3, <1>5, <1>6 DEF SamplingInv

\* The bytes that the next candidates are made from.
LEMMA BytesAhead ==
  ASSUME Dilithium!SamplingParameters, SamplingInv, fn \in Sampled, NEW k \in Nat, pos + k < buflen
  PROVE  buf[pos + k] = DilithiumStream(nonce, (sq - buflen + pos) + k)
<1>1. sq \in Nat /\ buflen \in Nat /\ pos \in Nat
  BY DEF SamplingInv, SamplingTypes
<1>2. pos + k \in 0 .. buflen - 1
  BY <1>1
<1>3. buf[pos + k] = DilithiumStream(nonce, sq - buflen + (pos + k))
  BY <1>2 DEF SamplingInv, BufferIsStream
<1>4. sq - buflen + (pos + k) = (sq - buflen + pos) + k
  BY <1>1
<1> QED
  BY <1>3, <1>4

LEMMA UniformStep ==
  ASSUME Dilithium!SamplingParameters, SamplingInv, Dilithium!rej_uniform
  PROVE  SamplingInv'
<1> DEFINE t == Dilithium!Candidate(buf[pos], buf[pos + 1], buf[pos + 2])
<1>1. /\ fn = "uniform" /\ ctr < SampleN /\ pos + 3 <= buflen
      /\ pos' = pos + 3 /\ seen' = seen + 1
      /\ fn' = fn /\ eta' = eta /\ nonce' = nonce /\ sq' = sq /\ buf' = buf /\ buflen' = buflen
  BY DEF Dilithium!rej_uniform
<1>2. /\ SampleN \in Nat /\ ctr \in 0 .. SampleN - 1 /\ seen \in Nat /\ SampleN > 0
      /\ sq \in Nat /\ buflen \in Nat /\ pos \in Nat /\ buflen <= sq /\ pos <= buflen
      /\ origin \in [Dilithium!Index -> Int] /\ sampled = [i \in Dilithium!Index |-> sampled[i]]
      /\ 3 * seen = sq - buflen + pos /\ pos % 3 = 0
      /\ First(origin, sampled, ctr, seen)
  BY <1>1, Parameters DEF SamplingInv, SamplingTypes, BufferIsStream, Dilithium!FirstAccepted, First, Sampled
<1>3. t = Dilithium!CandidateAt(seen)
  <2>1. \A k \in 0 .. 2 : buf[pos + k] = DilithiumStream(nonce, 3 * seen + k)
    <3>1. pos \in Nat /\ buflen \in Nat /\ pos + 3 <= buflen
      BY <1>1, <1>2
    <3>2. \A k \in 0 .. 2 : k \in Nat /\ pos + k < buflen
      BY <3>1
    <3> QED
      BY <1>1, <1>2, <3>2, BytesAhead DEF Sampled
  <2>2. pos + 0 = pos /\ 3 * seen + 0 = 3 * seen
    BY <1>2
  <2>3. buf[pos] = DilithiumStream(nonce, 3 * seen) /\ buf[pos + 1] = DilithiumStream(nonce, 3 * seen + 1)
        /\ buf[pos + 2] = DilithiumStream(nonce, 3 * seen + 2)
    BY <2>1, <2>2
  <2> QED
    BY <1>1, <2>3 DEF Dilithium!CandidateAt
<1>4. Dilithium!AcceptedAt(seen) <=> t < SampleQ
  BY <1>1, <1>3 DEF Dilithium!AcceptedAt
<1>5. Dilithium!ValueOf(Dilithium!CandidateAt(seen)) = t
  BY <1>1, <1>3 DEF Dilithium!ValueOf
<1>6. /\ t < SampleQ => /\ sampled' = [sampled EXCEPT ![ctr] = t]
                        /\ origin' = [origin EXCEPT ![ctr] = seen] /\ ctr' = ctr + 1
      /\ ~ (t < SampleQ) => sampled' = sampled /\ origin' = origin /\ ctr' = ctr
  BY DEF Dilithium!rej_uniform
<1> HIDE DEF t
<1>7. \A i \in 0 .. ctr - 1 : i \in Dilithium!Index /\ origin[i] \in Int /\ i # ctr
  BY <1>2 DEF Dilithium!Index
<1>8. ctr \in Dilithium!Index
  BY <1>2 DEF Dilithium!Index
<1>9. First(origin', sampled', ctr', seen')
  <2>1. CASE t < SampleQ
    <3>1. \A i \in 0 .. ctr - 1 : origin'[i] = origin[i] /\ sampled'[i] = sampled[i]
      BY <1>2, <1>6, <1>7, <2>1
    <3>2. origin'[ctr] = seen /\ sampled'[ctr] = Dilithium!ValueOf(Dilithium!CandidateAt(seen))
      BY <1>2, <1>5, <1>6, <1>8, <2>1
    <3> QED
      <4>1. \A i \in 0 .. ctr - 1 : origin[i] \in Int
        BY <1>7
      <4>2. Dilithium!AcceptedAt(seen) /\ ctr' = ctr + 1 /\ seen' = seen + 1
        BY <1>1, <1>4, <1>6, <2>1
      <4>3. SampleN \in Nat /\ ctr \in 0 .. SampleN - 1 /\ seen \in Nat /\ First(origin, sampled, ctr, seen)
        BY <1>2
      <4>4. First(origin', sampled', ctr + 1, seen + 1)
        BY <3>1, <3>2, <4>1, <4>2, <4>3, Accept
      <4> QED
        BY <4>2, <4>4
  <2>2. CASE ~ (t < SampleQ)
    <3>1. ctr \in 0 .. SampleN /\ ctr' = ctr /\ seen' = seen + 1 /\ ~ Dilithium!AcceptedAt(seen)
      BY <1>1, <1>2, <1>4, <1>6, <2>2
    <3>2. \A i \in 0 .. ctr - 1 : origin'[i] = origin[i] /\ sampled'[i] = sampled[i]
      BY <1>6, <2>2
    <3> QED
      <4>1. \A i \in 0 .. ctr - 1 : origin[i] \in Int
        BY <1>7
      <4>2. ~ Dilithium!AcceptedAt(seen) \/ ctr = SampleN
        BY <3>1
      <4>3. SampleN \in Nat /\ SampleN > 0 /\ seen \in Nat /\ First(origin, sampled, ctr, seen)
        BY <1>2
      <4>4. First(origin', sampled', ctr, seen + 1)
        BY <3>1, <3>2, <4>1, <4>2, <4>3, Skip
      <4> QED
        BY <3>1, <4>4
  <2> QED
    BY <2>1, <2>2
<1>10. Dilithium!FirstAccepted'
  BY <1>1, <1>9, FirstAfter
<1>11. /\ origin' \in [Dilithium!Index -> Int] /\ sampled' = [i \in Dilithium!Index |-> sampled'[i]]
       /\ ctr' \in 0 .. SampleN
  BY <1>2, <1>6, <1>8
<1>12. SamplingTypes'
  BY <1>1, <1>2, <1>11 DEF SamplingInv, SamplingTypes
<1>13. BufferIsStream'
  <2>1. 3 * (seen + 1) = sq - buflen + (pos + 3) /\ (pos + 3) % 3 = 0
    BY <1>2
  <2> QED
    BY <1>1, <2>1 DEF SamplingInv, BufferIsStream
<1> QED
  BY <1>10, <1>12, <1>13 DEF SamplingInv

\* A block that is put behind `off` bytes that are left.
LEMMA Refilled ==
  ASSUME Dilithium!SamplingParameters, SamplingInv, fn \in Sampled, NEW off \in Nat, off = buflen - pos,
         NEW moved, \A i \in 0 .. off - 1 : moved[i] = buf[pos + i],
         buf' = Dilithium!Squeeze(nonce, sq, moved, off, Block), buflen' = Block + off, sq' = sq + Block,
         pos' = 0, fn' = fn, eta' = eta, nonce' = nonce, ctr' = ctr, sampled' = sampled, seen' = seen,
         origin' = origin
  PROVE  SamplingInv'
<1>1. /\ SampleN \in Nat /\ Block \in Nat
      /\ sq \in Nat /\ buflen \in Nat /\ pos \in Nat /\ buflen <= sq /\ pos <= buflen
  BY Parameters DEF SamplingInv, SamplingTypes
<1>2. SamplingTypes'
  BY <1>1 DEF SamplingInv, SamplingTypes
<1>3. sq' - buflen' = sq - off
  BY <1>1
<1>4. \A i \in 0 .. buflen' - 1 : buf'[i] = DilithiumStream(nonce, (sq' - buflen') + i)
  <2> SUFFICES ASSUME NEW i \in 0 .. buflen' - 1
               PROVE  buf'[i] = DilithiumStream(nonce, (sq - off) + i)
    BY <1>3
  <2>1. i \in 0 .. (off + Block - 1)
    BY <1>1
  <2>2. buf'[i] = IF i < off THEN moved[i] ELSE DilithiumStream(nonce, sq + i - off)
    BY <2>1 DEF Dilithium!Squeeze
  <2>3. CASE i < off
    <3>1. moved[i] = buf[pos + i] /\ i \in Nat /\ pos + i < buflen
      BY <1>1, <2>3
    <3>2. buf[pos + i] = DilithiumStream(nonce, (sq - buflen + pos) + i)
      BY <3>1, BytesAhead
    <3>3. (sq - buflen + pos) + i = (sq - off) + i
      BY <1>1
    <3> QED
      BY <2>2, <2>3, <3>1, <3>2, <3>3
  <2>4. CASE ~ (i < off)
    <3>1. sq + i - off = (sq - off) + i
      BY <1>1
    <3> QED
      BY <2>2, <2>4, <3>1
  <2> QED
    BY <2>3, <2>4
<1>5. BufferIsStream'
  <2>1. (sq' - buflen') + 0 = sq - buflen + pos
    BY <1>1, <1>3
  <2> QED
    BY <1>1, <1>4, <2>1 DEF SamplingInv, BufferIsStream
<1>6. Dilithium!FirstAccepted'
  <2>1. First(origin, sampled, ctr, seen)
    BY DEF SamplingInv, Dilithium!FirstAccepted, First, Sampled
  <2> QED
    BY <2>1, FirstAfter
<1> QED
  BY <1>2, <1>5, <1>6 DEF SamplingInv

LEMMA UniformRefill ==
  ASSUME Dilithium!SamplingParameters, SamplingInv, Dilithium!uniform_refill
  PROVE  SamplingInv'
<1> DEFINE off == buflen % 3
           moved == [i \in 0 .. (off - 1) |-> buf[buflen - off + i]]
<1>1. /\ fn = "uniform" /\ pos + 3 > buflen
      /\ buf' = Dilithium!Squeeze(nonce, sq, moved, off, Block) /\ buflen' = Block + off
      /\ sq' = sq + Block /\ pos' = 0
      /\ fn' = fn /\ eta' = eta /\ nonce' = nonce /\ ctr' = ctr /\ sampled' = sampled /\ seen' = seen
      /\ origin' = origin
  BY DEF Dilithium!uniform_refill
<1>2. buflen \in Nat /\ pos \in Nat /\ pos <= buflen /\ pos % 3 = 0
  BY <1>1 DEF SamplingInv, SamplingTypes, BufferIsStream, Sampled
<1>3. off \in Nat /\ off = buflen - pos
  BY <1>1, <1>2
<1>4. \A i \in 0 .. off - 1 : moved[i] = buf[pos + i]
  <2>1. buflen - off = pos
    BY <1>2, <1>3
  <2> QED
    BY <2>1
<1> HIDE DEF off, moved
<1> QED
  BY <1>1, <1>3, <1>4, Refilled DEF Sampled

LEMMA EtaRefill ==
  ASSUME Dilithium!SamplingParameters, SamplingInv, Dilithium!eta_refill
  PROVE  SamplingInv'
<1>1. /\ fn = "eta" /\ pos >= buflen
      /\ buf' = Dilithium!Squeeze(nonce, sq, <<>>, 0, Block) /\ buflen' = Block
      /\ sq' = sq + Block /\ pos' = 0
      /\ fn' = fn /\ eta' = eta /\ nonce' = nonce /\ ctr' = ctr /\ sampled' = sampled /\ seen' = seen
      /\ origin' = origin
  BY DEF Dilithium!eta_refill
<1>2. buflen \in Nat /\ pos \in Nat /\ pos <= buflen /\ Block \in Nat
  BY <1>1, Parameters DEF SamplingInv, SamplingTypes, Sampled
<1>3. buflen - pos = 0 /\ Block + 0 = Block
  BY <1>1, <1>2
<1>4. \A i \in 0 .. 0 - 1 : <<>>[i] = buf[pos + i]
  OBVIOUS
<1> QED
  BY <1>1, <1>3, <1>4, Refilled DEF Sampled

\* Both halves of a byte.
LEMMA EtaStep ==
  ASSUME Dilithium!SamplingParameters, StreamsOfBytes, SamplingInv, Dilithium!rej_eta
  PROVE  SamplingInv'
<1> DEFINE t0 == buf[pos] % 16
           t1 == buf[pos] \div 16
           c1 == IF Dilithium!Accepted(t0) THEN ctr + 1 ELSE ctr
           two == Dilithium!Accepted(t1) /\ c1 < SampleN
<1>1. /\ fn = "eta" /\ ctr < SampleN /\ pos < buflen
      /\ pos' = pos + 1 /\ seen' = seen + 2
      /\ fn' = fn /\ eta' = eta /\ nonce' = nonce /\ sq' = sq /\ buf' = buf /\ buflen' = buflen
  BY DEF Dilithium!rej_eta
<1>2. /\ SampleN \in Nat /\ ctr \in 0 .. SampleN - 1 /\ seen \in Nat /\ SampleN > 0 /\ eta \in {2, 4}
      /\ sq \in Nat /\ buflen \in Nat /\ pos \in Nat /\ buflen <= sq /\ pos <= buflen
      /\ origin \in [Dilithium!Index -> Int] /\ sampled = [i \in Dilithium!Index |-> sampled[i]]
      /\ seen = 2 * (sq - buflen + pos) /\ nonce \in Nonces
      /\ First(origin, sampled, ctr, seen)
  BY <1>1, Parameters DEF SamplingInv, SamplingTypes, BufferIsStream, Dilithium!FirstAccepted, First, Sampled
<1>3. /\ t0 \in 0 .. 15 /\ t0 = Dilithium!CandidateAt(seen)
      /\ t1 \in 0 .. 15 /\ t1 = Dilithium!CandidateAt(seen + 1)
  <2> DEFINE p == sq - buflen + pos
  <2>1. p \in Nat /\ seen = 2 * p /\ pos + 0 = pos /\ p + 0 = p
    BY <1>2
  <2>2. buf[pos] = DilithiumStream(nonce, p)
    BY <1>1, <2>1, BytesAhead DEF Sampled
  <2> HIDE DEF p
  <2>3. buf[pos] \in 0 .. 255
    BY <1>2, <2>1, <2>2 DEF StreamsOfBytes
  <2>4. seen % 2 = 0 /\ seen \div 2 = p /\ (seen + 1) % 2 = 1 /\ (seen + 1) \div 2 = p
    BY <2>1
  <2> QED
    BY <1>1, <2>2, <2>3, <2>4 DEF Dilithium!CandidateAt
<1>4. /\ ctr' = IF two THEN c1 + 1 ELSE c1
      /\ sampled' = [i \in Dilithium!Index |-> IF i = ctr /\ Dilithium!Accepted(t0) THEN Dilithium!Centred(t0)
                               ELSE IF i = c1 /\ two THEN Dilithium!Centred(t1) ELSE sampled[i]]
      /\ origin' = [i \in Dilithium!Index |-> IF i = ctr /\ Dilithium!Accepted(t0) THEN seen
                                    ELSE IF i = c1 /\ two THEN seen + 1 ELSE origin[i]]
  BY DEF Dilithium!rej_eta
<1>5. /\ Dilithium!Accepted(t0) <=> Dilithium!AcceptedAt(seen)
      /\ Dilithium!Accepted(t1) <=> Dilithium!AcceptedAt(seen + 1)
  BY <1>1, <1>3 DEF Dilithium!AcceptedAt
<1>6. /\ Dilithium!Accepted(t0) => Dilithium!Centred(t0) = Dilithium!ValueOf(Dilithium!CandidateAt(seen))
      /\ Dilithium!Accepted(t1) => Dilithium!Centred(t1) = Dilithium!ValueOf(Dilithium!CandidateAt(seen + 1))
  BY <1>1, <1>2, <1>3, CentredIsValue
<1> HIDE DEF t0, t1
<1>7. \A i \in 0 .. ctr - 1 : i \in Dilithium!Index /\ origin[i] \in Int /\ i # ctr
  BY <1>2 DEF Dilithium!Index
<1>8. /\ ctr \in Dilithium!Index /\ c1 \in 0 .. SampleN /\ (two => c1 \in Dilithium!Index)
      /\ Dilithium!Accepted(t0) => c1 = ctr + 1
      /\ ~ Dilithium!Accepted(t0) => c1 = ctr
  BY <1>2 DEF Dilithium!Index
<1>9. First(origin', sampled', c1, seen + 1)
  <2>1. \A i \in 0 .. ctr - 1 : i # c1
    BY <1>2
  <2>2. \A i \in 0 .. ctr - 1 : origin'[i] = origin[i] /\ sampled'[i] = sampled[i]
    BY <1>4, <1>7, <2>1
  <2>3. CASE Dilithium!Accepted(t0)
    <3>1. origin'[ctr] = seen /\ sampled'[ctr] = Dilithium!ValueOf(Dilithium!CandidateAt(seen))
      BY <1>4, <1>6, <1>8, <2>3
    <3> QED
      BY <1>2, <1>5, <1>7, <1>8, <2>2, <2>3, <3>1, Accept
  <2>4. CASE ~ Dilithium!Accepted(t0)
    <3>1. ctr \in 0 .. SampleN /\ ~ Dilithium!AcceptedAt(seen)
      BY <1>2, <1>5, <2>4
    <3>2. First(origin', sampled', ctr, seen + 1)
      <4>1. \A i \in 0 .. ctr - 1 : origin[i] \in Int
        BY <1>7
      <4>2. ~ Dilithium!AcceptedAt(seen) \/ ctr = SampleN
        BY <3>1
      <4>3. SampleN \in Nat /\ SampleN > 0 /\ seen \in Nat /\ First(origin, sampled, ctr, seen)
        BY <1>2
      <4> QED
        BY <2>2, <3>1, <4>1, <4>2, <4>3, Skip
    <3> QED
      BY <1>8, <2>4, <3>2
  <2> QED
    BY <2>3, <2>4
<1>10. origin' \in [Dilithium!Index -> Int] /\ sampled' = [i \in Dilithium!Index |-> sampled'[i]]
  BY <1>2, <1>4
<1>11. \A i \in 0 .. c1 - 1 : origin'[i] \in Int
  <2>1. c1 \in 0 .. SampleN
    BY <1>8
  <2> HIDE DEF c1
  <2>2. \A i \in 0 .. c1 - 1 : i \in Dilithium!Index
    BY <1>2, <2>1 DEF Dilithium!Index
  <2> QED
    BY <1>10, <2>2
<1>12. First(origin', sampled', ctr', seen')
  <2>1. seen + 1 \in Nat /\ seen' = (seen + 1) + 1
    BY <1>1, <1>2
  <2>2. CASE two
    <3>1. c1 \in 0 .. SampleN - 1 /\ ctr' = c1 + 1 /\ ~ (c1 = ctr /\ Dilithium!Accepted(t0))
      BY <1>2, <1>4, <1>8, <2>2
    <3>2. origin'[c1] = seen + 1 /\ sampled'[c1] = Dilithium!ValueOf(Dilithium!CandidateAt(seen + 1))
      BY <1>4, <1>6, <1>8, <2>2, <3>1
    <3>3. Dilithium!AcceptedAt(seen + 1)
      BY <1>5, <2>2
    <3> QED
      BY <1>2, <1>9, <1>11, <2>1, <3>1, <3>2, <3>3, Accept
  <2>3. CASE ~ two
    <3>1. ctr' = c1
      BY <1>4, <2>3
    <3>2. ~ Dilithium!Accepted(t1) \/ ~ (c1 < SampleN)
      BY <2>3
    <3>3. c1 \in 0 .. SampleN
      BY <1>8
    <3> HIDE DEF c1
    <3>4. ~ Dilithium!AcceptedAt(seen + 1) \/ c1 = SampleN
      BY <1>2, <1>5, <3>2, <3>3
    <3> QED
      BY <1>2, <1>9, <1>11, <2>1, <3>1, <3>3, <3>4, Skip
  <2> QED
    BY <2>2, <2>3
<1>13. Dilithium!FirstAccepted'
  BY <1>1, <1>12, FirstAfter
<1>14. SamplingTypes'
  <2>1. ctr' \in 0 .. SampleN /\ seen' \in Nat /\ pos' \in Nat /\ pos' <= buflen
    BY <1>1, <1>2, <1>4, <1>8
  <2> QED
    BY <1>1, <1>2, <1>10, <2>1 DEF SamplingInv, SamplingTypes
<1>15. BufferIsStream'
  <2>1. seen + 2 = 2 * (sq - buflen + (pos + 1))
    BY <1>2
  <2> QED
    BY <1>1, <2>1 DEF SamplingInv, BufferIsStream
<1> QED
  BY <1>13, <1>14, <1>15 DEF SamplingInv

LEMMA SamplingNext ==
  ASSUME Dilithium!SamplingParameters, StreamsOfBytes, SamplingInv, [Dilithium!Next]_(Dilithium!vars)
  PROVE  SamplingInv'
<1>1. ASSUME NEW s \in Nonces, Dilithium!poly_challenge(s)
      PROVE  SamplingInv'
  BY <1>1 DEF Dilithium!poly_challenge, SamplingInv, SamplingTypes, BufferIsStream, Dilithium!FirstAccepted,
     Sampled
<1>2. CASE Dilithium!challenge_draw \/ Dilithium!challenge_refill
  BY <1>2 DEF Dilithium!challenge_draw, Dilithium!challenge_refill, SamplingInv, SamplingTypes,
     BufferIsStream, Dilithium!FirstAccepted, Sampled
<1>3. CASE Dilithium!Return
  <2>1. /\ fn' = "none" /\ sampled' = [i \in Dilithium!Index |-> 0] /\ origin' = sampled'
        /\ eta' = eta /\ nonce' = nonce
    BY <1>3 DEF Dilithium!Return
  <2>2. origin' \in [Dilithium!Index -> Int] /\ sampled' = [i \in Dilithium!Index |-> sampled'[i]]
    BY <2>1
  <2> QED
    BY <2>1, <2>2 DEF SamplingInv, SamplingTypes, BufferIsStream, Dilithium!FirstAccepted, Sampled
<1>4. CASE UNCHANGED Dilithium!vars
  <2>1. SamplingTypes' /\ BufferIsStream'
    BY <1>4 DEF Dilithium!vars, SamplingInv, SamplingTypes, BufferIsStream
  <2>2. Dilithium!FirstAccepted'
    BY <1>4 DEF Dilithium!vars, SamplingInv, Dilithium!FirstAccepted, Dilithium!AcceptedAt,
       Dilithium!Accepted, Dilithium!CandidateAt, Dilithium!ValueOf
  <2> QED
    BY <2>1, <2>2 DEF SamplingInv
<1> QED
  BY <1>1, <1>2, <1>3, <1>4, SamplingCall, UniformStep, UniformRefill, EtaStep, EtaRefill
    DEF Dilithium!Next, Dilithium!Step

-----------------------------------------------------------------------------
(*  What MCPolynomials checks on its instance  *)

\* No sum of the transform of ML-DSA leaves a word in any behaviour of
\* MCPolynomials, where the transform runs beside the samplers and ML-KEM.
THEOREM PolynomialsStayInWord == PolynomialsSpec => []StaysInWord
<1>1. PolynomialsInit => NttInit
  BY DEF PolynomialsInit
<1>2. [PolynomialsNext]_polynomialsVars => [NttNext]_nttVars
  BY DEF PolynomialsNext, polynomialsVars
<1>3. PolynomialsSpec => NttSpec
  BY <1>1, <1>2, PTL DEF PolynomialsSpec, NttSpec
<1> QED
  BY <1>3, NttStaysInWord, PTL

\* The result of the transform of ML-DSA is the product of the two polynomials in
\* any behaviour of MCPolynomials (DilithiumProduct).
THEOREM PolynomialsProduct == PolynomialsSpec => []DilithiumProduct
<1>1. PolynomialsInit => NttInit
  BY DEF PolynomialsInit
<1>2. [PolynomialsNext]_polynomialsVars => [NttNext]_nttVars
  BY DEF PolynomialsNext, polynomialsVars
<1>3. PolynomialsSpec => NttSpec
  BY <1>1, <1>2, PTL DEF PolynomialsSpec, NttSpec
<1> QED
  BY <1>3, NttProduct, PTL

\* The variables of the sampler are those of ML-KEM's when that one runs.
SamplersInv == IF part = "dilithium" THEN SamplingInv ELSE fn = "none"

\* poly_uniform and poly_uniform_eta, with rej_uniform, rej_eta and the loops that
\* squeeze more blocks: the coefficients are the first accepted candidates of the
\* stream, in order.
THEOREM PolynomialsFirstAccepted ==
  ASSUME StreamsOfBytes
  PROVE  PolynomialsSpec => []FirstAccepted
<1>1. Dilithium!SamplingParameters
  BY PolynomialsAssumption
<1>2. PolynomialsInit => SamplersInv
  <2>1. PolynomialsInit => Dilithium!Init
    BY DEF PolynomialsInit
  <2>2. Dilithium!Init => fn = "none"
    BY DEF Dilithium!Init
  <2> QED
    BY <1>1, <2>1, <2>2, SamplingInit DEF SamplersInv
<1>3. SamplersInv /\ [PolynomialsNext]_polynomialsVars => SamplersInv'
  <2> SUFFICES ASSUME SamplersInv, [PolynomialsNext]_polynomialsVars PROVE SamplersInv'
    OBVIOUS
  <2>1. CASE part = "dilithium"
    <3>1. part' = part /\ [Dilithium!Next]_(Dilithium!vars)
      BY <2>1 DEF PolynomialsNext, polynomialsVars, samplers, ofDilithium, Dilithium!vars
    <3>2. SamplingInv
      BY <2>1 DEF SamplersInv
    <3>3. SamplingInv'
      BY <1>1, <3>1, <3>2, SamplingNext
    <3> QED
      BY <2>1, <3>1, <3>3 DEF SamplersInv
  <2>2. CASE part # "dilithium"
    BY <2>2 DEF PolynomialsNext, polynomialsVars, ofDilithium, SamplersInv
  <2> QED
    BY <2>1, <2>2
<1>4. SamplersInv => FirstAccepted
  <2>1. SamplingInv => FirstAccepted
    BY DEF SamplingInv, FirstAccepted
  <2>2. fn = "none" => FirstAccepted
    BY DEF FirstAccepted, Dilithium!FirstAccepted
  <2> QED
    BY <2>1, <2>2 DEF SamplersInv
<1> QED
  BY <1>2, <1>3, <1>4, PTL DEF PolynomialsSpec

-----------------------------------------------------------------------------
(*  The samplers of ML-KEM  *)

\* A stream is one of bytes.
KyberStreamsOfBytes == \A s \in Streams, k \in Nat : KyberStream(s, k) \in 0 .. 255

\* One more candidate.
Taken(s, n, list) ==
  IF Kyber!CandidateAt(s, n) < Kyber!KYBER_Q THEN Append(list, Kyber!CandidateAt(s, n)) ELSE list

\* The lists of accepted candidates, up to the n-th candidate.
IsTaking(f, s, n) ==
  /\ f \in [0 .. n -> Seq(Int)] /\ f[0] = <<>>
  /\ \A c \in 0 .. n - 1 : f[c + 1] = Taken(s, c, f[c])

LEMMA CandidateIsInt ==
  ASSUME KyberStreamsOfBytes, NEW s \in Streams, NEW c \in Nat
  PROVE  Kyber!CandidateAt(s, c) \in Int
<1>1. PICK k \in Nat : k = 3 * (c \div 2)
  OBVIOUS
<1>2. KyberStream(s, k) \in 0 .. 255 /\ KyberStream(s, k + 1) \in 0 .. 255
      /\ KyberStream(s, k + 2) \in 0 .. 255
  BY DEF KyberStreamsOfBytes
<1>3. /\ (KyberStream(s, k) + 256 * KyberStream(s, k + 1)) % 4096 \in Int
      /\ (KyberStream(s, k + 1) \div 16) + 16 * KyberStream(s, k + 2) \in Int
  <2>1. PICK b0 \in 0 .. 255 : b0 = KyberStream(s, k)
    BY <1>2
  <2>2. PICK b1 \in 0 .. 255 : b1 = KyberStream(s, k + 1)
    BY <1>2
  <2>3. PICK b2 \in 0 .. 255 : b2 = KyberStream(s, k + 2)
    BY <1>2
  <2>4. (b0 + 256 * b1) % 4096 \in Int /\ (b1 \div 16) + 16 * b2 \in Int
    OBVIOUS
  <2> QED
    BY <2>1, <2>2, <2>3, <2>4
<1>4. Kyber!CandidateAt(s, c) = IF c % 2 = 0 THEN (KyberStream(s, k) + 256 * KyberStream(s, k + 1)) % 4096
                                ELSE (KyberStream(s, k + 1) \div 16) + 16 * KyberStream(s, k + 2)
  BY <1>1 DEF Kyber!CandidateAt
<1> QED
  BY <1>3, <1>4

\* AcceptedOf is the last of these lists.
LEMMA AcceptedIsTaken ==
  ASSUME KyberStreamsOfBytes, NEW s \in Streams, NEW n \in Nat
  PROVE  \E f : IsTaking(f, s, n) /\ Kyber!AcceptedOf(s, n) = f[n]
<1> DEFINE rule == [v \in (0 .. n) \X Seq(Int) |->
                      IF v[1] = 0 THEN <<>>
                      ELSE IF Kyber!CandidateAt(s, v[1] - 1) < Kyber!KYBER_Q
                           THEN Append(v[2], Kyber!CandidateAt(s, v[1] - 1))
                      ELSE v[2]]
           Whole(f) == [c \in 0 .. n |->
                         IF c = 0 THEN <<>>
                         ELSE IF Kyber!CandidateAt(s, c - 1) < Kyber!KYBER_Q
                              THEN Append(f[c - 1], Kyber!CandidateAt(s, c - 1))
                         ELSE f[c - 1]]
           g == CHOOSE f : f = Whole(f)
<1>1. Kyber!AcceptedOf(s, n) = g[n]
  BY DEF Kyber!AcceptedOf
<1>2. \A c \in 1 .. n : Kyber!CandidateAt(s, c - 1) \in Int
  BY CandidateIsInt
<1>3. rule \in [(0 .. n) \X Seq(Int) -> Seq(Int)]
  <2>1. \A v \in (0 .. n) \X Seq(Int) : v[1] # 0 => v[1] \in 1 .. n /\ v[2] \in Seq(Int)
    OBVIOUS
  <2>2. \A v \in (0 .. n) \X Seq(Int) : rule[v] \in Seq(Int)
    BY <1>2, <2>1
  <2> QED
    BY <2>2
<1>4. <<>> \in Seq(Int)
  OBVIOUS
<1>5. PICK f : IsChain(f, n, Seq(Int), <<>>, rule)
  <2> HIDE DEF rule
  <2> QED
    BY <1>3, <1>4, ChainExists, Zenon
<1>6. f \in [0 .. n -> Seq(Int)] /\ f = Whole(f)
  <2>1. f \in [0 .. n -> Seq(Int)] /\ f = [i \in 0 .. n |-> IF i = 0 THEN <<>> ELSE rule[<<i, f[i - 1]>>]]
    BY <1>5 DEF IsChain
  <2>2. ASSUME NEW i \in 0 .. n
        PROVE  (IF i = 0 THEN <<>> ELSE rule[<<i, f[i - 1]>>]) = Whole(f)[i]
    <3>1. CASE i = 0
      BY <3>1
    <3>2. CASE i # 0
      <4>1. <<i, f[i - 1]>> \in (0 .. n) \X Seq(Int)
        <5>1. i - 1 \in 0 .. n
          BY <3>2
        <5> QED
          BY <2>1, <5>1
      <4>2. rule[<<i, f[i - 1]>>] = IF i = 0 THEN <<>>
                      ELSE IF Kyber!CandidateAt(s, i - 1) < Kyber!KYBER_Q
                           THEN Append(f[i - 1], Kyber!CandidateAt(s, i - 1))
                      ELSE f[i - 1]
        BY <4>1
      <4> QED
        BY <3>2, <4>2
    <3> QED
      BY <3>1, <3>2
  <2> QED
    BY <2>1, <2>2
<1>7. g = Whole(g)
  <2> HIDE DEF Whole
  <2> QED
    BY <1>6
<1>8. \A k \in 0 .. n : g[k] = f[k]
  <2> DEFINE Good == {k \in Nat : g[k] = f[k]}
  <2>1. 0 \in Good
    <3>1. Whole(g)[0] = <<>> /\ Whole(f)[0] = <<>>
      OBVIOUS
    <3> HIDE DEF Whole, g
    <3> QED
      BY <1>6, <1>7, <3>1
  <2>2. ASSUME NEW k \in 0 .. n - 1, k \in Good PROVE k + 1 \in Good
    <3>1. k + 1 \in 0 .. n /\ k + 1 # 0 /\ k + 1 - 1 = k
      OBVIOUS
    <3>2. g[k] = f[k]
      BY <2>2
    <3>3. Whole(g)[k + 1] = Whole(f)[k + 1]
      BY <3>1, <3>2
    <3> HIDE DEF Whole, g
    <3> QED
      BY <1>6, <1>7, <3>1, <3>3
  <2> HIDE DEF Good
  <2>3. \A k \in 0 .. n : k \in Good
    BY <2>1, <2>2, UptoInduction
  <2> QED
    BY <2>3 DEF Good
<1>9. f[0] = <<>>
  BY <1>6
<1>10. ASSUME NEW c \in 0 .. n - 1 PROVE f[c + 1] = Taken(s, c, f[c])
  <2>1. c + 1 \in 0 .. n /\ c + 1 # 0 /\ c + 1 - 1 = c
    OBVIOUS
  <2>2. Whole(f)[c + 1] = Taken(s, c, f[c])
    BY <2>1 DEF Taken
  <2> QED
    BY <1>6, <2>1, <2>2
<1>11. g[n] = f[n]
  <2> HIDE DEF g
  <2> QED
    BY <1>8
<1> HIDE DEF g
<1> QED
  BY <1>1, <1>6, <1>9, <1>10, <1>11 DEF IsTaking

\* There is one such function.
LEMMA TakingIsUnique ==
  ASSUME NEW s, NEW n \in Nat, NEW m \in Nat, n <= m, NEW f, NEW g, IsTaking(f, s, n), IsTaking(g, s, m)
  PROVE  \A k \in 0 .. n : f[k] = g[k]
<1> DEFINE Good == {k \in Nat : f[k] = g[k]}
<1>1. 0 \in Good
  BY DEF IsTaking
<1>2. ASSUME NEW k \in 0 .. n - 1, k \in Good PROVE k + 1 \in Good
  BY <1>2 DEF IsTaking
<1> HIDE DEF Good
<1>3. \A k \in 0 .. n : k \in Good
  BY <1>1, <1>2, UptoInduction
<1> QED
  BY <1>3 DEF Good

LEMMA AcceptedNone ==
  ASSUME KyberStreamsOfBytes, NEW s \in Streams
  PROVE  Kyber!AcceptedOf(s, 0) = <<>>
<1>1. PICK f : IsTaking(f, s, 0) /\ Kyber!AcceptedOf(s, 0) = f[0]
  BY AcceptedIsTaken
<1> QED
  BY <1>1 DEF IsTaking

LEMMA AcceptedNext ==
  ASSUME KyberStreamsOfBytes, NEW s \in Streams, NEW n \in Nat
  PROVE  /\ Kyber!AcceptedOf(s, n) \in Seq(Int)
         /\ Kyber!AcceptedOf(s, n + 1) = Taken(s, n, Kyber!AcceptedOf(s, n))
<1>1. PICK f : IsTaking(f, s, n) /\ Kyber!AcceptedOf(s, n) = f[n]
  BY AcceptedIsTaken
<1>2. PICK g : IsTaking(g, s, n + 1) /\ Kyber!AcceptedOf(s, n + 1) = g[n + 1]
  BY AcceptedIsTaken
<1>3. f[n] = g[n]
  BY <1>1, <1>2, TakingIsUnique
<1>4. f[n] \in Seq(Int)
  BY <1>1 DEF IsTaking
<1>5. g[n + 1] = Taken(s, n, g[n])
  BY <1>2 DEF IsTaking
<1> QED
  BY <1>1, <1>2, <1>3, <1>4, <1>5

\* More candidates make the list longer and change nothing in it.
LEMMA AcceptedGrows ==
  ASSUME KyberStreamsOfBytes, NEW s \in Streams, NEW n \in Nat, NEW m \in Nat, n <= m
  PROVE  /\ Len(Kyber!AcceptedOf(s, n)) <= Len(Kyber!AcceptedOf(s, m))
         /\ \A k \in 1 .. Len(Kyber!AcceptedOf(s, n)) : Kyber!AcceptedOf(s, m)[k] = Kyber!AcceptedOf(s, n)[k]
<1> DEFINE short == Kyber!AcceptedOf(s, n)
           long(d) == Kyber!AcceptedOf(s, n + d)

               Good == {d \in Nat : Len(short) <= Len(long(d))
                   /\ \A k \in 1 .. Len(short) : long(d)[k] = short[k]}
<1>0. short \in Seq(Int)
  BY AcceptedNext
<1>1. 0 \in Good
  BY <1>0
<1>2. ASSUME NEW d \in 0 .. (m - n) - 1, d \in Good PROVE d + 1 \in Good
  <2>1. long(d) \in Seq(Int) /\ long(d + 1) = Taken(s, n + d, long(d))
    <3>1. n + d \in Nat /\ (n + d) + 1 = n + (d + 1)
      OBVIOUS
    <3> QED
      BY <3>1, AcceptedNext
  <2>2. Kyber!CandidateAt(s, n + d) \in Int
    BY CandidateIsInt
  <2>3. Len(short) <= Len(long(d)) /\ \A k \in 1 .. Len(short) : long(d)[k] = short[k]
    BY <1>2
  <2> HIDE DEF long, short
  <2>4. Len(long(d)) <= Len(long(d + 1)) /\ \A k \in 1 .. Len(long(d)) : long(d + 1)[k] = long(d)[k]
    <3> DEFINE t == Kyber!CandidateAt(s, n + d)
               l == long(d)
    <3>1. Len(l) <= Len(Append(l, t)) /\ \A k \in 1 .. Len(l) : Append(l, t)[k] = l[k]
      BY <2>1, <2>2
    <3>2. long(d + 1) = Append(l, t) \/ long(d + 1) = l
      BY <2>1 DEF Taken
    <3>3. Len(l) <= Len(l)
      BY <2>1
    <3> HIDE DEF l, t
    <3> QED
      BY <3>1, <3>2, <3>3 DEF l
  <2>5. Len(short) <= Len(long(d + 1)) /\ \A k \in 1 .. Len(short) : long(d + 1)[k] = short[k]
    <3>1. Len(short) \in Nat /\ Len(long(d)) \in Nat /\ Len(long(d + 1)) \in Nat
      BY <1>0, <2>1, <2>2 DEF Taken
    <3> QED
      BY <2>3, <2>4, <3>1
  <2> QED
    BY <2>5
<1>3. m - n \in 0 .. m - n /\ m - n \in Nat /\ n + (m - n) = m
  OBVIOUS
<1> HIDE DEF Good
<1>4. m - n \in Good
  BY <1>1, <1>2, <1>3, UptoInduction
<1> QED
  BY <1>3, <1>4 DEF Good

\* After c candidates of the stream n coefficients of v are written, as many as
\* were accepted unless v is full.
Entry(v, s, c, n) ==
  /\ n \in 0 .. KYBER_N /\ v \in [Kyber!Index -> Int]
  /\ n <= Len(Kyber!AcceptedOf(s, c)) /\ (n < KYBER_N => Len(Kyber!AcceptedOf(s, c)) = n)
  /\ \A k \in Kyber!Index : IF k < n THEN v[k] = Kyber!AcceptedOf(s, c)[k + 1] ELSE v[k] = -1

LEMMA KyberParameters ==
  ASSUME Kyber!KyberSamplingParameters
  PROVE  /\ KYBER_N \in Nat /\ KYBER_N > 0 /\ KYBER_K \in Nat /\ KYBER_K > 0
         /\ XOF_BLOCKBYTES \in Nat /\ XOF_BLOCKBYTES > 0 /\ XOF_BLOCKBYTES % 3 = 0
         /\ GEN_MATRIX_NBLOCKS \in Nat /\ GEN_MATRIX_NBLOCKS > 0
         /\ GEN_MATRIX_NBLOCKS * XOF_BLOCKBYTES \in Nat /\ GEN_MATRIX_NBLOCKS * XOF_BLOCKBYTES > 0
         /\ (GEN_MATRIX_NBLOCKS * XOF_BLOCKBYTES) % 3 = 0
         /\ Kyber!Index = 0 .. KYBER_N - 1 /\ Kyber!Rows = 0 .. KYBER_K - 1
<1>1. /\ KYBER_N \in Nat /\ KYBER_N > 0 /\ KYBER_K \in Nat /\ KYBER_K > 0
      /\ XOF_BLOCKBYTES \in Nat /\ XOF_BLOCKBYTES > 0 /\ XOF_BLOCKBYTES % 3 = 0
      /\ GEN_MATRIX_NBLOCKS \in Nat /\ GEN_MATRIX_NBLOCKS > 0
  BY DEF Kyber!KyberSamplingParameters
<1>2. PICK t \in Nat : XOF_BLOCKBYTES = 3 * t /\ t > 0
  <2>1. XOF_BLOCKBYTES \div 3 \in Nat /\ XOF_BLOCKBYTES = 3 * (XOF_BLOCKBYTES \div 3)
    BY <1>1
  <2> QED
    BY <1>1, <2>1
<1>3. PICK u \in Nat : u = GEN_MATRIX_NBLOCKS * t /\ u > 0
  BY <1>1, <1>2
<1>4. GEN_MATRIX_NBLOCKS * XOF_BLOCKBYTES = 3 * u
  BY <1>1, <1>2, <1>3
<1>5. 3 * u \in Nat /\ 3 * u > 0 /\ (3 * u) % 3 = 0
  BY <1>3
<1>6. Kyber!Index = 0 .. KYBER_N - 1 /\ Kyber!Rows = 0 .. KYBER_K - 1
  BY DEF Kyber!Index, Kyber!Rows
<1> QED
  BY <1>1, <1>4, <1>5, <1>6

\* The next candidate is accepted and written.
LEMMA EntryTakes ==
  ASSUME Kyber!KyberSamplingParameters, KyberStreamsOfBytes, NEW s \in Streams, NEW c \in Nat, NEW v, NEW n,
         Entry(v, s, c, n), n < KYBER_N, Kyber!CandidateAt(s, c) < Kyber!KYBER_Q,
         NEW w, w = [k \in Kyber!Index |-> IF k = n THEN Kyber!CandidateAt(s, c) ELSE v[k]]
  PROVE  Entry(w, s, c + 1, n + 1)
<1> DEFINE list == Kyber!AcceptedOf(s, c)
           t == Kyber!CandidateAt(s, c)
<1>1. list \in Seq(Int) /\ Kyber!AcceptedOf(s, c + 1) = Taken(s, c, list)
  BY AcceptedNext
<1>2. t \in Int
  BY CandidateIsInt
<1>3. Kyber!AcceptedOf(s, c + 1) = Append(list, t)
  BY <1>1 DEF Taken
<1>4. KYBER_N \in Nat /\ Kyber!Index = 0 .. KYBER_N - 1
  BY KyberParameters
<1>5. /\ n \in 0 .. KYBER_N - 1 /\ v \in [Kyber!Index -> Int] /\ Len(list) = n
      /\ \A k \in Kyber!Index : IF k < n THEN v[k] = list[k + 1] ELSE v[k] = -1
  BY <1>4 DEF Entry
<1> HIDE DEF list, t
<1>6. Len(Append(list, t)) = n + 1 /\ Append(list, t)[n + 1] = t
      /\ \A k \in 1 .. n : Append(list, t)[k] = list[k]
  BY <1>1, <1>2, <1>5
<1>7. w = [k \in Kyber!Index |-> IF k = n THEN t ELSE v[k]]
  BY DEF t
<1>8. w \in [Kyber!Index -> Int]
  BY <1>2, <1>5, <1>7
<1>9. ASSUME NEW k \in Kyber!Index
      PROVE  IF k < n + 1 THEN w[k] = Append(list, t)[k + 1] ELSE w[k] = -1
  <2>1. CASE k = n
    BY <1>6, <1>7, <2>1
  <2>2. CASE k < n
    <3>1. w[k] = v[k] /\ v[k] = list[k + 1] /\ k + 1 \in 1 .. n /\ k < n + 1
      BY <1>4, <1>5, <1>7, <2>2
    <3> QED
      BY <1>6, <3>1
  <2>3. CASE k > n
    BY <1>4, <1>5, <1>7, <2>3
  <2> QED
    BY <1>4, <1>5, <2>1, <2>2, <2>3
<1>10. n + 1 \in 0 .. KYBER_N
  BY <1>4, <1>5
<1>11. n + 1 <= Len(Append(list, t)) /\ (n + 1 < KYBER_N => Len(Append(list, t)) = n + 1)
  BY <1>5, <1>6
<1> QED
  BY <1>3, <1>8, <1>9, <1>10, <1>11, Zenon DEF Entry

\* The next candidate is not accepted, or there is no room for it.
LEMMA EntrySkips ==
  ASSUME Kyber!KyberSamplingParameters, KyberStreamsOfBytes, NEW s \in Streams, NEW c \in Nat, NEW v, NEW n,
         Entry(v, s, c, n), ~ (n < KYBER_N /\ Kyber!CandidateAt(s, c) < Kyber!KYBER_Q)
  PROVE  Entry(v, s, c + 1, n)
<1> DEFINE list == Kyber!AcceptedOf(s, c)
           more == Kyber!AcceptedOf(s, c + 1)
<1>1. list \in Seq(Int) /\ more \in Seq(Int) /\ more = Taken(s, c, list)
  BY AcceptedNext
<1>2. Len(list) <= Len(more) /\ \A k \in 1 .. Len(list) : more[k] = list[k]
  BY AcceptedGrows
<1>3. KYBER_N \in Nat /\ Kyber!Index = 0 .. KYBER_N - 1
  BY KyberParameters
<1>4. /\ n \in 0 .. KYBER_N /\ v \in [Kyber!Index -> Int] /\ n <= Len(list) /\ (n < KYBER_N => Len(list) = n)
      /\ \A k \in Kyber!Index : IF k < n THEN v[k] = list[k + 1] ELSE v[k] = -1
  BY DEF Entry
<1>5. n < KYBER_N => more = list
  BY <1>1 DEF Taken
<1> HIDE DEF list, more
<1>6. Len(list) \in Nat /\ Len(more) \in Nat
  BY <1>1
<1>7. n <= Len(more) /\ (n < KYBER_N => Len(more) = n)
  BY <1>2, <1>4, <1>5, <1>6
<1>8. ASSUME NEW k \in Kyber!Index
      PROVE  IF k < n THEN v[k] = more[k + 1] ELSE v[k] = -1
  <2>1. k < n => k + 1 \in 1 .. Len(list)
    BY <1>3, <1>4, <1>6
  <2> QED
    BY <1>2, <1>4, <2>1
<1> QED
  BY <1>4, <1>7, <1>8 DEF Entry, more

-----------------------------------------------------------------------------
\* The entries in the order of gen_matrix.
Before(p, q) == p[1] < q[1] \/ (p[1] = q[1] /\ p[2] < q[2])

LEMMA OrderOfEntries ==
  ASSUME NEW k \in Nat, NEW a \in 0 .. k - 1, NEW b \in 0 .. k - 1, NEW c \in Nat, NEW d \in 0 .. k - 1
  PROVE  a * k + b < c * k + d <=> (a < c \/ (a = c /\ b < d))
<1>1. ASSUME NEW x \in Nat, NEW y \in Nat, x < y PROVE x * k + k <= y * k
  <2>1. PICK z \in Nat : y = x + 1 + z
    <3>1. y - x - 1 \in Nat /\ y = x + 1 + (y - x - 1)
      BY <1>1
    <3> QED
      BY <3>1
  <2>2. y * k = x * k + k + z * k
    BY <2>1
  <2>3. z * k \in Nat /\ x * k \in Nat
    OBVIOUS
  <2> QED
    BY <2>2, <2>3
<1>2. PICK u \in Nat : u = a * k
  OBVIOUS
<1>3. PICK w \in Nat : w = c * k
  OBVIOUS
<1>4. (a < c => u + k <= w) /\ (c < a => w + k <= u) /\ (a = c => u = w)
  BY <1>1, <1>2, <1>3
<1>5. u + b < w + d <=> (a < c \/ (a = c /\ b < d))
  BY <1>4
<1> QED
  BY <1>2, <1>3, <1>5

Pairs == Kyber!Rows \X Kyber!Rows
ThisEntry == <<row, column>>
EntryStream(p) == xof[IF transposed = 1 THEN p ELSE <<p[2], p[1]>>]
Size == Cardinality(DOMAIN buf)

MatrixTypes ==
  /\ at \in {"matrix", "reject", "done"}
  /\ xof \in [Pairs -> Streams] /\ matrix \in [Pairs -> [Kyber!Index -> Int]]
  /\ column \in Kyber!Rows
  /\ IF at = "done" THEN row = KYBER_K /\ column = 0 ELSE row \in Kyber!Rows
  /\ at # "reject" => sq = 0

\* The buffer has the last bytes that were squeezed; what comes before `pos` of
\* them was made into candidates, two of three bytes.
BufferOfEntry ==
  at = "reject" =>
    /\ sq \in Nat /\ sq > 0 /\ Size \in Nat /\ Size % 3 = 0 /\ Size <= sq
    /\ pos \in Nat /\ pos % 3 = 0 /\ pos <= Size
    /\ \A b \in 0 .. Size - 1 : buf[b] = KyberStream(EntryStream(ThisEntry), (sq - Size) + b)
    /\ done \in Nat /\ room \in Nat /\ done + room = KYBER_N /\ ctr \in 0 .. room
    /\ \E n \in Nat : /\ (sq - Size) + pos = 3 * n
                      /\ Entry(matrix[ThisEntry], EntryStream(ThisEntry), 2 * n, done + ctr)

\* The entries before the current one are full, those after it are not written.
EntriesInOrder ==
  \A p \in Pairs :
    /\ Before(p, ThisEntry) => \E c \in Nat : Entry(matrix[p], EntryStream(p), c, KYBER_N)
    /\ ~ Before(p, ThisEntry) /\ (p # ThisEntry \/ at = "matrix") => matrix[p] = [k \in Kyber!Index |-> -1]

MatrixInv == xof = <<>> \/ (MatrixTypes /\ BufferOfEntry /\ EntriesInOrder)

\* The instance has the operator of FiniteSets under its own name.
LEMMA SameCardinality ==
  ASSUME NEW T
  PROVE  Kyber!Cardinality(T) = Cardinality(T)
BY DEF Cardinality, Kyber!Cardinality

-----------------------------------------------------------------------------
LEMMA MatrixInit ==
  ASSUME Kyber!KyberSamplingParameters, Kyber!Init
  PROVE  MatrixInv
<1>1. CASE at = "noise"
  BY <1>1 DEF Kyber!Init, MatrixInv
<1>2. CASE at = "matrix"
  <2>1. /\ xof \in [Pairs -> Streams] /\ row = 0 /\ column = 0 /\ sq = 0 /\ matrix = Kyber!Unwritten
    BY <1>2 DEF Kyber!Init, Pairs
  <2>2. matrix = [p \in Pairs |-> [k \in Kyber!Index |-> -1]]
    BY <2>1 DEF Kyber!Unwritten, Pairs
  <2>3. 0 \in Kyber!Rows
    BY KyberParameters
  <2>4. MatrixTypes
    BY <1>2, <2>1, <2>2, <2>3 DEF MatrixTypes
  <2>5. \A p \in Pairs : ~ Before(p, ThisEntry)
    <3>1. ThisEntry[1] = 0 /\ ThisEntry[2] = 0
      BY <2>1 DEF ThisEntry
    <3>2. \A p \in Pairs : p[1] \in Nat /\ p[2] \in Nat
      BY KyberParameters DEF Pairs
    <3> QED
      BY <3>1, <3>2 DEF Before
  <2> QED
    BY <1>2, <2>2, <2>4, <2>5 DEF MatrixInv, BufferOfEntry, EntriesInOrder
<1> QED
  BY <1>1, <1>2 DEF Kyber!Init

\* The stream of the entry that is being made.
LEMMA AbsorbedIsEntry ==
  xof[Kyber!Absorbed] = EntryStream(ThisEntry)
BY DEF Kyber!Absorbed, EntryStream, ThisEntry

LEMMA StreamOfPair ==
  ASSUME xof \in [Pairs -> Streams], NEW p \in Pairs
  PROVE  EntryStream(p) \in Streams
<1>1. <<p[2], p[1]>> \in Pairs
  BY DEF Pairs
<1> QED
  BY <1>1 DEF EntryStream

\* What squeezing gives.
LEMMA SqueezedBlocks ==
  ASSUME NEW n \in Nat, n * XOF_BLOCKBYTES \in Nat
  PROVE  LET b == Kyber!SqueezeBlocks(n) IN
         /\ Cardinality(DOMAIN b) = n * XOF_BLOCKBYTES
         /\ \A k \in 0 .. n * XOF_BLOCKBYTES - 1 : b[k] = KyberStream(EntryStream(ThisEntry), sq + k)
<1> DEFINE size == n * XOF_BLOCKBYTES
<1>1. Kyber!SqueezeBlocks(n) = [k \in 0 .. size - 1 |-> KyberStream(EntryStream(ThisEntry), sq + k)]
  BY AbsorbedIsEntry DEF Kyber!SqueezeBlocks
<1> HIDE DEF size
<1>2. Cardinality(0 .. size - 1) = size
  <2>1. size \in Nat /\ 0 \in Int /\ size - 1 \in Int
    BY DEF size
  <2> QED
    BY <2>1, FS_Interval
<1> QED
  BY <1>1, <1>2 DEF size

LEMMA MatrixAbsorb ==
  ASSUME Kyber!KyberSamplingParameters, KyberStreamsOfBytes, MatrixInv, Kyber!xof_absorb
  PROVE  MatrixInv'
<1> DEFINE size == GEN_MATRIX_NBLOCKS * XOF_BLOCKBYTES
<1>1. /\ at = "matrix" /\ sq = 0 /\ at' = "reject" /\ sq' = size
      /\ buf' = Kyber!SqueezeBlocks(GEN_MATRIX_NBLOCKS)
      /\ pos' = 0 /\ ctr' = 0 /\ room' = KYBER_N /\ done' = 0
      /\ transposed' = transposed /\ xof' = xof /\ row' = row /\ column' = column /\ matrix' = matrix
  BY DEF Kyber!xof_absorb
<1>2. CASE xof = <<>>
  BY <1>1, <1>2 DEF MatrixInv
<1>3. CASE xof # <<>>
  <2>1. MatrixTypes /\ EntriesInOrder
    BY <1>3 DEF MatrixInv
  <2>2. size \in Nat /\ size > 0 /\ size % 3 = 0 /\ GEN_MATRIX_NBLOCKS \in Nat
    BY KyberParameters
  <2>3. ThisEntry' = ThisEntry /\ \A p : EntryStream(p)' = EntryStream(p)
    BY <1>1 DEF ThisEntry, EntryStream
  <2>4. Size' = size /\ \A b \in 0 .. size - 1 : buf'[b] = KyberStream(EntryStream(ThisEntry), 0 + b)
    BY <1>1, <2>2, SqueezedBlocks DEF Size
  <2> HIDE DEF size
  <2>5. MatrixTypes'
    BY <1>1, <2>1 DEF MatrixTypes
  <2>6. row \in Kyber!Rows /\ column \in Kyber!Rows /\ ThisEntry \in Pairs
    BY <1>1, <2>1 DEF MatrixTypes, ThisEntry, Pairs
  <2>7. ~ Before(ThisEntry, ThisEntry)
    BY <2>6, KyberParameters DEF Before, ThisEntry
  <2>8. matrix[ThisEntry] = [k \in Kyber!Index |-> -1]
    BY <1>1, <2>1, <2>6, <2>7 DEF EntriesInOrder
  <2>9. EntryStream(ThisEntry) \in Streams
    BY <2>1, <2>6, StreamOfPair DEF MatrixTypes
  <2>10. Entry(matrix[ThisEntry], EntryStream(ThisEntry), 2 * 0, 0 + 0)
    <3>1. Kyber!AcceptedOf(EntryStream(ThisEntry), 0) = <<>> /\ Len(<<>>) = 0
      BY <2>9, AcceptedNone
    <3>2. KYBER_N \in Nat /\ Kyber!Index = 0 .. KYBER_N - 1
      BY KyberParameters
    <3>3. matrix[ThisEntry] \in [Kyber!Index -> Int]
      BY <2>8
    <3>4. 2 * 0 = 0 /\ 0 + 0 = 0
      OBVIOUS
    <3>5. \A k \in Kyber!Index : ~ (k < 0) /\ matrix[ThisEntry][k] = -1
      BY <2>8, <3>2
    <3>6. Entry(matrix[ThisEntry], EntryStream(ThisEntry), 0, 0)
      BY <3>1, <3>2, <3>3, <3>5 DEF Entry
    <3> QED
      BY <3>4, <3>6
  <2>11. BufferOfEntry'
    <3>1. KYBER_N \in Nat /\ 0 + KYBER_N = KYBER_N /\ 0 % 3 = 0 /\ 0 <= size /\ size - size = 0
      BY <2>2, KyberParameters
    <3>2. (sq' - Size') + pos' = 3 * 0
      BY <1>1, <2>2, <2>4
    <3>3. sq' - Size' = 0 /\ Size' <= sq'
      BY <1>1, <2>2, <2>4
    <3>4. Entry(matrix[ThisEntry], EntryStream(ThisEntry), 2 * 0, done' + ctr')
      BY <1>1, <2>10
    <3>5. \A b \in 0 .. Size' - 1 : buf'[b] = KyberStream(EntryStream(ThisEntry), (sq' - Size') + b)
      BY <2>4, <3>3
    <3>6. ctr' \in 0 .. room'
      BY <1>1, <3>1
    <3>7. \E n \in Nat : /\ (sq' - Size') + pos' = 3 * n
                         /\ Entry(matrix'[ThisEntry'], EntryStream(ThisEntry)', 2 * n, done' + ctr')
      BY <1>1, <2>3, <3>2, <3>4
    <3>8. sq' \in Nat /\ sq' > 0 /\ Size' \in Nat /\ Size' % 3 = 0 /\ pos' \in Nat /\ pos' % 3 = 0
          /\ pos' <= Size'
      BY <1>1, <2>2, <2>4, <3>1
    <3>9. done' \in Nat /\ room' \in Nat /\ done' + room' = KYBER_N
      BY <1>1, <3>1
    <3> QED
      BY <2>3, <3>3, <3>5, <3>6, <3>7, <3>8, <3>9 DEF BufferOfEntry
  <2>12. EntriesInOrder'
    BY <1>1, <2>1, <2>3 DEF EntriesInOrder
  <2> QED
    BY <2>5, <2>11, <2>12 DEF MatrixInv
<1> QED
  BY <1>2, <1>3

\* The candidates of three bytes.
LEMMA TwoCandidates ==
  ASSUME KyberStreamsOfBytes, NEW s \in Streams, NEW n \in Nat,
         buf[pos] = KyberStream(s, 3 * n), buf[pos + 1] = KyberStream(s, 3 * n + 1),
         buf[pos + 2] = KyberStream(s, 3 * n + 2)
  PROVE  Kyber!val0(buf) = Kyber!CandidateAt(s, 2 * n) /\ Kyber!val1(buf) = Kyber!CandidateAt(s, 2 * n + 1)
<1>1. PICK k \in Nat : k = 3 * n
  OBVIOUS
<1>2. 3 * ((2 * n) \div 2) = k /\ 3 * ((2 * n + 1) \div 2) = k /\ (2 * n) % 2 = 0 /\ (2 * n + 1) % 2 = 1
  BY <1>1
<1>3. Kyber!CandidateAt(s, 2 * n) = (KyberStream(s, k) + 256 * KyberStream(s, k + 1)) % 4096
  BY <1>2 DEF Kyber!CandidateAt
<1>4. Kyber!CandidateAt(s, 2 * n + 1) = (KyberStream(s, k + 1) \div 16) + 16 * KyberStream(s, k + 2)
  BY <1>2 DEF Kyber!CandidateAt
<1>5. \A b1 \in 0 .. 255, b2 \in 0 .. 255 : ((b1 \div 16) + 16 * b2) % 4096 = (b1 \div 16) + 16 * b2
  OBVIOUS
<1>6. KyberStream(s, k + 1) \in 0 .. 255 /\ KyberStream(s, k + 2) \in 0 .. 255
  BY <1>1 DEF KyberStreamsOfBytes
<1>7. Kyber!val0(buf) = (buf[pos] + 256 * buf[pos + 1]) % 4096
      /\ Kyber!val1(buf) = ((buf[pos + 1] \div 16) + 16 * buf[pos + 2]) % 4096
  BY DEF Kyber!val0, Kyber!val1
<1>8. buf[pos] = KyberStream(s, k) /\ buf[pos + 1] = KyberStream(s, k + 1)
      /\ buf[pos + 2] = KyberStream(s, k + 2)
  BY <1>1
<1>9. ((KyberStream(s, k + 1) \div 16) + 16 * KyberStream(s, k + 2)) % 4096
        = (KyberStream(s, k + 1) \div 16) + 16 * KyberStream(s, k + 2)
  <2>1. PICK b1 \in 0 .. 255 : b1 = KyberStream(s, k + 1)
    BY <1>6
  <2>2. PICK b2 \in 0 .. 255 : b2 = KyberStream(s, k + 2)
    BY <1>6
  <2> QED
    BY <1>5, <2>1, <2>2
<1> QED
  BY <1>3, <1>4, <1>7, <1>8, <1>9

LEMMA MatrixReject ==
  ASSUME Kyber!KyberSamplingParameters, KyberStreamsOfBytes, MatrixInv, Kyber!rej_uniform
  PROVE  MatrixInv'
<1> DEFINE t0 == Kyber!val0(buf)
           t1 == Kyber!val1(buf)
           c1 == IF t0 < Kyber!KYBER_Q THEN ctr + 1 ELSE ctr
           two == c1 < room /\ t1 < Kyber!KYBER_Q
           old == matrix[ThisEntry]
           new == [k \in Kyber!Index |-> IF k = done + ctr /\ t0 < Kyber!KYBER_Q THEN t0
                                         ELSE IF k = done + c1 /\ two THEN t1 ELSE old[k]]
<1>1. /\ at = "reject" /\ ctr < room /\ pos + 3 <= Size
      /\ ctr' = (IF two THEN c1 + 1 ELSE c1) /\ pos' = pos + 3
      /\ at' = at /\ transposed' = transposed /\ xof' = xof /\ row' = row /\ column' = column /\ sq' = sq
      /\ buf' = buf /\ room' = room /\ done' = done
  <2>1. at = "reject" /\ ctr < room /\ pos + 3 <= Size
    BY SameCardinality DEF Kyber!rej_uniform, Size
  <2>3. pos' = pos + 3
    BY DEF Kyber!rej_uniform
  <2>4. /\ at' = at /\ transposed' = transposed /\ xof' = xof /\ row' = row /\ column' = column /\ sq' = sq
        /\ buf' = buf /\ room' = room /\ done' = done
    BY DEF Kyber!rej_uniform
  <2>2. ctr' = (IF two THEN c1 + 1 ELSE c1)
    BY Zenon DEF Kyber!rej_uniform
  <2> QED
    BY <2>1, <2>2, <2>3, <2>4
<1>2. matrix' = [matrix EXCEPT ![ThisEntry] = new]
  BY DEF Kyber!rej_uniform, ThisEntry
<1>3. CASE xof = <<>>
  BY <1>1, <1>3 DEF MatrixInv
<1>4. CASE xof # <<>>
  <2> DEFINE s == EntryStream(ThisEntry)
  <2>1. MatrixTypes /\ BufferOfEntry /\ EntriesInOrder
    BY <1>4 DEF MatrixInv
  <2>2. ThisEntry' = ThisEntry /\ (\A p : EntryStream(p)' = EntryStream(p)) /\ Size' = Size
    BY <1>1 DEF ThisEntry, EntryStream, Size
  <2>3. row \in Kyber!Rows /\ column \in Kyber!Rows /\ ThisEntry \in Pairs
    BY <1>1, <2>1 DEF MatrixTypes, ThisEntry, Pairs
  <2>4. s \in Streams
    BY <2>1, <2>3, StreamOfPair DEF MatrixTypes
  <2>5. /\ sq \in Nat /\ sq > 0 /\ Size \in Nat /\ Size % 3 = 0 /\ Size <= sq
        /\ pos \in Nat /\ pos % 3 = 0 /\ pos <= Size
        /\ \A b \in 0 .. Size - 1 : buf[b] = KyberStream(s, (sq - Size) + b)
        /\ done \in Nat /\ room \in Nat /\ done + room = KYBER_N /\ ctr \in 0 .. room
    BY <1>1, <2>1 DEF BufferOfEntry
  <2>6. PICK n \in Nat : (sq - Size) + pos = 3 * n /\ Entry(old, s, 2 * n, done + ctr)
    BY <1>1, <2>1 DEF BufferOfEntry
  <2>7. t0 = Kyber!CandidateAt(s, 2 * n) /\ t1 = Kyber!CandidateAt(s, 2 * n + 1)
    <3>1. buf[pos] = KyberStream(s, 3 * n) /\ buf[pos + 1] = KyberStream(s, 3 * n + 1)
          /\ buf[pos + 2] = KyberStream(s, 3 * n + 2)
      <4>1. pos \in 0 .. Size - 1 /\ pos + 1 \in 0 .. Size - 1 /\ pos + 2 \in 0 .. Size - 1
        BY <1>1, <2>5
      <4>2. /\ (sq - Size) + pos = 3 * n /\ (sq - Size) + (pos + 1) = 3 * n + 1
            /\ (sq - Size) + (pos + 2) = 3 * n + 2
        BY <2>5, <2>6
      <4> HIDE DEF s
      <4> QED
        BY <2>5, <4>1, <4>2
    <3> HIDE DEF s
    <3> QED
      BY <2>4, <3>1, TwoCandidates
  <2>8. KYBER_N \in Nat /\ Kyber!Index = 0 .. KYBER_N - 1 /\ old \in [Kyber!Index -> Int]
    BY <2>1, <2>3, KyberParameters DEF MatrixTypes
  <2> HIDE DEF t0, t1, s, old
  <2> DEFINE mid == [k \in Kyber!Index |-> IF k = done + ctr /\ t0 < Kyber!KYBER_Q THEN t0 ELSE old[k]]
  <2>9. Entry(mid, s, 2 * n + 1, done + c1)
    <3>1. 2 * n \in Nat /\ done + ctr < KYBER_N /\ done + (ctr + 1) = (done + ctr) + 1
      BY <1>1, <2>5
    <3>2. CASE t0 < Kyber!KYBER_Q
      <4>1. mid = [k \in Kyber!Index |-> IF k = done + ctr THEN Kyber!CandidateAt(s, 2 * n) ELSE old[k]]
        BY <2>7, <3>2
      <4>2. c1 = ctr + 1
        BY <3>2
      <4> HIDE DEF mid, c1
      <4>3. Entry(mid, s, 2 * n + 1, (done + ctr) + 1)
        BY <2>4, <2>6, <2>7, <3>1, <3>2, <4>1, EntryTakes
      <4> QED
        BY <3>1, <4>2, <4>3
    <3>3. CASE ~ (t0 < Kyber!KYBER_Q)
      <4>1. mid = old
        BY <2>8, <3>3
      <4>2. c1 = ctr
        BY <3>3
      <4> HIDE DEF mid, c1
      <4>3. Entry(old, s, 2 * n + 1, done + ctr)
        BY <2>4, <2>6, <2>7, <3>1, <3>3, EntrySkips
      <4> QED
        BY <4>1, <4>2, <4>3
    <3> QED
      BY <3>2, <3>3
  <2>10. c1 \in 0 .. room /\ ctr' \in 0 .. room
    BY <1>1, <2>5
  <2>11. Entry(new, s, 2 * (n + 1), done + ctr')
    <3>1. 2 * n + 1 \in Nat /\ (2 * n + 1) + 1 = 2 * (n + 1)
      BY <2>6
    <3>2. CASE two
      <4>1. /\ done + c1 < KYBER_N /\ done + ctr' = (done + c1) + 1 /\ t1 < Kyber!KYBER_Q
        BY <1>1, <2>5, <2>10, <3>2
      <4>2. new = [k \in Kyber!Index |-> IF k = done + c1 THEN Kyber!CandidateAt(s, 2 * n + 1) ELSE mid[k]]
        <5>1. ~ (c1 = ctr /\ t0 < Kyber!KYBER_Q)
          BY <2>5
        <5>2. \A k \in Kyber!Index : k = done + c1 => ~ (k = done + ctr /\ t0 < Kyber!KYBER_Q)
          BY <2>5, <2>10, <5>1
        <5>3. \A k \in Kyber!Index :
                (IF k = done + ctr /\ t0 < Kyber!KYBER_Q THEN t0 ELSE IF k = done + c1
                    /\ two THEN t1 ELSE old[k])
                  = (IF k = done + c1 THEN t1 ELSE mid[k])
          BY <3>2, <5>2
        <5> HIDE DEF mid, c1, two
        <5> QED
          BY <2>7, <5>3
      <4> HIDE DEF mid, c1, two, new
      <4>3. Entry(new, s, (2 * n + 1) + 1, (done + c1) + 1)
        BY <2>4, <2>7, <2>9, <3>1, <4>1, <4>2, EntryTakes
      <4> QED
        BY <3>1, <4>1, <4>3
    <3>3. CASE ~ two
      <4>1. done + ctr' = done + c1
        BY <1>1, <3>3
      <4>2. new = mid
        BY <3>3
      <4>3. ~ (done + c1 < KYBER_N /\ t1 < Kyber!KYBER_Q)
        BY <2>5, <2>10, <3>3
      <4> HIDE DEF mid, c1, two, new
      <4>4. Entry(mid, s, (2 * n + 1) + 1, done + c1)
        BY <2>4, <2>7, <2>9, <3>1, <4>3, EntrySkips
      <4> QED
        BY <3>1, <4>1, <4>2, <4>4
    <3> QED
      BY <3>2, <3>3
  <2>12. new \in [Kyber!Index -> Int]
    BY <2>11 DEF Entry
  <2> HIDE DEF new, c1, two, mid
  <2>13. matrix'[ThisEntry] = new /\ \A p \in Pairs : p # ThisEntry => matrix'[p] = matrix[p]
    BY <1>2, <2>1, <2>3 DEF MatrixTypes
  <2>14. MatrixTypes'
    <3>1. matrix' \in [Pairs -> [Kyber!Index -> Int]]
      BY <1>2, <2>1, <2>12 DEF MatrixTypes
    <3> QED
      BY <1>1, <2>1, <3>1 DEF MatrixTypes
  <2>15. BufferOfEntry'
    <3>1. pos' \in Nat /\ pos' % 3 = 0 /\ pos' <= Size /\ (sq - Size) + pos' = 3 * (n + 1)
      BY <1>1, <2>5, <2>6
    <3>2. n + 1 \in Nat
      BY <2>6
    <3>3. Entry(matrix'[ThisEntry'], EntryStream(ThisEntry)', 2 * (n + 1), done' + ctr')
      BY <1>1, <2>2, <2>11, <2>13 DEF s
    <3>4. \E x \in Nat : /\ (sq' - Size') + pos' = 3 * x
                         /\ Entry(matrix'[ThisEntry'], EntryStream(ThisEntry)', 2 * x, done' + ctr')
      BY <1>1, <2>2, <3>1, <3>2, <3>3
    <3>5. \A b \in 0 .. Size' - 1 : buf'[b] = KyberStream(EntryStream(ThisEntry)', (sq' - Size') + b)
      BY <1>1, <2>2, <2>5 DEF s
    <3> QED
      BY <1>1, <2>2, <2>5, <2>10, <3>1, <3>4, <3>5 DEF BufferOfEntry
  <2>16. EntriesInOrder'
    <3>1. ~ Before(ThisEntry, ThisEntry)
      BY <2>3, KyberParameters DEF Before, ThisEntry
    <3>2. ASSUME NEW p \in Pairs
          PROVE  /\ Before(p, ThisEntry) => \E c \in Nat : Entry(matrix'[p], EntryStream(p), c, KYBER_N)
                 /\ ~ Before(p, ThisEntry) /\ (p # ThisEntry \/ at' = "matrix")
                      => matrix'[p] = [k \in Kyber!Index |-> -1]
      BY <1>1, <2>1, <2>13, <3>1, <3>2 DEF EntriesInOrder
    <3> QED
      BY <2>2, <3>2 DEF EntriesInOrder
  <2> QED
    BY <2>14, <2>15, <2>16 DEF MatrixInv
<1> QED
  BY <1>3, <1>4

\* The entry after the current one.
LEMMA EntryAfter ==
  ASSUME Kyber!KyberSamplingParameters, row \in Kyber!Rows, column \in Kyber!Rows, NEW p \in Pairs
  PROVE  /\ column + 1 < KYBER_K =>
              (Before(p, <<row, column + 1>>) <=> Before(p, ThisEntry) \/ p = ThisEntry)
         /\ ~ (column + 1 < KYBER_K) =>
              (Before(p, <<row + 1, 0>>) <=> Before(p, ThisEntry) \/ p = ThisEntry)
<1>1. /\ KYBER_K \in Nat /\ row \in 0 .. KYBER_K - 1 /\ column \in 0 .. KYBER_K - 1
      /\ p[1] \in 0 .. KYBER_K - 1 /\ p[2] \in 0 .. KYBER_K - 1 /\ p = <<p[1], p[2]>>
  BY KyberParameters DEF Pairs
<1>2. p = ThisEntry <=> p[1] = row /\ p[2] = column
  BY <1>1 DEF ThisEntry
<1>3. Before(p, ThisEntry) <=> p[1] < row \/ (p[1] = row /\ p[2] < column)
  BY DEF Before, ThisEntry
<1>4. /\ Before(p, <<row, column + 1>>) <=> p[1] < row \/ (p[1] = row /\ p[2] < column + 1)
      /\ Before(p, <<row + 1, 0>>) <=> p[1] < row + 1 \/ (p[1] = row + 1 /\ p[2] < 0)
  BY DEF Before
<1> QED
  BY <1>1, <1>2, <1>3, <1>4

\* A block that is squeezed when the buffer is used up.
LEMMA MatrixRefill ==
  ASSUME Kyber!KyberSamplingParameters, KyberStreamsOfBytes, MatrixTypes, BufferOfEntry, EntriesInOrder,
         Kyber!rej_uniform_returns, done + ctr < KYBER_N
  PROVE  MatrixTypes' /\ BufferOfEntry' /\ EntriesInOrder'
<1>1. /\ at = "reject" /\ ~ (ctr < room /\ pos + 3 <= Size) /\ done' = done + ctr
      /\ transposed' = transposed /\ xof' = xof /\ matrix' = matrix
  BY SameCardinality DEF Kyber!rej_uniform_returns, Size
<1>2. /\ buf' = Kyber!SqueezeBlocks(1) /\ sq' = sq + XOF_BLOCKBYTES
      /\ pos' = 0 /\ ctr' = 0 /\ room' = KYBER_N - (done + ctr)
      /\ at' = at /\ row' = row /\ column' = column
  BY DEF Kyber!rej_uniform_returns
<1>3. XOF_BLOCKBYTES \in Nat /\ XOF_BLOCKBYTES > 0 /\ XOF_BLOCKBYTES % 3 = 0
      /\ 1 * XOF_BLOCKBYTES = XOF_BLOCKBYTES
      /\ KYBER_N \in Nat
  BY KyberParameters
<1>4. ThisEntry' = ThisEntry /\ (\A p : EntryStream(p)' = EntryStream(p))
  BY <1>1, <1>2 DEF ThisEntry, EntryStream
<1>5. /\ Size' = XOF_BLOCKBYTES
      /\ \A b \in 0 .. XOF_BLOCKBYTES - 1 : buf'[b] = KyberStream(EntryStream(ThisEntry), sq + b)
  BY <1>2, <1>3, SqueezedBlocks DEF Size
<1>6. /\ sq \in Nat /\ sq > 0 /\ Size \in Nat /\ Size % 3 = 0 /\ Size <= sq
      /\ pos \in Nat /\ pos % 3 = 0 /\ pos <= Size
      /\ done \in Nat /\ room \in Nat /\ done + room = KYBER_N /\ ctr \in 0 .. room
  BY <1>1 DEF BufferOfEntry
<1>7. PICK n \in Nat : (sq - Size) + pos = 3 * n /\ Entry(matrix[ThisEntry], EntryStream(ThisEntry),
      2 * n, done + ctr)
  BY <1>1 DEF BufferOfEntry
<1>8. pos = Size
  BY <1>1, <1>6
<1>9. sq' - Size' = sq /\ (sq' - Size') + pos' = 3 * n /\ sq' \in Nat /\ sq' > 0 /\ Size' <= sq'
      /\ pos' \in Nat /\ pos' % 3 = 0 /\ pos' <= Size' /\ Size' \in Nat /\ Size' % 3 = 0
  BY <1>2, <1>3, <1>5, <1>6, <1>7, <1>8
<1>10. done' \in Nat /\ room' \in Nat /\ done' + room' = KYBER_N /\ ctr' \in 0 .. room'
       /\ done' + ctr' = done + ctr
  BY <1>1, <1>2, <1>3, <1>6
<1>11. \A b \in 0 .. Size' - 1 : buf'[b] = KyberStream(EntryStream(ThisEntry), (sq' - Size') + b)
  BY <1>5, <1>9
<1>12. BufferOfEntry'
  <2>1. /\ (sq' - Size') + pos' = 3 * n
        /\ Entry(matrix'[ThisEntry'], EntryStream(ThisEntry)', 2 * n, done' + ctr')
    BY <1>1, <1>4, <1>7, <1>9, <1>10
  <2>2. \A b \in 0 .. Size' - 1 : buf'[b] = KyberStream(EntryStream(ThisEntry)', (sq' - Size') + b)
    BY <1>4, <1>11
  <2> QED
    BY <1>4, <1>9, <1>10, <2>1, <2>2 DEF BufferOfEntry
<1>13. MatrixTypes'
  BY <1>1, <1>2 DEF MatrixTypes
<1>14. EntriesInOrder'
  BY <1>1, <1>2, <1>4 DEF EntriesInOrder
<1> QED
  BY <1>12, <1>13, <1>14

\* The entry is full, and it is the turn of the next one.
LEMMA MatrixAdvance ==
  ASSUME Kyber!KyberSamplingParameters, KyberStreamsOfBytes, MatrixTypes, BufferOfEntry, EntriesInOrder,
         Kyber!rej_uniform_returns, ~ (done + ctr < KYBER_N)
  PROVE  MatrixTypes' /\ BufferOfEntry' /\ EntriesInOrder'
<1>1. /\ at = "reject" /\ transposed' = transposed /\ xof' = xof /\ matrix' = matrix
  BY DEF Kyber!rej_uniform_returns
<1>2. Kyber!NextEntry /\ sq' = 0
  BY DEF Kyber!rej_uniform_returns
<1>3. KYBER_N \in Nat /\ KYBER_K \in Nat /\ KYBER_K > 0 /\ Kyber!Rows = 0 .. KYBER_K - 1
  BY KyberParameters
<1>4. row \in Kyber!Rows /\ column \in Kyber!Rows /\ ThisEntry \in Pairs
  BY <1>1 DEF MatrixTypes, ThisEntry, Pairs
<1>5. \A p : EntryStream(p)' = EntryStream(p)
  BY <1>1 DEF EntryStream
<1>6. \E c \in Nat : Entry(matrix[ThisEntry], EntryStream(ThisEntry), c, KYBER_N)
  <2>1. /\ done \in Nat /\ room \in Nat /\ done + room = KYBER_N /\ ctr \in 0 .. room
    BY <1>1 DEF BufferOfEntry
  <2>2. PICK n \in Nat : Entry(matrix[ThisEntry], EntryStream(ThisEntry), 2 * n, done + ctr)
    BY <1>1 DEF BufferOfEntry
  <2>3. done + ctr = KYBER_N /\ 2 * n \in Nat
    BY <1>3, <2>1, <2>2
  <2> QED
    BY <2>2, <2>3
<1>7. ASSUME NEW q, ThisEntry' = q, \A p \in Pairs : Before(p, q) <=> Before(p, ThisEntry) \/ p = ThisEntry
      PROVE  EntriesInOrder'
  <2>1. ASSUME NEW p \in Pairs
        PROVE  /\ Before(p, q) => \E c \in Nat : Entry(matrix[p], EntryStream(p), c, KYBER_N)
               /\ ~ Before(p, q) => matrix[p] = [k \in Kyber!Index |-> -1]
    BY <1>6, <1>7 DEF EntriesInOrder
  <2> QED
    BY <1>1, <1>5, <1>7, <2>1 DEF EntriesInOrder
<1>8. CASE column + 1 < KYBER_K
  <2>1. row' = row /\ column' = column + 1 /\ at' = "matrix"
    BY <1>2, <1>8 DEF Kyber!NextEntry
  <2>2. column + 1 \in Kyber!Rows
    BY <1>3, <1>4, <1>8
  <2>3. MatrixTypes'
    BY <1>1, <1>2, <1>4, <2>1, <2>2 DEF MatrixTypes
  <2>4. EntriesInOrder'
    <3>1. ThisEntry' = <<row, column + 1>>
      BY <2>1 DEF ThisEntry
    <3>2. \A p \in Pairs : Before(p, <<row, column + 1>>) <=> Before(p, ThisEntry) \/ p = ThisEntry
      BY <1>4, <1>8, EntryAfter
    <3> QED
      BY <1>7, <3>1, <3>2
  <2> QED
    BY <2>1, <2>3, <2>4 DEF BufferOfEntry
<1>9. CASE ~ (column + 1 < KYBER_K)
  <2>1. row' = row + 1 /\ column' = 0 /\ at' = IF row + 1 < KYBER_K THEN "matrix" ELSE "done"
    BY <1>2, <1>9 DEF Kyber!NextEntry
  <2>2. 0 \in Kyber!Rows /\ (IF row + 1 < KYBER_K THEN row + 1 \in Kyber!Rows ELSE row + 1 = KYBER_K)
    BY <1>3, <1>4
  <2>3. MatrixTypes'
    BY <1>1, <1>2, <2>1, <2>2 DEF MatrixTypes
  <2>4. EntriesInOrder'
    <3>1. ThisEntry' = <<row + 1, 0>>
      BY <2>1 DEF ThisEntry
    <3>2. \A p \in Pairs : Before(p, <<row + 1, 0>>) <=> Before(p, ThisEntry) \/ p = ThisEntry
      BY <1>4, <1>9, EntryAfter
    <3> QED
      BY <1>7, <3>1, <3>2
  <2> QED
    BY <2>1, <2>3, <2>4 DEF BufferOfEntry
<1> QED
  BY <1>8, <1>9

LEMMA MatrixNext ==
  ASSUME Kyber!KyberSamplingParameters, KyberStreamsOfBytes, MatrixInv, [Kyber!Next]_(Kyber!vars)
  PROVE  MatrixInv'
<1>1. CASE Kyber!rej_uniform_returns
  <2>1. xof' = xof
    BY <1>1 DEF Kyber!rej_uniform_returns
  <2> QED
    BY <1>1, <2>1, MatrixRefill, MatrixAdvance DEF MatrixInv
<1>2. ASSUME NEW n, Kyber!poly_cbd(n)
      PROVE  MatrixInv'
  BY <1>2 DEF Kyber!poly_cbd, MatrixInv, MatrixTypes
<1>3. CASE UNCHANGED Kyber!vars
  <2>1. /\ at' = at /\ transposed' = transposed /\ xof' = xof /\ row' = row /\ column' = column /\ sq' = sq
        /\ buf' = buf /\ pos' = pos /\ ctr' = ctr /\ room' = room /\ done' = done /\ matrix' = matrix
    BY <1>3 DEF Kyber!vars
  <2>2. ThisEntry' = ThisEntry /\ (\A p : EntryStream(p)' = EntryStream(p)) /\ Size' = Size
    BY <2>1 DEF ThisEntry, EntryStream, Size
  <2> QED
    BY <2>1, <2>2 DEF MatrixInv, MatrixTypes, BufferOfEntry, EntriesInOrder
<1> QED
  BY <1>1, <1>2, <1>3, MatrixAbsorb, MatrixReject DEF Kyber!Next

-----------------------------------------------------------------------------
\* What is written are the accepted candidates of the stream.
LEMMA MatrixIsSampled ==
  ASSUME Kyber!KyberSamplingParameters, KyberStreamsOfBytes, MatrixInv, NEW n \in Nat
  PROVE  Kyber!SampledFrom(n)
<1> SUFFICES ASSUME xof # <<>>, NEW p \in Pairs, NEW k \in Kyber!Index
             PROVE  LET accepted == Kyber!AcceptedOf(EntryStream(p), n)
                        isWritten == \/ p[1] * KYBER_K + p[2] < row * KYBER_K + column
                                     \/ p = <<row, column>> /\ sq > 0 /\ k < done + ctr
                    IN IF isWritten THEN k < Len(accepted) => matrix[p][k] = accepted[k + 1]
                       ELSE matrix[p][k] = -1
  BY DEF Kyber!SampledFrom, EntryStream, Pairs
<1>1. MatrixTypes /\ BufferOfEntry /\ EntriesInOrder
  BY DEF MatrixInv
<1>2. /\ KYBER_N \in Nat /\ KYBER_K \in Nat /\ KYBER_K > 0
      /\ Kyber!Index = 0 .. KYBER_N - 1 /\ Kyber!Rows = 0 .. KYBER_K - 1
  BY KyberParameters
<1>3. EntryStream(p) \in Streams
  BY <1>1, StreamOfPair DEF MatrixTypes
<1>4. p[1] * KYBER_K + p[2] < row * KYBER_K + column <=> Before(p, ThisEntry)
  <2>1. p[1] \in 0 .. KYBER_K - 1 /\ p[2] \in 0 .. KYBER_K - 1
    BY <1>2 DEF Pairs
  <2>2. row \in Nat /\ column \in 0 .. KYBER_K - 1
    BY <1>1, <1>2 DEF MatrixTypes
  <2>3. p[1] * KYBER_K + p[2] < row * KYBER_K + column <=> (p[1] < row \/ (p[1] = row /\ p[2] < column))
    <3>1. PICK a \in 0 .. KYBER_K - 1 : a = p[1]
      BY <2>1
    <3>2. PICK b \in 0 .. KYBER_K - 1 : b = p[2]
      BY <2>1
    <3>3. a * KYBER_K + b < row * KYBER_K + column <=> (a < row \/ (a = row /\ b < column))
      BY <1>2, <2>2, OrderOfEntries
    <3> QED
      BY <3>1, <3>2, <3>3
  <2>4. ThisEntry[1] = row /\ ThisEntry[2] = column
    BY DEF ThisEntry
  <2> QED
    BY <2>3, <2>4 DEF Before
<1>5. ASSUME NEW c \in Nat, NEW m, Entry(matrix[p], EntryStream(p), c, m), k < m,
             k < Len(Kyber!AcceptedOf(EntryStream(p), n))
      PROVE  matrix[p][k] = Kyber!AcceptedOf(EntryStream(p), n)[k + 1]
  <2> DEFINE here == Kyber!AcceptedOf(EntryStream(p), c)
             there == Kyber!AcceptedOf(EntryStream(p), n)
  <2>1. here \in Seq(Int) /\ there \in Seq(Int)
    BY <1>3, AcceptedNext
  <2>2. matrix[p][k] = here[k + 1] /\ m <= Len(here) /\ m \in 0 .. KYBER_N
    BY <1>5 DEF Entry
  <2>3. \/ \A x \in 1 .. Len(here) : there[x] = here[x]
        \/ \A x \in 1 .. Len(there) : here[x] = there[x]
    BY <1>3, AcceptedGrows
  <2> HIDE DEF here, there
  <2>4. k + 1 \in 1 .. Len(here) /\ k + 1 \in 1 .. Len(there)
    <3>1. k < Len(there)
      BY <1>5 DEF there
    <3> QED
      BY <1>2, <1>5, <2>1, <2>2, <3>1
  <2>5. here[k + 1] = there[k + 1]
    BY <2>3, <2>4
  <2> QED
    BY <2>2, <2>5 DEF there
<1>6. CASE Before(p, ThisEntry)
  <2>1. PICK c \in Nat : Entry(matrix[p], EntryStream(p), c, KYBER_N)
    BY <1>1, <1>6 DEF EntriesInOrder
  <2>2. k < KYBER_N
    BY <1>2
  <2> QED
    BY <1>4, <1>5, <1>6, <2>1, <2>2
<1>7. CASE ~ Before(p, ThisEntry) /\ p = ThisEntry /\ at = "reject"
  <2>1. PICK c \in Nat : Entry(matrix[p], EntryStream(p), 2 * c, done + ctr) /\ sq > 0
    BY <1>1, <1>7 DEF BufferOfEntry
  <2>2. 2 * c \in Nat
    OBVIOUS
  <2>3. ~ (k < done + ctr) => matrix[p][k] = -1
    BY <2>1 DEF Entry
  <2> QED
    BY <1>4, <1>5, <1>7, <2>1, <2>2, <2>3 DEF ThisEntry
<1>8. CASE ~ Before(p, ThisEntry) /\ ~ (p = ThisEntry /\ at = "reject")
  <2>1. p = ThisEntry => at = "matrix" /\ sq = 0
    BY <1>1, <1>2, <1>8 DEF MatrixTypes, ThisEntry, Pairs
  <2>2. matrix[p][k] = -1
    BY <1>1, <1>8, <2>1 DEF EntriesInOrder
  <2> QED
    BY <1>4, <1>8, <2>1, <2>2 DEF ThisEntry
<1> QED
  BY <1>6, <1>7, <1>8

-----------------------------------------------------------------------------
(*  The noise of ML-KEM  *)

Bit(T, b) == IF b \in T THEN 1 ELSE 0

LEMMA BitValue == ASSUME NEW T, NEW b PROVE Bit(T, b) \in 0 .. 1
BY DEF Bit

\* The number is the sum of its bits.
LEMMA NumberOfBits ==
  ASSUME NEW T
  PROVE  Kyber!Number(T) =
             Bit(T, 0) + 2 * Bit(T, 1) + 4 * Bit(T, 2) + 8 * Bit(T, 3)
           + 16 * Bit(T, 4) + 32 * Bit(T, 5) + 64 * Bit(T, 6) + 128 * Bit(T, 7)
           + 256 * Bit(T, 8) + 512 * Bit(T, 9) + 1024 * Bit(T, 10) + 2048 * Bit(T, 11)
           + 4096 * Bit(T, 12) + 8192 * Bit(T, 13) + 16384 * Bit(T, 14) + 32768 * Bit(T, 15)
           + 65536 * Bit(T, 16) + 131072 * Bit(T, 17) + 262144 * Bit(T, 18) + 524288 * Bit(T, 19)
           + 1048576 * Bit(T, 20) + 2097152 * Bit(T, 21) + 4194304 * Bit(T, 22) + 8388608 * Bit(T, 23)
<1> DEFINE rule == [v \in (0 .. 24) \X Int |->
                      IF v[1] = 0 THEN 0 ELSE v[2] + (IF v[1] - 1 \in T THEN 2 ^ (v[1] - 1) ELSE 0)]
           Whole(f) == [n \in 0 .. 24 |->
                         IF n = 0 THEN 0 ELSE f[n - 1] + (IF n - 1 \in T THEN 2 ^ (n - 1) ELSE 0)]
           g == CHOOSE f : f = Whole(f)
<1>1. Kyber!Number(T) = g[24]
  BY DEF Kyber!Number
<1>2. \A n \in 1 .. 24 : 2 ^ (n - 1) \in Int
  OBVIOUS
<1>3. rule \in [(0 .. 24) \X Int -> Int]
  <2>1. ASSUME NEW v \in (0 .. 24) \X Int PROVE rule[v] \in Int
    <3>1. v[1] # 0 => v[1] \in 1 .. 24 /\ 2 ^ (v[1] - 1) \in Int
      BY <1>2
    <3>2. v[2] \in Int
      OBVIOUS
    <3> QED
      BY <3>1, <3>2
  <2> QED
    BY <2>1
<1>4. PICK f : IsChain(f, 24, Int, 0, rule)
  <2>1. 24 \in Nat /\ 0 \in Int
    OBVIOUS
  <2> HIDE DEF rule
  <2> QED
    BY <1>3, <2>1, ChainExists
<1>5. f = Whole(f)
  <2>1. f \in [0 .. 24 -> Int] /\ f = [i \in 0 .. 24 |-> IF i = 0 THEN 0 ELSE rule[<<i, f[i - 1]>>]]
    BY <1>4 DEF IsChain
  <2>2. ASSUME NEW i \in 0 .. 24
        PROVE  (IF i = 0 THEN 0 ELSE rule[<<i, f[i - 1]>>]) = Whole(f)[i]
    <3>1. i # 0 => i - 1 \in 0 .. 24
      OBVIOUS
    <3>2. i # 0 => <<i, f[i - 1]>> \in (0 .. 24) \X Int
      BY <2>1, <3>1
    <3> QED
      BY <3>2
  <2> QED
    BY <2>1, <2>2
<1>6. g = Whole(g)
  <2> HIDE DEF Whole
  <2> QED
    BY <1>5
<1>7. g[0] = 0 /\ \A n \in 1 .. 24 : g[n] = g[n - 1] + (IF n - 1 \in T THEN 2 ^ (n - 1) ELSE 0)
  <2>1. Whole(g)[0] = 0 /\ \A n \in 1 .. 24 : Whole(g)[n] = g[n - 1]
        + (IF n - 1 \in T THEN 2 ^ (n - 1) ELSE 0)
    OBVIOUS
  <2> HIDE DEF Whole, g
  <2> QED
    BY <1>6, <2>1
<1> HIDE DEF g
<1>8. g[8] = g[0]
             + Bit(T, 0) + 2 * Bit(T, 1) + 4 * Bit(T, 2) + 8 * Bit(T, 3)
             + 16 * Bit(T, 4) + 32 * Bit(T, 5) + 64 * Bit(T, 6) + 128 * Bit(T, 7)
  <2>1. g[1] = g[0] + Bit(T, 0)
    BY <1>7 DEF Bit
  <2>2. g[2] = g[1] + 2 * Bit(T, 1)
    BY <1>7 DEF Bit
  <2>3. g[3] = g[2] + 4 * Bit(T, 2)
    BY <1>7 DEF Bit
  <2>4. g[4] = g[3] + 8 * Bit(T, 3)
    BY <1>7 DEF Bit
  <2>5. g[5] = g[4] + 16 * Bit(T, 4)
    BY <1>7 DEF Bit
  <2>6. g[6] = g[5] + 32 * Bit(T, 5)
    BY <1>7 DEF Bit
  <2>7. g[7] = g[6] + 64 * Bit(T, 6)
    BY <1>7 DEF Bit
  <2>8. g[8] = g[7] + 128 * Bit(T, 7)
    BY <1>7 DEF Bit
  <2> QED
    BY <2>1, <2>2, <2>3, <2>4, <2>5, <2>6, <2>7, <2>8
<1>9. g[16] = g[8]
             + 256 * Bit(T, 8) + 512 * Bit(T, 9) + 1024 * Bit(T, 10) + 2048 * Bit(T, 11)
             + 4096 * Bit(T, 12) + 8192 * Bit(T, 13) + 16384 * Bit(T, 14) + 32768 * Bit(T, 15)
  <2>1. g[9] = g[8] + 256 * Bit(T, 8)
    BY <1>7 DEF Bit
  <2>2. g[10] = g[9] + 512 * Bit(T, 9)
    BY <1>7 DEF Bit
  <2>3. g[11] = g[10] + 1024 * Bit(T, 10)
    BY <1>7 DEF Bit
  <2>4. g[12] = g[11] + 2048 * Bit(T, 11)
    BY <1>7 DEF Bit
  <2>5. g[13] = g[12] + 4096 * Bit(T, 12)
    BY <1>7 DEF Bit
  <2>6. g[14] = g[13] + 8192 * Bit(T, 13)
    BY <1>7 DEF Bit
  <2>7. g[15] = g[14] + 16384 * Bit(T, 14)
    BY <1>7 DEF Bit
  <2>8. g[16] = g[15] + 32768 * Bit(T, 15)
    BY <1>7 DEF Bit
  <2> QED
    BY <2>1, <2>2, <2>3, <2>4, <2>5, <2>6, <2>7, <2>8
<1>10. g[24] = g[16]
             + 65536 * Bit(T, 16) + 131072 * Bit(T, 17) + 262144 * Bit(T, 18) + 524288 * Bit(T, 19)
             + 1048576 * Bit(T, 20) + 2097152 * Bit(T, 21) + 4194304 * Bit(T, 22) + 8388608 * Bit(T, 23)
  <2>1. g[17] = g[16] + 65536 * Bit(T, 16)
    BY <1>7 DEF Bit
  <2>2. g[18] = g[17] + 131072 * Bit(T, 17)
    BY <1>7 DEF Bit
  <2>3. g[19] = g[18] + 262144 * Bit(T, 18)
    BY <1>7 DEF Bit
  <2>4. g[20] = g[19] + 524288 * Bit(T, 19)
    BY <1>7 DEF Bit
  <2>5. g[21] = g[20] + 1048576 * Bit(T, 20)
    BY <1>7 DEF Bit
  <2>6. g[22] = g[21] + 2097152 * Bit(T, 21)
    BY <1>7 DEF Bit
  <2>7. g[23] = g[22] + 4194304 * Bit(T, 22)
    BY <1>7 DEF Bit
  <2>8. g[24] = g[23] + 8388608 * Bit(T, 23)
    BY <1>7 DEF Bit
  <2> QED
    BY <2>1, <2>2, <2>3, <2>4, <2>5, <2>6, <2>7, <2>8
<1>11. \A b \in 0 .. 23 : Bit(T, b) \in Int
  BY BitValue
<1>12. g[0] = 0
  BY <1>7
<1> QED
  BY <1>1, <1>8, <1>9, <1>10, <1>11, <1>12

\* A number with digits in base 4, and one with digits in base 8.
InBase4(d0, d1, d2, d3, d4, d5, d6, d7) ==
  d0 + 4 * d1 + 16 * d2 + 64 * d3 + 256 * d4 + 1024 * d5 + 4096 * d6 + 16384 * d7
Fields4(number, d0, d1, d2, d3, d4, d5, d6, d7) ==
  /\ (number \div 16 ^ 0) % 4 = d0 /\ ((number \div 16 ^ 0) \div 4) % 4 = d1
  /\ (number \div 16 ^ 1) % 4 = d2 /\ ((number \div 16 ^ 1) \div 4) % 4 = d3
  /\ (number \div 16 ^ 2) % 4 = d4 /\ ((number \div 16 ^ 2) \div 4) % 4 = d5
  /\ (number \div 16 ^ 3) % 4 = d6 /\ ((number \div 16 ^ 3) \div 4) % 4 = d7

LEMMA DigitsBase4 ==
  ASSUME NEW d0 \in 0 .. 2, NEW d1 \in 0 .. 2, NEW d2 \in 0 .. 2, NEW d3 \in 0 .. 2,
         NEW d4 \in 0 .. 2, NEW d5 \in 0 .. 2, NEW d6 \in 0 .. 2, NEW d7 \in 0 .. 2,
         NEW number, number = InBase4(d0, d1, d2, d3, d4, d5, d6, d7)
  PROVE  Fields4(number, d0, d1, d2, d3, d4, d5, d6, d7)
<1>0. number = d0 + 4 * d1 + 16 * d2 + 64 * d3 + 256 * d4 + 1024 * d5 + 4096 * d6 + 16384 * d7
  BY DEF InBase4
<1>1. PICK n1 \in Nat : n1 = d2 + 4 * d3 + 16 * d4 + 64 * d5 + 256 * d6 + 1024 * d7
  OBVIOUS
<1>2. PICK n2 \in Nat : n2 = d4 + 4 * d5 + 16 * d6 + 64 * d7
  OBVIOUS
<1>3. PICK n3 \in Nat : n3 = d6 + 4 * d7
  OBVIOUS
<1>4. number = d0 + 4 * d1 + 16 * n1 /\ n1 = d2 + 4 * d3 + 16 * n2 /\ n2 = d4 + 4 * d5 + 16 * n3
      /\ n3 = d6 + 4 * d7
  BY <1>0, <1>1, <1>2, <1>3
<1>5. number \in Nat
  BY <1>1, <1>4
<1>6. /\ number = (d0 + 4 * d1) + 16 * n1
      /\ number = (d0 + 4 * d1 + 16 * d2 + 64 * d3) + 256 * n2
      /\ number = (d0 + 4 * d1 + 16 * d2 + 64 * d3 + 256 * d4 + 1024 * d5) + 4096 * n3
  BY <1>1, <1>2, <1>3, <1>4
<1>7. /\ number \div 16 = n1 /\ \E low \in Nat : low <= 15 /\ number = low + 16 * n1
      /\ number \div 256 = n2 /\ \E low \in Nat : low <= 255 /\ number = low + 256 * n2
      /\ number \div 4096 = n3 /\ \E low \in Nat : low <= 4095 /\ number = low + 4096 * n3
  <2>1. number \div 16 = n1 /\ \E low \in Nat : low <= 15 /\ number = low + 16 * n1
    <3>1. PICK low \in Nat : low <= 15 /\ low = d0 + 4 * d1
      OBVIOUS
    <3>2. number = low + 16 * n1
      BY <1>6, <3>1
    <3>3. number \div 16 = n1
      BY <3>1, <3>2
    <3> QED
      BY <3>1, <3>2, <3>3
  <2>2. number \div 256 = n2 /\ \E low \in Nat : low <= 255 /\ number = low + 256 * n2
    <3>1. PICK low \in Nat : low <= 255 /\ low = d0 + 4 * d1 + 16 * d2 + 64 * d3
      OBVIOUS
    <3>2. number = low + 256 * n2
      BY <1>6, <3>1
    <3>3. number \div 256 = n2
      BY <3>1, <3>2
    <3> QED
      BY <3>1, <3>2, <3>3
  <2>3. number \div 4096 = n3 /\ \E low \in Nat : low <= 4095 /\ number = low + 4096 * n3
    <3>1. PICK low \in Nat : low <= 4095 /\ low = d0 + 4 * d1 + 16 * d2 + 64 * d3 + 256 * d4 + 1024 * d5
      OBVIOUS
    <3>2. number = low + 4096 * n3
      BY <1>6, <3>1
    <3>3. number \div 4096 = n3
      BY <3>1, <3>2
    <3> QED
      BY <3>1, <3>2, <3>3
  <2> QED
    BY <2>1, <2>2, <2>3
<1>8. 16 ^ 0 = 1 /\ 16 ^ 1 = 16 /\ 16 ^ 2 = 256 /\ 16 ^ 3 = 4096
  OBVIOUS
<1>9. \A x \in 0 .. 2, y \in 0 .. 2, z \in Nat :
        (x + 4 * y + 16 * z) % 4 = x /\ ((x + 4 * y + 16 * z) \div 4) % 4 = y
  <2>1. ASSUME NEW x \in 0 .. 2, NEW y \in 0 .. 2, NEW z \in Nat
        PROVE  (x + 4 * y + 16 * z) % 4 = x /\ (x + 4 * y + 16 * z) \div 4 = y + 4 * z /\ (y + 4 * z) % 4 = y
    OBVIOUS
  <2> QED
    BY <2>1
<1>10. number \div 1 = number /\ n3 = d6 + 4 * d7 + 16 * 0
  BY <1>4, <1>5
<1>11. number % 4 = d0 /\ (number \div 4) % 4 = d1
  BY <1>4, <1>9
<1>12. n1 % 4 = d2 /\ (n1 \div 4) % 4 = d3
  BY <1>4, <1>9
<1>13. n2 % 4 = d4 /\ (n2 \div 4) % 4 = d5
  BY <1>4, <1>9
<1>14. n3 % 4 = d6 /\ (n3 \div 4) % 4 = d7
  BY <1>9, <1>10
<1>15. number \div 16 = n1 /\ number \div 256 = n2 /\ number \div 4096 = n3
  BY <1>7
<1> QED
  BY <1>5, <1>8, <1>10, <1>11, <1>12, <1>13, <1>14, <1>15 DEF Fields4

InBase8(d0, d1, d2, d3, d4, d5, d6, d7) ==
  d0 + 8 * d1 + 64 * d2 + 512 * d3 + 4096 * d4 + 32768 * d5 + 262144 * d6 + 2097152 * d7
Fields8(number, d0, d1, d2, d3, d4, d5, d6, d7) ==
  /\ (number \div 64 ^ 0) % 8 = d0 /\ (number \div (8 * 64 ^ 0)) % 8 = d1
  /\ (number \div 64 ^ 1) % 8 = d2 /\ (number \div (8 * 64 ^ 1)) % 8 = d3
  /\ (number \div 64 ^ 2) % 8 = d4 /\ (number \div (8 * 64 ^ 2)) % 8 = d5
  /\ (number \div 64 ^ 3) % 8 = d6 /\ (number \div (8 * 64 ^ 3)) % 8 = d7

LEMMA DigitsBase8 ==
  ASSUME NEW d0 \in 0 .. 3, NEW d1 \in 0 .. 3, NEW d2 \in 0 .. 3, NEW d3 \in 0 .. 3,
         NEW d4 \in 0 .. 3, NEW d5 \in 0 .. 3, NEW d6 \in 0 .. 3, NEW d7 \in 0 .. 3,
         NEW number, number = InBase8(d0, d1, d2, d3, d4, d5, d6, d7)
  PROVE  Fields8(number, d0, d1, d2, d3, d4, d5, d6, d7)
<1>0. number = d0 + 8 * d1 + 64 * d2 + 512 * d3 + 4096 * d4 + 32768 * d5 + 262144 * d6 + 2097152 * d7
  BY DEF InBase8
<1>1. PICK n1 \in Nat : n1 = d2 + 8 * d3 + 64 * d4 + 512 * d5 + 4096 * d6 + 32768 * d7
  OBVIOUS
<1>2. PICK n2 \in Nat : n2 = d4 + 8 * d5 + 64 * d6 + 512 * d7
  OBVIOUS
<1>3. PICK n3 \in Nat : n3 = d6 + 8 * d7
  OBVIOUS
<1>4. number = d0 + 8 * d1 + 64 * n1 /\ n1 = d2 + 8 * d3 + 64 * n2 /\ n2 = d4 + 8 * d5 + 64 * n3
      /\ n3 = d6 + 8 * d7
  BY <1>0, <1>1, <1>2, <1>3
<1>5. number \in Nat
  BY <1>1, <1>4
<1>6. /\ number = (d0 + 8 * d1) + 64 * n1
      /\ number = (d0 + 8 * d1 + 64 * d2 + 512 * d3) + 4096 * n2
      /\ number = (d0 + 8 * d1 + 64 * d2 + 512 * d3 + 4096 * d4 + 32768 * d5) + 262144 * n3
  BY <1>1, <1>2, <1>3, <1>4
<1>7. /\ number \div 64 = n1 /\ \E low \in Nat : low <= 63 /\ number = low + 64 * n1
      /\ number \div 4096 = n2 /\ \E low \in Nat : low <= 4095 /\ number = low + 4096 * n2
      /\ number \div 262144 = n3 /\ \E low \in Nat : low <= 262143 /\ number = low + 262144 * n3
  <2>1. number \div 64 = n1 /\ \E low \in Nat : low <= 63 /\ number = low + 64 * n1
    <3>1. PICK low \in Nat : low <= 63 /\ low = d0 + 8 * d1
      OBVIOUS
    <3>2. number = low + 64 * n1
      BY <1>6, <3>1
    <3>3. number \div 64 = n1
      BY <3>1, <3>2
    <3> QED
      BY <3>1, <3>2, <3>3
  <2>2. number \div 4096 = n2 /\ \E low \in Nat : low <= 4095 /\ number = low + 4096 * n2
    <3>1. PICK low \in Nat : low <= 4095 /\ low = d0 + 8 * d1 + 64 * d2 + 512 * d3
      OBVIOUS
    <3>2. number = low + 4096 * n2
      BY <1>6, <3>1
    <3>3. number \div 4096 = n2
      BY <3>1, <3>2
    <3> QED
      BY <3>1, <3>2, <3>3
  <2>3. number \div 262144 = n3 /\ \E low \in Nat : low <= 262143 /\ number = low + 262144 * n3
    <3>1. PICK low \in Nat : low <= 262143 /\ low = d0 + 8 * d1 + 64 * d2 + 512 * d3 + 4096 * d4 + 32768 * d5
      OBVIOUS
    <3>2. number = low + 262144 * n3
      BY <1>6, <3>1
    <3>3. number \div 262144 = n3
      BY <3>1, <3>2
    <3> QED
      BY <3>1, <3>2, <3>3
  <2> QED
    BY <2>1, <2>2, <2>3
<1>8. 64 ^ 0 = 1 /\ 64 ^ 1 = 64 /\ 64 ^ 2 = 4096 /\ 64 ^ 3 = 262144
      /\ 8 * 1 = 8 /\ 8 * 64 = 512 /\ 8 * 4096 = 32768 /\ 8 * 262144 = 2097152
  OBVIOUS
<1>9. \A x \in 0 .. 3, z \in Nat : (x + 8 * z) % 8 = x /\ (x + 8 * z) \div 8 = z
  OBVIOUS
<1>10. number \div 1 = number
  BY <1>5
<1>11. number % 8 = d0
  <2>1. PICK z \in Nat : z = d1 + 8 * n1
    BY <1>1
  <2>2. number = d0 + 8 * z
    BY <1>4, <2>1
  <2> QED
    BY <1>9, <2>2
<1>12. n1 % 8 = d2
  <2>1. PICK z \in Nat : z = d3 + 8 * n2
    BY <1>2
  <2>2. n1 = d2 + 8 * z
    BY <1>4, <2>1
  <2> QED
    BY <1>9, <2>2
<1>13. n2 % 8 = d4
  <2>1. PICK z \in Nat : z = d5 + 8 * n3
    BY <1>3
  <2>2. n2 = d4 + 8 * z
    BY <1>4, <2>1
  <2> QED
    BY <1>9, <2>2
<1>14. n3 % 8 = d6
  <2>1. PICK z \in Nat : z = d7 + 8 * 0
    BY <1>3
  <2>2. n3 = d6 + 8 * z
    BY <1>4, <2>1
  <2> QED
    BY <1>9, <2>2
<1>15. (number \div 8) % 8 = d1
  <2>1. PICK z \in Nat : z = d1 + 8 * n1
    BY <1>1
  <2>2. number = d0 + 8 * z
    BY <1>4, <2>1
  <2>5. number \div 8 = z
    BY <2>2
  <2> QED
    BY <1>9, <2>1, <2>5
<1>16. (number \div 512) % 8 = d3
  <2>1. PICK z \in Nat : z = d3 + 8 * n2
    BY <1>2
  <2>2. n1 = d2 + 8 * z
    BY <1>4, <2>1
  <2>3. PICK low \in Nat : low <= 63 /\ number = low + 64 * n1
    BY <1>7
  <2>4. low + 64 * d2 <= 511 /\ number = (low + 64 * d2) + 512 * z
    BY <2>2, <2>3
  <2>5. number \div 512 = z
    BY <2>4
  <2> QED
    BY <1>9, <2>1, <2>5
<1>17. (number \div 32768) % 8 = d5
  <2>1. PICK z \in Nat : z = d5 + 8 * n3
    BY <1>3
  <2>2. n2 = d4 + 8 * z
    BY <1>4, <2>1
  <2>3. PICK low \in Nat : low <= 4095 /\ number = low + 4096 * n2
    BY <1>7
  <2>4. low + 4096 * d4 <= 32767 /\ number = (low + 4096 * d4) + 32768 * z
    BY <2>2, <2>3
  <2>5. number \div 32768 = z
    BY <2>4
  <2> QED
    BY <1>9, <2>1, <2>5
<1>18. (number \div 2097152) % 8 = d7
  <2>1. PICK z \in Nat : z = d7 + 8 * 0
    BY <1>3
  <2>2. n3 = d6 + 8 * z
    BY <1>4, <2>1
  <2>3. PICK low \in Nat : low <= 262143 /\ number = low + 262144 * n3
    BY <1>7
  <2>4. low + 262144 * d6 <= 2097151 /\ number = (low + 262144 * d6) + 2097152 * z
    BY <2>2, <2>3
  <2>5. number \div 2097152 = z
    BY <2>4
  <2> QED
    BY <1>9, <2>1, <2>5
<1>19. number \div 64 = n1 /\ number \div 4096 = n2 /\ number \div 262144 = n3
  BY <1>7
<1>20. (number \div 64 ^ 0) % 8 = d0 /\ (number \div (8 * 64 ^ 0)) % 8 = d1
  BY <1>8, <1>10, <1>11, <1>15
<1>21. (number \div 64 ^ 1) % 8 = d2 /\ (number \div (8 * 64 ^ 1)) % 8 = d3
  BY <1>8, <1>12, <1>16, <1>19
<1>22. (number \div 64 ^ 2) % 8 = d4 /\ (number \div (8 * 64 ^ 2)) % 8 = d5
  BY <1>8, <1>13, <1>17, <1>19
<1>23. (number \div 64 ^ 3) % 8 = d6 /\ (number \div (8 * 64 ^ 3)) % 8 = d7
  BY <1>8, <1>14, <1>18, <1>19
<1> QED
  BY <1>20, <1>21, <1>22, <1>23, Zenon DEF Fields8

LEMMA ShiftMember ==
  ASSUME NEW T \in SUBSET Int, NEW n \in Nat
  PROVE  /\ Kyber!Shift(T, n) \subseteq Int
         /\ \A b \in Nat : b \in Kyber!Shift(T, n) <=> b + n \in T
<1>1. Kyber!Shift(T, n) \subseteq Int
  BY DEF Kyber!Shift
<1>2. ASSUME NEW b \in Nat PROVE b \in Kyber!Shift(T, n) <=> b + n \in T
  <2>1. ASSUME b + n \in T PROVE b \in Kyber!Shift(T, n)
    <3>1. b + n >= n /\ b = (b + n) - n
      OBVIOUS
    <3> QED
      BY <2>1, <3>1 DEF Kyber!Shift
  <2>2. ASSUME b \in Kyber!Shift(T, n) PROVE b + n \in T
    <3>1. PICK c \in T : c >= n /\ b = c - n
      BY <2>2 DEF Kyber!Shift
    <3> QED
      BY <3>1
  <2> QED
    BY <2>1, <2>2
<1> QED
  BY <1>1, <1>2

\* One bit more.
LEMMA OnesOneMore ==
  ASSUME NEW T, NEW b \in Int, NEW c \in Int
  PROVE  b <= c + 1 => Cardinality(T \cap (b .. c + 1)) = Cardinality(T \cap (b .. c)) + Bit(T, c + 1)
<1> SUFFICES ASSUME b <= c + 1
             PROVE  Cardinality(T \cap (b .. c + 1)) = Cardinality(T \cap (b .. c)) + Bit(T, c + 1)
  OBVIOUS
<1> DEFINE U == T \cap (b .. c)
<1>1. IsFiniteSet(U) /\ Cardinality(U) \in Nat
  <2>1. IsFiniteSet(b .. c)
    BY FS_Interval
  <2> QED
    BY <2>1, FS_Subset, FS_CardinalityType
<1>2. CASE c + 1 \in T
  <2>1. T \cap (b .. c + 1) = U \cup {c + 1} /\ c + 1 \notin U
    BY <1>2
  <2> HIDE DEF U
  <2>2. Cardinality(U \cup {c + 1}) = Cardinality(U) + 1
    BY <1>1, <2>1, FS_AddElement
  <2> QED
    BY <1>2, <2>1, <2>2 DEF Bit, U
<1>3. CASE c + 1 \notin T
  <2>1. T \cap (b .. c + 1) = U
    BY <1>3
  <2> HIDE DEF U
  <2>2. Cardinality(U) = Cardinality(U) + 0
    BY <1>1
  <2> QED
    BY <1>3, <2>1, <2>2 DEF Bit, U
<1> QED
  BY <1>2, <1>3

LEMMA NumberOfOnes ==
  ASSUME NEW T, NEW b \in Int
  PROVE  /\ Cardinality(T \cap (b .. b + 1)) = Bit(T, b) + Bit(T, b + 1)
         /\ Cardinality(T \cap (b .. b + 2)) = Bit(T, b) + Bit(T, b + 1) + Bit(T, b + 2)
<1>1. Cardinality(T \cap (b .. b - 1)) = 0
  <2>1. T \cap (b .. b - 1) = {}
    OBVIOUS
  <2> QED
    BY <2>1, FS_EmptySet
<1>2. PICK k0 \in Int : k0 = Bit(T, b)
  BY BitValue
<1>3. Cardinality(T \cap (b .. b)) = k0
  <2>1. b - 1 \in Int /\ b <= (b - 1) + 1 /\ (b - 1) + 1 = b
    OBVIOUS
  <2>2. Cardinality(T \cap (b .. (b - 1) + 1)) = Cardinality(T \cap (b .. b - 1)) + Bit(T, (b - 1) + 1)
    BY <2>1, OnesOneMore
  <2> QED
    BY <1>1, <1>2, <2>1, <2>2
<1>4. Cardinality(T \cap (b .. b + 1)) = k0 + Bit(T, b + 1)
  <2>1. Cardinality(T \cap (b .. b + 1)) = Cardinality(T \cap (b .. b)) + Bit(T, b + 1)
    BY OnesOneMore
  <2> QED
    BY <1>3, <2>1
<1>5. Cardinality(T \cap (b .. b + 2)) = (k0 + Bit(T, b + 1)) + Bit(T, b + 2)
  <2>1. b + 1 \in Int /\ b <= (b + 1) + 1 /\ (b + 1) + 1 = b + 2
    OBVIOUS
  <2>2. Cardinality(T \cap (b .. (b + 1) + 1)) = Cardinality(T \cap (b .. b + 1)) + Bit(T, (b + 1) + 1)
    BY <2>1, OnesOneMore
  <2> QED
    BY <1>4, <2>1, <2>2
<1> QED
  BY <1>2, <1>4, <1>5

EvenBits(T, e) == Bit(T, e) + 4 * Bit(T, e + 2) + 16 * Bit(T, e + 4) + 64 * Bit(T, e + 6)
                  + 256 * Bit(T, e + 8) + 1024 * Bit(T, e + 10) + 4096 * Bit(T, e + 12)
                      + 16384 * Bit(T, e + 14)
LEMMA EvenBitsSum ==
  ASSUME NEW T, NEW e \in Int, NEW X, X \subseteq 0 .. 15,
         \A b \in 0 .. 15 : b \in X <=> b % 2 = 0 /\ b + e \in T
  PROVE  Kyber!Number(X) = EvenBits(T, e)
<1>1. Bit(X, 0) = Bit(T, e)
  BY DEF Bit
<1>2. Bit(X, 1) = 0
  BY DEF Bit
<1>3. Bit(X, 2) = Bit(T, e + 2)
  BY DEF Bit
<1>4. Bit(X, 3) = 0
  BY DEF Bit
<1>5. Bit(X, 4) = Bit(T, e + 4)
  BY DEF Bit
<1>6. Bit(X, 5) = 0
  BY DEF Bit
<1>7. Bit(X, 6) = Bit(T, e + 6)
  BY DEF Bit
<1>8. Bit(X, 7) = 0
  BY DEF Bit
<1>9. Bit(X, 8) = Bit(T, e + 8)
  BY DEF Bit
<1>10. Bit(X, 9) = 0
  BY DEF Bit
<1>11. Bit(X, 10) = Bit(T, e + 10)
  BY DEF Bit
<1>12. Bit(X, 11) = 0
  BY DEF Bit
<1>13. Bit(X, 12) = Bit(T, e + 12)
  BY DEF Bit
<1>14. Bit(X, 13) = 0
  BY DEF Bit
<1>15. Bit(X, 14) = Bit(T, e + 14)
  BY DEF Bit
<1>16. Bit(X, 15) = 0
  BY DEF Bit
<1>17. Bit(X, 16) = 0
  BY DEF Bit
<1>18. Bit(X, 17) = 0
  BY DEF Bit
<1>19. Bit(X, 18) = 0
  BY DEF Bit
<1>20. Bit(X, 19) = 0
  BY DEF Bit
<1>21. Bit(X, 20) = 0
  BY DEF Bit
<1>22. Bit(X, 21) = 0
  BY DEF Bit
<1>23. Bit(X, 22) = 0
  BY DEF Bit
<1>24. Bit(X, 23) = 0
  BY DEF Bit
<1> QED
  BY <1>1, <1>2, <1>3, <1>4, <1>5, <1>6, <1>7, <1>8, <1>9, <1>10, <1>11, <1>12, <1>13, <1>14, <1>15,
      <1>16, <1>17, <1>18, <1>19, <1>20, <1>21, <1>22, <1>23, <1>24,
     NumberOfBits, BitValue DEF EvenBits

ThirdBits(T, e) == Bit(T, e) + 8 * Bit(T, e + 3) + 64 * Bit(T, e + 6) + 512 * Bit(T, e + 9)
                  + 4096 * Bit(T, e + 12) + 32768 * Bit(T, e + 15) + 262144 * Bit(T, e + 18)
                      + 2097152 * Bit(T, e + 21)
LEMMA ThirdBitsSum ==
  ASSUME NEW T, NEW e \in Int, NEW X, X \subseteq 0 .. 23,
         \A b \in 0 .. 23 : b \in X <=> b % 3 = 0 /\ b + e \in T
  PROVE  Kyber!Number(X) = ThirdBits(T, e)
<1>1. Bit(X, 0) = Bit(T, e)
  BY DEF Bit
<1>2. Bit(X, 1) = 0
  BY DEF Bit
<1>3. Bit(X, 2) = 0
  BY DEF Bit
<1>4. Bit(X, 3) = Bit(T, e + 3)
  BY DEF Bit
<1>5. Bit(X, 4) = 0
  BY DEF Bit
<1>6. Bit(X, 5) = 0
  BY DEF Bit
<1>7. Bit(X, 6) = Bit(T, e + 6)
  BY DEF Bit
<1>8. Bit(X, 7) = 0
  BY DEF Bit
<1>9. Bit(X, 8) = 0
  BY DEF Bit
<1>10. Bit(X, 9) = Bit(T, e + 9)
  BY DEF Bit
<1>11. Bit(X, 10) = 0
  BY DEF Bit
<1>12. Bit(X, 11) = 0
  BY DEF Bit
<1>13. Bit(X, 12) = Bit(T, e + 12)
  BY DEF Bit
<1>14. Bit(X, 13) = 0
  BY DEF Bit
<1>15. Bit(X, 14) = 0
  BY DEF Bit
<1>16. Bit(X, 15) = Bit(T, e + 15)
  BY DEF Bit
<1>17. Bit(X, 16) = 0
  BY DEF Bit
<1>18. Bit(X, 17) = 0
  BY DEF Bit
<1>19. Bit(X, 18) = Bit(T, e + 18)
  BY DEF Bit
<1>20. Bit(X, 19) = 0
  BY DEF Bit
<1>21. Bit(X, 20) = 0
  BY DEF Bit
<1>22. Bit(X, 21) = Bit(T, e + 21)
  BY DEF Bit
<1>23. Bit(X, 22) = 0
  BY DEF Bit
<1>24. Bit(X, 23) = 0
  BY DEF Bit
<1> QED
  BY <1>1, <1>2, <1>3, <1>4, <1>5, <1>6, <1>7, <1>8, <1>9, <1>10, <1>11, <1>12, <1>13, <1>14, <1>15,
      <1>16, <1>17, <1>18, <1>19, <1>20, <1>21, <1>22, <1>23, <1>24,
     NumberOfBits, BitValue DEF ThirdBits

\* The digits of d in cbd2, and in cbd3.
Two(T, e, k) == Bit(T, e + 2 * k) + Bit(T, e + (2 * k + 1))
Three(T, k) == Bit(T, 3 * k) + Bit(T, 3 * k + 1) + Bit(T, 3 * k + 2)

LEMMA DigitsOfTwo ==
  ASSUME NEW T \in SUBSET Int, NEW h \in {0, 1}, NEW e, e = 16 * h
  PROVE  Kyber!d2(T, h) = Two(T, e, 0) + 4 * Two(T, e, 1) + 16 * Two(T, e, 2) + 64 * Two(T, e, 3)
                          + 256 * Two(T, e, 4) + 1024 * Two(T, e, 5) + 4096 * Two(T, e, 6)
                              + 16384 * Two(T, e, 7)
<1> DEFINE low == {b \in Kyber!Shift(T, 16 * h) \cap 0 .. 15 : b % 2 = 0}
           middle == {b \in Kyber!Shift(Kyber!Shift(T, 1), 16 * h) \cap 0 .. 15 : b % 2 = 0}
<1>1. Kyber!d2(T, h) = Kyber!Number(low) + Kyber!Number(middle)
  BY DEF Kyber!d2
<1>2. e \in Nat /\ 16 * h \in Nat
  OBVIOUS
<1>3. Kyber!Shift(T, 1) \in SUBSET Int
  BY ShiftMember
<1>4. low \subseteq 0 .. 15 /\ \A b \in 0 .. 15 : b \in low <=> b % 2 = 0 /\ b + e \in T
  <2>1. \A b \in 0 .. 15 : b \in Kyber!Shift(T, 16 * h) <=> b + e \in T
    BY <1>2, ShiftMember
  <2> QED
    BY <2>1
<1>5. middle \subseteq 0 .. 15 /\ \A b \in 0 .. 15 : b \in middle <=> b % 2 = 0 /\ b + (e + 1) \in T
  <2> DEFINE U == Kyber!Shift(T, 1)
  <2>1. \A b \in 0 .. 15 : b + e \in Nat /\ (b + e) + 1 = b + (e + 1)
    BY <1>2
  <2>2. \A b \in 0 .. 15 : b + e \in U <=> b + (e + 1) \in T
    BY <2>1, ShiftMember
  <2> HIDE DEF U
  <2>3. \A b \in 0 .. 15 : b \in Kyber!Shift(U, 16 * h) <=> b + e \in U
    BY <1>2, <1>3, ShiftMember DEF U
  <2> QED
    BY <2>2, <2>3 DEF U
<1>10. e \in Int /\ e + 1 \in Int
  BY <1>2
<1> HIDE DEF low, middle
<1>6. Kyber!Number(low) = EvenBits(T, e)
  BY <1>4, <1>10, EvenBitsSum
<1>7. Kyber!Number(middle) = EvenBits(T, e + 1)
  BY <1>5, <1>10, EvenBitsSum
<1>8. \A b : Bit(T, b) \in Int
  BY BitValue
<1>12. Two(T, e, 1) = Bit(T, e + 2) + Bit(T, (e + 1) + 2)
  BY <1>2 DEF Two
<1>13. Two(T, e, 2) = Bit(T, e + 4) + Bit(T, (e + 1) + 4)
  BY <1>2 DEF Two
<1>14. Two(T, e, 3) = Bit(T, e + 6) + Bit(T, (e + 1) + 6)
  BY <1>2 DEF Two
<1>15. Two(T, e, 4) = Bit(T, e + 8) + Bit(T, (e + 1) + 8)
  BY <1>2 DEF Two
<1>16. Two(T, e, 5) = Bit(T, e + 10) + Bit(T, (e + 1) + 10)
  BY <1>2 DEF Two
<1>17. Two(T, e, 6) = Bit(T, e + 12) + Bit(T, (e + 1) + 12)
  BY <1>2 DEF Two
<1>18. Two(T, e, 7) = Bit(T, e + 14) + Bit(T, (e + 1) + 14)
  BY <1>2 DEF Two
<1>11. Two(T, e, 0) = Bit(T, e) + Bit(T, e + 1)
  BY <1>2 DEF Two
<1> QED
  BY <1>1, <1>6, <1>7, <1>8, <1>11, <1>12, <1>13, <1>14, <1>15, <1>16, <1>17, <1>18
    DEF EvenBits

LEMMA DigitsOfThree ==
  ASSUME NEW T \in SUBSET Int
  PROVE  Kyber!d3(T) = Three(T, 0) + 8 * Three(T, 1) + 64 * Three(T, 2) + 512 * Three(T, 3)
                       + 4096 * Three(T, 4) + 32768 * Three(T, 5) + 262144 * Three(T, 6)
                           + 2097152 * Three(T, 7)
<1> DEFINE low == {b \in T \cap 0 .. 23 : b % 3 = 0}
           middle == {b \in Kyber!Shift(T, 1) \cap 0 .. 23 : b % 3 = 0}
           high == {b \in Kyber!Shift(T, 2) \cap 0 .. 23 : b % 3 = 0}
<1>1. Kyber!d3(T) = Kyber!Number(low) + Kyber!Number(middle) + Kyber!Number(high)
  BY DEF Kyber!d3
<1>2. low \subseteq 0 .. 23 /\ \A b \in 0 .. 23 : b \in low <=> b % 3 = 0 /\ b + 0 \in T
  OBVIOUS
<1>3. middle \subseteq 0 .. 23 /\ \A b \in 0 .. 23 : b \in middle <=> b % 3 = 0 /\ b + 1 \in T
  BY ShiftMember
<1>4. high \subseteq 0 .. 23 /\ \A b \in 0 .. 23 : b \in high <=> b % 3 = 0 /\ b + 2 \in T
  BY ShiftMember
<1> HIDE DEF low, middle, high
<1>5. Kyber!Number(low) = ThirdBits(T, 0)
  <2>1. 0 \in Int
    OBVIOUS
  <2> QED
    BY <1>2, <2>1, ThirdBitsSum, Zenon
<1>6. Kyber!Number(middle) = ThirdBits(T, 1)
  <2>1. 1 \in Int
    OBVIOUS
  <2> QED
    BY <1>3, <2>1, ThirdBitsSum, Zenon
<1>7. Kyber!Number(high) = ThirdBits(T, 2)
  <2>1. 2 \in Int
    OBVIOUS
  <2> QED
    BY <1>4, <2>1, ThirdBitsSum, Zenon
<1>8. \A b : Bit(T, b) \in Int
  BY BitValue
<1>9. Three(T, 0) = Bit(T, 0) + Bit(T, 1) + Bit(T, 2)
  BY DEF Three
<1>10. Three(T, 1) = Bit(T, 3) + Bit(T, 4) + Bit(T, 5)
  BY DEF Three
<1>11. Three(T, 2) = Bit(T, 6) + Bit(T, 7) + Bit(T, 8)
  BY DEF Three
<1>12. Three(T, 3) = Bit(T, 9) + Bit(T, 10) + Bit(T, 11)
  BY DEF Three
<1>13. Three(T, 4) = Bit(T, 12) + Bit(T, 13) + Bit(T, 14)
  BY DEF Three
<1>14. Three(T, 5) = Bit(T, 15) + Bit(T, 16) + Bit(T, 17)
  BY DEF Three
<1>15. Three(T, 6) = Bit(T, 18) + Bit(T, 19) + Bit(T, 20)
  BY DEF Three
<1>16. Three(T, 7) = Bit(T, 21) + Bit(T, 22) + Bit(T, 23)
  BY DEF Three
<1> QED
  BY <1>1, <1>5, <1>6, <1>7, <1>8, <1>9, <1>10, <1>11, <1>12, <1>13, <1>14, <1>15, <1>16
    DEF ThirdBits

LEMMA TwoRange == ASSUME NEW T, NEW e, NEW k PROVE Two(T, e, k) \in 0 .. 2
BY BitValue DEF Two
LEMMA ThreeRange == ASSUME NEW T, NEW k PROVE Three(T, k) \in 0 .. 3
BY BitValue DEF Three

\* A coefficient of cbd2 and one of cbd3, in bits.
LEMMA NoiseOfTwo ==
  ASSUME NEW T \in SUBSET Int, NEW h \in {0, 1}, NEW e, e = 16 * h
  PROVE  LET c == Kyber!cbd2(T) IN
         /\ c[4 * h + 0] = Two(T, e, 0) - Two(T, e, 1)
         /\ c[4 * h + 1] = Two(T, e, 2) - Two(T, e, 3)
         /\ c[4 * h + 2] = Two(T, e, 4) - Two(T, e, 5)
         /\ c[4 * h + 3] = Two(T, e, 6) - Two(T, e, 7)
<1>1. Kyber!d2(T, h) = InBase4(Two(T, e, 0), Two(T, e, 1), Two(T, e, 2), Two(T, e, 3), Two(T, e, 4),
      Two(T, e, 5), Two(T, e, 6), Two(T, e, 7))
  BY DigitsOfTwo DEF InBase4
<1>2. /\ Two(T, e, 0) \in 0 .. 2
      /\ Two(T, e, 1) \in 0 .. 2
      /\ Two(T, e, 2) \in 0 .. 2
      /\ Two(T, e, 3) \in 0 .. 2
      /\ Two(T, e, 4) \in 0 .. 2
      /\ Two(T, e, 5) \in 0 .. 2
      /\ Two(T, e, 6) \in 0 .. 2
      /\ Two(T, e, 7) \in 0 .. 2
  BY TwoRange, Zenon
<1>3. Fields4(Kyber!d2(T, h), Two(T, e, 0), Two(T, e, 1), Two(T, e, 2), Two(T, e, 3), Two(T, e, 4),
      Two(T, e, 5), Two(T, e, 6), Two(T, e, 7))
  BY <1>1, <1>2, DigitsBase4, Zenon
<1>4. PICK number : number = Kyber!d2(T, h)
  OBVIOUS
<1>5. Fields4(number, Two(T, e, 0), Two(T, e, 1), Two(T, e, 2), Two(T, e, 3), Two(T, e, 4), Two(T, e, 5),
      Two(T, e, 6), Two(T, e, 7))
  BY <1>3, <1>4
<1>11. Kyber!cbd2(T)[4 * h + 0] = Two(T, e, 0) - Two(T, e, 1)
  <2>1. 4 * h + 0 \in 0 .. 7 /\ (4 * h + 0) \div 4 = h /\ (4 * h + 0) % 4 = 0
    OBVIOUS
  <2>2. Kyber!cbd2(T)[4 * h + 0] = ((number \div 16 ^ 0) % 4) - (((number \div 16 ^ 0) \div 4) % 4)
    <3> DEFINE at4 == 4 * h + 0
    <3>1. at4 \in 0 .. 7 /\ at4 \div 4 = h /\ at4 % 4 = 0
      BY <2>1
    <3> HIDE DEF at4
    <3>2. Kyber!cbd2(T)[at4] = ((Kyber!d2(T, at4 \div 4) \div 16 ^ (at4 % 4)) % 4)
                              - (((Kyber!d2(T, at4 \div 4) \div 16 ^ (at4 % 4)) \div 4) % 4)
      BY <3>1, Zenon DEF Kyber!cbd2
    <3>3. Kyber!cbd2(T)[at4] = ((number \div 16 ^ 0) % 4) - (((number \div 16 ^ 0) \div 4) % 4)
      BY <1>4, <3>1, <3>2, Zenon
    <3> QED
      BY <3>3, Zenon DEF at4
  <2>3. (number \div 16 ^ 0) % 4 = Two(T, e, 0) /\ ((number \div 16 ^ 0) \div 4) % 4 = Two(T, e, 1)
    BY <1>5, Zenon DEF Fields4
  <2> QED
    BY <2>2, <2>3, Zenon
<1>12. Kyber!cbd2(T)[4 * h + 1] = Two(T, e, 2) - Two(T, e, 3)
  <2>1. 4 * h + 1 \in 0 .. 7 /\ (4 * h + 1) \div 4 = h /\ (4 * h + 1) % 4 = 1
    OBVIOUS
  <2>2. Kyber!cbd2(T)[4 * h + 1] = ((number \div 16 ^ 1) % 4) - (((number \div 16 ^ 1) \div 4) % 4)
    <3> DEFINE at4 == 4 * h + 1
    <3>1. at4 \in 0 .. 7 /\ at4 \div 4 = h /\ at4 % 4 = 1
      BY <2>1
    <3> HIDE DEF at4
    <3>2. Kyber!cbd2(T)[at4] = ((Kyber!d2(T, at4 \div 4) \div 16 ^ (at4 % 4)) % 4)
                              - (((Kyber!d2(T, at4 \div 4) \div 16 ^ (at4 % 4)) \div 4) % 4)
      BY <3>1, Zenon DEF Kyber!cbd2
    <3>3. Kyber!cbd2(T)[at4] = ((number \div 16 ^ 1) % 4) - (((number \div 16 ^ 1) \div 4) % 4)
      BY <1>4, <3>1, <3>2, Zenon
    <3> QED
      BY <3>3, Zenon DEF at4
  <2>3. (number \div 16 ^ 1) % 4 = Two(T, e, 2) /\ ((number \div 16 ^ 1) \div 4) % 4 = Two(T, e, 3)
    BY <1>5, Zenon DEF Fields4
  <2> QED
    BY <2>2, <2>3, Zenon
<1>13. Kyber!cbd2(T)[4 * h + 2] = Two(T, e, 4) - Two(T, e, 5)
  <2>1. 4 * h + 2 \in 0 .. 7 /\ (4 * h + 2) \div 4 = h /\ (4 * h + 2) % 4 = 2
    OBVIOUS
  <2>2. Kyber!cbd2(T)[4 * h + 2] = ((number \div 16 ^ 2) % 4) - (((number \div 16 ^ 2) \div 4) % 4)
    <3> DEFINE at4 == 4 * h + 2
    <3>1. at4 \in 0 .. 7 /\ at4 \div 4 = h /\ at4 % 4 = 2
      BY <2>1
    <3> HIDE DEF at4
    <3>2. Kyber!cbd2(T)[at4] = ((Kyber!d2(T, at4 \div 4) \div 16 ^ (at4 % 4)) % 4)
                              - (((Kyber!d2(T, at4 \div 4) \div 16 ^ (at4 % 4)) \div 4) % 4)
      BY <3>1, Zenon DEF Kyber!cbd2
    <3>3. Kyber!cbd2(T)[at4] = ((number \div 16 ^ 2) % 4) - (((number \div 16 ^ 2) \div 4) % 4)
      BY <1>4, <3>1, <3>2, Zenon
    <3> QED
      BY <3>3, Zenon DEF at4
  <2>3. (number \div 16 ^ 2) % 4 = Two(T, e, 4) /\ ((number \div 16 ^ 2) \div 4) % 4 = Two(T, e, 5)
    BY <1>5, Zenon DEF Fields4
  <2> QED
    BY <2>2, <2>3, Zenon
<1>14. Kyber!cbd2(T)[4 * h + 3] = Two(T, e, 6) - Two(T, e, 7)
  <2>1. 4 * h + 3 \in 0 .. 7 /\ (4 * h + 3) \div 4 = h /\ (4 * h + 3) % 4 = 3
    OBVIOUS
  <2>2. Kyber!cbd2(T)[4 * h + 3] = ((number \div 16 ^ 3) % 4) - (((number \div 16 ^ 3) \div 4) % 4)
    <3> DEFINE at4 == 4 * h + 3
    <3>1. at4 \in 0 .. 7 /\ at4 \div 4 = h /\ at4 % 4 = 3
      BY <2>1
    <3> HIDE DEF at4
    <3>2. Kyber!cbd2(T)[at4] = ((Kyber!d2(T, at4 \div 4) \div 16 ^ (at4 % 4)) % 4)
                              - (((Kyber!d2(T, at4 \div 4) \div 16 ^ (at4 % 4)) \div 4) % 4)
      BY <3>1, Zenon DEF Kyber!cbd2
    <3>3. Kyber!cbd2(T)[at4] = ((number \div 16 ^ 3) % 4) - (((number \div 16 ^ 3) \div 4) % 4)
      BY <1>4, <3>1, <3>2, Zenon
    <3> QED
      BY <3>3, Zenon DEF at4
  <2>3. (number \div 16 ^ 3) % 4 = Two(T, e, 6) /\ ((number \div 16 ^ 3) \div 4) % 4 = Two(T, e, 7)
    BY <1>5, Zenon DEF Fields4
  <2> QED
    BY <2>2, <2>3, Zenon
<1> QED
  BY <1>11, <1>12, <1>13, <1>14, Zenon

LEMMA NoiseOfThree ==
  ASSUME NEW T \in SUBSET Int
  PROVE  LET c == Kyber!cbd3(T) IN
         /\ c[0] = Three(T, 0) - Three(T, 1)
         /\ c[1] = Three(T, 2) - Three(T, 3)
         /\ c[2] = Three(T, 4) - Three(T, 5)
         /\ c[3] = Three(T, 6) - Three(T, 7)
<1>1. Kyber!d3(T) = InBase8(Three(T, 0), Three(T, 1), Three(T, 2), Three(T, 3), Three(T, 4), Three(T, 5),
      Three(T, 6), Three(T, 7))
  BY DigitsOfThree DEF InBase8
<1>2. /\ Three(T, 0) \in 0 .. 3
      /\ Three(T, 1) \in 0 .. 3
      /\ Three(T, 2) \in 0 .. 3
      /\ Three(T, 3) \in 0 .. 3
      /\ Three(T, 4) \in 0 .. 3
      /\ Three(T, 5) \in 0 .. 3
      /\ Three(T, 6) \in 0 .. 3
      /\ Three(T, 7) \in 0 .. 3
  BY ThreeRange, Zenon
<1>3. Fields8(Kyber!d3(T), Three(T, 0), Three(T, 1), Three(T, 2), Three(T, 3), Three(T, 4), Three(T, 5),
      Three(T, 6), Three(T, 7))
  BY <1>1, <1>2, DigitsBase8, Zenon
<1>4. PICK number : number = Kyber!d3(T)
  OBVIOUS
<1>5. Fields8(number, Three(T, 0), Three(T, 1), Three(T, 2), Three(T, 3), Three(T, 4), Three(T, 5),
      Three(T, 6), Three(T, 7))
  BY <1>3, <1>4
<1>11. Kyber!cbd3(T)[0] = Three(T, 0) - Three(T, 1)
  <2>1. 0 \in 0 .. 3
    OBVIOUS
  <2>2. Kyber!cbd3(T)[0] = ((number \div 64 ^ 0) % 8) - ((number \div (8 * 64 ^ 0)) % 8)
    BY <1>4, <2>1, Zenon DEF Kyber!cbd3
  <2>3. (number \div 64 ^ 0) % 8 = Three(T, 0) /\ (number \div (8 * 64 ^ 0)) % 8 = Three(T, 1)
    BY <1>5, Zenon DEF Fields8
  <2> QED
    BY <2>2, <2>3, Zenon
<1>12. Kyber!cbd3(T)[1] = Three(T, 2) - Three(T, 3)
  <2>1. 1 \in 0 .. 3
    OBVIOUS
  <2>2. Kyber!cbd3(T)[1] = ((number \div 64 ^ 1) % 8) - ((number \div (8 * 64 ^ 1)) % 8)
    BY <1>4, <2>1, Zenon DEF Kyber!cbd3
  <2>3. (number \div 64 ^ 1) % 8 = Three(T, 2) /\ (number \div (8 * 64 ^ 1)) % 8 = Three(T, 3)
    BY <1>5, Zenon DEF Fields8
  <2> QED
    BY <2>2, <2>3, Zenon
<1>13. Kyber!cbd3(T)[2] = Three(T, 4) - Three(T, 5)
  <2>1. 2 \in 0 .. 3
    OBVIOUS
  <2>2. Kyber!cbd3(T)[2] = ((number \div 64 ^ 2) % 8) - ((number \div (8 * 64 ^ 2)) % 8)
    BY <1>4, <2>1, Zenon DEF Kyber!cbd3
  <2>3. (number \div 64 ^ 2) % 8 = Three(T, 4) /\ (number \div (8 * 64 ^ 2)) % 8 = Three(T, 5)
    BY <1>5, Zenon DEF Fields8
  <2> QED
    BY <2>2, <2>3, Zenon
<1>14. Kyber!cbd3(T)[3] = Three(T, 6) - Three(T, 7)
  <2>1. 3 \in 0 .. 3
    OBVIOUS
  <2>2. Kyber!cbd3(T)[3] = ((number \div 64 ^ 3) % 8) - ((number \div (8 * 64 ^ 3)) % 8)
    BY <1>4, <2>1, Zenon DEF Kyber!cbd3
  <2>3. (number \div 64 ^ 3) % 8 = Three(T, 6) /\ (number \div (8 * 64 ^ 3)) % 8 = Three(T, 7)
    BY <1>5, Zenon DEF Fields8
  <2> QED
    BY <2>2, <2>3, Zenon
<1> QED
  BY <1>11, <1>12, <1>13, <1>14, Zenon

\* The bits of a coefficient of cbd2, and of cbd3.
LEMMA BitsOfTwo ==
  ASSUME NEW T \in SUBSET Int, NEW k \in 0 .. 7
  PROVE  Kyber!cbd2(T)[k] = (Bit(T, 4 * k) + Bit(T, 4 * k + 1)) - (Bit(T, 4 * k + 2) + Bit(T, 4 * k + 3))
<1> DEFINE c == Kyber!cbd2(T)
<1>1. /\ c[4 * 0 + 0] = Two(T, 0, 0) - Two(T, 0, 1)
      /\ c[4 * 0 + 1] = Two(T, 0, 2) - Two(T, 0, 3)
      /\ c[4 * 0 + 2] = Two(T, 0, 4) - Two(T, 0, 5)
      /\ c[4 * 0 + 3] = Two(T, 0, 6) - Two(T, 0, 7)
  <2>1. PICK h \in {0, 1} : h = 0
    OBVIOUS
  <2>2. PICK e : e = 16 * h
    OBVIOUS
  <2>3. e = 0
    BY <2>1, <2>2
  <2>4. /\ c[4 * h + 0] = Two(T, e, 0) - Two(T, e, 1)
        /\ c[4 * h + 1] = Two(T, e, 2) - Two(T, e, 3)
        /\ c[4 * h + 2] = Two(T, e, 4) - Two(T, e, 5)
        /\ c[4 * h + 3] = Two(T, e, 6) - Two(T, e, 7)
    BY <2>2, NoiseOfTwo
  <2> QED
    BY <2>1, <2>3, <2>4, Zenon
<1>2. /\ c[4 * 1 + 0] = Two(T, 16, 0) - Two(T, 16, 1)
      /\ c[4 * 1 + 1] = Two(T, 16, 2) - Two(T, 16, 3)
      /\ c[4 * 1 + 2] = Two(T, 16, 4) - Two(T, 16, 5)
      /\ c[4 * 1 + 3] = Two(T, 16, 6) - Two(T, 16, 7)
  <2>1. PICK h \in {0, 1} : h = 1
    OBVIOUS
  <2>2. PICK e : e = 16 * h
    OBVIOUS
  <2>3. e = 16
    BY <2>1, <2>2
  <2>4. /\ c[4 * h + 0] = Two(T, e, 0) - Two(T, e, 1)
        /\ c[4 * h + 1] = Two(T, e, 2) - Two(T, e, 3)
        /\ c[4 * h + 2] = Two(T, e, 4) - Two(T, e, 5)
        /\ c[4 * h + 3] = Two(T, e, 6) - Two(T, e, 7)
    BY <2>2, NoiseOfTwo
  <2> QED
    BY <2>1, <2>3, <2>4, Zenon
<1> HIDE DEF c
<1>3. c[0] = (Bit(T, 0) + Bit(T, 1)) - (Bit(T, 2) + Bit(T, 3))
  BY <1>1 DEF Two
<1>4. c[1] = (Bit(T, 4) + Bit(T, 5)) - (Bit(T, 6) + Bit(T, 7))
  BY <1>1 DEF Two
<1>5. c[2] = (Bit(T, 8) + Bit(T, 9)) - (Bit(T, 10) + Bit(T, 11))
  BY <1>1 DEF Two
<1>6. c[3] = (Bit(T, 12) + Bit(T, 13)) - (Bit(T, 14) + Bit(T, 15))
  BY <1>1 DEF Two
<1>7. c[4] = (Bit(T, 16) + Bit(T, 17)) - (Bit(T, 18) + Bit(T, 19))
  BY <1>2 DEF Two
<1>8. c[5] = (Bit(T, 20) + Bit(T, 21)) - (Bit(T, 22) + Bit(T, 23))
  BY <1>2 DEF Two
<1>9. c[6] = (Bit(T, 24) + Bit(T, 25)) - (Bit(T, 26) + Bit(T, 27))
  BY <1>2 DEF Two
<1>10. c[7] = (Bit(T, 28) + Bit(T, 29)) - (Bit(T, 30) + Bit(T, 31))
  BY <1>2 DEF Two
<1> QED
  BY <1>3, <1>4, <1>5, <1>6, <1>7, <1>8, <1>9, <1>10 DEF c

LEMMA BitsOfThree ==
  ASSUME NEW T \in SUBSET Int, NEW k \in 0 .. 3
  PROVE  Kyber!cbd3(T)[k] = (Bit(T, 6 * k) + Bit(T, 6 * k + 1) + Bit(T, 6 * k + 2))
                            - (Bit(T, 6 * k + 3) + Bit(T, 6 * k + 4) + Bit(T, 6 * k + 5))
<1> DEFINE c == Kyber!cbd3(T)
<1>1. /\ c[0] = Three(T, 0) - Three(T, 1)
      /\ c[1] = Three(T, 2) - Three(T, 3)
      /\ c[2] = Three(T, 4) - Three(T, 5)
      /\ c[3] = Three(T, 6) - Three(T, 7)
  BY NoiseOfThree
<1> HIDE DEF c
<1>2. c[0] = (Bit(T, 0) + Bit(T, 1) + Bit(T, 2))
             - (Bit(T, 3) + Bit(T, 4) + Bit(T, 5))
  BY <1>1 DEF Three
<1>3. c[1] = (Bit(T, 6) + Bit(T, 7) + Bit(T, 8))
             - (Bit(T, 9) + Bit(T, 10) + Bit(T, 11))
  BY <1>1 DEF Three
<1>4. c[2] = (Bit(T, 12) + Bit(T, 13) + Bit(T, 14))
             - (Bit(T, 15) + Bit(T, 16) + Bit(T, 17))
  BY <1>1 DEF Three
<1>5. c[3] = (Bit(T, 18) + Bit(T, 19) + Bit(T, 20))
             - (Bit(T, 21) + Bit(T, 22) + Bit(T, 23))
  BY <1>1 DEF Three
<1> QED
  BY <1>2, <1>3, <1>4, <1>5 DEF c

NoiseInv ==
  /\ word \in SUBSET (0 .. 31)
  /\ noise = <<>> \/ noise = Kyber!cbd2(word) \/ noise = Kyber!cbd3(word \cap 0 .. 23)

LEMMA NoiseOfTwoIsBinomial ==
  ASSUME word \in SUBSET (0 .. 31), noise = Kyber!cbd2(word)
  PROVE  Kyber!NoiseIsBinomial
<1>1. DOMAIN noise = 0 .. 7
  BY DEF Kyber!cbd2
<1>2. Kyber!Cardinality(DOMAIN noise) = 8
  <2>1. PICK first0 \in Int, last0 \in Int : first0 = 0 /\ last0 = 7
    OBVIOUS
  <2>2. Cardinality(first0 .. last0) = (IF first0 > last0 THEN 0 ELSE (last0 - first0) + 1)
    BY FS_Interval
  <2>3. Cardinality(0 .. 7) = 8
    BY <2>1, <2>2
  <2> QED
    BY <1>1, <2>3, SameCardinality
<1>3. ASSUME NEW k \in 0 .. 7
      PROVE  noise[k] = Kyber!Cardinality(word \cap (2 * 2 * k) .. (2 * 2 * k + 2 - 1))
                        - Kyber!Cardinality(word \cap (2 * 2 * k + 2) .. (2 * 2 * k + 2 + 2 - 1))
  <2>1. word \in SUBSET Int
    OBVIOUS
  <2>2. noise[k] = (Bit(word, 4 * k) + Bit(word, 4 * k + 1)) - (Bit(word, 4 * k + 2) + Bit(word, 4 * k + 3))
    BY <2>1, BitsOfTwo
  <2>3. PICK b \in Int : b = 4 * k
    OBVIOUS
  <2>4. PICK d \in Int : d = 4 * k + 2
    OBVIOUS
  <2>5. /\ Kyber!Cardinality(word \cap (b .. b + 1)) = Bit(word, b) + Bit(word, b + 1)
        /\ Kyber!Cardinality(word \cap (d .. d + 1)) = Bit(word, d) + Bit(word, d + 1)
    BY NumberOfOnes, SameCardinality
  <2>6. /\ 2 * 2 * k = b /\ 2 * 2 * k + 2 - 1 = b + 1 /\ 2 * 2 * k + 2 = d /\ 2 * 2 * k + 2 + 2 - 1 = d + 1
        /\ 4 * k + 1 = b + 1 /\ 4 * k + 3 = d + 1
    BY <2>3, <2>4
  <2> QED
    BY <2>2, <2>3, <2>4, <2>5, <2>6, Zenon
<1> QED
  BY <1>1, <1>2, <1>3 DEF Kyber!NoiseIsBinomial

LEMMA NoiseOfThreeIsBinomial ==
  ASSUME word \in SUBSET (0 .. 31), noise = Kyber!cbd3(word \cap 0 .. 23)
  PROVE  Kyber!NoiseIsBinomial
<1> DEFINE T == word \cap 0 .. 23
<1>1. DOMAIN noise = 0 .. 3
  BY DEF Kyber!cbd3
<1>2. Kyber!Cardinality(DOMAIN noise) = 4
  <2>1. PICK first0 \in Int, last0 \in Int : first0 = 0 /\ last0 = 3
    OBVIOUS
  <2>2. Cardinality(first0 .. last0) = (IF first0 > last0 THEN 0 ELSE (last0 - first0) + 1)
    BY FS_Interval
  <2>3. Cardinality(0 .. 3) = 4
    BY <2>1, <2>2
  <2> QED
    BY <1>1, <2>3, SameCardinality
<1>3. ASSUME NEW k \in 0 .. 3
      PROVE  noise[k] = Kyber!Cardinality(word \cap (2 * 3 * k) .. (2 * 3 * k + 3 - 1))
                        - Kyber!Cardinality(word \cap (2 * 3 * k + 3) .. (2 * 3 * k + 3 + 3 - 1))
  <2>1. T \in SUBSET Int /\ \A b \in 0 .. 23 : Bit(T, b) = Bit(word, b)
    BY DEF Bit
  <2>2. noise[k] = (Bit(T, 6 * k) + Bit(T, 6 * k + 1) + Bit(T, 6 * k + 2))
                   - (Bit(T, 6 * k + 3) + Bit(T, 6 * k + 4) + Bit(T, 6 * k + 5))
    BY <2>1, BitsOfThree
  <2> HIDE DEF T
  <2>3. PICK b \in Int : b = 6 * k
    OBVIOUS
  <2>4. PICK d \in Int : d = 6 * k + 3
    OBVIOUS
  <2>5. /\ Kyber!Cardinality(word \cap (b .. b + 2)) = Bit(word, b) + Bit(word, b + 1) + Bit(word, b + 2)
        /\ Kyber!Cardinality(word \cap (d .. d + 2)) = Bit(word, d) + Bit(word, d + 1) + Bit(word, d + 2)
    BY NumberOfOnes, SameCardinality
  <2>6. /\ 2 * 3 * k = b /\ 2 * 3 * k + 3 - 1 = b + 2 /\ 2 * 3 * k + 3 = d /\ 2 * 3 * k + 3 + 3 - 1 = d + 2
        /\ 6 * k + 1 = b + 1 /\ 6 * k + 2 = b + 2 /\ 6 * k + 4 = d + 1 /\ 6 * k + 5 = d + 2
    BY <2>3, <2>4
  <2>7. /\ b \in 0 .. 23 /\ b + 1 \in 0 .. 23 /\ b + 2 \in 0 .. 23
        /\ d \in 0 .. 23 /\ d + 1 \in 0 .. 23 /\ d + 2 \in 0 .. 23
    BY <2>3, <2>4
  <2>8. noise[k] = (Bit(T, b) + Bit(T, b + 1) + Bit(T, b + 2)) - (Bit(T, d) + Bit(T, d + 1) + Bit(T, d + 2))
    BY <2>2, <2>3, <2>4, <2>6, Zenon
  <2>9. noise[k] = (Bit(word, b) + Bit(word, b + 1) + Bit(word, b + 2))
                   - (Bit(word, d) + Bit(word, d + 1) + Bit(word, d + 2))
    BY <2>1, <2>7, <2>8, Zenon
  <2> QED
    BY <2>5, <2>6, <2>9, Zenon
<1>4. (IF Kyber!Cardinality(DOMAIN noise) = 8 THEN 2 ELSE 3) = 3
  BY <1>2
<1> QED
  BY <1>1, <1>3, <1>4, Zenon DEF Kyber!NoiseIsBinomial

LEMMA NoiseIsNoise ==
  ASSUME NoiseInv
  PROVE  Kyber!NoiseIsBinomial
<1>1. noise = <<>> => Kyber!NoiseIsBinomial
  BY DEF Kyber!NoiseIsBinomial
<1> QED
  BY <1>1, NoiseOfTwoIsBinomial, NoiseOfThreeIsBinomial DEF NoiseInv

LEMMA NoiseNext ==
  ASSUME NoiseInv, [Kyber!Next]_(Kyber!vars)
  PROVE  NoiseInv'
<1>1. word' = word /\ (\/ noise' = noise
                       \/ noise' = Kyber!cbd2(word)
                       \/ noise' = Kyber!cbd3(word \cap 0 .. 23))
  <2>1. CASE Kyber!xof_absorb
    BY <2>1 DEF Kyber!xof_absorb
  <2>2. CASE Kyber!rej_uniform
    BY <2>2 DEF Kyber!rej_uniform
  <2>3. CASE Kyber!rej_uniform_returns
    BY <2>3 DEF Kyber!rej_uniform_returns
  <2>4. CASE Kyber!poly_cbd(2)
    BY <2>4, Zenon DEF Kyber!poly_cbd
  <2>5. CASE Kyber!poly_cbd(3)
    BY <2>5, Zenon DEF Kyber!poly_cbd
  <2>6. CASE UNCHANGED Kyber!vars
    BY <2>6 DEF Kyber!vars
  <2> QED
    BY <2>1, <2>2, <2>3, <2>4, <2>5, <2>6 DEF Kyber!Next
<1>2. word \in SUBSET (0 .. 31) /\ (noise = <<>> \/ noise = Kyber!cbd2(word)
      \/ noise = Kyber!cbd3(word \cap 0 .. 23))
  BY DEF NoiseInv
<1>3. Kyber!cbd2(word)' = Kyber!cbd2(word') /\ Kyber!cbd3(word \cap 0 .. 23)' = Kyber!cbd3(word' \cap 0 .. 23)
  BY DEF Kyber!cbd2, Kyber!cbd3, Kyber!d2, Kyber!d3, Kyber!Number, Kyber!Shift
<1>4. word' \in SUBSET (0 .. 31)
  BY <1>1, <1>2, Zenon
<1> QED
  BY <1>1, <1>2, <1>3, <1>4, Zenon DEF NoiseInv

\* The variables of the samplers of ML-KEM, which only they change.
KyberSamplersInv ==
  IF part = "kyber" THEN MatrixInv /\ NoiseInv ELSE xof = <<>> /\ noise = <<>>

\* gen_matrix and cbd.c: every entry of the matrix has the first accepted
\* candidates of its own stream, or of the transposed entry's, in order, and every
\* coefficient of the noise is a difference of two numbers of ones.
THEOREM PolynomialsKyberSamples ==
  ASSUME KyberStreamsOfBytes
  PROVE  PolynomialsSpec => []KyberSamples
<1>1. Kyber!KyberSamplingParameters
  BY PolynomialsAssumption
<1>2. PolynomialsInit => KyberSamplersInv
  <2>1. ASSUME PolynomialsInit PROVE KyberSamplersInv
    <3>1. Kyber!Init /\ (part # "kyber" => xof = <<>>)
      BY <2>1 DEF PolynomialsInit
    <3>2. MatrixInv
      BY <1>1, <3>1, MatrixInit
    <3>3. noise = <<>> /\ (word = {} \/ word \in Words)
      BY <3>1 DEF Kyber!Init
    <3>4. NoiseInv
      BY <1>1, <3>3 DEF NoiseInv, Kyber!KyberSamplingParameters
    <3> QED
      BY <3>1, <3>2, <3>3, <3>4 DEF KyberSamplersInv
  <2> QED
    BY <2>1
<1>3. KyberSamplersInv /\ [PolynomialsNext]_polynomialsVars => KyberSamplersInv'
  <2> SUFFICES ASSUME KyberSamplersInv, [PolynomialsNext]_polynomialsVars PROVE KyberSamplersInv'
    OBVIOUS
  <2>1. CASE part = "kyber"
    <3>1. part' = part /\ [Kyber!Next]_(Kyber!vars)
      BY <2>1 DEF PolynomialsNext, polynomialsVars, samplers, ofKyber, Kyber!vars
    <3>2. MatrixInv /\ NoiseInv
      BY <2>1 DEF KyberSamplersInv
    <3>3. MatrixInv' /\ NoiseInv'
      BY <1>1, <3>1, <3>2, MatrixNext, NoiseNext
    <3> QED
      BY <2>1, <3>1, <3>3 DEF KyberSamplersInv
  <2>2. CASE part # "kyber"
    BY <2>2 DEF PolynomialsNext, polynomialsVars, ofKyber, KyberSamplersInv
  <2> QED
    BY <2>1, <2>2
<1>4. KyberSamplersInv => KyberSamples
  <2>1. ASSUME MatrixInv, NoiseInv PROVE KyberSamples
    <3>1. KYBER_N \in Nat
      BY <1>1, KyberParameters
    <3>2. 16 * KYBER_N \in Nat
      BY <3>1
    <3>3. Kyber!EntriesAreSampled
      BY <1>1, <2>1, <3>2, MatrixIsSampled DEF Kyber!EntriesAreSampled
    <3> QED
      BY <2>1, <3>3, NoiseIsNoise DEF KyberSamples, Kyber!KyberSamples
  <2>2. ASSUME xof = <<>>, noise = <<>> PROVE KyberSamples
    BY <2>2 DEF KyberSamples, Kyber!KyberSamples, Kyber!EntriesAreSampled, Kyber!SampledFrom,
        Kyber!NoiseIsBinomial
  <2> QED
    BY <2>1, <2>2 DEF KyberSamplersInv
<1> QED
  BY <1>2, <1>3, <1>4, PTL DEF PolynomialsSpec
=============================================================================
