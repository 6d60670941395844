---------------------------- MODULE SigningProofs ---------------------------
(***************************************************************************)
(* Proofs about ML-DSA, for all parameters.  Of the rounding: the high     *)
(* bits of a coefficient are the number of its interval, the shifts of     *)
(* decompose compute them for both parameter sets, and hints give the high *)
(* bits back.  Of Signing: the nonces of a signing loop are fresh; the     *)
(* signature the loop ends with verifies for what was signed and nothing   *)
(* else; and the response goes with every short secret.  The last two rest *)
(* on the algebra of polynomials modulo x^N + 1 and Q, which is proved     *)
(* here from the loops that add: sums are linear and may be exchanged, so  *)
(* that A (c s) and c (A s) are the same residues.                         *)
(***************************************************************************)
EXTENDS Signing, FiniteSetTheorems, TLAPS

-----------------------------------------------------------------------------
(*  Rounding  *)

LEMMA Parameters ==
  /\ Q \in Nat /\ GAMMA2 \in Nat /\ GAMMA2 >= 1 /\ ALPHA = 2 * GAMMA2
  /\ ALPHA \in Nat /\ ALPHA >= 2
  /\ Highs \in Nat
  /\ Q = Highs * ALPHA + 1
<1>1. Q \in Nat /\ Q >= 1 /\ GAMMA2 \in Nat /\ GAMMA2 >= 1 /\ Q - 1 = Highs * ALPHA
  BY RoundingAssumption
<1>2. ALPHA = 2 * GAMMA2 /\ ALPHA \in Nat /\ ALPHA >= 2
  BY <1>1 DEF ALPHA
<1>3. Highs \in Nat
  <2>1. \A b \in Nat, c \in Nat : b >= 2 => c \div b \in Nat
    OBVIOUS
  <2> QED
    BY <1>1, <1>2, <2>1 DEF Highs
<1>4. Highs * ALPHA \in Int
  BY <1>2, <1>3
<1> QED
  BY <1>1, <1>2, <1>3, <1>4

\* The quotient is the number of the interval.
LEMMA Quotient ==
  ASSUME NEW x \in Int, NEW b \in Nat, b >= 1, NEW k \in Int, k * b <= x, x < (k + 1) * b
  PROVE  x \div b = k
<1> DEFINE q == x \div b
           r == x % b
<1>1. q \in Int /\ r \in Int /\ x = b * q + r /\ 0 <= r /\ r < b
  OBVIOUS
<1> HIDE DEF q, r
<1>2. ~ q >= k + 1
  <2> SUFFICES ASSUME q >= k + 1 PROVE FALSE
    OBVIOUS
  <2>1. b * q >= b * (k + 1)
    BY <1>1
  <2> QED
    BY <1>1, <2>1
<1>3. ~ q <= k - 1
  <2> SUFFICES ASSUME q <= k - 1 PROVE FALSE
    OBVIOUS
  <2>1. b * q <= b * (k - 1)
    BY <1>1
  <2>2. b * (k - 1) = k * b - b
    OBVIOUS
  <2> QED
    BY <1>1, <2>1, <2>2
<1> QED
  BY <1>1, <1>2, <1>3 DEF q

\* Interval number k is the half-open one around k * ALPHA.
LEMMA HighBitsOfInterval ==
  ASSUME NEW a \in Int, NEW k \in Int, k * ALPHA - GAMMA2 < a, a <= k * ALPHA + GAMMA2
  PROVE  HighBits(a) = k % Highs
<1> USE Parameters
<1> DEFINE x == a + GAMMA2 - 1
<1>1. x \in Int /\ k * ALPHA \in Int
  OBVIOUS
<1>2. k * ALPHA <= x /\ x < k * ALPHA + ALPHA
  BY <1>1
<1>3. (k + 1) * ALPHA = k * ALPHA + ALPHA
  OBVIOUS
<1>4. x \div ALPHA = k
  <2> HIDE DEF x
  <2> QED
    BY <1>1, <1>2, <1>3, Quotient
<1> QED
  BY <1>4 DEF HighBits

\* Remainders next to the ends of 0 .. n - 1.
LEMMA Remainders ==
  ASSUME NEW n \in Nat, n >= 1
  PROVE  /\ \A k \in Int : 0 <= k /\ k < n => k % n = k
         /\ n % n = 0
         /\ (0 - 1) % n = n - 1
<1>1. \A k \in Int : 0 <= k /\ k < n => k % n = k
  OBVIOUS
<1>2. n \div n = 1 /\ (0 - 1) \div n = -1
  <2>1. n \div n = 1
    BY Quotient
  <2>2. (0 - 1) \div n = -1
    BY Quotient
  <2> QED
    BY <2>1, <2>2
<1>3. n = n * (n \div n) + (n % n) /\ 0 - 1 = n * ((0 - 1) \div n) + ((0 - 1) % n)
  OBVIOUS
<1>4. n % n \in Int /\ (0 - 1) % n \in Int
  OBVIOUS
<1> QED
  BY <1>1, <1>2, <1>3, <1>4

\* The bound at which low bits are taken from the other end.
LEMMA Half ==
  /\ Highs * GAMMA2 \in Nat
  /\ (Q - 1) \div 2 = Highs * GAMMA2
  /\ Highs * ALPHA = 2 * (Highs * GAMMA2)
<1> USE Parameters
<1>1. Highs * GAMMA2 \in Nat /\ Highs * ALPHA = 2 * (Highs * GAMMA2)
  OBVIOUS
<1>2. Q - 1 = (Highs * GAMMA2) * 2 /\ Q - 1 < (Highs * GAMMA2 + 1) * 2
  BY <1>1
<1> QED
  BY <1>1, <1>2, Quotient

\* What decompose makes of a coefficient in interval k: in the last half
\* interval the high bits are 0 and the low bits are taken from Q.
LEMMA Decomposition ==
  ASSUME NEW k \in Int, 0 <= k, k <= Highs, Highs >= 1,
         NEW e \in Int, -GAMMA2 < e, e <= GAMMA2
  PROVE  /\ k < Highs => /\ HighBits(k * ALPHA + e) = k
                         /\ LowBits(k * ALPHA + e, k) = e
         /\ k = Highs => /\ HighBits(k * ALPHA + e) = 0
                         /\ LowBits(k * ALPHA + e, 0) = e - 1
<1> USE Parameters
<1> DEFINE a == k * ALPHA + e
           half == Highs * GAMMA2
<1>1. k * ALPHA \in Int /\ a \in Int /\ k * ALPHA - GAMMA2 < a /\ a <= k * ALPHA + GAMMA2
  OBVIOUS
<1>2. HighBits(a) = k % Highs
  <2> HIDE DEF a
  <2> QED
    BY <1>1, HighBitsOfInterval
<1>3. /\ half \in Nat /\ (Q - 1) \div 2 = half /\ Q - 1 = 2 * half
      /\ half >= GAMMA2
  <2>1. half >= GAMMA2
    <3> (Highs - 1) * GAMMA2 >= 0
      OBVIOUS
    <3> QED
      OBVIOUS
  <2> QED
    BY <2>1, Half
<1>4. CASE k < Highs
  <2>1. HighBits(a) = k
    BY <1>2, <1>4, Remainders
  <2>2. a - k * ALPHA = e /\ ~ e > (Q - 1) \div 2
    BY <1>1, <1>3
  <2> HIDE DEF a
  <2>3. LowBits(a, k) = e
    BY <2>2 DEF LowBits
  <2> QED
    BY <2>1, <2>3, <1>4 DEF a
<1>5. CASE k = Highs
  <2>1. HighBits(a) = 0
    BY <1>2, <1>5, Remainders
  <2>2. a - 0 * ALPHA = a /\ a > (Q - 1) \div 2 /\ a - Q = e - 1
    BY <1>1, <1>3, <1>5
  <2> HIDE DEF a
  <2>3. LowBits(a, 0) = e - 1
    BY <2>2 DEF LowBits
  <2> QED
    BY <2>1, <2>3, <1>5 DEF a
<1> QED
  BY <1>4, <1>5

LEMMA LastInterval ==
  ASSUME Highs >= 1, NEW e \in Int, -GAMMA2 < e, e <= GAMMA2
  PROVE  /\ HighBits(Highs * ALPHA + e) = 0
         /\ LowBits(Highs * ALPHA + e, 0) = e - 1
<1>1. \A k \in Int : k = Highs =>
        HighBits(k * ALPHA + e) = 0 /\ LowBits(k * ALPHA + e, 0) = e - 1
  <2> SUFFICES ASSUME NEW k \in Int, k = Highs
               PROVE  HighBits(k * ALPHA + e) = 0 /\ LowBits(k * ALPHA + e, 0) = e - 1
    OBVIOUS
  <2>1. 0 <= k /\ k <= Highs
    OBVIOUS
  <2> QED
    BY <2>1, Decomposition
<1> QED
  BY <1>1, Parameters

\* What a hint does to high bits H next to low bits lo.
LEMMA UseHint ==
  ASSUME NEW a, NEW H, NEW lo \in Int, HighBits(a) = H, LowBits(a, H) = lo
  PROVE  /\ use_hint(a, 0) = H
         /\ lo > 0 => use_hint(a, 1) = (H + 1) % Highs
         /\ lo <= 0 => use_hint(a, 1) = (H - 1) % Highs
<1>1. decompose(a).a1 = H /\ decompose(a).a0 = lo
  BY DEF decompose
<1>2. use_hint(a, 0) = H
  BY <1>1 DEF use_hint
<1>3. lo > 0 => use_hint(a, 1) = (H + 1) % Highs
  BY <1>1 DEF use_hint
<1>4. lo <= 0 => use_hint(a, 1) = (H - 1) % Highs
  <2> SUFFICES ASSUME lo <= 0 PROVE use_hint(a, 1) = (H - 1) % Highs
    OBVIOUS
  <2>1. ~ lo > 0
    OBVIOUS
  <2> QED
    BY <1>1, <2>1 DEF use_hint
<1> QED
  BY <1>2, <1>3, <1>4

\* Hints: when v, of a size up to ALPHA, is added to a coefficient with high
\* bits a1 and low bits 0, the hint made of v and a1 gives a1 back from the
\* sum, also where the intervals wrap at Q.
THEOREM HintRecoversHighBits ==
  ASSUME NEW a1 \in Int, 0 <= a1, a1 < Highs,
         NEW v \in Int, -ALPHA < v, v <= ALPHA
  PROVE  use_hint(caddq(a1 * ALPHA + v), make_hint(v, a1)) = a1
<1> USE Parameters
<1> DEFINE r == caddq(a1 * ALPHA + v)
           hint == make_hint(v, a1)
<1>1. a1 * ALPHA \in Int /\ a1 * ALPHA >= 0 /\ Highs >= 1
  OBVIOUS
<1>2. a1 >= 1 => a1 * ALPHA >= ALPHA
  <2>1. a1 >= 1 => (a1 - 1) * ALPHA >= 0
    OBVIOUS
  <2> QED
    BY <2>1
<1>3. /\ a1 * ALPHA + v >= 0 => r = a1 * ALPHA + v
      /\ a1 * ALPHA + v < 0 => a1 = 0 /\ r = Highs * ALPHA + (1 + v)
  BY <1>1, <1>2 DEF caddq
<1>5. /\ hint = 1 <=> v > GAMMA2 \/ v < -GAMMA2 \/ (v = -GAMMA2 /\ a1 # 0)
      /\ hint \in {0, 1}
  BY DEF make_hint
<1> HIDE DEF r, hint
<1>6. /\ a1 % Highs = a1
      /\ Highs % Highs = 0
      /\ (0 - 1) % Highs = Highs - 1
  <2>1. \A k \in Int : 0 <= k /\ k < Highs => k % Highs = k
    BY <1>1, Remainders
  <2>2. Highs % Highs = 0 /\ (0 - 1) % Highs = Highs - 1
    BY <1>1, Remainders
  <2> QED
    BY <2>1, <2>2
<1>7. CASE hint = 0
  <2>1. CASE a1 * ALPHA + v >= 0 /\ v # -GAMMA2
    <3>1. HighBits(r) = a1 /\ LowBits(r, a1) = v
      BY <2>1, <1>1, <1>3, <1>5, <1>7, Decomposition
    <3> QED
      BY <3>1, <1>7, UseHint DEF r, hint
  <2>2. CASE a1 * ALPHA + v < 0 \/ v = -GAMMA2
    <3>1. a1 = 0 /\ r = Highs * ALPHA + (1 + v) /\ -GAMMA2 < 1 + v /\ 1 + v <= GAMMA2
      BY <2>2, <1>1, <1>3, <1>5, <1>7
    <3>2. HighBits(r) = 0 /\ LowBits(r, 0) = v
      <4> DEFINE e == 1 + v
      <4>1. e \in Int /\ -GAMMA2 < e /\ e <= GAMMA2 /\ r = Highs * ALPHA + e /\ v = e - 1
        BY <3>1
      <4> HIDE DEF e
      <4> QED
        BY <4>1, <1>1, LastInterval
    <3> QED
      BY <3>1, <3>2, <1>7, UseHint DEF r, hint
  <2> QED
    BY <2>1, <2>2
<1>8. CASE hint = 1 /\ v > GAMMA2
  <2> DEFINE e == v - ALPHA
  <2>1. /\ e \in Int /\ -GAMMA2 < e /\ e <= 0 /\ e <= GAMMA2
        /\ r = (a1 + 1) * ALPHA + e
    BY <1>1, <1>3, <1>8
  <2> HIDE DEF e
  <2>2. CASE a1 + 1 < Highs
    <3>1. HighBits(r) = a1 + 1 /\ LowBits(r, a1 + 1) = e
      BY <2>1, <2>2, <1>1, Decomposition
    <3>2. use_hint(r, 1) = (a1 + 1 - 1) % Highs
      BY <3>1, <2>1, UseHint
    <3> QED
      BY <3>2, <1>6, <1>8 DEF r, hint
  <2>3. CASE a1 + 1 = Highs
    <3>1. r = Highs * ALPHA + e
      BY <2>1, <2>3
    <3>2. HighBits(r) = 0 /\ LowBits(r, 0) = e - 1
      BY <3>1, <2>1, <1>1, LastInterval
    <3>3. e - 1 \in Int /\ e - 1 <= 0
      BY <2>1
    <3>4. use_hint(r, 1) = (0 - 1) % Highs
      BY <3>2, <3>3, UseHint
    <3> QED
      BY <2>3, <3>4, <1>6, <1>8 DEF r, hint
  <2> QED
    BY <2>2, <2>3
<1>9. CASE hint = 1 /\ v <= GAMMA2
  <2>1. CASE a1 >= 1
    <3> DEFINE e == v + ALPHA
    <3>1. /\ e \in Int /\ 0 < e /\ -GAMMA2 < e /\ e <= GAMMA2
          /\ r = (a1 - 1) * ALPHA + e
      BY <2>1, <1>1, <1>2, <1>3, <1>5, <1>9
    <3> HIDE DEF e
    <3>2. HighBits(r) = a1 - 1 /\ LowBits(r, a1 - 1) = e
      BY <2>1, <3>1, <1>1, Decomposition
    <3>3. use_hint(r, 1) = (a1 - 1 + 1) % Highs
      BY <3>1, <3>2, UseHint
    <3> QED
      BY <3>3, <1>6, <1>9 DEF r, hint
  <2>2. CASE a1 = 0
    <3> DEFINE e == v + ALPHA + 1
    <3>1. /\ e \in Int /\ 0 < e /\ -GAMMA2 < e /\ e <= GAMMA2
          /\ r = (Highs - 1) * ALPHA + e
      BY <2>2, <1>1, <1>3, <1>5, <1>9
    <3> HIDE DEF e
    <3>2. HighBits(r) = Highs - 1 /\ LowBits(r, Highs - 1) = e
      BY <3>1, <1>1, Decomposition
    <3>3. use_hint(r, 1) = (Highs - 1 + 1) % Highs
      BY <3>1, <3>2, UseHint
    <3> QED
      BY <2>2, <3>3, <1>6, <1>9 DEF r, hint
  <2> QED
    BY <2>1, <2>2
<1> QED
  BY <1>5, <1>7, <1>8, <1>9

\* The shifts of decompose, for GAMMA2 = (Q-1)/32: every standard
\* representative gets the number of its interval.
THEOREM Shifts32AreHighBits ==
  ASSUME Q = 8380417, GAMMA2 = 261888, NEW a \in Int, 0 <= a, a < Q
  PROVE  HighBits32(a) = HighBits(a)
<1> DEFINE k == (a + 261887) \div 523776
           u == (a + 127) \div 128
<1>1. /\ k \in Int /\ 0 <= k /\ k <= 16
      /\ 523776 * k <= a + 261887 /\ a + 261887 < 523776 * k + 523776
  BY SMT
<1>2. ALPHA = 523776 /\ Highs = 16
  <2>1. ALPHA = 523776
    BY SMT DEF ALPHA
  <2>2. 8380416 \div 523776 = 16
    BY SMT
  <2> QED
    BY <2>1, <2>2, SMT DEF Highs
<1>3. HighBits(a) = k % 16
  BY <1>2, SMT DEF HighBits
<1>4. u \in Int /\ 128 * u <= a + 127 /\ a + 127 < 128 * u + 128
  BY SMT
<1> HIDE DEF k, u
<1>5. 4092 * k - 2045 <= u /\ u <= 4092 * k + 2046
  BY <1>1, <1>4, SMT
<1>6. 4194304 * k <= u * 1025 + 2097152 /\ u * 1025 + 2097152 < 4194304 * k + 4194304
  BY <1>1, <1>4, <1>5, SMT
<1>7. (u * 1025 + 2097152) \div 4194304 = k
  BY <1>1, <1>4, <1>6, SMT
<1>8. HighBits32(a) = k % 16
  BY <1>7, SMT DEF HighBits32, u
<1> QED
  BY <1>3, <1>8, SMT

\* The same for GAMMA2 = (Q-1)/88, where the number 44 becomes 0.
THEOREM Shifts88AreHighBits ==
  ASSUME Q = 8380417, GAMMA2 = 95232, NEW a \in Int, 0 <= a, a < Q
  PROVE  HighBits88(a) = HighBits(a)
<1> DEFINE k == (a + 95231) \div 190464
           u == (a + 127) \div 128
<1>1. /\ k \in Int /\ 0 <= k /\ k <= 44
      /\ 190464 * k <= a + 95231 /\ a + 95231 < 190464 * k + 190464
  BY SMT
<1>2. ALPHA = 190464 /\ Highs = 44
  <2>1. ALPHA = 190464
    BY SMT DEF ALPHA
  <2>2. 8380416 \div 190464 = 44
    BY SMT
  <2> QED
    BY <2>1, <2>2, SMT DEF Highs
<1>3. HighBits(a) = k % 44
  BY <1>2, SMT DEF HighBits
<1>4. u \in Int /\ 128 * u <= a + 127 /\ a + 127 < 128 * u + 128
  BY SMT
<1> HIDE DEF k, u
<1>5. 1488 * k - 743 <= u /\ u <= 1488 * k + 744
  BY <1>1, <1>4, SMT
<1>6. 16777216 * k <= u * 11275 + 8388608 /\ u * 11275 + 8388608 < 16777216 * k + 16777216
  BY <1>1, <1>4, <1>5, SMT
<1>7. (u * 11275 + 8388608) \div 16777216 = k
  BY <1>1, <1>4, <1>6, SMT
<1>8. HighBits88(a) = IF k > 43 THEN 0 ELSE k
  <2>1. 2 ^ 7 = 128 /\ 2 ^ 23 = 8388608 /\ 2 ^ 24 = 16777216
    BY SMT
  <2>2. (((a + 127) \div 2 ^ 7) * 11275 + 2 ^ 23) \div 2 ^ 24 = k
    BY <1>7, <2>1, SMT DEF u
  <2> QED
    BY <1>1, <2>2, SMT DEF HighBits88
<1> QED
  BY <1>1, <1>3, <1>8, SMT

\* reduce32, for every word that its comment allows: the result is congruent,
\* and poly_caddq makes a standard representative of it.
THEOREM ReducedIsStandard ==
  ASSUME Q = 8380417, QBits = 23,
         NEW a \in Int, a >= -2147483648, a <= 2143289343
  PROVE  /\ -6283009 <= reduce32(a) /\ reduce32(a) <= 6283008
         /\ \E m \in Int : reduce32(a) = a - m * Q
         /\ 0 <= caddq(reduce32(a)) /\ caddq(reduce32(a)) < Q
<1> DEFINE m == (a + 4194304) \div 8388608
<1>1. /\ m \in Int /\ -256 <= m /\ m <= 255
      /\ 8388608 * m <= a + 4194304 /\ a + 4194304 < 8388608 * m + 8388608
  BY SMT
<1>2. reduce32(a) = a - m * 8380417
  BY SMT DEF reduce32
<1> HIDE DEF m
<1>3. -6283009 <= a - m * 8380417 /\ a - m * 8380417 <= 6283008
  BY <1>1, SMT
<1> QED
  BY <1>1, <1>2, <1>3, SMT DEF caddq

\* power2round: a1 and a0 put together again, with a0 in its field of 13 bits.
THEOREM Power2RoundSplits ==
  ASSUME D = 13, NEW a \in Int
  PROVE  LET x == power2round(a) IN
         /\ a = x.a1 * 2 ^ D + x.a0
         /\ -(2 ^ (D - 1)) < x.a0 /\ x.a0 <= 2 ^ (D - 1)
<1> DEFINE a1 == (a + 4095) \div 8192
<1>1. a1 \in Int /\ 8192 * a1 <= a + 4095 /\ a + 4095 < 8192 * a1 + 8192
  BY SMT
<1>2. power2round(a).a1 = a1 /\ power2round(a).a0 = a - a1 * 8192
  BY SMT DEF power2round
<1> HIDE DEF a1
<1> QED
  BY <1>1, <1>2, SMT

-----------------------------------------------------------------------------
(*  Sums  *)

\* Induction over a set of naturals.
LEMMA SetInduction ==
  ASSUME NEW T, T \subseteq Nat, 0 \in T, \A n \in T : n + 1 \in T
  PROVE  Nat \subseteq T
<1> DEFINE U == Nat \ T
           I == {0 .. n : n \in U}
           W == StrictSubsetOrdering(Nat)
<1>1. SUFFICES ASSUME U # {} PROVE FALSE
  OBVIOUS
<1>2. I \subseteq FiniteSubsetsOf(Nat)
  <2>1. SUFFICES ASSUME NEW n \in U PROVE 0 .. n \in FiniteSubsetsOf(Nat)
    OBVIOUS
  <2>2. IsFiniteSet(0 .. n)
    BY FS_Interval
  <2> QED
    BY <2>2 DEF FiniteSubsetsOf
<1>3. I # {}
  BY <1>1
<1>4. IsWellFoundedOn(W, FiniteSubsetsOf(Nat))
  BY FS_StrictSubsetOrderingWellFounded
<1>5. PICK s \in I : \A r \in I : ~(<<r, s>> \in W)
  <2> HIDE DEF W, I
  <2> QED
    BY <1>2, <1>3, <1>4, WFMin
<1>6. PICK x \in U : s = 0 .. x
  OBVIOUS
<1>7. x # 0 /\ x \in Nat /\ x - 1 \in Nat
  OBVIOUS
<1>8. x - 1 \in U
  BY <1>7
<1>9. <<0 .. x - 1, s>> \in W
  BY <1>6, <1>7 DEF StrictSubsetOrdering
<1> QED
  BY <1>5, <1>8, <1>9

\* The sums of the first i terms.
IsSum(s, f, n) ==
  /\ s \in [0 .. n -> Int] /\ s[0] = 0
  /\ \A i \in 0 .. n - 1 : s[i + 1] = s[i] + f[i]

LEMMA SumIsLast ==
  ASSUME NEW n \in Nat, NEW f, NEW s, IsSum(s, f, n)
  PROVE  Sum(f, n) = s[n]
<1> DEFINE loop(g) == [i \in 0 .. n |-> IF i = 0 THEN 0 ELSE g[i - 1] + f[i - 1]]
           c == CHOOSE g : g = loop(g)
           T == {i \in Nat : i <= n => c[i] = s[i]}
<1>1. Sum(f, n) = c[n]
  BY DEF Sum
<1>2. s = loop(s)
  <2>1. \A i \in 0 .. n : s[i] = loop(s)[i]
    <3> SUFFICES ASSUME NEW i \in 0 .. n PROVE s[i] = loop(s)[i]
      OBVIOUS
    <3>1. CASE i = 0
      BY <3>1 DEF IsSum
    <3>2. CASE i # 0
      <4>1. i - 1 \in 0 .. n - 1 /\ (i - 1) + 1 = i
        BY <3>2
      <4> QED
        BY <3>2, <4>1 DEF IsSum
    <3> QED
      BY <3>1, <3>2
  <2> QED
    BY <2>1 DEF IsSum
<1>3. c = loop(c)
  BY <1>2
<1> HIDE DEF c
<1>4. 0 \in T
  <2>1. c[0] = 0
    BY <1>3
  <2> QED
    BY <2>1 DEF IsSum
<1>5. ASSUME NEW i \in T PROVE i + 1 \in T
  <2> SUFFICES ASSUME i + 1 <= n PROVE c[i + 1] = s[i + 1]
    OBVIOUS
  <2>1. i \in 0 .. n - 1 /\ i + 1 \in 0 .. n /\ i + 1 # 0 /\ (i + 1) - 1 = i /\ c[i] = s[i]
    OBVIOUS
  <2>2. c[i + 1] = c[i] + f[i]
    BY <1>3, <2>1
  <2> QED
    BY <2>1, <2>2 DEF IsSum
<1>6. T \subseteq Nat
  OBVIOUS
<1>7. n \in T
  <2> HIDE DEF T
  <2> QED
    BY <1>4, <1>5, <1>6, SetInduction
<1> QED
  BY <1>1, <1>7

LEMMA SumExists ==
  ASSUME NEW n \in Nat, NEW f, \A i \in 0 .. n - 1 : f[i] \in Int
  PROVE  \E s : IsSum(s, f, n)
<1> DEFINE T == {m \in Nat : m <= n => \E s : IsSum(s, f, m)}
<1>1. 0 \in T
  <2>1. IsSum([i \in 0 .. 0 |-> 0], f, 0)
    BY DEF IsSum
  <2> QED
    BY <2>1
<1>2. ASSUME NEW m \in T PROVE m + 1 \in T
  <2> SUFFICES ASSUME m + 1 <= n PROVE \E s : IsSum(s, f, m + 1)
    OBVIOUS
  <2>1. PICK s : IsSum(s, f, m)
    OBVIOUS
  <2> DEFINE r == [i \in 0 .. m + 1 |-> IF i <= m THEN s[i] ELSE s[m] + f[m]]
  <2>2. f[m] \in Int /\ s[m] \in Int
    BY <2>1 DEF IsSum
  <2>3. r \in [0 .. m + 1 -> Int] /\ r[0] = 0
    BY <2>1, <2>2 DEF IsSum
  <2>4. ASSUME NEW i \in 0 .. (m + 1) - 1 PROVE r[i + 1] = r[i] + f[i]
    <3>1. CASE i < m
      BY <2>1, <3>1 DEF IsSum
    <3>2. CASE i = m
      BY <3>2
    <3> QED
      BY <3>1, <3>2
  <2> QED
    BY <2>3, <2>4 DEF IsSum
<1>3. T \subseteq Nat
  OBVIOUS
<1>4. n \in T
  <2> HIDE DEF T
  <2> QED
    BY <1>1, <1>2, <1>3, SetInduction
<1> QED
  BY <1>4

LEMMA SumOfIntegers ==
  ASSUME NEW n \in Nat, NEW f, \A i \in 0 .. n - 1 : f[i] \in Int
  PROVE  Sum(f, n) \in Int
<1>1. PICK s : IsSum(s, f, n)
  BY SumExists
<1>2. Sum(f, n) = s[n]
  BY <1>1, SumIsLast
<1> QED
  BY <1>1, <1>2 DEF IsSum

\* One term more.
LEMMA SumStep ==
  ASSUME NEW n \in Nat, NEW f, \A i \in 0 .. n : f[i] \in Int
  PROVE  Sum(f, n + 1) = Sum(f, n) + f[n] /\ Sum(f, 0) = 0
<1>0. \A i \in 0 .. (n + 1) - 1 : f[i] \in Int
  OBVIOUS
<1>1. PICK s : IsSum(s, f, n + 1)
  BY <1>0, SumExists
<1> DEFINE r == [i \in 0 .. n |-> s[i]]
           z0 == [i \in 0 .. 0 |-> 0]
<1>2. IsSum(r, f, n)
  <2>1. r \in [0 .. n -> Int] /\ r[0] = 0
    BY <1>1 DEF IsSum
  <2>2. \A i \in 0 .. n - 1 : r[i + 1] = r[i] + f[i]
    BY <1>1 DEF IsSum
  <2> QED
    BY <2>1, <2>2 DEF IsSum
<1>3. Sum(f, n + 1) = s[n + 1]
  BY <1>1, SumIsLast
<1>4. Sum(f, n) = r[n]
  <2> HIDE DEF r
  <2> QED
    BY <1>2, SumIsLast
<1>5. s[n + 1] = s[n] + f[n]
  BY <1>1 DEF IsSum
<1>6. IsSum(z0, f, 0)
  BY DEF IsSum
<1>7. Sum(f, 0) = z0[0]
  <2> HIDE DEF z0
  <2> QED
    BY <1>6, SumIsLast
<1> QED
  BY <1>3, <1>4, <1>5, <1>7

\* Sums are linear.
LEMMA SumIsLinear ==
  ASSUME NEW n \in Nat, NEW x \in Int, NEW f, NEW g, NEW h,
         \A i \in 0 .. n - 1 : f[i] \in Int /\ g[i] \in Int,
         \A i \in 0 .. n - 1 : h[i] = f[i] + x * g[i]
  PROVE  Sum(h, n) = Sum(f, n) + x * Sum(g, n)
<1>1. PICK s : IsSum(s, f, n)
  BY SumExists
<1>2. PICK r : IsSum(r, g, n)
  BY SumExists
<1> DEFINE u == [i \in 0 .. n |-> s[i] + x * r[i]]
<1>3. IsSum(u, h, n)
  <2>1. \A i \in 0 .. n : s[i] \in Int /\ r[i] \in Int /\ x * r[i] \in Int
    <3>1. \A i \in 0 .. n : s[i] \in Int /\ r[i] \in Int
      BY <1>1, <1>2 DEF IsSum
    <3>2. \A b \in Int : x * b \in Int
      OBVIOUS
    <3> QED
      BY <3>1, <3>2
  <2>2. u \in [0 .. n -> Int]
    BY <2>1
  <2>3. u[0] = 0
    <3>1. s[0] = 0 /\ r[0] = 0 /\ x * 0 = 0
      BY <1>1, <1>2 DEF IsSum
    <3> QED
      BY <3>1
  <2>4. ASSUME NEW i \in 0 .. n - 1 PROVE u[i + 1] = u[i] + h[i]
    <3>1. s[i + 1] = s[i] + f[i] /\ r[i + 1] = r[i] + g[i]
      BY <1>1, <1>2 DEF IsSum
    <3>2. u[i + 1] = s[i + 1] + x * r[i + 1] /\ u[i] = s[i] + x * r[i]
      OBVIOUS
    <3>3. i \in 0 .. n /\ f[i] \in Int /\ g[i] \in Int /\ s[i] \in Int /\ r[i] \in Int
      BY <2>1
    <3>4. \A a, b \in Int : x * (a + b) = x * a + x * b
      OBVIOUS
    <3>5. x * (r[i] + g[i]) = x * r[i] + x * g[i]
      BY <3>3, <3>4
    <3>6. x * r[i] \in Int /\ x * g[i] \in Int
      BY <3>3
    <3>7. h[i] = f[i] + x * g[i]
      OBVIOUS
    <3> HIDE DEF u
    <3> QED
      BY <3>1, <3>2, <3>3, <3>5, <3>6, <3>7
  <2> HIDE DEF u
  <2> QED
    BY <2>2, <2>3, <2>4 DEF IsSum
<1>4. Sum(f, n) = s[n]
  BY <1>1, SumIsLast
<1>5. Sum(g, n) = r[n]
  BY <1>2, SumIsLast
<1>6. Sum(h, n) = u[n]
  <2> HIDE DEF u
  <2> QED
    BY <1>3, SumIsLast
<1> QED
  BY <1>4, <1>5, <1>6

\* Terms that are all 0.
LEMMA SumOfZeros ==
  ASSUME NEW n \in Nat, NEW f, \A i \in 0 .. n - 1 : f[i] = 0
  PROVE  Sum(f, n) = 0
<1> DEFINE s == [i \in 0 .. n |-> 0]
<1>1. IsSum(s, f, n)
  BY DEF IsSum
<1>2. Sum(f, n) = s[n]
  <2> HIDE DEF s
  <2> QED
    BY <1>1, SumIsLast
<1> QED
  BY <1>2

\* Sums depend on the terms alone.
LEMMA SumOfSame ==
  ASSUME NEW n \in Nat, NEW f, NEW h, \A i \in 0 .. n - 1 : f[i] \in Int /\ h[i] = f[i]
  PROVE  Sum(h, n) = Sum(f, n)
<1> DEFINE g == [i \in 0 .. n - 1 |-> 0]
<1>1. \A i \in 0 .. n - 1 : f[i] \in Int /\ g[i] \in Int
  OBVIOUS
<1>4. \A i \in 0 .. n - 1 : h[i] = f[i] + 0 * g[i]
  OBVIOUS
<1>2. Sum(g, n) \in Int /\ Sum(f, n) \in Int
  <2>1. \A i \in 0 .. n - 1 : g[i] \in Int
    OBVIOUS
  <2> HIDE DEF g
  <2> QED
    BY <2>1, SumOfIntegers
<1>3. Sum(h, n) = Sum(f, n) + 0 * Sum(g, n)
  <2> HIDE DEF g
  <2> QED
    BY <1>1, <1>4, SumIsLinear
<1> QED
  BY <1>2, <1>3

\* The sum of all the entries of a table: row by row, and column by column.
ByRows(f, n, m) == [i \in 0 .. n - 1 |-> Sum(f[i], m)]
Crossed(f, n, j) == [i \in 0 .. n - 1 |-> f[i][j]]
ByColumns(f, n, m) == [j \in 0 .. m - 1 |-> Sum(Crossed(f, n, j), n)]

LEMMA SumsExchange ==
  ASSUME NEW n \in Nat, NEW m \in Nat, NEW f,
         \A i \in 0 .. n - 1, j \in 0 .. m - 1 : f[i][j] \in Int
  PROVE  Sum(ByRows(f, n, m), n) = Sum(ByColumns(f, n, m), m)
<1> DEFINE start(j) == [i \in 0 .. n - 1 |-> Sum(f[i], j)]
           s == [j \in 0 .. m |-> Sum(start(j), n)]
<1>1. ASSUME NEW j \in 0 .. m, NEW i \in 0 .. n - 1 PROVE start(j)[i] \in Int
  <2>1. \A l \in 0 .. j - 1 : f[i][l] \in Int
    OBVIOUS
  <2> QED
    BY <2>1, SumOfIntegers
<1>2. ASSUME NEW j \in 0 .. m PROVE s[j] \in Int
  <2>1. \A i \in 0 .. n - 1 : start(j)[i] \in Int
    BY <1>1
  <2>2. Sum(start(j), n) \in Int
    <3> HIDE DEF start
    <3> QED
      BY <2>1, SumOfIntegers
  <2> QED
    BY <2>2
<1>3. s[0] = 0
  <2>1. ASSUME NEW i \in 0 .. n - 1 PROVE start(0)[i] = 0
    <3> DEFINE z0 == [l \in 0 .. 0 |-> 0]
    <3>1. IsSum(z0, f[i], 0)
      BY DEF IsSum
    <3>2. Sum(f[i], 0) = z0[0]
      <4> HIDE DEF z0
      <4> QED
        BY <3>1, SumIsLast
    <3> QED
      BY <3>2
  <2>2. Sum(start(0), n) = 0
    <3> HIDE DEF start
    <3> QED
      BY <2>1, SumOfZeros
  <2> QED
    BY <2>2
<1>4. ASSUME NEW j \in 0 .. m - 1 PROVE s[j + 1] = s[j] + ByColumns(f, n, m)[j]
  <2> DEFINE here == Crossed(f, n, j)
  <2>1. \A i \in 0 .. n - 1 : here[i] \in Int
    BY DEF Crossed
  <2>2. ASSUME NEW i \in 0 .. n - 1 PROVE start(j + 1)[i] = start(j)[i] + 1 * here[i]
    <3>1. \A l \in 0 .. j : f[i][l] \in Int
      OBVIOUS
    <3>2. Sum(f[i], j + 1) = Sum(f[i], j) + f[i][j]
      BY <3>1, SumStep
    <3>3. here[i] \in Int /\ here[i] = f[i][j]
      BY <2>1 DEF Crossed
    <3> QED
      BY <3>2, <3>3
  <2>3. \A i \in 0 .. n - 1 : start(j)[i] \in Int /\ here[i] \in Int
    BY <1>1, <2>1
  <2>4. Sum(start(j + 1), n) = Sum(start(j), n) + 1 * Sum(here, n)
    <3> HIDE DEF start, here
    <3> QED
      BY <2>2, <2>3, SumIsLinear
  <2>5. Sum(here, n) \in Int
    <3> HIDE DEF here
    <3> QED
      BY <2>1, SumOfIntegers
  <2>6. ByColumns(f, n, m)[j] = Sum(here, n)
    BY DEF ByColumns
  <2>7. s[j + 1] = Sum(start(j + 1), n) /\ s[j] = Sum(start(j), n)
    OBVIOUS
  <2> HIDE DEF s, start, here
  <2> QED
    BY <2>4, <2>5, <2>6, <2>7
<1>5. IsSum(s, ByColumns(f, n, m), m)
  <2>1. s \in [0 .. m -> Int]
    BY <1>2
  <2> HIDE DEF s
  <2> QED
    BY <1>3, <1>4, <2>1 DEF IsSum
<1>6. Sum(ByColumns(f, n, m), m) = s[m]
  <2> HIDE DEF s
  <2> QED
    BY <1>5, SumIsLast
<1>7. start(m) = ByRows(f, n, m)
  BY DEF ByRows
<1>8. s[m] = Sum(start(m), n)
  OBVIOUS
<1> HIDE DEF s, start
<1> QED
  BY <1>6, <1>7, <1>8

\* Sums of few terms that are not 0.
LEMMA SumOfFew ==
  ASSUME NEW n \in Nat, NEW b \in Nat, NEW f, NEW C, C \subseteq 0 .. n - 1,
         \A i \in 0 .. n - 1 : /\ f[i] \in Int /\ -b <= f[i] /\ f[i] <= b
                               /\ i \notin C => f[i] = 0
  PROVE  /\ Cardinality(C) \in Nat /\ Sum(f, n) \in Int
         /\ -(Cardinality(C) * b) <= Sum(f, n) /\ Sum(f, n) <= Cardinality(C) * b
<1>0. \A i \in 0 .. n - 1 : f[i] \in Int
  OBVIOUS
<1>1. PICK s : IsSum(s, f, n)
  BY <1>0, SumExists
<1>2. Sum(f, n) = s[n]
  BY <1>1, SumIsLast
<1> DEFINE Start(m) == {i \in C : i < m}
           T == {m \in Nat : m <= n => /\ IsFiniteSet(Start(m))
                                       /\ Cardinality(Start(m)) \in Nat /\ s[m] \in Int
                                       /\ -(Cardinality(Start(m)) * b) <= s[m]
                                       /\ s[m] <= Cardinality(Start(m)) * b}
<1>3. \A i \in C : i \in Nat /\ i < n
  OBVIOUS
<1>4. 0 \in T
  <2>1. Start(0) = {}
    <3>1. \A i \in C : ~ i < 0
      BY <1>3
    <3> QED
      BY <3>1
  <2>2. IsFiniteSet(Start(0)) /\ Cardinality(Start(0)) = 0
    BY <2>1, FS_EmptySet
  <2>3. s[0] = 0
    BY <1>1 DEF IsSum
  <2> HIDE DEF Start
  <2> QED
    BY <2>2, <2>3
<1>5. ASSUME NEW m \in T PROVE m + 1 \in T
  <2> SUFFICES ASSUME m + 1 <= n
               PROVE  /\ IsFiniteSet(Start(m + 1))
                      /\ Cardinality(Start(m + 1)) \in Nat /\ s[m + 1] \in Int
                      /\ -(Cardinality(Start(m + 1)) * b) <= s[m + 1]
                      /\ s[m + 1] <= Cardinality(Start(m + 1)) * b
    OBVIOUS
  <2> DEFINE c == Cardinality(Start(m))
  <2>1. /\ m \in Nat /\ m \in 0 .. n - 1 /\ s[m] \in Int /\ IsFiniteSet(Start(m))
        /\ c \in Nat /\ -(c * b) <= s[m] /\ s[m] <= c * b
    OBVIOUS
  <2>2. /\ s[m + 1] = s[m] + f[m] /\ f[m] \in Int /\ -b <= f[m] /\ f[m] <= b
        /\ m \notin C => f[m] = 0
    BY <1>1, <2>1 DEF IsSum
  <2>3. \A i \in C : i < m + 1 <=> (i < m \/ i = m)
    BY <1>3, <2>1
  <2>4. ~ m < m
    BY <2>1
  <2>5. CASE m \in C
    <3>1. Start(m + 1) = Start(m) \cup {m} /\ m \notin Start(m)
      BY <2>3, <2>4, <2>5, Zenon
    <3>2. IsFiniteSet(Start(m + 1)) /\ Cardinality(Start(m + 1)) = c + 1
      <4> HIDE DEF Start
      <4> QED
        BY <2>1, <3>1, FS_AddElement
    <3>3. (c + 1) * b = c * b + b /\ c * b \in Int
      BY <2>1
    <3> HIDE DEF Start, c
    <3> QED
      BY <2>1, <2>2, <3>2, <3>3
  <2>6. CASE m \notin C
    <3>1. Start(m + 1) = Start(m)
      BY <2>3, <2>6, Zenon
    <3>2. s[m + 1] = s[m]
      BY <2>1, <2>2, <2>6
    <3> HIDE DEF Start
    <3> QED
      BY <2>1, <3>1, <3>2
  <2> QED
    BY <2>5, <2>6
<1>6. T \subseteq Nat
  OBVIOUS
<1>7. n \in T
  <2> HIDE DEF T
  <2> QED
    BY <1>4, <1>5, <1>6, SetInduction
<1>8. Start(n) = C
  BY <1>3
<1> HIDE DEF Start
<1> QED
  BY <1>2, <1>7, <1>8

-----------------------------------------------------------------------------
(*  Residues  *)

\* Congruent modulo Q.
Same(a, b) == \E d \in Int : a = b + Q * d

LEMMA SameIsCongruence ==
  /\ \A a \in Int : Same(a, a)
  /\ \A a, b \in Int : Same(a, b) => Same(b, a)
  /\ \A a, b, c \in Int : Same(a, b) /\ Same(b, c) => Same(a, c)
  /\ \A a, b, c, e \in Int : Same(a, b) /\ Same(c, e) => Same(a + c, b + e)
  /\ \A a, b, c \in Int : Same(a, b) => Same(c * a, c * b)
  /\ \A a \in Int : Same(a % Q, a) /\ a % Q \in 0 .. Q - 1
<1>1. Q \in Nat /\ Q > 0
  BY RoundingAssumption
<1>2. \A a \in Int : Same(a, a)
  <2>1. \A a \in Int : a = a + Q * 0
    BY <1>1
  <2> QED
    BY <2>1 DEF Same
<1>3. ASSUME NEW a \in Int, NEW b \in Int, Same(a, b) PROVE Same(b, a)
  <2>1. PICK d \in Int : a = b + Q * d
    BY <1>3 DEF Same
  <2>2. Q * d \in Int /\ Q * (-d) = -(Q * d)
    BY <1>1
  <2>3. b = a + Q * (-d)
    BY <2>1, <2>2
  <2> QED
    BY <2>3 DEF Same
<1>4. ASSUME NEW a \in Int, NEW b \in Int, NEW c \in Int, NEW e \in Int,
             Same(a, b), Same(c, e)
      PROVE  Same(a + c, b + e)
  <2>1. PICK d \in Int : a = b + Q * d
    BY <1>4 DEF Same
  <2>2. PICK x \in Int : c = e + Q * x
    BY <1>4 DEF Same
  <2>3. Q * d \in Int /\ Q * x \in Int /\ Q * (d + x) = Q * d + Q * x
    BY <1>1
  <2>4. a + c = (b + e) + Q * (d + x)
    BY <2>1, <2>2, <2>3
  <2> QED
    BY <2>4 DEF Same
<1>5. ASSUME NEW a \in Int, NEW b \in Int, NEW c \in Int, Same(a, b), Same(b, c)
      PROVE  Same(a, c)
  <2>1. PICK d \in Int : a = b + Q * d
    BY <1>5 DEF Same
  <2>2. PICK x \in Int : b = c + Q * x
    BY <1>5 DEF Same
  <2>3. Q * d \in Int /\ Q * x \in Int /\ Q * (d + x) = Q * d + Q * x
    BY <1>1
  <2>4. a = c + Q * (d + x)
    BY <2>1, <2>2, <2>3
  <2> QED
    BY <2>4 DEF Same
<1>6. ASSUME NEW a \in Int, NEW b \in Int, NEW c \in Int, Same(a, b)
      PROVE  Same(c * a, c * b)
  <2>1. PICK d \in Int : a = b + Q * d
    BY <1>6 DEF Same
  <2>2. \A x, w \in Int : c * (x + w) = c * x + c * w
    OBVIOUS
  <2>3. Q * d \in Int /\ c * (Q * d) = Q * (c * d) /\ c * d \in Int
    BY <1>1
  <2>4. c * a = c * b + Q * (c * d)
    BY <2>1, <2>2, <2>3
  <2> QED
    BY <2>3, <2>4 DEF Same
<1>7. ASSUME NEW a \in Int PROVE Same(a % Q, a) /\ a % Q \in 0 .. Q - 1
  <2>1. a \div Q \in Int /\ a % Q \in Int /\ 0 <= a % Q /\ a % Q < Q /\ a = Q * (a \div Q) + (a % Q)
    BY <1>1
  <2>2. Q * (a \div Q) \in Int /\ Q * (-(a \div Q)) = -(Q * (a \div Q))
    BY <1>1, <2>1
  <2>3. a % Q = a + Q * (-(a \div Q))
    BY <2>1, <2>2
  <2>4. -(a \div Q) \in Int
    BY <2>1
  <2>5. Same(a % Q, a)
    BY <2>3, <2>4 DEF Same
  <2> QED
    BY <1>1, <2>1, <2>5
<1> QED
  BY <1>2, <1>3, <1>4, <1>5, <1>6, <1>7

LEMMA SameTimes ==
  ASSUME NEW a \in Int, NEW b \in Int, NEW c \in Int, Same(a, b)
  PROVE  Same(c * a, c * b)
  BY SameIsCongruence

LEMMA SamePlus ==
  ASSUME NEW a \in Int, NEW b \in Int, NEW c \in Int, NEW e \in Int, Same(a, b), Same(c, e)
  PROVE  Same(a + c, b + e)
  BY SameIsCongruence

LEMMA SameBack ==
  ASSUME NEW a \in Int, NEW b \in Int, Same(a, b)
  PROVE  Same(b, a)
  BY SameIsCongruence

LEMMA SameThen ==
  ASSUME NEW a \in Int, NEW b \in Int, NEW c \in Int, Same(a, b), Same(b, c)
  PROVE  Same(a, c)
  BY SameIsCongruence

LEMMA SameMinus ==
  ASSUME NEW a \in Int, NEW b \in Int, NEW c \in Int, NEW e \in Int, Same(a, b), Same(c, e)
  PROVE  Same(a - c, b - e)
<1>1. (-1) * c = -c /\ (-1) * e = -e
  OBVIOUS
<1>2. Same(-c, -e)
  <2>1. Same((-1) * c, (-1) * e)
    BY SameTimes
  <2> QED
    BY <1>1, <2>1
<1>3. Same(a + -c, b + -e)
  BY <1>2, SamePlus
<1>4. a + -c = a - c /\ b + -e = b - e
  OBVIOUS
<1> QED
  BY <1>3, <1>4

\* Residues of sums.
LEMMA SumIsLinearModulo ==
  ASSUME NEW n \in Nat, NEW x \in Int, NEW f, NEW g, NEW h,
         \A i \in 0 .. n - 1 : f[i] \in Int /\ g[i] \in Int /\ h[i] \in Int,
         \A i \in 0 .. n - 1 : Same(h[i], f[i] + x * g[i])
  PROVE  Same(Sum(h, n), Sum(f, n) + x * Sum(g, n))
<1>0. Q \in Int
  BY RoundingAssumption
<1> DEFINE e == [i \in 0 .. n - 1 |-> f[i] + x * g[i]]
           d == [i \in 0 .. n - 1 |-> CHOOSE v \in Int : h[i] = e[i] + Q * v]
<1>1. \A i \in 0 .. n - 1 : e[i] = f[i] + x * g[i]
  OBVIOUS
<1>2. \A i \in 0 .. n - 1 : e[i] \in Int
  <2>1. \A b \in Int : x * b \in Int
    OBVIOUS
  <2> QED
    BY <2>1
<1>3. \A i \in 0 .. n - 1 : \E v \in Int : h[i] = e[i] + Q * v
  BY <1>1 DEF Same
<1>4. \A i \in 0 .. n - 1 : d[i] \in Int /\ h[i] = e[i] + Q * d[i]
  <2> HIDE DEF e
  <2> QED
    BY <1>3
<1> HIDE DEF e, d
<1>5. Sum(e, n) = Sum(f, n) + x * Sum(g, n)
  BY <1>1, SumIsLinear
<1>6. Sum(h, n) = Sum(e, n) + Q * Sum(d, n)
  <2>1. \A i \in 0 .. n - 1 : e[i] \in Int /\ d[i] \in Int
    BY <1>2, <1>4
  <2>2. \A i \in 0 .. n - 1 : h[i] = e[i] + Q * d[i]
    BY <1>4
  <2> QED
    BY <1>0, <2>1, <2>2, SumIsLinear
<1>7. Sum(d, n) \in Int
  BY <1>4, SumOfIntegers
<1> QED
  BY <1>5, <1>6, <1>7 DEF Same

-----------------------------------------------------------------------------
(*  Polynomials modulo x^N + 1  *)

Polynomials == [Index -> Int]

\* The coefficient at any place: beyond an end the polynomial goes on, negated.
Wrapped(b, j) ==
  IF j >= 0 THEN b[j] ELSE IF j >= -N THEN -b[N + j] ELSE b[2 * N + j]

Terms(a, b, k) == [i \in 0 .. N - 1 |-> a[i] * Wrapped(b, k - i)]
Conv(a, b, k) == Sum(Terms(a, b, k), N)

LEMMA Dimensions ==
  /\ N \in Nat /\ N >= 1 /\ K \in Nat /\ L \in Nat /\ Q \in Nat /\ Q >= 1
  /\ Index = 0 .. N - 1 /\ Column = 0 .. L - 1 /\ Row = 0 .. K - 1
  BY SigningAssumption, RoundingAssumption DEF Index, Column, Row

LEMMA WrappedType ==
  ASSUME NEW b \in Polynomials, NEW j \in Int, -(2 * N) <= j, j < N
  PROVE  Wrapped(b, j) \in Int
<1>1. CASE j >= 0
  BY <1>1, Dimensions DEF Polynomials, Wrapped
<1>2. CASE j < 0 /\ j >= -N
  <2>1. N + j \in Index
    BY <1>2, Dimensions
  <2>2. b[N + j] \in Int
    BY <2>1 DEF Polynomials
  <2> QED
    BY <1>2, <2>2 DEF Wrapped
<1>3. CASE j < -N
  <2>1. 2 * N + j \in Index
    BY <1>3, Dimensions
  <2>2. b[2 * N + j] \in Int
    BY <2>1 DEF Polynomials
  <2>3. ~ j >= 0 /\ ~ j >= -N
    BY <1>3, Dimensions
  <2> QED
    BY <2>2, <2>3 DEF Wrapped
<1> QED
  BY <1>1, <1>2, <1>3, Dimensions

LEMMA ConvType ==
  ASSUME NEW a \in Polynomials, NEW b \in Polynomials, NEW k \in Int, -N <= k, k < N
  PROVE  /\ \A i \in 0 .. N - 1 : /\ k - i \in Int /\ -(2 * N) <= k - i /\ k - i < N
                                 /\ a[i] \in Int /\ Wrapped(b, k - i) \in Int
                                 /\ Terms(a, b, k)[i] = a[i] * Wrapped(b, k - i)
                                 /\ Terms(a, b, k)[i] \in Int
         /\ Conv(a, b, k) \in Int
<1>1. ASSUME NEW i \in 0 .. N - 1
      PROVE  /\ k - i \in Int /\ -(2 * N) <= k - i /\ k - i < N
             /\ a[i] \in Int /\ Wrapped(b, k - i) \in Int
             /\ Terms(a, b, k)[i] = a[i] * Wrapped(b, k - i)
             /\ Terms(a, b, k)[i] \in Int
  <2>1. k - i \in Int /\ -(2 * N) <= k - i /\ k - i < N
    BY Dimensions
  <2>2. a[i] \in Int
    BY Dimensions DEF Polynomials
  <2>3. Wrapped(b, k - i) \in Int
    BY <2>1, WrappedType
  <2>4. Terms(a, b, k)[i] = a[i] * Wrapped(b, k - i)
    BY DEF Terms
  <2>5. a[i] * Wrapped(b, k - i) \in Int
    BY <2>2, <2>3
  <2> QED
    BY <2>1, <2>2, <2>3, <2>4, <2>5
<1>2. \A i \in 0 .. N - 1 : Terms(a, b, k)[i] \in Int
  BY <1>1
<1>3. Conv(a, b, k) \in Int
  BY <1>2, SumOfIntegers, Dimensions DEF Conv
<1> QED
  BY <1>1, <1>3

\* What Product computes.
LEMMA ProductIsConv ==
  ASSUME NEW a \in Polynomials, NEW b \in Polynomials, NEW k \in Index
  PROVE  /\ Product(a, b)[k] \in 0 .. Q - 1
         /\ Same(Product(a, b)[k], Conv(a, b, k))
<1> DEFINE f == [i \in Index |-> IF i <= k THEN a[i] * b[k - i] ELSE -(a[i] * b[N + k - i])]
<1>1. k \in Int /\ -N <= k /\ k < N
  BY Dimensions
<1>2. Product(a, b)[k] = Sum(f, N) % Q
  BY DEF Product
<1>3. \A i \in 0 .. N - 1 : f[i] = Terms(a, b, k)[i]
  <2> SUFFICES ASSUME NEW i \in 0 .. N - 1 PROVE f[i] = a[i] * Wrapped(b, k - i)
    BY DEF Terms
  <2>1. CASE i <= k
    <3>1. k - i >= 0
      BY <2>1, Dimensions
    <3> QED
      BY <2>1, <3>1, Dimensions DEF Wrapped
  <2>2. CASE ~ (i <= k)
    <3>1. ~ (k - i >= 0) /\ k - i >= -N /\ N + (k - i) = N + k - i /\ N + k - i \in Index
      BY <2>2, Dimensions
    <3>2. Wrapped(b, k - i) = -b[N + k - i]
      BY <3>1 DEF Wrapped
    <3>3. a[i] \in Int /\ b[N + k - i] \in Int
      BY <3>1, Dimensions DEF Polynomials
    <3>4. f[i] = -(a[i] * b[N + k - i])
      BY <2>2, Dimensions
    <3>5. \A v, w \in Int : -(v * w) = v * (-w)
      OBVIOUS
    <3> QED
      BY <3>2, <3>3, <3>4, <3>5
  <2> QED
    BY <2>1, <2>2
<1>4. \A i \in 0 .. N - 1 : Terms(a, b, k)[i] \in Int /\ f[i] = Terms(a, b, k)[i]
  BY <1>1, <1>3, ConvType
<1>5. Sum(f, N) = Conv(a, b, k)
  <2> HIDE DEF f
  <2> QED
    BY <1>4, SumOfSame, Dimensions DEF Conv
<1>6. Conv(a, b, k) \in Int
  BY <1>1, ConvType
<1> QED
  BY <1>2, <1>5, <1>6, SameIsCongruence

\* The congruence of polynomials carries over to every place.
LEMMA WrappedSame ==
  ASSUME NEW b \in Polynomials, NEW u \in Polynomials, NEW v \in Polynomials, NEW x \in Int,
         \A k \in Index : Same(b[k], u[k] + x * v[k]),
         NEW j \in Int, -(2 * N) <= j, j < N
  PROVE  Same(Wrapped(b, j), Wrapped(u, j) + x * Wrapped(v, j))
<1>1. \A k \in Index : b[k] \in Int /\ u[k] \in Int /\ v[k] \in Int /\ x * v[k] \in Int
  <2>1. \A k \in Index : b[k] \in Int /\ u[k] \in Int /\ v[k] \in Int
    BY DEF Polynomials
  <2>2. \A w \in Int : x * w \in Int
    OBVIOUS
  <2> QED
    BY <2>1, <2>2
<1>2. CASE j >= 0
  <2>1. j \in Index
    BY <1>2, Dimensions
  <2> QED
    BY <1>2, <2>1 DEF Wrapped
<1>3. CASE ~ (j >= 0) /\ j >= -N
  <2> DEFINE k == N + j
  <2>1. k \in Index
    BY <1>3, Dimensions
  <2>2. /\ Wrapped(b, j) = -b[k] /\ Wrapped(u, j) = -u[k] /\ Wrapped(v, j) = -v[k]
    BY <1>3 DEF Wrapped
  <2> HIDE DEF k
  <2>3. Same(b[k], u[k] + x * v[k])
    BY <2>1
  <2>4. b[k] \in Int /\ u[k] \in Int /\ v[k] \in Int /\ x * v[k] \in Int
    BY <1>1, <2>1
  <2>5. Same((-1) * b[k], (-1) * (u[k] + x * v[k]))
    <3>1. u[k] + x * v[k] \in Int
      BY <2>4
    <3> QED
      BY <2>3, <2>4, <3>1, SameTimes
  <2>6. (-1) * b[k] = -b[k] /\ (-1) * (u[k] + x * v[k]) = (-u[k]) + x * (-v[k])
    <3>1. x * (-v[k]) = -(x * v[k])
      BY <2>4
    <3> QED
      BY <2>4, <3>1
  <2> QED
    BY <2>2, <2>5, <2>6
<1>4. CASE ~ (j >= 0) /\ ~ (j >= -N)
  <2> DEFINE k == 2 * N + j
  <2>1. k \in Index
    BY <1>4, Dimensions
  <2>2. /\ Wrapped(b, j) = b[k] /\ Wrapped(u, j) = u[k] /\ Wrapped(v, j) = v[k]
    BY <1>4 DEF Wrapped
  <2> QED
    BY <2>1, <2>2
<1> QED
  BY <1>2, <1>3, <1>4

\* Products are linear in their second factor.
LEMMA ConvIsLinear ==
  ASSUME NEW a \in Polynomials, NEW x \in Int,
         NEW b \in Polynomials, NEW u \in Polynomials, NEW v \in Polynomials,
         \A k \in Index : Same(b[k], u[k] + x * v[k]),
         NEW k \in Int, -N <= k, k < N
  PROVE  Same(Conv(a, b, k), Conv(a, u, k) + x * Conv(a, v, k))
<1> DEFINE h == Terms(a, b, k)
           f == Terms(a, u, k)
           g == Terms(a, v, k)
<1>1. \A i \in 0 .. N - 1 : f[i] \in Int /\ g[i] \in Int /\ h[i] \in Int
  BY ConvType
<1>2. ASSUME NEW i \in 0 .. N - 1 PROVE Same(h[i], f[i] + x * g[i])
  <2> DEFINE wb == Wrapped(b, k - i)
             wu == Wrapped(u, k - i)
             wv == Wrapped(v, k - i)
  <2>1. k - i \in Int /\ -(2 * N) <= k - i /\ k - i < N
    BY Dimensions
  <2>2. Same(wb, wu + x * wv)
    BY <2>1, WrappedSame
  <2>3. a[i] \in Int /\ wb \in Int /\ wu \in Int /\ wv \in Int
    BY ConvType
  <2>4. h[i] = a[i] * wb /\ f[i] = a[i] * wu /\ g[i] = a[i] * wv
    BY DEF Terms
  <2> HIDE DEF wb, wu, wv, h, f, g
  <2>5. x * wv \in Int
    BY <2>3
  <2>6. Same(a[i] * wb, a[i] * (wu + x * wv))
    <3>1. wu + x * wv \in Int
      BY <2>3, <2>5
    <3> QED
      BY <2>2, <2>3, <3>1, SameTimes
  <2>7. a[i] * (wu + x * wv) = a[i] * wu + x * (a[i] * wv)
    <3>1. a[i] * (wu + x * wv) = a[i] * wu + a[i] * (x * wv)
      BY <2>3, <2>5
    <3>2. a[i] * (x * wv) = x * (a[i] * wv)
      BY <2>3
    <3> QED
      BY <3>1, <3>2
  <2> QED
    BY <2>4, <2>6, <2>7
<1> HIDE DEF h, f, g
<1>3. Same(Sum(h, N), Sum(f, N) + x * Sum(g, N))
  BY <1>1, <1>2, SumIsLinearModulo, Dimensions
<1> QED
  BY <1>3 DEF Conv, h, f, g

\* A product is wrapped as its factor is.
LEMMA WrappedConv ==
  ASSUME NEW c \in Polynomials, NEW s \in Polynomials, NEW p \in Polynomials,
         \A k \in Index : p[k] = Conv(c, s, k),
         NEW j \in Int, -N <= j, j < N
  PROVE  Wrapped(p, j) = Conv(c, s, j)
<1>1. CASE j >= 0
  <2>1. j \in Index
    BY <1>1, Dimensions
  <2> QED
    BY <1>1, <2>1 DEF Wrapped
<1>2. CASE ~ (j >= 0)
  <2> DEFINE k == N + j
             h == Terms(c, s, j)
             g == Terms(c, s, k)
             z0 == [i \in 0 .. N - 1 |-> 0]
  <2>1. k \in Index /\ k \in Int /\ -N <= k /\ k < N
    BY <1>2, Dimensions
  <2>2. Wrapped(p, j) = -Conv(c, s, k)
    BY <1>2, <2>1 DEF Wrapped
  <2>3. ASSUME NEW i \in 0 .. N - 1
        PROVE  Wrapped(s, j - i) = -Wrapped(s, k - i)
    <3>0. j - i \in Int /\ k - i = N + (j - i)
      BY Dimensions
    <3>1. CASE k - i >= 0
      <4>1. ~ (j - i >= 0) /\ j - i >= -N
        BY <1>2, <3>1, Dimensions
      <4> QED
        BY <3>0, <3>1, <4>1 DEF Wrapped
    <3>2. CASE ~ (k - i >= 0)
      <4>1. /\ ~ (j - i >= 0) /\ ~ (j - i >= -N) /\ k - i >= -N
            /\ N + (k - i) = 2 * N + (j - i) /\ N + (k - i) \in Index
        BY <1>2, <3>2, <2>1, Dimensions
      <4>2. s[N + (k - i)] \in Int
        BY <4>1 DEF Polynomials
      <4>3. Wrapped(s, j - i) = s[N + (k - i)] /\ Wrapped(s, k - i) = -s[N + (k - i)]
        BY <3>2, <4>1 DEF Wrapped
      <4> QED
        BY <4>2, <4>3
    <3> QED
      BY <3>1, <3>2
  <2>4. \A i \in 0 .. N - 1 : h[i] \in Int /\ g[i] \in Int
    BY <2>1, ConvType
  <2>5. \A i \in 0 .. N - 1 : z0[i] \in Int /\ g[i] \in Int
    BY <2>4
  <2>6. ASSUME NEW i \in 0 .. N - 1 PROVE h[i] = z0[i] + (-1) * g[i]
    <3>1. h[i] = c[i] * Wrapped(s, j - i) /\ g[i] = c[i] * Wrapped(s, k - i) /\ z0[i] = 0
      BY DEF Terms
    <3>2. c[i] \in Int /\ Wrapped(s, k - i) \in Int
      BY <2>1, ConvType
    <3>3. \A v, w \in Int : v * (-w) = 0 + (-1) * (v * w)
      OBVIOUS
    <3> HIDE DEF h, g, z0, k
    <3>4. c[i] * (-Wrapped(s, k - i)) = 0 + (-1) * (c[i] * Wrapped(s, k - i))
      BY <3>2, <3>3
    <3> QED
      BY <3>1, <3>4, <2>3
  <2>7. Sum(z0, N) = 0
    BY SumOfZeros, Dimensions
  <2>8. Sum(g, N) \in Int
    <3> HIDE DEF g
    <3> QED
      BY <2>4, SumOfIntegers, Dimensions
  <2>9. Sum(h, N) = Sum(z0, N) + (-1) * Sum(g, N)
    <3> HIDE DEF h, g, z0
    <3> QED
      BY <2>5, <2>6, SumIsLinear, Dimensions
  <2>10. Conv(c, s, j) = Sum(h, N) /\ Conv(c, s, k) = Sum(g, N)
    BY DEF Conv
  <2> HIDE DEF h, g, z0, k
  <2> QED
    BY <2>2, <2>7, <2>8, <2>9, <2>10
<1> QED
  BY <1>1, <1>2

LEMMA SumTimes ==
  ASSUME NEW n \in Nat, NEW x \in Int, NEW g, NEW h,
         \A i \in 0 .. n - 1 : g[i] \in Int, \A i \in 0 .. n - 1 : h[i] = x * g[i]
  PROVE  Sum(h, n) = x * Sum(g, n)
<1> DEFINE z0 == [i \in 0 .. n - 1 |-> 0]
<1>1. \A i \in 0 .. n - 1 : z0[i] \in Int /\ g[i] \in Int
  OBVIOUS
<1>2. ASSUME NEW i \in 0 .. n - 1 PROVE h[i] = z0[i] + x * g[i]
  <2>1. h[i] = x * g[i] /\ g[i] \in Int /\ z0[i] = 0
    OBVIOUS
  <2>2. x * g[i] \in Int
    BY <2>1
  <2> QED
    BY <2>1, <2>2
<1>3. Sum(z0, n) = 0
  BY SumOfZeros
<1>4. Sum(g, n) \in Int /\ x * Sum(g, n) \in Int
  <2>1. Sum(g, n) \in Int
    BY SumOfIntegers
  <2> QED
    BY <2>1
<1>5. Sum(h, n) = Sum(z0, n) + x * Sum(g, n)
  <2> HIDE DEF z0
  <2> QED
    BY <1>1, <1>2, SumIsLinear
<1> QED
  BY <1>3, <1>4, <1>5

LEMMA ProductType ==
  ASSUME NEW a \in Polynomials, NEW b \in Polynomials
  PROVE  Product(a, b) \in Polynomials
<1>1. \A k \in Index : Product(a, b)[k] \in Int
  BY ProductIsConv, Dimensions
<1> QED
  BY <1>1 DEF Product, Polynomials

\* Congruent factors have congruent products.
LEMMA ConvSame ==
  ASSUME NEW a \in Polynomials, NEW b \in Polynomials, NEW u \in Polynomials,
         \A k \in Index : Same(b[k], u[k]),
         NEW k \in Int, -N <= k, k < N
  PROVE  Same(Conv(a, b, k), Conv(a, u, k))
<1>1. \A i \in Index : Same(b[i], u[i] + 0 * u[i])
  BY DEF Polynomials
<1>2. Conv(a, u, k) \in Int
  BY ConvType
<1>3. Same(Conv(a, b, k), Conv(a, u, k) + 0 * Conv(a, u, k))
  BY <1>1, ConvIsLinear
<1> QED
  BY <1>2, <1>3

\* m (c s) and c (m s) are congruent.
LEMMA ProductsExchange ==
  ASSUME NEW m \in Polynomials, NEW c \in Polynomials, NEW s \in Polynomials,
         NEW k \in Index
  PROVE  Same(Conv(m, Product(c, s), k), Conv(c, Product(m, s), k))
<1> DEFINE p == [i \in Index |-> Conv(c, s, i)]
           q == [i \in Index |-> Conv(m, s, i)]
           entry(i, l) == m[i] * (c[l] * Wrapped(s, (k - i) - l))
           f == [i \in 0 .. N - 1 |-> [l \in 0 .. N - 1 |-> entry(i, l)]]
<1>1. k \in Int /\ -N <= k /\ k < N
  BY Dimensions
<1>2. p \in Polynomials /\ q \in Polynomials
  <2>1. \A i \in Index : i \in Int /\ -N <= i /\ i < N
    BY Dimensions
  <2>2. \A i \in Index : Conv(c, s, i) \in Int /\ Conv(m, s, i) \in Int
    BY <2>1, ConvType
  <2> QED
    BY <2>2 DEF Polynomials
<1>3. Same(Conv(m, Product(c, s), k), Conv(m, p, k))
  <2>1. \A i \in Index : Same(Product(c, s)[i], p[i])
    BY ProductIsConv
  <2> HIDE DEF p
  <2> QED
    BY <1>1, <1>2, <2>1, ConvSame, ProductType
<1>4. Same(Conv(c, q, k), Conv(c, Product(m, s), k))
  <2>1. \A i \in Index : Same(Product(m, s)[i], q[i])
    BY ProductIsConv
  <2>2. Product(m, s) \in Polynomials
    BY ProductType
  <2> HIDE DEF q
  <2>3. Same(Conv(c, Product(m, s), k), Conv(c, q, k))
    BY <1>1, <1>2, <2>1, <2>2, ConvSame
  <2>4. Conv(c, Product(m, s), k) \in Int /\ Conv(c, q, k) \in Int
    BY <1>1, <1>2, <2>2, ConvType
  <2> QED
    BY <2>3, <2>4, SameBack
<1>5. ASSUME NEW i \in 0 .. N - 1, NEW l \in 0 .. N - 1
      PROVE  /\ m[i] \in Int /\ c[l] \in Int /\ Wrapped(s, (k - i) - l) \in Int
             /\ entry(i, l) \in Int
             /\ entry(i, l) = c[l] * (m[i] * Wrapped(s, (k - l) - i))
  <2>1. k - i \in Int /\ -N <= k - i /\ k - i < N /\ (k - i) - l = (k - l) - i
    BY Dimensions
  <2>2. Wrapped(s, (k - i) - l) \in Int
    BY <2>1, ConvType
  <2>3. m[i] \in Int /\ c[l] \in Int
    BY Dimensions DEF Polynomials
  <2> DEFINE w == Wrapped(s, (k - i) - l)
  <2>4. w = Wrapped(s, (k - l) - i) /\ w \in Int
    BY <2>1, <2>2
  <2> HIDE DEF w
  <2>5. m[i] * (c[l] * w) = c[l] * (m[i] * w) /\ m[i] * (c[l] * w) \in Int
    BY <2>3, <2>4
  <2> QED
    BY <2>2, <2>3, <2>4, <2>5 DEF w
<1>6. Conv(m, p, k) = Sum(ByRows(f, N, N), N)
  <2>1. ASSUME NEW i \in 0 .. N - 1
        PROVE  ByRows(f, N, N)[i] = Terms(m, p, k)[i] /\ Terms(m, p, k)[i] \in Int
    <3>1. k - i \in Int /\ -N <= k - i /\ k - i < N
      BY Dimensions
    <3>2. Wrapped(p, k - i) = Conv(c, s, k - i)
      <4>1. \A j \in Index : p[j] = Conv(c, s, j)
        OBVIOUS
      <4> HIDE DEF p
      <4> QED
        BY <1>2, <3>1, <4>1, WrappedConv
    <3> DEFINE g == Terms(c, s, k - i)
               h == f[i]
    <3>3. \A l \in 0 .. N - 1 : g[l] \in Int
      BY <3>1, ConvType
    <3>4. \A l \in 0 .. N - 1 : h[l] = m[i] * g[l]
      BY DEF Terms
    <3>5. m[i] \in Int
      BY Dimensions DEF Polynomials
    <3>6. Sum(h, N) = m[i] * Sum(g, N)
      <4> HIDE DEF g, h
      <4> QED
        BY <3>3, <3>4, <3>5, SumTimes, Dimensions
    <3>7. ByRows(f, N, N)[i] = Sum(h, N)
      BY DEF ByRows
    <3>8. Terms(m, p, k)[i] = m[i] * Wrapped(p, k - i) /\ Terms(m, p, k)[i] \in Int
      <4> HIDE DEF p
      <4> QED
        BY <1>1, <1>2, ConvType
    <3>9. Sum(g, N) = Conv(c, s, k - i)
      BY DEF Conv
    <3> HIDE DEF g, h, f, p
    <3> QED
      BY <3>2, <3>6, <3>7, <3>8, <3>9
  <2> HIDE DEF p, f
  <2>2. Sum(ByRows(f, N, N), N) = Sum(Terms(m, p, k), N)
    BY <2>1, SumOfSame, Dimensions
  <2> QED
    BY <2>2 DEF Conv
<1>7. Conv(c, q, k) = Sum(ByColumns(f, N, N), N)
  <2>1. ASSUME NEW l \in 0 .. N - 1
        PROVE  ByColumns(f, N, N)[l] = Terms(c, q, k)[l] /\ Terms(c, q, k)[l] \in Int
    <3>1. k - l \in Int /\ -N <= k - l /\ k - l < N
      BY Dimensions
    <3>2. Wrapped(q, k - l) = Conv(m, s, k - l)
      <4>1. \A j \in Index : q[j] = Conv(m, s, j)
        OBVIOUS
      <4> HIDE DEF q
      <4> QED
        BY <1>2, <3>1, <4>1, WrappedConv
    <3> DEFINE g == Terms(m, s, k - l)
               h == Crossed(f, N, l)
    <3>3. \A i \in 0 .. N - 1 : g[i] \in Int
      BY <3>1, ConvType
    <3>4. \A i \in 0 .. N - 1 : h[i] = c[l] * g[i]
      <4>1. \A i \in 0 .. N - 1 : h[i] = entry(i, l)
        BY DEF Crossed
      <4>2. \A i \in 0 .. N - 1 : g[i] = m[i] * Wrapped(s, (k - l) - i)
        BY DEF Terms
      <4> HIDE DEF h, g, entry
      <4> QED
        BY <1>5, <4>1, <4>2
    <3>5. c[l] \in Int
      BY Dimensions DEF Polynomials
    <3>6. Sum(h, N) = c[l] * Sum(g, N)
      <4> HIDE DEF g, h
      <4> QED
        BY <3>3, <3>4, <3>5, SumTimes, Dimensions
    <3>7. ByColumns(f, N, N)[l] = Sum(h, N)
      BY DEF ByColumns
    <3>8. Terms(c, q, k)[l] = c[l] * Wrapped(q, k - l) /\ Terms(c, q, k)[l] \in Int
      <4> HIDE DEF q
      <4> QED
        BY <1>1, <1>2, ConvType
    <3>9. Sum(g, N) = Conv(m, s, k - l)
      BY DEF Conv
    <3> HIDE DEF g, h, f, q
    <3> QED
      BY <3>2, <3>6, <3>7, <3>8, <3>9
  <2> HIDE DEF q, f
  <2>2. Sum(ByColumns(f, N, N), N) = Sum(Terms(c, q, k), N)
    BY <2>1, SumOfSame, Dimensions
  <2> QED
    BY <2>2 DEF Conv
<1>8. Sum(ByRows(f, N, N), N) = Sum(ByColumns(f, N, N), N)
  <2>1. \A i \in 0 .. N - 1, l \in 0 .. N - 1 : f[i][l] \in Int
    <3>1. \A i \in 0 .. N - 1, l \in 0 .. N - 1 : f[i][l] = entry(i, l)
      OBVIOUS
    <3> HIDE DEF f, entry
    <3> QED
      BY <1>5, <3>1
  <2> HIDE DEF f
  <2> QED
    BY <2>1, SumsExchange, Dimensions
<1>9. Conv(m, p, k) = Conv(c, q, k)
  BY <1>6, <1>7, <1>8
<1>10. /\ Conv(m, Product(c, s), k) \in Int /\ Conv(m, p, k) \in Int
       /\ Conv(c, Product(m, s), k) \in Int
  <2>1. Product(c, s) \in Polynomials /\ Product(m, s) \in Polynomials
    BY ProductType
  <2> HIDE DEF p
  <2> QED
    BY <1>1, <1>2, <2>1, ConvType
<1> HIDE DEF p, q
<1> QED
  BY <1>3, <1>4, <1>9, <1>10, SameThen

-----------------------------------------------------------------------------
(*  Vectors  *)

\* A row of a matrix times a vector.
RowProducts(row, v, k) == [j \in Column |-> Product(row[j], v[j])[k]]
RowTimes(row, v, k) == Sum(RowProducts(row, v, k), L)

LEMMA RowTimesType ==
  ASSUME NEW row \in [Column -> Polynomials], NEW v \in [Column -> Polynomials], NEW k \in Index
  PROVE  /\ \A j \in 0 .. L - 1 : /\ RowProducts(row, v, k)[j] \in 0 .. Q - 1
                                 /\ RowProducts(row, v, k)[j] \in Int
         /\ RowTimes(row, v, k) \in Int
<1>1. \A j \in 0 .. L - 1 : RowProducts(row, v, k)[j] \in 0 .. Q - 1
  <2> SUFFICES ASSUME NEW j \in 0 .. L - 1 PROVE RowProducts(row, v, k)[j] \in 0 .. Q - 1
    OBVIOUS
  <2>1. j \in Column /\ row[j] \in Polynomials /\ v[j] \in Polynomials
    BY Dimensions
  <2>2. Product(row[j], v[j])[k] \in 0 .. Q - 1
    BY <2>1, ProductIsConv
  <2> QED
    BY <2>1, <2>2 DEF RowProducts
<1>2. \A j \in 0 .. L - 1 : RowProducts(row, v, k)[j] \in Int
  BY <1>1, Dimensions
<1>3. Sum(RowProducts(row, v, k), L) \in Int
  BY <1>2, SumOfIntegers, Dimensions
<1> QED
  BY <1>1, <1>2, <1>3 DEF RowTimes

\* c times the sum of polynomials is the sum of the products.
LEMMA ConvOfSum ==
  ASSUME NEW c \in Polynomials, NEW p \in [Column -> Polynomials], NEW w \in Polynomials,
         \A i \in Index : w[i] = Sum([j \in Column |-> p[j][i]], L),
         NEW k \in Index
  PROVE  Sum([j \in Column |-> Conv(c, p[j], k)], L) = Conv(c, w, k)
<1> DEFINE f == [j \in 0 .. L - 1 |-> Terms(c, p[j], k)]
           h == [j \in Column |-> Conv(c, p[j], k)]
<1>1. k \in Int /\ -N <= k /\ k < N
  BY Dimensions
<1>2. \A j \in 0 .. L - 1 : p[j] \in Polynomials
  BY Dimensions
<1>3. \A j \in 0 .. L - 1, i \in 0 .. N - 1 : f[j][i] \in Int
  BY <1>1, <1>2, ConvType
<1>4. Sum(ByRows(f, L, N), L) = Sum(h, L)
  <2>1. ASSUME NEW j \in 0 .. L - 1
        PROVE  h[j] \in Int /\ ByRows(f, L, N)[j] = h[j]
    <3>1. j \in Column /\ p[j] \in Polynomials
      BY Dimensions
    <3>2. Conv(c, p[j], k) \in Int
      BY <1>1, <3>1, ConvType
    <3>3. h[j] = Conv(c, p[j], k) /\ ByRows(f, L, N)[j] = Conv(c, p[j], k)
      BY <3>1 DEF ByRows, Conv
    <3> QED
      BY <3>2, <3>3
  <2> HIDE DEF f, h
  <2> QED
    BY <2>1, SumOfSame, Dimensions
<1>5. ASSUME NEW j \in Int, -N <= j, j < N
      PROVE  Wrapped(w, j) = Sum([l \in Column |-> Wrapped(p[l], j)], L)
  <2> DEFINE all == [l \in Column |-> Wrapped(p[l], j)]
             part(i) == [l \in Column |-> p[l][i]]
  <2>1. CASE j >= 0
    <3>1. j \in Index
      BY <1>5, <2>1, Dimensions
    <3>2. all = part(j)
      BY <2>1 DEF Wrapped
    <3> QED
      BY <2>1, <3>1, <3>2 DEF Wrapped
  <2>2. CASE ~ (j >= 0)
    <3> DEFINE i == N + j
               g == part(i)
    <3>1. i \in Index
      BY <1>5, <2>2, Dimensions
    <3>2. Wrapped(w, j) = -Sum(g, L)
      BY <1>5, <2>2, <3>1 DEF Wrapped
    <3>3. \A l \in 0 .. L - 1 : g[l] \in Int /\ all[l] = -g[l]
      <4> SUFFICES ASSUME NEW l \in 0 .. L - 1 PROVE g[l] \in Int /\ all[l] = -g[l]
        OBVIOUS
      <4>1. l \in Column /\ p[l] \in Polynomials
        BY Dimensions
      <4>2. p[l][i] \in Int
        BY <3>1, <4>1 DEF Polynomials
      <4> QED
        BY <1>5, <2>2, <4>1, <4>2 DEF Wrapped
    <3> HIDE DEF g, all
    <3>4. \A l \in 0 .. L - 1 : g[l] \in Int
      BY <3>3
    <3>5. \A l \in 0 .. L - 1 : all[l] = (-1) * g[l]
      BY <3>3
    <3>6. Sum(all, L) = (-1) * Sum(g, L)
      BY <3>4, <3>5, SumTimes, Dimensions
    <3>7. Sum(g, L) \in Int
      BY <3>4, SumOfIntegers, Dimensions
    <3> QED
      BY <3>2, <3>6, <3>7 DEF all
  <2> QED
    BY <2>1, <2>2
<1>6. ASSUME NEW i \in 0 .. N - 1
      PROVE  ByColumns(f, L, N)[i] = Terms(c, w, k)[i] /\ Terms(c, w, k)[i] \in Int
  <2>1. k - i \in Int /\ -N <= k - i /\ k - i < N /\ c[i] \in Int
    BY Dimensions DEF Polynomials
  <2> DEFINE g == [l \in Column |-> Wrapped(p[l], k - i)]
             s == Crossed(f, L, i)
  <2>2. ASSUME NEW l \in 0 .. L - 1 PROVE g[l] \in Int /\ s[l] = c[i] * g[l]
    <3>1. l \in Column /\ p[l] \in Polynomials
      BY Dimensions
    <3>2. Wrapped(p[l], k - i) \in Int
      BY <1>1, <3>1, ConvType
    <3>3. s[l] = c[i] * Wrapped(p[l], k - i)
      BY DEF Crossed, Terms
    <3> QED
      BY <3>1, <3>2, <3>3
  <2>3. Wrapped(w, k - i) = Sum(g, L)
    BY <2>1, <1>5
  <2>4. ByColumns(f, L, N)[i] = Sum(s, L)
    BY DEF ByColumns
  <2> HIDE DEF g, s
  <2>5. \A l \in 0 .. L - 1 : g[l] \in Int
    BY <2>2
  <2>6. \A l \in 0 .. L - 1 : s[l] = c[i] * g[l]
    BY <2>2
  <2>7. Sum(s, L) = c[i] * Sum(g, L)
    <3>1. c[i] \in Int /\ L \in Nat
      BY <2>1, Dimensions
    <3> QED
      BY <3>1, <2>5, <2>6, SumTimes
  <2>8. Terms(c, w, k)[i] = c[i] * Wrapped(w, k - i) /\ Terms(c, w, k)[i] \in Int
    BY <1>1, ConvType
  <2> QED
    BY <2>3, <2>4, <2>7, <2>8
<1>7. Sum(ByColumns(f, L, N), N) = Sum(Terms(c, w, k), N)
  <2> HIDE DEF f
  <2> QED
    BY <1>6, SumOfSame, Dimensions
<1>8. Sum(ByRows(f, L, N), L) = Sum(ByColumns(f, L, N), N)
  <2> HIDE DEF f
  <2> QED
    BY <1>3, SumsExchange, Dimensions
<1> QED
  BY <1>4, <1>7, <1>8 DEF Conv

\* What the verifier's matrix makes of the response: with z = y + c s modulo Q,
\* A z is A y and c times A s.
LEMMA RowOfResponse ==
  ASSUME NEW row \in [Column -> Polynomials], NEW c \in Polynomials,
         NEW x \in [Column -> Polynomials], NEW v \in [Column -> Polynomials],
         NEW s \in [Column -> Polynomials], NEW u \in Polynomials,
         \A j \in Column, i \in Index : Same(x[j][i], v[j][i] + Product(c, s[j])[i]),
         \A i \in Index : Same(u[i], RowTimes(row, s, i)),
         NEW k \in Index
  PROVE  Same(RowTimes(row, x, k), RowTimes(row, v, k) + Product(c, u)[k])
<1> DEFINE h == RowProducts(row, x, k)
           f == RowProducts(row, v, k)
           p == [j \in Column |-> Product(row[j], s[j])]
           g == [j \in Column |-> Conv(c, p[j], k)]
           w == [i \in Index |-> RowTimes(row, s, i)]
<1>1. k \in Int /\ -N <= k /\ k < N
  BY Dimensions
<1>2. p \in [Column -> Polynomials] /\ w \in Polynomials
  <2>1. \A j \in Column : Product(row[j], s[j]) \in Polynomials
    BY ProductType
  <2>2. \A i \in Index : RowTimes(row, s, i) \in Int
    BY RowTimesType
  <2> QED
    BY <2>1, <2>2 DEF Polynomials
<1>3. \A j \in 0 .. L - 1 : f[j] \in Int /\ g[j] \in Int /\ h[j] \in Int
  <2>1. \A j \in 0 .. L - 1 : f[j] \in Int /\ h[j] \in Int
    BY RowTimesType
  <2>2. ASSUME NEW j \in 0 .. L - 1 PROVE g[j] \in Int
    <3>1. j \in Column /\ p[j] \in Polynomials
      BY <1>2, Dimensions
    <3> HIDE DEF p
    <3>2. Conv(c, p[j], k) \in Int
      BY <1>1, <3>1, ConvType
    <3> QED
      BY <3>1, <3>2
  <2> QED
    BY <2>1, <2>2
<1>4. ASSUME NEW j \in 0 .. L - 1 PROVE Same(h[j], f[j] + 1 * g[j])
  <2> DEFINE r == row[j]
             cs == Product(c, s[j])
             rs == Product(r, s[j])
  <2>1. j \in Column /\ r \in Polynomials /\ x[j] \in Polynomials /\ v[j] \in Polynomials
        /\ s[j] \in Polynomials
    BY Dimensions
  <2>2. cs \in Polynomials /\ rs \in Polynomials
    BY <2>1, ProductType
  <2>3. h[j] = Product(r, x[j])[k] /\ f[j] = Product(r, v[j])[k] /\ g[j] = Conv(c, rs, k)
    BY <2>1 DEF RowProducts
  <2>4. \A i \in Index : Same(x[j][i], v[j][i] + 1 * cs[i])
    <3>1. \A i \in Index : cs[i] \in Int
      BY <2>2 DEF Polynomials
    <3>2. \A i \in Index : 1 * cs[i] = cs[i]
      BY <3>1
    <3>3. \A i \in Index : Same(x[j][i], v[j][i] + cs[i])
      BY <2>1
    <3> HIDE DEF cs
    <3> QED
      BY <3>2, <3>3
  <2>5. Same(Conv(r, cs, k), Conv(c, rs, k))
    BY <2>1, ProductsExchange
  <2> HIDE DEF r, cs, rs, h, f, g
  <2>6. Same(Conv(r, x[j], k), Conv(r, v[j], k) + 1 * Conv(r, cs, k))
    <3> DEFINE b == x[j]
               e == v[j]
    <3>1. b \in Polynomials /\ e \in Polynomials /\ r \in Polynomials /\ cs \in Polynomials /\ 1 \in Int
      BY <2>1, <2>2
    <3>2. \A i \in Index : Same(b[i], e[i] + 1 * cs[i])
      BY <2>4
    <3> HIDE DEF b, e
    <3>3. Same(Conv(r, b, k), Conv(r, e, k) + 1 * Conv(r, cs, k))
      BY <1>1, <3>1, <3>2, ConvIsLinear
    <3> QED
      BY <3>3 DEF b, e
  <2>7. /\ Conv(r, x[j], k) \in Int /\ Conv(r, v[j], k) \in Int /\ Conv(r, cs, k) \in Int
        /\ Conv(c, rs, k) \in Int
    BY <1>1, <2>1, <2>2, ConvType
  <2>8. Same(h[j], Conv(r, x[j], k)) /\ Same(f[j], Conv(r, v[j], k))
    BY <2>1, <2>3, ProductIsConv
  <2>9. Same(Conv(r, v[j], k) + Conv(r, cs, k), f[j] + g[j])
    <3>1. Same(Conv(r, v[j], k), f[j])
      BY <1>3, <2>7, <2>8, SameBack
    <3>2. Same(Conv(r, cs, k), g[j])
      BY <2>3, <2>5
    <3> QED
      BY <3>1, <3>2, <1>3, <2>7, SamePlus
  <2>10. Same(h[j], Conv(r, v[j], k) + Conv(r, cs, k))
    <3>1. 1 * Conv(r, cs, k) = Conv(r, cs, k)
      BY <2>7
    <3>2. Conv(r, v[j], k) + Conv(r, cs, k) \in Int
      BY <2>7
    <3> QED
      BY <3>1, <3>2, <2>6, <2>7, <2>8, <1>3, SameThen
  <2>11. Conv(r, v[j], k) + Conv(r, cs, k) \in Int /\ f[j] + g[j] \in Int /\ h[j] \in Int
         /\ f[j] + g[j] = f[j] + 1 * g[j]
    BY <2>7, <1>3
  <2> QED
    BY <2>9, <2>10, <2>11, SameThen
<1>5. Same(Sum(h, L), Sum(f, L) + 1 * Sum(g, L))
  <2> HIDE DEF h, f, g
  <2>1. L \in Nat /\ 1 \in Int
    BY Dimensions
  <2>2. \A j \in 0 .. L - 1 : Same(h[j], f[j] + 1 * g[j])
    BY <1>4
  <2> QED
    BY <1>3, <2>1, <2>2, SumIsLinearModulo
<1>6. Sum(g, L) = Conv(c, w, k)
  <2>1. ASSUME NEW i \in Index PROVE w[i] = Sum([j \in Column |-> p[j][i]], L)
    <3>1. RowProducts(row, s, i) = [j \in Column |-> p[j][i]]
      BY DEF RowProducts
    <3> QED
      BY <3>1 DEF RowTimes
  <2> HIDE DEF p, w
  <2> QED
    BY <1>2, <2>1, ConvOfSum
<1>7. Same(Conv(c, w, k), Product(c, u)[k])
  <2>1. \A i \in Index : Same(u[i], w[i])
    OBVIOUS
  <2> HIDE DEF w
  <2>2. Same(Conv(c, u, k), Conv(c, w, k))
    BY <1>1, <1>2, <2>1, ConvSame
  <2>3. Same(Product(c, u)[k], Conv(c, u, k)) /\ Product(c, u)[k] \in 0 .. Q - 1
    BY ProductIsConv
  <2>4. Conv(c, u, k) \in Int /\ Conv(c, w, k) \in Int /\ Product(c, u)[k] \in Int
    <3>1. Conv(c, u, k) \in Int
      BY <1>1, ConvType
    <3>2. Conv(c, w, k) \in Int
      BY <1>1, <1>2, ConvType
    <3> QED
      BY <3>1, <3>2, <2>3, Dimensions
  <2>5. Same(Product(c, u)[k], Conv(c, w, k))
    BY <2>2, <2>3, <2>4, SameThen
  <2> QED
    BY <2>4, <2>5, SameBack
<1>8. /\ Sum(h, L) = RowTimes(row, x, k) /\ Sum(f, L) = RowTimes(row, v, k)
      /\ RowTimes(row, x, k) \in Int /\ RowTimes(row, v, k) \in Int
  BY RowTimesType DEF RowTimes
<1>9. Conv(c, w, k) \in Int /\ Product(c, u)[k] \in Int
  <2> HIDE DEF w
  <2>1. Conv(c, w, k) \in Int
    BY <1>1, <1>2, ConvType
  <2>2. Product(c, u)[k] \in 0 .. Q - 1
    BY ProductIsConv
  <2> QED
    BY <2>1, <2>2, Dimensions
<1> HIDE DEF h, f, g, w
<1>10. Same(RowTimes(row, x, k), RowTimes(row, v, k) + Conv(c, w, k))
  BY <1>5, <1>6, <1>8, <1>9
<1>11. Same(RowTimes(row, v, k) + Conv(c, w, k), RowTimes(row, v, k) + Product(c, u)[k])
  <2>1. Same(RowTimes(row, v, k), RowTimes(row, v, k))
    BY <1>8, SameIsCongruence
  <2> QED
    BY <2>1, <1>7, <1>8, <1>9, SamePlus
<1>12. RowTimes(row, v, k) + Conv(c, w, k) \in Int /\ RowTimes(row, v, k) + Product(c, u)[k] \in Int
  BY <1>8, <1>9
<1> QED
  BY <1>8, <1>10, <1>11, <1>12, SameThen

\* A product with a sum less another polynomial.
LEMMA ProductOfSum ==
  ASSUME NEW c \in Polynomials, NEW v \in Polynomials, NEW e \in Polynomials,
         NEW s \in Polynomials, NEW u \in Polynomials,
         \A i \in Index : u[i] = v[i] + e[i] - s[i],
         NEW k \in Index
  PROVE  /\ Product(c, v)[k] \in Int /\ Product(c, e)[k] \in Int
         /\ Product(c, s)[k] \in Int /\ Product(c, u)[k] \in Int
         /\ Same(Product(c, u)[k], Product(c, v)[k] + Product(c, e)[k] - Product(c, s)[k])
<1> DEFINE x == [i \in Index |-> v[i] + e[i]]
<1>1. k \in Int /\ -N <= k /\ k < N
  BY Dimensions
<1>2. \A i \in Index : v[i] \in Int /\ e[i] \in Int /\ s[i] \in Int /\ u[i] \in Int
  BY DEF Polynomials
<1>3. x \in Polynomials /\ \A i \in Index : x[i] = v[i] + 1 * e[i] /\ x[i] \in Int
  <2>1. \A i \in Index : v[i] + e[i] \in Int /\ v[i] + 1 * e[i] = v[i] + e[i]
    BY <1>2
  <2> QED
    BY <2>1 DEF Polynomials
<1>4. \A i \in Index : Same(x[i], v[i] + 1 * e[i])
  BY <1>3, SameIsCongruence
<1>5. \A i \in Index : Same(u[i], x[i] + (-1) * s[i])
  <2> SUFFICES ASSUME NEW i \in Index PROVE Same(u[i], x[i] + (-1) * s[i])
    OBVIOUS
  <2>1. u[i] = x[i] + (-1) * s[i]
    BY <1>2
  <2> HIDE DEF x
  <2> QED
    BY <1>2, <2>1, SameIsCongruence
<1> HIDE DEF x
<1>6. Same(Conv(c, x, k), Conv(c, v, k) + 1 * Conv(c, e, k))
  <2>1. 1 \in Int
    OBVIOUS
  <2> QED
    BY <1>1, <1>3, <1>4, <2>1, ConvIsLinear
<1>7. Same(Conv(c, u, k), Conv(c, x, k) + (-1) * Conv(c, s, k))
  <2>1. -1 \in Int
    OBVIOUS
  <2> QED
    BY <1>1, <1>3, <1>5, <2>1, ConvIsLinear
<1> DEFINE cv == Conv(c, v, k)
           ce == Conv(c, e, k)
           cs == Conv(c, s, k)
           cu == Conv(c, u, k)
           cx == Conv(c, x, k)
           pv == Product(c, v)[k]
           pe == Product(c, e)[k]
           ps == Product(c, s)[k]
           pu == Product(c, u)[k]
<1>8. cv \in Int /\ ce \in Int /\ cs \in Int /\ cu \in Int /\ cx \in Int
  BY <1>1, <1>3, ConvType
<1>9. /\ pv \in Int /\ pe \in Int /\ ps \in Int /\ pu \in Int
      /\ Same(pv, cv) /\ Same(pe, ce) /\ Same(ps, cs) /\ Same(pu, cu)
  BY ProductIsConv, Dimensions
<1>10. Same(cx, cv + 1 * ce) /\ Same(cu, cx + (-1) * cs)
  BY <1>6, <1>7
<1> HIDE DEF cv, ce, cs, cu, cx, pv, pe, ps, pu
<1>11. Same(cv + ce - cs, pv + pe - ps)
  <2>1. Same(cv, pv) /\ Same(ce, pe) /\ Same(cs, ps)
    BY <1>8, <1>9, SameBack
  <2>2. Same(cv + ce, pv + pe)
    BY <1>8, <1>9, <2>1, SamePlus
  <2>3. cv + ce \in Int /\ pv + pe \in Int
    BY <1>8, <1>9
  <2> QED
    BY <1>8, <1>9, <2>1, <2>2, <2>3, SameMinus
<1>12. Same(cu, cv + ce - cs)
  <2>1. cv + 1 * ce = cv + ce /\ cx + (-1) * cs = cx - cs /\ cv + ce \in Int /\ cx - cs \in Int
        /\ cv + ce - cs \in Int
    BY <1>8
  <2>2. Same(cx - cs, cv + ce - cs)
    <3>1. Same(cs, cs)
      BY <1>8, SameIsCongruence
    <3> QED
      BY <1>8, <1>10, <2>1, <3>1, SameMinus
  <2> QED
    BY <1>8, <1>10, <2>1, <2>2, SameThen
<1>13. cv + ce - cs \in Int /\ pv + pe - ps \in Int
  BY <1>8, <1>9
<1>14. Same(cu, pv + pe - ps)
  BY <1>8, <1>11, <1>12, <1>13, SameThen
<1>15. Same(pu, pv + pe - ps)
  BY <1>8, <1>9, <1>13, <1>14, SameThen
<1> QED
  BY <1>9, <1>15 DEF pv, pe, ps, pu

-----------------------------------------------------------------------------
(*  Coefficients  *)

\* Half the word of reduce32.
HalfWord == 2 ^ (QBits - 1)

LEMMA WidthFacts ==
  /\ \A b \in 0 .. QBits : 2 ^ b \in Nat \ {0}
  /\ D < QBits /\ 2 ^ D = 2 * 2 ^ (D - 1)
  /\ 2 ^ QBits = 2 * HalfWord /\ 2 ^ QBits = 2 ^ D * 2 ^ (QBits - D)
  /\ Q + 2 ^ (D - 1) <= 2 ^ QBits + 1
  /\ HalfWord + GAMMA1 <= Q /\ HalfWord + ETA <= Q /\ 3 * HalfWord <= 2 * Q
  /\ LET most == (L * (Q - 1) + HalfWord) \div 2 ^ QBits
     IN HalfWord + most * (2 ^ QBits - Q) + ETA <= Q
  /\ \A n \in {2 * GAMMA1 - 1, 2 * ETA} :
       \E b \in 1 .. QBits : 2 ^ (b - 1) <= n /\ n < 2 ^ b
  BY WidthAssumption DEF Fits, HalfWord

LEMMA Divided ==
  ASSUME NEW a \in Int, NEW b \in Nat, b >= 1
  PROVE  /\ a \div b \in Int /\ a % b \in Int /\ 0 <= a % b /\ a % b < b
         /\ a = b * (a \div b) + (a % b) /\ b * (a \div b) \in Int
<1>1. a \div b \in Int /\ a % b \in Int /\ 0 <= a % b /\ a % b < b /\ a = b * (a \div b) + (a % b)
  OBVIOUS
<1>2. b * (a \div b) \in Int
  BY <1>1
<1> QED
  BY <1>1, <1>2

LEMMA Widths ==
  /\ HalfWord \in Nat /\ HalfWord >= 1 /\ 2 ^ QBits = 2 * HalfWord /\ 2 ^ (QBits - 1) = HalfWord
  /\ Q <= 2 ^ QBits /\ 3 * HalfWord <= 2 * Q
  /\ HalfWord + GAMMA1 <= Q /\ HalfWord + ETA <= Q
  /\ ETA \in Nat /\ TAU \in Nat /\ GAMMA1 \in Nat /\ BETA \in Nat /\ GAMMA2 \in Nat
  /\ BETA = TAU * ETA /\ BETA < GAMMA1 /\ BETA < GAMMA2
<1>1. QBits \in Nat /\ QBits >= 1 /\ D \in Nat /\ D >= 1 /\ D < QBits
  BY RoundingAssumption, WidthFacts
<1>2. QBits - 1 \in 0 .. QBits /\ D - 1 \in 0 .. QBits
  BY <1>1
<1>3. HalfWord \in Nat \ {0} /\ 2 ^ (D - 1) \in Nat \ {0}
  BY <1>2, WidthFacts DEF HalfWord
<1>4. Q \in Nat
  BY RoundingAssumption
<1>5. 2 ^ QBits = 2 * HalfWord
  BY WidthFacts
<1>6. Q <= 2 ^ QBits
  BY <1>3, <1>4, <1>5, WidthFacts
<1>7. ETA \in Nat /\ TAU \in Nat /\ GAMMA1 \in Nat /\ GAMMA2 \in Nat
  BY SigningAssumption, RoundingAssumption
<1>8. BETA \in Nat /\ BETA = TAU * ETA
  <2>1. TAU * ETA \in Nat
    BY <1>7
  <2> QED
    BY <2>1 DEF BETA
<1> QED
  BY <1>3, <1>5, <1>6, <1>7, <1>8, WidthFacts, SigningAssumption DEF HalfWord

\* How often reduce32 subtracts Q.
Times(a) == (a + HalfWord) \div 2 ^ QBits

LEMMA Reduced ==
  ASSUME NEW a \in Int
  PROVE  /\ Times(a) \in Int
         /\ 2 ^ QBits * Times(a) - HalfWord <= a
         /\ a < 2 ^ QBits * Times(a) + HalfWord
         /\ reduce32(a) = a - Times(a) * Q
         /\ reduce32(a) \in Int
         /\ Same(reduce32(a), a)
<1> DEFINE p == 2 ^ QBits
           m == Times(a)
           x == a + HalfWord
<1>1. p \in Nat /\ p >= 1 /\ p = 2 * HalfWord /\ HalfWord \in Nat /\ Q \in Nat
  BY Widths, Dimensions
<1>2. x \in Int /\ m = x \div p
  BY <1>1 DEF Times
<1>3. reduce32(a) = a - m * Q
  BY Widths DEF reduce32, Times
<1> HIDE DEF p, m
<1>4. m \in Int /\ p * m <= x /\ x < p * m + p
  <2> HIDE DEF x
  <2>1. /\ x \div p \in Int /\ x % p \in Int /\ 0 <= x % p /\ x % p < p
        /\ x = p * (x \div p) + (x % p) /\ p * (x \div p) \in Int
    BY <1>1, <1>2, Divided
  <2> QED
    BY <1>1, <1>2, <2>1
<1>5. p * m \in Int /\ m * Q \in Int
  BY <1>1, <1>4
<1>6. Same(reduce32(a), a)
  <2>1. Q * (-m) = -(m * Q)
    BY <1>1, <1>4
  <2>2. reduce32(a) = a + Q * (-m) /\ -m \in Int
    BY <1>3, <1>4, <1>5, <2>1
  <2> QED
    BY <2>2 DEF Same
<1> QED
  BY <1>1, <1>3, <1>4, <1>5, <1>6 DEF p, m

\* The range of what reduce32 is given, and what it leaves.
LEMMA ReducedRange ==
  ASSUME NEW a \in Int, -(Q - 1) <= a, a <= L * (Q - 1)
  PROVE  /\ -Q <= reduce32(a) /\ reduce32(a) + ETA < Q
         /\ a >= 0 => -Q <= reduce32(a) - ETA
<1> DEFINE p == 2 ^ QBits
           m == Times(a)
           H == HalfWord
           most == (L * (Q - 1) + H) \div p
           g == p - Q
<1>1. /\ p \in Nat /\ p >= 1 /\ p = 2 * H /\ H \in Nat /\ Q \in Nat /\ Q <= p /\ L \in Nat
      /\ 3 * H <= 2 * Q /\ H + ETA <= Q /\ ETA \in Nat
  BY Widths, Dimensions
<1>2. /\ m \in Int /\ p * m - H <= a /\ a < p * m + H /\ reduce32(a) = a - m * Q
  BY Reduced
<1>3. L * (Q - 1) \in Int
  BY <1>1
<1>4. H + most * g + ETA <= Q
  BY WidthFacts
<1> HIDE DEF p, m, H, g
<1>5. g \in Nat /\ g = p - Q
  BY <1>1 DEF g
<1>6. most \in Int /\ L * (Q - 1) + H < p * most + p
  <2> DEFINE x == L * (Q - 1) + H
  <2>1. x \in Int
    BY <1>1, <1>3
  <2> HIDE DEF x
  <2>2. /\ x \div p \in Int /\ x % p \in Int /\ 0 <= x % p /\ x % p < p
        /\ x = p * (x \div p) + (x % p) /\ p * (x \div p) \in Int
    BY <1>1, <2>1, Divided
  <2> QED
    BY <1>1, <2>1, <2>2 DEF x
<1> HIDE DEF most
<1>7. m <= most
  <2> SUFFICES ASSUME m >= most + 1 PROVE FALSE
    BY <1>2, <1>6
  <2>1. p * m >= p * (most + 1)
    BY <1>1, <1>2, <1>6
  <2>2. p * (most + 1) = p * most + p /\ p * most \in Int /\ p * m \in Int
    BY <1>1, <1>2, <1>6
  <2> QED
    BY <1>1, <1>2, <1>3, <1>6, <2>1, <2>2
<1>8. m >= -1
  <2> SUFFICES ASSUME m <= -2 PROVE FALSE
    BY <1>2
  <2>1. p * m <= p * (-2)
    BY <1>1, <1>2
  <2>2. p * m \in Int /\ p * (-2) = -(2 * p)
    BY <1>1, <1>2
  <2> QED
    BY <1>1, <1>2, <2>1, <2>2
<1>9. m * g <= most * g /\ m * g >= -g /\ m * g \in Int /\ most * g \in Int
      /\ (m >= 0 => m * g >= 0)
  <2>1. (most - m) * g >= 0 /\ (m + 1) * g >= 0 /\ (m >= 0 => m * g >= 0)
    BY <1>2, <1>5, <1>6, <1>7, <1>8
  <2>2. (most - m) * g = most * g - m * g /\ (m + 1) * g = m * g + g
        /\ m * g \in Int /\ most * g \in Int
    BY <1>2, <1>5, <1>6
  <2> QED
    BY <2>1, <2>2, <1>5
<1>10. a - m * Q = (a - p * m) + m * g
  <2>1. m * g = m * p - m * Q /\ m * p = p * m
    BY <1>1, <1>2, <1>5
  <2>2. m * Q \in Int /\ p * m \in Int
    BY <1>1, <1>2
  <2> QED
    BY <2>1, <2>2
<1>11. -H <= a - p * m /\ a - p * m < H /\ p * m \in Int
  <2>1. p * m \in Int
    BY <1>1, <1>2
  <2> QED
    BY <1>1, <1>2, <2>1
<1>12. a >= 0 => m >= 0
  <2> SUFFICES ASSUME a >= 0, m <= -1 PROVE FALSE
    BY <1>2
  <2>1. p * m <= p * (-1) /\ p * (-1) = -p
    BY <1>1, <1>2
  <2> QED
    BY <1>1, <1>11, <2>1
<1>13. reduce32(a) = (a - p * m) + m * g
  BY <1>2, <1>10
<1> DEFINE e == a - p * m
           f == m * g
           top == most * g
<1>14. e \in Int /\ f \in Int /\ -H <= e /\ e < H /\ f >= -g /\ f <= top /\ reduce32(a) = e + f
       /\ (a >= 0 => f >= 0) /\ top \in Int /\ H + top + ETA <= Q
  BY <1>4, <1>9, <1>11, <1>12, <1>13
<1> HIDE DEF e, f, top
<1> QED
  BY <1>1, <1>5, <1>14

\* Standard representatives.
LEMMA StandardIsUnique ==
  ASSUME NEW a \in 0 .. Q - 1, NEW b \in 0 .. Q - 1, Same(a, b)
  PROVE  a = b
<1>1. Q \in Nat /\ Q >= 1 /\ a \in Int /\ b \in Int
  BY Dimensions
<1>2. PICK d \in Int : a = b + Q * d
  BY DEF Same
<1>3. d < 1
  <2> SUFFICES ASSUME d >= 1 PROVE FALSE
    OBVIOUS
  <2>1. Q * (d - 1) >= 0 /\ Q * (d - 1) = Q * d - Q /\ Q * d \in Int
    BY <1>1
  <2> QED
    BY <1>1, <1>2, <2>1
<1>4. d > -1
  <2> SUFFICES ASSUME d <= -1 PROVE FALSE
    OBVIOUS
  <2>1. Q * (-d - 1) >= 0 /\ Q * (-d - 1) = -(Q * d) - Q /\ Q * d \in Int
    BY <1>1
  <2> QED
    BY <1>1, <1>2, <2>1
<1>5. d = 0
  BY <1>3, <1>4
<1> QED
  BY <1>1, <1>2, <1>5

LEMMA CaddqIsStandard ==
  ASSUME NEW a \in Int, -Q <= a, a < Q
  PROVE  caddq(a) \in 0 .. Q - 1 /\ Same(caddq(a), a)
<1>1. Q \in Nat
  BY Dimensions
<1>2. caddq(a) \in 0 .. Q - 1
  BY <1>1 DEF caddq
<1>3. caddq(a) = a + Q * 0 \/ caddq(a) = a + Q * 1
  BY <1>1 DEF caddq
<1> QED
  BY <1>2, <1>3 DEF Same

LEMMA StandardCoefficient ==
  ASSUME NEW a \in Int, -(Q - 1) <= a, a <= L * (Q - 1)
  PROVE  caddq(reduce32(a)) \in 0 .. Q - 1 /\ Same(caddq(reduce32(a)), a)
<1> DEFINE b == reduce32(a)
<1>1. b \in Int /\ Same(b, a)
  BY Reduced
<1>2. -Q <= b /\ b < Q
  <2>1. -Q <= b /\ b + ETA < Q /\ ETA \in Nat /\ Q \in Nat
    BY ReducedRange, Widths, Dimensions
  <2> QED
    BY <1>1, <2>1
<1> HIDE DEF b
<1>3. caddq(b) \in 0 .. Q - 1 /\ Same(caddq(b), b)
  BY <1>1, <1>2, CaddqIsStandard
<1>4. caddq(b) \in Int
  BY <1>3, Dimensions
<1>5. Same(caddq(b), a)
  BY <1>1, <1>3, <1>4, SameThen
<1> QED
  BY <1>3, <1>5 DEF b

\* The high and the low bits are the coefficient.
LEMMA Decomposed ==
  ASSUME NEW w \in 0 .. Q - 1
  PROVE  /\ decompose(w).a1 \in Int /\ 0 <= decompose(w).a1 /\ decompose(w).a1 < Highs
         /\ decompose(w).a0 \in Int /\ -GAMMA2 <= decompose(w).a0 /\ decompose(w).a0 <= GAMMA2
         /\ Same(decompose(w).a1 * ALPHA + decompose(w).a0, w)
<1> DEFINE x == w + GAMMA2 - 1
           k == x \div ALPHA
           e == w - k * ALPHA
           hi == HighBits(w)
           lo == LowBits(w, hi)
<1>1. /\ Q \in Nat /\ GAMMA2 \in Nat /\ GAMMA2 >= 1 /\ ALPHA = 2 * GAMMA2 /\ ALPHA \in Nat /\ ALPHA >= 1
      /\ Highs \in Nat /\ Q = Highs * ALPHA + 1 /\ w \in Int /\ Highs * ALPHA \in Int
  <2>1. Highs * ALPHA \in Int
    BY Parameters
  <2> QED
    BY <2>1, Parameters
<1>2. x \in Int /\ x >= 0
  BY <1>1
<1>3. decompose(w).a1 = hi /\ decompose(w).a0 = lo
  BY DEF decompose
<1> HIDE DEF x
<1>4. k \in Int /\ k * ALPHA <= x /\ x < k * ALPHA + ALPHA /\ k * ALPHA \in Int
  <2> DEFINE b == ALPHA
             d == x \div b
             r == x % b
  <2>1. /\ d \in Int /\ r \in Int /\ 0 <= r /\ r < b
        /\ x = b * d + r /\ b * d \in Int
    BY <1>1, <1>2, Divided
  <2>2. d = k
    OBVIOUS
  <2> HIDE DEF d, r, k
  <2>3. b * d = k * b /\ k * b \in Int
    BY <1>1, <2>1, <2>2
  <2> QED
    BY <1>1, <1>2, <2>1, <2>2, <2>3
<1> HIDE DEF k
<1>5. e \in Int /\ -GAMMA2 < e /\ e <= GAMMA2 /\ w = k * ALPHA + e
  BY <1>1, <1>4 DEF x
<1> HIDE DEF e
<1>6. 0 <= k
  <2> SUFFICES ASSUME k <= -1 PROVE FALSE
    BY <1>4
  <2>1. (-1 - k) * ALPHA >= 0 /\ (-1 - k) * ALPHA = -ALPHA - k * ALPHA
    BY <1>1, <1>4
  <2> QED
    BY <1>1, <1>2, <1>4, <2>1
<1>7. k <= Highs
  <2> SUFFICES ASSUME k >= Highs + 1 PROVE FALSE
    BY <1>1, <1>4
  <2>1. (k - (Highs + 1)) * ALPHA >= 0
    BY <1>1, <1>4
  <2>2. (k - (Highs + 1)) * ALPHA = k * ALPHA - Highs * ALPHA - ALPHA
    BY <1>1, <1>4
  <2> QED
    BY <1>1, <1>4, <2>1, <2>2 DEF x
<1>8. Highs >= 1
  BY SigningAssumption, Widths, <1>1, Dimensions
<1>9. CASE k < Highs
  <2>1. hi = k /\ lo = e
    BY <1>4, <1>5, <1>6, <1>7, <1>8, <1>9, Decomposition
  <2>2. Same(w, w)
    BY <1>1, SameIsCongruence
  <2> HIDE DEF hi, lo
  <2>3. hi * ALPHA + lo = w
    BY <1>5, <2>1
  <2> QED
    BY <1>3, <1>4, <1>5, <1>6, <1>9, <1>1, <2>1, <2>2, <2>3
<1>10. CASE k = Highs
  <2>1. HighBits(Highs * ALPHA + e) = 0 /\ LowBits(Highs * ALPHA + e, 0) = e - 1
    BY <1>5, <1>8, LastInterval
  <2>2. w = Highs * ALPHA + e
    BY <1>5, <1>10
  <2>3. hi = 0 /\ lo = e - 1
    BY <2>1, <2>2
  <2>4. w = (e - 1) + Q * 1
    BY <1>1, <1>5, <2>2
  <2>5. Same(w, e - 1)
    BY <2>4 DEF Same
  <2>6. Same(e - 1, w)
    <3>1. e - 1 \in Int
      BY <1>5
    <3> QED
      BY <1>1, <2>5, <3>1, SameBack
  <2>7. 0 * ALPHA + (e - 1) = e - 1
    BY <1>1, <1>5
  <2> HIDE DEF hi, lo
  <2> QED
    BY <1>1, <1>3, <1>5, <1>8, <2>3, <2>6, <2>7
<1> QED
  BY <1>4, <1>7, <1>1, <1>9, <1>10

\* A correction v of the low bits of w by d, and the coefficient r that is off
\* by the same: the hint made of v and the high bits of w leads back to them, and
\* none is needed when v stays inside the interval.
LEMMA HintOfCorrection ==
  ASSUME NEW w \in 0 .. Q - 1, NEW v \in Int, -ALPHA < v, v < ALPHA, NEW d \in Int,
         Same(v, decompose(w).a0 + d), NEW r \in 0 .. Q - 1, Same(r, w + d)
  PROVE  /\ use_hint(r, make_hint(v, decompose(w).a1)) = decompose(w).a1
         /\ -GAMMA2 < v /\ v < GAMMA2 => decompose(r).a1 = decompose(w).a1
<1> DEFINE hi == decompose(w).a1
           lo == decompose(w).a0
           x == hi * ALPHA + v
<1>1. /\ hi \in Int /\ 0 <= hi /\ hi < Highs /\ lo \in Int /\ Same(hi * ALPHA + lo, w)
  BY Decomposed
<1>2. /\ Q \in Nat /\ ALPHA \in Nat /\ ALPHA >= 2 /\ Highs \in Nat /\ Q = Highs * ALPHA + 1
      /\ w \in Int /\ r \in Int
  BY Parameters
<1> HIDE DEF hi, lo
<1>3. hi * ALPHA \in Int /\ 0 <= hi * ALPHA /\ hi * ALPHA + ALPHA <= Q - 1
  <2>1. (Highs - 1 - hi) * ALPHA >= 0
    BY <1>1, <1>2
  <2>2. (Highs - 1 - hi) * ALPHA = Highs * ALPHA - ALPHA - hi * ALPHA
    BY <1>1, <1>2
  <2>3. hi * ALPHA \in Int /\ 0 <= hi * ALPHA /\ Highs * ALPHA \in Int
    BY <1>1, <1>2
  <2> QED
    BY <1>2, <2>1, <2>2, <2>3
<1>4. x \in Int /\ -Q <= x /\ x < Q
  BY <1>2, <1>3
<1>5. caddq(x) \in 0 .. Q - 1 /\ Same(caddq(x), x)
  <2> HIDE DEF x
  <2> QED
    BY <1>4, CaddqIsStandard
<1>6. Same(x, w + d)
  <2>1. Same(hi * ALPHA + v, hi * ALPHA + (lo + d))
    <3>1. Same(hi * ALPHA, hi * ALPHA)
      BY <1>3, SameIsCongruence
    <3>2. lo + d \in Int /\ Same(v, lo + d)
      BY <1>1 DEF lo
    <3> QED
      BY <1>3, <3>1, <3>2, SamePlus
  <2>2. Same((hi * ALPHA + lo) + d, w + d)
    <3>1. Same(d, d)
      BY SameIsCongruence
    <3>2. hi * ALPHA + lo \in Int
      BY <1>1, <1>3
    <3> QED
      BY <1>1, <1>2, <3>1, <3>2, SamePlus
  <2>3. hi * ALPHA + (lo + d) = (hi * ALPHA + lo) + d /\ hi * ALPHA + (lo + d) \in Int /\ w + d \in Int
    BY <1>1, <1>2, <1>3
  <2> QED
    BY <1>4, <2>1, <2>2, <2>3, SameThen
<1>7. r = caddq(x)
  <2>1. caddq(x) \in Int /\ w + d \in Int
    BY <1>2, <1>5
  <2>2. Same(caddq(x), w + d)
    BY <1>4, <1>5, <1>6, <2>1, SameThen
  <2>3. Same(w + d, r)
    BY <1>2, <2>1, SameBack
  <2>4. Same(caddq(x), r)
    BY <1>2, <2>1, <2>2, <2>3, SameThen
  <2> QED
    BY <1>5, <2>4, StandardIsUnique
<1>8. use_hint(caddq(hi * ALPHA + v), make_hint(v, hi)) = hi
  BY <1>1, <1>2, HintRecoversHighBits
<1>9. use_hint(r, make_hint(v, hi)) = hi
  BY <1>7, <1>8
<1>10. ASSUME -GAMMA2 < v, v < GAMMA2 PROVE decompose(r).a1 = hi
  <2>1. make_hint(v, hi) = 0
    BY <1>10, Parameters DEF make_hint
  <2>2. use_hint(r, 0) = decompose(r).a1
    BY DEF use_hint
  <2> QED
    BY <1>9, <2>1, <2>2
<1> QED
  BY <1>9, <1>10 DEF hi

-----------------------------------------------------------------------------
(*  Fields  *)

LEMMA RemainderIsItself ==
  ASSUME NEW x \in Int, NEW p \in Nat, 0 <= x, x < p
  PROVE  x % p = x
  OBVIOUS

LEMMA FieldIsRead ==
  ASSUME NEW S, NEW v \in [S -> Polynomials], NEW from \in Int, NEW width,
         2 ^ width \in Nat,
         \A r \in S, k \in Index : 0 <= from - v[r][k] /\ from - v[r][k] < 2 ^ width
  PROVE  UnField(from, Field(from, width, v)) = v
<1> DEFINE f == Field(from, width, v)
           u == UnField(from, f)
<1>1. f = [r \in S |-> [k \in Index |-> (from - v[r][k]) % 2 ^ width]]
  BY DEF Field, Map
<1>2. u = [r \in S |-> [k \in Index |-> from - ((from - v[r][k]) % 2 ^ width)]]
  BY <1>1 DEF UnField, Map
<1>3. ASSUME NEW r \in S, NEW k \in Index
      PROVE  from - ((from - v[r][k]) % 2 ^ width) = v[r][k]
  <2>1. v[r][k] \in Int
    BY DEF Polynomials
  <2> DEFINE x == from - v[r][k]
  <2>2. x \in Int /\ 0 <= x /\ x < 2 ^ width
    BY <2>1
  <2> HIDE DEF x
  <2>3. x % 2 ^ width = x
    BY <2>2, RemainderIsItself
  <2> QED
    BY <2>1, <2>3 DEF x
<1> HIDE DEF u, f
<1>4. \A r \in S : u[r] = v[r]
  <2> SUFFICES ASSUME NEW r \in S PROVE u[r] = v[r]
    OBVIOUS
  <2>1. u[r] = [k \in Index |-> from - ((from - v[r][k]) % 2 ^ width)]
    BY <1>2
  <2>2. \A k \in Index : u[r][k] = v[r][k]
    BY <1>3, <2>1
  <2>3. v[r] \in [Index -> Int] /\ u[r] = [k \in Index |-> u[r][k]]
    BY <2>1 DEF Polynomials
  <2> QED
    BY <2>2, <2>3
<1>5. u = [r \in S |-> u[r]] /\ v = [r \in S |-> v[r]]
  BY <1>2
<1>6. u = v
  BY <1>4, <1>5
<1> QED
  BY <1>6 DEF u, f

LEMMA BitsSuffice ==
  ASSUME NEW n \in {2 * GAMMA1 - 1, 2 * ETA}
  PROVE  2 ^ BitsFor(n) \in Nat /\ n < 2 ^ BitsFor(n)
<1>1. \E b \in 1 .. QBits : 2 ^ (b - 1) <= n /\ n < 2 ^ b
  BY WidthFacts
<1>2. BitsFor(n) \in 1 .. QBits /\ n < 2 ^ BitsFor(n)
  BY <1>1 DEF BitsFor
<1>3. BitsFor(n) \in 0 .. QBits
  BY <1>2, RoundingAssumption
<1>4. 2 ^ BitsFor(n) \in Nat
  BY <1>3, WidthFacts
<1> QED
  BY <1>2, <1>4

\* The two parts of a coefficient of t, for all parameters.
LEMMA TwoParts ==
  ASSUME NEW a \in 0 .. Q - 1
  PROVE  LET x == power2round(a)
             h == 2 ^ (D - 1)
         IN  /\ x.a1 \in Int /\ 0 <= x.a1 /\ x.a1 < 2 ^ (QBits - D)
             /\ x.a0 \in Int /\ 0 <= h - x.a0 /\ h - x.a0 < 2 ^ D
             /\ x.a1 * 2 ^ D + x.a0 = a
<1> DEFINE h == 2 ^ (D - 1)
           p == 2 ^ D
           u == 2 ^ (QBits - D)
           x == a + h - 1
           a1 == x \div p
           a0 == a - a1 * p
<1>1. /\ Q \in Nat /\ a \in Int /\ h \in Nat /\ h >= 1 /\ p = 2 * h /\ u \in Nat
      /\ Q + h <= p * u + 1
  <2>1. QBits \in Nat /\ D \in Nat /\ D >= 1 /\ D < QBits
    BY RoundingAssumption, WidthFacts
  <2>2. D - 1 \in 0 .. QBits /\ QBits - D \in 0 .. QBits
    BY <2>1
  <2>3. h \in Nat \ {0} /\ u \in Nat \ {0}
    BY <2>2, WidthFacts
  <2>4. p = 2 * h /\ 2 ^ QBits = p * u /\ Q + h <= 2 ^ QBits + 1
    BY WidthFacts
  <2> QED
    BY <2>3, <2>4, Dimensions
<1>2. power2round(a).a1 = a1 /\ power2round(a).a0 = a0
  BY DEF power2round
<1> HIDE DEF h, p, u
<1>3. x \in Int /\ 0 <= x /\ x < p * u /\ p \in Nat /\ p >= 1 /\ p * u \in Int
  <2>1. p \in Nat /\ p >= 1
    BY <1>1
  <2>2. p * u \in Int
    BY <1>1, <2>1
  <2> QED
    BY <1>1, <2>1, <2>2
<1>4. a1 \in Int /\ p * a1 <= x /\ x < p * a1 + p /\ p * a1 \in Int
  <2> DEFINE e == x % p
  <2>1. a1 \in Int /\ e \in Int /\ 0 <= e /\ e < p /\ x = p * a1 + e /\ p * a1 \in Int
    <3> HIDE DEF x
    <3> QED
      BY <1>3, Divided
  <2> HIDE DEF a1, e, x
  <2> QED
    BY <1>3, <2>1
<1> HIDE DEF a1
<1>5. 0 <= a1
  <2> SUFFICES ASSUME a1 <= -1 PROVE FALSE
    BY <1>4
  <2>1. p * (-1 - a1) >= 0 /\ p * (-1 - a1) = -p - p * a1
    BY <1>3, <1>4
  <2> HIDE DEF x
  <2> QED
    BY <1>3, <1>4, <2>1
<1>6. a1 < u
  <2> SUFFICES ASSUME a1 >= u PROVE FALSE
    BY <1>1, <1>4
  <2>1. p * (a1 - u) >= 0 /\ p * (a1 - u) = p * a1 - p * u
    BY <1>1, <1>3, <1>4
  <2> HIDE DEF x
  <2> QED
    BY <1>3, <1>4, <2>1
<1>7. a1 * p = p * a1
  BY <1>3, <1>4
<1>8. a0 \in Int /\ 0 <= h - a0 /\ h - a0 < p /\ a1 * p + a0 = a
  BY <1>1, <1>3, <1>4, <1>7
<1> QED
  BY <1>2, <1>4, <1>5, <1>6, <1>8 DEF h, p, u

\* Sums of terms between 0 and b.
LEMMA SumBetween ==
  ASSUME NEW n \in Nat, NEW b \in Nat, NEW f,
         \A i \in 0 .. n - 1 : f[i] \in Int /\ 0 <= f[i] /\ f[i] <= b
  PROVE  Sum(f, n) \in Int /\ 0 <= Sum(f, n) /\ Sum(f, n) <= n * b
<1>0. \A i \in 0 .. n - 1 : f[i] \in Int
  OBVIOUS
<1>1. PICK s : IsSum(s, f, n)
  BY <1>0, SumExists
<1>2. Sum(f, n) = s[n]
  BY <1>1, SumIsLast
<1> DEFINE T == {m \in Nat : m <= n => s[m] \in Int /\ 0 <= s[m] /\ s[m] <= m * b}
<1>3. 0 \in T
  BY <1>1 DEF IsSum
<1>4. ASSUME NEW m \in T PROVE m + 1 \in T
  <2> SUFFICES ASSUME m + 1 <= n
               PROVE  s[m + 1] \in Int /\ 0 <= s[m + 1] /\ s[m + 1] <= (m + 1) * b
    OBVIOUS
  <2>1. m \in Nat /\ m \in 0 .. n - 1 /\ s[m] \in Int /\ 0 <= s[m] /\ s[m] <= m * b
    OBVIOUS
  <2>2. s[m + 1] = s[m] + f[m] /\ f[m] \in Int /\ 0 <= f[m] /\ f[m] <= b
    BY <1>1, <2>1 DEF IsSum
  <2>3. (m + 1) * b = m * b + b /\ m * b \in Int
    BY <2>1
  <2> QED
    BY <2>1, <2>2, <2>3
<1>5. T \subseteq Nat
  OBVIOUS
<1>6. n \in T
  <2> HIDE DEF T
  <2> QED
    BY <1>3, <1>4, <1>5, SetInduction
<1> QED
  BY <1>2, <1>6

LEMMA RowTimesRange ==
  ASSUME NEW row \in [Column -> Polynomials], NEW v \in [Column -> Polynomials], NEW k \in Index
  PROVE  /\ RowTimes(row, v, k) \in Int
         /\ 0 <= RowTimes(row, v, k) /\ RowTimes(row, v, k) <= L * (Q - 1)
<1> DEFINE f == RowProducts(row, v, k)
<1>1. \A j \in 0 .. L - 1 : f[j] \in Int /\ 0 <= f[j] /\ f[j] <= Q - 1
  <2>1. \A j \in 0 .. L - 1 : f[j] \in 0 .. Q - 1
    BY RowTimesType
  <2> HIDE DEF f
  <2> QED
    BY <2>1, Dimensions
<1>2. L \in Nat /\ Q - 1 \in Nat
  BY Dimensions
<1> HIDE DEF f
<1>3. Sum(f, L) \in Int /\ 0 <= Sum(f, L) /\ Sum(f, L) <= L * (Q - 1)
  BY <1>1, <1>2, SumBetween
<1> QED
  BY <1>3 DEF RowTimes, f

LEMMA MatrixRows ==
  ASSUME NEW mat, NEW v
  PROVE  matrix_pointwise(mat, v) = [r \in Row |-> [k \in Index |-> RowTimes(mat[r], v, k)]]
  BY DEF matrix_pointwise, RowTimes, RowProducts

-----------------------------------------------------------------------------
(*  The nonces of the signing loop  *)

\* The counter has the turns modulo the word, and the sampler was given the first
\* L * turns nonces, one after the other, each modulo the word.
NoncesInOrder ==
  /\ turns \in Nat
  /\ nonce = turns % Word
  /\ used = {n % Word : n \in 0 .. L * turns - 1}

LEMMA Sizes == L \in Nat /\ L >= 1 /\ Word \in Nat /\ Word >= 1
BY SigningAssumption

\* Remainders: a multiple of the word more or less does not change them.
LEMMA WordsDropped ==
  ASSUME NEW a \in Int, NEW d \in Int
  PROVE  (a + Word * d) % Word = a % Word
<1> DEFINE w == Word
           e == a \div w
<1>1. w \in Nat /\ w >= 1
  BY Sizes
<1>2. a % w \in Int /\ 0 <= a % w /\ a % w < w /\ e \in Int /\ a = w * e + (a % w)
  BY <1>1, Divided
<1> HIDE DEF w, e
<1> DEFINE r == a % w
<1>3. \A m \in Int, x \in Int : 0 <= x /\ x < w => (w * m + x) % w = x
  BY <1>1
<1> HIDE DEF r
<1>4. r \in Int /\ 0 <= r /\ r < w /\ e + d \in Int /\ a + w * d = w * (e + d) + r
  BY <1>1, <1>2 DEF r
<1>5. (w * (e + d) + r) % w = r
  BY <1>3, <1>4
<1> QED
  BY <1>4, <1>5 DEF r, w

\* The counter wraps as the nonces do.
LEMMA NonceOfTurn ==
  ASSUME NEW n \in Nat, NEW i \in Nat
  PROVE  /\ ((n % Word) + 1) % Word = (n + 1) % Word
         /\ MaskNonce(n % Word, i) % Word = (L * n + i) % Word
<1> DEFINE w == Word
           e == n \div w
           r == n % w
<1>1. w \in Nat /\ w >= 1 /\ L \in Nat
  BY Sizes
<1>2. r \in Int /\ e \in Int /\ n = r + w * e
  BY <1>1, Divided
<1> HIDE DEF w, e, r
<1>3. n + 1 = (r + 1) + w * e
  BY <1>1, <1>2
<1>4. ((r + 1) + w * e) % w = (r + 1) % w
  BY <1>2, WordsDropped DEF w
<1>5. L * n + i = (L * r + i) + w * (L * e)
  <2>1. L * (r + w * e) = L * r + w * (L * e)
    BY <1>1, <1>2
  <2> QED
    BY <1>1, <1>2, <2>1
<1>6. L * r + i \in Int /\ L * e \in Int
  BY <1>1, <1>2
<1>7. ((L * r + i) + w * (L * e)) % w = (L * r + i) % w
  BY <1>6, WordsDropped DEF w
<1>8. (r + 1) % w = (n + 1) % w
  BY <1>3, <1>4
<1>9. (L * r + i) % w = (L * n + i) % w
  BY <1>5, <1>7
<1> QED
  BY <1>8, <1>9 DEF MaskNonce, w, r

\* One turn: its nonces follow the ones before.
LEMMA OneTurn ==
  ASSUME NEW n \in Nat
  PROVE  {MaskNonce(n % Word, i) % Word : i \in Column} = {x % Word : x \in L * n .. L * (n + 1) - 1}
<1> DEFINE at(i) == MaskNonce(n % Word, i) % Word
           rem(x) == x % Word
<1>1. L * n \in Nat /\ L * (n + 1) = L * n + L /\ L \in Nat
  BY Sizes
<1>2. \A i \in Column : i \in Nat /\ at(i) = rem(L * n + i)
  <2> SUFFICES ASSUME NEW i \in Column PROVE i \in Nat /\ at(i) = rem(L * n + i)
    OBVIOUS
  <2>1. i \in Nat
    BY <1>1 DEF Column
  <2> QED
    BY <2>1, NonceOfTurn
<1>3. \A x : x \in L * n .. L * (n + 1) - 1 => x - L * n \in Column /\ x = L * n + (x - L * n)
  BY <1>1 DEF Column
<1>4. \A i \in Column : L * n + i \in L * n .. L * (n + 1) - 1
  BY <1>1 DEF Column
<1> HIDE DEF at, rem
<1>5. {at(i) : i \in Column} = {rem(x) : x \in L * n .. L * (n + 1) - 1}
  BY <1>2, <1>3, <1>4
<1> QED
  BY <1>5 DEF at, rem

\* The order of the nonces is an invariant: only rej gives the sampler one, and
\* a new signature starts again from 0 with another message or another key.
THEOREM SigningNoncesInOrder == Spec => []NoncesInOrder
<1> USE Sizes
<1>1. Init => NoncesInOrder
  BY DEF Init, NoncesInOrder
<1>2. NoncesInOrder /\ [Next]_vars => NoncesInOrder'
  <2> SUFFICES ASSUME NoncesInOrder, [Next]_vars PROVE NoncesInOrder'
    OBVIOUS
  <2>1. CASE UNCHANGED <<nonce, used, turns>>
    BY <2>1 DEF NoncesInOrder
  <2>2. ASSUME NEW digest \in Mus, crypto_sign_signature_internal(digest)
        PROVE  NoncesInOrder'
    <3>1. nonce' = 0 /\ used' = {} /\ turns' = 0
      BY <2>2 DEF crypto_sign_signature_internal
    <3>2. 0 .. L * 0 - 1 = {} /\ 0 % Word = 0
      OBVIOUS
    <3> QED
      BY <3>1, <3>2 DEF NoncesInOrder
  <2>3. CASE rej
    <3> DEFINE rem(x) == x % Word
    <3>1. /\ turns \in Nat /\ nonce = turns % Word /\ turns' = turns + 1
          /\ used' = used \cup {MaskNonce(nonce, i) % Word : i \in Column}
          /\ nonce' = (nonce + 1) % Word
      BY <2>3 DEF rej, NoncesInOrder
    <3>2. used' = {rem(x) : x \in 0 .. L * turns - 1}
                    \cup {rem(x) : x \in L * turns .. L * (turns + 1) - 1}
      BY <3>1, OneTurn DEF NoncesInOrder
    <3>3. L * turns \in Nat /\ L * (turns + 1) = L * turns + L
      BY <3>1
    <3>4. 0 .. L * turns' - 1 = (0 .. L * turns - 1) \cup (L * turns .. L * (turns + 1) - 1)
      BY <3>1, <3>3
    <3>5. used' = {rem(x) : x \in 0 .. L * turns' - 1}
      <4> HIDE DEF rem
      <4> QED
        BY <3>2, <3>4
    <3>6. nonce' = turns' % Word
      BY <3>1, NonceOfTurn
    <3>7. turns' \in Nat
      BY <3>1
    <3> QED
      BY <3>5, <3>6, <3>7, Zenon DEF NoncesInOrder
  <2>4. ASSUME NEW m \in Material, crypto_sign_keypair_internal(m)
        PROVE  UNCHANGED <<nonce, used, turns>>
    BY <2>4 DEF crypto_sign_keypair_internal
  <2>5. ASSUME NEW digest \in Mus, crypto_sign_verify_internal(digest)
        PROVE  UNCHANGED <<nonce, used, turns>>
    BY <2>5 DEF crypto_sign_verify_internal
  <2>6. test_z \/ test_w0 \/ make_signature => UNCHANGED <<nonce, used, turns>>
    BY DEF test_z, test_w0, make_signature
  <2>7. UNCHANGED vars => UNCHANGED <<nonce, used, turns>>
    BY DEF vars
  <2> QED
    BY <2>1, <2>2, <2>3, <2>4, <2>5, <2>6, <2>7 DEF Next
<1> QED
  BY <1>1, <1>2, PTL DEF Spec

\* For all parameters: no two polynomials of the masks of a signature have the
\* same nonce, until every nonce of the word was used.
THEOREM SigningMasksAreFresh == Spec => []MasksAreFresh
<1>1. NoncesInOrder => MasksAreFresh
  <2> SUFFICES ASSUME NoncesInOrder
      PROVE    Cardinality(used) = IF L * turns <= Word THEN L * turns ELSE Word
    BY DEF MasksAreFresh
  <2> DEFINE m == L * turns
             rem(x) == x % Word
             most == IF m <= Word THEN m ELSE Word
             last == most - 1
  <2>1. m \in Nat /\ Word \in Nat /\ Word >= 1 /\ used = {rem(n) : n \in 0 .. m - 1}
    BY Sizes DEF NoncesInOrder
  <2> HIDE DEF m
  <2>2. \A x \in Nat : x < Word => rem(x) = x
    BY <2>1
  <2>3. \A x \in Int : rem(x) \in Int /\ 0 <= rem(x) /\ rem(x) < Word
    BY <2>1
  <2>4. used = 0 .. last
    <3> HIDE DEF rem
    <3>1. CASE m <= Word
      <4>1. \A x \in 0 .. m - 1 : rem(x) = x
        BY <2>1, <2>2, <3>1
      <4>2. used = 0 .. m - 1
        BY <2>1, <4>1
      <4> QED
        BY <3>1, <4>2
    <3>2. CASE m > Word
      <4>1. \A x \in 0 .. Word - 1 : x \in 0 .. m - 1 /\ rem(x) = x
        BY <2>1, <2>2, <3>2
      <4>2. \A x \in 0 .. m - 1 : rem(x) \in 0 .. Word - 1
        BY <2>1, <2>3
      <4>3. used = 0 .. Word - 1
        BY <2>1, <4>1, <4>2
      <4> QED
        BY <2>1, <3>2, <4>3
    <3> QED
      BY <2>1, <3>1, <3>2
  <2>5. most \in Nat /\ last \in Int /\ last = most - 1
    BY <2>1
  <2> HIDE DEF most, last, rem
  <2>6. Cardinality(0 .. last) = IF 0 > last THEN 0 ELSE last - 0 + 1
    BY <2>5, FS_Interval
  <2>7. Cardinality(0 .. last) = most
    BY <2>5, <2>6
  <2> QED
    BY <2>4, <2>7 DEF m, most
<1> QED
  BY <1>1, SigningNoncesInOrder, PTL

-----------------------------------------------------------------------------
(*  What key generation and the signing loop leave  *)

\* The key: its parts are short, and t1 2^D + t0 is A s1 + s2.
KeysAgree ==
  /\ pk.mat = sk.mat /\ sk.mat \in [Row -> [Column -> Polynomials]]
  /\ s1 \in [Column -> Between(-ETA, ETA)] /\ s2 \in [Row -> Between(-ETA, ETA)]
  /\ pk.t1 \in [Row -> Polynomials] /\ t0 \in [Row -> Polynomials]
  /\ \A r \in Row, k \in Index :
       Same(pk.t1[r][k] * 2 ^ D + t0[r][k], RowTimes(sk.mat[r], s1, k) + s2[r][k])

\* The mask, its commitment, and the challenge.
Commitment == standard(matrix_pointwise(sk.mat, y))
Committed ==
  /\ y \in [Column -> [Index -> MaskCoeffs]] /\ cp \in Challenges
  /\ w1 = high(Commitment) /\ ctilde = <<mu, w1>>

\* What the tests of the loop have let through.
ResponseIsShort ==
  z = reduce(Add(pointwise_poly(cp, s1), y)) /\ ~ chknorm(z, ZBound)
LowBitsAreShort ==
  w0 = reduce(Sub(low(Commitment), pointwise_poly(cp, s2))) /\ ~ chknorm(w0, WBound)
SignatureIsMade ==
  LET ct0 == reduce(pointwise_poly(cp, t0)) IN
  /\ ~ chknorm(ct0, GAMMA2)
  /\ sig = [c |-> ctilde, z |-> polyz_pack(z), h |-> Map2(make_hint, Add(w0, ct0), w1)]

\* What holds at each place of the loop, and what verification returned.
SigningInv ==
  /\ pc # "start" => KeysAgree
  /\ pc \in {"z", "w0", "h", "signed", "verified"} => Committed
  /\ pc \in {"z", "w0"} => w0 = low(Commitment)
  /\ pc \in {"w0", "h", "signed", "verified"} => ResponseIsShort
  /\ pc \in {"h", "signed", "verified"} => LowBitsAreShort
  /\ pc \in {"signed", "verified"} => SignatureIsMade
  /\ pc = "verified" =>
       ret = IF \/ chknorm(polyz_unpack(sig.z), GAMMA1 - BETA)
                \/ sig.c # <<asked, Map2(use_hint, Recomputed(sig), sig.h)>>
             THEN -1 ELSE 0

\* Short polynomials are polynomials.
LEMMA ShortPolynomials ==
  /\ Between(-ETA, ETA) \subseteq Polynomials
  /\ [Index -> MaskCoeffs] \subseteq Polynomials
  /\ [Index -> 0 .. Q - 1] \subseteq Polynomials
  /\ Challenges \subseteq Polynomials
<1>1. -ETA .. ETA \subseteq Int /\ MaskCoeffs \subseteq Int /\ 0 .. Q - 1 \subseteq Int
      /\ {-1, 0, 1} \subseteq Int
  BY SigningAssumption
<1>2. \A S, U : S \subseteq U => [Index -> S] \subseteq [Index -> U]
  OBVIOUS
<1> QED
  BY <1>1, <1>2 DEF Between, Polynomials, Challenges

LEMMA KeyIsMade ==
  ASSUME NEW m \in Material, crypto_sign_keypair_internal(m)
  PROVE  KeysAgree'
<1> DEFINE rt(r, k) == RowTimes(m.mat[r], m.s1, k)
           a(r, k) == caddq(reduce32(rt(r, k)) + m.s2[r][k])
           tt == Map(caddq, Add(reduce(matrix_pointwise(m.mat, m.s1)), m.s2))
           h == 2 ^ (D - 1)
<1>1. /\ m.mat \in [Row -> [Column -> Polynomials]]
      /\ m.s1 \in [Column -> Between(-ETA, ETA)] /\ m.s1 \in [Column -> Polynomials]
      /\ m.s2 \in [Row -> Between(-ETA, ETA)] /\ m.s2 \in [Row -> Polynomials]
  <2>1. /\ m.mat \in [Row -> [Column -> [Index -> 0 .. Q - 1]]]
        /\ m.s1 \in [Column -> Between(-ETA, ETA)] /\ m.s2 \in [Row -> Between(-ETA, ETA)]
    BY MaterialAssumption
  <2>2. \A S, U, V : S \subseteq U => [V -> S] \subseteq [V -> U]
    OBVIOUS
  <2>3. [Column -> [Index -> 0 .. Q - 1]] \subseteq [Column -> Polynomials]
    BY <2>2, ShortPolynomials
  <2>4. [Row -> [Column -> [Index -> 0 .. Q - 1]]] \subseteq [Row -> [Column -> Polynomials]]
    BY <2>2, <2>3
  <2>5. [Column -> Between(-ETA, ETA)] \subseteq [Column -> Polynomials]
        /\ [Row -> Between(-ETA, ETA)] \subseteq [Row -> Polynomials]
    BY <2>2, ShortPolynomials
  <2> QED
    BY <2>1, <2>4, <2>5
<1>2. tt = [r \in Row |-> [k \in Index |-> a(r, k)]]
  BY MatrixRows DEF Map, Map2, Add, reduce
<1>3. ASSUME NEW r \in Row, NEW k \in Index
      PROVE  /\ a(r, k) \in 0 .. Q - 1
             /\ rt(r, k) \in Int /\ m.s2[r][k] \in Int
             /\ Same(a(r, k), rt(r, k) + m.s2[r][k])
  <2> DEFINE c == rt(r, k)
             e == m.s2[r][k]
             b == reduce32(c)
  <2>1. c \in Int /\ 0 <= c /\ c <= L * (Q - 1)
    <3>1. m.mat[r] \in [Column -> Polynomials]
      BY <1>1
    <3> QED
      BY <1>1, <3>1, RowTimesRange
  <2>2. e \in Int /\ -ETA <= e /\ e <= ETA
    <3>1. m.s2[r] \in [Index -> -ETA .. ETA]
      BY <1>1 DEF Between
    <3>2. e \in -ETA .. ETA
      BY <3>1
    <3> QED
      BY <3>2, Widths
  <2> HIDE DEF c, e
  <2>3. b \in Int /\ Same(b, c)
    BY <2>1, Reduced
  <2>4. -Q <= b - ETA /\ b + ETA < Q
    <3>1. -(Q - 1) <= c
      BY <2>1, Dimensions
    <3> QED
      BY <2>1, <3>1, ReducedRange
  <2> HIDE DEF b
  <2>5. b + e \in Int /\ -Q <= b + e /\ b + e < Q
    BY <2>2, <2>3, <2>4, Widths, Dimensions
  <2>6. caddq(b + e) \in 0 .. Q - 1 /\ Same(caddq(b + e), b + e)
    BY <2>5, CaddqIsStandard
  <2>7. Same(b + e, c + e)
    <3>1. Same(e, e)
      BY <2>2, SameIsCongruence
    <3> QED
      BY <2>1, <2>2, <2>3, <3>1, SamePlus
  <2>8. caddq(b + e) \in Int /\ c + e \in Int
    BY <2>1, <2>2, <2>6
  <2>9. Same(caddq(b + e), c + e)
    BY <2>5, <2>6, <2>7, <2>8, SameThen
  <2> QED
    BY <2>1, <2>2, <2>6, <2>9 DEF b, c, e
<1> HIDE DEF a, rt, tt
<1> DEFINE p1 == Map(LAMBDA q : power2round(q).a1, tt)
           p0 == Map(LAMBDA q : power2round(q).a0, tt)
<1>4. /\ p1 = [r \in Row |-> [k \in Index |-> power2round(a(r, k)).a1]]
      /\ p0 = [r \in Row |-> [k \in Index |-> power2round(a(r, k)).a0]]
  BY <1>2 DEF Map
<1> HIDE DEF p1, p0
<1>5. ASSUME NEW r \in Row, NEW k \in Index
      PROVE  /\ p1[r][k] \in Int /\ 0 <= p1[r][k] /\ p1[r][k] < 2 ^ (QBits - D)
             /\ p0[r][k] \in Int /\ 0 <= h - p0[r][k] /\ h - p0[r][k] < 2 ^ D
             /\ p1[r][k] * 2 ^ D + p0[r][k] = a(r, k)
  BY <1>3, <1>4, TwoParts
<1>6. p1 \in [Row -> Polynomials] /\ p0 \in [Row -> Polynomials]
  <2>1. \A r \in Row : p1[r] \in Polynomials /\ p0[r] \in Polynomials
    <3> SUFFICES ASSUME NEW r \in Row PROVE p1[r] \in Polynomials /\ p0[r] \in Polynomials
      OBVIOUS
    <3>1. /\ p1[r] = [k \in Index |-> power2round(a(r, k)).a1]
          /\ p0[r] = [k \in Index |-> power2round(a(r, k)).a0]
      BY <1>4
    <3>2. \A k \in Index : power2round(a(r, k)).a1 \in Int /\ power2round(a(r, k)).a0 \in Int
      BY <1>3, TwoParts
    <3> QED
      BY <3>1, <3>2 DEF Polynomials
  <2> QED
    BY <1>4, <2>1
<1>7. /\ pk' = [mat |-> m.mat, t1 |-> polyt1_pack(p1)]
      /\ sk' = [mat |-> m.mat, s1 |-> polyeta_pack(m.s1), s2 |-> polyeta_pack(m.s2),
                 t0 |-> polyt0_pack(p0)]
  BY DEF crypto_sign_keypair_internal, p1, p0, tt
<1>8. polyt1_pack(p1) = p1
  <2>1. polyt1_pack(p1) = [r \in Row |-> [k \in Index |-> p1[r][k] % 2 ^ (QBits - D)]]
    BY <1>6 DEF polyt1_pack, Map
  <2>2. ASSUME NEW r \in Row PROVE [k \in Index |-> p1[r][k] % 2 ^ (QBits - D)] = p1[r]
    <3>1. QBits - D \in 0 .. QBits
      BY RoundingAssumption, WidthFacts
    <3>2. 2 ^ (QBits - D) \in Nat
      BY <3>1, WidthFacts
    <3>3. \A k \in Index : p1[r][k] % 2 ^ (QBits - D) = p1[r][k]
      BY <1>5, <3>2, RemainderIsItself
    <3>4. p1[r] \in [Index -> Int]
      BY <1>6 DEF Polynomials
    <3> QED
      BY <3>3, <3>4
  <2> QED
    BY <1>6, <2>1, <2>2
<1>9. polyeta_unpack(polyeta_pack(m.s1)) = m.s1 /\ polyeta_unpack(polyeta_pack(m.s2)) = m.s2
  <2>1. 2 ^ BitsFor(2 * ETA) \in Nat /\ 2 * ETA < 2 ^ BitsFor(2 * ETA)
    BY BitsSuffice
  <2>2. ASSUME NEW S, NEW v \in [S -> Between(-ETA, ETA)]
        PROVE  polyeta_unpack(polyeta_pack(v)) = v
    <3>1. v \in [S -> Polynomials]
      BY ShortPolynomials
    <3>2. ASSUME NEW r \in S, NEW k \in Index
          PROVE  0 <= ETA - v[r][k] /\ ETA - v[r][k] < 2 ^ BitsFor(2 * ETA)
      <4>1. v[r] \in [Index -> -ETA .. ETA]
        BY DEF Between
      <4>2. v[r][k] \in -ETA .. ETA
        BY <4>1
      <4> QED
        BY <2>1, <4>2, Widths
    <3>3. ETA \in Int
      BY Widths
    <3>4. UnField(ETA, Field(ETA, BitsFor(2 * ETA), v)) = v
      BY <2>1, <3>1, <3>2, <3>3, FieldIsRead
    <3> QED
      BY <3>4 DEF polyeta_pack, polyeta_unpack
  <2> QED
    BY <1>1, <2>2
<1>10. polyt0_unpack(polyt0_pack(p0)) = p0
  <2>1. h \in Int /\ 2 ^ D \in Nat
    <3>1. D \in 0 .. QBits /\ D - 1 \in 0 .. QBits
      BY RoundingAssumption, WidthFacts
    <3> QED
      BY <3>1, WidthFacts
  <2>2. \A r \in Row, k \in Index : 0 <= h - p0[r][k] /\ h - p0[r][k] < 2 ^ D
    BY <1>5
  <2> HIDE DEF h
  <2>3. UnField(h, Field(h, D, p0)) = p0
    BY <1>6, <2>1, <2>2, FieldIsRead
  <2> QED
    BY <2>3 DEF polyt0_pack, polyt0_unpack, h
<1>11. /\ sk'.mat = m.mat /\ pk'.mat = m.mat /\ pk'.t1 = p1
       /\ s1' = m.s1 /\ s2' = m.s2 /\ t0' = p0
  BY <1>7, <1>8, <1>9, <1>10 DEF s1, s2, t0
<1>12. \A r \in Row, k \in Index :
         Same(p1[r][k] * 2 ^ D + p0[r][k], RowTimes(m.mat[r], m.s1, k) + m.s2[r][k])
  BY <1>3, <1>5 DEF rt
<1>13. KeysAgree' = (/\ pk'.mat = sk'.mat /\ sk'.mat \in [Row -> [Column -> Polynomials]]
       /\ s1' \in [Column -> Between(-ETA, ETA)] /\ s2' \in [Row -> Between(-ETA, ETA)]
       /\ pk'.t1 \in [Row -> Polynomials] /\ t0' \in [Row -> Polynomials]
       /\ \A r \in Row, k \in Index :
           Same(pk'.t1[r][k] * 2 ^ D + t0'[r][k], RowTimes(sk'.mat[r], s1', k) + s2'[r][k]))
  BY DEF KeysAgree
<1> HIDE DEF h
<1> QED
  BY <1>1, <1>6, <1>11, <1>12, <1>13

\* What the conjuncts of the invariant read.
LEMMA KeysStay ==
  ASSUME KeysAgree, UNCHANGED <<pk, sk>>
  PROVE  KeysAgree' /\ s1' = s1 /\ s2' = s2 /\ t0' = t0
<1>1. s1' = s1 /\ s2' = s2 /\ t0' = t0
  BY DEF s1, s2, t0
<1> QED
  BY <1>1 DEF KeysAgree

LEMMA CommittedStays ==
  ASSUME Committed, UNCHANGED <<sk, mu, y, w1, ctilde, cp>>
  PROVE  Committed' /\ Commitment' = Commitment
<1>1. Commitment' = Commitment
  BY DEF Commitment
<1> QED
  BY <1>1 DEF Committed

LEMMA ResponseStays ==
  ASSUME ResponseIsShort, UNCHANGED <<sk, y, z, cp>>
  PROVE  ResponseIsShort'
<1>1. s1' = s1
  BY DEF s1
<1> QED
  BY <1>1 DEF ResponseIsShort

LEMMA LowBitsStay ==
  ASSUME LowBitsAreShort, UNCHANGED <<sk, y, w0, cp>>
  PROVE  LowBitsAreShort'
<1>1. s2' = s2 /\ Commitment' = Commitment
  BY DEF s2, Commitment
<1> QED
  BY <1>1 DEF LowBitsAreShort

LEMMA SignatureStays ==
  ASSUME SignatureIsMade, UNCHANGED <<sk, z, w0, w1, cp, ctilde, sig>>
  PROVE  SignatureIsMade'
<1>1. t0' = t0
  BY DEF t0
<1> QED
  BY <1>1 DEF SignatureIsMade

\* SigningInv is inductive: what each step of the program leaves is what the
\* later ones, in another function and without the secrets, rely on.
THEOREM SigningStepsAgree == Spec => []SigningInv
<1>1. Init => SigningInv
  BY DEF Init, SigningInv
<1>2. SigningInv /\ [Next]_vars => SigningInv'
  <2> SUFFICES ASSUME SigningInv, [Next]_vars PROVE SigningInv'
    OBVIOUS
  <2>1. ASSUME NEW m \in Material, crypto_sign_keypair_internal(m)
        PROVE  SigningInv'
    <3>1. pc' = "keys"
      BY <2>1 DEF crypto_sign_keypair_internal
    <3>2. KeysAgree'
      BY <2>1, KeyIsMade
    <3> QED
      BY <3>1, <3>2 DEF SigningInv
  <2>2. ASSUME NEW digest \in Mus, crypto_sign_signature_internal(digest)
        PROVE  SigningInv'
    <3>1. pc # "start" /\ pc' = "rej" /\ UNCHANGED <<pk, sk>>
      BY <2>2 DEF crypto_sign_signature_internal
    <3>2. KeysAgree'
      BY <3>1, KeysStay DEF SigningInv
    <3> QED
      BY <3>1, <3>2 DEF SigningInv
  <2>3. CASE rej
    <3>1. pc # "start" /\ pc' = "z" /\ UNCHANGED <<pk, sk, mu>>
      BY <2>3 DEF rej
    <3>2. KeysAgree'
      BY <3>1, KeysStay DEF SigningInv
    <3>3. Commitment' = standard(matrix_pointwise(sk.mat, y'))
      BY <3>1 DEF Commitment
    <3>4. /\ y' \in [Column -> [Index -> MaskCoeffs]] /\ cp' \in Challenges
          /\ w1' = high(Commitment') /\ w0' = low(Commitment') /\ ctilde' = <<mu', w1'>>
      BY <2>3, <3>1, <3>3 DEF rej
    <3>5. Committed'
      BY <3>4 DEF Committed
    <3> QED
      BY <3>1, <3>2, <3>4, <3>5 DEF SigningInv
  <2>4. CASE test_z
    <3>1. pc = "z" /\ UNCHANGED <<pk, sk, mu>>
      BY <2>4 DEF test_z
    <3>2. KeysAgree'
      BY <3>1, KeysStay DEF SigningInv
    <3>3. CASE pc' = "rej"
      BY <3>2, <3>3 DEF SigningInv
    <3>4. CASE pc' # "rej"
      <4>1. /\ pc' = "w0" /\ UNCHANGED <<y, w1, w0, ctilde, cp>>
            /\ z' = reduce(Add(pointwise_poly(cp, s1), y)) /\ ~ chknorm(z', ZBound)
        BY <2>4, <3>4 DEF test_z, Reject
      <4>2. Committed' /\ Commitment' = Commitment /\ w0' = low(Commitment')
        BY <3>1, <4>1, CommittedStays DEF SigningInv
      <4>3. s1' = s1
        BY <3>1 DEF s1
      <4>4. ResponseIsShort'
        BY <4>1, <4>3 DEF ResponseIsShort
      <4> QED
        BY <3>2, <4>1, <4>2, <4>4 DEF SigningInv
    <3> QED
      BY <3>3, <3>4
  <2>5. CASE test_w0
    <3>1. pc = "w0" /\ UNCHANGED <<pk, sk, mu>>
      BY <2>5 DEF test_w0
    <3>2. KeysAgree'
      BY <3>1, KeysStay DEF SigningInv
    <3>3. CASE pc' = "rej"
      BY <3>2, <3>3 DEF SigningInv
    <3>4. CASE pc' # "rej"
      <4>1. /\ pc' = "h" /\ UNCHANGED <<y, z, w1, ctilde, cp>>
            /\ w0' = reduce(Sub(w0, pointwise_poly(cp, s2)))
            /\ ~ chknorm(w0', WBound)
        BY <2>5, <3>4 DEF test_w0, Reject
      <4>2. Committed' /\ Commitment' = Commitment /\ w0 = low(Commitment)
        BY <3>1, <4>1, CommittedStays DEF SigningInv
      <4>3. ResponseIsShort'
        BY <3>1, <4>1, ResponseStays DEF SigningInv
      <4>4. s2' = s2
        BY <3>1 DEF s2
      <4>5. LowBitsAreShort'
        BY <4>1, <4>2, <4>4 DEF LowBitsAreShort, WBound
      <4> QED
        BY <3>2, <4>1, <4>2, <4>3, <4>5 DEF SigningInv
    <3> QED
      BY <3>3, <3>4
  <2>6. CASE make_signature
    <3>1. pc = "h" /\ UNCHANGED <<pk, sk, mu>>
      BY <2>6 DEF make_signature
    <3>2. KeysAgree'
      BY <3>1, KeysStay DEF SigningInv
    <3>3. CASE pc' = "rej"
      BY <3>2, <3>3 DEF SigningInv
    <3>4. CASE pc' # "rej"
      <4> DEFINE ct0 == reduce(pointwise_poly(cp, t0))
                 h == Map2(make_hint, Add(w0, ct0), w1)
      <4>1. /\ pc' = "signed" /\ UNCHANGED locals
            /\ ~ HintsFail(ct0, h)
            /\ sig' = [c |-> ctilde, z |-> polyz_pack(z), h |-> h]
        BY <2>6, <3>4 DEF make_signature, Reject
      <4>2. UNCHANGED <<y, z, w1, w0, ctilde, cp>>
        BY <4>1 DEF locals
      <4>3. Committed' /\ Commitment' = Commitment
        BY <3>1, <4>2, CommittedStays DEF SigningInv
      <4>4. ResponseIsShort'
        BY <3>1, <4>2, ResponseStays DEF SigningInv
      <4>5. LowBitsAreShort'
        BY <3>1, <4>2, LowBitsStay DEF SigningInv
      <4>6. ct0' = ct0
        <5>1. t0' = t0
          BY <3>1 DEF t0
        <5> QED
          BY <4>2, <5>1
      <4>7. ~ chknorm(ct0', GAMMA2)
        BY <4>1, <4>6 DEF HintsFail
      <4>8. sig' = [c |-> ctilde', z |-> polyz_pack(z'), h |-> Map2(make_hint, Add(w0', ct0'), w1')]
        BY <4>1, <4>2, <4>6
      <4>9. SignatureIsMade'
        BY <4>7, <4>8 DEF SignatureIsMade
      <4> QED
        BY <3>2, <4>1, <4>3, <4>4, <4>5, <4>9 DEF SigningInv
    <3> QED
      BY <3>3, <3>4
  <2>7. ASSUME NEW digest \in Mus, crypto_sign_verify_internal(digest)
        PROVE  SigningInv'
    <3>1. /\ pc = "signed" /\ pc' = "verified" /\ UNCHANGED <<pk, sk, mu, sig>>
          /\ UNCHANGED <<y, z, w1, w0, ctilde, cp>> /\ asked' = digest
          /\ ret' = IF \/ chknorm(polyz_unpack(sig.z), GAMMA1 - BETA)
                       \/ sig.c # <<digest, Map2(use_hint, Recomputed(sig), sig.h)>>
                    THEN -1 ELSE 0
      BY <2>7 DEF crypto_sign_verify_internal, locals
    <3>2. KeysAgree'
      BY <3>1, KeysStay DEF SigningInv
    <3>3. Committed' /\ Commitment' = Commitment
      BY <3>1, CommittedStays DEF SigningInv
    <3>4. ResponseIsShort'
      BY <3>1, ResponseStays DEF SigningInv
    <3>5. LowBitsAreShort'
      BY <3>1, LowBitsStay DEF SigningInv
    <3>6. SignatureIsMade'
      BY <3>1, SignatureStays DEF SigningInv
    <3>7. Recomputed(sig)' = Recomputed(sig)
      BY <3>1 DEF Recomputed, Map
    <3>8. ret' = IF \/ chknorm(polyz_unpack(sig'.z), GAMMA1 - BETA)
                    \/ sig'.c # <<asked', Map2(use_hint, Recomputed(sig)', sig'.h)>>
                 THEN -1 ELSE 0
      BY <3>1, <3>7
    <3> QED
      BY <3>1, <3>2, <3>3, <3>4, <3>5, <3>6, <3>8 DEF SigningInv
  <2>8. CASE UNCHANGED vars
    <3>1. UNCHANGED <<pk, sk, mu, pc, y, z, w1, w0, ctilde, cp, sig, asked, ret>>
      BY <2>8 DEF vars, locals
    <3>2. s1' = s1 /\ s2' = s2 /\ t0' = t0 /\ Commitment' = Commitment
          /\ Recomputed(sig)' = Recomputed(sig)
      BY <3>1 DEF s1, s2, t0, Commitment, Recomputed, Map
    <3>3. /\ KeysAgree => KeysAgree'
          /\ Committed => Committed'
          /\ ResponseIsShort => ResponseIsShort'
          /\ LowBitsAreShort => LowBitsAreShort'
          /\ SignatureIsMade => SignatureIsMade'
      BY <3>1, KeysStay, CommittedStays, ResponseStays, LowBitsStay, SignatureStays
    <3>4. (w0 = low(Commitment)) => w0' = low(Commitment')
      BY <3>1, <3>2
    <3>5. (ret = IF \/ chknorm(polyz_unpack(sig.z), GAMMA1 - BETA)
                    \/ sig.c # <<asked, Map2(use_hint, Recomputed(sig), sig.h)>>
                 THEN -1 ELSE 0)
          => ret' = IF \/ chknorm(polyz_unpack(sig'.z), GAMMA1 - BETA)
                       \/ sig'.c # <<asked', Map2(use_hint, Recomputed(sig)', sig'.h)>>
                    THEN -1 ELSE 0
      BY <3>1, <3>2
    <3> QED
      BY <3>1, <3>3, <3>4, <3>5 DEF SigningInv
  <2> QED
    BY <2>1, <2>2, <2>3, <2>4, <2>5, <2>6, <2>7, <2>8 DEF Next
<1> QED
  BY <1>1, <1>2, PTL DEF Spec

-----------------------------------------------------------------------------
(*  What verification computes  *)

\* Types of what the loop leaves.
LEMMA LoopTypes ==
  ASSUME KeysAgree, Committed, ResponseIsShort
  PROVE  /\ cp \in Polynomials /\ y \in [Column -> Polynomials] /\ z \in [Column -> Polynomials]
         /\ s1 \in [Column -> Polynomials] /\ s2 \in [Row -> Polynomials]
         /\ \A j \in Column, i \in Index :
              /\ z[j][i] = reduce32(Product(cp, s1[j])[i] + y[j][i])
              /\ Same(z[j][i], y[j][i] + Product(cp, s1[j])[i])
<1>1. cp \in Polynomials /\ y \in [Column -> Polynomials]
      /\ s1 \in [Column -> Polynomials] /\ s2 \in [Row -> Polynomials]
  <2>1. cp \in Challenges /\ y \in [Column -> [Index -> MaskCoeffs]]
        /\ s1 \in [Column -> Between(-ETA, ETA)] /\ s2 \in [Row -> Between(-ETA, ETA)]
    BY DEF KeysAgree, Committed
  <2>2. \A S, U, V : S \subseteq U => [V -> S] \subseteq [V -> U]
    OBVIOUS
  <2>3. [Column -> Between(-ETA, ETA)] \subseteq [Column -> Polynomials]
        /\ [Row -> Between(-ETA, ETA)] \subseteq [Row -> Polynomials]
        /\ [Column -> [Index -> MaskCoeffs]] \subseteq [Column -> Polynomials]
    BY <2>2, ShortPolynomials
  <2> QED
    BY <2>1, <2>3, ShortPolynomials
<1>2. z = [j \in Column |-> [i \in Index |-> reduce32(Product(cp, s1[j])[i] + y[j][i])]]
  BY <1>1 DEF ResponseIsShort, reduce, Add, Map, Map2, pointwise_poly
<1>3. ASSUME NEW j \in Column, NEW i \in Index
      PROVE  /\ reduce32(Product(cp, s1[j])[i] + y[j][i]) \in Int
             /\ Same(reduce32(Product(cp, s1[j])[i] + y[j][i]), y[j][i] + Product(cp, s1[j])[i])
  <2> DEFINE p == Product(cp, s1[j])[i]
             b == y[j][i]
  <2>1. p \in Int /\ b \in Int
    <3>1. s1[j] \in Polynomials /\ y[j] \in Polynomials
      BY <1>1
    <3>2. Product(cp, s1[j]) \in Polynomials
      BY <1>1, <3>1, ProductType
    <3> QED
      BY <3>1, <3>2 DEF Polynomials
  <2> HIDE DEF p, b
  <2>2. p + b \in Int /\ p + b = b + p
    BY <2>1
  <2>3. reduce32(p + b) \in Int /\ Same(reduce32(p + b), p + b)
    BY <2>2, Reduced
  <2> QED
    BY <2>2, <2>3 DEF p, b
<1>4. z \in [Column -> Polynomials]
  BY <1>2, <1>3 DEF Polynomials
<1> QED
  BY <1>1, <1>2, <1>3, <1>4

\* What A z less c times one part of t differs from A y by.
LEMMA ResponseOfCommitment ==
  ASSUME KeysAgree, Committed, ResponseIsShort,
         NEW r \in Row, NEW k \in Index, NEW v \in Polynomials, NEW e \in Polynomials,
         \A i \in Index : Same(v[i] + e[i], RowTimes(sk.mat[r], s1, i) + s2[r][i])
  PROVE  LET b == caddq(reduce32(RowTimes(sk.mat[r], z, k) - Product(cp, v)[k]))
         IN  /\ b \in 0 .. Q - 1 /\ Commitment[r][k] \in 0 .. Q - 1
             /\ Product(cp, e)[k] \in Int /\ Product(cp, s2[r])[k] \in Int
             /\ Same(b, Commitment[r][k] + (Product(cp, e)[k] - Product(cp, s2[r])[k]))
<1> DEFINE row == sk.mat[r]
           s == s2[r]
           u == [i \in Index |-> v[i] + e[i] - s[i]]
           rz == RowTimes(row, z, k)
           ry == RowTimes(row, y, k)
           pv == Product(cp, v)[k]
           pe == Product(cp, e)[k]
           ps == Product(cp, s)[k]
           pu == Product(cp, u)[k]
           w == Commitment[r][k]
           x == rz - pv
           b == caddq(reduce32(x))
<1>1. /\ cp \in Polynomials /\ y \in [Column -> Polynomials] /\ z \in [Column -> Polynomials]
      /\ s1 \in [Column -> Polynomials] /\ s \in Polynomials
      /\ \A j \in Column, i \in Index : Same(z[j][i], y[j][i] + Product(cp, s1[j])[i])
      /\ row \in [Column -> Polynomials]
  BY LoopTypes DEF KeysAgree
<1>2. \A i \in Index : v[i] \in Int /\ e[i] \in Int /\ s[i] \in Int /\ RowTimes(row, s1, i) \in Int
  <2>1. \A i \in Index : RowTimes(row, s1, i) \in Int
    BY <1>1, RowTimesType
  <2> QED
    BY <1>1, <2>1 DEF Polynomials
<1>3. u \in Polynomials
  <2>1. \A i \in Index : v[i] + e[i] - s[i] \in Int
    BY <1>2
  <2> QED
    BY <2>1 DEF Polynomials
<1>5. \A i \in Index : u[i] = v[i] + e[i] - s[i]
  OBVIOUS
<1>4. ASSUME NEW i \in Index PROVE Same(u[i], RowTimes(row, s1, i))
  <2>1. Same((v[i] + e[i]) - s[i], (RowTimes(row, s1, i) + s[i]) - s[i])
    <3>1. v[i] + e[i] \in Int /\ RowTimes(row, s1, i) + s[i] \in Int /\ s[i] \in Int
      BY <1>2
    <3>2. Same(s[i], s[i])
      BY <3>1, SameIsCongruence
    <3>3. Same(v[i] + e[i], RowTimes(row, s1, i) + s[i])
      OBVIOUS
    <3> HIDE DEF s, row
    <3> QED
      BY <3>1, <3>2, <3>3, SameMinus
  <2>2. (RowTimes(row, s1, i) + s[i]) - s[i] = RowTimes(row, s1, i)
    BY <1>2
  <2> HIDE DEF u, s, row
  <2>3. u[i] = (v[i] + e[i]) - s[i]
    BY <1>2, <1>5
  <2> QED
    BY <2>1, <2>2, <2>3
<1>6. w = caddq(reduce32(ry))
  BY MatrixRows DEF Commitment, standard, Map
<1> HIDE DEF row, s, u
<1>7. Same(rz, ry + pu)
  BY <1>1, <1>3, <1>4, RowOfResponse
<1>8. /\ pv \in Int /\ pe \in Int /\ ps \in Int /\ pu \in Int
      /\ Same(pu, pv + pe - ps)
  <2> HIDE DEF pv, pe, ps, pu
  <2>1. /\ Product(cp, v)[k] \in Int /\ Product(cp, e)[k] \in Int
        /\ Product(cp, s)[k] \in Int /\ Product(cp, u)[k] \in Int
        /\ Same(Product(cp, u)[k], Product(cp, v)[k] + Product(cp, e)[k] - Product(cp, s)[k])
    BY <1>1, <1>3, <1>5, ProductOfSum
  <2> QED
    BY <2>1 DEF pv, pe, ps, pu
<1>9. pv \in 0 .. Q - 1
  BY <1>1, ProductIsConv
<1>10. /\ rz \in Int /\ 0 <= rz /\ rz <= L * (Q - 1)
       /\ ry \in Int /\ 0 <= ry /\ ry <= L * (Q - 1)
  BY <1>1, RowTimesRange
<1> HIDE DEF rz, ry, pv, pe, ps, pu, w
<1>11. w \in 0 .. Q - 1 /\ Same(w, ry) /\ w \in Int
  <2>1. -(Q - 1) <= ry /\ Q \in Int
    BY <1>10, Dimensions
  <2> QED
    BY <1>6, <1>10, <2>1, StandardCoefficient
<1>12. x \in Int /\ -(Q - 1) <= x /\ x <= L * (Q - 1)
  <2>1. L * (Q - 1) \in Int /\ Q \in Nat
    BY Dimensions
  <2> QED
    BY <1>9, <1>10, <2>1
<1>13. Same(x, w + (pe - ps))
  <2>1. Same(ry, w)
    BY <1>10, <1>11, SameBack
  <2>2. ry + pu \in Int /\ pv + pe - ps \in Int /\ w + (pv + pe - ps) \in Int /\ x \in Int
        /\ w + (pe - ps) \in Int
    BY <1>8, <1>10, <1>11
  <2>3. Same(ry + pu, w + (pv + pe - ps))
    BY <1>8, <1>10, <1>11, <2>1, <2>2, SamePlus
  <2>4. Same(rz, w + (pv + pe - ps))
    BY <1>7, <1>10, <2>2, <2>3, SameThen
  <2>5. Same(pv, pv)
    BY <1>8, SameIsCongruence
  <2> DEFINE q == w + (pv + pe - ps)
  <2>6. Same(rz - pv, q - pv)
    <3>1. q \in Int /\ Same(rz, q)
      BY <2>2, <2>4
    <3> HIDE DEF q
    <3> QED
      BY <1>8, <1>10, <2>5, <3>1, SameMinus
  <2>7. q - pv = w + (pe - ps)
    BY <1>8, <1>11
  <2> HIDE DEF q
  <2> QED
    BY <2>6, <2>7
<1> HIDE DEF x
<1>14. b \in 0 .. Q - 1 /\ Same(b, x)
  BY <1>12, StandardCoefficient
<1>15. b \in Int /\ w + (pe - ps) \in Int
  BY <1>8, <1>11, <1>14, Dimensions
<1>16. Same(b, w + (pe - ps))
  BY <1>12, <1>13, <1>14, <1>15, SameThen
<1> HIDE DEF b
<1> QED
  BY <1>8, <1>11, <1>14, <1>16 DEF b, x, rz, pv, pe, ps, w, row, s

LEMMA NormIsMet ==
  ASSUME NEW S, NEW v \in [S -> Polynomials], NEW bound \in Int, ~ chknorm(v, bound),
         NEW r \in S, NEW k \in Index
  PROVE  v[r][k] \in Int /\ -bound < v[r][k] /\ v[r][k] < bound
<1>1. v[r][k] \in Int
  BY DEF Polynomials
<1>2. ~ Abs(v[r][k]) >= bound
  BY DEF chknorm
<1> QED
  BY <1>1, <1>2 DEF Abs

LEMMA ResponseIsRead ==
  ASSUME KeysAgree, Committed, ResponseIsShort, SignatureIsMade
  PROVE  polyz_unpack(sig.z) = z
<1>1. z \in [Column -> Polynomials]
  BY LoopTypes
<1> DEFINE G == GAMMA1
           width == BitsFor(2 * GAMMA1 - 1)
<1>2. 2 ^ width \in Nat /\ 2 * GAMMA1 - 1 < 2 ^ width
  BY BitsSuffice
<1> HIDE DEF width
<1>3. ASSUME NEW j \in Column, NEW k \in Index
      PROVE  0 <= G - z[j][k] /\ G - z[j][k] < 2 ^ width
  <2>1. ZBound \in Int /\ ZBound = GAMMA1 - BETA
    BY Widths DEF ZBound
  <2>2. z[j][k] \in Int /\ -ZBound < z[j][k] /\ z[j][k] < ZBound
    BY <1>1, <2>1, NormIsMet DEF ResponseIsShort
  <2> QED
    BY <1>2, <2>1, <2>2, Widths
<1>4. G \in Int
  BY Widths
<1>5. UnField(G, Field(G, width, z)) = z
  <2> HIDE DEF G
  <2> QED
    BY <1>1, <1>2, <1>3, <1>4, FieldIsRead
<1> QED
  BY <1>5 DEF polyz_unpack, polyz_pack, SignatureIsMade, width

\* The low bits that the second test has let through.
LEMMA LowBits0 ==
  ASSUME KeysAgree, Committed, ResponseIsShort, LowBitsAreShort, NEW r \in Row, NEW k \in Index
  PROVE  /\ Commitment[r][k] \in 0 .. Q - 1
         /\ w1[r][k] = decompose(Commitment[r][k]).a1
         /\ Product(cp, s2[r])[k] \in Int
         /\ w0[r][k] \in Int /\ -(GAMMA2 - BETA) < w0[r][k] /\ w0[r][k] < GAMMA2 - BETA
         /\ Same(w0[r][k], decompose(Commitment[r][k]).a0 - Product(cp, s2[r])[k])
<1>1. Commitment = [q \in Row |-> [i \in Index |-> caddq(reduce32(RowTimes(sk.mat[q], y, i)))]]
  BY MatrixRows DEF Commitment, standard, Map
<1>2. ASSUME NEW q \in Row, NEW i \in Index PROVE Commitment[q][i] \in 0 .. Q - 1
  <2>1. y \in [Column -> Polynomials] /\ sk.mat[q] \in [Column -> Polynomials]
    BY LoopTypes DEF KeysAgree
  <2> DEFINE a == RowTimes(sk.mat[q], y, i)
  <2>2. a \in Int /\ 0 <= a /\ a <= L * (Q - 1)
    BY <2>1, RowTimesRange
  <2> HIDE DEF a
  <2>3. -(Q - 1) <= a
    BY <2>2, Dimensions
  <2>4. caddq(reduce32(a)) \in 0 .. Q - 1
    BY <2>2, <2>3, StandardCoefficient
  <2> QED
    BY <1>1, <2>4 DEF a
<1>3. /\ low(Commitment) = [q \in Row |-> [i \in Index |-> decompose(Commitment[q][i]).a0]]
      /\ high(Commitment) = [q \in Row |-> [i \in Index |-> decompose(Commitment[q][i]).a1]]
  <2>1. DOMAIN Commitment = Row
    BY <1>1
  <2> QED
    BY <2>1 DEF low, high, Map
<1> DEFINE lo(q, i) == decompose(Commitment[q][i]).a0
           ps(q, i) == Product(cp, s2[q])[i]
<1>4. w0 = [q \in Row |-> [i \in Index |-> reduce32(lo(q, i) - ps(q, i))]]
  <2>1. s2 \in [Row -> Polynomials]
    BY LoopTypes
  <2>2. pointwise_poly(cp, s2) = [q \in Row |-> Product(cp, s2[q])]
    BY <2>1 DEF pointwise_poly
  <2> QED
    BY <1>3, <2>2 DEF LowBitsAreShort, reduce, Sub, Map, Map2
<1>5. \A q \in Row, i \in Index : lo(q, i) \in Int
  BY <1>2, Decomposed
<1>6. \A q \in Row, i \in Index : ps(q, i) \in Int
  <2>1. cp \in Polynomials /\ s2 \in [Row -> Polynomials]
    BY LoopTypes
  <2>2. \A q \in Row : Product(cp, s2[q]) \in Polynomials
    BY <2>1, ProductType
  <2> QED
    BY <2>2 DEF Polynomials
<1>7. w1[r][k] = decompose(Commitment[r][k]).a1
  BY <1>3 DEF Committed
<1> HIDE DEF lo, ps
<1>8. \A q \in Row, i \in Index :
        reduce32(lo(q, i) - ps(q, i)) \in Int /\ Same(reduce32(lo(q, i) - ps(q, i)), lo(q, i) - ps(q, i))
  <2>1. \A q \in Row, i \in Index : lo(q, i) - ps(q, i) \in Int
    BY <1>5, <1>6
  <2> QED
    BY <2>1, Reduced
<1>9. w0 \in [Row -> Polynomials]
  BY <1>4, <1>8 DEF Polynomials
<1>10. GAMMA2 - BETA \in Int /\ ~ chknorm(w0, WBound)
  BY Widths DEF LowBitsAreShort
<1>11. w0[r][k] \in Int /\ -(GAMMA2 - BETA) < w0[r][k] /\ w0[r][k] < GAMMA2 - BETA
  BY <1>9, <1>10, NormIsMet DEF WBound
<1>12. Same(w0[r][k], lo(r, k) - ps(r, k))
  BY <1>4, <1>8
<1> QED
  BY <1>2, <1>6, <1>7, <1>11, <1>12 DEF lo, ps

\* The hints lead from what the verifier computes to the high bits of A y.
LEMMA HighBitsAreFound ==
  ASSUME KeysAgree, Committed, ResponseIsShort, LowBitsAreShort, SignatureIsMade
  PROVE  Map2(use_hint, Recomputed(sig), sig.h) = w1
<1> DEFINE ct0 == reduce(pointwise_poly(cp, t0))
           t1(r) == [i \in Index |-> pk.t1[r][i] * 2 ^ D]
           b(r, k) == caddq(reduce32(RowTimes(sk.mat[r], z, k) - Product(cp, t1(r))[k]))
           w(r, k) == Commitment[r][k]
           hi(r, k) == decompose(w(r, k)).a1
           lo(r, k) == decompose(w(r, k)).a0
           pe(r, k) == Product(cp, t0[r])[k]
           ps(r, k) == Product(cp, s2[r])[k]
           low0(r, k) == w0[r][k]
           c0(r, k) == ct0[r][k]
<1>1. /\ cp \in Polynomials /\ s2 \in [Row -> Polynomials] /\ t0 \in [Row -> Polynomials]
      /\ pk.t1 \in [Row -> Polynomials] /\ pk.mat = sk.mat
  BY LoopTypes DEF KeysAgree
<1>2. Recomputed(sig) = [r \in Row |-> [k \in Index |-> b(r, k)]]
  <2>1. polyz_unpack(sig.z) = z
    BY ResponseIsRead
  <2>2. Map(LAMBDA a : a * 2 ^ D, pk.t1) = [r \in Row |-> t1(r)]
    BY <1>1 DEF Map
  <2>3. pointwise_poly(cp, [r \in Row |-> t1(r)]) = [r \in Row |-> Product(cp, t1(r))]
    <3> HIDE DEF t1
    <3> QED
      BY DEF pointwise_poly
  <2>4. matrix_pointwise(pk.mat, z) = [r \in Row |-> [k \in Index |-> RowTimes(sk.mat[r], z, k)]]
    BY <1>1, MatrixRows
  <2> HIDE DEF t1
  <2> QED
    BY <2>1, <2>2, <2>3, <2>4 DEF Recomputed, standard, Sub, Map2, Map
<1>3. ct0 = [r \in Row |-> [k \in Index |-> reduce32(pe(r, k))]]
  BY <1>1 DEF reduce, pointwise_poly, Map
<1>4. ~ chknorm(ct0, GAMMA2) /\ sig.h = Map2(make_hint, Add(w0, ct0), w1)
  BY DEF SignatureIsMade
<1>5. \A r \in Row, k \in Index : pe(r, k) \in Int
  <2>1. \A r \in Row : Product(cp, t0[r]) \in Polynomials
    BY <1>1, ProductType
  <2> QED
    BY <2>1 DEF Polynomials
<1> HIDE DEF ct0
<1>6. ASSUME NEW r \in Row, NEW k \in Index
      PROVE  /\ c0(r, k) \in Int /\ -GAMMA2 < c0(r, k) /\ c0(r, k) < GAMMA2
             /\ Same(c0(r, k), pe(r, k))
  <2> HIDE DEF pe
  <2>1. \A q \in Row, i \in Index : reduce32(pe(q, i)) \in Int /\ Same(reduce32(pe(q, i)), pe(q, i))
    BY <1>5, Reduced
  <2>2. ct0 \in [Row -> Polynomials]
    BY <1>3, <2>1 DEF Polynomials
  <2>3. GAMMA2 \in Int
    BY Widths
  <2>4. ct0[r][k] \in Int /\ -GAMMA2 < ct0[r][k] /\ ct0[r][k] < GAMMA2
    BY <1>4, <2>2, <2>3, NormIsMet
  <2> QED
    BY <1>3, <2>1, <2>4
<1>7. ASSUME NEW r \in Row, NEW k \in Index
      PROVE  /\ b(r, k) \in 0 .. Q - 1 /\ w(r, k) \in 0 .. Q - 1
             /\ ps(r, k) \in Int
             /\ Same(b(r, k), w(r, k) + (pe(r, k) - ps(r, k)))
  <2> DEFINE v == t1(r)
             e == t0[r]
  <2>1. v \in Polynomials /\ e \in Polynomials
    <3>1. \A i \in Index : pk.t1[r][i] \in Int
      BY <1>1 DEF Polynomials
    <3>2. 2 ^ D \in Int
      <4>1. D \in 0 .. QBits
        BY RoundingAssumption, WidthFacts
      <4> QED
        BY <4>1, WidthFacts
    <3>3. \A i \in Index : pk.t1[r][i] * 2 ^ D \in Int
      BY <3>1, <3>2
    <3> QED
      BY <1>1, <3>3 DEF Polynomials
  <2>2. \A i \in Index : Same(v[i] + e[i], RowTimes(sk.mat[r], s1, i) + s2[r][i])
    BY DEF KeysAgree
  <2> HIDE DEF v, e
  <2>3. LET x == caddq(reduce32(RowTimes(sk.mat[r], z, k) - Product(cp, v)[k]))
         IN  /\ x \in 0 .. Q - 1 /\ Commitment[r][k] \in 0 .. Q - 1
             /\ Product(cp, e)[k] \in Int /\ Product(cp, s2[r])[k] \in Int
             /\ Same(x, Commitment[r][k] + (Product(cp, e)[k] - Product(cp, s2[r])[k]))
    BY <2>1, <2>2, ResponseOfCommitment
  <2> QED
    BY <2>3 DEF v, e
<1>8. ASSUME NEW r \in Row, NEW k \in Index
      PROVE  /\ hi(r, k) = w1[r][k]
             /\ low0(r, k) \in Int
             /\ -(GAMMA2 - BETA) < low0(r, k) /\ low0(r, k) < GAMMA2 - BETA
             /\ Same(low0(r, k), lo(r, k) - ps(r, k))
  BY LowBits0
<1>9. DOMAIN w0 = Row /\ w1 = [r \in Row |-> [k \in Index |-> w1[r][k]]]
  <2>1. DOMAIN Commitment = Row
    BY DEF Commitment, standard, matrix_pointwise, Map
  <2> QED
    BY <2>1 DEF LowBitsAreShort, Committed, low, high, reduce, Sub, Map, Map2
<1>10. sig.h = [r \in Row |-> [k \in Index |-> make_hint(low0(r, k) + c0(r, k), w1[r][k])]]
  BY <1>4, <1>9 DEF Map2, Add
<1> HIDE DEF b, t1, pe, ps, c0, low0
<1>11. ASSUME NEW r \in Row, NEW k \in Index
       PROVE  use_hint(b(r, k), make_hint(low0(r, k) + c0(r, k), w1[r][k])) = w1[r][k]
  <2> DEFINE wr == w(r, k)
             x == b(r, k)
             g == lo(r, k)
             d == pe(r, k) - ps(r, k)
             v == low0(r, k) + c0(r, k)
  <2>1. wr \in 0 .. Q - 1 /\ x \in 0 .. Q - 1 /\ d \in Int /\ Same(x, wr + d)
    BY <1>5, <1>7
  <2>2. v \in Int /\ -ALPHA < v /\ v < ALPHA
    BY <1>6, <1>8, Widths, Parameters
  <2>3. g \in Int /\ g = decompose(wr).a0 /\ w1[r][k] = decompose(wr).a1
    BY <1>8, <2>1, Decomposed
  <2>4. Same(v, g + d)
    <3> DEFINE e == pe(r, k)
               s == ps(r, k)
               f == low0(r, k)
               c == c0(r, k)
    <3>1. e \in Int /\ s \in Int /\ f \in Int /\ c \in Int
      BY <1>5, <1>6, <1>7, <1>8
    <3>2. Same(f, g - s) /\ Same(c, e)
      BY <1>6, <1>8
    <3> HIDE DEF e, s, f, c, g
    <3>3. g - s \in Int /\ g - s + e = g + (e - s)
      BY <2>3, <3>1
    <3>4. Same(f + c, (g - s) + e)
      BY <3>1, <3>2, <3>3, SamePlus
    <3> QED
      BY <3>3, <3>4 DEF e, s, f, c
  <2> HIDE DEF wr, x, d, v, g
  <2>5. Same(v, decompose(wr).a0 + d)
    BY <2>3, <2>4
  <2>6. use_hint(x, make_hint(v, decompose(wr).a1)) = decompose(wr).a1
    BY <2>1, <2>2, <2>5, HintOfCorrection
  <2> QED
    BY <2>3, <2>6 DEF x, v
<1> DEFINE found(r, k) == use_hint(b(r, k), make_hint(low0(r, k) + c0(r, k), w1[r][k]))
<1>12. Map2(use_hint, Recomputed(sig), sig.h) = [r \in Row |-> [k \in Index |-> found(r, k)]]
  BY <1>2, <1>10 DEF Map2
<1>13. \A r \in Row, k \in Index : found(r, k) = w1[r][k]
  BY <1>11
<1> HIDE DEF found
<1> QED
  BY <1>9, <1>12, <1>13

\* For all parameters, keys, masks and challenges: the signature the loop ends
\* with verifies, and it verifies for nothing but what was signed.
THEOREM SigningSignatureVerifies == Spec => []SignatureVerifies
<1>1. SigningInv => SignatureVerifies
  <2> SUFFICES ASSUME SigningInv, pc = "verified" PROVE ret = 0 <=> asked = mu
    BY DEF SignatureVerifies
  <2>1. KeysAgree /\ Committed /\ ResponseIsShort /\ LowBitsAreShort /\ SignatureIsMade
    BY DEF SigningInv
  <2>2. polyz_unpack(sig.z) = z /\ ~ chknorm(z, GAMMA1 - BETA)
    BY <2>1, ResponseIsRead DEF ResponseIsShort, ZBound
  <2>3. Map2(use_hint, Recomputed(sig), sig.h) = w1 /\ sig.c = <<mu, w1>>
    BY <2>1, HighBitsAreFound DEF SignatureIsMade, Committed
  <2>4. ret = IF <<mu, w1>> # <<asked, w1>> THEN -1 ELSE 0
    BY <2>2, <2>3 DEF SigningInv
  <2> QED
    BY <2>4
<1> QED
  BY <1>1, SigningStepsAgree, PTL

-----------------------------------------------------------------------------
(*  What the response tells of the secret  *)

\* The product of a challenge and a short polynomial is short, before reduction.
LEMMA ChallengeTimesShort ==
  ASSUME NEW c \in Challenges, NEW s \in Between(-ETA, ETA), NEW k \in Index
  PROVE  /\ Conv(c, s, k) \in Int /\ -BETA <= Conv(c, s, k) /\ Conv(c, s, k) <= BETA
<1> DEFINE C == {i \in Index : c[i] # 0}
           f == Terms(c, s, k)
<1>1. c \in Polynomials /\ s \in Polynomials
  BY ShortPolynomials
<1>2. c \in [Index -> {-1, 0, 1}] /\ Cardinality(C) = TAU
  BY DEF Challenges
<1>3. \A i \in Index : s[i] \in Int /\ -ETA <= s[i] /\ s[i] <= ETA
  <2>1. \A i \in Index : s[i] \in -ETA .. ETA
    BY DEF Between
  <2> QED
    BY <2>1, Widths
<1>4. C \subseteq 0 .. N - 1
  BY Dimensions
<1>5. ASSUME NEW i \in 0 .. N - 1
      PROVE  f[i] \in Int /\ -ETA <= f[i] /\ f[i] <= ETA /\ (i \notin C => f[i] = 0)
  <2> DEFINE wr == Wrapped(s, k - i)
             x == c[i]
  <2>1. k - i \in Int /\ -N <= k - i /\ k - i < N
    BY Dimensions
  <2>2. wr \in Int /\ -ETA <= wr /\ wr <= ETA
    <3>1. CASE k - i >= 0
      <4>1. k - i \in Index
        BY <2>1, <3>1, Dimensions
      <4>2. wr = s[k - i]
        BY <3>1 DEF Wrapped
      <4> QED
        BY <1>3, <4>1, <4>2
    <3>2. CASE ~ k - i >= 0
      <4>1. N + (k - i) \in Index
        BY <2>1, <3>2, Dimensions
      <4>2. wr = -s[N + (k - i)]
        BY <2>1, <3>2 DEF Wrapped
      <4>3. s[N + (k - i)] \in Int /\ -ETA <= s[N + (k - i)] /\ s[N + (k - i)] <= ETA
        BY <1>3, <4>1
      <4> QED
        BY <4>2, <4>3, Widths
    <3> QED
      BY <3>1, <3>2
  <2>3. i \in Index /\ x \in {-1, 0, 1} /\ f[i] = x * wr
    BY <1>2, Dimensions DEF Terms
  <2>4. i \notin C => x = 0
    BY <2>3
  <2> HIDE DEF wr, x, C, f
  <2>5. f[i] = -wr \/ f[i] = 0 \/ f[i] = wr
    <3>1. (-1) * wr = -wr /\ 0 * wr = 0 /\ 1 * wr = wr
      BY <2>2
    <3> QED
      BY <2>3, <3>1
  <2>6. x = 0 => f[i] = 0
    <3>1. 0 * wr = 0
      BY <2>2
    <3> QED
      BY <2>3, <3>1
  <2> QED
    BY <2>2, <2>4, <2>5, <2>6, Widths
<1> HIDE DEF C, f
<1>6. /\ Cardinality(C) \in Nat /\ Sum(f, N) \in Int
      /\ -(Cardinality(C) * ETA) <= Sum(f, N) /\ Sum(f, N) <= Cardinality(C) * ETA
  BY <1>4, <1>5, Dimensions, Widths, SumOfFew
<1> QED
  BY <1>2, <1>6, Widths DEF Conv, f

\* reduce32 of a difference: the mask that gives z with s is the difference
\* itself, whichever representative the product has.
LEMMA MaskOfSecret ==
  ASSUME NEW x \in Int, NEW c \in Int, NEW p \in 0 .. Q - 1, Same(p, c),
         -BETA <= c, c <= BETA, -GAMMA1 < x - c, x - c < GAMMA1
  PROVE  reduce32(x - p) = x - c
<1> DEFINE a == x - p
           m == Times(a)
           w == 2 ^ QBits
           H == HalfWord
<1>1. /\ Q \in Nat /\ H \in Nat /\ w = 2 * H /\ Q <= w /\ H + GAMMA1 <= Q
      /\ GAMMA1 \in Nat /\ BETA \in Nat /\ BETA < GAMMA1 /\ p \in Int /\ H >= 1
  BY Widths, Dimensions
<1>2. PICK d \in Int : p = c + Q * d
  BY DEF Same
<1>3. Q * d \in Int
  BY <1>1
<1>4. d < 2
  <2> SUFFICES ASSUME d >= 2 PROVE FALSE
    OBVIOUS
  <2>1. Q * (d - 2) >= 0 /\ Q * (d - 2) = Q * d - 2 * Q
    BY <1>1
  <2> QED
    BY <1>1, <1>2, <1>3, <2>1
<1>5. d > -1
  <2> SUFFICES ASSUME d <= -1 PROVE FALSE
    OBVIOUS
  <2>1. Q * (-1 - d) >= 0 /\ Q * (-1 - d) = -Q - Q * d
    BY <1>1
  <2> QED
    BY <1>1, <1>2, <1>3, <2>1
<1>6. p = c \/ p = c + Q
  <2>1. d = 0 \/ d = 1
    BY <1>4, <1>5
  <2>2. Q * 0 = 0 /\ Q * 1 = Q
    BY <1>1
  <2> QED
    BY <1>1, <1>2, <2>1, <2>2
<1>7. a \in Int /\ (a = x - c \/ a = x - c - Q)
  BY <1>1, <1>6
<1> HIDE DEF a, m, w, H
<1>8. m \in Int /\ w * m - H <= a /\ a < w * m + H /\ reduce32(a) = a - m * Q
  BY <1>7, Reduced DEF m, w, H
<1>9. m < 1
  <2> SUFFICES ASSUME m >= 1 PROVE FALSE
    BY <1>8
  <2>1. w * (m - 1) >= 0 /\ w * (m - 1) = w * m - w /\ w * m \in Int
    BY <1>1, <1>8
  <2> QED
    BY <1>1, <1>7, <1>8, <2>1
<1>10. m > -2
  <2> SUFFICES ASSUME m <= -2 PROVE FALSE
    BY <1>8
  <2>1. w * (-2 - m) >= 0 /\ w * (-2 - m) = -(2 * w) - w * m /\ w * m \in Int
    BY <1>1, <1>8
  <2> QED
    BY <1>1, <1>7, <1>8, <2>1
<1>11. m = 0 \/ m = -1
  BY <1>8, <1>9, <1>10
<1>12. w * 0 = 0 /\ w * (-1) = -w /\ 0 * Q = 0 /\ (-1) * Q = -Q
  BY <1>1
<1>13. CASE a = x - c
  <2>1. m = 0
    <3> SUFFICES ASSUME m = -1 PROVE FALSE
      BY <1>11
    <3>1. w * m = -w
      BY <1>12
    <3> QED
      BY <1>1, <1>8, <1>13, <3>1
  <2> QED
    BY <1>1, <1>8, <1>12, <1>13, <2>1 DEF a
<1>14. CASE a = x - c - Q
  <2>1. m = -1
    <3> SUFFICES ASSUME m = 0 PROVE FALSE
      BY <1>11
    <3>1. w * m = 0
      BY <1>12
    <3> QED
      BY <1>1, <1>8, <1>14, <3>1
  <2> QED
    BY <1>1, <1>8, <1>12, <1>14, <2>1 DEF a
<1> QED
  BY <1>7, <1>13, <1>14

\* The first part: a mask for every other secret.
LEMMA OtherMaskInRange ==
  ASSUME KeysAgree, Committed, ResponseIsShort,
         NEW s \in Between(-ETA, ETA), NEW j \in Column, NEW k \in Index
  PROVE  LET x == reduce32(z[j][k] - Product(cp, s)[k]) IN -GAMMA1 < x /\ x <= GAMMA1
<1> DEFINE v == z[j][k]
           c == Conv(cp, s, k)
           p == Product(cp, s)[k]
<1>1. cp \in Challenges /\ cp \in Polynomials /\ s \in Polynomials
  BY ShortPolynomials DEF Committed
<1>2. c \in Int /\ -BETA <= c /\ c <= BETA
  BY <1>1, ChallengeTimesShort
<1>3. p \in 0 .. Q - 1 /\ Same(p, c)
  BY <1>1, ProductIsConv
<1>4. v \in Int /\ -(GAMMA1 - BETA) < v /\ v < GAMMA1 - BETA
  <2>1. z \in [Column -> Polynomials] /\ ~ chknorm(z, ZBound)
    BY LoopTypes DEF ResponseIsShort
  <2>2. ZBound \in Int /\ ZBound = GAMMA1 - BETA
    BY Widths DEF ZBound
  <2>3. z[j][k] \in Int /\ -ZBound < z[j][k] /\ z[j][k] < ZBound
    BY <2>1, <2>2, NormIsMet
  <2> QED
    BY <2>2, <2>3
<1> HIDE DEF v, c, p
<1>5. -GAMMA1 < v - c /\ v - c < GAMMA1
  BY <1>2, <1>4, Widths
<1>6. reduce32(v - p) = v - c
  BY <1>2, <1>3, <1>4, <1>5, MaskOfSecret
<1>7. -GAMMA1 < v - c /\ v - c <= GAMMA1
  BY <1>2, <1>4, <1>5, Widths
<1> QED
  BY <1>6, <1>7 DEF v, p

\* The second part: with every short s in the place of s2 the high bits are w1.
LEMMA PublicHighBits ==
  ASSUME KeysAgree, Committed, ResponseIsShort, LowBitsAreShort, NEW s \in Between(-ETA, ETA)
  PROVE  high(CommitmentWith(s)) = w1
<1> DEFINE at(r, i) == (pk.t1[r][i] * 2 ^ D + t0[r][i]) - s[i]
           tr(r) == [i \in Index |-> at(r, i)]
           b(r, k) == caddq(reduce32(RowTimes(sk.mat[r], z, k) - Product(cp, tr(r))[k]))
<1>1. /\ cp \in Polynomials /\ s2 \in [Row -> Polynomials] /\ t0 \in [Row -> Polynomials]
      /\ pk.t1 \in [Row -> Polynomials] /\ pk.mat = sk.mat
      /\ cp \in Challenges /\ s \in Polynomials
  BY LoopTypes, ShortPolynomials DEF KeysAgree, Committed
<1>2. CommitmentWith(s) = [r \in Row |-> [k \in Index |-> b(r, k)]]
  <2>1. Sub(t, [r \in Row |-> s]) = [r \in Row |-> tr(r)]
    <3>1. t = [r \in Row |-> [i \in Index |-> pk.t1[r][i] * 2 ^ D + t0[r][i]]]
      BY <1>1 DEF t, Add, Map, Map2
    <3>2. DOMAIN t = Row /\ \A r \in Row, i \in Index : t[r][i] = pk.t1[r][i] * 2 ^ D + t0[r][i]
      BY <3>1
    <3>3. Sub(t, [r \in Row |-> s]) = [r \in Row |-> [i \in Index |-> t[r][i] - s[i]]]
      BY <3>2 DEF Sub, Map2
    <3>4. \A r \in Row, i \in Index : t[r][i] - s[i] = at(r, i)
      BY <3>2
    <3> HIDE DEF at
    <3> QED
      BY <3>3, <3>4
  <2>2. pointwise_poly(cp, [r \in Row |-> tr(r)]) = [r \in Row |-> Product(cp, tr(r))]
    <3> HIDE DEF tr
    <3> QED
      BY DEF pointwise_poly
  <2>3. matrix_pointwise(pk.mat, z) = [r \in Row |-> [k \in Index |-> RowTimes(sk.mat[r], z, k)]]
    BY <1>1, MatrixRows
  <2> HIDE DEF tr
  <2> QED
    BY <2>1, <2>2, <2>3 DEF CommitmentWith, standard, Sub, Map2, Map
<1>7. \A r \in Row, i \in Index :
        /\ pk.t1[r][i] * 2 ^ D \in Int /\ t0[r][i] \in Int /\ s[i] \in Int
  <2>1. 2 ^ D \in Int
    <3>1. D \in 0 .. QBits
      BY RoundingAssumption, WidthFacts
    <3> QED
      BY <3>1, WidthFacts
  <2>2. \A r \in Row, i \in Index : pk.t1[r][i] \in Int /\ t0[r][i] \in Int /\ s[i] \in Int
    BY <1>1 DEF Polynomials
  <2> QED
    BY <2>1, <2>2
<1>3. ASSUME NEW r \in Row, NEW k \in Index PROVE decompose(b(r, k)).a1 = w1[r][k]
  <2> DEFINE v == tr(r)
             wr == Commitment[r][k]
             ps == Product(cp, s2[r])[k]
             pe == Product(cp, s)[k]
             ce == Conv(cp, s, k)
             d == pe - ps
             x == b(r, k)
             low0 == w0[r][k]
             c == low0 + ce
             g == decompose(wr).a0
  <2>1. \A i \in Index : v[i] \in Int
    BY <1>7
  <2>2. v \in Polynomials
    BY <2>1 DEF Polynomials
  <2>3. \A i \in Index : Same(v[i] + s[i], RowTimes(sk.mat[r], s1, i) + s2[r][i])
    <3>1. \A i \in Index :
            /\ pk.t1[r][i] * 2 ^ D + t0[r][i] \in Int /\ s[i] \in Int
            /\ v[i] = (pk.t1[r][i] * 2 ^ D + t0[r][i]) - s[i]
      BY <1>7
    <3> HIDE DEF v
    <3>2. \A i \in Index : v[i] + s[i] = pk.t1[r][i] * 2 ^ D + t0[r][i]
      BY <3>1
    <3> QED
      BY <3>2 DEF KeysAgree
  <2> HIDE DEF v
  <2>5. LET q == caddq(reduce32(RowTimes(sk.mat[r], z, k) - Product(cp, v)[k]))
         IN  /\ q \in 0 .. Q - 1 /\ Commitment[r][k] \in 0 .. Q - 1
             /\ Product(cp, s)[k] \in Int /\ Product(cp, s2[r])[k] \in Int
             /\ Same(q, Commitment[r][k] + (Product(cp, s)[k] - Product(cp, s2[r])[k]))
    BY <1>1, <2>2, <2>3, ResponseOfCommitment
  <2>6. /\ x \in 0 .. Q - 1 /\ wr \in 0 .. Q - 1 /\ ps \in Int /\ pe \in Int /\ Same(x, wr + d)
    BY <2>5 DEF v
  <2>7. /\ w1[r][k] = decompose(wr).a1
        /\ low0 \in Int /\ -(GAMMA2 - BETA) < low0 /\ low0 < GAMMA2 - BETA
        /\ Same(low0, g - ps)
    BY LowBits0
  <2>4. ce \in Int /\ -BETA <= ce /\ ce <= BETA /\ Same(pe, ce)
    BY <1>1, ChallengeTimesShort, ProductIsConv
  <2> HIDE DEF x, wr, ps, g, pe, ce, low0
  <2>8. d \in Int /\ g \in Int /\ g = decompose(wr).a0
    BY <2>6, Decomposed DEF g
  <2>9. (g - ps) + pe = g + d /\ g - ps \in Int
    BY <2>6, <2>8
  <2>10. c \in Int /\ -GAMMA2 < c /\ c < GAMMA2 /\ -ALPHA < c /\ c < ALPHA
    BY <2>4, <2>7, Widths, Parameters
  <2>11. Same(c, decompose(wr).a0 + d)
    <3>1. Same(ce, pe)
      BY <2>4, <2>6, SameBack
    <3>2. Same(low0 + ce, (g - ps) + pe)
      BY <2>4, <2>6, <2>7, <2>9, <3>1, SamePlus
    <3> QED
      BY <2>8, <2>9, <3>2
  <2> HIDE DEF c, d
  <2>12. -GAMMA2 < c /\ c < GAMMA2 => decompose(x).a1 = decompose(wr).a1
    BY <2>6, <2>8, <2>10, <2>11, HintOfCorrection
  <2> QED
    BY <2>7, <2>10, <2>12 DEF x
<1>4. w1 = [r \in Row |-> [k \in Index |-> w1[r][k]]]
  <2>1. DOMAIN Commitment = Row
    BY DEF Commitment, standard, matrix_pointwise, Map
  <2> QED
    BY <2>1 DEF Committed, high, Map
<1> HIDE DEF b
<1>5. high([r \in Row |-> [k \in Index |-> b(r, k)]])
        = [r \in Row |-> [k \in Index |-> decompose(b(r, k)).a1]]
  BY DEF high, Map
<1> QED
  BY <1>2, <1>3, <1>4, <1>5

\* For all parameters: with every short secret a mask in range gives the same
\* response, and its commitment the high bits that were hashed.
THEOREM SigningResponseHidesSecret == Spec => []ResponseHidesSecret
<1>1. SigningInv => ResponseHidesSecret
  <2> SUFFICES ASSUME SigningInv, pc = "signed"
      PROVE
        \A s \in Between(-ETA, ETA) :
          /\ \A j \in Column, k \in Index :
               LET x == reduce32(z[j][k] - Product(cp, s)[k]) IN -GAMMA1 < x /\ x <= GAMMA1
          /\ high(CommitmentWith(s)) = w1
    BY DEF ResponseHidesSecret
  <2>1. KeysAgree /\ Committed /\ ResponseIsShort /\ LowBitsAreShort
    BY DEF SigningInv
  <2>2. \A s \in Between(-ETA, ETA), j \in Column, k \in Index :
          LET x == reduce32(z[j][k] - Product(cp, s)[k]) IN -GAMMA1 < x /\ x <= GAMMA1
    BY <2>1, OtherMaskInRange
  <2>3. \A s \in Between(-ETA, ETA) : high(CommitmentWith(s)) = w1
    BY <2>1, PublicHighBits
  <2> QED
    BY <2>2, <2>3
<1> QED
  BY <1>1, SigningStepsAgree, PTL
=============================================================================
