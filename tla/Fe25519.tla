------------------------------ MODULE Fe25519 -------------------------------
(***************************************************************************)
(* ecdh25519/fe25519.c and fe25519_mul.S: arithmetic modulo p = M - C      *)
(* (2^255 - 19) on N limbs of one byte each, kept in 32-bit words so that  *)
(* carries may wait.  Additions and subtractions carry on these limbs;     *)
(* products are computed on n wider limbs of Radix[i] values with signed   *)
(* carries, and contracted back to bytes.                                  *)
(*                                                                         *)
(* The machine keeps two field elements and applies one operation at a     *)
(* time, so that every operation is seen on what the others leave behind.  *)
(***************************************************************************)
EXTENDS Integers, Functions

CONSTANTS
  B,         \* values of a byte, 2^8
  Top,       \* values of the last limb of a number below M, 2^7
  N,         \* limbs, 32
  W,         \* values of a word, 2^32
  C,         \* 19
  n,         \* wide limbs, 10
  Radix,     \* the values of each: 2^26, 2^25, 2^26, ...
  Start,     \* the arrays of bytes the machine begins with
  MaxOps     \* bound: operations applied to them

Limb == 0 .. N - 1
Wide == 0 .. n - 1

\* The weight of limb i and of wide limb i.
Weight[i \in 0 .. N] == IF i = 0 THEN 1 ELSE B * Weight[i - 1]
WideWeight[i \in 0 .. n] == IF i = 0 THEN 1 ELSE Radix[i - 1] * WideWeight[i - 1]

M == Top * Weight[N - 1]
p == M - C

\* What the product of limbs i and j counts in limb (i + j) % n: limbs of half
\* bits make a 2, and 2^255 is 19.
Factor(i, j) ==
  IF i + j < n THEN (WideWeight[i] * WideWeight[j]) \div WideWeight[i + j]
  ELSE C * ((WideWeight[i] * WideWeight[j]) \div (M * WideWeight[i + j - n]))

\* No product has a larger value.
LargestProduct ==
  SumFunction([k \in Wide |-> WideWeight[k] * SumFunction([i \in Wide |->
    LET j == (k + n - i) % n IN Factor(i, j) * (Radix[i] - 1) * (Radix[j] - 1)])])

ASSUME Fe25519Assumption ==
  /\ {B, Top, N, W, C, n, MaxOps} \subseteq Nat
  /\ N > 1 /\ n > 2
  /\ B % 2 = 0 /\ 0 < C /\ 2 * C <= B /\ 4 <= Top /\ Top <= B /\ 4 * B <= W
  /\ Start \subseteq [Limb -> 0 .. B - 1]

\* The wide limbs hold the same numbers, a product of two weights is a multiple
\* of the weight where it is counted, and what is carried out of the last limb
\* of a product is small enough for two more rounds of carries.
ASSUME WideAssumption ==
  /\ Radix \in [Wide -> Nat \ {0}]
  /\ WideWeight[n] = M
  /\ \A i, j \in Wide :
       (WideWeight[i] * WideWeight[j])
         % (IF i + j < n THEN WideWeight[i + j] ELSE M * WideWeight[i + j - n]) = 0
  /\ C * (LargestProduct \div M + 4) <= M

\* The number an array of limbs stands for.
Value(r) == SumFunction([i \in Limb |-> r[i] * Weight[i]])

-----------------------------------------------------------------------------
\* One repetition of reduce_add_sub: the top bits come back times 19, then
\* every limb hands what exceeds a byte to the next; t[i] is limb i before it
\* is masked.
Pass(r) ==
  LET t[i \in Limb] ==
        LET own == IF i = N - 1 THEN r[i] % Top ELSE r[i]
        IN IF i = 0 THEN (own + C * (r[N - 1] \div Top)) % W
           ELSE (own + t[i - 1] \div B) % W
  IN [i \in Limb |-> IF i = N - 1 THEN t[i] ELSE t[i] % B]

\* Mutant: one repetition less.
ReduceOnce(r) == Pass(r)
reduce_add_sub(r) == Pass(Pass(r))

fe25519_add(x, y) == reduce_add_sub([i \in Limb |-> (x[i] + y[i]) % W])

fe25519_double(x) == reduce_add_sub([i \in Limb |-> (2 * x[i]) % W])

\* The limbs of p.
P(i) == IF i = 0 THEN B - C ELSE IF i = N - 1 THEN Top - 1 ELSE B - 1

\* 0x1da, 0x1fe, ..., 0x1fe, 0xfe: the limbs of 2p, so that no limb underflows.
SubOffset(i) == 2 * P(i)

fe25519_sub(x, y) == reduce_add_sub([i \in Limb |-> (x[i] + SubOffset(i) - y[i]) % W])

fe25519_zero == [i \in Limb |-> 0]
fe25519_neg(x) == fe25519_sub(fe25519_zero, x)

\* Mutant: >= p is tested as > p.
FreezeStrict(r) ==
  IF r[0] > P(0) /\ \A i \in Limb \ {0} : r[i] = P(i)
  THEN [i \in Limb |-> r[i] - P(i)] ELSE r

\* Subtracts p from the C values p .. M - 1.
fe25519_freeze(r) ==
  IF r[0] >= P(0) /\ \A i \in Limb \ {0} : r[i] = P(i)
  THEN [i \in Limb |-> r[i] - P(i)] ELSE r

fe25519_unpack(x) == [x EXCEPT ![N - 1] = @ % Top]
fe25519_pack(x) == [i \in Limb |-> fe25519_freeze(x)[i] % B]
fe25519_iseq(x, y) == fe25519_freeze(x) = fe25519_freeze(y)
fe25519_isnegative(x) == fe25519_freeze(x)[0] % 2
fe25519_cmov(r, x, bit) == IF bit = 1 THEN x ELSE r

-----------------------------------------------------------------------------
\* The wide limbs of the bytes x; bit 255 is dropped.
Load(x) ==
  LET v == Value([i \in Limb |-> x[i] % B])
  IN [i \in Wide |-> (v \div WideWeight[i]) % Radix[i]]

Product(f, g) ==
  [k \in Wide |-> SumFunction([i \in Wide |->
     LET j == (k + n - i) % n IN Factor(i, j) * f[i] * g[j]])]

\* Every pair of limbs once, the unequal ones doubled.
SquareProduct(f) ==
  [k \in Wide |-> SumFunction([i \in Wide |->
     LET j == (k + n - i) % n
     IN IF i > j THEN 0 ELSE (IF i = j THEN 1 ELSE 2) * Factor(i, j) * f[i] * f[j]])]

\* Limb i is rounded to a signed remainder, the quotient goes to the next one.
RoundCarry(h, i) ==
  LET c == (h[i] + Radix[i] \div 2) \div Radix[i]
  IN [k \in Wide |->
        h[k] - (IF k = i THEN c * Radix[i] ELSE 0)
             + (IF k = (i + 1) % n THEN (IF i = n - 1 THEN C * c ELSE c) ELSE 0)]

\* The carries 0, 1, ..., 9, 0, 1.
RoundCarries(h) ==
  LET after[k \in 0 .. n + 2] == IF k = 0 THEN h ELSE RoundCarry(after[k - 1], (k - 1) % n)
  IN after[n + 2]

fe25519_mul_core_s(x, y) == RoundCarries(Product(Load(x), Load(y)))
fe25519_square_core_s(x) == RoundCarries(SquareProduct(Load(x)))

\* One chain of contract_limbs: arithmetic shifts and masks from limb 0 up.
Chain(f, wrap) ==
  LET t[i \in Wide] == IF i = 0 THEN f[0] ELSE f[i] + t[i - 1] \div Radix[i - 1]
  IN [i \in Wide |-> (t[i] % Radix[i])
                     + (IF i = 0 THEN wrap * (t[n - 1] \div Radix[n - 1]) ELSE 0)]

\* The bytes of wide limbs, shifted into place.
FromWide(f) ==
  LET v == SumFunction([i \in Wide |-> f[i] * WideWeight[i]])
  IN [i \in Limb |-> (v \div Weight[i]) % B]

\* Adding C and taking it away again subtracts p from what is not below p.
contract_limbs(h) ==
  LET f == Chain(Chain(h, C), C)
      u == Chain([f EXCEPT ![0] = @ + C], C)
      s == Chain([i \in Wide |-> u[i] + Radix[i] - (IF i = 0 THEN C ELSE 1)], 0)
  IN FromWide(s)

fe25519_mul(x, y) == contract_limbs(fe25519_mul_core_s(x, y))
fe25519_square(x) == contract_limbs(fe25519_square_core_s(x))

-----------------------------------------------------------------------------
VARIABLES
  a, b,    \* two field elements
  va, vb,  \* the residues modulo p they stand for
  ops      \* operations applied

vars == <<a, b, va, vb, ops>>

Init ==
  /\ \E x, y \in Start : a = fe25519_unpack(x) /\ b = fe25519_unpack(y)
  /\ va = Value(a) % p
  /\ vb = Value(b) % p
  /\ ops = 0

Set(r, v) ==
  /\ ops < MaxOps
  /\ a' = r
  /\ va' = v % p
  /\ ops' = ops + 1
  /\ UNCHANGED <<b, vb>>

Add == Set(fe25519_add(a, b), va + vb)
Double == Set(fe25519_double(a), 2 * va)
Sub == Set(fe25519_sub(a, b), va - vb)
Neg == Set(fe25519_neg(a), - va)
Mul == Set(fe25519_mul(a, b), va * vb)
Square == Set(fe25519_square(a), va * va)
Freeze == Set(fe25519_freeze(a), va)
Cmov == \E bit \in {0, 1} : Set(fe25519_cmov(a, b, bit), IF bit = 1 THEN vb ELSE va)

fe25519_cswap ==
  /\ ops < MaxOps
  /\ a' = b /\ b' = a
  /\ va' = vb /\ vb' = va
  /\ ops' = ops + 1

Next == Add \/ Double \/ Sub \/ Neg \/ Mul \/ Square \/ Freeze \/ Cmov \/ fe25519_cswap

Spec == Init /\ [][Next]_vars

-----------------------------------------------------------------------------
\* Every operation leaves bytes, and the top one below 2^7: two passes of
\* reduce_add_sub are enough, the casts of pack_nofreeze lose nothing, and the
\* single subtraction of fe25519_freeze is enough.
Carried(r) ==
  /\ r \in [Limb -> 0 .. B - 1]
  /\ r[N - 1] < Top

\* Whatever sequence of operations led to it, an element is carried and is the
\* residue it should be: no carry, no wrap and no underflow is lost.
FieldValue ==
  /\ Carried(a) /\ Carried(b)
  /\ Value(a) % p = va /\ Value(b) % p = vb

\* The packed form is the residue itself, so the comparisons and the sign are
\* those of the field.
PackIsCanonical ==
  /\ Value(fe25519_pack(a)) = va
  /\ fe25519_isnegative(a) = va % 2
  /\ fe25519_iseq(a, b) <=> va = vb
=============================================================================
