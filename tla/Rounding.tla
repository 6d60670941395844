------------------------------ MODULE Rounding ------------------------------
(***************************************************************************)
(* Coefficients of ML-DSA: the reductions of ml-dsa/reduce.c and the       *)
(* rounding and the hints of ml-dsa/rounding.c.  What the shifts and masks *)
(* of decompose compute is HighBits; the two forms they have in the source *)
(* are HighBits32 and HighBits88, for GAMMA2 = (Q-1)/32 and (Q-1)/88 (the  *)
(* proofs are in SigningProofs).                                          *)
(***************************************************************************)
EXTENDS Integers

CONSTANTS
  Q,       \* the prime
  QBits,   \* Q is a little less than 2^QBits
  D,       \* the bits power2round cuts off
  GAMMA2   \* half of ALPHA, the width of a high-bits interval

ALPHA == 2 * GAMMA2
Highs == (Q - 1) \div ALPHA   \* how many values the high bits have

ASSUME RoundingAssumption ==
  /\ {Q, QBits, D, GAMMA2} \subseteq Nat \ {0}
  /\ Q - 1 = Highs * ALPHA

-----------------------------------------------------------------------------
reduce32(a) == a - ((a + 2 ^ (QBits - 1)) \div 2 ^ QBits) * Q
caddq(a) == IF a < 0 THEN a + Q ELSE a

power2round(a) ==
  LET a1 == (a + 2 ^ (D - 1) - 1) \div 2 ^ D IN [a1 |-> a1, a0 |-> a - a1 * 2 ^ D]

HighBits32(a) == ((((a + 127) \div 2 ^ 7) * 1025 + 2 ^ 21) \div 2 ^ 22) % 16
HighBits88(a) ==
  LET a1 == (((a + 127) \div 2 ^ 7) * 11275 + 2 ^ 23) \div 2 ^ 24
  IN IF a1 > 43 THEN 0 ELSE a1

HighBits(a) == ((a + GAMMA2 - 1) \div ALPHA) % Highs

\* The low bits: centred, so that next to Q they are negative and a1 is 0.
LowBits(a, a1) == LET a0 == a - a1 * ALPHA IN IF a0 > (Q - 1) \div 2 THEN a0 - Q ELSE a0

decompose(a) == [a1 |-> HighBits(a), a0 |-> LowBits(a, HighBits(a))]

\* Mutant: the end of the interval that belongs to the next one is forgotten.
make_hint_closed(a0, a1) == IF a0 > GAMMA2 \/ a0 < -GAMMA2 THEN 1 ELSE 0

make_hint(a0, a1) ==
  IF a0 > GAMMA2 \/ a0 < -GAMMA2 \/ (a0 = -GAMMA2 /\ a1 # 0) THEN 1 ELSE 0

use_hint(a, hint) ==
  LET x == decompose(a) IN
  CASE hint = 0 -> x.a1
    [] hint # 0 /\ x.a0 > 0 -> (x.a1 + 1) % Highs
    [] hint # 0 /\ x.a0 <= 0 -> (x.a1 - 1) % Highs
=============================================================================
