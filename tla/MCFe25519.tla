----------------------------- MODULE MCFe25519 ------------------------------
(* p = 2^14 - 3 with three limbs of five bits (the top one of four) and     *)
(* wide limbs of 4, 3, 4, 3 bits: as in the code the top limb is one bit    *)
(* short of a byte, odd wide limbs are one bit short of even ones, and p is *)
(* 5 modulo 8.                                                              *)
EXTENDS Fe25519

MCRadix == [i \in 0 .. 3 |-> IF i % 2 = 0 THEN 16 ELSE 8]

\* Limbs next to a bound (0, 1, the low limb of p, the largest byte, half of
\* it): among the numbers are p - 1, p, p + 1, 2^14 - 1 and some with bit 14
\* set, which fe25519_unpack drops.
MCStart ==
  {[i \in 0 .. 2 |-> x[i + 1]] :
     x \in ({0, 1, 28, 29, 30, 31} \X {0, 31} \X {0, 15, 31}) \cup {<<17, 9, 5>>}}
=============================================================================
