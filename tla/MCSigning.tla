----------------------------- MODULE MCSigning ------------------------------
(* The prime 113 with eight intervals of fourteen, two coefficients, two    *)
(* rows and two columns, BETA 2, and masks at both ends of their range and  *)
(* inside.  The keys: one with signatures of no, one, two and too many      *)
(* hints, one whose low bits fall on -GAMMA2, and one with so large a t0    *)
(* that c t0 is always refused.                                             *)
EXTENDS Signing

P(a, b) == [k \in 0 .. 1 |-> IF k = 0 THEN a ELSE b]
Matrix(a, b, c, d) ==
  [r \in 0 .. 1 |-> IF r = 0 THEN [j \in 0 .. 1 |-> IF j = 0 THEN a ELSE b]
                             ELSE [j \in 0 .. 1 |-> IF j = 0 THEN c ELSE d]]
Key(mat, sa, sb, ea, eb) ==
  [mat |-> mat, s1 |-> [j \in 0 .. 1 |-> IF j = 0 THEN sa ELSE sb],
                s2 |-> [r \in 0 .. 1 |-> IF r = 0 THEN ea ELSE eb]]

MCMaterial ==
  {Key(Matrix(P(66, 40), P(81, 88), P(52, 97), P(110, 84)), P(0, 1), P(1, -1), P(0, 1), P(0, 1)),
   Key(Matrix(P(62, 46), P(56, 100), P(105, 33), P(26, 66)),
       P(-1, 0), P(-1, 0), P(-1, 0), P(-1, -1)),
   Key(Matrix(P(12, 47), P(6, 73), P(76, 63), P(8, 1)), P(0, 0), P(-1, 1), P(0, 0), P(0, 1))}
\* The three parameter sets of ml-dsa/params.h fit.
ASSUME ParameterSetsFit ==
  \A s \in {<<131072, 2, 4>>, <<524288, 4, 5>>, <<524288, 2, 7>>} :
    Fits(8380417, 23, 13, s[1], s[2], s[3])

MCMask == {-7, -3, 0, 3, 6, 8}
=============================================================================
