----------------------------- MODULE Reduction ------------------------------
(***************************************************************************)
(* poly_reduce and poly_caddq of ml-dsa/poly.c on one coefficient: the two *)
(* calls after which a coefficient is taken for a standard representative. *)
(***************************************************************************)
EXTENDS Rounding

CONSTANT Inputs   \* 32-bit words up to 2^31 - 2^22 - 1

VARIABLES a, pc
vars == <<a, pc>>

Init == a \in Inputs /\ pc = "given"

poly_reduce == pc = "given" /\ pc' = "reduced" /\ a' = reduce32(a)
poly_caddq == pc = "reduced" /\ pc' = "standard" /\ a' = caddq(a)

Next == poly_reduce \/ poly_caddq
Spec == Init /\ [][Next]_vars

-----------------------------------------------------------------------------
\* The comment of reduce32: for every word it may be given, the result is
\* between -6283008 and 6283008.
ReducedInRange == pc = "reduced" => -6283008 <= a /\ a <= 6283008

-----------------------------------------------------------------------------
\* Words at both ends of the quotients of the reduction: below, at and above the
\* points where it changes.
MCInputs ==
  {k * 2 ^ 23 + e : k \in -255 .. 254, e \in {-4194304, -4194303, -1, 0, 1, 4194302, 4194303}}
=============================================================================
