----------------------------- MODULE Ristretto ------------------------------
(***************************************************************************)
(* The operations of ecdh25519/group.h, one at a time: the machine keeps   *)
(* two points and a packed string, and beside them the exponents of the    *)
(* points as multiples of Gen.                                             *)
(***************************************************************************)
EXTENDS Group

CONSTANTS
  Strings,            \* the numbers a packed string may hold, below 2^255
  Zs,                 \* z coordinates the points of the first states have
  MaxOps              \* bound: operations applied to them

ASSUME RistrettoAssumption == Strings \subseteq Nat /\ Zs \subseteq Field \ {0}

-----------------------------------------------------------------------------
VARIABLES
  P, Q,    \* two points
  eP, eQ,  \* their exponents
  string,  \* a packed point, or what was received for one
  ops      \* operations applied

vars == <<P, Q, eP, eQ, string, ops>>

Init ==
  /\ ops = 0
  /\ \/ /\ \E e, f \in Even, y, z \in Zs :
             /\ eP = e /\ P = Representative(e, y)
             /\ eQ = f /\ Q = Representative(f, z)
        /\ string = 0
     \/ /\ P = group_ge_neutral /\ Q = group_ge_neutral
        /\ eP = 0 /\ eQ = 0
        /\ string \in Strings

Count == ops < MaxOps /\ ops' = ops + 1

AddPoints ==
  /\ Count
  /\ P' = group_ge_add(P, Q)
  /\ eP' = (eP + eQ) % Order
  /\ UNCHANGED <<Q, eQ, string>>

DoublePoint ==
  /\ Count
  /\ P' = group_ge_double(P)
  /\ eP' = (2 * eP) % Order
  /\ UNCHANGED <<Q, eQ, string>>

group_ge_cswap ==
  /\ Count
  /\ P' = Q /\ Q' = P
  /\ eP' = eQ /\ eQ' = eP
  /\ UNCHANGED <<string>>

PackPoint ==
  /\ Count
  /\ string' = group_ge_pack(P)
  /\ UNCHANGED <<P, Q, eP, eQ>>

\* A string that is not rejected stands for some even multiple.
UnpackPoint ==
  LET u == group_ge_unpack(string) IN
  /\ Count
  /\ u.ret = 0
  /\ P' = u.point
  /\ eP' = IF \E e \in Even : Represents(P', e)
           THEN CHOOSE e \in Even : Represents(P', e) ELSE 0
  /\ UNCHANGED <<Q, eQ, string>>

Next == AddPoints \/ DoublePoint \/ group_ge_cswap \/ PackPoint \/ UnpackPoint

Spec == Init /\ [][Next]_vars

-----------------------------------------------------------------------------
\* The formulas for addition and doubling are complete: for every pair of
\* points, equal, opposite, neutral or of order 2 and 4, in every coordinates,
\* the result is their sum; an unpacked string is a point of the curve.
PointsAreMultiples == Represents(P, eP) /\ Represents(Q, eQ)

\* Two points have the same packed form exactly if they differ by a point whose
\* order divides 4: the coordinates and the torsion leave no trace.
PackIsCanonical == (group_ge_pack(P) = group_ge_pack(Q)) <=> SamePacked(eP, eQ)

\* Packing gives back the string that was unpacked, and rejected are exactly
\* the strings that no point is packed to.
UnpackInvertsPack ==
  LET u == group_ge_unpack(string) IN
  IF u.ret = 0 THEN group_ge_pack(u.point) = string % p
  ELSE \A e \in Even : group_ge_pack(Representative(e, 1)) # string % p
=============================================================================
