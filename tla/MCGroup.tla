------------------------------- MODULE MCGroup ------------------------------
(* The curve with d = 11 over the field of 109 = 2^7 - 19 elements has       *)
(* 104 = 8 * 13 points: as in ecdh25519, -1 is a square, d and -d are not,   *)
(* and the group is cyclic of order eight times a prime.  A behaviour is of  *)
(* the operations of group.h on two points (Ristretto) or of the key         *)
(* exchange (ScalarMult) with scalars of two bytes, so that the loop over    *)
(* the bits goes from the first byte to the second.                          *)
EXTENDS Ristretto, ScalarMult

VARIABLE part
groupVars == <<vars, exchangeVars, part>>

GroupInit ==
  \/ /\ part = "points"
     /\ Init
     /\ sk = [x \in Parties |-> 7] /\ ExchangeInit
  \/ /\ part = "exchange"
     /\ P = group_ge_neutral /\ Q = P /\ eP = 0 /\ eQ = 0 /\ string = 0 /\ Init
     /\ ExchangeInit

GroupNext ==
  /\ \/ part = "points" /\ Next /\ UNCHANGED exchangeVars
     \/ part = "exchange" /\ ExchangeNext /\ UNCHANGED vars
  /\ UNCHANGED part

GroupSpec == GroupInit /\ [][GroupNext]_groupVars

MCGen == <<1, 14>>
MCStrings == 0 .. 127
=============================================================================
