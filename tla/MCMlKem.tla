------------------------------- MODULE MCMlKem -------------------------------
(* Vectors of two polynomials, two keys, two messages to each, every single *)
(* byte of a ciphertext raised by one.                                      *)
EXTENDS MlKem

MCKeyCoins == {[d |-> 1, z |-> "z1"], [d |-> 2, z |-> "z2"]}
MCMessages == {[i \in Index |-> i % 2], [i \in Index |-> IF i < 3 THEN 1 ELSE 0]}
=============================================================================
