-------------------------------- MODULE MlKem --------------------------------
(***************************************************************************)
(* ML-KEM (ml-kem/kem.c) between key owners and senders: key pairs, the    *)
(* ciphertexts sent to them, and what they get out of a ciphertext that    *)
(* reaches them, which may have been meant for another key or changed on   *)
(* the way.  Secrets are terms: two are equal only if they were derived    *)
(* from the same values.                                                   *)
(***************************************************************************)
EXTENDS IndCpa

CONSTANTS
  KeyCoins,   \* what randombytes may give crypto_kem_keypair: [d, z]
  Messages,   \* what it may give crypto_kem_enc
  Changes,    \* what may be added to a byte of a ciphertext on the way
  MaxKeys, MaxSent, MaxReceived

\* Coins are numbers, a message is a string of bits.
ASSUME MlKemAssumption ==
  /\ \A coins \in KeyCoins : coins.d \in Int
  /\ Messages \subseteq [Index -> {0, 1}]

VARIABLES
  keys,      \* the key pairs made, in order
  sent,      \* a record for each call of crypto_kem_enc
  received   \* and for each call of crypto_kem_dec

vars == <<keys, sent, received>>

Init == keys = << >> /\ sent = {} /\ received = {}

-----------------------------------------------------------------------------
hash_h(pk) == <<pk.t, pk.seed>>
BytesOf(pk) == [i \in 1 .. KYBER_K |-> Digest(pk.t[i - 1])] \o <<pk.seed>>

\* hash_g of the message and H(pk): the shared secret and the coins.
hash_g_key(m, h) == [kind |-> "key", m |-> m, h |-> h]
hash_g_coins(m, pk) == Digest([i \in 1 .. KYBER_N |-> m[i - 1]] \o BytesOf(pk))

\* Mutant: the rejection key does not depend on the ciphertext.
rkprf_z(z, ct) == [kind |-> "reject", z |-> z]
rkprf(z, ct) == [kind |-> "reject", z |-> z, ct |-> ct]

\* Mutant: the bytes of v are not compared.
verify_part(a, b) == IF \A i \in 1 .. POLYVECCOMPRESSEDBYTES : a[i] = b[i] THEN 0 ELSE 1
verify(a, b) == IF \A i \in 1 .. CIPHERTEXTBYTES : a[i] = b[i] THEN 0 ELSE 1

crypto_kem_keypair_derand(coins) ==
  LET kp == indcpa_keypair_derand(coins.d) IN
  [pk |-> kp.pk,
   sk |-> [s |-> kp.sk, pk |-> kp.pk, h |-> hash_h(kp.pk), z |-> coins.z]]

crypto_kem_enc_derand(pk, coins) ==
  [ct |-> indcpa_enc(coins, pk, hash_g_coins(coins, pk)),
   ss |-> hash_g_key(coins, hash_h(pk))]

crypto_kem_dec(ct, sk) ==
  LET m == indcpa_dec(ct, sk.s)
      cmp == indcpa_enc(m, sk.pk, hash_g_coins(m, sk.pk))
      fail == verify(ct, cmp)
  IN IF fail = 0 THEN hash_g_key(m, sk.h) ELSE rkprf(sk.z, ct)

-----------------------------------------------------------------------------
crypto_kem_keypair ==
  /\ Len(keys) < MaxKeys
  /\ \E coins \in KeyCoins : keys' = Append(keys, crypto_kem_keypair_derand(coins))
  /\ UNCHANGED <<sent, received>>

crypto_kem_enc(k) ==
  /\ Cardinality(sent) < MaxSent
  /\ \E m \in Messages :
       LET r == crypto_kem_enc_derand(keys[k].pk, m) IN
       sent' = sent \cup {[to |-> keys[k].pk, ct |-> r.ct, ss |-> r.ss]}
  /\ UNCHANGED <<keys, received>>

\* The ciphertext arrives as it was sent, or with one byte changed.
Arrivals(ct) ==
  {ct} \cup {[ct EXCEPT ![i] = (@ + x) % 256] : i \in 1 .. Len(ct), x \in Changes}

Deliver(k) ==
  /\ Cardinality(received) < MaxReceived
  /\ \E e \in sent : \E ct \in Arrivals(e.ct) :
       received' = received \cup
         {[by |-> keys[k].sk, ct |-> ct, ss |-> crypto_kem_dec(ct, keys[k].sk)]}
  /\ UNCHANGED <<keys, sent>>

Next ==
  \/ crypto_kem_keypair
  \/ \E k \in 1 .. Len(keys) : crypto_kem_enc(k) \/ Deliver(k)

Spec == Init /\ [][Next]_vars

-----------------------------------------------------------------------------
\* Both sides of an exchange hold the same secret if the ciphertext arrives.
SecretsAgree ==
  \A e \in sent, r \in received : (e.ct = r.ct /\ e.to = r.by.pk) => e.ss = r.ss

\* A ciphertext that was changed or meant for another key never gives the
\* secret of the exchange.
ChangedIsRejected ==
  \A e \in sent, r \in received : e.ss = r.ss => (e.ct = r.ct /\ e.to = r.by.pk)

\* Under one secret key every ciphertext gives a secret of its own, the rejected
\* ones too: a rejection tells no more than an acceptance.
OneSecretPerCiphertext ==
  \A r1, r2 \in received : r1.by = r2.by => (r1.ss = r2.ss <=> r1.ct = r2.ct)
=============================================================================
