------------------------------- MODULE IndCpa -------------------------------
(***************************************************************************)
(* The encryption scheme inside ML-KEM: ml-kem/indcpa.c with the noise,    *)
(* the vectors and their packing (cbd.c, polyvec.c, poly.c), parameters of *)
(* the 768 set.  A polynomial has KYBER_N coefficients and is multiplied   *)
(* modulo x^n + 1; the NTT is left out, so that both domains are the same. *)
(* Hashes are functions of their inputs; keccak is modelled elsewhere.     *)
(***************************************************************************)
EXTENDS KyberCoeff, Sequences, FiniteSets

CONSTANTS KYBER_K, KYBER_N

\* Ciphertexts are packed four coefficients at a time.
ASSUME IndCpaAssumption ==
  /\ KYBER_K \in Nat \ {0}
  /\ KYBER_N \in Nat \ {0} /\ KYBER_N % 4 = 0

Index == 0 .. KYBER_N - 1
Row == 0 .. KYBER_K - 1
Byte == 0 .. 255
POLYBYTES == (3 * KYBER_N) \div 2

-----------------------------------------------------------------------------
\* Digests: numbers that depend on every part of what is hashed.
Digest(s) ==
  LET mix[i \in 0 .. Len(s)] ==
        IF i = 0 THEN 1
        ELSE LET y == (251 * mix[i - 1] + 97 * s[i] + 11) % 32749 IN (y * y + y) % 32749
  IN mix[Len(s)]

\* xof_absorb and rej_uniform: a polynomial of the matrix; prf: bytes of noise.
xof(seed, x, y) == [i \in Index |-> Digest(<<seed, x, y, i>>) % KYBER_Q]
prf(seed, nonce) == [i \in 0 .. KYBER_N \div 2 - 1 |-> Digest(<<seed, nonce, i, 3>>) % 256]

\* cbd2: two bits count up and two count down for every coefficient.
cbd2(buf) ==
  [i \in Index |->
    LET t == buf[i \div 2] \div 16 ^ (i % 2)
        Bit(k) == (t \div 2 ^ k) % 2
    IN (Bit(0) + Bit(1)) - (Bit(2) + Bit(3))]

poly_getnoise(seed, nonce) == cbd2(prf(seed, nonce))

-----------------------------------------------------------------------------
\* Products modulo x^n + 1, as polyvec_basemul_acc_montgomery sums them up; the
\* residue stands for the representative that the transforms leave.
Sum(f, n) ==
  LET s[i \in 0 .. n] == IF i = 0 THEN 0 ELSE s[i - 1] + f[i - 1] IN s[n]

Term(a, b, k, i) ==
  IF i <= k THEN a[i] * b[k - i] ELSE -(a[i] * b[KYBER_N + k - i])
Product(a, b) ==
  [k \in Index |-> Sum([i \in Index |-> Term(a, b, k, i)], KYBER_N) % KYBER_Q]
polyvec_basemul_acc(a, b) ==
  [k \in Index |-> Sum([j \in Row |-> Product(a[j], b[j])[k]], KYBER_K) % KYBER_Q]

poly_add(a, b) == [k \in Index |-> Int16(a[k] + b[k])]
poly_sub(a, b) == [k \in Index |-> Int16(a[k] - b[k])]
poly_reduce(a) == [k \in Index |-> barrett_reduce(a[k])]

-----------------------------------------------------------------------------
\* Two coefficients of twelve bits in three bytes.
poly_tobytes(a) ==
  [n \in 1 .. POLYBYTES |->
    LET t == Unsigned(a[2 * ((n - 1) \div 3)])
        u == Unsigned(a[2 * ((n - 1) \div 3) + 1])
    IN CASE n % 3 = 1 -> t % 256
         [] n % 3 = 2 -> (t \div 2 ^ 8 + u * 2 ^ 4) % 256
         [] n % 3 = 0 -> (u \div 2 ^ 4) % 256]

poly_frombytes(a) ==
  [k \in Index |->
    LET n == 3 * (k \div 2) + 1 IN
    IF k % 2 = 0 THEN (a[n] + a[n + 1] * 2 ^ 8) % 2 ^ 12
    ELSE (a[n + 1] \div 2 ^ 4 + a[n + 2] * 2 ^ 4) % 2 ^ 12]

\* Five bytes, from byte n on, hold four coefficients of ten bits.
Unpack10(a, n, k) == (a[n + k] \div 2 ^ (2 * k) + a[n + k + 1] * 2 ^ (8 - 2 * k)) % 2 ^ 10

\* Two coefficients of four bits in a byte.
poly_compress(v) ==
  [n \in 1 .. KYBER_N \div 2 |-> compress4(v[2 * n - 2]) + 16 * compress4(v[2 * n - 1])]
poly_decompress(a) ==
  [k \in Index |-> decompress((a[k \div 2 + 1] \div 16 ^ (k % 2)) % 16, 4)]

COMPRESSEDBYTES == 5 * (KYBER_N \div 4)
POLYVECCOMPRESSEDBYTES == COMPRESSEDBYTES * KYBER_K
CIPHERTEXTBYTES == POLYVECCOMPRESSEDBYTES + KYBER_N \div 2

polyvec_compress(b) ==
  [n \in 1 .. POLYVECCOMPRESSEDBYTES |->
    LET i == (n - 1) \div COMPRESSEDBYTES
        j == ((n - 1) % COMPRESSEDBYTES) \div 5
        t(k) == compress10(b[i][4 * j + k])
    IN CASE n % 5 = 1 -> t(0) % 256
         [] n % 5 = 2 -> (t(0) \div 2 ^ 8 + t(1) * 2 ^ 2) % 256
         [] n % 5 = 3 -> (t(1) \div 2 ^ 6 + t(2) * 2 ^ 4) % 256
         [] n % 5 = 4 -> (t(2) \div 2 ^ 4 + t(3) * 2 ^ 6) % 256
         [] n % 5 = 0 -> t(3) \div 2 ^ 2]

polyvec_decompress(a) ==
  [i \in Row |-> [k \in Index |->
    decompress(Unpack10(a, COMPRESSEDBYTES * i + 5 * (k \div 4) + 1, k % 4), 10)]]

pack_ciphertext(b, v) == polyvec_compress(b) \o poly_compress(v)

-----------------------------------------------------------------------------
\* Mutant: the encryption uses the matrix of the key generation.
gen_matrix_untransposed(seed, i, transposed) == [j \in Row |-> xof(seed, j, i)]
\* Row i of the matrix or of its transpose.
gen_matrix(seed, i, transposed) ==
  [j \in Row |-> IF transposed THEN xof(seed, i, j) ELSE xof(seed, j, i)]

\* hash_g of d and the byte K gives the seed of the matrix and that of the noise.
indcpa_keypair_derand(d) ==
  LET publicseed == Digest(<<d, KYBER_K, 0>>)
      noiseseed == Digest(<<d, KYBER_K, 1>>)
      skpv == [i \in Row |-> poly_reduce(poly_getnoise(noiseseed, i))]
      e == [i \in Row |-> poly_getnoise(noiseseed, KYBER_K + i)]
      pkpv == [i \in Row |->
        poly_reduce(poly_add(polyvec_basemul_acc(gen_matrix(publicseed, i, FALSE), skpv), e[i]))]
  IN [sk |-> [i \in Row |-> poly_tobytes(skpv[i])],
      pk |-> [t |-> [i \in Row |-> poly_tobytes(pkpv[i])], seed |-> publicseed]]

indcpa_enc(m, pk, coins) ==
  LET pkpv == [i \in Row |-> poly_frombytes(pk.t[i])]
      sp == [i \in Row |-> poly_reduce(poly_getnoise(coins, i))]
      ep == [i \in Row |-> poly_getnoise(coins, KYBER_K + i)]
      epp == poly_getnoise(coins, 2 * KYBER_K)
      k == [i \in Index |-> frommsg(m[i])]
      b == [i \in Row |->
        poly_reduce(poly_add(polyvec_basemul_acc(gen_matrix(pk.seed, i, TRUE), sp), ep[i]))]
      v == poly_reduce(poly_add(poly_add(polyvec_basemul_acc(pkpv, sp), epp), k))
  IN pack_ciphertext(b, v)

indcpa_dec(c, sk) ==
  LET b == polyvec_decompress(c)
      v == poly_decompress(SubSeq(c, POLYVECCOMPRESSEDBYTES + 1, CIPHERTEXTBYTES))
      skpv == [i \in Row |-> poly_frombytes(sk[i])]
      mp == poly_reduce(poly_sub(v, polyvec_basemul_acc(skpv, b)))
  IN [i \in Index |-> tomsg(mp[i])]
=============================================================================
