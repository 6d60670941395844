------------------------------ MODULE Signing -------------------------------
(***************************************************************************)
(* ML-DSA (ml-dsa/sign.c): key generation, the rejection loop of           *)
(* crypto_sign_signature_internal test by test, and verification, over     *)
(* polynomials of N coefficients modulo x^N + 1.  The transforms are left  *)
(* out: a product is a residue, which reduce32 centres as the inverse      *)
(* transform does.  The samplers are nondeterministic choices, the         *)
(* challenge hash is the term of what is hashed.                           *)
(***************************************************************************)
EXTENDS Rounding, FiniteSets

CONSTANTS
  N, K, L,
  ETA, TAU, GAMMA1, OMEGA,
  Word,         \* 2^16, the range of the sampler's nonce
  Material,     \* what a seed expands to: [mat, s1, s2]
  MaskCoeffs,   \* the coefficients of y there are
  Mus,          \* digests of key, context and message
  MaxAttempts   \* bound: turns of the loop

BETA == TAU * ETA
Index == 0 .. N - 1
Row == 0 .. K - 1
Column == 0 .. L - 1
Between(lo, hi) == [Index -> lo .. hi]

ASSUME SigningAssumption ==
  /\ {N, K, L, ETA, TAU, GAMMA1, OMEGA, Word, MaxAttempts} \subseteq Nat \ {0}
  /\ BETA < GAMMA1 /\ BETA < GAMMA2
  /\ MaskCoeffs \subseteq 1 - GAMMA1 .. GAMMA1

\* What a seed expands to.
ASSUME MaterialAssumption ==
  \A m \in Material :
    /\ m.mat \in [Row -> [Column -> [Index -> 0 .. Q - 1]]]
    /\ m.s1 \in [Column -> Between(-ETA, ETA)] /\ m.s2 \in [Row -> Between(-ETA, ETA)]

\* The widths that reduce32, power2round and the fields of the keys work with:
\* q is so near to 2^bits that a sum of l residues, or what is left of it and a
\* short coefficient, is centred in one step.  (The second and the third line
\* are arithmetic.)
Fits(q, bits, d, gamma1, eta, l) ==
  LET half == 2 ^ (bits - 1)
      most == (l * (q - 1) + half) \div 2 ^ bits
  IN
  /\ \A b \in 0 .. bits : 2 ^ b \in Nat \ {0}
  /\ d < bits /\ 2 ^ d = 2 * 2 ^ (d - 1)
  /\ 2 ^ bits = 2 * half /\ 2 ^ bits = 2 ^ d * 2 ^ (bits - d)
  /\ q + 2 ^ (d - 1) <= 2 ^ bits + 1
  /\ half + gamma1 <= q /\ half + eta <= q /\ 3 * half <= 2 * q
  /\ half + most * (2 ^ bits - q) + eta <= q
  /\ \A n \in {2 * gamma1 - 1, 2 * eta} :
       \E b \in 1 .. bits : 2 ^ (b - 1) <= n /\ n < 2 ^ b
ASSUME WidthAssumption == Fits(Q, QBits, D, GAMMA1, ETA, L)

-----------------------------------------------------------------------------
\* Operations on a coefficient, a polynomial and a vector.
Map(Op(_), v) == [r \in DOMAIN v |-> [k \in Index |-> Op(v[r][k])]]
Map2(Op(_, _), u, v) == [r \in DOMAIN u |-> [k \in Index |-> Op(u[r][k], v[r][k])]]
Add(u, v) == Map2(LAMBDA a, b : a + b, u, v)
Sub(u, v) == Map2(LAMBDA a, b : a - b, u, v)

\* The loops that add.
Sum(f, n) ==
  LET s[i \in 0 .. n] == IF i = 0 THEN 0 ELSE s[i - 1] + f[i - 1] IN s[n]

Product(a, b) ==
  [k \in Index |->
     Sum([i \in Index |-> IF i <= k THEN a[i] * b[k - i] ELSE -(a[i] * b[N + k - i])], N) % Q]
pointwise_poly(c, v) == [r \in DOMAIN v |-> Product(c, v[r])]
matrix_pointwise(mat, v) ==
  [r \in Row |-> [k \in Index |-> Sum([j \in Column |-> Product(mat[r][j], v[j])[k]], L)]]

reduce(v) == Map(reduce32, v)
standard(v) == Map(LAMBDA a : caddq(reduce32(a)), v)
high(v) == Map(LAMBDA a : decompose(a).a1, v)
low(v) == Map(LAMBDA a : decompose(a).a0, v)

Abs(a) == IF a < 0 THEN -a ELSE a

\* No bound above (Q-1)/8 is met.
chknorm(v, bound) ==
  \/ bound > (Q - 1) \div 8
  \/ \E r \in DOMAIN v, k \in Index : Abs(v[r][k]) >= bound

\* The fixed-width fields of keys and signatures, and back.
Field(from, width, v) == Map(LAMBDA a : (from - a) % 2 ^ width, v)
UnField(from, v) == Map(LAMBDA f : from - f, v)
BitsFor(n) == CHOOSE b \in 1 .. QBits : 2 ^ (b - 1) <= n /\ n < 2 ^ b
polyz_pack(v) == Field(GAMMA1, BitsFor(2 * GAMMA1 - 1), v)
polyz_unpack(v) == UnField(GAMMA1, v)
polyeta_pack(v) == Field(ETA, BitsFor(2 * ETA), v)
polyeta_unpack(v) == UnField(ETA, v)
polyt0_pack(v) == Field(2 ^ (D - 1), D, v)
polyt0_unpack(v) == UnField(2 ^ (D - 1), v)
polyt1_pack(v) == Map(LAMBDA a : a % 2 ^ (QBits - D), v)

-----------------------------------------------------------------------------
VARIABLES
  pk, sk,    \* the keys
  mu,        \* what is signed
  nonce,     \* the nonce of the loop
  used,      \* the nonces the sampler was given since the loop began
  turns,     \* turns of the loop
  pc,        \* the test that is next
  y, z, w1, w0,  \* the local variables
  ctilde, cp,    \* the challenge hash and its polynomial
  sig,       \* the signature
  asked,     \* what it was verified for
  ret        \* what verification returned

locals == <<y, z, w1, w0, ctilde, cp>>
vars == <<pk, sk, mu, nonce, used, turns, pc, locals, sig, asked, ret>>

None == << >>
Dead == /\ y' = None /\ z' = None /\ w1' = None /\ w0' = None
        /\ ctilde' = None /\ cp' = None

Init ==
  /\ pk = None /\ sk = None /\ mu = None
  /\ nonce = 0 /\ used = {} /\ turns = 0
  /\ pc = "start"
  /\ y = None /\ z = None /\ w1 = None /\ w0 = None /\ ctilde = None /\ cp = None
  /\ sig = None /\ asked = None /\ ret = None

crypto_sign_keypair_internal(m) ==
  LET t == Map(caddq, Add(reduce(matrix_pointwise(m.mat, m.s1)), m.s2))
      t1 == Map(LAMBDA a : power2round(a).a1, t)
      t0 == Map(LAMBDA a : power2round(a).a0, t)
  IN
  /\ pc = "start" /\ pc' = "keys"
  /\ pk' = [mat |-> m.mat, t1 |-> polyt1_pack(t1)]
  /\ sk' = [mat |-> m.mat, s1 |-> polyeta_pack(m.s1), s2 |-> polyeta_pack(m.s2),
            t0 |-> polyt0_pack(t0)]
  /\ UNCHANGED <<mu, nonce, used, turns, locals, sig, asked, ret>>

s1 == polyeta_unpack(sk.s1)
s2 == polyeta_unpack(sk.s2)
t0 == polyt0_unpack(sk.t0)

crypto_sign_signature_internal(digest) ==
  /\ pc = "keys" /\ pc' = "rej"
  /\ mu' = digest
  /\ nonce' = 0 /\ used' = {} /\ turns' = 0
  /\ UNCHANGED <<pk, sk, locals, sig, asked, ret>>

\* Mutant: the vectors of two turns overlap.
MaskNonceStep(n, i) == n + i
\* The sampler's nonce for polynomial i of the n-th vector y.
MaskNonce(n, i) == L * n + i

Challenges ==
  {c \in [Index -> {-1, 0, 1}] : Cardinality({k \in Index : c[k] # 0}) = TAU}

\* One turn up to the challenge: y, w = A y, the hash of w1, its polynomial.
rej ==
  /\ pc = "rej" /\ pc' = "z"
  /\ turns < MaxAttempts /\ turns' = turns + 1
  /\ used' = used \cup {MaskNonce(nonce, i) % Word : i \in Column}
  /\ nonce' = (nonce + 1) % Word
  /\ y' \in [Column -> [Index -> MaskCoeffs]]
  /\ LET w == standard(matrix_pointwise(sk.mat, y'))
     IN w1' = high(w) /\ w0' = low(w)
  /\ ctilde' = <<mu, w1'>>
  /\ cp' \in Challenges
  /\ UNCHANGED <<pk, sk, mu, z, sig, asked, ret>>

Reject == pc' = "rej" /\ Dead /\ UNCHANGED sig

\* Mutant: the bound of the mask itself.
ZBoundWide == GAMMA1
ZBound == GAMMA1 - BETA

test_z ==
  LET x == reduce(Add(pointwise_poly(cp, s1), y)) IN
  /\ pc = "z"
  /\ \/ chknorm(x, ZBound) /\ Reject
     \/ /\ ~ chknorm(x, ZBound)
        /\ pc' = "w0" /\ z' = x
        /\ UNCHANGED <<y, w1, w0, ctilde, cp, sig>>
  /\ UNCHANGED <<pk, sk, mu, nonce, used, turns, asked, ret>>

\* Mutant: the bound of the low bits themselves.
WBoundWide == GAMMA2
WBound == GAMMA2 - BETA

test_w0 ==
  LET x == reduce(Sub(w0, pointwise_poly(cp, s2))) IN
  /\ pc = "w0"
  /\ \/ chknorm(x, WBound) /\ Reject
     \/ /\ ~ chknorm(x, WBound)
        /\ pc' = "h" /\ w0' = x
        /\ UNCHANGED <<y, z, w1, ctilde, cp, sig>>
  /\ UNCHANGED <<pk, sk, mu, nonce, used, turns, asked, ret>>

Weight(h) == Sum([r \in Row |-> Sum(h[r], N)], K)

HintsFail(ct0, h) == chknorm(ct0, GAMMA2) \/ Weight(h) > OMEGA

\* The third test, the hints, and the number of them; then the signature.
make_signature ==
  LET ct0 == reduce(pointwise_poly(cp, t0))
      h == Map2(make_hint, Add(w0, ct0), w1)
  IN
  /\ pc = "h"
  /\ \/ HintsFail(ct0, h) /\ Reject
     \/ /\ ~ HintsFail(ct0, h)
        /\ pc' = "signed"
        /\ sig' = [c |-> ctilde, z |-> polyz_pack(z), h |-> h]
        /\ UNCHANGED locals
  /\ UNCHANGED <<pk, sk, mu, nonce, used, turns, asked, ret>>

\* A z - c t1 2^D, and what the hints make of it.
Recomputed(s) ==
  standard(Sub(matrix_pointwise(pk.mat, polyz_unpack(s.z)),
               pointwise_poly(cp, Map(LAMBDA a : a * 2 ^ D, pk.t1))))

crypto_sign_verify_internal(digest) ==
  LET c2 == <<digest, Map2(use_hint, Recomputed(sig), sig.h)>> IN
  /\ pc = "signed" /\ pc' = "verified"
  /\ asked' = digest
  /\ ret' = IF chknorm(polyz_unpack(sig.z), GAMMA1 - BETA) \/ sig.c # c2 THEN -1 ELSE 0
  /\ UNCHANGED <<pk, sk, mu, nonce, used, turns, locals, sig>>

Next ==
  \/ \E m \in Material : crypto_sign_keypair_internal(m)
  \/ \E digest \in Mus :
       crypto_sign_signature_internal(digest) \/ crypto_sign_verify_internal(digest)
  \/ rej \/ test_z \/ test_w0 \/ make_signature

Spec == Init /\ [][Next]_vars

-----------------------------------------------------------------------------
\* The signature the loop ends with is accepted for what was signed and for
\* nothing else: the verifier, who knows neither t0 nor w, gets w1 back from
\* the hints, whatever the secrets, the mask and the challenge were.
SignatureVerifies == pc = "verified" => (ret = 0 <=> asked = mu)

\* A signature that leaves the loop fits every short s1 and s2 that give the same
\* public t: a mask in range gives the same z with them, and what it commits to,
\* A z - c (t - s2), has the high bits w1 that were hashed.
t == Add(Map(LAMBDA a : a * 2 ^ D, pk.t1), t0)
CommitmentWith(s) ==
  standard(Sub(matrix_pointwise(pk.mat, z), pointwise_poly(cp, Sub(t, [r \in Row |-> s]))))
ResponseHidesSecret ==
  pc = "signed" =>
    \A s \in Between(-ETA, ETA) :
      /\ \A j \in Column, k \in Index :
           LET x == reduce32(z[j][k] - Product(cp, s)[k]) IN -GAMMA1 < x /\ x <= GAMMA1
      /\ high(CommitmentWith(s)) = w1

\* No two polynomials of the masks of one signature are sampled with the same
\* nonce, in one turn of the loop or in two, until every nonce there is was used.
MasksAreFresh ==
  Cardinality(used) = IF L * turns <= Word THEN L * turns ELSE Word
=============================================================================
