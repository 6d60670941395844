--------------------------- MODULE MCPolynomials ----------------------------
(* How polynomials are made and multiplied.  A behaviour is of one of        *)
(*   "dilithium"  the samplers of ML-DSA (DilithiumSampling): 8 coefficients *)
(*                from blocks of 10 bytes, two of them at first, and three   *)
(*                draws a challenge.  10 is no multiple of three, as the 168 *)
(*                bytes of the source are: the move of what is left over is  *)
(*                then taken too;                                            *)
(*   "kyber"      the samplers of ML-KEM (KyberSampling): two by two entries *)
(*                of 4 coefficients from blocks of one pair of candidates;   *)
(*   "short"      the transform of ML-DSA (DilithiumNtt), 16 coefficients    *)
(*                modulo 641 in words of 15 bits: 25 * 640 = 16000 is the     *)
(*                largest below 2^14 for a prime with the roots;             *)
(*   "full"       the transform of ML-KEM (KyberNtt), all of its size.       *)
EXTENDS DilithiumNtt, KyberNtt

CONSTANTS
  SampleN, SampleQ, TAU, Block, NBlocks, Etas, Nonces,   \* of DilithiumSampling
  DilithiumStream(_, _),
  KYBER_N, KYBER_K, XOF_BLOCKBYTES, GEN_MATRIX_NBLOCKS, Streams, Words,   \* of KyberSampling
  KyberStream(_, _)

VARIABLES
  sq, buf, pos, ctr,   \* of both samplers
  fn, eta, nonce, buflen, sampled, seen, origin,
  at, transposed, xof, row, column, room, done, matrix, word, noise,
  part

Dilithium == INSTANCE DilithiumSampling
  WITH N <- SampleN, Q <- SampleQ, Stream <- DilithiumStream, a <- sampled
Kyber == INSTANCE KyberSampling
  WITH Byte <- KyberStream, i <- row, j <- column, len <- room, m <- matrix

ASSUME PolynomialsAssumption == Dilithium!SamplingParameters /\ Kyber!KyberSamplingParameters

samplers == <<sq, buf, pos, ctr>>
ofDilithium == <<fn, eta, nonce, buflen, sampled, seen, origin>>
ofKyber == <<at, transposed, xof, row, column, room, done, matrix, word, noise>>
polynomialsVars == <<nttVars, kyberVars, samplers, ofDilithium, ofKyber, part>>

PolynomialsInit ==
  /\ part \in {"dilithium", "kyber", "short", "full"}
  /\ Dilithium!Init /\ (part # "dilithium" => eta = 2 /\ nonce = 0)
  /\ Kyber!Init /\ (part # "kyber" => word = {} /\ xof = << >>)
  /\ NttInit /\ (part # "short" => factors = CHOOSE f \in Factors : TRUE)
  /\ KyberInit /\ (part # "full" => pair = CHOOSE p \in KyberInputs : TRUE)

PolynomialsNext ==
  /\ \/ part = "dilithium" /\ Dilithium!Next /\ UNCHANGED <<ofKyber, nttVars, kyberVars>>
     \/ part = "kyber" /\ Kyber!Next /\ UNCHANGED <<ofDilithium, nttVars, kyberVars>>
     \/ part = "short" /\ NttNext /\ UNCHANGED <<samplers, ofDilithium, ofKyber, kyberVars>>
     \/ part = "full" /\ KyberNext /\ UNCHANGED <<samplers, ofDilithium, ofKyber, nttVars>>
  /\ UNCHANGED part

PolynomialsSpec == PolynomialsInit /\ [][PolynomialsNext]_polynomialsVars

-----------------------------------------------------------------------------
\* rej_uniform and rej_eta of ML-DSA take the accepted candidates in order.
FirstAccepted == Dilithium!FirstAccepted

\* poly_challenge gives every challenge in equally many ways.
ChallengeIsUniform == Dilithium!ChallengeIsUniform

\* gen_matrix and cbd.c give what the streams say.
KyberSamples == Kyber!KyberSamples

-----------------------------------------------------------------------------
\* Streams of bytes that are often rejected, at either end of what is accepted.
DilithiumBytes == <<0, 1, 2, 3, 4, 5, 255, 224, 127, 31, 9, 240>>
MCDilithiumStream(s, n) ==
  LET x == (n * n * n + 7 * n * (s + 1) + 13 * s * s) % 101 IN
  CASE s % 4 = 3 /\ x % (4 + (s % 12)) # 0 -> 255
    [] s % 4 # 3 /\ n % 3 = 2 /\ x % 4 < 2 -> 127 + 128 * (s % 2)
    [] OTHER -> DilithiumBytes[(x % 12) + 1]
MCNonces == 0 .. 39
KyberBytes == <<0, 1, 13, 29, 208, 255, 207, 77>>
MCKyberStream(s, n) ==
  IF s = 2 /\ n < 9 THEN 255
  ELSE KyberBytes[(((n * n * n + 5 * n * (s + 1) + 3 * s) % 37) % 8) + 1]
MCWords == {t \cup {b + 12 : b \in t} \cup {31 - b : b \in {c \in t : c < 8}} :
             t \in SUBSET (0 .. 11)}

\* The table of ntt.c for the small parameters: powers of a root of x^N + 1 in
\* the order of reversed bits, times R.
BitReversed(n) ==
  ((n % 2) * 8 + ((n \div 2) % 2) * 4) + (((n \div 4) % 2) * 2 + ((n \div 8) % 2))
Root ==
  CHOOSE g \in 1 .. Q - 1 :
    LET power[e \in 0 .. N] == IF e = 0 THEN 1 ELSE (power[e - 1] * g) % Q IN power[N] = Q - 1
MCZetas ==
  LET power[e \in 0 .. N] == IF e = 0 THEN R % Q ELSE (power[e - 1] * Root) % Q
      centred(x) == IF 2 * x < Q THEN x ELSE x - Q
  IN [i \in 0 .. N - 1 |-> IF i = 0 THEN 0 ELSE centred(power[BitReversed(i)])]
MCQInv == CHOOSE x \in 0 .. R - 1 : (x * Q) % R = 1
MCF == CHOOSE f \in 0 .. Q - 1 : (f * N) % Q = ((R % Q) * (R % Q)) % Q

\* The table of ntt.c and its f as they are, with products modulo QOfSource, since
\* TLC has words of 32 bits: what RootsAssumption says of the table holds for them.
ZetasOfSource == <<
  0, 25847, -2608894, -518909, 237124, -777960, -876248, 466468, 1826347, 2353451, -359251,
  -2091905, 3119733, -2884855, 3111497, 2680103, 2725464, 1024112, -1079900, 3585928, -549488,
  -1119584, 2619752, -2108549, -2118186, -3859737, -1399561, -3277672, 1757237, -19422, 4010497,
  280005, 2706023, 95776, 3077325, 3530437, -1661693, -3592148, -2537516, 3915439, -3861115,
  -3043716, 3574422, -2867647, 3539968, -300467, 2348700, -539299, -1699267, -1643818, 3505694,
  -3821735, 3507263, -2140649, -1600420, 3699596, 811944, 531354, 954230, 3881043, 3900724,
  -2556880, 2071892, -2797779, -3930395, -1528703, -3677745, -3041255, -1452451, 3475950,
  2176455, -1585221, -1257611, 1939314, -4083598, -1000202, -3190144, -3157330, -3632928, 126922,
  3412210, -983419, 2147896, 2715295, -2967645, -3693493, -411027, -2477047, -671102, -1228525,
  -22981, -1308169, -381987, 1349076, 1852771, -1430430, -3343383, 264944, 508951, 3097992,
  44288, -1100098, 904516, 3958618, -3724342, -8578, 1653064, -3249728, 2389356, -210977, 759969,
  -1316856, 189548, -3553272, 3159746, -1851402, -2409325, -177440, 1315589, 1341330, 1285669,
  -1584928, -812732, -1439742, -3019102, -3881060, -3628969, 3839961, 2091667, 3407706, 2316500,
  3817976, -3342478, 2244091, -2446433, -3562462, 266997, 2434439, -1235728, 3513181, -3520352,
  -3759364, -1197226, -3193378, 900702, 1859098, 909542, 819034, 495491, -1613174, -43260,
  -522500, -655327, -3122442, 2031748, 3207046, -3556995, -525098, -768622, -3595838, 342297,
  286988, -2437823, 4108315, 3437287, -3342277, 1735879, 203044, 2842341, 2691481, -2590150,
  1265009, 4055324, 1247620, 2486353, 1595974, -3767016, 1250494, 2635921, -3548272, -2994039,
  1869119, 1903435, -1050970, -1333058, 1237275, -3318210, -1430225, -451100, 1312455, 3306115,
  -1962642, -1279661, 1917081, -2546312, -1374803, 1500165, 777191, 2235880, 3406031, -542412,
  -2831860, -1671176, -1846953, -2584293, -3724270, 594136, -3776993, -2013608, 2432395, 2454455,
  -164721, 1957272, 3369112, 185531, -1207385, -3183426, 162844, 1616392, 3014001, 810149,
  1652634, -3694233, -1799107, -3038916, 3523897, 3866901, 269760, 2213111, -975884, 1717735,
  472078, -426683, 1723600, -1803090, 1910376, -1667432, -1104333, -260646, -3833893, -2939036,
  -2235985, -420899, -2286327, 183443, -976891, 1612842, -3545687, -554416, 3919660, -48306,
  -1362209, 3937738, 1400424, -846154, 1976782>>
QOfSource == 8380417
TimesOfSource(x, y) ==
  LET sum[n \in 0 .. 23] ==
        IF n = 0 THEN 0
        ELSE LET bit == ((y % QOfSource) \div 2^(23 - n)) % 2 IN
             (2 * sum[n - 1] + bit * (x % QOfSource)) % QOfSource
  IN sum[23]
Montgomery == TimesOfSource(2^16, 2^16)
ASSUME TableOfSource ==
  LET zeta(k) == ZetasOfSource[k + 1]
      Same(a, b, c, d) == TimesOfSource(a, b) = TimesOfSource(c, d)
  IN /\ Same(zeta(1), zeta(1), -Montgomery, Montgomery)
     /\ \A k \in 1 .. 127 : /\ Same(zeta(2 * k), zeta(2 * k), Montgomery, zeta(k))
                           /\ Same(zeta(2 * k + 1), zeta(2 * k + 1), -Montgomery, zeta(k))
     /\ \A n \in {1, 2, 4, 8, 16, 32, 64, 128} : \A k \in n .. 2 * n - 1 :
          Same(zeta(k), zeta(3 * n - 1 - k), -Montgomery, Montgomery)
     /\ Same(41978, 256, Montgomery, Montgomery)
     /\ \A k \in 0 .. 255 : zeta(k) \in 1 - QOfSource .. QOfSource - 1

\* Polynomials with all coefficients at the limit, with alternating signs, and
\* such as the schemes multiply: one of them small.
Of(f(_)) == [i \in 0 .. N - 1 |-> f(i)]
MCFactors ==
  { <<Of(LAMBDA i : Q - 1), Of(LAMBDA i : Q - 1)>>,
    <<Of(LAMBDA i : IF i % 2 = 0 THEN Q - 1 ELSE 1 - Q), Of(LAMBDA i : ((i * i) % 3) - 1)>>,
    <<Of(LAMBDA i : IF i % 3 = 0 THEN 1 ELSE 0), Of(LAMBDA i : ((i * 19) % Q) - 224)>>,
    <<Of(LAMBDA i : (i * 131) % Q), Of(LAMBDA i : ((i * 77) % 7) - 3)>> }

\* The fourth pair makes every coefficient of the transformed product 1664, so
\* that the sums of the inverse are the largest there are.
Poly(f(_)) == [i \in Coeff |-> f(i)]
MCKyberInputs ==
  { <<Poly(LAMBDA i : 3328), Poly(LAMBDA i : -2)>>,
    <<Poly(LAMBDA i : IF i % 2 = 0 THEN 3328 ELSE 0), Poly(LAMBDA i : ((i * i) % 5) - 2)>>,
    <<Poly(LAMBDA i : (i * i * 7 + i) % 3329), Poly(LAMBDA i : IF i = 255 THEN 1 ELSE 0)>>,
    <<Poly(LAMBDA i : IF i < 2 THEN (1664 * 2285) % 3329 ELSE 0), Poly(LAMBDA i : IF i = 0 THEN 1 ELSE 0)>>,
    <<Poly(LAMBDA i : (i * 1931) % 4096), Poly(LAMBDA i : ((i * 77) % 7) - 3)>> }
=============================================================================
