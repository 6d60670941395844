------------------------------ MODULE KyberNtt ------------------------------
(***************************************************************************)
(* The number-theoretic transform of ML-KEM as the assembly of ml-kem/     *)
(* ntt.S computes it: 256 coefficients in 16-bit halves of words, two      *)
(* layers of butterflies per pass over memory, no reduction of the sums,   *)
(* and an inverse that goes through the layers as a cyclic transform and   *)
(* untwists at the end.  Around it poly.c and polyvec.c: what is done with *)
(* two polynomials on the way to their product.                            *)
(***************************************************************************)
EXTENDS KyberCoeff, Sequences

CONSTANTS KyberInputs   \* the pairs of polynomials that are multiplied

Coeff == 0 .. 255

VARIABLES
  step,   \* what is to be done next
  pair,   \* the two polynomials
  r,      \* the polynomial that is being transformed
  other   \* the one that was transformed before

kyberVars == <<step, pair, r, other>>

-----------------------------------------------------------------------------
\* The tables of ntt.S.  zetas runs through zeta128 .. zeta2 and is indexed from
\* 0 here; the layers of the inverse take every second, fourth .. of inv_zetas.
zetas == <<
  -1044, -758, -359, -1517, 1493, 1422, 287, 202, -171, 622, 1577, 182, 962, -1202, -1474, 1468,
  573, -1325, 264, 383, -829, 1458, -1602, -130, -681, 1017, 732, 608, -1542, 411, -205, -1571,
  1223, 652, -552, 1015, -1293, 1491, -282, -1544, 516, -8, -320, -666, -1618, -1162, 126, 1469,
  -853, -90, -271, 830, 107, -1421, -247, -951, -398, 961, -1508, -725, 448, -1065, 677, -1275,
  -1103, 430, 555, 843, -1251, 871, 1550, 105, 422, 587, 177, -235, -291, -460, 1574, 1653,
  -246, 778, 1159, -147, -777, 1483, -602, 1119, -1590, 644, -872, 349, 418, 329, -156, -75,
  817, 1097, 603, 610, 1322, -1285, -1465, 384, -1215, -136, 1218, -1335, -874, 220, -1187, -1659,
  -1185, -1530, -1278, 794, -1510, -854, -870, 478, -108, -308, 996, 991, 958, -1460, 1522, 1628 >>

inv_zetas == <<
  -1044, 1275, 1571, -1469, -1468, 951, 130, 1544, -202, 725, -608, 666, -182, -830, -383, -1015,
  1517, 1065, -411, 1162, 1202, 1421, -1458, -1491, -1422, -961, -1017, 8, -622, 90, 1325, -652,
  758, -677, 205, -126, 1474, 247, 1602, 282, -287, 1508, -732, 320, -1577, 271, -264, 552,
  359, -448, 1542, 1618, -962, -107, 829, 1293, -1493, 398, 681, -516, 171, 853, -573, -1223 >>

twist_table == <<
  1441, -1286, 316, -1548, -1266, 513, 226, -770, 738, 1610, 878, -340, -20, -197, 1555, -496,
  -225, -1384, -1648, 1078, 1630, 1075, 1434, 476, 28, -390, 1152, -1303, 315, 606, -356, 1154,
  1047, -1505, -676, 1331, -705, 546, -947, -839, -441, 1149, -1499, -284, -800, -1222, -1051, 134,
  987, 1233, 660, -157, -1380, -277, 767, -934, 1120, 1045, -526, 1144, -716, 937, -924, -446,
  -1397, -278, -408, -24, -1568, -1463, -1261, -270, -995, -646, -38, -1373, 1290, 1055, 1237, -1298,
  -468, -615, -232, 378, 1393, -1093, 719, -741, 1523, -1477, -1066, -846, 1321, 861, -341, -1195,
  713, -1133, 325, -960, 531, 1402, -505, -813, 148, 792, -1520, -1656, -1664, -1077, -455, 1344,
  1254, -1297, 707, -1525, -873, -443, -1201, 321, 998, 842, 637, -550, -424, 1150, -324, -1194 >>
Zeta(k) == zetas[k + 1]
InvZeta(layer, k) == inv_zetas[k * 2 ^ (6 - layer) + 1]

\* montgomery: r6 is 3327, the negative of the inverse of q, and the multiple of
\* q is added.  doublemont does it for both halves of a word.
montgomery(a, b) ==
  LET acc == a * b IN (acc + KYBER_Q * Int16(Int16(acc) * 3327)) \div 2 ^ 16

\* uadd16, uadd16, usub16: a + t, and a + t - 2t, in 16 bits each.
Butterflies(p, width, T(_)) ==
  [i \in Coeff |-> IF i % (2 * width) < width THEN Int16(p[i] + T(i + width))
                   ELSE Int16(p[i - width] - T(i))]

\* A layer of the forward transform: one zeta for each block.
Forward(p, width) ==
  Butterflies(p, width, LAMBDA i : montgomery(p[i], Zeta(128 \div width + i \div (2 * width))))

\* Mutant: the first pair of a block is never multiplied.
InverseUnreduced(p, layer) ==
  LET width == 2 ^ (layer + 1) IN
  Butterflies(p, width, LAMBDA i :
    LET k == (i % width) \div 2 IN IF k = 0 THEN p[i] ELSE montgomery(p[i], InvZeta(layer, k)))
\* A layer of the inverse: one zeta for each pair of coefficients of a block, and
\* in the first two layers no multiplication by one.
Backward(p, layer) ==
  LET width == 2 ^ (layer + 1) IN
  Butterflies(p, width, LAMBDA i :
    LET k == (i % width) \div 2 IN
    IF k = 0 /\ layer <= 1 THEN p[i] ELSE montgomery(p[i], InvZeta(layer, k)))

-----------------------------------------------------------------------------
KyberInit ==
  /\ pair \in KyberInputs
  /\ step = "loop1" /\ r = pair[1] /\ other = << >>

\* The four passes of ntt_s.
Pass(from, to, result) == step = from /\ step' = to /\ r' = result /\ UNCHANGED <<pair, other>>
loop1 == Pass("loop1", "outloop2", Forward(Forward(r, 128), 64))
outloop2 == Pass("outloop2", "outloop3", Forward(Forward(r, 32), 16))
outloop3 == Pass("outloop3", "loop4", Forward(Forward(r, 8), 4))
loop4 == Pass("loop4", "poly_ntt", Forward(r, 2))

\* poly_ntt reduces; then it is the turn of the second polynomial.
poly_ntt ==
  /\ step = "poly_ntt"
  /\ IF other = << >>
     THEN step' = "loop1" /\ other' = [i \in Coeff |-> barrett_reduce(r[i])] /\ r' = pair[2]
     ELSE step' = "basemul" /\ r' = [i \in Coeff |-> barrett_reduce(r[i])] /\ UNCHANGED other
  /\ UNCHANGED pair

BaseZeta(k) == IF k % 2 = 0 THEN Zeta(64 + k \div 2) ELSE -Zeta(64 + k \div 2)
\* poly_basemul_montgomery_s: products modulo x^2 - zeta and x^2 + zeta in turn,
\* then the reduction of polyvec_basemul_acc_montgomery.
basemul(a, b) ==
  [i \in Coeff |->
    LET e == 2 * (i \div 2) IN
    IF i % 2 = 0
    THEN Int16(montgomery(a[e], b[e])
               + montgomery(montgomery(a[e + 1], b[e + 1]), BaseZeta(i \div 2)))
    ELSE Int16(montgomery(a[e + 1], b[e]) + montgomery(b[e + 1], a[e]))]
poly_basemul_montgomery ==
  /\ step = "basemul"
  /\ r' = [i \in Coeff |-> barrett_reduce(basemul(other, r)[i])]
  /\ step' \in {"poly_tomont", "invloop1"}
  /\ UNCHANGED <<pair, other>>

\* Key generation stays in the transformed domain: f is 2^32 modulo q.
poly_tomont == Pass("poly_tomont", "key", [i \in Coeff |-> montgomery_reduce(r[i] * 1353)])

\* The four passes of invntt_s; the last one multiplies by twist_table as well.
invloop1 == Pass("invloop1", "invoutloop2", Backward(Backward(r, 0), 1))
invoutloop2 == Pass("invoutloop2", "invoutloop3", Backward(Backward(r, 2), 3))
invoutloop3 == Pass("invoutloop3", "invloop4", Backward(Backward(r, 4), 5))
invloop4 ==
  LET p == Backward(r, 6) IN
  Pass("invloop4", "product", [i \in Coeff |-> montgomery(p[i], twist_table[i \div 2 + 1])])

KyberNext ==
  \/ loop1 \/ outloop2 \/ outloop3 \/ loop4 \/ poly_ntt
  \/ poly_basemul_montgomery \/ poly_tomont
  \/ invloop1 \/ invoutloop2 \/ invoutloop3 \/ invloop4

KyberSpec == KyberInit /\ [][KyberNext]_kyberVars

-----------------------------------------------------------------------------
\* The product modulo x^256 + 1, by its definition; the sum by halves.
Convolution(a, b, k) ==
  LET term(j) == IF j <= k THEN a[j] * b[k - j] ELSE -(a[j] * b[256 + k - j])
      sum[depth \in 0 .. 8, j \in Coeff] ==
        IF depth = 0 THEN term(j)
        ELSE sum[depth - 1, 2 * j] + sum[depth - 1, 2 * j + 1]
  IN sum[8, 0]

\* What comes out of the inverse transform is the product of the two polynomials,
\* each coefficient smaller than q.
ProductComesOut ==
  step = "product" =>
    \A k \in Coeff : /\ (r[k] - Convolution(pair[1], pair[2], k)) % KYBER_Q = 0
                     /\ r[k] \in -(KYBER_Q - 1) .. KYBER_Q - 1

\* What key generation keeps is the transform of the product, without a factor of
\* 2^16.
Transformed(p) ==
  Forward(Forward(Forward(Forward(Forward(Forward(Forward(p, 128), 64), 32), 16), 8), 4), 2)
KeyIsTransformed ==
  step = "key" =>
    LET product == Transformed([k \in Coeff |-> Convolution(pair[1], pair[2], k) % KYBER_Q]) IN
    \A k \in Coeff : (r[k] - product[k]) % KYBER_Q = 0

\* Both uses of the transforms give the product of two polynomials, although
\* none of the sums inside is reduced and all are kept in 16 bits.
KyberProduct == ProductComesOut /\ KeyIsTransformed
=============================================================================
