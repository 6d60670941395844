----------------------------- MODULE KyberCoeff -----------------------------
(***************************************************************************)
(* What ML-KEM does to one coefficient: the reductions of ml-kem/reduce.c, *)
(* compression and decompression (the assembly of poly.S for the last part *)
(* of a ciphertext, polyvec.c for the first), and message bits (poly.c).   *)
(* Words are taken modulo their width where the code relies on it.         *)
(***************************************************************************)
EXTENDS Integers

KYBER_Q == 3329

\* The residues a reduced coefficient may be, and their distance modulo q.
Reduced == -1664 .. 1664
Distance(x, y) ==
  LET r == (x - y) % KYBER_Q IN IF 2 * r < KYBER_Q THEN r ELSE KYBER_Q - r

-----------------------------------------------------------------------------
\* (int16_t)x
Int16(x) == ((x + 32768) % 65536) - 32768

\* v = 20159 is 2^26 / q, rounded.
barrett_reduce(a) ==
  LET t == Int16((20159 * a + 2 ^ 25) \div 2 ^ 26) IN Int16(a - t * KYBER_Q)

QINV == -3327

montgomery_reduce(a) ==
  LET t == Int16(Int16(a) * QINV) IN Int16((a - t * KYBER_Q) \div 2 ^ 16)

\* t += ((int16_t)t >> 15) & KYBER_Q
Unsigned(x) == IF x < 0 THEN x + KYBER_Q ELSE x

-----------------------------------------------------------------------------
\* (a * b) >> k for a below 2^23, b below 2^21 and k at least 22.
MulShift(a, b, k) ==
  LET h == 2 ^ 11
      middle == (a \div h) * (b % h) + (a % h) * (b \div h) + ((a % h) * (b % h)) \div h
  IN ((a \div h) * (b \div h) + middle \div h) \div 2 ^ (k - 22)

\* Mutant: nothing is added before the quotient is cut off.
compress4_down(x) == ((Unsigned(x) * 80635) % 2 ^ 28) \div 2 ^ 24

\* COMPRESS_NIBBLE: (x + 104) * 1290160 in 32 bits, its top four bits.  The
\* factor is 16 * 80635, so that 28 bits of the product by 80635 are the same.
compress4(x) == (((Unsigned(x) + 104) * 80635) % 2 ^ 28) \div 2 ^ 24

\* COMPRESS5: (x + 52) * 1290176 in 32 bits, 1290176 = 64 * 20159.
compress5(x) == (((Unsigned(x) + 52) * 20159) % 2 ^ 26) \div 2 ^ 21

\* c_poly_compress of test.c: the function the assembly took the place of.
c_poly_compress(x) == MulShift(Unsigned(x) * 16 + 1665, 80635, 28) % 16

compress10(x) == MulShift(Unsigned(x) * 2 ^ 10 + 1665, 1290167, 32) % 2 ^ 10
compress11(x) == MulShift(Unsigned(x) * 2 ^ 11 + 1664, 645084, 31) % 2 ^ 11

\* (y * q + 2^(bits - 1)) >> bits
decompress(y, bits) == (y * KYBER_Q + 2 ^ (bits - 1)) \div 2 ^ bits

-----------------------------------------------------------------------------
\* One bit of poly_frommsg and of poly_tomsg.
frommsg(bit) == IF bit = 1 THEN (KYBER_Q + 1) \div 2 ELSE 0

\* Mutant: nothing is added before the division.
tomsg_down(x) == (((Unsigned(x) * 2) * 80635) \div 2 ^ 28) % 2
tomsg(x) == (((Unsigned(x) * 2 + KYBER_Q \div 2) * 80635) \div 2 ^ 28) % 2
=============================================================================
