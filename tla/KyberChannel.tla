---------------------------- MODULE KyberChannel ----------------------------
(***************************************************************************)
(* One message bit through ML-KEM: what indcpa_enc and indcpa_dec of       *)
(* ml-kem/indcpa.c do to the coefficient that carries it.  The products of *)
(* both sides differ by the noise, which is all the model keeps of them.   *)
(***************************************************************************)
EXTENDS KyberCoeff

CONSTANTS
  Products,   \* values of the sender's product, as invntt leaves it
  Noise       \* what the two products may differ by, epp included

ASSUME KyberChannelAssumption ==
  /\ Products \subseteq -(KYBER_Q - 1) .. KYBER_Q - 1
  /\ Noise \subseteq -(KYBER_Q - 1) .. KYBER_Q - 1

VARIABLES
  pc,       \* "start", "sent" or "received"
  bits,     \* 4 or 5: the bits a coefficient of v keeps
  bit,      \* the bit of the message
  product,  \* t^T r on one side; the other one subtracts it
  noise,    \* what is added to it on the way
  v,        \* the coefficient of v before compression
  c,        \* what is sent
  got       \* the bit that is read

channelVars == <<pc, bits, bit, product, noise, v, c, got>>

ChannelInit ==
  /\ pc = "start"
  /\ bits \in {4, 5}
  /\ bit \in {0, 1}
  /\ product \in Products
  /\ noise \in Noise
  /\ v = 0 /\ c = 0 /\ got = 0

compress_coefficient(x) == IF bits = 4 THEN compress4(x) ELSE compress5(x)

\* poly_add twice, poly_reduce, poly_compress.
Encrypt ==
  /\ pc = "start"
  /\ v' = barrett_reduce(Int16(Int16(product + noise) + frommsg(bit)))
  /\ c' = compress_coefficient(v')
  /\ pc' = "sent"
  /\ UNCHANGED <<bits, bit, product, noise, got>>

\* poly_decompress, poly_sub, poly_reduce, poly_tomsg.
Decrypt ==
  /\ pc = "sent"
  /\ got' = tomsg(barrett_reduce(Int16(decompress(c, bits) - product)))
  /\ pc' = "received"
  /\ UNCHANGED <<bits, bit, product, noise, v, c>>

ChannelNext == Encrypt \/ Decrypt

ChannelSpec == ChannelInit /\ [][ChannelNext]_channelVars

-----------------------------------------------------------------------------
\* The noise a bit survives: a quarter of q, less what compression adds.
Tolerance == IF bits = 4 THEN 727 ELSE 779

\* A bit arrives as it was sent if the noise is within the tolerance, whatever
\* the product, on both sides of zero and of q.
BitSurvives ==
  (pc = "received" /\ Distance(noise, 0) <= Tolerance) => got = bit

\* The coefficient is reduced when it is compressed, as the multiplications in 32
\* bits assume, and compression and decompression lose at most half a step of it.
LostInCompression ==
  pc # "start" => /\ v \in Reduced
                  /\ Distance(decompress(c, bits), v) <= (IF bits = 4 THEN 104 ELSE 52)

\* test.c times c_poly_compress and poly_compress_s side by side as the same
\* function of a polynomial, in C and in assembly.
AsmCompressIsC == (pc # "start" /\ bits = 4) => c = c_poly_compress(v)
=============================================================================
