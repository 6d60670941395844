----------------------------- MODULE PackedKeys -----------------------------
(***************************************************************************)
(* Keys, signatures and ciphertexts as bytes.                              *)
(*                                                                         *)
(* How ml-dsa/poly.c and ml-kem lay coefficients of a few bits into bytes: *)
(* every packing function writes its bytes as an "or" of shifted words,    *)
(* every unpacking function its words as an "or" of shifted bytes under a  *)
(* mask.  A word is the set of its bits, and an expression the set of the  *)
(* operands <<index, shift>> that are or-ed together, a shift to the right *)
(* being negative.                                                         *)
(*                                                                         *)
(* The functions of ml-dsa/packing.c and of ml-kem/indcpa.c that put       *)
(* fields one behind the other at offsets taken from params.h, and their   *)
(* counterparts.  Each function has its own list of fields here, as it has *)
(* its own sequence of loops in the code.  A behaviour packs one object    *)
(* and unpacks it, or unpacks bytes it was given and packs what it read    *)
(* again.  The hint part of a signature is modelled by HintCodec.          *)
(***************************************************************************)
EXTENDS Integers, Functions, FiniteSetsExt, SequencesExt

CONSTANTS
  N,                            \* coefficients of a polynomial
  SEEDBYTES, TRBYTES,           \* seeds and keys; the digest of the public key
  K, L,                         \* dimensions of ML-DSA; K is KYBER_K as well
  Modes,                        \* DILITHIUM_MODE (2, 3, 5) or KYBER_K (2, 3, 4)
  WordBits,                     \* no stored word has this bit or a higher one
  Shifts                        \* which of the test objects are packed

\* What the parameters must be.
PackedKeysParameters ==
  /\ N \in Nat /\ N % 8 = 0 /\ N > 0
  /\ {SEEDBYTES, TRBYTES, K, L} \subseteq Nat \ {0}
  /\ Modes \subseteq {2, 3, 4, 5}

KYBER_Q == 3329

VARIABLES
  mode,   \* the parameter set
  kind,   \* which object
  stage,  \* what has been done with it
  value,  \* the fields
  array,  \* the bytes
  again   \* the fields or the bytes that came out

keysVars == <<mode, kind, stage, value, array, again>>

-----------------------------------------------------------------------------
\* The low bits of what the operands give: a store or a mask keeps no more.
Or(operands, words, bits) ==
  {b \in 0 .. bits - 1 : \E o \in operands : b - o[2] \in words[o[1]]}

\* A format: the bytes of a group and the words of a group as expressions, the
\* bits of each word that are kept, and `top` where a coefficient a is stored
\* as top - a (0 where it is stored as it is).
Format(bytes, words, mask, top) ==
  [bytes |-> bytes, words |-> words, mask |-> mask, top |-> top]

Group(f) == 0 .. Len(f.words) - 1
Block(f) == 0 .. Len(f.bytes) - 1

Pack(f, t) == [i \in Block(f) |-> Or(f.bytes[i + 1], t, 8)]
\* Mutant: masks of one bit less.
UnpackShort(f, r) == [k \in Group(f) |-> Or(f.words[k + 1], r, f.mask[k + 1] - 1)]
Unpack(f, r) == [k \in Group(f) |-> Or(f.words[k + 1], r, f.mask[k + 1])]

Each(n, bits) == [k \in 1 .. n |-> bits]

-----------------------------------------------------------------------------
\* ETA = 2: eight coefficients of three bits.
Eta2 == Format(
  << {<<0, 0>>, <<1, 3>>, <<2, 6>>},
     {<<2, -2>>, <<3, 1>>, <<4, 4>>, <<5, 7>>},
     {<<5, -1>>, <<6, 2>>, <<7, 5>>} >>,
  << {<<0, 0>>}, {<<0, -3>>}, {<<0, -6>>, <<1, 2>>}, {<<1, -1>>},
     {<<1, -4>>}, {<<1, -7>>, <<2, 1>>}, {<<2, -2>>}, {<<2, -5>>} >>,
  Each(8, 3), 2)

\* ETA = 4: two of four bits; the second has no mask.
Eta4 == Format(<< {<<0, 0>>, <<1, 4>>} >>, << {<<0, 0>>}, {<<0, -4>>} >>, <<4, 8>>, 4)

\* t1: four of ten bits.
T1 == Format(
  << {<<0, 0>>}, {<<0, -8>>, <<1, 2>>}, {<<1, -6>>, <<2, 4>>}, {<<2, -4>>, <<3, 6>>}, {<<3, -2>>} >>,
  << {<<0, 0>>, <<1, 8>>}, {<<1, -2>>, <<2, 6>>}, {<<2, -4>>, <<3, 4>>}, {<<3, -6>>, <<4, 2>>} >>,
  Each(4, 10), 0)

\* t0: eight of thirteen bits.
T0Bytes ==
  << {<<0, 0>>}, {<<0, -8>>, <<1, 5>>}, {<<1, -3>>}, {<<1, -11>>, <<2, 2>>},
     {<<2, -6>>, <<3, 7>>}, {<<3, -1>>}, {<<3, -9>>, <<4, 4>>}, {<<4, -4>>},
     {<<4, -12>>, <<5, 1>>}, {<<5, -7>>, <<6, 6>>}, {<<6, -2>>},
     {<<6, -10>>, <<7, 3>>}, {<<7, -5>>} >>
T0 == Format(
  T0Bytes,
  << {<<0, 0>>, <<1, 8>>}, {<<1, -5>>, <<2, 3>>, <<3, 11>>}, {<<3, -2>>, <<4, 6>>},
     {<<4, -7>>, <<5, 1>>, <<6, 9>>}, {<<6, -4>>, <<7, 4>>, <<8, 12>>},
     {<<8, -1>>, <<9, 7>>}, {<<9, -6>>, <<10, 2>>, <<11, 10>>}, {<<11, -3>>, <<12, 5>>} >>,
  Each(8, 13), 2 ^ 12)

\* z for GAMMA1 = 2^17: four of eighteen bits.
Z17 == Format(
  << {<<0, 0>>}, {<<0, -8>>}, {<<0, -16>>, <<1, 2>>}, {<<1, -6>>}, {<<1, -14>>, <<2, 4>>},
     {<<2, -4>>}, {<<2, -12>>, <<3, 6>>}, {<<3, -2>>}, {<<3, -10>>} >>,
  << {<<0, 0>>, <<1, 8>>, <<2, 16>>}, {<<2, -2>>, <<3, 6>>, <<4, 14>>},
     {<<4, -4>>, <<5, 4>>, <<6, 12>>}, {<<6, -6>>, <<7, 2>>, <<8, 10>>} >>,
  Each(4, 18), 2 ^ 17)

\* z for GAMMA1 = 2^19: two of twenty bits; the mask of the second is left out.
Z19 == Format(
  << {<<0, 0>>}, {<<0, -8>>}, {<<0, -16>>, <<1, 4>>}, {<<1, -4>>}, {<<1, -12>>} >>,
  << {<<0, 0>>, <<1, 8>>, <<2, 16>>}, {<<2, -4>>, <<3, 4>>, <<4, 12>>} >>,
  <<20, 32>>, 2 ^ 19)

\* w1, which is hashed and never read back: four of six bits, or two of four.
\* Mutant: the third of the four words is shifted too far.
W88Shifted == Format(
  << {<<0, 0>>, <<1, 6>>}, {<<1, -2>>, <<2, 5>>}, {<<2, -4>>, <<3, 2>>} >>, Each(4, {}), Each(4, 6), 0)
W88 == Format(
  << {<<0, 0>>, <<1, 6>>}, {<<1, -2>>, <<2, 4>>}, {<<2, -4>>, <<3, 2>>} >>, Each(4, {}), Each(4, 6), 0)
W32 == Format(<< {<<0, 0>>, <<1, 4>>} >>, Each(2, {}), Each(2, 4), 0)

-----------------------------------------------------------------------------
\* ML-KEM.  poly_tobytes and poly_frombytes: two of twelve bits.
Kyber12 == Format(
  << {<<0, 0>>}, {<<0, -8>>, <<1, 4>>}, {<<1, -4>>} >>,
  << {<<0, 0>>, <<1, 8>>}, {<<1, -4>>, <<2, 4>>} >>,
  Each(2, 12), 0)

\* polyvec_compress and polyvec_decompress: four of ten bits, with the same
\* expressions as t1, or eight of eleven.
Kyber10 == T1
Kyber11 == Format(
  << {<<0, 0>>}, {<<0, -8>>, <<1, 3>>}, {<<1, -5>>, <<2, 6>>}, {<<2, -2>>},
     {<<2, -10>>, <<3, 1>>}, {<<3, -7>>, <<4, 4>>}, {<<4, -4>>, <<5, 7>>}, {<<5, -1>>},
     {<<5, -9>>, <<6, 2>>}, {<<6, -6>>, <<7, 5>>}, {<<7, -3>>} >>,
  << {<<0, 0>>, <<1, 8>>}, {<<1, -3>>, <<2, 5>>}, {<<2, -6>>, <<3, 2>>, <<4, 10>>},
     {<<4, -1>>, <<5, 7>>}, {<<5, -4>>, <<6, 4>>}, {<<6, -7>>, <<7, 1>>, <<8, 9>>},
     {<<8, -2>>, <<9, 6>>}, {<<9, -5>>, <<10, 3>>} >>,
  Each(8, 11), 0)

\* The assembly of poly_compress and poly_decompress: two of four bits, or eight
\* of five, read as a word of four bytes and a last one.
Kyber4 == Format(<< {<<0, 0>>, <<1, 4>>} >>, << {<<0, 0>>}, {<<0, -4>>} >>, <<4, 8>>, 0)
Kyber5 == Format(
  << {<<0, 0>>, <<1, 5>>}, {<<1, -3>>, <<2, 2>>, <<3, 7>>}, {<<3, -1>>, <<4, 4>>},
     {<<4, -4>>, <<5, 1>>, <<6, 6>>}, {<<6, -2>>, <<7, 3>>} >>,
  [k \in 1 .. 7 |-> {<<i, 8 * i - 5 * (k - 1)>> : i \in 0 .. 3} \cup (IF k = 7 THEN {<<4, 2>>} ELSE {})]
    \o << {<<4, -3>>} >>,
  Each(8, 5), 0)

\* Bytes that are copied: seeds, keys and digests.
Raw == Format(<< {<<0, 0>>} >>, << {<<0, 0>>} >>, <<8>>, 0)

-----------------------------------------------------------------------------
\* params.h of ml-dsa: the formats of a mode, and the bytes of a polynomial.
Eta == IF mode = 3 THEN Eta4 ELSE Eta2
Z == IF mode = 2 THEN Z17 ELSE Z19
W1 == IF mode = 2 THEN W88 ELSE W32

POLYT1_PACKEDBYTES == (320 * N) \div 256
POLYT0_PACKEDBYTES == (416 * N) \div 256
POLYZ_PACKEDBYTES == ((IF mode = 2 THEN 576 ELSE 640) * N) \div 256
POLYW1_PACKEDBYTES == ((IF mode = 2 THEN 192 ELSE 128) * N) \div 256
POLYETA_PACKEDBYTES == ((IF mode = 3 THEN 128 ELSE 96) * N) \div 256
CTILDEBYTES == CASE mode = 2 -> SEEDBYTES [] mode = 3 -> (3 * SEEDBYTES) \div 2 [] OTHER -> 2 * SEEDBYTES

CRYPTO_PUBLICKEYBYTES == SEEDBYTES + K * POLYT1_PACKEDBYTES
CRYPTO_SECRETKEYBYTES ==
  2 * SEEDBYTES + TRBYTES + L * POLYETA_PACKEDBYTES + K * POLYETA_PACKEDBYTES + K * POLYT0_PACKEDBYTES
SIGBYTES == CTILDEBYTES + L * POLYZ_PACKEDBYTES   \* without the hint

\* params.h of ml-kem, for KYBER_K = 4 and for smaller ones.
Du == IF mode = 4 THEN Kyber11 ELSE Kyber10
Dv == IF mode = 4 THEN Kyber5 ELSE Kyber4
KYBER_POLYBYTES == (384 * N) \div 256
POLYVECCOMPRESSED == ((IF mode = 4 THEN 352 ELSE 320) * N) \div 256
POLYCOMPRESSED == ((IF mode = 4 THEN 160 ELSE 128) * N) \div 256
KYBER_INDCPA_BYTES == K * POLYVECCOMPRESSED + POLYCOMPRESSED

-----------------------------------------------------------------------------
\* One loop of a packing function: a field, its format, the polynomials it has,
\* the coefficients of each, and the bytes the pointer moves by for each.
Field(name, f, polys, coeffs, bytes) ==
  [name |-> name, format |-> f, polys |-> polys, coeffs |-> coeffs, bytes |-> bytes]
Copy(name, n) == Field(name, Raw, 1, n, n)
Vector(name, f, polys, bytes) == Field(name, f, polys, N, bytes)

pack_pk == << Copy("rho", SEEDBYTES), Vector("t1", T1, K, POLYT1_PACKEDBYTES) >>
unpack_pk == << Copy("rho", SEEDBYTES), Vector("t1", T1, K, POLYT1_PACKEDBYTES) >>

pack_sk ==
  << Copy("rho", SEEDBYTES), Copy("key", SEEDBYTES), Copy("tr", TRBYTES),
     Vector("s1", Eta, L, POLYETA_PACKEDBYTES), Vector("s2", Eta, K, POLYETA_PACKEDBYTES),
     Vector("t0", T0, K, POLYT0_PACKEDBYTES) >>
\* Mutant: tr is taken before the key.
unpack_sk_swapped ==
  << Copy("rho", SEEDBYTES), Copy("tr", TRBYTES), Copy("key", SEEDBYTES),
     Vector("s1", Eta, L, POLYETA_PACKEDBYTES), Vector("s2", Eta, K, POLYETA_PACKEDBYTES),
     Vector("t0", T0, K, POLYT0_PACKEDBYTES) >>
unpack_sk ==
  << Copy("rho", SEEDBYTES), Copy("key", SEEDBYTES), Copy("tr", TRBYTES),
     Vector("s1", Eta, L, POLYETA_PACKEDBYTES), Vector("s2", Eta, K, POLYETA_PACKEDBYTES),
     Vector("t0", T0, K, POLYT0_PACKEDBYTES) >>

pack_sig == << Copy("c", CTILDEBYTES), Vector("z", Z, L, POLYZ_PACKEDBYTES) >>
unpack_sig == << Copy("c", CTILDEBYTES), Vector("z", Z, L, POLYZ_PACKEDBYTES) >>

polyveck_pack_w1 == << Vector("w1", W1, K, POLYW1_PACKEDBYTES) >>

\* ml-kem/indcpa.c, over polyvec_tobytes, polyvec_compress and poly_compress.
kyber_pack_pk == << Vector("pk", Kyber12, K, KYBER_POLYBYTES), Copy("seed", SEEDBYTES) >>
kyber_unpack_pk == << Vector("pk", Kyber12, K, KYBER_POLYBYTES), Copy("seed", SEEDBYTES) >>
pack_ciphertext == << Vector("b", Du, K, POLYVECCOMPRESSED), Vector("v", Dv, 1, POLYCOMPRESSED) >>
unpack_ciphertext == << Vector("b", Du, K, POLYVECCOMPRESSED), Vector("v", Dv, 1, POLYCOMPRESSED) >>

Packing ==
  CASE kind = "pk" -> pack_pk [] kind = "sk" -> pack_sk [] kind = "sig" -> pack_sig
    [] kind = "w1" -> polyveck_pack_w1
    [] kind = "kyber_pk" -> kyber_pack_pk [] kind = "ciphertext" -> pack_ciphertext
Unpacking ==
  CASE kind = "pk" -> unpack_pk [] kind = "sk" -> unpack_sk [] kind = "sig" -> unpack_sig
    [] kind = "kyber_pk" -> kyber_unpack_pk [] kind = "ciphertext" -> unpack_ciphertext

\* The length the array is declared with.
Size ==
  CASE kind = "pk" -> CRYPTO_PUBLICKEYBYTES [] kind = "sk" -> CRYPTO_SECRETKEYBYTES
    [] kind = "sig" -> SIGBYTES [] kind = "w1" -> K * POLYW1_PACKEDBYTES
    [] kind = "kyber_pk" -> K * KYBER_POLYBYTES + SEEDBYTES
    [] kind = "ciphertext" -> KYBER_INDCPA_BYTES

-----------------------------------------------------------------------------
\* A coefficient as the word that is packed (poly_tobytes adds q to a negative
\* one) and as it is read back.
Bits(x) == {b \in 0 .. WordBits - 1 : (x \div 2 ^ b) % 2 = 1}
Number(w) == MapThenSumSet(LAMBDA b : 2 ^ b, w)
Stored(f, a) == IF f.top > 0 THEN f.top - a ELSE IF a < 0 THEN a + KYBER_Q ELSE a
Loaded(f, x) == IF f.top > 0 THEN f.top - x ELSE x

\* The blocks of a polynomial, one for each group of its coefficients.
PackPoly(f, a, coeffs) ==
  LET B == Len(f.bytes) G == Len(f.words)
      block == [g \in 0 .. coeffs \div G - 1 |->
                 Pack(f, [k \in Group(f) |-> Bits(Stored(f, a[G * g + k]))])]
  IN [q \in 0 .. (coeffs \div G) * B - 1 |-> block[q \div B][q % B]]
UnpackPoly(f, r, coeffs) ==
  LET B == Len(f.bytes) G == Len(f.words)
      group == [g \in 0 .. coeffs \div G - 1 |->
                 Unpack(f, [i \in Block(f) |-> r[B * g + i]])]
  IN [k \in 0 .. coeffs - 1 |-> Loaded(f, Number(group[k \div G][k % G]))]

\* Where the loop for field n begins, and polynomial i of it.
Begin(fields, n) ==
  MapThenSumSet(LAMBDA o : fields[o].polys * fields[o].bytes, 1 .. n - 1)
At(fields, n, i) == Begin(fields, n) + i * fields[n].bytes

\* All the bytes a function writes, in its order.
Write(a, p, bytes) ==
  [q \in DOMAIN a \cup {p + b : b \in DOMAIN bytes} |->
     IF q - p \in DOMAIN bytes THEN bytes[q - p] ELSE a[q]]
Packed(fields, x) ==
  LET field(a, n) ==
        FoldLeft(LAMBDA b, i :
                   Write(b, At(fields, n, i),
                         PackPoly(fields[n].format, x[fields[n].name][i], fields[n].coeffs)),
                 a, [i \in 1 .. fields[n].polys |-> i - 1])
  IN FoldLeft(field, << >>, [n \in DOMAIN fields |-> n])

\* All the fields a function reads.
Unpacked(fields, a) ==
  [name \in {fields[n].name : n \in DOMAIN fields} |->
    LET n == CHOOSE o \in DOMAIN fields : fields[o].name = name IN
    [i \in 0 .. fields[n].polys - 1 |->
      UnpackPoly(fields[n].format, [q \in Nat |-> a[At(fields, n, i) + q]], fields[n].coeffs)]]

-----------------------------------------------------------------------------
\* Coefficients for a field: every power of two that its words have, no bit, all
\* bits, and the largest of a range that is not a whole number of bits.
Words(f, name) ==
  CASE name \in {"s1", "s2"} -> [v \in 0 .. 2 * f.top |-> v]
    [] name = "w1" /\ mode = 2 -> [v \in 0 .. 43 |-> v]
    [] OTHER -> [v \in 0 .. f.mask[1] + 1 |->
                  IF v < f.mask[1] THEN 2 ^ v ELSE IF v = f.mask[1] THEN 0
                  ELSE IF f = Kyber12 THEN KYBER_Q - 1 ELSE 2 ^ f.mask[1] - 1]

\* Neighbouring coefficients get different words, and s moves them on.
Coefficient(f, name, s) ==
  LET words == Words(f, name) x == words[s % Cardinality(DOMAIN words)] IN
  IF f = Kyber12 /\ s % 2 = 1 /\ x # 0 THEN x - KYBER_Q ELSE Loaded(f, x)
Fields(fields, s) ==
  [name \in {fields[n].name : n \in DOMAIN fields} |->
    LET n == CHOOSE o \in DOMAIN fields : fields[o].name = name IN
    [i \in 0 .. fields[n].polys - 1 |->
      [k \in 0 .. fields[n].coeffs - 1 |->
         Coefficient(fields[n].format, name, s + 3 * i + 5 * k + 7 * n)]]]

Kinds == IF mode \in {2, 3, 5} THEN {"pk", "sk", "sig", "w1"} ELSE {}
KyberKinds == IF mode \in {2, 3, 4} THEN {"kyber_pk", "ciphertext"} ELSE {}

KeysInit ==
  /\ mode \in Modes /\ kind \in Kinds \cup KyberKinds
  /\ stage = "start" /\ value = << >> /\ array = << >> /\ again = << >>

\* A function packs an object into an array.
PackObject ==
  /\ stage = "start"
  /\ \E s \in Shifts : value' = Fields(Packing, s)
  /\ array' = Packed(Packing, value')
  /\ stage' = "packed"
  /\ UNCHANGED <<mode, kind, again>>

\* Its counterpart reads what was packed.
UnpackObject ==
  /\ stage = "packed" /\ kind # "w1"
  /\ again' = Unpacked(Unpacking, array)
  /\ stage' = "read"
  /\ UNCHANGED <<mode, kind, value, array>>

\* Bytes come from elsewhere and are read.
UnpackBytes ==
  /\ stage = "start" /\ kind # "w1"
  /\ \E s \in Shifts :
       array' = [q \in 0 .. Size - 1 |-> {b \in 0 .. 7 : (q * q + 3 * b + s * (q + b)) % 7 < 3}]
  /\ value' = Unpacked(Unpacking, array')
  /\ stage' = "received"
  /\ UNCHANGED <<mode, kind, again>>

\* What was read is packed again.
PackAgain ==
  /\ stage = "received"
  /\ again' = Packed(Packing, value)
  /\ stage' = "repacked"
  /\ UNCHANGED <<mode, kind, value, array>>

KeysNext == PackObject \/ UnpackObject \/ UnpackBytes \/ PackAgain

KeysSpec == KeysInit /\ [][KeysNext]_keysVars

-----------------------------------------------------------------------------
\* The other side reads the fields that were packed, a negative coefficient of
\* ML-KEM as its standard representative.
Standard(f, x) == IF f = Kyber12 /\ x < 0 THEN x + KYBER_Q ELSE x
FieldsAreRead ==
  stage = "read" =>
    \A n \in DOMAIN Packing :
      LET f == Packing[n] IN
      \A i \in 0 .. f.polys - 1, k \in 0 .. f.coeffs - 1 :
        again[f.name][i][k] = Standard(f.format, value[f.name][i][k])

\* Whatever bytes are read, packing what was read gives the same bytes: no bit of
\* a key, of c and z or of a ciphertext is ignored, so that none of them can be
\* written in two ways.
EveryBitIsRead == stage = "repacked" => again = array

\* The packed object fills its array and is the string of the bits of its
\* coefficients, the lowest first, field behind field: no byte of the array
\* keeps what was in it, and two different w1 are never hashed as one.
Width(f) == (8 * Len(f.bytes)) \div Len(f.words)
PackIsBitString ==
  stage = "packed" =>
    /\ DOMAIN array = 0 .. Size - 1
    /\ \A n \in DOMAIN Packing :
         LET f == Packing[n] IN
         \A i \in 0 .. f.polys - 1, k \in 0 .. f.coeffs - 1, b \in 0 .. Width(f.format) - 1 :
           LET place == k * Width(f.format) + b IN
           (place % 8 \in array[At(Packing, n, i) + place \div 8])
             <=> (b \in Bits(Stored(f.format, value[f.name][i][k])))

\* The fields of an object and its bytes determine each other, in both directions.
FieldsAndBytesAgree == FieldsAreRead /\ EveryBitIsRead /\ PackIsBitString
=============================================================================
