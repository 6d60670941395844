----------------------------- MODULE MlKemProofs -----------------------------
(***************************************************************************)
(* Proofs about ML-KEM.  First KyberChannel and the operators it is built  *)
(* from: bounds of the reductions and of what compression loses, and that  *)
(* a message bit survives every product and every noise within the         *)
(* tolerance.  Ranges are written as inequalities there: the backends      *)
(* enumerate an interval whose ends are numbers.                           *)
(*                                                                         *)
(* Then IndCpa: the ring of polynomials modulo x^n + 1 over the residues,  *)
(* as far as the products of both sides need it, the round trips of the    *)
(* packing, and that a decryption returns what was encrypted wherever the  *)
(* noise leaves room for it, for every dimension and every coin.           *)
(*                                                                         *)
(* Last what the transform of Fujisaki and Okamoto in ml-kem/kem.c gives,  *)
(* for all coins, messages and changes on the way, and any number of       *)
(* calls: a changed or misdirected ciphertext never gives the secret,      *)
(* every ciphertext gives one of its own, and both sides agree wherever    *)
(* the noise is small, always so in the dimensions that TLC checks.        *)
(***************************************************************************)
EXTENDS MlKem, KyberChannel, SequenceTheorems, FiniteSetTheorems, TLAPS

-----------------------------------------------------------------------------
(*  KyberChannel: a coefficient and a message bit  *)

IsReduced(x) == x \in Int /\ x >= -1664 /\ x <= 1664

\* y is x up to e, of size at most m, modulo q.
Near(y, x, m) ==
  \E k \in Int, e \in Int : y = x + k * 3329 + e /\ e >= -m /\ e <= m

\* A word of 16 bits keeps its value.
LEMMA Int16Small ==
  ASSUME NEW x \in Int, x >= -32768, x <= 32767
  PROVE  Int16(x) = x
BY DEF Int16

\* The comment of barrett_reduce: for every 16-bit word the result is congruent
\* to it and lies between -(q - 1) / 2 and (q - 1) / 2.
THEOREM BarrettReduces ==
  ASSUME NEW a \in Int, a >= -32768, a <= 32767
  PROVE  /\ IsReduced(barrett_reduce(a))
         /\ \E t \in Int : a = barrett_reduce(a) + t * KYBER_Q
<1> DEFINE t == (20159 * a + 33554432) \div 67108864
<1>1. t \in Int /\ t >= -10 /\ t <= 10
  OBVIOUS
<1>2. a - t * 3329 >= -1664 /\ a - t * 3329 <= 1664
  OBVIOUS
<1>3. t = (20159 * a + 2 ^ 25) \div 2 ^ 26
  OBVIOUS
<1> HIDE DEF t
<1>4. Int16(t) = t /\ Int16(a - t * 3329) = a - t * 3329
  BY <1>1, <1>2, Int16Small
<1>5. barrett_reduce(a) = a - t * 3329
  BY <1>3, <1>4 DEF barrett_reduce, KYBER_Q
<1> QED
  BY <1>1, <1>2, <1>5 DEF KYBER_Q, IsReduced

\* Four bits of a coefficient give it back up to half a step of the grid.
LEMMA Compress4 ==
  ASSUME NEW x \in Int, x >= -1664, x <= 1664
  PROVE  /\ compress4(x) \in Int /\ compress4(x) >= 0 /\ compress4(x) <= 15
         /\ Near(decompress(compress4(x), 4), x, 104)
<1> DEFINE u == Unsigned(x)
<1>1. /\ u \in Int /\ u >= 0 /\ u <= 3328
      /\ \E j \in Int : u = x + j * 3329
  BY DEF Unsigned, KYBER_Q
<1> HIDE DEF u
<1> DEFINE w == ((u + 104) * 80635) % 268435456
           out == w \div 16777216
           y == (out * 3329 + 8) \div 16
<1>2. compress4(x) = out /\ decompress(out, 4) = y
  BY DEF compress4, decompress, KYBER_Q, u
<1>3. CASE u <= 3225
  <2>1. w = (u + 104) * 80635
    BY <1>1, <1>3
  <2> HIDE DEF w
  <2>2. out \in Int /\ out >= 0 /\ out <= 15 /\ y \in Int
    BY <2>1, <1>1, <1>3
  <2>3. y - u >= -104 /\ y - u <= 104
    BY <2>1, <1>1, <1>3
  <2> HIDE DEF out, y
  <2>4. PICK j \in Int : u = x + j * 3329
    BY <1>1
  <2>5. y = x + j * 3329 + (y - u) /\ y - u \in Int
    BY <2>2, <2>4, <1>1
  <2>6. Near(y, x, 104)
    BY <2>3, <2>4, <2>5 DEF Near
  <2> QED
    BY <2>2, <2>6, <1>2
<1>4. CASE u >= 3226
  <2>1. w = (u + 104) * 80635 - 268435456
    BY <1>1, <1>4
  <2> HIDE DEF w
  <2>2. out = 0 /\ y = 0
    BY <2>1, <1>1, <1>4
  <2> HIDE DEF out, y
  <2>4. PICK j \in Int : u = x + j * 3329
    BY <1>1
  <2>5. PICK k \in Int, e \in Int : k = j - 1 /\ e = 3329 - u
    BY <1>1
  <2>6. y = x + k * 3329 + e /\ e >= -104 /\ e <= 104
    BY <2>2, <2>4, <2>5, <1>1, <1>4
  <2>7. Near(y, x, 104)
    BY <2>6 DEF Near
  <2> QED
    BY <2>2, <2>7, <1>2
<1> QED
  BY <1>1, <1>3, <1>4

\* Five bits: half a step of the finer grid.
LEMMA Compress5 ==
  ASSUME NEW x \in Int, x >= -1664, x <= 1664
  PROVE  /\ compress5(x) \in Int /\ compress5(x) >= 0 /\ compress5(x) <= 31
         /\ Near(decompress(compress5(x), 5), x, 52)
<1> DEFINE u == Unsigned(x)
<1>1. /\ u \in Int /\ u >= 0 /\ u <= 3328
      /\ \E j \in Int : u = x + j * 3329
  BY DEF Unsigned, KYBER_Q
<1> HIDE DEF u
<1> DEFINE w == ((u + 52) * 20159) % 67108864
           out == w \div 2097152
           y == (out * 3329 + 16) \div 32
<1>2. compress5(x) = out /\ decompress(out, 5) = y
  BY DEF compress5, decompress, KYBER_Q, u
<1>3. CASE u <= 3276
  <2>1. w = (u + 52) * 20159
    BY <1>1, <1>3
  <2> HIDE DEF w
  <2>2. out \in Int /\ out >= 0 /\ out <= 31 /\ y \in Int
    BY <2>1, <1>1, <1>3
  <2>3. y - u >= -52 /\ y - u <= 52
    BY <2>1, <1>1, <1>3
  <2> HIDE DEF out, y
  <2>4. PICK j \in Int : u = x + j * 3329
    BY <1>1
  <2>5. y = x + j * 3329 + (y - u) /\ y - u \in Int
    BY <2>2, <2>4, <1>1
  <2>6. Near(y, x, 52)
    BY <2>3, <2>4, <2>5 DEF Near
  <2> QED
    BY <2>2, <2>6, <1>2
<1>4. CASE u >= 3277
  <2>1. w = (u + 52) * 20159 - 67108864
    BY <1>1, <1>4
  <2> HIDE DEF w
  <2>2. out = 0 /\ y = 0
    BY <2>1, <1>1, <1>4
  <2> HIDE DEF out, y
  <2>4. PICK j \in Int : u = x + j * 3329
    BY <1>1
  <2>5. PICK k \in Int, e \in Int : k = j - 1 /\ e = 3329 - u
    BY <1>1
  <2>6. y = x + k * 3329 + e /\ e >= -52 /\ e <= 52
    BY <2>2, <2>4, <2>5, <1>1, <1>4
  <2>7. Near(y, x, 52)
    BY <2>6 DEF Near
  <2> QED
    BY <2>2, <2>7, <1>2
<1> QED
  BY <1>1, <1>3, <1>4

\* The bit that is read from a reduced coefficient.
LEMMA ReadBit ==
  ASSUME NEW x \in Int, x >= -1664, x <= 1664
  PROVE  /\ (x >= -831 /\ x <= 831) => tomsg(x) = 0
         /\ (x >= 834 \/ x <= -833) => tomsg(x) = 1
<1>1. Unsigned(x) \in Int
      /\ (x >= 0 => Unsigned(x) = x)
      /\ (x < 0 => Unsigned(x) = x + 3329)
  BY DEF Unsigned, KYBER_Q
<1> DEFINE u == Unsigned(x)
<1>2. tomsg(x) = (((u * 2 + 1664) * 80635) \div 268435456) % 2
  BY <1>1 DEF tomsg, KYBER_Q
<1> HIDE DEF u
<1> DEFINE n == ((u * 2 + 1664) * 80635) \div 268435456
<1>u. u \in Int /\ (x >= 0 => u = x) /\ (x < 0 => u = x + 3329)
  BY <1>1 DEF u
<1>3. CASE x >= 0 /\ x <= 831
  <2>1. n = 0
    BY <1>3, <1>u
  <2> QED BY <2>1, <1>2, <1>3
<1>4. CASE x < 0 /\ x >= -831
  <2>1. n = 2
    BY <1>4, <1>u
  <2> QED BY <2>1, <1>2, <1>4
<1>5. CASE x >= 834 \/ x <= -833
  <2>1. n = 1
    BY <1>5, <1>u
  <2> QED BY <2>1, <1>2, <1>5
<1> QED
  BY <1>3, <1>4, <1>5
-----------------------------------------------------------------------------
\* What is kept from one step to the next: the coefficients are computed from
\* the bit, the product and the noise that the message started with.
ChannelInv ==
  /\ bits \in {4, 5} /\ bit \in {0, 1}
  /\ product \in Products /\ noise \in Noise
  /\ pc \in {"start", "sent", "received"}
  /\ pc # "start" =>
       /\ v = barrett_reduce(Int16(Int16(product + noise) + frommsg(bit)))
       /\ c = compress_coefficient(v)
  /\ pc = "received" =>
       got = tomsg(barrett_reduce(Int16(decompress(c, bits) - product)))

LEMMA ChannelInductive == ChannelSpec => []ChannelInv
<1>1. ChannelInit => ChannelInv
  BY DEF ChannelInit, ChannelInv
<1>2. ChannelInv /\ [ChannelNext]_channelVars => ChannelInv'
  <2> SUFFICES ASSUME ChannelInv, [ChannelNext]_channelVars
               PROVE  ChannelInv'
    OBVIOUS
  <2>1. CASE Encrypt
    BY <2>1 DEF ChannelInv, Encrypt, compress_coefficient
  <2>2. CASE Decrypt
    BY <2>2 DEF ChannelInv, Decrypt, compress_coefficient
  <2>3. CASE UNCHANGED channelVars
    BY <2>3 DEF ChannelInv, channelVars, compress_coefficient
  <2> QED
    BY <2>1, <2>2, <2>3 DEF ChannelNext
<1> QED
  BY <1>1, <1>2, PTL DEF ChannelSpec

\* Products and noise are residues on both sides of zero.
LEMMA Ranges ==
  ASSUME NEW x, x \in Products \/ x \in Noise
  PROVE  x \in Int /\ x >= -3328 /\ x <= 3328
<1>1. \A m, n \in Int : \A y \in m .. n : y \in Int /\ y >= m /\ y <= n
  OBVIOUS
<1>2. -(KYBER_Q - 1) \in Int /\ KYBER_Q - 1 \in Int
  BY DEF KYBER_Q
<1>3. x \in -(KYBER_Q - 1) .. KYBER_Q - 1
  BY KyberChannelAssumption
<1>4. x \in Int /\ x >= -(KYBER_Q - 1) /\ x <= KYBER_Q - 1
  BY <1>1, <1>2, <1>3
<1> QED
  BY <1>4 DEF KYBER_Q

\* The coefficient that is compressed is the sum, reduced.
LEMMA Sent ==
  ASSUME ChannelInv, pc # "start"
  PROVE  /\ IsReduced(v)
         /\ \E t \in Int : product + noise + frommsg(bit) = v + t * 3329
<1>1. /\ product \in Int /\ product >= -3328 /\ product <= 3328
      /\ noise \in Int /\ noise >= -3328 /\ noise <= 3328
  BY Ranges DEF ChannelInv
<1>2. frommsg(bit) = (IF bit = 1 THEN 1665 ELSE 0)
  BY DEF frommsg, KYBER_Q
<1>3. frommsg(bit) \in Int /\ frommsg(bit) >= 0 /\ frommsg(bit) <= 1665
  BY <1>2
<1> DEFINE a == product + noise + frommsg(bit)
<1>4. a \in Int /\ a >= -32768 /\ a <= 32767
  BY <1>1, <1>3
<1>5. Int16(product + noise) = product + noise
  BY <1>1, Int16Small
<1>6. Int16(Int16(product + noise) + frommsg(bit)) = a
  BY <1>4, <1>5, Int16Small
<1>7. v = barrett_reduce(a)
  BY <1>6 DEF ChannelInv
<1> HIDE DEF a
<1>8. /\ IsReduced(barrett_reduce(a))
      /\ \E t \in Int : a = barrett_reduce(a) + t * KYBER_Q
  BY <1>4, BarrettReduces
<1> QED
  BY <1>7, <1>8 DEF a, KYBER_Q

\* What compression loses, in both widths.
LEMMA Lost ==
  ASSUME ChannelInv, pc # "start"
  PROVE  /\ decompress(c, bits) \in Int
         /\ decompress(c, bits) >= 0 /\ decompress(c, bits) <= 3329
         /\ Near(decompress(c, bits), v, IF bits = 4 THEN 104 ELSE 52)
<1>1. v \in Int /\ v >= -1664 /\ v <= 1664
  BY Sent DEF IsReduced
<1>2. CASE bits = 4
  <2>1. c = compress4(v)
    BY <1>2 DEF ChannelInv, compress_coefficient
  <2>2. c \in Int /\ c >= 0 /\ c <= 15
    BY <1>1, <2>1, Compress4
  <2>3. /\ decompress(c, 4) \in Int
        /\ decompress(c, 4) >= 0 /\ decompress(c, 4) <= 3329
    BY <2>2 DEF decompress, KYBER_Q
  <2> QED
    BY <1>1, <1>2, <2>1, <2>3, Compress4
<1>3. CASE bits = 5
  <2>1. c = compress5(v)
    BY <1>3 DEF ChannelInv, compress_coefficient
  <2>2. c \in Int /\ c >= 0 /\ c <= 31
    BY <1>1, <2>1, Compress5
  <2>3. /\ decompress(c, 5) \in Int
        /\ decompress(c, 5) >= 0 /\ decompress(c, 5) <= 3329
    BY <2>2 DEF decompress, KYBER_Q
  <2> QED
    BY <1>1, <1>3, <2>1, <2>3, Compress5
<1> QED
  BY <1>2, <1>3 DEF ChannelInv

\* Noise within the tolerance is a small number plus a multiple of q.
LEMMA SmallNoise ==
  ASSUME ChannelInv, Distance(noise, 0) <= Tolerance
  PROVE  Near(noise, 0, IF bits = 4 THEN 727 ELSE 779)
<1>1. noise \in Int
  BY Ranges DEF ChannelInv
<1> DEFINE r == noise % 3329
           k == noise \div 3329
<1>2. r \in Int /\ k \in Int /\ noise = r + k * 3329 /\ r >= 0 /\ r < 3329
  BY <1>1
<1>3. Distance(noise, 0) = (IF 2 * r < 3329 THEN r ELSE 3329 - r)
  BY <1>1 DEF Distance, KYBER_Q
<1> HIDE DEF r, k
<1> DEFINE m == IF bits = 4 THEN 727 ELSE 779
<1>4. Tolerance = m /\ m \in Int /\ m > 0
  BY DEF Tolerance
<1> HIDE DEF m
<1>5. CASE 2 * r < 3329
  <2>1. noise = 0 + k * 3329 + r /\ r >= -m /\ r <= m
    BY <1>2, <1>3, <1>4, <1>5
  <2>2. Near(noise, 0, m)
    BY <2>1, <1>2 DEF Near
  <2> QED
    BY <2>2 DEF m
<1>6. CASE ~(2 * r < 3329)
  <2>1. noise = 0 + (k + 1) * 3329 + (r - 3329)
    BY <1>2
  <2>2. r - 3329 \in Int /\ k + 1 \in Int
    BY <1>2
  <2>3. r - 3329 >= -m /\ r - 3329 <= m
    BY <1>2, <1>3, <1>4, <1>6
  <2>4. Near(noise, 0, m)
    BY <2>1, <2>2, <2>3 DEF Near
  <2> QED
    BY <2>4 DEF m
<1> QED
  BY <1>5, <1>6

\* For all products and all noise: a bit whose noise is within the tolerance is
\* read as it was sent (BitSurvives).
THEOREM KyberBitSurvives == ChannelSpec => []BitSurvives
<1>1. ChannelInv => BitSurvives
  <2> SUFFICES ASSUME ChannelInv, pc = "received",
                      Distance(noise, 0) <= Tolerance
               PROVE  got = bit
    BY DEF BitSurvives
  <2>1. product \in Int /\ product >= -3328 /\ product <= 3328
    BY Ranges DEF ChannelInv
  <2>2. PICK t \in Int : product + noise + frommsg(bit) = v + t * 3329
    BY Sent
  <2>3. IsReduced(v)
    BY Sent
  <2>4. /\ decompress(c, bits) \in Int
        /\ decompress(c, bits) >= 0 /\ decompress(c, bits) <= 3329
    BY Lost
  <2>5. PICK k1 \in Int, e1 \in Int :
              /\ decompress(c, bits) = v + k1 * 3329 + e1
              /\ e1 >= -(IF bits = 4 THEN 104 ELSE 52)
              /\ e1 <= (IF bits = 4 THEN 104 ELSE 52)
    BY Lost DEF Near
  <2>6. PICK k2 \in Int, e2 \in Int :
           /\ noise = 0 + k2 * 3329 + e2
           /\ e2 >= -(IF bits = 4 THEN 727 ELSE 779)
           /\ e2 <= (IF bits = 4 THEN 727 ELSE 779)
    BY SmallNoise DEF Near
  <2>7. e1 + e2 >= -831 /\ e1 + e2 <= 831 /\ e1 + e2 \in Int
    BY <2>5, <2>6 DEF ChannelInv
  <2> DEFINE D == decompress(c, bits) - product
  <2>8. D \in Int /\ D >= -32768 /\ D <= 32767
    BY <2>1, <2>4
  <2>9. got = tomsg(barrett_reduce(D))
    BY <2>8, Int16Small DEF ChannelInv
  <2> HIDE DEF D
  <2> DEFINE x == barrett_reduce(D)
  <2>10. PICK s \in Int : D = x + s * 3329
    BY <2>8, BarrettReduces DEF KYBER_Q
  <2>11. x \in Int /\ x >= -1664 /\ x <= 1664
    BY <2>8, BarrettReduces DEF IsReduced
  <2>12. got = tomsg(x)
    BY <2>9
  <2> HIDE DEF x
  <2>13. x = e1 + e2 + frommsg(bit) + (k1 + k2 - t - s) * 3329
    <3>1. v \in Int /\ noise \in Int /\ frommsg(bit) \in Int
      BY <2>3, Ranges DEF IsReduced, ChannelInv, frommsg, KYBER_Q
    <3> QED
      BY <2>1, <2>2, <2>4, <2>5, <2>6, <2>10, <2>11, <3>1 DEF D
  <2> DEFINE z == k1 + k2 - t - s
  <2>14. z \in Int
    OBVIOUS
  <2>15. x = e1 + e2 + frommsg(bit) + z * 3329
    BY <2>13
  <2> HIDE DEF z
  <2>16. CASE bit = 0
    <3>1. x = e1 + e2 + z * 3329
      BY <2>15, <2>16, <2>7, <2>14 DEF frommsg
    <3>2. z = 0
      BY <3>1, <2>7, <2>11, <2>14
    <3>3. x >= -831 /\ x <= 831
      BY <3>1, <3>2, <2>7
    <3> QED
      BY <3>3, <2>11, <2>12, <2>16, ReadBit
  <2>17. CASE bit = 1
    <3>1. x = e1 + e2 + 1665 + z * 3329
      BY <2>15, <2>17, <2>7, <2>14 DEF frommsg, KYBER_Q
    <3>2. z = 0 \/ z = -1
      BY <3>1, <2>7, <2>11, <2>14
    <3>3. x >= 834 \/ x <= -833
      BY <3>1, <3>2, <2>7
    <3> QED
      BY <3>3, <2>11, <2>12, <2>17, ReadBit
  <2> QED
    BY <2>16, <2>17 DEF ChannelInv
<1> QED
  BY <1>1, ChannelInductive, PTL

\* Near numbers are near by the distance the properties use.
LEMMA NearDistance ==
  ASSUME NEW x \in Int, NEW y \in Int, NEW m \in Int, m >= 0, m <= 1664,
         Near(y, x, m)
  PROVE  Distance(y, x) <= m
<1>1. PICK k \in Int, e \in Int : y = x + k * 3329 + e /\ e >= -m /\ e <= m
  BY DEF Near
<1> DEFINE r == (y - x) % 3329
<1>2. Distance(y, x) = (IF 2 * r < 3329 THEN r ELSE 3329 - r)
  BY DEF Distance, KYBER_Q
<1>3. y - x = k * 3329 + e
  BY <1>1
<1>4. CASE e >= 0
  <2>1. r = e
    BY <1>1, <1>3, <1>4
  <2> QED
    BY <2>1, <1>1, <1>2, <1>4
<1>5. CASE e < 0
  <2>1. r = e + 3329
    BY <1>1, <1>3, <1>5
  <2> QED
    BY <2>1, <1>1, <1>2, <1>5
<1> QED
  BY <1>1, <1>4, <1>5

\* For all products and all noise, the coefficient that carries the bit is reduced
\* and compression loses at most half a step of the grid (LostInCompression).
THEOREM KyberLostInCompression == ChannelSpec => []LostInCompression
<1>1. ChannelInv => LostInCompression
  <2> SUFFICES ASSUME ChannelInv, pc # "start"
               PROVE  /\ v \in Reduced
                      /\ Distance(decompress(c, bits), v)
                           <= (IF bits = 4 THEN 104 ELSE 52)
    BY DEF LostInCompression
  <2>1. v \in Reduced
    BY Sent DEF IsReduced, Reduced
  <2> QED
    BY <2>1, Lost, Sent, NearDistance DEF IsReduced
<1> QED
  BY <1>1, ChannelInductive, PTL

-----------------------------------------------------------------------------
(*  Sums  *)

\* Induction over a set of naturals.
LEMMA SetInduction ==
  ASSUME NEW T, T \subseteq Nat, 0 \in T, \A n \in T : n + 1 \in T
  PROVE  Nat \subseteq T
<1> DEFINE U == Nat \ T
           I == {0 .. n : n \in U}
           W == StrictSubsetOrdering(Nat)
<1>1. SUFFICES ASSUME U # {} PROVE FALSE
  OBVIOUS
<1>2. I \subseteq FiniteSubsetsOf(Nat)
  <2>1. SUFFICES ASSUME NEW n \in U PROVE 0 .. n \in FiniteSubsetsOf(Nat)
    OBVIOUS
  <2>2. IsFiniteSet(0 .. n)
    BY FS_Interval
  <2> QED
    BY <2>2 DEF FiniteSubsetsOf
<1>3. I # {}
  BY <1>1
<1>4. IsWellFoundedOn(W, FiniteSubsetsOf(Nat))
  BY FS_StrictSubsetOrderingWellFounded
<1>5. PICK s \in I : \A r \in I : ~(<<r, s>> \in W)
  <2> HIDE DEF W, I
  <2> QED
    BY <1>2, <1>3, <1>4, WFMin
<1>6. PICK x \in U : s = 0 .. x
  OBVIOUS
<1>7. x # 0 /\ x \in Nat /\ x - 1 \in Nat
  OBVIOUS
<1>8. x - 1 \in U
  BY <1>7
<1>9. <<0 .. x - 1, s>> \in W
  BY <1>6, <1>7 DEF StrictSubsetOrdering
<1> QED
  BY <1>5, <1>8, <1>9

\* The sums of the first i terms.
IsSum(s, f, n) ==
  /\ s \in [0 .. n -> Int] /\ s[0] = 0
  /\ \A i \in 0 .. n - 1 : s[i + 1] = s[i] + f[i]

LEMMA SumIsLast ==
  ASSUME NEW n \in Nat, NEW f, NEW s, IsSum(s, f, n)
  PROVE  Sum(f, n) = s[n]
<1> DEFINE loop(g) == [i \in 0 .. n |-> IF i = 0 THEN 0 ELSE g[i - 1] + f[i - 1]]
           o == CHOOSE g : g = loop(g)
           T == {i \in Nat : i <= n => o[i] = s[i]}
<1>1. Sum(f, n) = o[n]
  BY DEF Sum
<1>2. s = loop(s)
  <2>1. \A i \in 0 .. n : s[i] = loop(s)[i]
    <3> SUFFICES ASSUME NEW i \in 0 .. n PROVE s[i] = loop(s)[i]
      OBVIOUS
    <3>1. CASE i = 0
      BY <3>1 DEF IsSum
    <3>2. CASE i # 0
      <4>1. i - 1 \in 0 .. n - 1 /\ (i - 1) + 1 = i
        BY <3>2
      <4> QED
        BY <3>2, <4>1 DEF IsSum
    <3> QED
      BY <3>1, <3>2
  <2> QED
    BY <2>1 DEF IsSum
<1>3. o = loop(o)
  BY <1>2
<1> HIDE DEF o
<1>4. 0 \in T
  <2>1. o[0] = 0
    BY <1>3
  <2> QED
    BY <2>1 DEF IsSum
<1>5. ASSUME NEW i \in T PROVE i + 1 \in T
  <2> SUFFICES ASSUME i + 1 <= n PROVE o[i + 1] = s[i + 1]
    OBVIOUS
  <2>1. i \in 0 .. n - 1 /\ i + 1 \in 0 .. n /\ i + 1 # 0 /\ (i + 1) - 1 = i /\ o[i] = s[i]
    OBVIOUS
  <2>2. o[i + 1] = o[i] + f[i]
    BY <1>3, <2>1
  <2> QED
    BY <2>1, <2>2 DEF IsSum
<1>6. T \subseteq Nat
  OBVIOUS
<1>7. n \in T
  <2> HIDE DEF T
  <2> QED
    BY <1>4, <1>5, <1>6, SetInduction
<1> QED
  BY <1>1, <1>7

LEMMA SumExists ==
  ASSUME NEW n \in Nat, NEW f, \A i \in 0 .. n - 1 : f[i] \in Int
  PROVE  \E s : IsSum(s, f, n)
<1> DEFINE T == {m \in Nat : m <= n => \E s : IsSum(s, f, m)}
<1>1. 0 \in T
  <2>1. IsSum([i \in 0 .. 0 |-> 0], f, 0)
    BY DEF IsSum
  <2> QED
    BY <2>1
<1>2. ASSUME NEW m \in T PROVE m + 1 \in T
  <2> SUFFICES ASSUME m + 1 <= n PROVE \E s : IsSum(s, f, m + 1)
    OBVIOUS
  <2>1. PICK s : IsSum(s, f, m)
    OBVIOUS
  <2> DEFINE r == [i \in 0 .. m + 1 |-> IF i <= m THEN s[i] ELSE s[m] + f[m]]
  <2>2. f[m] \in Int /\ s[m] \in Int
    BY <2>1 DEF IsSum
  <2>3. r \in [0 .. m + 1 -> Int] /\ r[0] = 0
    BY <2>1, <2>2 DEF IsSum
  <2>4. ASSUME NEW i \in 0 .. (m + 1) - 1 PROVE r[i + 1] = r[i] + f[i]
    <3>1. CASE i < m
      BY <2>1, <3>1 DEF IsSum
    <3>2. CASE i = m
      BY <3>2
    <3> QED
      BY <3>1, <3>2
  <2> QED
    BY <2>3, <2>4 DEF IsSum
<1>3. T \subseteq Nat
  OBVIOUS
<1>4. n \in T
  <2> HIDE DEF T
  <2> QED
    BY <1>1, <1>2, <1>3, SetInduction
<1> QED
  BY <1>4

LEMMA SumOfIntegers ==
  ASSUME NEW n \in Nat, NEW f, \A i \in 0 .. n - 1 : f[i] \in Int
  PROVE  Sum(f, n) \in Int
<1>1. PICK s : IsSum(s, f, n)
  BY SumExists
<1>2. Sum(f, n) = s[n]
  BY <1>1, SumIsLast
<1> QED
  BY <1>1, <1>2 DEF IsSum

\* One term more.
LEMMA SumStep ==
  ASSUME NEW n \in Nat, NEW f, \A i \in 0 .. n : f[i] \in Int
  PROVE  Sum(f, n + 1) = Sum(f, n) + f[n] /\ Sum(f, 0) = 0
<1>0. \A i \in 0 .. (n + 1) - 1 : f[i] \in Int
  OBVIOUS
<1>1. PICK s : IsSum(s, f, n + 1)
  BY <1>0, SumExists
<1> DEFINE r == [i \in 0 .. n |-> s[i]]
           z0 == [i \in 0 .. 0 |-> 0]
<1>2. IsSum(r, f, n)
  <2>1. r \in [0 .. n -> Int] /\ r[0] = 0
    BY <1>1 DEF IsSum
  <2>2. \A i \in 0 .. n - 1 : r[i + 1] = r[i] + f[i]
    BY <1>1 DEF IsSum
  <2> QED
    BY <2>1, <2>2 DEF IsSum
<1>3. Sum(f, n + 1) = s[n + 1]
  BY <1>1, SumIsLast
<1>4. Sum(f, n) = r[n]
  <2> HIDE DEF r
  <2> QED
    BY <1>2, SumIsLast
<1>5. s[n + 1] = s[n] + f[n]
  BY <1>1 DEF IsSum
<1>6. IsSum(z0, f, 0)
  BY DEF IsSum
<1>7. Sum(f, 0) = z0[0]
  <2> HIDE DEF z0
  <2> QED
    BY <1>6, SumIsLast
<1> QED
  BY <1>3, <1>4, <1>5, <1>7

\* Sums are linear.
LEMMA SumIsLinear ==
  ASSUME NEW n \in Nat, NEW x \in Int, NEW f, NEW g, NEW h,
         \A i \in 0 .. n - 1 : f[i] \in Int /\ g[i] \in Int,
         \A i \in 0 .. n - 1 : h[i] = f[i] + x * g[i]
  PROVE  Sum(h, n) = Sum(f, n) + x * Sum(g, n)
<1>1. PICK s : IsSum(s, f, n)
  BY SumExists
<1>2. PICK r : IsSum(r, g, n)
  BY SumExists
<1> DEFINE u == [i \in 0 .. n |-> s[i] + x * r[i]]
<1>3. IsSum(u, h, n)
  <2>1. \A i \in 0 .. n : s[i] \in Int /\ r[i] \in Int /\ x * r[i] \in Int
    <3>1. \A i \in 0 .. n : s[i] \in Int /\ r[i] \in Int
      BY <1>1, <1>2 DEF IsSum
    <3>2. \A b \in Int : x * b \in Int
      OBVIOUS
    <3> QED
      BY <3>1, <3>2
  <2>2. u \in [0 .. n -> Int]
    BY <2>1
  <2>3. u[0] = 0
    <3>1. s[0] = 0 /\ r[0] = 0 /\ x * 0 = 0
      BY <1>1, <1>2 DEF IsSum
    <3> QED
      BY <3>1
  <2>4. ASSUME NEW i \in 0 .. n - 1 PROVE u[i + 1] = u[i] + h[i]
    <3>1. s[i + 1] = s[i] + f[i] /\ r[i + 1] = r[i] + g[i]
      BY <1>1, <1>2 DEF IsSum
    <3>2. u[i + 1] = s[i + 1] + x * r[i + 1] /\ u[i] = s[i] + x * r[i]
      OBVIOUS
    <3>3. i \in 0 .. n /\ f[i] \in Int /\ g[i] \in Int /\ s[i] \in Int /\ r[i] \in Int
      BY <2>1
    <3>4. \A a, b \in Int : x * (a + b) = x * a + x * b
      OBVIOUS
    <3>5. x * (r[i] + g[i]) = x * r[i] + x * g[i]
      BY <3>3, <3>4
    <3>6. x * r[i] \in Int /\ x * g[i] \in Int
      BY <3>3
    <3>7. h[i] = f[i] + x * g[i]
      OBVIOUS
    <3> HIDE DEF u
    <3> QED
      BY <3>1, <3>2, <3>3, <3>5, <3>6, <3>7
  <2> HIDE DEF u
  <2> QED
    BY <2>2, <2>3, <2>4 DEF IsSum
<1>4. Sum(f, n) = s[n]
  BY <1>1, SumIsLast
<1>5. Sum(g, n) = r[n]
  BY <1>2, SumIsLast
<1>6. Sum(h, n) = u[n]
  <2> HIDE DEF u
  <2> QED
    BY <1>3, SumIsLast
<1> QED
  BY <1>4, <1>5, <1>6

\* Terms that are all 0.
LEMMA SumOfZeros ==
  ASSUME NEW n \in Nat, NEW f, \A i \in 0 .. n - 1 : f[i] = 0
  PROVE  Sum(f, n) = 0
<1> DEFINE s == [i \in 0 .. n |-> 0]
<1>1. IsSum(s, f, n)
  BY DEF IsSum
<1>2. Sum(f, n) = s[n]
  <2> HIDE DEF s
  <2> QED
    BY <1>1, SumIsLast
<1> QED
  BY <1>2

\* Sums depend on the terms alone.
LEMMA SumOfSame ==
  ASSUME NEW n \in Nat, NEW f, NEW h, \A i \in 0 .. n - 1 : f[i] \in Int /\ h[i] = f[i]
  PROVE  Sum(h, n) = Sum(f, n)
<1> DEFINE g == [i \in 0 .. n - 1 |-> 0]
<1>1. \A i \in 0 .. n - 1 : f[i] \in Int /\ g[i] \in Int
  OBVIOUS
<1>4. \A i \in 0 .. n - 1 : h[i] = f[i] + 0 * g[i]
  OBVIOUS
<1>2. Sum(g, n) \in Int /\ Sum(f, n) \in Int
  <2>1. \A i \in 0 .. n - 1 : g[i] \in Int
    OBVIOUS
  <2> HIDE DEF g
  <2> QED
    BY <2>1, SumOfIntegers
<1>3. Sum(h, n) = Sum(f, n) + 0 * Sum(g, n)
  <2> HIDE DEF g
  <2> QED
    BY <1>1, <1>4, SumIsLinear
<1> QED
  BY <1>2, <1>3

\* The sum of all the entries of a table: row by row, and column by column.
ByRows(f, n, m) == [i \in 0 .. n - 1 |-> Sum(f[i], m)]
Crossed(f, n, j) == [i \in 0 .. n - 1 |-> f[i][j]]
ByColumns(f, n, m) == [j \in 0 .. m - 1 |-> Sum(Crossed(f, n, j), n)]

LEMMA SumsExchange ==
  ASSUME NEW n \in Nat, NEW m \in Nat, NEW f,
         \A i \in 0 .. n - 1, j \in 0 .. m - 1 : f[i][j] \in Int
  PROVE  Sum(ByRows(f, n, m), n) = Sum(ByColumns(f, n, m), m)
<1> DEFINE start(j) == [i \in 0 .. n - 1 |-> Sum(f[i], j)]
           s == [j \in 0 .. m |-> Sum(start(j), n)]
<1>1. ASSUME NEW j \in 0 .. m, NEW i \in 0 .. n - 1 PROVE start(j)[i] \in Int
  <2>1. \A l \in 0 .. j - 1 : f[i][l] \in Int
    OBVIOUS
  <2> QED
    BY <2>1, SumOfIntegers
<1>2. ASSUME NEW j \in 0 .. m PROVE s[j] \in Int
  <2>1. \A i \in 0 .. n - 1 : start(j)[i] \in Int
    BY <1>1
  <2>2. Sum(start(j), n) \in Int
    <3> HIDE DEF start
    <3> QED
      BY <2>1, SumOfIntegers
  <2> QED
    BY <2>2
<1>3. s[0] = 0
  <2>1. ASSUME NEW i \in 0 .. n - 1 PROVE start(0)[i] = 0
    <3> DEFINE z0 == [l \in 0 .. 0 |-> 0]
    <3>1. IsSum(z0, f[i], 0)
      BY DEF IsSum
    <3>2. Sum(f[i], 0) = z0[0]
      <4> HIDE DEF z0
      <4> QED
        BY <3>1, SumIsLast
    <3> QED
      BY <3>2
  <2>2. Sum(start(0), n) = 0
    <3> HIDE DEF start
    <3> QED
      BY <2>1, SumOfZeros
  <2> QED
    BY <2>2
<1>4. ASSUME NEW j \in 0 .. m - 1 PROVE s[j + 1] = s[j] + ByColumns(f, n, m)[j]
  <2> DEFINE here == Crossed(f, n, j)
  <2>1. \A i \in 0 .. n - 1 : here[i] \in Int
    BY DEF Crossed
  <2>2. ASSUME NEW i \in 0 .. n - 1 PROVE start(j + 1)[i] = start(j)[i] + 1 * here[i]
    <3>1. \A l \in 0 .. j : f[i][l] \in Int
      OBVIOUS
    <3>2. Sum(f[i], j + 1) = Sum(f[i], j) + f[i][j]
      BY <3>1, SumStep
    <3>3. here[i] \in Int /\ here[i] = f[i][j]
      BY <2>1 DEF Crossed
    <3> QED
      BY <3>2, <3>3
  <2>3. \A i \in 0 .. n - 1 : start(j)[i] \in Int /\ here[i] \in Int
    BY <1>1, <2>1
  <2>4. Sum(start(j + 1), n) = Sum(start(j), n) + 1 * Sum(here, n)
    <3> HIDE DEF start, here
    <3> QED
      BY <2>2, <2>3, SumIsLinear
  <2>5. Sum(here, n) \in Int
    <3> HIDE DEF here
    <3> QED
      BY <2>1, SumOfIntegers
  <2>6. ByColumns(f, n, m)[j] = Sum(here, n)
    BY DEF ByColumns
  <2>7. s[j + 1] = Sum(start(j + 1), n) /\ s[j] = Sum(start(j), n)
    OBVIOUS
  <2> HIDE DEF s, start, here
  <2> QED
    BY <2>4, <2>5, <2>6, <2>7
<1>5. IsSum(s, ByColumns(f, n, m), m)
  <2>1. s \in [0 .. m -> Int]
    BY <1>2
  <2> HIDE DEF s
  <2> QED
    BY <1>3, <1>4, <2>1 DEF IsSum
<1>6. Sum(ByColumns(f, n, m), m) = s[m]
  <2> HIDE DEF s
  <2> QED
    BY <1>5, SumIsLast
<1>7. start(m) = ByRows(f, n, m)
  BY DEF ByRows
<1>8. s[m] = Sum(start(m), n)
  OBVIOUS
<1> HIDE DEF s, start
<1> QED
  BY <1>6, <1>7, <1>8

-----------------------------------------------------------------------------
(*  Residues  *)

\* Congruent modulo q.
Same(a, b) == \E d \in Int : a = b + KYBER_Q * d

LEMMA SameIsCongruence ==
  /\ \A a \in Int : Same(a, a)
  /\ \A a, b \in Int : Same(a, b) => Same(b, a)
  /\ \A a, b, o \in Int : Same(a, b) /\ Same(b, o) => Same(a, o)
  /\ \A a, b, o, e \in Int : Same(a, b) /\ Same(o, e) => Same(a + o, b + e)
  /\ \A a, b, o \in Int : Same(a, b) => Same(o * a, o * b)
  /\ \A a \in Int : Same(a % KYBER_Q, a) /\ a % KYBER_Q \in 0 .. KYBER_Q - 1
<1>1. KYBER_Q \in Nat /\ KYBER_Q > 0
  BY DEF KYBER_Q
<1>2. \A a \in Int : Same(a, a)
  <2>1. \A a \in Int : a = a + KYBER_Q * 0
    BY <1>1
  <2> QED
    BY <2>1 DEF Same
<1>3. ASSUME NEW a \in Int, NEW b \in Int, Same(a, b) PROVE Same(b, a)
  <2>1. PICK d \in Int : a = b + KYBER_Q * d
    BY <1>3 DEF Same
  <2>2. KYBER_Q * d \in Int /\ KYBER_Q * (-d) = -(KYBER_Q * d)
    BY <1>1
  <2>3. b = a + KYBER_Q * (-d)
    BY <2>1, <2>2
  <2> QED
    BY <2>3 DEF Same
<1>4. ASSUME NEW a \in Int, NEW b \in Int, NEW o \in Int, NEW e \in Int,
             Same(a, b), Same(o, e)
      PROVE  Same(a + o, b + e)
  <2>1. PICK d \in Int : a = b + KYBER_Q * d
    BY <1>4 DEF Same
  <2>2. PICK x \in Int : o = e + KYBER_Q * x
    BY <1>4 DEF Same
  <2>3. KYBER_Q * d \in Int /\ KYBER_Q * x \in Int /\ KYBER_Q * (d + x) = KYBER_Q * d + KYBER_Q * x
    BY <1>1
  <2>4. a + o = (b + e) + KYBER_Q * (d + x)
    BY <2>1, <2>2, <2>3
  <2> QED
    BY <2>4 DEF Same
<1>5. ASSUME NEW a \in Int, NEW b \in Int, NEW o \in Int, Same(a, b), Same(b, o)
      PROVE  Same(a, o)
  <2>1. PICK d \in Int : a = b + KYBER_Q * d
    BY <1>5 DEF Same
  <2>2. PICK x \in Int : b = o + KYBER_Q * x
    BY <1>5 DEF Same
  <2>3. KYBER_Q * d \in Int /\ KYBER_Q * x \in Int /\ KYBER_Q * (d + x) = KYBER_Q * d + KYBER_Q * x
    BY <1>1
  <2>4. a = o + KYBER_Q * (d + x)
    BY <2>1, <2>2, <2>3
  <2> QED
    BY <2>4 DEF Same
<1>6. ASSUME NEW a \in Int, NEW b \in Int, NEW o \in Int, Same(a, b)
      PROVE  Same(o * a, o * b)
  <2>1. PICK d \in Int : a = b + KYBER_Q * d
    BY <1>6 DEF Same
  <2>2. \A x, w \in Int : o * (x + w) = o * x + o * w
    OBVIOUS
  <2>3. KYBER_Q * d \in Int /\ o * (KYBER_Q * d) = KYBER_Q * (o * d) /\ o * d \in Int
    BY <1>1
  <2>4. o * a = o * b + KYBER_Q * (o * d)
    BY <2>1, <2>2, <2>3
  <2> QED
    BY <2>3, <2>4 DEF Same
<1>7. ASSUME NEW a \in Int PROVE Same(a % KYBER_Q, a) /\ a % KYBER_Q \in 0 .. KYBER_Q - 1
  <2>1. /\ a \div KYBER_Q \in Int /\ a % KYBER_Q \in Int /\ 0 <= a % KYBER_Q /\ a % KYBER_Q < KYBER_Q
        /\ a = KYBER_Q * (a \div KYBER_Q) + (a % KYBER_Q)
    BY <1>1
  <2>2. KYBER_Q * (a \div KYBER_Q) \in Int /\ KYBER_Q * (-(a \div KYBER_Q)) = -(KYBER_Q * (a \div KYBER_Q))
    BY <1>1, <2>1
  <2>3. a % KYBER_Q = a + KYBER_Q * (-(a \div KYBER_Q))
    BY <2>1, <2>2
  <2>4. -(a \div KYBER_Q) \in Int
    BY <2>1
  <2>5. Same(a % KYBER_Q, a)
    BY <2>3, <2>4 DEF Same
  <2> QED
    BY <1>1, <2>1, <2>5
<1> QED
  BY <1>2, <1>3, <1>4, <1>5, <1>6, <1>7

LEMMA SameTimes ==
  ASSUME NEW a \in Int, NEW b \in Int, NEW o \in Int, Same(a, b)
  PROVE  Same(o * a, o * b)
  BY SameIsCongruence

LEMMA SamePlus ==
  ASSUME NEW a \in Int, NEW b \in Int, NEW o \in Int, NEW e \in Int, Same(a, b), Same(o, e)
  PROVE  Same(a + o, b + e)
  BY SameIsCongruence

LEMMA SameBack ==
  ASSUME NEW a \in Int, NEW b \in Int, Same(a, b)
  PROVE  Same(b, a)
  BY SameIsCongruence

LEMMA SameThen ==
  ASSUME NEW a \in Int, NEW b \in Int, NEW o \in Int, Same(a, b), Same(b, o)
  PROVE  Same(a, o)
  BY SameIsCongruence

LEMMA SameMinus ==
  ASSUME NEW a \in Int, NEW b \in Int, NEW o \in Int, NEW e \in Int, Same(a, b), Same(o, e)
  PROVE  Same(a - o, b - e)
<1>1. (-1) * o = -o /\ (-1) * e = -e
  OBVIOUS
<1>2. Same(-o, -e)
  <2>1. Same((-1) * o, (-1) * e)
    BY SameTimes
  <2> QED
    BY <1>1, <2>1
<1>3. Same(a + -o, b + -e)
  BY <1>2, SamePlus
<1>4. a + -o = a - o /\ b + -e = b - e
  OBVIOUS
<1> QED
  BY <1>3, <1>4

\* Residues of sums.
LEMMA SumIsLinearModulo ==
  ASSUME NEW n \in Nat, NEW x \in Int, NEW f, NEW g, NEW h,
         \A i \in 0 .. n - 1 : f[i] \in Int /\ g[i] \in Int /\ h[i] \in Int,
         \A i \in 0 .. n - 1 : Same(h[i], f[i] + x * g[i])
  PROVE  Same(Sum(h, n), Sum(f, n) + x * Sum(g, n))
<1>0. KYBER_Q \in Int
  BY DEF KYBER_Q
<1> DEFINE e == [i \in 0 .. n - 1 |-> f[i] + x * g[i]]
           d == [i \in 0 .. n - 1 |-> CHOOSE y \in Int : h[i] = e[i] + KYBER_Q * y]
<1>1. \A i \in 0 .. n - 1 : e[i] = f[i] + x * g[i]
  OBVIOUS
<1>2. \A i \in 0 .. n - 1 : e[i] \in Int
  <2>1. \A b \in Int : x * b \in Int
    OBVIOUS
  <2> QED
    BY <2>1
<1>3. \A i \in 0 .. n - 1 : \E y \in Int : h[i] = e[i] + KYBER_Q * y
  BY <1>1 DEF Same
<1>4. \A i \in 0 .. n - 1 : d[i] \in Int /\ h[i] = e[i] + KYBER_Q * d[i]
  <2> HIDE DEF e
  <2> QED
    BY <1>3
<1> HIDE DEF e, d
<1>5. Sum(e, n) = Sum(f, n) + x * Sum(g, n)
  BY <1>1, SumIsLinear
<1>6. Sum(h, n) = Sum(e, n) + KYBER_Q * Sum(d, n)
  <2>1. \A i \in 0 .. n - 1 : e[i] \in Int /\ d[i] \in Int
    BY <1>2, <1>4
  <2>2. \A i \in 0 .. n - 1 : h[i] = e[i] + KYBER_Q * d[i]
    BY <1>4
  <2> QED
    BY <1>0, <2>1, <2>2, SumIsLinear
<1>7. Sum(d, n) \in Int
  BY <1>4, SumOfIntegers
<1> QED
  BY <1>5, <1>6, <1>7 DEF Same

-----------------------------------------------------------------------------
(*  Polynomials modulo x^N + 1  *)

Polynomials == [Index -> Int]

\* The coefficient at any place: beyond an end the polynomial goes on, negated.
Wrapped(b, j) ==
  IF j >= 0 THEN b[j] ELSE IF j >= -KYBER_N THEN -b[KYBER_N + j] ELSE b[2 * KYBER_N + j]

Terms(a, b, k) == [i \in 0 .. KYBER_N - 1 |-> a[i] * Wrapped(b, k - i)]
Conv(a, b, k) == Sum(Terms(a, b, k), KYBER_N)

LEMMA Dimensions ==
  /\ KYBER_N \in Nat /\ KYBER_N >= 1 /\ KYBER_K \in Nat /\ KYBER_Q \in Nat /\ KYBER_Q >= 1
  /\ Index = 0 .. KYBER_N - 1 /\ Row = 0 .. KYBER_K - 1
  BY IndCpaAssumption DEF Index, Row, KYBER_Q

LEMMA WrappedType ==
  ASSUME NEW b \in Polynomials, NEW j \in Int, -(2 * KYBER_N) <= j, j < KYBER_N
  PROVE  Wrapped(b, j) \in Int
<1>1. CASE j >= 0
  BY <1>1, Dimensions DEF Polynomials, Wrapped
<1>2. CASE j < 0 /\ j >= -KYBER_N
  <2>1. KYBER_N + j \in Index
    BY <1>2, Dimensions
  <2>2. b[KYBER_N + j] \in Int
    BY <2>1 DEF Polynomials
  <2> QED
    BY <1>2, <2>2 DEF Wrapped
<1>3. CASE j < -KYBER_N
  <2>1. 2 * KYBER_N + j \in Index
    BY <1>3, Dimensions
  <2>2. b[2 * KYBER_N + j] \in Int
    BY <2>1 DEF Polynomials
  <2>3. ~ j >= 0 /\ ~ j >= -KYBER_N
    BY <1>3, Dimensions
  <2> QED
    BY <2>2, <2>3 DEF Wrapped
<1> QED
  BY <1>1, <1>2, <1>3, Dimensions

LEMMA ConvType ==
  ASSUME NEW a \in Polynomials, NEW b \in Polynomials, NEW k \in Int, -KYBER_N <= k, k < KYBER_N
  PROVE  /\ \A i \in 0 .. KYBER_N - 1 : /\ k - i \in Int /\ -(2 * KYBER_N) <= k - i /\ k - i < KYBER_N
                                 /\ a[i] \in Int /\ Wrapped(b, k - i) \in Int
                                 /\ Terms(a, b, k)[i] = a[i] * Wrapped(b, k - i)
                                 /\ Terms(a, b, k)[i] \in Int
         /\ Conv(a, b, k) \in Int
<1>1. ASSUME NEW i \in 0 .. KYBER_N - 1
      PROVE  /\ k - i \in Int /\ -(2 * KYBER_N) <= k - i /\ k - i < KYBER_N
             /\ a[i] \in Int /\ Wrapped(b, k - i) \in Int
             /\ Terms(a, b, k)[i] = a[i] * Wrapped(b, k - i)
             /\ Terms(a, b, k)[i] \in Int
  <2>1. k - i \in Int /\ -(2 * KYBER_N) <= k - i /\ k - i < KYBER_N
    BY Dimensions
  <2>2. a[i] \in Int
    BY Dimensions DEF Polynomials
  <2>3. Wrapped(b, k - i) \in Int
    BY <2>1, WrappedType
  <2>4. Terms(a, b, k)[i] = a[i] * Wrapped(b, k - i)
    BY DEF Terms
  <2>5. a[i] * Wrapped(b, k - i) \in Int
    BY <2>2, <2>3
  <2> QED
    BY <2>1, <2>2, <2>3, <2>4, <2>5
<1>2. \A i \in 0 .. KYBER_N - 1 : Terms(a, b, k)[i] \in Int
  BY <1>1
<1>3. Conv(a, b, k) \in Int
  BY <1>2, SumOfIntegers, Dimensions DEF Conv
<1> QED
  BY <1>1, <1>3

\* What Product computes.
LEMMA ProductIsConv ==
  ASSUME NEW a \in Polynomials, NEW b \in Polynomials, NEW k \in Index
  PROVE  /\ Product(a, b)[k] \in 0 .. KYBER_Q - 1
         /\ Same(Product(a, b)[k], Conv(a, b, k))
<1> DEFINE f == [i \in Index |-> IF i <= k THEN a[i] * b[k - i] ELSE -(a[i] * b[KYBER_N + k - i])]
<1>1. k \in Int /\ -KYBER_N <= k /\ k < KYBER_N
  BY Dimensions
<1>2. Product(a, b)[k] = Sum(f, KYBER_N) % KYBER_Q
  BY DEF Product, Term
<1>3. \A i \in 0 .. KYBER_N - 1 : f[i] = Terms(a, b, k)[i]
  <2> SUFFICES ASSUME NEW i \in 0 .. KYBER_N - 1 PROVE f[i] = a[i] * Wrapped(b, k - i)
    BY DEF Terms
  <2>1. CASE i <= k
    <3>1. k - i >= 0
      BY <2>1, Dimensions
    <3> QED
      BY <2>1, <3>1, Dimensions DEF Wrapped
  <2>2. CASE ~ (i <= k)
    <3>1. /\ ~ (k - i >= 0) /\ k - i >= -KYBER_N
          /\ KYBER_N + (k - i) = KYBER_N + k - i /\ KYBER_N + k - i \in Index
      BY <2>2, Dimensions
    <3>2. Wrapped(b, k - i) = -b[KYBER_N + k - i]
      BY <3>1 DEF Wrapped
    <3>3. a[i] \in Int /\ b[KYBER_N + k - i] \in Int
      BY <3>1, Dimensions DEF Polynomials
    <3>4. f[i] = -(a[i] * b[KYBER_N + k - i])
      BY <2>2, Dimensions
    <3>5. \A y, w \in Int : -(y * w) = y * (-w)
      OBVIOUS
    <3> QED
      BY <3>2, <3>3, <3>4, <3>5
  <2> QED
    BY <2>1, <2>2
<1>4. \A i \in 0 .. KYBER_N - 1 : Terms(a, b, k)[i] \in Int /\ f[i] = Terms(a, b, k)[i]
  BY <1>1, <1>3, ConvType
<1>5. Sum(f, KYBER_N) = Conv(a, b, k)
  <2> HIDE DEF f
  <2> QED
    BY <1>4, SumOfSame, Dimensions DEF Conv
<1>6. Conv(a, b, k) \in Int
  BY <1>1, ConvType
<1> QED
  BY <1>2, <1>5, <1>6, SameIsCongruence

\* The congruence of polynomials carries over to every place.
LEMMA WrappedSame ==
  ASSUME NEW b \in Polynomials, NEW u \in Polynomials, NEW y \in Polynomials, NEW x \in Int,
         \A k \in Index : Same(b[k], u[k] + x * y[k]),
         NEW j \in Int, -(2 * KYBER_N) <= j, j < KYBER_N
  PROVE  Same(Wrapped(b, j), Wrapped(u, j) + x * Wrapped(y, j))
<1>1. \A k \in Index : b[k] \in Int /\ u[k] \in Int /\ y[k] \in Int /\ x * y[k] \in Int
  <2>1. \A k \in Index : b[k] \in Int /\ u[k] \in Int /\ y[k] \in Int
    BY DEF Polynomials
  <2>2. \A w \in Int : x * w \in Int
    OBVIOUS
  <2> QED
    BY <2>1, <2>2
<1>2. CASE j >= 0
  <2>1. j \in Index
    BY <1>2, Dimensions
  <2> QED
    BY <1>2, <2>1 DEF Wrapped
<1>3. CASE ~ (j >= 0) /\ j >= -KYBER_N
  <2> DEFINE k == KYBER_N + j
  <2>1. k \in Index
    BY <1>3, Dimensions
  <2>2. /\ Wrapped(b, j) = -b[k] /\ Wrapped(u, j) = -u[k] /\ Wrapped(y, j) = -y[k]
    BY <1>3 DEF Wrapped
  <2> HIDE DEF k
  <2>3. Same(b[k], u[k] + x * y[k])
    BY <2>1
  <2>4. b[k] \in Int /\ u[k] \in Int /\ y[k] \in Int /\ x * y[k] \in Int
    BY <1>1, <2>1
  <2>5. Same((-1) * b[k], (-1) * (u[k] + x * y[k]))
    <3>1. u[k] + x * y[k] \in Int
      BY <2>4
    <3> QED
      BY <2>3, <2>4, <3>1, SameTimes
  <2>6. (-1) * b[k] = -b[k] /\ (-1) * (u[k] + x * y[k]) = (-u[k]) + x * (-y[k])
    <3>1. x * (-y[k]) = -(x * y[k])
      BY <2>4
    <3> QED
      BY <2>4, <3>1
  <2> QED
    BY <2>2, <2>5, <2>6
<1>4. CASE ~ (j >= 0) /\ ~ (j >= -KYBER_N)
  <2> DEFINE k == 2 * KYBER_N + j
  <2>1. k \in Index
    BY <1>4, Dimensions
  <2>2. /\ Wrapped(b, j) = b[k] /\ Wrapped(u, j) = u[k] /\ Wrapped(y, j) = y[k]
    BY <1>4 DEF Wrapped
  <2> QED
    BY <2>1, <2>2
<1> QED
  BY <1>2, <1>3, <1>4

\* Products are linear in their second factor.
LEMMA ConvIsLinear ==
  ASSUME NEW a \in Polynomials, NEW x \in Int,
         NEW b \in Polynomials, NEW u \in Polynomials, NEW y \in Polynomials,
         \A k \in Index : Same(b[k], u[k] + x * y[k]),
         NEW k \in Int, -KYBER_N <= k, k < KYBER_N
  PROVE  Same(Conv(a, b, k), Conv(a, u, k) + x * Conv(a, y, k))
<1> DEFINE h == Terms(a, b, k)
           f == Terms(a, u, k)
           g == Terms(a, y, k)
<1>1. \A i \in 0 .. KYBER_N - 1 : f[i] \in Int /\ g[i] \in Int /\ h[i] \in Int
  BY ConvType
<1>2. ASSUME NEW i \in 0 .. KYBER_N - 1 PROVE Same(h[i], f[i] + x * g[i])
  <2> DEFINE wb == Wrapped(b, k - i)
             wu == Wrapped(u, k - i)
             wv == Wrapped(y, k - i)
  <2>1. k - i \in Int /\ -(2 * KYBER_N) <= k - i /\ k - i < KYBER_N
    BY Dimensions
  <2>2. Same(wb, wu + x * wv)
    BY <2>1, WrappedSame
  <2>3. a[i] \in Int /\ wb \in Int /\ wu \in Int /\ wv \in Int
    BY ConvType
  <2>4. h[i] = a[i] * wb /\ f[i] = a[i] * wu /\ g[i] = a[i] * wv
    BY DEF Terms
  <2> HIDE DEF wb, wu, wv, h, f, g
  <2>5. x * wv \in Int
    BY <2>3
  <2>6. Same(a[i] * wb, a[i] * (wu + x * wv))
    <3>1. wu + x * wv \in Int
      BY <2>3, <2>5
    <3> QED
      BY <2>2, <2>3, <3>1, SameTimes
  <2>7. a[i] * (wu + x * wv) = a[i] * wu + x * (a[i] * wv)
    <3>1. a[i] * (wu + x * wv) = a[i] * wu + a[i] * (x * wv)
      BY <2>3, <2>5
    <3>2. a[i] * (x * wv) = x * (a[i] * wv)
      BY <2>3
    <3> QED
      BY <3>1, <3>2
  <2> QED
    BY <2>4, <2>6, <2>7
<1> HIDE DEF h, f, g
<1>3. Same(Sum(h, KYBER_N), Sum(f, KYBER_N) + x * Sum(g, KYBER_N))
  BY <1>1, <1>2, SumIsLinearModulo, Dimensions
<1> QED
  BY <1>3 DEF Conv, h, f, g

\* A product is wrapped as its factor is.
LEMMA WrappedConv ==
  ASSUME NEW o \in Polynomials, NEW s \in Polynomials, NEW p \in Polynomials,
         \A k \in Index : p[k] = Conv(o, s, k),
         NEW j \in Int, -KYBER_N <= j, j < KYBER_N
  PROVE  Wrapped(p, j) = Conv(o, s, j)
<1>1. CASE j >= 0
  <2>1. j \in Index
    BY <1>1, Dimensions
  <2> QED
    BY <1>1, <2>1 DEF Wrapped
<1>2. CASE ~ (j >= 0)
  <2> DEFINE k == KYBER_N + j
             h == Terms(o, s, j)
             g == Terms(o, s, k)
             z0 == [i \in 0 .. KYBER_N - 1 |-> 0]
  <2>1. k \in Index /\ k \in Int /\ -KYBER_N <= k /\ k < KYBER_N
    BY <1>2, Dimensions
  <2>2. Wrapped(p, j) = -Conv(o, s, k)
    BY <1>2, <2>1 DEF Wrapped
  <2>3. ASSUME NEW i \in 0 .. KYBER_N - 1
        PROVE  Wrapped(s, j - i) = -Wrapped(s, k - i)
    <3>0. j - i \in Int /\ k - i = KYBER_N + (j - i)
      BY Dimensions
    <3>1. CASE k - i >= 0
      <4>1. ~ (j - i >= 0) /\ j - i >= -KYBER_N
        BY <1>2, <3>1, Dimensions
      <4> QED
        BY <3>0, <3>1, <4>1 DEF Wrapped
    <3>2. CASE ~ (k - i >= 0)
      <4>1. /\ ~ (j - i >= 0) /\ ~ (j - i >= -KYBER_N) /\ k - i >= -KYBER_N
            /\ KYBER_N + (k - i) = 2 * KYBER_N + (j - i) /\ KYBER_N + (k - i) \in Index
        BY <1>2, <3>2, <2>1, Dimensions
      <4>2. s[KYBER_N + (k - i)] \in Int
        BY <4>1 DEF Polynomials
      <4>3. Wrapped(s, j - i) = s[KYBER_N + (k - i)] /\ Wrapped(s, k - i) = -s[KYBER_N + (k - i)]
        BY <3>2, <4>1 DEF Wrapped
      <4> QED
        BY <4>2, <4>3
    <3> QED
      BY <3>1, <3>2
  <2>4. \A i \in 0 .. KYBER_N - 1 : h[i] \in Int /\ g[i] \in Int
    BY <2>1, ConvType
  <2>5. \A i \in 0 .. KYBER_N - 1 : z0[i] \in Int /\ g[i] \in Int
    BY <2>4
  <2>6. ASSUME NEW i \in 0 .. KYBER_N - 1 PROVE h[i] = z0[i] + (-1) * g[i]
    <3>1. h[i] = o[i] * Wrapped(s, j - i) /\ g[i] = o[i] * Wrapped(s, k - i) /\ z0[i] = 0
      BY DEF Terms
    <3>2. o[i] \in Int /\ Wrapped(s, k - i) \in Int
      BY <2>1, ConvType
    <3>3. \A y, w \in Int : y * (-w) = 0 + (-1) * (y * w)
      OBVIOUS
    <3> HIDE DEF h, g, z0, k
    <3>4. o[i] * (-Wrapped(s, k - i)) = 0 + (-1) * (o[i] * Wrapped(s, k - i))
      BY <3>2, <3>3
    <3> QED
      BY <3>1, <3>4, <2>3
  <2>7. Sum(z0, KYBER_N) = 0
    BY SumOfZeros, Dimensions
  <2>8. Sum(g, KYBER_N) \in Int
    <3> HIDE DEF g
    <3> QED
      BY <2>4, SumOfIntegers, Dimensions
  <2>9. Sum(h, KYBER_N) = Sum(z0, KYBER_N) + (-1) * Sum(g, KYBER_N)
    <3> HIDE DEF h, g, z0
    <3> QED
      BY <2>5, <2>6, SumIsLinear, Dimensions
  <2>10. Conv(o, s, j) = Sum(h, KYBER_N) /\ Conv(o, s, k) = Sum(g, KYBER_N)
    BY DEF Conv
  <2> HIDE DEF h, g, z0, k
  <2> QED
    BY <2>2, <2>7, <2>8, <2>9, <2>10
<1> QED
  BY <1>1, <1>2

LEMMA SumTimes ==
  ASSUME NEW n \in Nat, NEW x \in Int, NEW g, NEW h,
         \A i \in 0 .. n - 1 : g[i] \in Int, \A i \in 0 .. n - 1 : h[i] = x * g[i]
  PROVE  Sum(h, n) = x * Sum(g, n)
<1> DEFINE z0 == [i \in 0 .. n - 1 |-> 0]
<1>1. \A i \in 0 .. n - 1 : z0[i] \in Int /\ g[i] \in Int
  OBVIOUS
<1>2. ASSUME NEW i \in 0 .. n - 1 PROVE h[i] = z0[i] + x * g[i]
  <2>1. h[i] = x * g[i] /\ g[i] \in Int /\ z0[i] = 0
    OBVIOUS
  <2>2. x * g[i] \in Int
    BY <2>1
  <2> QED
    BY <2>1, <2>2
<1>3. Sum(z0, n) = 0
  BY SumOfZeros
<1>4. Sum(g, n) \in Int /\ x * Sum(g, n) \in Int
  <2>1. Sum(g, n) \in Int
    BY SumOfIntegers
  <2> QED
    BY <2>1
<1>5. Sum(h, n) = Sum(z0, n) + x * Sum(g, n)
  <2> HIDE DEF z0
  <2> QED
    BY <1>1, <1>2, SumIsLinear
<1> QED
  BY <1>3, <1>4, <1>5

LEMMA ProductType ==
  ASSUME NEW a \in Polynomials, NEW b \in Polynomials
  PROVE  Product(a, b) \in Polynomials
<1>1. \A k \in Index : Product(a, b)[k] \in Int
  BY ProductIsConv, Dimensions
<1> QED
  BY <1>1 DEF Product, Polynomials

\* Congruent factors have congruent products.
LEMMA ConvSame ==
  ASSUME NEW a \in Polynomials, NEW b \in Polynomials, NEW u \in Polynomials,
         \A k \in Index : Same(b[k], u[k]),
         NEW k \in Int, -KYBER_N <= k, k < KYBER_N
  PROVE  Same(Conv(a, b, k), Conv(a, u, k))
<1>1. \A i \in Index : Same(b[i], u[i] + 0 * u[i])
  BY DEF Polynomials
<1>2. Conv(a, u, k) \in Int
  BY ConvType
<1>3. Same(Conv(a, b, k), Conv(a, u, k) + 0 * Conv(a, u, k))
  BY <1>1, ConvIsLinear
<1> QED
  BY <1>2, <1>3

\* m (c s) and c (m s) are congruent.
LEMMA ProductsExchange ==
  ASSUME NEW m \in Polynomials, NEW o \in Polynomials, NEW s \in Polynomials,
         NEW k \in Index
  PROVE  Same(Conv(m, Product(o, s), k), Conv(o, Product(m, s), k))
<1> DEFINE p == [i \in Index |-> Conv(o, s, i)]
           q == [i \in Index |-> Conv(m, s, i)]
           entry(i, l) == m[i] * (o[l] * Wrapped(s, (k - i) - l))
           f == [i \in 0 .. KYBER_N - 1 |-> [l \in 0 .. KYBER_N - 1 |-> entry(i, l)]]
<1>1. k \in Int /\ -KYBER_N <= k /\ k < KYBER_N
  BY Dimensions
<1>2. p \in Polynomials /\ q \in Polynomials
  <2>1. \A i \in Index : i \in Int /\ -KYBER_N <= i /\ i < KYBER_N
    BY Dimensions
  <2>2. \A i \in Index : Conv(o, s, i) \in Int /\ Conv(m, s, i) \in Int
    BY <2>1, ConvType
  <2> QED
    BY <2>2 DEF Polynomials
<1>3. Same(Conv(m, Product(o, s), k), Conv(m, p, k))
  <2>1. \A i \in Index : Same(Product(o, s)[i], p[i])
    BY ProductIsConv
  <2> HIDE DEF p
  <2> QED
    BY <1>1, <1>2, <2>1, ConvSame, ProductType
<1>4. Same(Conv(o, q, k), Conv(o, Product(m, s), k))
  <2>1. \A i \in Index : Same(Product(m, s)[i], q[i])
    BY ProductIsConv
  <2>2. Product(m, s) \in Polynomials
    BY ProductType
  <2> HIDE DEF q
  <2>3. Same(Conv(o, Product(m, s), k), Conv(o, q, k))
    BY <1>1, <1>2, <2>1, <2>2, ConvSame
  <2>4. Conv(o, Product(m, s), k) \in Int /\ Conv(o, q, k) \in Int
    BY <1>1, <1>2, <2>2, ConvType
  <2> QED
    BY <2>3, <2>4, SameBack
<1>5. ASSUME NEW i \in 0 .. KYBER_N - 1, NEW l \in 0 .. KYBER_N - 1
      PROVE  /\ m[i] \in Int /\ o[l] \in Int /\ Wrapped(s, (k - i) - l) \in Int
             /\ entry(i, l) \in Int
             /\ entry(i, l) = o[l] * (m[i] * Wrapped(s, (k - l) - i))
  <2>1. k - i \in Int /\ -KYBER_N <= k - i /\ k - i < KYBER_N /\ (k - i) - l = (k - l) - i
    BY Dimensions
  <2>2. Wrapped(s, (k - i) - l) \in Int
    BY <2>1, ConvType
  <2>3. m[i] \in Int /\ o[l] \in Int
    BY Dimensions DEF Polynomials
  <2> DEFINE w == Wrapped(s, (k - i) - l)
  <2>4. w = Wrapped(s, (k - l) - i) /\ w \in Int
    BY <2>1, <2>2
  <2> HIDE DEF w
  <2>5. m[i] * (o[l] * w) = o[l] * (m[i] * w) /\ m[i] * (o[l] * w) \in Int
    BY <2>3, <2>4
  <2> QED
    BY <2>2, <2>3, <2>4, <2>5 DEF w
<1>6. Conv(m, p, k) = Sum(ByRows(f, KYBER_N, KYBER_N), KYBER_N)
  <2>1. ASSUME NEW i \in 0 .. KYBER_N - 1
        PROVE  ByRows(f, KYBER_N, KYBER_N)[i] = Terms(m, p, k)[i] /\ Terms(m, p, k)[i] \in Int
    <3>1. k - i \in Int /\ -KYBER_N <= k - i /\ k - i < KYBER_N
      BY Dimensions
    <3>2. Wrapped(p, k - i) = Conv(o, s, k - i)
      <4>1. \A j \in Index : p[j] = Conv(o, s, j)
        OBVIOUS
      <4> HIDE DEF p
      <4> QED
        BY <1>2, <3>1, <4>1, WrappedConv
    <3> DEFINE g == Terms(o, s, k - i)
               h == f[i]
    <3>3. \A l \in 0 .. KYBER_N - 1 : g[l] \in Int
      BY <3>1, ConvType
    <3>4. \A l \in 0 .. KYBER_N - 1 : h[l] = m[i] * g[l]
      BY DEF Terms
    <3>5. m[i] \in Int
      BY Dimensions DEF Polynomials
    <3>6. Sum(h, KYBER_N) = m[i] * Sum(g, KYBER_N)
      <4> HIDE DEF g, h
      <4> QED
        BY <3>3, <3>4, <3>5, SumTimes, Dimensions
    <3>7. ByRows(f, KYBER_N, KYBER_N)[i] = Sum(h, KYBER_N)
      BY DEF ByRows
    <3>8. Terms(m, p, k)[i] = m[i] * Wrapped(p, k - i) /\ Terms(m, p, k)[i] \in Int
      <4> HIDE DEF p
      <4> QED
        BY <1>1, <1>2, ConvType
    <3>9. Sum(g, KYBER_N) = Conv(o, s, k - i)
      BY DEF Conv
    <3> HIDE DEF g, h, f, p
    <3> QED
      BY <3>2, <3>6, <3>7, <3>8, <3>9
  <2> HIDE DEF p, f
  <2>2. Sum(ByRows(f, KYBER_N, KYBER_N), KYBER_N) = Sum(Terms(m, p, k), KYBER_N)
    BY <2>1, SumOfSame, Dimensions
  <2> QED
    BY <2>2 DEF Conv
<1>7. Conv(o, q, k) = Sum(ByColumns(f, KYBER_N, KYBER_N), KYBER_N)
  <2>1. ASSUME NEW l \in 0 .. KYBER_N - 1
        PROVE  ByColumns(f, KYBER_N, KYBER_N)[l] = Terms(o, q, k)[l] /\ Terms(o, q, k)[l] \in Int
    <3>1. k - l \in Int /\ -KYBER_N <= k - l /\ k - l < KYBER_N
      BY Dimensions
    <3>2. Wrapped(q, k - l) = Conv(m, s, k - l)
      <4>1. \A j \in Index : q[j] = Conv(m, s, j)
        OBVIOUS
      <4> HIDE DEF q
      <4> QED
        BY <1>2, <3>1, <4>1, WrappedConv
    <3> DEFINE g == Terms(m, s, k - l)
               h == Crossed(f, KYBER_N, l)
    <3>3. \A i \in 0 .. KYBER_N - 1 : g[i] \in Int
      BY <3>1, ConvType
    <3>4. \A i \in 0 .. KYBER_N - 1 : h[i] = o[l] * g[i]
      <4>1. \A i \in 0 .. KYBER_N - 1 : h[i] = entry(i, l)
        BY DEF Crossed
      <4>2. \A i \in 0 .. KYBER_N - 1 : g[i] = m[i] * Wrapped(s, (k - l) - i)
        BY DEF Terms
      <4> HIDE DEF h, g, entry
      <4> QED
        BY <1>5, <4>1, <4>2
    <3>5. o[l] \in Int
      BY Dimensions DEF Polynomials
    <3>6. Sum(h, KYBER_N) = o[l] * Sum(g, KYBER_N)
      <4> HIDE DEF g, h
      <4> QED
        BY <3>3, <3>4, <3>5, SumTimes, Dimensions
    <3>7. ByColumns(f, KYBER_N, KYBER_N)[l] = Sum(h, KYBER_N)
      BY DEF ByColumns
    <3>8. Terms(o, q, k)[l] = o[l] * Wrapped(q, k - l) /\ Terms(o, q, k)[l] \in Int
      <4> HIDE DEF q
      <4> QED
        BY <1>1, <1>2, ConvType
    <3>9. Sum(g, KYBER_N) = Conv(m, s, k - l)
      BY DEF Conv
    <3> HIDE DEF g, h, f, q
    <3> QED
      BY <3>2, <3>6, <3>7, <3>8, <3>9
  <2> HIDE DEF q, f
  <2>2. Sum(ByColumns(f, KYBER_N, KYBER_N), KYBER_N) = Sum(Terms(o, q, k), KYBER_N)
    BY <2>1, SumOfSame, Dimensions
  <2> QED
    BY <2>2 DEF Conv
<1>8. Sum(ByRows(f, KYBER_N, KYBER_N), KYBER_N) = Sum(ByColumns(f, KYBER_N, KYBER_N), KYBER_N)
  <2>1. \A i \in 0 .. KYBER_N - 1, l \in 0 .. KYBER_N - 1 : f[i][l] \in Int
    <3>1. \A i \in 0 .. KYBER_N - 1, l \in 0 .. KYBER_N - 1 : f[i][l] = entry(i, l)
      OBVIOUS
    <3> HIDE DEF f, entry
    <3> QED
      BY <1>5, <3>1
  <2> HIDE DEF f
  <2> QED
    BY <2>1, SumsExchange, Dimensions
<1>9. Conv(m, p, k) = Conv(o, q, k)
  BY <1>6, <1>7, <1>8
<1>10. /\ Conv(m, Product(o, s), k) \in Int /\ Conv(m, p, k) \in Int
       /\ Conv(o, Product(m, s), k) \in Int
  <2>1. Product(o, s) \in Polynomials /\ Product(m, s) \in Polynomials
    BY ProductType
  <2> HIDE DEF p
  <2> QED
    BY <1>1, <1>2, <2>1, ConvType
<1> HIDE DEF p, q
<1> QED
  BY <1>3, <1>4, <1>9, <1>10, SameThen

-----------------------------------------------------------------------------
(*  Vectors  *)

\* A row of a matrix times a vector.
RowProducts(row, y, k) == [j \in Row |-> Product(row[j], y[j])[k]]
RowTimes(row, y, k) == Sum(RowProducts(row, y, k), KYBER_K)

LEMMA RowTimesType ==
  ASSUME NEW row \in [Row -> Polynomials], NEW y \in [Row -> Polynomials], NEW k \in Index
  PROVE  /\ \A j \in 0 .. KYBER_K - 1 : /\ RowProducts(row, y, k)[j] \in 0 .. KYBER_Q - 1
                                 /\ RowProducts(row, y, k)[j] \in Int
         /\ RowTimes(row, y, k) \in Int
<1>1. \A j \in 0 .. KYBER_K - 1 : RowProducts(row, y, k)[j] \in 0 .. KYBER_Q - 1
  <2> SUFFICES ASSUME NEW j \in 0 .. KYBER_K - 1 PROVE RowProducts(row, y, k)[j] \in 0 .. KYBER_Q - 1
    OBVIOUS
  <2>1. j \in Row /\ row[j] \in Polynomials /\ y[j] \in Polynomials
    BY Dimensions
  <2>2. Product(row[j], y[j])[k] \in 0 .. KYBER_Q - 1
    BY <2>1, ProductIsConv
  <2> QED
    BY <2>1, <2>2 DEF RowProducts
<1>2. \A j \in 0 .. KYBER_K - 1 : RowProducts(row, y, k)[j] \in Int
  BY <1>1, Dimensions
<1>3. Sum(RowProducts(row, y, k), KYBER_K) \in Int
  BY <1>2, SumOfIntegers, Dimensions
<1> QED
  BY <1>1, <1>2, <1>3 DEF RowTimes

\* c times the sum of polynomials is the sum of the products.
LEMMA ConvOfSum ==
  ASSUME NEW o \in Polynomials, NEW p \in [Row -> Polynomials], NEW w \in Polynomials,
         \A i \in Index : w[i] = Sum([j \in Row |-> p[j][i]], KYBER_K),
         NEW k \in Index
  PROVE  Sum([j \in Row |-> Conv(o, p[j], k)], KYBER_K) = Conv(o, w, k)
<1> DEFINE f == [j \in 0 .. KYBER_K - 1 |-> Terms(o, p[j], k)]
           h == [j \in Row |-> Conv(o, p[j], k)]
<1>1. k \in Int /\ -KYBER_N <= k /\ k < KYBER_N
  BY Dimensions
<1>2. \A j \in 0 .. KYBER_K - 1 : p[j] \in Polynomials
  BY Dimensions
<1>3. \A j \in 0 .. KYBER_K - 1, i \in 0 .. KYBER_N - 1 : f[j][i] \in Int
  BY <1>1, <1>2, ConvType
<1>4. Sum(ByRows(f, KYBER_K, KYBER_N), KYBER_K) = Sum(h, KYBER_K)
  <2>1. ASSUME NEW j \in 0 .. KYBER_K - 1
        PROVE  h[j] \in Int /\ ByRows(f, KYBER_K, KYBER_N)[j] = h[j]
    <3>1. j \in Row /\ p[j] \in Polynomials
      BY Dimensions
    <3>2. Conv(o, p[j], k) \in Int
      BY <1>1, <3>1, ConvType
    <3>3. h[j] = Conv(o, p[j], k) /\ ByRows(f, KYBER_K, KYBER_N)[j] = Conv(o, p[j], k)
      BY <3>1 DEF ByRows, Conv
    <3> QED
      BY <3>2, <3>3
  <2> HIDE DEF f, h
  <2> QED
    BY <2>1, SumOfSame, Dimensions
<1>5. ASSUME NEW j \in Int, -KYBER_N <= j, j < KYBER_N
      PROVE  Wrapped(w, j) = Sum([l \in Row |-> Wrapped(p[l], j)], KYBER_K)
  <2> DEFINE all == [l \in Row |-> Wrapped(p[l], j)]
             part(i) == [l \in Row |-> p[l][i]]
  <2>1. CASE j >= 0
    <3>1. j \in Index
      BY <1>5, <2>1, Dimensions
    <3>2. all = part(j)
      BY <2>1 DEF Wrapped
    <3> QED
      BY <2>1, <3>1, <3>2 DEF Wrapped
  <2>2. CASE ~ (j >= 0)
    <3> DEFINE i == KYBER_N + j
               g == part(i)
    <3>1. i \in Index
      BY <1>5, <2>2, Dimensions
    <3>2. Wrapped(w, j) = -Sum(g, KYBER_K)
      BY <1>5, <2>2, <3>1 DEF Wrapped
    <3>3. \A l \in 0 .. KYBER_K - 1 : g[l] \in Int /\ all[l] = -g[l]
      <4> SUFFICES ASSUME NEW l \in 0 .. KYBER_K - 1 PROVE g[l] \in Int /\ all[l] = -g[l]
        OBVIOUS
      <4>1. l \in Row /\ p[l] \in Polynomials
        BY Dimensions
      <4>2. p[l][i] \in Int
        BY <3>1, <4>1 DEF Polynomials
      <4> QED
        BY <1>5, <2>2, <4>1, <4>2 DEF Wrapped
    <3> HIDE DEF g, all
    <3>4. \A l \in 0 .. KYBER_K - 1 : g[l] \in Int
      BY <3>3
    <3>5. \A l \in 0 .. KYBER_K - 1 : all[l] = (-1) * g[l]
      BY <3>3
    <3>6. Sum(all, KYBER_K) = (-1) * Sum(g, KYBER_K)
      BY <3>4, <3>5, SumTimes, Dimensions
    <3>7. Sum(g, KYBER_K) \in Int
      BY <3>4, SumOfIntegers, Dimensions
    <3> QED
      BY <3>2, <3>6, <3>7 DEF all
  <2> QED
    BY <2>1, <2>2
<1>6. ASSUME NEW i \in 0 .. KYBER_N - 1
      PROVE  ByColumns(f, KYBER_K, KYBER_N)[i] = Terms(o, w, k)[i] /\ Terms(o, w, k)[i] \in Int
  <2>1. k - i \in Int /\ -KYBER_N <= k - i /\ k - i < KYBER_N /\ o[i] \in Int
    BY Dimensions DEF Polynomials
  <2> DEFINE g == [l \in Row |-> Wrapped(p[l], k - i)]
             s == Crossed(f, KYBER_K, i)
  <2>2. ASSUME NEW l \in 0 .. KYBER_K - 1 PROVE g[l] \in Int /\ s[l] = o[i] * g[l]
    <3>1. l \in Row /\ p[l] \in Polynomials
      BY Dimensions
    <3>2. Wrapped(p[l], k - i) \in Int
      BY <1>1, <3>1, ConvType
    <3>3. s[l] = o[i] * Wrapped(p[l], k - i)
      BY DEF Crossed, Terms
    <3> QED
      BY <3>1, <3>2, <3>3
  <2>3. Wrapped(w, k - i) = Sum(g, KYBER_K)
    BY <2>1, <1>5
  <2>4. ByColumns(f, KYBER_K, KYBER_N)[i] = Sum(s, KYBER_K)
    BY DEF ByColumns
  <2> HIDE DEF g, s
  <2>5. \A l \in 0 .. KYBER_K - 1 : g[l] \in Int
    BY <2>2
  <2>6. \A l \in 0 .. KYBER_K - 1 : s[l] = o[i] * g[l]
    BY <2>2
  <2>7. Sum(s, KYBER_K) = o[i] * Sum(g, KYBER_K)
    <3>1. o[i] \in Int /\ KYBER_K \in Nat
      BY <2>1, Dimensions
    <3> QED
      BY <3>1, <2>5, <2>6, SumTimes
  <2>8. Terms(o, w, k)[i] = o[i] * Wrapped(w, k - i) /\ Terms(o, w, k)[i] \in Int
    BY <1>1, ConvType
  <2> QED
    BY <2>3, <2>4, <2>7, <2>8
<1>7. Sum(ByColumns(f, KYBER_K, KYBER_N), KYBER_N) = Sum(Terms(o, w, k), KYBER_N)
  <2> HIDE DEF f
  <2> QED
    BY <1>6, SumOfSame, Dimensions
<1>8. Sum(ByRows(f, KYBER_K, KYBER_N), KYBER_K) = Sum(ByColumns(f, KYBER_K, KYBER_N), KYBER_N)
  <2> HIDE DEF f
  <2> QED
    BY <1>3, SumsExchange, Dimensions
<1> QED
  BY <1>4, <1>7, <1>8 DEF Conv

\* A product with a sum less another polynomial.
LEMMA SumBound ==
  ASSUME NEW n \in Nat, NEW b \in Nat, NEW f,
         \A i \in 0 .. n - 1 : f[i] \in Int /\ -b <= f[i] /\ f[i] <= b
  PROVE  Sum(f, n) \in Int /\ n * b \in Int /\ -(n * b) <= Sum(f, n) /\ Sum(f, n) <= n * b
<1>0. \A i \in 0 .. n - 1 : f[i] \in Int
  OBVIOUS
<1>1. PICK s : IsSum(s, f, n)
  BY <1>0, SumExists
<1>2. Sum(f, n) = s[n]
  BY <1>1, SumIsLast
<1> DEFINE T == {m \in Nat : m <= n => s[m] \in Int /\ -(m * b) <= s[m] /\ s[m] <= m * b}
<1>3. 0 \in T
  <2>1. s[0] = 0 /\ 0 * b = 0
    BY <1>1 DEF IsSum
  <2> QED
    BY <2>1
<1>4. ASSUME NEW m \in T PROVE m + 1 \in T
  <2> SUFFICES ASSUME m + 1 <= n
               PROVE  s[m + 1] \in Int /\ -((m + 1) * b) <= s[m + 1] /\ s[m + 1] <= (m + 1) * b
    OBVIOUS
  <2>1. m \in Nat /\ m \in 0 .. n - 1 /\ s[m] \in Int /\ -(m * b) <= s[m] /\ s[m] <= m * b
    OBVIOUS
  <2>2. s[m + 1] = s[m] + f[m] /\ f[m] \in Int /\ -b <= f[m] /\ f[m] <= b
    BY <1>1, <2>1 DEF IsSum
  <2>3. (m + 1) * b = m * b + b /\ m * b \in Int
    BY <2>1
  <2> QED
    BY <2>1, <2>2, <2>3
<1>5. T \subseteq Nat
  OBVIOUS
<1>6. n \in T
  <2> HIDE DEF T
  <2> QED
    BY <1>3, <1>4, <1>5, SetInduction
<1>7. n * b \in Int
  OBVIOUS
<1> QED
  BY <1>2, <1>6, <1>7

\* And of one term.
LEMMA SumOfOne ==
  ASSUME NEW n \in Nat, NEW k \in 0 .. n - 1, NEW f, f[k] \in Int,
         \A i \in 0 .. n - 1 : i # k => f[i] = 0
  PROVE  Sum(f, n) = f[k]
<1> DEFINE s == [i \in 0 .. n |-> IF i <= k THEN 0 ELSE f[k]]
<1>1. IsSum(s, f, n)
  <2>1. s \in [0 .. n -> Int] /\ s[0] = 0
    OBVIOUS
  <2>2. ASSUME NEW i \in 0 .. n - 1 PROVE s[i + 1] = s[i] + f[i]
    <3>1. CASE i < k
      BY <3>1
    <3>2. CASE i = k
      BY <3>2
    <3>3. CASE i > k
      BY <3>3
    <3> QED
      BY <3>1, <3>2, <3>3
  <2> HIDE DEF s
  <2> QED
    BY <2>1, <2>2 DEF IsSum
<1>2. Sum(f, n) = s[n]
  <2> HIDE DEF s
  <2> QED
    BY <1>1, SumIsLast
<1> QED
  BY <1>2

LEMMA SumsSame ==
  ASSUME NEW n \in Nat, NEW f, NEW h,
         \A i \in 0 .. n - 1 : f[i] \in Int /\ h[i] \in Int /\ Same(h[i], f[i])
  PROVE  Sum(f, n) \in Int /\ Sum(h, n) \in Int /\ Same(Sum(h, n), Sum(f, n))
<1> DEFINE g == [i \in 0 .. n - 1 |-> 0]
<1>1. \A i \in 0 .. n - 1 : f[i] \in Int /\ g[i] \in Int /\ h[i] \in Int
  OBVIOUS
<1>2. ASSUME NEW i \in 0 .. n - 1 PROVE Same(h[i], f[i] + 0 * g[i])
  <2>1. f[i] + 0 * g[i] = f[i]
    OBVIOUS
  <2> QED
    BY <2>1
<1>3. Sum(f, n) \in Int /\ Sum(h, n) \in Int /\ Sum(g, n) \in Int
  <2>1. \A i \in 0 .. n - 1 : f[i] \in Int
    OBVIOUS
  <2>2. \A i \in 0 .. n - 1 : h[i] \in Int
    OBVIOUS
  <2>3. \A i \in 0 .. n - 1 : g[i] \in Int
    OBVIOUS
  <2> HIDE DEF g
  <2> QED
    BY <2>1, <2>2, <2>3, SumOfIntegers
<1>4. Same(Sum(h, n), Sum(f, n) + 0 * Sum(g, n))
  <2> HIDE DEF g
  <2> QED
    BY <1>1, <1>2, SumIsLinearModulo
<1>5. Sum(f, n) + 0 * Sum(g, n) = Sum(f, n)
  <2> HIDE DEF g
  <2> QED
    BY <1>3
<1> QED
  BY <1>3, <1>4, <1>5

-----------------------------------------------------------------------------
\* Products commute, because 1 is a polynomial and products may be exchanged.
One == [i \in Index |-> IF i = 0 THEN 1 ELSE 0]

LEMMA ConvWithOne ==
  ASSUME NEW a \in Polynomials, NEW k \in Index
  PROVE  Conv(a, One, k) = a[k]
<1> DEFINE f == Terms(a, One, k)
<1>1. k \in Int /\ k \in 0 .. KYBER_N - 1 /\ a[k] \in Int
  BY Dimensions DEF Polynomials
<1>2. ASSUME NEW i \in 0 .. KYBER_N - 1
      PROVE  f[i] = IF i = k THEN a[i] ELSE 0
  <2>1. f[i] = a[i] * Wrapped(One, k - i) /\ a[i] \in Int
    BY Dimensions DEF Terms, Polynomials
  <2>2. Wrapped(One, k - i) = IF i = k THEN 1 ELSE 0
    <3>1. CASE i = k
      BY <3>1, Dimensions DEF Wrapped, One
    <3>2. CASE i < k
      <4>1. k - i >= 0 /\ k - i \in Index /\ k - i # 0
        BY <1>1, <3>2, Dimensions
      <4> QED
        BY <4>1, <3>2, <1>1 DEF Wrapped, One
    <3>3. CASE i > k
      <4>1. ~ (k - i >= 0) /\ k - i >= -KYBER_N /\ KYBER_N + (k - i) \in Index /\ KYBER_N + (k - i) # 0
        BY <1>1, <3>3, Dimensions
      <4>2. Wrapped(One, k - i) = -One[KYBER_N + (k - i)]
        BY <4>1 DEF Wrapped
      <4>3. One[KYBER_N + (k - i)] = 0
        BY <4>1 DEF One
      <4> QED
        BY <4>2, <4>3, <3>3, <1>1
    <3> QED
      BY <3>1, <3>2, <3>3, <1>1
  <2> QED
    BY <2>1, <2>2
<1> HIDE DEF f
<1>3. Sum(f, KYBER_N) = f[k]
  BY <1>1, <1>2, SumOfOne, Dimensions
<1> QED
  BY <1>1, <1>2, <1>3 DEF Conv, f

LEMMA ConvCommutes ==
  ASSUME NEW a \in Polynomials, NEW b \in Polynomials, NEW k \in Index
  PROVE  Same(Conv(a, b, k), Conv(b, a, k))
<1>1. One \in Polynomials
  BY DEF One, Polynomials
<1>2. ASSUME NEW x \in Polynomials, NEW y \in Polynomials
      PROVE  /\ Conv(x, Product(y, One), k) \in Int /\ Conv(x, y, k) \in Int
             /\ Same(Conv(x, Product(y, One), k), Conv(x, y, k))
  <2>1. \A i \in Index : Same(Product(y, One)[i], y[i])
    BY <1>1, ProductIsConv, ConvWithOne
  <2>2. Product(y, One) \in Polynomials
    BY <1>1, ProductType
  <2>3. k \in Int /\ -KYBER_N <= k /\ k < KYBER_N
    BY Dimensions
  <2> QED
    BY <2>1, <2>2, <2>3, ConvSame, ConvType
<1>3. Same(Conv(a, Product(b, One), k), Conv(b, Product(a, One), k))
  BY <1>1, ProductsExchange
<1>4. Same(Conv(a, b, k), Conv(a, Product(b, One), k))
  BY <1>2, SameBack
<1>5. Same(Conv(b, Product(a, One), k), Conv(b, a, k))
  BY <1>2
<1>6. Same(Conv(a, b, k), Conv(b, Product(a, One), k))
  BY <1>2, <1>3, <1>4, SameThen
<1> QED
  BY <1>2, <1>5, <1>6, SameThen

\* The same with both factors replaced.
LEMMA ConvSameBoth ==
  ASSUME NEW a \in Polynomials, NEW x \in Polynomials, NEW b \in Polynomials, NEW y \in Polynomials,
         \A i \in Index : Same(a[i], x[i]), \A i \in Index : Same(b[i], y[i]), NEW k \in Index
  PROVE  Same(Conv(a, b, k), Conv(x, y, k))
<1>0. k \in Int /\ -KYBER_N <= k /\ k < KYBER_N
  BY Dimensions
<1>1. Conv(a, b, k) \in Int /\ Conv(a, y, k) \in Int /\ Conv(y, a, k) \in Int /\ Conv(y, x, k) \in Int
      /\ Conv(x, y, k) \in Int
  BY <1>0, ConvType
<1>2. Same(Conv(a, b, k), Conv(a, y, k))
  BY <1>0, ConvSame
<1>3. Same(Conv(a, y, k), Conv(y, a, k))
  BY ConvCommutes
<1>4. Same(Conv(y, a, k), Conv(y, x, k))
  BY <1>0, ConvSame
<1>5. Same(Conv(y, x, k), Conv(x, y, k))
  BY ConvCommutes
<1>6. Same(Conv(a, b, k), Conv(y, a, k))
  BY <1>1, <1>2, <1>3, SameThen
<1>7. Same(Conv(a, b, k), Conv(y, x, k))
  BY <1>1, <1>4, <1>6, SameThen
<1> QED
  BY <1>1, <1>5, <1>7, SameThen

-----------------------------------------------------------------------------
\* o times a row times a vector, term by term.
RowOf(o, row, s, k) == [j \in Row |-> Conv(o, Product(row[j], s[j]), k)]

LEMMA RowByTerms ==
  ASSUME NEW o \in Polynomials, NEW row \in [Row -> Polynomials], NEW s \in [Row -> Polynomials],
         NEW u \in Polynomials, \A i \in Index : Same(u[i], RowTimes(row, s, i)), NEW k \in Index
  PROVE  /\ \A j \in 0 .. KYBER_K - 1 : RowOf(o, row, s, k)[j] \in Int
         /\ Sum(RowOf(o, row, s, k), KYBER_K) \in Int /\ Conv(o, u, k) \in Int
         /\ Same(Conv(o, u, k), Sum(RowOf(o, row, s, k), KYBER_K))
<1> DEFINE w == [i \in Index |-> RowTimes(row, s, i)]
           p == [j \in Row |-> Product(row[j], s[j])]
<1>0. k \in Int /\ -KYBER_N <= k /\ k < KYBER_N
  BY Dimensions
<1>1. p \in [Row -> Polynomials] /\ w \in Polynomials
  <2>1. \A j \in Row : Product(row[j], s[j]) \in Polynomials
    BY ProductType
  <2>2. \A i \in Index : RowTimes(row, s, i) \in Int
    BY RowTimesType
  <2> QED
    BY <2>1, <2>2 DEF Polynomials
<1>2. \A i \in Index : w[i] = Sum([j \in Row |-> p[j][i]], KYBER_K)
  <2> SUFFICES ASSUME NEW i \in Index PROVE w[i] = Sum([j \in Row |-> p[j][i]], KYBER_K)
    OBVIOUS
  <2>1. RowProducts(row, s, i) = [j \in Row |-> p[j][i]]
    BY DEF RowProducts
  <2> QED
    BY <2>1 DEF RowTimes
<1>3. \A i \in Index : Same(u[i], w[i])
  OBVIOUS
<1>4. RowOf(o, row, s, k) = [j \in Row |-> Conv(o, p[j], k)]
  BY DEF RowOf
<1> HIDE DEF w, p
<1>5. Sum(RowOf(o, row, s, k), KYBER_K) = Conv(o, w, k)
  <2>1. Sum([j \in Row |-> Conv(o, p[j], k)], KYBER_K) = Conv(o, w, k)
    BY <1>1, <1>2, ConvOfSum
  <2> QED
    BY <1>4, <2>1, Zenon
<1>6. Same(Conv(o, u, k), Conv(o, w, k)) /\ Conv(o, w, k) \in Int /\ Conv(o, u, k) \in Int
  BY <1>0, <1>1, <1>3, ConvSame, ConvType
<1>7. ASSUME NEW j \in 0 .. KYBER_K - 1 PROVE RowOf(o, row, s, k)[j] \in Int
  <2>1. j \in Row /\ p[j] \in Polynomials
    BY <1>1, Dimensions
  <2>2. Conv(o, p[j], k) \in Int
    BY <1>0, <2>1, ConvType
  <2> QED
    BY <1>4, <2>1, <2>2
<1> QED
  BY <1>5, <1>6, <1>7

\* r (a s) and s (a r) are congruent.
LEMMA ProductsTurn ==
  ASSUME NEW r \in Polynomials, NEW a \in Polynomials, NEW s \in Polynomials, NEW k \in Index
  PROVE  Same(Conv(r, Product(a, s), k), Conv(s, Product(a, r), k))
<1>0. k \in Int /\ -KYBER_N <= k /\ k < KYBER_N
  BY Dimensions
<1>1. /\ Product(a, s) \in Polynomials /\ Product(a, r) \in Polynomials
      /\ Product(r, s) \in Polynomials /\ Product(s, r) \in Polynomials
  BY ProductType
<1>2. Same(Conv(r, Product(a, s), k), Conv(a, Product(r, s), k))
  BY ProductsExchange
<1>3. Same(Conv(a, Product(r, s), k), Conv(a, Product(s, r), k))
  <2>1. ASSUME NEW i \in Index PROVE Same(Product(r, s)[i], Product(s, r)[i])
    <3>0. i \in Int /\ -KYBER_N <= i /\ i < KYBER_N
      BY Dimensions
    <3>1. Same(Product(r, s)[i], Conv(r, s, i)) /\ Same(Product(s, r)[i], Conv(s, r, i))
      BY ProductIsConv
    <3>2. /\ Product(r, s)[i] \in Int /\ Product(s, r)[i] \in Int
          /\ Conv(r, s, i) \in Int /\ Conv(s, r, i) \in Int
      BY <1>1, <3>0, ConvType DEF Polynomials
    <3>3. Same(Conv(r, s, i), Conv(s, r, i))
      BY ConvCommutes
    <3>4. Same(Product(r, s)[i], Conv(s, r, i))
      BY <3>1, <3>2, <3>3, SameThen
    <3>5. Same(Conv(s, r, i), Product(s, r)[i])
      BY <3>1, <3>2, SameBack
    <3> QED
      BY <3>2, <3>4, <3>5, SameThen
  <2> QED
    BY <1>0, <1>1, <2>1, ConvSame
<1>4. Same(Conv(a, Product(s, r), k), Conv(s, Product(a, r), k))
  BY ProductsExchange
<1>5. /\ Conv(r, Product(a, s), k) \in Int /\ Conv(a, Product(r, s), k) \in Int
      /\ Conv(a, Product(s, r), k) \in Int /\ Conv(s, Product(a, r), k) \in Int
  BY <1>0, <1>1, ConvType
<1>6. Same(Conv(r, Product(a, s), k), Conv(a, Product(s, r), k))
  BY <1>2, <1>3, <1>5, SameThen
<1> QED
  BY <1>4, <1>5, <1>6, SameThen

\* What both sides compute of the matrix: r (A s) and s (transposed A times r).
Dot(x, y, k) == Sum([i \in Row |-> Conv(x[i], y[i], k)], KYBER_K)

LEMMA DotType ==
  ASSUME NEW x \in [Row -> Polynomials], NEW y \in [Row -> Polynomials], NEW k \in Index
  PROVE  /\ \A i \in 0 .. KYBER_K - 1 :
              [l \in Row |-> Conv(x[l], y[l], k)][i] \in Int
         /\ Dot(x, y, k) \in Int
<1> DEFINE f == [l \in Row |-> Conv(x[l], y[l], k)]
<1>0. k \in Int /\ -KYBER_N <= k /\ k < KYBER_N
  BY Dimensions
<1>1. ASSUME NEW i \in 0 .. KYBER_K - 1 PROVE f[i] \in Int
  <2>1. i \in Row /\ x[i] \in Polynomials /\ y[i] \in Polynomials
    BY Dimensions
  <2>2. Conv(x[i], y[i], k) \in Int
    BY <1>0, <2>1, ConvType
  <2> QED
    BY <2>1, <2>2
<1>2. Sum(f, KYBER_K) \in Int
  <2> HIDE DEF f
  <2> QED
    BY <1>1, SumOfIntegers, Dimensions
<1> QED
  BY <1>1, <1>2 DEF Dot

LEMMA Transposed ==
  ASSUME NEW A \in [Row -> [Row -> Polynomials]], NEW s \in [Row -> Polynomials],
         NEW r \in [Row -> Polynomials], NEW x \in [Row -> Polynomials], NEW y \in [Row -> Polynomials],
         \A i \in Row, k \in Index : Same(x[i][k], RowTimes(A[i], s, k)),
         \A j \in Row, k \in Index : Same(y[j][k], RowTimes([i \in Row |-> A[i][j]], r, k)),
         NEW k \in Index
  PROVE  Same(Dot(r, x, k), Dot(s, y, k))
<1> DEFINE column(j) == [i \in Row |-> A[i][j]]
           X == [i \in 0 .. KYBER_K - 1 |-> RowOf(r[i], A[i], s, k)]
           Y == [i \in 0 .. KYBER_K - 1 |-> [j \in 0 .. KYBER_K - 1 |->
                   RowOf(s[j], column(j), r, k)[i]]]
           f == [i \in Row |-> Conv(r[i], x[i], k)]
           g == [j \in Row |-> Conv(s[j], y[j], k)]
<1>1. ASSUME NEW i \in 0 .. KYBER_K - 1
      PROVE  /\ \A j \in 0 .. KYBER_K - 1 : X[i][j] \in Int
             /\ f[i] \in Int /\ ByRows(X, KYBER_K, KYBER_K)[i] \in Int
             /\ Same(f[i], ByRows(X, KYBER_K, KYBER_K)[i])
  <2>1. i \in Row /\ r[i] \in Polynomials /\ A[i] \in [Row -> Polynomials] /\ x[i] \in Polynomials
    BY Dimensions
  <2>2. /\ \A j \in 0 .. KYBER_K - 1 : RowOf(r[i], A[i], s, k)[j] \in Int
        /\ Sum(RowOf(r[i], A[i], s, k), KYBER_K) \in Int /\ Conv(r[i], x[i], k) \in Int
        /\ Same(Conv(r[i], x[i], k), Sum(RowOf(r[i], A[i], s, k), KYBER_K))
    BY <2>1, RowByTerms
  <2>3. ByRows(X, KYBER_K, KYBER_K)[i] = Sum(RowOf(r[i], A[i], s, k), KYBER_K)
        /\ X[i] = RowOf(r[i], A[i], s, k) /\ f[i] = Conv(r[i], x[i], k)
    BY <2>1 DEF ByRows
  <2> HIDE DEF X, f
  <2> QED
    BY <2>2, <2>3
<1>2. ASSUME NEW j \in 0 .. KYBER_K - 1
      PROVE  /\ \A i \in 0 .. KYBER_K - 1 : Y[i][j] \in Int
             /\ g[j] \in Int /\ ByColumns(Y, KYBER_K, KYBER_K)[j] \in Int
             /\ Same(g[j], ByColumns(Y, KYBER_K, KYBER_K)[j])
  <2>1. j \in Row /\ s[j] \in Polynomials /\ y[j] \in Polynomials
    BY Dimensions
  <2>2. column(j) \in [Row -> Polynomials]
    BY <2>1
  <2>3. \A i \in Index : Same(y[j][i], RowTimes(column(j), r, i))
    BY <2>1
  <2> DEFINE h == RowOf(s[j], column(j), r, k)
  <2>4. /\ \A i \in 0 .. KYBER_K - 1 : h[i] \in Int
        /\ Sum(h, KYBER_K) \in Int /\ Conv(s[j], y[j], k) \in Int
        /\ Same(Conv(s[j], y[j], k), Sum(h, KYBER_K))
    <3> HIDE DEF column
    <3> QED
      BY <2>1, <2>2, <2>3, RowByTerms
  <2>5. Crossed(Y, KYBER_K, j) = h /\ \A i \in 0 .. KYBER_K - 1 : Y[i][j] = h[i]
    <3>1. \A i \in 0 .. KYBER_K - 1 : Y[i][j] = h[i]
      OBVIOUS
    <3>2. h = [i \in 0 .. KYBER_K - 1 |-> h[i]]
      BY Dimensions DEF RowOf
    <3> HIDE DEF Y, h
    <3> QED
      BY <3>1, <3>2 DEF Crossed
  <2>6. ByColumns(Y, KYBER_K, KYBER_K)[j] = Sum(h, KYBER_K) /\ g[j] = Conv(s[j], y[j], k)
    BY <2>1, <2>5, Zenon DEF ByColumns
  <2> HIDE DEF Y, h, g
  <2> QED
    BY <2>4, <2>5, <2>6
<1>3. ASSUME NEW i \in 0 .. KYBER_K - 1, NEW j \in 0 .. KYBER_K - 1
      PROVE  Same(X[i][j], Y[i][j])
  <2>1. i \in Row /\ j \in Row /\ r[i] \in Polynomials /\ s[j] \in Polynomials /\ A[i][j] \in Polynomials
    BY Dimensions
  <2>2. X[i][j] = Conv(r[i], Product(A[i][j], s[j]), k)
    BY <2>1 DEF RowOf
  <2>3. Y[i][j] = Conv(s[j], Product(A[i][j], r[i]), k)
    BY <2>1 DEF RowOf
  <2> HIDE DEF X, Y
  <2> QED
    BY <2>1, <2>2, <2>3, ProductsTurn
<1> HIDE DEF column, X, Y, f, g
<1>4. ASSUME NEW i \in 0 .. KYBER_K - 1
      PROVE  /\ ByRows(Y, KYBER_K, KYBER_K)[i] \in Int
             /\ Same(ByRows(X, KYBER_K, KYBER_K)[i], ByRows(Y, KYBER_K, KYBER_K)[i])
  <2> DEFINE a == X[i]
             b == Y[i]
  <2>1. \A j \in 0 .. KYBER_K - 1 : b[j] \in Int /\ a[j] \in Int /\ Same(a[j], b[j])
    BY <1>1, <1>2, <1>3
  <2>2. ByRows(X, KYBER_K, KYBER_K)[i] = Sum(a, KYBER_K) /\ ByRows(Y, KYBER_K, KYBER_K)[i] = Sum(b, KYBER_K)
    BY DEF ByRows
  <2> HIDE DEF a, b
  <2> QED
    BY <2>1, <2>2, SumsSame, Dimensions
<1> DEFINE xs == ByRows(X, KYBER_K, KYBER_K)
           ys == ByRows(Y, KYBER_K, KYBER_K)
           zs == ByColumns(Y, KYBER_K, KYBER_K)
<1>5. Same(Sum(f, KYBER_K), Sum(xs, KYBER_K)) /\ Sum(f, KYBER_K) \in Int /\ Sum(xs, KYBER_K) \in Int
  <2>1. \A i \in 0 .. KYBER_K - 1 : xs[i] \in Int /\ f[i] \in Int /\ Same(f[i], xs[i])
    BY <1>1
  <2> HIDE DEF xs
  <2> QED
    BY <2>1, SumsSame, Dimensions
<1>6. Same(Sum(xs, KYBER_K), Sum(ys, KYBER_K)) /\ Sum(ys, KYBER_K) \in Int
  <2>1. \A i \in 0 .. KYBER_K - 1 : ys[i] \in Int /\ xs[i] \in Int /\ Same(xs[i], ys[i])
    BY <1>1, <1>4
  <2> HIDE DEF xs, ys
  <2> QED
    BY <2>1, SumsSame, Dimensions
<1>7. Same(Sum(g, KYBER_K), Sum(zs, KYBER_K)) /\ Sum(g, KYBER_K) \in Int /\ Sum(zs, KYBER_K) \in Int
  <2>1. \A i \in 0 .. KYBER_K - 1 : zs[i] \in Int /\ g[i] \in Int /\ Same(g[i], zs[i])
    BY <1>2
  <2> HIDE DEF zs
  <2> QED
    BY <2>1, SumsSame, Dimensions
<1>8. Sum(ys, KYBER_K) = Sum(zs, KYBER_K)
  BY <1>2, SumsExchange, Dimensions
<1>9. Dot(r, x, k) = Sum(f, KYBER_K) /\ Dot(s, y, k) = Sum(g, KYBER_K)
  BY DEF Dot, f, g
<1> HIDE DEF xs, ys, zs
<1>10. Same(Sum(f, KYBER_K), Sum(zs, KYBER_K))
  BY <1>5, <1>6, <1>8, SameThen
<1>11. Same(Sum(zs, KYBER_K), Sum(g, KYBER_K))
  BY <1>7, SameBack
<1> QED
  BY <1>5, <1>7, <1>9, <1>10, <1>11, SameThen

LEMMA RowTimesIsDot ==
  ASSUME NEW x \in [Row -> Polynomials], NEW y \in [Row -> Polynomials], NEW k \in Index
  PROVE  /\ RowTimes(x, y, k) \in Int /\ Dot(x, y, k) \in Int
         /\ Same(RowTimes(x, y, k), Dot(x, y, k))
<1> DEFINE f == [l \in Row |-> Conv(x[l], y[l], k)]
           h == RowProducts(x, y, k)
<1>1. \A i \in 0 .. KYBER_K - 1 : f[i] \in Int
  BY DotType
<1>2. \A i \in 0 .. KYBER_K - 1 : h[i] \in Int
  BY RowTimesType
<1>3. ASSUME NEW i \in 0 .. KYBER_K - 1 PROVE Same(h[i], f[i])
  <2>1. i \in Row /\ x[i] \in Polynomials /\ y[i] \in Polynomials
    BY Dimensions
  <2>2. Same(Product(x[i], y[i])[k], Conv(x[i], y[i], k))
    BY <2>1, ProductIsConv
  <2>3. h[i] = Product(x[i], y[i])[k] /\ f[i] = Conv(x[i], y[i], k)
    BY <2>1 DEF RowProducts
  <2> QED
    BY <2>2, <2>3, Zenon
<1>4. RowTimes(x, y, k) = Sum(h, KYBER_K) /\ Dot(x, y, k) = Sum(f, KYBER_K)
  BY DEF RowTimes, Dot
<1> HIDE DEF f, h
<1> QED
  BY <1>1, <1>2, <1>3, <1>4, SumsSame, Dimensions

\* Congruent vectors, in one order or the other.
LEMMA DotSame ==
  ASSUME NEW x \in [Row -> Polynomials], NEW y \in [Row -> Polynomials],
         NEW a \in [Row -> Polynomials], NEW b \in [Row -> Polynomials],
         \A i \in Row, l \in Index : Same(x[i][l], a[i][l]),
         \A i \in Row, l \in Index : Same(y[i][l], b[i][l]), NEW k \in Index
  PROVE  Same(Dot(x, y, k), Dot(a, b, k)) /\ Same(Dot(x, y, k), Dot(b, a, k))
<1> DEFINE f == [l \in Row |-> Conv(a[l], b[l], k)]
           g == [l \in Row |-> Conv(b[l], a[l], k)]
           h == [l \in Row |-> Conv(x[l], y[l], k)]
<1>1. \A i \in 0 .. KYBER_K - 1 : f[i] \in Int /\ g[i] \in Int /\ h[i] \in Int
  BY DotType
<1>2. ASSUME NEW i \in 0 .. KYBER_K - 1 PROVE Same(h[i], f[i]) /\ Same(h[i], g[i])
  <2>1. /\ i \in Row /\ x[i] \in Polynomials /\ y[i] \in Polynomials
        /\ a[i] \in Polynomials /\ b[i] \in Polynomials
    BY Dimensions
  <2>2. (\A l \in Index : Same(x[i][l], a[i][l])) /\ (\A l \in Index : Same(y[i][l], b[i][l]))
    BY <2>1
  <2>3. Same(Conv(x[i], y[i], k), Conv(a[i], b[i], k))
    BY <2>1, <2>2, ConvSameBoth
  <2>4. Same(Conv(a[i], b[i], k), Conv(b[i], a[i], k))
    BY <2>1, ConvCommutes
  <2>5. f[i] = Conv(a[i], b[i], k) /\ g[i] = Conv(b[i], a[i], k) /\ h[i] = Conv(x[i], y[i], k)
    BY <2>1
  <2> HIDE DEF f, g, h
  <2>6. Same(h[i], f[i]) /\ Same(f[i], g[i])
    BY <2>3, <2>4, <2>5
  <2> QED
    BY <1>1, <2>6, SameThen
<1>3. Dot(x, y, k) = Sum(h, KYBER_K) /\ Dot(a, b, k) = Sum(f, KYBER_K) /\ Dot(b, a, k) = Sum(g, KYBER_K)
  BY DEF Dot
<1> HIDE DEF f, g, h
<1>4. Same(Sum(h, KYBER_K), Sum(f, KYBER_K))
  BY <1>1, <1>2, SumsSame, Dimensions
<1>5. Same(Sum(h, KYBER_K), Sum(g, KYBER_K))
  BY <1>1, <1>2, SumsSame, Dimensions
<1> QED
  BY <1>3, <1>4, <1>5

LEMMA DotSplits ==
  ASSUME NEW x \in [Row -> Polynomials], NEW y \in [Row -> Polynomials],
         NEW a \in [Row -> Polynomials], NEW b \in [Row -> Polynomials],
         \A i \in Row, l \in Index : Same(y[i][l], a[i][l] + b[i][l]), NEW k \in Index
  PROVE  Same(Dot(x, y, k), Dot(x, a, k) + Dot(x, b, k))
<1> DEFINE f == [l \in Row |-> Conv(x[l], a[l], k)]
           g == [l \in Row |-> Conv(x[l], b[l], k)]
           h == [l \in Row |-> Conv(x[l], y[l], k)]
<1>0. k \in Int /\ -KYBER_N <= k /\ k < KYBER_N
  BY Dimensions
<1>1. \A i \in 0 .. KYBER_K - 1 : f[i] \in Int /\ g[i] \in Int /\ h[i] \in Int
  BY DotType
<1>2. ASSUME NEW i \in 0 .. KYBER_K - 1 PROVE Same(h[i], f[i] + 1 * g[i])
  <2>1. /\ i \in Row /\ x[i] \in Polynomials /\ y[i] \in Polynomials
        /\ a[i] \in Polynomials /\ b[i] \in Polynomials
    BY Dimensions
  <2> DEFINE o == y[i]
             p == a[i]
             e == b[i]
  <2>2. \A l \in Index : Same(o[l], p[l] + 1 * e[l])
    <3>1. \A l \in Index : Same(o[l], p[l] + e[l])
      BY <2>1
    <3>2. \A l \in Index : 1 * e[l] = e[l]
      BY <2>1 DEF Polynomials
    <3> HIDE DEF o, p, e
    <3> QED
      BY <3>1, <3>2
  <2>3. o \in Polynomials /\ p \in Polynomials /\ e \in Polynomials /\ 1 \in Int
    BY <2>1
  <2>4. h[i] = Conv(x[i], o, k) /\ f[i] = Conv(x[i], p, k) /\ g[i] = Conv(x[i], e, k)
    BY <2>1
  <2> HIDE DEF o, p, e, f, g, h
  <2>5. Same(Conv(x[i], o, k), Conv(x[i], p, k) + 1 * Conv(x[i], e, k))
    BY <1>0, <2>1, <2>2, <2>3, ConvIsLinear
  <2> QED
    BY <2>4, <2>5
<1>3. Dot(x, y, k) = Sum(h, KYBER_K) /\ Dot(x, a, k) = Sum(f, KYBER_K) /\ Dot(x, b, k) = Sum(g, KYBER_K)
  BY DEF Dot
<1>4. Dot(x, b, k) \in Int
  BY DotType
<1> HIDE DEF f, g, h
<1>5. Same(Sum(h, KYBER_K), Sum(f, KYBER_K) + 1 * Sum(g, KYBER_K))
  <2>1. KYBER_K \in Nat /\ 1 \in Int
    BY Dimensions
  <2> QED
    BY <1>1, <1>2, <2>1, SumIsLinearModulo
<1>6. 1 * Sum(g, KYBER_K) = Sum(g, KYBER_K)
  BY <1>3, <1>4
<1> QED
  BY <1>3, <1>5, <1>6

\* The products of both sides of an exchange differ by the noise: t is A s + e,
\* d is what is left of transposed A times r, up to g, and x is s.
LEMMA ProductsDiffer ==
  ASSUME NEW A \in [Row -> [Row -> Polynomials]], NEW s \in [Row -> Polynomials],
         NEW e \in [Row -> Polynomials], NEW r \in [Row -> Polynomials], NEW g \in [Row -> Polynomials],
         NEW t \in [Row -> Polynomials], NEW d \in [Row -> Polynomials], NEW x \in [Row -> Polynomials],
         \A i \in Row, l \in Index : Same(t[i][l], RowTimes(A[i], s, l) + e[i][l]),
         \A j \in Row, l \in Index : Same(d[j][l], RowTimes([i \in Row |-> A[i][j]], r, l) + g[j][l]),
         \A j \in Row, l \in Index : Same(x[j][l], s[j][l]),
         NEW k \in Index
  PROVE  /\ RowTimes(t, r, k) \in Int /\ RowTimes(x, d, k) \in Int
         /\ Dot(r, e, k) \in Int /\ Dot(s, g, k) \in Int
         /\ Same(RowTimes(t, r, k) - RowTimes(x, d, k), Dot(r, e, k) - Dot(s, g, k))
<1> DEFINE a == [i \in Row |-> [l \in Index |-> RowTimes(A[i], s, l)]]
           b == [j \in Row |-> [l \in Index |-> RowTimes([i \in Row |-> A[i][j]], r, l)]]
<1>1. a \in [Row -> Polynomials] /\ b \in [Row -> Polynomials]
  <2>1. \A i \in Row, l \in Index : RowTimes(A[i], s, l) \in Int
    BY RowTimesType
  <2>2. \A j \in Row, l \in Index : RowTimes([i \in Row |-> A[i][j]], r, l) \in Int
    <3> SUFFICES ASSUME NEW j \in Row, NEW l \in Index
                 PROVE  RowTimes([i \in Row |-> A[i][j]], r, l) \in Int
      OBVIOUS
    <3> DEFINE column == [i \in Row |-> A[i][j]]
    <3>1. column \in [Row -> Polynomials]
      OBVIOUS
    <3> HIDE DEF column
    <3>2. RowTimes(column, r, l) \in Int
      BY <3>1, RowTimesType
    <3> QED
      BY <3>2 DEF column
  <2> QED
    BY <2>1, <2>2 DEF Polynomials
<1>2. \A i \in Row, l \in Index : Same(a[i][l], RowTimes(A[i], s, l)) /\ Same(t[i][l], a[i][l] + e[i][l])
  <2>1. \A i \in Row, l \in Index : RowTimes(A[i], s, l) = a[i][l]
    OBVIOUS
  <2>2. \A i \in Row, l \in Index : a[i][l] \in Int
    BY <1>1 DEF Polynomials
  <2> HIDE DEF a
  <2> QED
    BY <2>1, <2>2, SameIsCongruence
<1>3. \A j \in Row, l \in Index : /\ Same(b[j][l], RowTimes([i \in Row |-> A[i][j]], r, l))
                                  /\ Same(d[j][l], b[j][l] + g[j][l])
  <2> SUFFICES ASSUME NEW j \in Row, NEW l \in Index
               PROVE  /\ Same(b[j][l], RowTimes([i \in Row |-> A[i][j]], r, l))
                      /\ Same(d[j][l], b[j][l] + g[j][l])
    OBVIOUS
  <2>1. b[j][l] = RowTimes([i \in Row |-> A[i][j]], r, l)
    OBVIOUS
  <2>2. b[j][l] \in Int
    BY <1>1 DEF Polynomials
  <2>3. Same(d[j][l], RowTimes([i \in Row |-> A[i][j]], r, l) + g[j][l])
    OBVIOUS
  <2> HIDE DEF b
  <2>4. Same(b[j][l], b[j][l])
    BY <2>2, SameIsCongruence
  <2> QED
    BY <2>1, <2>3, <2>4, Zenon
<1> HIDE DEF a, b
<1> DEFINE tr == RowTimes(t, r, k)
           xd == RowTimes(x, d, k)
           ra == Dot(r, a, k)
           re == Dot(r, e, k)
           sb == Dot(s, b, k)
           sg == Dot(s, g, k)
<1>4. tr \in Int /\ xd \in Int /\ ra \in Int /\ re \in Int /\ sb \in Int /\ sg \in Int
  BY <1>1, DotType, RowTimesIsDot
<1>5. Same(tr, ra + re)
  <2>1. Same(tr, Dot(t, r, k)) /\ Dot(t, r, k) \in Int /\ Dot(r, t, k) \in Int
    BY RowTimesIsDot
  <2>2. Same(Dot(t, r, k), Dot(r, t, k))
    <3>1. \A i \in Row, l \in Index : t[i][l] \in Int /\ r[i][l] \in Int
      BY DEF Polynomials
    <3>2. \A i \in Row, l \in Index : Same(t[i][l], t[i][l]) /\ Same(r[i][l], r[i][l])
      BY <3>1, SameIsCongruence
    <3> QED
      BY <3>2, DotSame
  <2>3. Same(Dot(r, t, k), ra + re)
    BY <1>1, <1>2, DotSplits
  <2> HIDE DEF tr, ra, re
  <2>4. ra + re \in Int
    BY <1>4
  <2>5. Same(tr, Dot(r, t, k))
    BY <1>4, <2>1, <2>2, SameThen
  <2> QED
    BY <1>4, <2>1, <2>3, <2>4, <2>5, SameThen
<1>6. Same(xd, sb + sg)
  <2>1. Same(xd, Dot(x, d, k)) /\ Dot(x, d, k) \in Int /\ Dot(s, d, k) \in Int
    BY RowTimesIsDot
  <2>2. Same(Dot(x, d, k), Dot(s, d, k))
    <3>1. \A i \in Row, l \in Index : d[i][l] \in Int
      BY DEF Polynomials
    <3>2. \A i \in Row, l \in Index : Same(d[i][l], d[i][l])
      BY <3>1, SameIsCongruence
    <3> QED
      BY <3>2, DotSame
  <2>3. Same(Dot(s, d, k), sb + sg)
    BY <1>1, <1>3, DotSplits
  <2> HIDE DEF xd, sb, sg
  <2>4. sb + sg \in Int
    BY <1>4
  <2>5. Same(xd, Dot(s, d, k))
    BY <1>4, <2>1, <2>2, SameThen
  <2> QED
    BY <1>4, <2>1, <2>3, <2>4, <2>5, SameThen
<1>7. Same(ra, sb)
  BY <1>1, <1>2, <1>3, Transposed
<1> HIDE DEF tr, xd, ra, re, sb, sg
<1>8. Same(tr - xd, (ra + re) - (sb + sg))
  <2>1. ra + re \in Int /\ sb + sg \in Int
    BY <1>4
  <2> QED
    BY <1>4, <1>5, <1>6, <2>1, SameMinus
<1>9. Same((ra + re) - (sb + sg), re - sg)
  <2>1. Same(re - sg, re - sg)
    <3>1. re - sg \in Int
      BY <1>4
    <3> QED
      BY <3>1, SameIsCongruence
  <2>2. Same(ra - sb, sb - sb)
    <3>1. Same(sb, sb)
      BY <1>4, SameIsCongruence
    <3> QED
      BY <1>4, <1>7, <3>1, SameMinus
  <2>3. Same((ra - sb) + (re - sg), (sb - sb) + (re - sg))
    <3>1. ra - sb \in Int /\ sb - sb \in Int /\ re - sg \in Int
      BY <1>4
    <3> QED
      BY <2>1, <2>2, <3>1, SamePlus
  <2>4. (ra - sb) + (re - sg) = (ra + re) - (sb + sg) /\ (sb - sb) + (re - sg) = re - sg
    BY <1>4
  <2> QED
    BY <2>3, <2>4
<1>10. Same(tr - xd, re - sg)
  <2>1. tr - xd \in Int /\ (ra + re) - (sb + sg) \in Int /\ re - sg \in Int
    BY <1>4
  <2> QED
    BY <1>8, <1>9, <2>1, SameThen
<1> QED
  BY <1>4, <1>10 DEF tr, xd, re, sg

\* MulShift cuts a product in two without leaving out a carry.
LEMMA ShiftedProduct ==
  ASSUME NEW a \in Int, a >= 0
  PROVE  MulShift(a, 1290167, 32) = (a * 1290167) \div 4294967296
<1> DEFINE h == a \div 2048
           l == a % 2048
<1>1. a \in Int /\ h \in Int /\ l \in Int /\ 0 <= l /\ l < 2048 /\ a = 2048 * h + l
  BY SMT
<1>2. MulShift(a, 1290167, 32) = (h * 629 + (h * 1975 + l * 629 + (l * 1975) \div 2048) \div 2048) \div 1024
  <2>1. 1290167 \div 2 ^ 11 = 629 /\ 1290167 % 2 ^ 11 = 1975 /\ 2 ^ 11 = 2048 /\ 2 ^ (32 - 22) = 1024
    BY SMT
  <2> QED
    BY <2>1, SMT DEF MulShift, h, l
<1> HIDE DEF h, l
<1> DEFINE x == (l * 1975) \div 2048
           y == (h * 1975 + l * 629 + x) \div 2048
           w == h * 629 + y
           p == a * 1290167
           z == w \div 1024
<1>3. x \in Int /\ 2048 * x <= l * 1975 /\ l * 1975 < 2048 * x + 2048
  BY <1>1, SMT
<1> HIDE DEF x
<1>4. y \in Int /\ 2048 * y <= h * 1975 + l * 629 + x /\ h * 1975 + l * 629 + x < 2048 * y + 2048
  BY <1>1, <1>3, SMT
<1> HIDE DEF y
<1>5. p = 4194304 * (h * 629) + 2048 * (h * 1975 + l * 629) + l * 1975
  BY <1>1, SMT
<1>6. w \in Int /\ p \in Int /\ 4194304 * w <= p /\ p < 4194304 * w + 4194304
  BY <1>1, <1>3, <1>4, <1>5, SMT
<1> HIDE DEF w, p
<1>7. z \in Int /\ 1024 * z <= w /\ w < 1024 * z + 1024
  BY <1>6, SMT
<1> HIDE DEF z
<1>8. p \div 4294967296 = z
  <2>1. 4294967296 * z <= p /\ p < 4294967296 * z + 4294967296
    BY <1>6, <1>7, SMT
  <2> QED
    BY <1>6, <1>7, <2>1, SMT
<1> QED
  BY <1>2, <1>8, SMT DEF x, y, w, p, z

\* Ten bits of a coefficient give it back up to 2.
LEMMA Compress10 ==
  ASSUME NEW x \in Int, x >= -1664, x <= 1664
  PROVE  /\ compress10(x) \in Int /\ compress10(x) >= 0 /\ compress10(x) <= 1023
         /\ decompress(compress10(x), 10) \in Int
         /\ Near(decompress(compress10(x), 10), x, 2)
<1> DEFINE u == Unsigned(x)
<1>1. /\ u \in Int /\ u >= 0 /\ u <= 3328
      /\ \E j \in Int : u = x + j * 3329
  BY SMT DEF Unsigned, KYBER_Q
<1> HIDE DEF u
<1> DEFINE w == ((u * 1024 + 1665) * 1290167) \div 4294967296
           out == w % 1024
           y == (out * 3329 + 512) \div 1024
<1>2. compress10(x) = out /\ decompress(out, 10) = y
  <2>1. compress10(x) = MulShift(u * 2 ^ 10 + 1665, 1290167, 32) % 2 ^ 10
    BY SMT DEF compress10, u
  <2>2. 2 ^ 10 = 1024 /\ 2 ^ (10 - 1) = 512
    BY SMT
  <2>3. MulShift(u * 1024 + 1665, 1290167, 32) = w
    <3>1. PICK a \in Int : a = u * 1024 + 1665
      BY <1>1, SMT
    <3>2. MulShift(a, 1290167, 32) = (a * 1290167) \div 4294967296
      BY <1>1, <3>1, ShiftedProduct, SMT
    <3> QED
      BY <3>1, <3>2, SMT
  <2>4. compress10(x) = out
    BY <2>1, <2>2, <2>3, SMT
  <2>5. decompress(out, 10) = y
    BY <2>2, SMT DEF decompress, KYBER_Q
  <2> QED
    BY <2>4, <2>5, SMT
<1>3. w \in Int /\ 4294967296 * w <= (u * 1024 + 1665) * 1290167
      /\ (u * 1024 + 1665) * 1290167 < 4294967296 * w + 4294967296
  BY <1>1, SMT
<1> HIDE DEF w
<1>4. PICK j \in Int : u = x + j * 3329
  BY <1>1, SMT
<1>5. CASE w < 1024
  <2>1. w >= 0 /\ out = w
    BY <1>1, <1>3, <1>5, SMT
  <2>2. y \in Int /\ 1024 * y <= out * 3329 + 512 /\ out * 3329 + 512 < 1024 * y + 1024
    BY <2>1, <1>3, SMT
  <2> HIDE DEF out, y
  <2>3. y - u >= -2 /\ y - u <= 2
    BY <1>1, <1>3, <2>1, <2>2, SMT
  <2>4. y = x + j * 3329 + (y - u) /\ y - u \in Int
    BY <1>1, <1>4, <2>2, SMT
  <2>5. Near(y, x, 2)
    BY <2>3, <2>4, SMT DEF Near
  <2> QED
    BY <1>2, <1>3, <1>5, <2>1, <2>2, <2>5, SMT
<1>6. CASE w >= 1024
  <2>1. w = 1024 /\ u >= 3327
    BY <1>1, <1>3, <1>6, SMT
  <2>2. out = 0 /\ y = 0
    BY <2>1, SMT
  <2> HIDE DEF out, y
  <2>3. PICK k \in Int, e \in Int : k = j - 1 /\ e = 3329 - u
    BY <1>1, SMT
  <2>4. y = x + k * 3329 + e /\ e >= -2 /\ e <= 2
    BY <1>1, <1>4, <2>1, <2>2, <2>3, SMT
  <2>5. Near(y, x, 2)
    BY <2>4, SMT DEF Near
  <2> QED
    BY <1>2, <2>2, <2>5, SMT
<1> QED
  BY <1>3, <1>5, <1>6, SMT

-----------------------------------------------------------------------------
\* What is packed is unpacked: twelve bits, ten bits, four bits.
Back12(t, u) ==
  LET b0 == t % 256
      b1 == (t \div 2 ^ 8 + u * 2 ^ 4) % 256
      b2 == (u \div 2 ^ 4) % 256
  IN /\ (b0 + b1 * 2 ^ 8) % 2 ^ 12 = t
     /\ (b1 \div 2 ^ 4 + b2 * 2 ^ 4) % 2 ^ 12 = u
LEMMA Pack12 ==
  ASSUME NEW t \in Int, NEW u \in Int, t >= 0, t <= 4095, u >= 0, u <= 4095
  PROVE  Back12(t, u)
<1>1. PICK t0 \in Int, t1 \in Int : t = 256 * t1 + t0 /\ 0 <= t0 /\ t0 <= 255
  <2>1. t = 256 * (t \div 256) + (t % 256)
    OBVIOUS
  <2> QED
    BY <2>1
<1>2. PICK u0 \in Int, u1 \in Int : u = 16 * u1 + u0 /\ 0 <= u0 /\ u0 <= 15
  <2>1. u = 16 * (u \div 16) + (u % 16)
    OBVIOUS
  <2> QED
    BY <2>1
<1>3. 0 <= t1 /\ t1 <= 15 /\ 0 <= u1 /\ u1 <= 255
  BY <1>1, <1>2
<1>4. t % 256 = t0 /\ t \div 256 = t1 /\ u \div 16 = u1
  BY <1>1, <1>2
<1>5. (t1 + u * 16) % 256 = t1 + 16 * u0
  BY <1>2, <1>3
<1>6. u1 % 256 = u1
  BY <1>3
<1>7. (t0 + (t1 + 16 * u0) * 256) % 4096 = t
  BY <1>1, <1>2, <1>3
<1>8. (t1 + 16 * u0) \div 16 = u0
  BY <1>2, <1>3
<1>9. (u0 + u1 * 16) % 4096 = u
  BY <1>2
<1>10. 2 ^ 4 = 16 /\ 2 ^ 8 = 256 /\ 2 ^ 12 = 4096
  BY SMT
<1> QED
  BY <1>4, <1>5, <1>6, <1>7, <1>8, <1>9, <1>10 DEF Back12

Back10(t0, t1, t2, t3) ==
  LET b0 == t0 % 256
      b1 == (t0 \div 2 ^ 8 + t1 * 2 ^ 2) % 256
      b2 == (t1 \div 2 ^ 6 + t2 * 2 ^ 4) % 256
      b3 == (t2 \div 2 ^ 4 + t3 * 2 ^ 6) % 256
      b4 == t3 \div 2 ^ 2
  IN /\ (b0 \div 1 + b1 * 256) % 1024 = t0
     /\ (b1 \div 4 + b2 * 64) % 1024 = t1
     /\ (b2 \div 16 + b3 * 16) % 1024 = t2
     /\ (b3 \div 64 + b4 * 4) % 1024 = t3
LEMMA Pack10 ==
  ASSUME NEW t0 \in Int, NEW t1 \in Int, NEW t2 \in Int, NEW t3 \in Int,
         t0 >= 0, t0 <= 1023, t1 >= 0, t1 <= 1023, t2 >= 0, t2 <= 1023, t3 >= 0, t3 <= 1023
  PROVE  Back10(t0, t1, t2, t3)
<1>0. 2 ^ 2 = 4 /\ 2 ^ 4 = 16 /\ 2 ^ 6 = 64 /\ 2 ^ 8 = 256
  BY SMT
<1>1. PICK a0 \in Int, a1 \in Int : t0 = 256 * a1 + a0 /\ 0 <= a0 /\ a0 <= 255
  <2>1. t0 = 256 * (t0 \div 256) + (t0 % 256)
    OBVIOUS
  <2> QED
    BY <2>1
<1>2. PICK c0 \in Int, c1 \in Int : t1 = 64 * c1 + c0 /\ 0 <= c0 /\ c0 <= 63
  <2>1. t1 = 64 * (t1 \div 64) + (t1 % 64)
    OBVIOUS
  <2> QED
    BY <2>1
<1>3. PICK d0 \in Int, d1 \in Int : t2 = 16 * d1 + d0 /\ 0 <= d0 /\ d0 <= 15
  <2>1. t2 = 16 * (t2 \div 16) + (t2 % 16)
    OBVIOUS
  <2> QED
    BY <2>1
<1>4. PICK e0 \in Int, e1 \in Int : t3 = 4 * e1 + e0 /\ 0 <= e0 /\ e0 <= 3
  <2>1. t3 = 4 * (t3 \div 4) + (t3 % 4)
    OBVIOUS
  <2> QED
    BY <2>1
<1>5. /\ 0 <= a1 /\ a1 <= 3 /\ 0 <= c1 /\ c1 <= 15 /\ 0 <= d1 /\ d1 <= 63 /\ 0 <= e1 /\ e1 <= 255
  BY <1>1, <1>2, <1>3, <1>4
<1>6. t0 % 256 = a0 /\ t0 \div 256 = a1
  BY <1>1
<1>7. t1 \div 64 = c1 /\ t2 \div 16 = d1 /\ t3 \div 4 = e1
  BY <1>2, <1>3, <1>4
<1>8. (a1 + t1 * 4) % 256 = a1 + 4 * c0
  BY <1>2, <1>5
<1>9. (c1 + t2 * 16) % 256 = c1 + 16 * d0
  BY <1>3, <1>5
<1>10. (d1 + t3 * 64) % 256 = d1 + 64 * e0
  BY <1>4, <1>5
<1>11. (a0 \div 1 + (a1 + 4 * c0) * 256) % 1024 = t0
  BY <1>1, <1>2, <1>5
<1>12. (a1 + 4 * c0) \div 4 = c0 /\ (c0 + (c1 + 16 * d0) * 64) % 1024 = t1
  BY <1>2, <1>3, <1>5
<1>13. (c1 + 16 * d0) \div 16 = d0 /\ (d0 + (d1 + 64 * e0) * 16) % 1024 = t2
  BY <1>3, <1>4, <1>5
<1>14. (d1 + 64 * e0) \div 64 = e0 /\ (e0 + e1 * 4) % 1024 = t3
  BY <1>4, <1>5
<1> DEFINE b0 == t0 % 256
           b1 == (t0 \div 2 ^ 8 + t1 * 2 ^ 2) % 256
           b2 == (t1 \div 2 ^ 6 + t2 * 2 ^ 4) % 256
           b3 == (t2 \div 2 ^ 4 + t3 * 2 ^ 6) % 256
           b4 == t3 \div 2 ^ 2
<1>15. b0 = a0 /\ b1 = a1 + 4 * c0
  BY <1>0, <1>6, <1>8
<1>16. b2 = c1 + 16 * d0 /\ b3 = d1 + 64 * e0 /\ b4 = e1
  BY <1>0, <1>7, <1>9, <1>10
<1> HIDE DEF b0, b1, b2, b3, b4
<1>17. (b0 \div 1 + b1 * 256) % 1024 = t0 /\ (b1 \div 4 + b2 * 64) % 1024 = t1
  BY <1>11, <1>12, <1>15, <1>16
<1>18. (b2 \div 16 + b3 * 16) % 1024 = t2 /\ (b3 \div 64 + b4 * 4) % 1024 = t3
  BY <1>13, <1>14, <1>15, <1>16
<1> QED
  BY <1>17, <1>18, Zenon DEF Back10, b0, b1, b2, b3, b4

LEMMA Pack4 ==
  ASSUME NEW t \in Int, NEW u \in Int, t >= 0, t <= 15, u >= 0, u <= 15
  PROVE  ((t + 16 * u) \div 1) % 16 = t /\ ((t + 16 * u) \div 16) % 16 = u
<1>1. (t + 16 * u) \div 16 = u /\ (t + 16 * u) \div 1 = t + 16 * u
  OBVIOUS
<1>2. (t + 16 * u) % 16 = t /\ u % 16 = u
  OBVIOUS
<1> QED
  BY <1>1, <1>2

LEMMA Divides ==
  ASSUME NEW x \in Int, NEW b \in Nat, NEW k \in Int, NEW r \in Int, b >= 1, 0 <= r, r < b,
         x = b * k + r
  PROVE  x \div b = k /\ x % b = r
<1>1. x \div b \in Int /\ x % b \in Int /\ 0 <= x % b /\ x % b < b /\ x = b * (x \div b) + (x % b)
  OBVIOUS
<1> DEFINE d == x \div b
           e == x % b
<1>2. d \in Int /\ e \in Int /\ 0 <= e /\ e < b /\ b * k + r = b * d + e
  BY <1>1
<1> HIDE DEF d, e
<1>3. d = k
  <2>1. CASE d >= k + 1
    <3>1. PICK n \in Nat : d = k + 1 + n
      <4>1. d - k - 1 \in Nat /\ d = k + 1 + (d - k - 1)
        BY <1>2, <2>1
      <4> QED
        BY <4>1
    <3>2. b * (k + 1 + n) = b * k + b + b * n /\ b * n >= 0 /\ b * k \in Int /\ b * n \in Int
      BY <3>1
    <3>3. b * k + r = b * k + b + b * n + e
      BY <1>2, <3>1, <3>2
    <3> QED
      BY <1>2, <3>2, <3>3
  <2>2. CASE d <= k - 1
    <3>1. PICK n \in Nat : k = d + 1 + n
      <4>1. k - d - 1 \in Nat /\ k = d + 1 + (k - d - 1)
        BY <1>2, <2>2
      <4> QED
        BY <4>1
    <3>2. b * (d + 1 + n) = b * d + b + b * n /\ b * n >= 0 /\ b * d \in Int /\ b * n \in Int
      BY <1>2, <3>1
    <3>3. b * d + b + b * n + r = b * d + e
      BY <1>2, <3>1, <3>2
    <3> QED
      BY <1>2, <3>2, <3>3
  <2> QED
    BY <1>2, <2>1, <2>2
<1>4. e = r
  <2>1. b * k \in Int /\ b * d = b * k
    BY <1>3
  <2> QED
    BY <1>2, <2>1
<1> QED
  BY <1>3, <1>4 DEF d, e

\* A fourth of the coefficients is a number of groups.
LEMMA Groups ==
  \E w \in Nat : /\ KYBER_N = 4 * w /\ w >= 1 /\ KYBER_N \div 4 = w /\ KYBER_N \div 2 = 2 * w
                 /\ POLYBYTES = 6 * w /\ COMPRESSEDBYTES = 5 * w
<1>1. KYBER_N \in Nat /\ KYBER_N >= 1 /\ KYBER_N % 4 = 0
  BY IndCpaAssumption
<1>2. KYBER_N = 4 * (KYBER_N \div 4) /\ KYBER_N \div 4 \in Nat /\ KYBER_N \div 4 >= 1
  BY <1>1
<1>3. PICK w \in Nat : w = KYBER_N \div 4
  BY <1>2
<1>4. KYBER_N = 4 * w /\ w >= 1
  BY <1>2, <1>3
<1>5. KYBER_N \div 2 = 2 * w /\ (3 * KYBER_N) \div 2 = 6 * w
  BY <1>4
<1> QED
  BY <1>3, <1>4, <1>5 DEF POLYBYTES, COMPRESSEDBYTES

-----------------------------------------------------------------------------
(*  Vectors of reduced polynomials, and their bytes  *)

IsReducedPoly(a) == a \in Polynomials /\ \A k \in Index : IsReduced(a[k])

LEMMA UnsignedSame ==
  ASSUME NEW x, IsReduced(x)
  PROVE  Unsigned(x) \in Int /\ Unsigned(x) >= 0 /\ Unsigned(x) <= 3328 /\ Same(Unsigned(x), x)
<1>1. x \in Int /\ x >= -1664 /\ x <= 1664
  BY DEF IsReduced
<1>2. Unsigned(x) = x \/ Unsigned(x) = x + 3329
  BY DEF Unsigned, KYBER_Q
<1>3. Unsigned(x) \in Int /\ Unsigned(x) >= 0 /\ Unsigned(x) <= 3328
  BY <1>1 DEF Unsigned, KYBER_Q
<1>4. \E d \in Int : Unsigned(x) = x + KYBER_Q * d
  <2>1. PICK d \in Int : d = IF x < 0 THEN 1 ELSE 0
    OBVIOUS
  <2>2. Unsigned(x) = x + 3329 * d
    BY <1>1, <2>1 DEF Unsigned, KYBER_Q
  <2> QED
    BY <2>2 DEF KYBER_Q
<1> QED
  BY <1>3, <1>4 DEF Same

\* The three bytes of a pair of coefficients.
LEMMA BytesOfPair ==
  ASSUME NEW a, NEW i \in Nat, POLYBYTES \in Nat, 3 * i + 3 <= POLYBYTES
  PROVE  LET t == Unsigned(a[2 * i])
             u == Unsigned(a[2 * i + 1])
             b == poly_tobytes(a)
         IN /\ b[3 * i + 1] = t % 256
            /\ b[3 * i + 2] = (t \div 2 ^ 8 + u * 2 ^ 4) % 256
            /\ b[3 * i + 3] = (u \div 2 ^ 4) % 256
<1>1. ASSUME NEW n \in 1 .. POLYBYTES, (n - 1) \div 3 = i
      PROVE  LET t == Unsigned(a[2 * i])
                 u == Unsigned(a[2 * i + 1])
                 b == poly_tobytes(a)
             IN /\ n % 3 = 1 => b[n] = t % 256
                /\ n % 3 = 2 => b[n] = (t \div 2 ^ 8 + u * 2 ^ 4) % 256
                /\ n % 3 = 0 => b[n] = (u \div 2 ^ 4) % 256
  <2> DEFINE t == Unsigned(a[2 * i])
             u == Unsigned(a[2 * i + 1])
  <2>1. poly_tobytes(a)[n] = CASE n % 3 = 1 -> t % 256
                               [] n % 3 = 2 -> (t \div 2 ^ 8 + u * 2 ^ 4) % 256
                               [] n % 3 = 0 -> (u \div 2 ^ 4) % 256
    BY <1>1 DEF poly_tobytes
  <2> HIDE DEF t, u
  <2>2. /\ n % 3 = 1 => poly_tobytes(a)[n] = t % 256
        /\ n % 3 = 2 => poly_tobytes(a)[n] = (t \div 2 ^ 8 + u * 2 ^ 4) % 256
        /\ n % 3 = 0 => poly_tobytes(a)[n] = (u \div 2 ^ 4) % 256
    BY <2>1
  <2> QED
    BY <2>2, Zenon DEF t, u
<1>2. /\ 3 * i + 1 \in 1 .. POLYBYTES /\ ((3 * i + 1) - 1) \div 3 = i /\ (3 * i + 1) % 3 = 1
      /\ 3 * i + 2 \in 1 .. POLYBYTES /\ ((3 * i + 2) - 1) \div 3 = i /\ (3 * i + 2) % 3 = 2
      /\ 3 * i + 3 \in 1 .. POLYBYTES /\ ((3 * i + 3) - 1) \div 3 = i /\ (3 * i + 3) % 3 = 0
  OBVIOUS
<1> QED
  BY <1>1, <1>2, Zenon

\* poly_frombytes after poly_tobytes.
LEMMA BytesRoundTrip ==
  ASSUME NEW a, IsReducedPoly(a), NEW k \in Index
  PROVE  /\ poly_frombytes(poly_tobytes(a))[k] = Unsigned(a[k])
         /\ poly_frombytes(poly_tobytes(a)) \in Polynomials
<1>1. ASSUME NEW j \in Index PROVE poly_frombytes(poly_tobytes(a))[j] = Unsigned(a[j])
                                   /\ Unsigned(a[j]) \in Int
  <2>0. PICK w \in Nat : KYBER_N = 4 * w /\ w >= 1 /\ POLYBYTES = 6 * w
    BY Groups
  <2>1. j \in Nat /\ j < 4 * w
    BY <2>0, Dimensions
  <2>2. PICK i \in Nat : /\ j \div 2 = i /\ i < 2 * w
                         /\ (j = 2 * i /\ j % 2 = 0) \/ (j = 2 * i + 1 /\ j % 2 = 1)
    <3>1. j \div 2 \in Nat /\ j \div 2 < 2 * w
      BY <2>1
    <3>2. (j = 2 * (j \div 2) /\ j % 2 = 0) \/ (j = 2 * (j \div 2) + 1 /\ j % 2 = 1)
      BY <2>1
    <3> QED
      BY <3>1, <3>2
  <2>3. 2 * i \in Index /\ 2 * i + 1 \in Index /\ POLYBYTES \in Nat /\ 3 * i + 3 <= POLYBYTES
    BY <2>0, <2>2, Dimensions
  <2> DEFINE t == Unsigned(a[2 * i])
             u == Unsigned(a[2 * i + 1])
             b == poly_tobytes(a)
             b0 == t % 256
             b1 == (t \div 2 ^ 8 + u * 2 ^ 4) % 256
             b2 == (u \div 2 ^ 4) % 256
  <2>4. t \in Int /\ t >= 0 /\ t <= 3328 /\ u \in Int /\ u >= 0 /\ u <= 3328
    <3>1. IsReduced(a[2 * i]) /\ IsReduced(a[2 * i + 1])
      BY <2>3 DEF IsReducedPoly
    <3> QED
      BY <3>1, UnsignedSame
  <2>5. b[3 * i + 1] = b0 /\ b[3 * i + 2] = b1 /\ b[3 * i + 3] = b2
    BY <2>3, BytesOfPair
  <2>6. (b0 + b1 * 2 ^ 8) % 2 ^ 12 = t /\ (b1 \div 2 ^ 4 + b2 * 2 ^ 4) % 2 ^ 12 = u
    <3> HIDE DEF t, u
    <3>1. t <= 4095 /\ u <= 4095
      BY <2>4
    <3>2. Back12(t, u)
      BY <2>4, <3>1, Pack12
    <3> QED
      BY <3>2, Zenon DEF Back12, b0, b1, b2
  <2>7. poly_frombytes(b)[j] = (IF j % 2 = 0 THEN (b[3 * i + 1] + b[3 * i + 2] * 2 ^ 8) % 2 ^ 12
                                ELSE (b[3 * i + 2] \div 2 ^ 4 + b[3 * i + 3] * 2 ^ 4) % 2 ^ 12)
    <3> HIDE DEF b
    <3>1. 3 * i + 1 + 1 = 3 * i + 2 /\ 3 * i + 1 + 2 = 3 * i + 3
      OBVIOUS
    <3> QED
      BY <2>2, <3>1 DEF poly_frombytes
  <2> HIDE DEF b, b0, b1, b2
  <2>8. poly_frombytes(b)[j] = IF j % 2 = 0 THEN t ELSE u
    BY <2>5, <2>6, <2>7, Zenon
  <2>9. Unsigned(a[j]) = IF j % 2 = 0 THEN t ELSE u
    BY <2>2
  <2>10. Unsigned(a[j]) \in Int
    BY <2>4, <2>9
  <2>11. poly_frombytes(b)[j] = Unsigned(a[j])
    BY <2>8, <2>9
  <2> QED
    BY <2>10, <2>11, Zenon DEF b
<1>2. poly_frombytes(poly_tobytes(a)) \in Polynomials
  <2> DEFINE f == poly_frombytes(poly_tobytes(a))
  <2>1. f = [j \in Index |-> f[j]]
    BY DEF poly_frombytes
  <2>2. \A j \in Index : f[j] \in Int
    BY <1>1
  <2> HIDE DEF f
  <2>3. f \in Polynomials
    BY <2>1, <2>2 DEF Polynomials
  <2> QED
    BY <2>3 DEF f
<1> QED
  BY <1>1, <1>2

-----------------------------------------------------------------------------
(*  Ciphertexts  *)

LEMMA CiphertextParts ==
  ASSUME NEW b, NEW u
  PROVE  LET n == POLYVECCOMPRESSEDBYTES
             ct == pack_ciphertext(b, u)
         IN /\ n \in Nat /\ KYBER_N \div 2 \in Nat /\ CIPHERTEXTBYTES = n + KYBER_N \div 2
            /\ ct = [i \in 1 .. CIPHERTEXTBYTES |-> ct[i]]
            /\ \A i \in 1 .. n : ct[i] = polyvec_compress(b)[i]
            /\ \A i \in 1 .. KYBER_N \div 2 :
                 SubSeq(ct, n + 1, CIPHERTEXTBYTES)[i] = poly_compress(u)[i]
<1> DEFINE n == POLYVECCOMPRESSEDBYTES
           m == KYBER_N \div 2
           s == polyvec_compress(b)
           t == poly_compress(u)
           S == {s[i] : i \in 1 .. n}
           T == {t[i] : i \in 1 .. m}
           U == S \cup T
<1>1. n \in Nat /\ m \in Nat /\ CIPHERTEXTBYTES = n + m
  <2>1. PICK w \in Nat : COMPRESSEDBYTES = 5 * w /\ m = 2 * w
    BY Groups
  <2>2. KYBER_K \in Nat
    BY Dimensions
  <2>3. (5 * w) * KYBER_K \in Nat
    BY <2>2
  <2>4. n \in Nat
    BY <2>1, <2>3, Zenon DEF POLYVECCOMPRESSEDBYTES
  <2>5. m \in Nat
    BY <2>1
  <2> QED
    BY <2>4, <2>5, Zenon DEF CIPHERTEXTBYTES
<1>2. s \in [1 .. n -> U]
  BY DEF polyvec_compress
<1>3. t \in [1 .. m -> U]
  BY DEF poly_compress
<1> HIDE DEF n, m, s, t, U
<1>4. s \in Seq(U) /\ Len(s) = n /\ t \in Seq(U) /\ Len(t) = m
  <2>1. \A x, k : k \in Nat /\ x \in [1 .. k -> U] => x \in Seq(U)
    BY SeqDef
  <2>2. s \in Seq(U) /\ t \in Seq(U)
    BY <1>1, <1>2, <1>3, <2>1
  <2> QED
    BY <1>1, <1>2, <1>3, <2>2, LenProperties
<1> DEFINE ct == s \o t
<1>5. /\ ct \in Seq(U) /\ Len(ct) = n + m
      /\ \A i \in 1 .. n + m : ct[i] = IF i <= n THEN s[i] ELSE t[i - n]
  BY <1>4, ConcatProperties
<1> HIDE DEF ct
<1>6. \A i \in 1 .. n + m : ct[i] \in U
  BY <1>5, LenProperties
<1>7. ct = [i \in 1 .. n + m |-> ct[i]]
  BY <1>5, LenProperties
<1>8. \A i \in 1 .. n : ct[i] = s[i]
  BY <1>1, <1>5
<1>9. ASSUME NEW i \in 1 .. m PROVE SubSeq(ct, n + 1, n + m)[i] = t[i]
  <2>1. \A j \in n + 1 .. n + m : ct[j] \in U
    BY <1>1, <1>6
  <2>2. n + 1 \in Int /\ n + m \in Int /\ i \in 1 .. (n + m) - (n + 1) + 1
    BY <1>1
  <2>3. SubSeq(ct, n + 1, n + m)[i] = ct[n + 1 + i - 1]
    BY <2>1, <2>2, SubSeqProperties
  <2>4. n + 1 + i - 1 = n + i /\ n + i \in 1 .. n + m /\ ~ (n + i <= n) /\ (n + i) - n = i
    BY <1>1
  <2>5. ct[n + i] = t[i]
    BY <1>5, <2>4
  <2> QED
    BY <2>3, <2>4, <2>5
<1>10. pack_ciphertext(b, u) = ct
  BY DEF pack_ciphertext, s, t, ct
<1> QED
  BY <1>1, <1>7, <1>8, <1>9, <1>10, Zenon DEF n, m, s, t

\* The five bytes of a group of coefficients.
GroupBytes(s, n, t0, t1, t2, t3) ==
  /\ s[n + 1] = t0 % 256
  /\ s[n + 2] = (t0 \div 2 ^ 8 + t1 * 2 ^ 2) % 256
  /\ s[n + 3] = (t1 \div 2 ^ 6 + t2 * 2 ^ 4) % 256
  /\ s[n + 4] = (t2 \div 2 ^ 4 + t3 * 2 ^ 6) % 256
  /\ s[n + 5] = t3 \div 2 ^ 2
LEMMA BytesOfGroup ==
  ASSUME NEW b, NEW w \in Nat, w >= 1, COMPRESSEDBYTES = 5 * w, NEW i \in Row, NEW j \in Nat, j < w,
         NEW n \in Int, n = COMPRESSEDBYTES * i + 5 * j
  PROVE  /\ GroupBytes(polyvec_compress(b), n, compress10(b[i][4 * j + 0]), compress10(b[i][4 * j + 1]),
                       compress10(b[i][4 * j + 2]), compress10(b[i][4 * j + 3]))
         /\ {n + 1, n + 2, n + 3, n + 4, n + 5} \subseteq 1 .. POLYVECCOMPRESSEDBYTES
<1>0. PICK z \in Nat : COMPRESSEDBYTES * i = 5 * z /\ z = w * i
  <2>1. i \in Nat /\ w * i \in Nat /\ (5 * w) * i = 5 * (w * i)
    BY Dimensions
  <2> QED
    BY <2>1
<1>1. POLYVECCOMPRESSEDBYTES = 5 * (w * KYBER_K) /\ w * KYBER_K \in Nat /\ z + w <= w * KYBER_K
  <2>1. PICK d \in Nat : KYBER_K = i + 1 + d
    <3>1. KYBER_K - i - 1 \in Nat /\ KYBER_K = i + 1 + (KYBER_K - i - 1)
      BY Dimensions
    <3> QED
      BY <3>1
  <2>2. i \in Nat /\ w * (i + 1 + d) = w * i + w + w * d /\ w * d \in Nat /\ w * i \in Nat
    BY <2>1, Dimensions
  <2>3. w * KYBER_K = z + w + w * d
    BY <1>0, <2>1, <2>2
  <2>4. (5 * w) * KYBER_K = 5 * (w * KYBER_K)
    BY Dimensions
  <2>5. POLYVECCOMPRESSEDBYTES = 5 * (w * KYBER_K)
    BY <2>4 DEF POLYVECCOMPRESSEDBYTES
  <2> QED
    BY <2>2, <2>3, <2>5
<1>2. n = 5 * z + 5 * j
  BY <1>0
<1>3. ASSUME NEW m \in 0 .. 4
      PROVE  /\ n + m + 1 \in 1 .. POLYVECCOMPRESSEDBYTES
             /\ ((n + m + 1) - 1) \div COMPRESSEDBYTES = i
             /\ (((n + m + 1) - 1) % COMPRESSEDBYTES) \div 5 = j
             /\ (n + m + 1) % 5 = (m + 1) % 5
  <2>1. n + m + 1 \in 1 .. POLYVECCOMPRESSEDBYTES /\ (n + m + 1) % 5 = (m + 1) % 5
    BY <1>1, <1>2
  <2>2. PICK x \in Int, r \in Int : x = (n + m + 1) - 1 /\ r = 5 * j + m
    OBVIOUS
  <2>3. x = COMPRESSEDBYTES * i + r /\ 0 <= r /\ r < COMPRESSEDBYTES
    BY <1>0, <1>2, <2>2
  <2>4. i \in Int /\ COMPRESSEDBYTES \in Nat /\ COMPRESSEDBYTES >= 1
    BY Dimensions
  <2>5. x \div COMPRESSEDBYTES = i /\ x % COMPRESSEDBYTES = r
    BY <2>3, <2>4, Divides
  <2>6. r \div 5 = j
    BY <2>2
  <2> QED
    BY <2>1, <2>2, <2>5, <2>6
<1> DEFINE t(x) == compress10(b[i][4 * j + x])
           s == polyvec_compress(b)
<1>4. ASSUME NEW m \in 0 .. 4, NEW y \in Int, y = n + m + 1
      PROVE  s[y] = CASE y % 5 = 1 -> t(0) % 256
                      [] y % 5 = 2 -> (t(0) \div 2 ^ 8 + t(1) * 2 ^ 2) % 256
                      [] y % 5 = 3 -> (t(1) \div 2 ^ 6 + t(2) * 2 ^ 4) % 256
                      [] y % 5 = 4 -> (t(2) \div 2 ^ 4 + t(3) * 2 ^ 6) % 256
                      [] y % 5 = 0 -> t(3) \div 2 ^ 2
  <2>1. y \in 1 .. POLYVECCOMPRESSEDBYTES /\ (y - 1) \div COMPRESSEDBYTES = i
        /\ ((y - 1) % COMPRESSEDBYTES) \div 5 = j
    BY <1>3, <1>4
  <2> QED
    BY <2>1, Zenon DEF polyvec_compress
<1> HIDE DEF t, s
<1>5. s[n + 1] = t(0) % 256
  <2>1. PICK y \in Int : y = n + 1
    OBVIOUS
  <2>2. y = n + 0 + 1 /\ y % 5 = 1
    BY <1>3, <2>1
  <2> QED
    BY <1>4, <2>1, <2>2
<1>6. s[n + 2] = (t(0) \div 2 ^ 8 + t(1) * 2 ^ 2) % 256
  <2>1. PICK y \in Int : y = n + 2
    OBVIOUS
  <2>2. y = n + 1 + 1 /\ y % 5 = 2
    BY <1>3, <2>1
  <2> QED
    BY <1>4, <2>1, <2>2
<1>7. s[n + 3] = (t(1) \div 2 ^ 6 + t(2) * 2 ^ 4) % 256
  <2>1. PICK y \in Int : y = n + 3
    OBVIOUS
  <2>2. y = n + 2 + 1 /\ y % 5 = 3
    BY <1>3, <2>1
  <2> QED
    BY <1>4, <2>1, <2>2
<1>8. s[n + 4] = (t(2) \div 2 ^ 4 + t(3) * 2 ^ 6) % 256
  <2>1. PICK y \in Int : y = n + 4
    OBVIOUS
  <2>2. y = n + 3 + 1 /\ y % 5 = 4
    BY <1>3, <2>1
  <2> QED
    BY <1>4, <2>1, <2>2
<1>9. s[n + 5] = t(3) \div 2 ^ 2
  <2>1. PICK y \in Int : y = n + 5
    OBVIOUS
  <2>2. y = n + 4 + 1 /\ y % 5 = 0
    BY <1>3, <2>1
  <2> QED
    BY <1>4, <2>1, <2>2
<1>10. {n + 1, n + 2, n + 3, n + 4, n + 5} \subseteq 1 .. POLYVECCOMPRESSEDBYTES
  BY <1>1, <1>2
<1> QED
  BY <1>5, <1>6, <1>7, <1>8, <1>9, <1>10, Zenon DEF t, s, GroupBytes

\* polyvec_decompress after polyvec_compress.
LEMMA VectorRoundTrip ==
  ASSUME NEW b, \A i \in Row : IsReducedPoly(b[i]), NEW u, NEW i \in Row, NEW k \in Index
  PROVE  polyvec_decompress(pack_ciphertext(b, u))[i][k] = decompress(compress10(b[i][k]), 10)
<1> DEFINE ct == pack_ciphertext(b, u)
           s == polyvec_compress(b)
<1>0. PICK w \in Nat : KYBER_N = 4 * w /\ w >= 1 /\ COMPRESSEDBYTES = 5 * w
  BY Groups
<1>1. PICK j \in Nat, x \in Nat : k \div 4 = j /\ k % 4 = x /\ k = 4 * j + x /\ x <= 3 /\ j < w
  <2>1. k \in Nat /\ k < 4 * w
    BY <1>0, Dimensions
  <2>2. k \div 4 \in Nat /\ k % 4 \in Nat /\ k = 4 * (k \div 4) + (k % 4) /\ k % 4 <= 3 /\ k \div 4 < w
    BY <2>1
  <2> QED
    BY <2>2
<1>2. PICK n \in Int : n = COMPRESSEDBYTES * i + 5 * j
  <2>1. i \in Nat /\ (5 * w) * i \in Nat
    BY Dimensions
  <2>2. COMPRESSEDBYTES * i + 5 * j \in Int
    BY <1>0, <2>1
  <2> QED
    BY <2>2
<1> DEFINE t0 == compress10(b[i][4 * j + 0])
           t1 == compress10(b[i][4 * j + 1])
           t2 == compress10(b[i][4 * j + 2])
           t3 == compress10(b[i][4 * j + 3])
           b0 == t0 % 256
           b1 == (t0 \div 2 ^ 8 + t1 * 2 ^ 2) % 256
           b2 == (t1 \div 2 ^ 6 + t2 * 2 ^ 4) % 256
           b3 == (t2 \div 2 ^ 4 + t3 * 2 ^ 6) % 256
           b4 == t3 \div 2 ^ 2
<1>3. s[n + 1] = b0 /\ s[n + 2] = b1 /\ s[n + 3] = b2 /\ s[n + 4] = b3 /\ s[n + 5] = b4
      /\ {n + 1, n + 2, n + 3, n + 4, n + 5} \subseteq 1 .. POLYVECCOMPRESSEDBYTES
  <2>1. /\ GroupBytes(polyvec_compress(b), n, compress10(b[i][4 * j + 0]), compress10(b[i][4 * j + 1]),
                      compress10(b[i][4 * j + 2]), compress10(b[i][4 * j + 3]))
        /\ {n + 1, n + 2, n + 3, n + 4, n + 5} \subseteq 1 .. POLYVECCOMPRESSEDBYTES
    BY <1>0, <1>1, <1>2, BytesOfGroup, Zenon
  <2> QED
    BY <2>1, Zenon DEF GroupBytes
<1>4. ct[n + 1] = b0 /\ ct[n + 2] = b1 /\ ct[n + 3] = b2 /\ ct[n + 4] = b3 /\ ct[n + 5] = b4
  <2>1. \A y \in 1 .. POLYVECCOMPRESSEDBYTES : ct[y] = s[y]
    BY CiphertextParts
  <2> HIDE DEF ct, s, b0, b1, b2, b3, b4
  <2> QED
    BY <1>3, <2>1, Zenon
<1>5. ASSUME NEW y \in 0 .. 3
      PROVE  /\ compress10(b[i][4 * j + y]) \in Int
             /\ compress10(b[i][4 * j + y]) >= 0 /\ compress10(b[i][4 * j + y]) <= 1023
  <2>1. 4 * j + y \in Index
    BY <1>0, <1>1, Dimensions
  <2>2. PICK a : a = b[i][4 * j + y]
    OBVIOUS
  <2>3. IsReduced(a)
    BY <2>1, <2>2 DEF IsReducedPoly
  <2>4. a \in Int /\ a >= -1664 /\ a <= 1664
    BY <2>3 DEF IsReduced
  <2> QED
    BY <2>2, <2>4, Compress10
<1>6. Back10(t0, t1, t2, t3)
  <2>1. /\ t0 \in Int /\ t0 >= 0 /\ t0 <= 1023 /\ t1 \in Int /\ t1 >= 0 /\ t1 <= 1023
        /\ t2 \in Int /\ t2 >= 0 /\ t2 <= 1023 /\ t3 \in Int /\ t3 >= 0 /\ t3 <= 1023
    BY <1>5
  <2> HIDE DEF t0, t1, t2, t3
  <2> QED
    BY <2>1, Pack10
<1>7. /\ (b0 \div 1 + b1 * 256) % 1024 = t0 /\ (b1 \div 4 + b2 * 64) % 1024 = t1
      /\ (b2 \div 16 + b3 * 16) % 1024 = t2 /\ (b3 \div 64 + b4 * 4) % 1024 = t3
  <2> HIDE DEF t0, t1, t2, t3
  <2> QED
    BY <1>6, Zenon DEF Back10
<1> DEFINE out == Unpack10(ct, n + 1, x)
<1>8. polyvec_decompress(ct)[i][k] = decompress(out, 10)
  BY <1>1, <1>2, Zenon DEF polyvec_decompress
<1>10. /\ x = 0 => compress10(b[i][k]) = t0
       /\ x = 1 => compress10(b[i][k]) = t1
       /\ x = 2 => compress10(b[i][k]) = t2
       /\ x = 3 => compress10(b[i][k]) = t3
  BY <1>1, Zenon
<1>9. out = compress10(b[i][k])
  <2> HIDE DEF ct, b0, b1, b2, b3, b4, t0, t1, t2, t3
  <2>0. out = (ct[(n + 1) + x] \div 2 ^ (2 * x) + ct[(n + 1) + x + 1] * 2 ^ (8 - 2 * x)) % 2 ^ 10
    BY Zenon DEF Unpack10
  <2>1. CASE x = 0
    <3>1. /\ (n + 1) + 0 = n + 1 /\ (n + 1) + 0 + 1 = n + 2
          /\ 2 ^ (2 * 0) = 1 /\ 2 ^ (8 - 2 * 0) = 256 /\ 2 ^ 10 = 1024
      BY SMT
    <3> HIDE DEF out
    <3>2. out = (ct[n + 1] \div 1 + ct[n + 2] * 256) % 1024
      BY <2>0, <2>1, <3>1, SMT
    <3> QED
      BY <1>4, <1>7, <1>10, <2>1, <3>2, Zenon
  <2>2. CASE x = 1
    <3>1. /\ (n + 1) + 1 = n + 2 /\ (n + 1) + 1 + 1 = n + 3
          /\ 2 ^ (2 * 1) = 4 /\ 2 ^ (8 - 2 * 1) = 64 /\ 2 ^ 10 = 1024
      BY SMT
    <3> HIDE DEF out
    <3>2. out = (ct[n + 2] \div 4 + ct[n + 3] * 64) % 1024
      BY <2>0, <2>2, <3>1, SMT
    <3> QED
      BY <1>4, <1>7, <1>10, <2>2, <3>2, Zenon
  <2>3. CASE x = 2
    <3>1. /\ (n + 1) + 2 = n + 3 /\ (n + 1) + 2 + 1 = n + 4
          /\ 2 ^ (2 * 2) = 16 /\ 2 ^ (8 - 2 * 2) = 16 /\ 2 ^ 10 = 1024
      BY SMT
    <3> HIDE DEF out
    <3>2. out = (ct[n + 3] \div 16 + ct[n + 4] * 16) % 1024
      BY <2>0, <2>3, <3>1, SMT
    <3> QED
      BY <1>4, <1>7, <1>10, <2>3, <3>2, Zenon
  <2>4. CASE x = 3
    <3>1. /\ (n + 1) + 3 = n + 4 /\ (n + 1) + 3 + 1 = n + 5
          /\ 2 ^ (2 * 3) = 64 /\ 2 ^ (8 - 2 * 3) = 4 /\ 2 ^ 10 = 1024
      BY SMT
    <3> HIDE DEF out
    <3>2. out = (ct[n + 4] \div 64 + ct[n + 5] * 4) % 1024
      BY <2>0, <2>4, <3>1, SMT
    <3> QED
      BY <1>4, <1>7, <1>10, <2>4, <3>2, Zenon
  <2>5. x = 0 \/ x = 1 \/ x = 2 \/ x = 3
    BY <1>1
  <2> QED
    BY <2>1, <2>2, <2>3, <2>4, <2>5, Zenon
<1> QED
  BY <1>8, <1>9, Zenon

\* poly_decompress after poly_compress, at its place in the ciphertext.
LEMMA PolyRoundTrip ==
  ASSUME NEW b, NEW u, IsReducedPoly(u), NEW k \in Index
  PROVE  poly_decompress(SubSeq(pack_ciphertext(b, u), POLYVECCOMPRESSEDBYTES + 1, CIPHERTEXTBYTES))[k]
           = decompress(compress4(u[k]), 4)
<1> DEFINE e == SubSeq(pack_ciphertext(b, u), POLYVECCOMPRESSEDBYTES + 1, CIPHERTEXTBYTES)
<1>0. PICK w \in Nat : KYBER_N = 4 * w /\ w >= 1 /\ KYBER_N \div 2 = 2 * w
  BY Groups
<1>1. PICK j \in Nat, x \in Nat : k \div 2 = j /\ k % 2 = x /\ k = 2 * j + x /\ x <= 1 /\ j < 2 * w
  <2>1. k \in Nat /\ k < 4 * w
    BY <1>0, Dimensions
  <2>2. k \div 2 \in Nat /\ k % 2 \in Nat /\ k = 2 * (k \div 2) + (k % 2) /\ k % 2 <= 1 /\ k \div 2 < 2 * w
    BY <2>1
  <2> QED
    BY <2>2
<1> DEFINE t == compress4(u[2 * j])
           o == compress4(u[2 * j + 1])
<1>2. t \in Int /\ t >= 0 /\ t <= 15 /\ o \in Int /\ o >= 0 /\ o <= 15
  <2>1. 2 * j \in Index /\ 2 * j + 1 \in Index
    BY <1>0, <1>1, Dimensions
  <2>2. PICK a, d : a = u[2 * j] /\ d = u[2 * j + 1]
    OBVIOUS
  <2>3. a \in Int /\ a >= -1664 /\ a <= 1664 /\ d \in Int /\ d >= -1664 /\ d <= 1664
    BY <2>1, <2>2 DEF IsReducedPoly, IsReduced
  <2> QED
    BY <2>2, <2>3, Compress4
<1>3. j + 1 \in 1 .. KYBER_N \div 2 /\ 2 * (j + 1) - 2 = 2 * j /\ 2 * (j + 1) - 1 = 2 * j + 1
  BY <1>0, <1>1
<1>4. e[j + 1] = t + 16 * o
  <2>1. e[j + 1] = poly_compress(u)[j + 1]
    <3>1. \A n \in 1 .. KYBER_N \div 2 : e[n] = poly_compress(u)[n]
      BY CiphertextParts, Zenon
    <3> QED
      BY <1>3, <3>1, Zenon
  <2> HIDE DEF e
  <2>2. poly_compress(u)[j + 1] = compress4(u[2 * (j + 1) - 2]) + 16 * compress4(u[2 * (j + 1) - 1])
    BY <1>3 DEF poly_compress
  <2> QED
    BY <1>3, <2>1, <2>2
<1> HIDE DEF e
<1>5. poly_decompress(e)[k] = decompress((e[j + 1] \div 16 ^ x) % 16, 4)
  BY <1>1 DEF poly_decompress
<1>6. (e[j + 1] \div 16 ^ x) % 16 = compress4(u[k])
  <2>1. CASE x = 0
    <3>1. 16 ^ 0 = 1 /\ k = 2 * j
      BY <1>1, <2>1
    <3>2. compress4(u[k]) = t
      BY <3>1
    <3> HIDE DEF t, o
    <3>3. ((t + 16 * o) \div 1) % 16 = t
      BY <1>2, Pack4
    <3> QED
      BY <1>4, <2>1, <3>1, <3>2, <3>3
  <2>2. CASE x = 1
    <3>1. 16 ^ 1 = 16 /\ k = 2 * j + 1
      BY <1>1, <2>2
    <3>2. compress4(u[k]) = o
      BY <3>1
    <3> HIDE DEF t, o
    <3>3. ((t + 16 * o) \div 16) % 16 = o
      BY <1>2, Pack4
    <3> QED
      BY <1>4, <2>2, <3>1, <3>2, <3>3
  <2> QED
    BY <1>1, <2>1, <2>2
<1> QED
  BY <1>5, <1>6 DEF e

-----------------------------------------------------------------------------
(*  Digests and noise  *)

Stir(a, x) == LET y == (251 * a + 97 * x + 11) % 32749 IN (y * y + y) % 32749

LEMMA StirType ==
  ASSUME NEW a \in Int, NEW x \in Int
  PROVE  Stir(a, x) \in Int
<1> DEFINE y == (251 * a + 97 * x + 11) % 32749
           z == y * y + y
<1>1. y \in Int
  OBVIOUS
<1> HIDE DEF y
<1>2. z \in Int
  BY <1>1
<1> HIDE DEF z
<1>3. z % 32749 \in Int
  BY <1>2
<1> QED
  BY <1>3 DEF Stir, y, z

\* The state after the first i numbers.
IsMix(o, s, n) ==
  /\ o \in [0 .. n -> Int] /\ o[0] = 1
  /\ \A i \in 0 .. n - 1 : o[i + 1] = Stir(o[i], s[i + 1])

LEMMA MixExists ==
  ASSUME NEW n \in Nat, NEW s, \A i \in 1 .. n : s[i] \in Int
  PROVE  \E o : IsMix(o, s, n)
<1> DEFINE T == {m \in Nat : m <= n => \E o : IsMix(o, s, m)}
<1>1. 0 \in T
  <2>1. IsMix([i \in 0 .. 0 |-> 1], s, 0)
    BY DEF IsMix
  <2> QED
    BY <2>1
<1>2. ASSUME NEW m \in T PROVE m + 1 \in T
  <2> SUFFICES ASSUME m + 1 <= n PROVE \E o : IsMix(o, s, m + 1)
    OBVIOUS
  <2>1. PICK o : IsMix(o, s, m)
    OBVIOUS
  <2>2. s[m + 1] \in Int /\ o[m] \in Int
    BY <2>1 DEF IsMix
  <2> DEFINE r == [i \in 0 .. m + 1 |-> IF i <= m THEN o[i] ELSE Stir(o[m], s[m + 1])]
  <2>3. r \in [0 .. m + 1 -> Int] /\ r[0] = 1
    <3>1. Stir(o[m], s[m + 1]) \in Int
      BY <2>2, StirType
    <3> QED
      BY <2>1, <3>1 DEF IsMix
  <2>4. ASSUME NEW i \in 0 .. (m + 1) - 1 PROVE r[i + 1] = Stir(r[i], s[i + 1])
    <3>1. CASE i < m
      BY <2>1, <3>1 DEF IsMix
    <3>2. CASE i = m
      BY <3>2
    <3> QED
      BY <3>1, <3>2
  <2> QED
    BY <2>3, <2>4 DEF IsMix
<1>3. T \subseteq Nat
  OBVIOUS
<1>4. n \in T
  <2> HIDE DEF T
  <2> QED
    BY <1>1, <1>2, <1>3, SetInduction
<1> QED
  BY <1>4

LEMMA DigestType ==
  ASSUME NEW s, Len(s) \in Nat, \A i \in 1 .. Len(s) : s[i] \in Int
  PROVE  Digest(s) \in Int
<1> DEFINE n == Len(s)
           loop(g) == [i \in 0 .. n |-> IF i = 0 THEN 1 ELSE Stir(g[i - 1], s[i])]
           f == CHOOSE g : g = loop(g)
           T == {i \in Nat : i <= n => f[i] \in Int}
<1>1. Digest(s) = f[n]
  BY DEF Digest, Stir
<1>2. PICK o : IsMix(o, s, n)
  BY MixExists
<1>3. o = loop(o)
  <2>1. \A i \in 0 .. n : o[i] = loop(o)[i]
    <3> SUFFICES ASSUME NEW i \in 0 .. n PROVE o[i] = loop(o)[i]
      OBVIOUS
    <3>1. CASE i = 0
      BY <1>2, <3>1 DEF IsMix
    <3>2. CASE i # 0
      <4>1. i - 1 \in 0 .. n - 1 /\ (i - 1) + 1 = i
        BY <3>2
      <4>2. o[(i - 1) + 1] = Stir(o[i - 1], s[(i - 1) + 1])
        BY <1>2, <4>1 DEF IsMix
      <4> QED
        BY <3>2, <4>1, <4>2
    <3> QED
      BY <3>1, <3>2
  <2> QED
    BY <1>2, <2>1 DEF IsMix
<1>4. f = loop(f)
  BY <1>3
<1> HIDE DEF f
<1>5. 0 \in T
  <2>1. f[0] = 1
    BY <1>4
  <2> QED
    BY <2>1
<1>6. ASSUME NEW i \in T PROVE i + 1 \in T
  <2> SUFFICES ASSUME i + 1 <= n PROVE f[i + 1] \in Int
    OBVIOUS
  <2>1. i + 1 \in 0 .. n /\ i + 1 # 0 /\ (i + 1) - 1 = i /\ f[i] \in Int /\ s[i + 1] \in Int
    OBVIOUS
  <2>2. f[i + 1] = Stir(f[i], s[i + 1])
    BY <1>4, <2>1
  <2> QED
    BY <2>1, <2>2, StirType
<1>7. T \subseteq Nat
  OBVIOUS
<1>8. n \in T
  <2> HIDE DEF T
  <2> QED
    BY <1>5, <1>6, <1>7, SetInduction
<1> QED
  BY <1>1, <1>8

LEMMA DigestOfFour ==
  ASSUME NEW a \in Int, NEW b \in Int, NEW e \in Int, NEW d \in Int
  PROVE  Digest(<<a, b, e, d>>) \in Int
<1> DEFINE s == <<a, b, e, d>>
<1>1. Len(s) = 4 /\ s[1] = a /\ s[2] = b /\ s[3] = e /\ s[4] = d
  OBVIOUS
<1> HIDE DEF s
<1>2. Digest(s) \in Int
  BY <1>1, DigestType
<1> QED
  BY <1>2 DEF s

\* A polynomial of noise.
IsShortPoly(a) == a \in Polynomials /\ \A k \in Index : a[k] >= -2 /\ a[k] <= 2

LEMMA NoiseIsShort ==
  ASSUME NEW seed \in Int, NEW nonce \in Int
  PROVE  IsShortPoly(poly_getnoise(seed, nonce))
<1> DEFINE buf == prf(seed, nonce)
<1>1. ASSUME NEW i \in Index PROVE cbd2(buf)[i] \in Int /\ cbd2(buf)[i] >= -2 /\ cbd2(buf)[i] <= 2
  <2>0. PICK w \in Nat : KYBER_N = 4 * w /\ KYBER_N \div 2 = 2 * w
    BY Groups
  <2>1. PICK j \in Nat, p \in Nat : j = i \div 2 /\ p = i % 2 /\ j \in 0 .. KYBER_N \div 2 - 1 /\ p <= 1
    <3>1. i \in Nat /\ i < 4 * w
      BY <2>0, Dimensions
    <3>2. i \div 2 \in Nat /\ i % 2 \in Nat /\ i \div 2 \in 0 .. 2 * w - 1 /\ i % 2 <= 1
      BY <3>1
    <3> QED
      BY <2>0, <3>2
  <2>2. buf[j] = Digest(<<seed, nonce, j, 3>>) % 256
    BY <2>1 DEF prf
  <2>3. buf[j] \in Int
    <3>1. j \in Int /\ 3 \in Int
      OBVIOUS
    <3>2. Digest(<<seed, nonce, j, 3>>) \in Int
      BY <3>1, DigestOfFour
    <3> QED
      BY <2>2, <3>2
  <2> DEFINE t == buf[j] \div 16 ^ p
             Bit(k) == (t \div 2 ^ k) % 2
  <2>4. cbd2(buf)[i] = (Bit(0) + Bit(1)) - (Bit(2) + Bit(3))
    BY <2>1 DEF cbd2
  <2> HIDE DEF buf
  <2>5. t \in Int
    <3>1. p = 0 \/ p = 1
      BY <2>1
    <3>2. 16 ^ 0 = 1 /\ 16 ^ 1 = 16
      BY SMT
    <3>3. \A x \in Int : x \div 1 \in Int /\ x \div 16 \in Int
      OBVIOUS
    <3>4. t = buf[j] \div 1 \/ t = buf[j] \div 16
      BY <3>1, <3>2
    <3> QED
      BY <2>3, <3>3, <3>4
  <2> HIDE DEF t
  <2>6. /\ Bit(0) \in Int /\ Bit(0) >= 0 /\ Bit(0) <= 1
        /\ Bit(1) \in Int /\ Bit(1) >= 0 /\ Bit(1) <= 1
        /\ Bit(2) \in Int /\ Bit(2) >= 0 /\ Bit(2) <= 1
        /\ Bit(3) \in Int /\ Bit(3) >= 0 /\ Bit(3) <= 1
    <3>1. 2 ^ 0 = 1 /\ 2 ^ 1 = 2 /\ 2 ^ 2 = 4 /\ 2 ^ 3 = 8
      BY SMT
    <3> QED
      BY <2>5, <3>1
  <2> HIDE DEF Bit
  <2> QED
    BY <2>4, <2>6
<1>2. poly_getnoise(seed, nonce) = cbd2(buf)
  BY DEF poly_getnoise
<1>3. cbd2(buf) = [i \in Index |-> cbd2(buf)[i]]
  BY DEF cbd2
<1> HIDE DEF buf
<1>4. cbd2(buf) \in Polynomials
  BY <1>1, <1>3 DEF Polynomials
<1> QED
  BY <1>1, <1>2, <1>4 DEF IsShortPoly

\* Row i of the transposed matrix is column i of the matrix.
MatrixOf(seed) == [i \in Row |-> gen_matrix(seed, i, FALSE)]
LEMMA Matrix ==
  ASSUME NEW seed \in Int
  PROVE  /\ MatrixOf(seed) \in [Row -> [Row -> Polynomials]]
         /\ \A i \in Row : gen_matrix(seed, i, FALSE) = MatrixOf(seed)[i]
         /\ \A j \in Row : gen_matrix(seed, j, TRUE) = [i \in Row |-> MatrixOf(seed)[i][j]]
<1>1. ASSUME NEW x \in Row, NEW y \in Row PROVE xof(seed, x, y) \in Polynomials
  <2>1. \A i \in Index : Digest(<<seed, x, y, i>>) % KYBER_Q \in Int
    <3> SUFFICES ASSUME NEW i \in Index PROVE Digest(<<seed, x, y, i>>) % KYBER_Q \in Int
      OBVIOUS
    <3>1. x \in Int /\ y \in Int /\ i \in Int
      BY Dimensions
    <3>2. Digest(<<seed, x, y, i>>) \in Int
      BY <3>1, DigestOfFour
    <3> QED
      BY <3>2 DEF KYBER_Q
  <2> QED
    BY <2>1 DEF xof, Polynomials
<1>2. \A i \in Row : gen_matrix(seed, i, FALSE) = [j \in Row |-> xof(seed, j, i)]
  BY DEF gen_matrix
<1>3. \A j \in Row : gen_matrix(seed, j, TRUE) = [i \in Row |-> xof(seed, j, i)]
  BY DEF gen_matrix
<1>4. MatrixOf(seed) = [i \in Row |-> [j \in Row |-> xof(seed, j, i)]]
  BY <1>2 DEF MatrixOf
<1>5. MatrixOf(seed) \in [Row -> [Row -> Polynomials]]
  BY <1>1, <1>4
<1>6. \A i \in Row : gen_matrix(seed, i, FALSE) = MatrixOf(seed)[i]
  BY DEF MatrixOf
<1>7. ASSUME NEW j \in Row PROVE gen_matrix(seed, j, TRUE) = [i \in Row |-> MatrixOf(seed)[i][j]]
  <2>1. \A i \in Row : MatrixOf(seed)[i][j] = xof(seed, j, i)
    BY <1>4
  <2>2. gen_matrix(seed, j, TRUE) = [i \in Row |-> xof(seed, j, i)]
    BY <1>3
  <2> QED
    BY <2>1, <2>2
<1> QED
  BY <1>5, <1>6, <1>7

-----------------------------------------------------------------------------
(*  Reductions  *)

LEMMA BarrettKeeps ==
  ASSUME NEW x \in Int, x >= -1664, x <= 1664
  PROVE  barrett_reduce(x) = x
<1>1. PICK y : y = barrett_reduce(x)
  OBVIOUS
<1>2. IsReduced(y) /\ \E t \in Int : x = y + t * KYBER_Q
  BY <1>1, BarrettReduces
<1>3. PICK t \in Int : x = y + t * 3329
  BY <1>2 DEF KYBER_Q
<1>4. y \in Int /\ y >= -1664 /\ y <= 1664
  BY <1>2 DEF IsReduced
<1>5. t = 0
  BY <1>3, <1>4
<1> QED
  BY <1>1, <1>3, <1>4, <1>5

LEMMA BarrettSame ==
  ASSUME NEW x \in Int, x >= -32768, x <= 32767
  PROVE  IsReduced(barrett_reduce(x)) /\ Same(barrett_reduce(x), x)
<1>1. PICK y : y = barrett_reduce(x)
  OBVIOUS
<1>2. IsReduced(y) /\ \E t \in Int : x = y + t * KYBER_Q
  BY <1>1, BarrettReduces
<1>3. PICK t \in Int : x = y + t * KYBER_Q
  BY <1>2
<1>4. y \in Int
  BY <1>2 DEF IsReduced
<1>5. y = x + KYBER_Q * (-t) /\ -t \in Int
  BY <1>3, <1>4 DEF KYBER_Q
<1> QED
  BY <1>1, <1>2, <1>5 DEF Same

\* Small noise is not changed by a reduction.
LEMMA ShortIsReduced ==
  ASSUME NEW a, IsShortPoly(a)
  PROVE  poly_reduce(a) = a /\ IsReducedPoly(a)
<1>1. \A k \in Index : a[k] \in Int /\ a[k] >= -2 /\ a[k] <= 2
  BY DEF IsShortPoly, Polynomials
<1>2. \A k \in Index : barrett_reduce(a[k]) = a[k] /\ IsReduced(a[k])
  <2> SUFFICES ASSUME NEW k \in Index PROVE barrett_reduce(a[k]) = a[k] /\ IsReduced(a[k])
    OBVIOUS
  <2>1. PICK x \in Int : x = a[k] /\ x >= -2 /\ x <= 2
    BY <1>1
  <2>2. x >= -1664 /\ x <= 1664
    BY <2>1
  <2> QED
    BY <2>1, <2>2, BarrettKeeps DEF IsReduced
<1>3. a = [k \in Index |-> a[k]]
  BY DEF IsShortPoly, Polynomials
<1> QED
  BY <1>2, <1>3 DEF poly_reduce, IsReducedPoly, IsShortPoly

\* What the products of vectors leave: the residue of the row times the vector.
LEMMA Accumulated ==
  ASSUME NEW x \in [Row -> Polynomials], NEW y \in [Row -> Polynomials], NEW k \in Index
  PROVE  /\ polyvec_basemul_acc(x, y)[k] \in Int
         /\ polyvec_basemul_acc(x, y)[k] >= 0 /\ polyvec_basemul_acc(x, y)[k] <= 3328
         /\ RowTimes(x, y, k) \in Int
         /\ Same(polyvec_basemul_acc(x, y)[k], RowTimes(x, y, k))
<1>1. polyvec_basemul_acc(x, y)[k] = RowTimes(x, y, k) % KYBER_Q
  BY DEF polyvec_basemul_acc, RowTimes, RowProducts
<1>2. PICK a \in Int : a = RowTimes(x, y, k)
  BY RowTimesType
<1>3. Same(a % KYBER_Q, a)
  BY SameIsCongruence
<1>4. a % KYBER_Q \in Int /\ a % KYBER_Q >= 0 /\ a % KYBER_Q <= 3328
  BY DEF KYBER_Q
<1> QED
  BY <1>1, <1>2, <1>3, <1>4

\* A product and a small polynomial, added and reduced.
LEMMA AddedAndReduced ==
  ASSUME NEW x \in [Row -> Polynomials], NEW y \in [Row -> Polynomials], NEW e, IsShortPoly(e)
  PROVE  LET t == poly_reduce(poly_add(polyvec_basemul_acc(x, y), e))
         IN /\ IsReducedPoly(t)
            /\ \A k \in Index : Same(t[k], RowTimes(x, y, k) + e[k])
<1> DEFINE f == polyvec_basemul_acc(x, y)
           t == poly_reduce(poly_add(f, e))
<1>1. ASSUME NEW k \in Index PROVE IsReduced(t[k]) /\ Same(t[k], RowTimes(x, y, k) + e[k])
  <2>1. PICK a \in Int, d \in Int, o \in Int :
          /\ a = f[k] /\ d = e[k] /\ o = RowTimes(x, y, k)
          /\ a >= 0 /\ a <= 3328 /\ d >= -2 /\ d <= 2 /\ Same(a, o)
    <3>1. e[k] \in Int /\ e[k] >= -2 /\ e[k] <= 2
      BY DEF IsShortPoly, Polynomials
    <3> QED
      BY <3>1, Accumulated
  <2>2. t[k] = barrett_reduce(Int16(a + d))
    BY <2>1 DEF poly_reduce, poly_add
  <2>3. PICK n \in Int : n = a + d /\ n >= -32768 /\ n <= 32767
    BY <2>1
  <2>4. t[k] = barrett_reduce(n)
    BY <2>2, <2>3, Int16Small
  <2>5. IsReduced(t[k]) /\ Same(t[k], n)
    BY <2>3, <2>4, BarrettSame
  <2>6. Same(n, o + d)
    <3>1. Same(d, d)
      BY SameIsCongruence
    <3>0. a \in Int /\ d \in Int /\ o \in Int /\ Same(a, o)
      BY <2>1
    <3>2. Same(a + d, o + d)
      BY <3>0, <3>1, SamePlus, Zenon
    <3> QED
      BY <2>3, <3>2
  <2>7. t[k] \in Int
    BY <2>5 DEF IsReduced
  <2>8. o + d \in Int
    OBVIOUS
  <2>9. Same(t[k], o + d)
    <3> HIDE DEF t
    <3> QED
      BY <2>5, <2>6, <2>7, <2>8, SameThen
  <2> QED
    BY <2>1, <2>5, <2>9
<1>2. t = [k \in Index |-> t[k]]
  BY DEF poly_reduce
<1> HIDE DEF t
<1>3. t \in Polynomials
  BY <1>1, <1>2 DEF Polynomials, IsReduced
<1>4. IsReducedPoly(t)
  BY <1>1, <1>3 DEF IsReducedPoly
<1> QED
  BY <1>1, <1>4, Zenon DEF t

-----------------------------------------------------------------------------
(*  What indcpa_keypair_derand computes  *)

IsShortVector(x) == x \in [Row -> Polynomials] /\ \A i \in Row : IsShortPoly(x[i])

\* poly_getnoise for a vector, from a first nonce on.
NoiseVector(seed, first) == [i \in Row |-> poly_getnoise(seed, first + i)]
LEMMA NoiseVectorIsShort ==
  ASSUME NEW seed \in Int, NEW first \in Int
  PROVE  IsShortVector(NoiseVector(seed, first))
<1>1. ASSUME NEW i \in Row PROVE IsShortPoly(NoiseVector(seed, first)[i])
  <2>1. PICK n \in Int : n = first + i
    BY Dimensions
  <2> QED
    BY <2>1, NoiseIsShort DEF NoiseVector
<1>2. NoiseVector(seed, first) \in [Row -> Polynomials]
  BY <1>1 DEF NoiseVector, IsShortPoly
<1> QED
  BY <1>1, <1>2 DEF IsShortVector

\* What indcpa_keypair_derand computes on the way.
PublicSeed(d) == Digest(<<d, KYBER_K, 0>>)
NoiseSeed(d) == Digest(<<d, KYBER_K, 1>>)
Secret(d) == NoiseVector(NoiseSeed(d), 0)
SecretError(d) == NoiseVector(NoiseSeed(d), KYBER_K)
PublicVector(d) ==
  [i \in Row |-> poly_reduce(poly_add(polyvec_basemul_acc(gen_matrix(PublicSeed(d), i, FALSE), Secret(d)),
                                      SecretError(d)[i]))]

LEMMA Seeds ==
  ASSUME NEW d \in Int
  PROVE  PublicSeed(d) \in Int /\ NoiseSeed(d) \in Int
<1>1. ASSUME NEW n \in Int PROVE Digest(<<d, KYBER_K, n>>) \in Int
  <2> DEFINE s == <<d, KYBER_K, n>>
  <2>1. Len(s) = 3 /\ s[1] = d /\ s[2] = KYBER_K /\ s[3] = n /\ KYBER_K \in Int
    BY Dimensions
  <2> HIDE DEF s
  <2>2. Digest(s) \in Int
    BY <2>1, DigestType
  <2> QED
    BY <2>2 DEF s
<1>2. 0 \in Int /\ 1 \in Int
  OBVIOUS
<1> QED
  BY <1>1, <1>2, Zenon DEF PublicSeed, NoiseSeed

LEMMA KeyPair ==
  ASSUME NEW d \in Int
  PROVE  /\ IsShortVector(Secret(d)) /\ IsShortVector(SecretError(d))
         /\ PublicVector(d) \in [Row -> Polynomials]
         /\ \A i \in Row : IsReducedPoly(PublicVector(d)[i])
         /\ \A i \in Row, k \in Index :
              Same(PublicVector(d)[i][k],
                   RowTimes(MatrixOf(PublicSeed(d))[i], Secret(d), k) + SecretError(d)[i][k])
<1>1. KYBER_K \in Int /\ 0 \in Int
  BY Dimensions
<1>2. IsShortVector(Secret(d)) /\ IsShortVector(SecretError(d))
  BY <1>1, Seeds, NoiseVectorIsShort DEF Secret, SecretError
<1>3. ASSUME NEW i \in Row
      PROVE  /\ IsReducedPoly(PublicVector(d)[i])
             /\ \A k \in Index : Same(PublicVector(d)[i][k],
                   RowTimes(MatrixOf(PublicSeed(d))[i], Secret(d), k) + SecretError(d)[i][k])
  <2> DEFINE x == MatrixOf(PublicSeed(d))[i]
             y == Secret(d)
             e == SecretError(d)[i]
             t == poly_reduce(poly_add(polyvec_basemul_acc(x, y), e))
  <2>1. x \in [Row -> Polynomials] /\ gen_matrix(PublicSeed(d), i, FALSE) = x
    BY Seeds, Matrix
  <2>2. y \in [Row -> Polynomials] /\ IsShortPoly(e)
    BY <1>2 DEF IsShortVector
  <2>3. PublicVector(d)[i] = t
    BY <2>1 DEF PublicVector
  <2> HIDE DEF x, y, e
  <2>4. IsReducedPoly(t) /\ \A k \in Index : Same(t[k], RowTimes(x, y, k) + e[k])
    BY <2>1, <2>2, AddedAndReduced
  <2> HIDE DEF t
  <2> QED
    BY <2>3, <2>4, Zenon DEF x, y, e
<1>4. PublicVector(d) \in [Row -> Polynomials]
  BY <1>3 DEF PublicVector, IsReducedPoly
<1> QED
  BY <1>2, <1>3, <1>4

LEMMA KeyPairBytes ==
  ASSUME NEW d \in Int
  PROVE  indcpa_keypair_derand(d) =
           [sk |-> [i \in Row |-> poly_tobytes(Secret(d)[i])],
            pk |-> [t |-> [i \in Row |-> poly_tobytes(PublicVector(d)[i])], seed |-> PublicSeed(d)]]
<1> DEFINE s == [i \in Row |-> poly_reduce(poly_getnoise(NoiseSeed(d), i))]
           e == [i \in Row |-> poly_getnoise(NoiseSeed(d), KYBER_K + i)]
           p == [i \in Row |-> poly_reduce(poly_add(polyvec_basemul_acc(
                    gen_matrix(PublicSeed(d), i, FALSE), s), e[i]))]
<1>1. indcpa_keypair_derand(d) =
        [sk |-> [i \in Row |-> poly_tobytes(s[i])],
         pk |-> [t |-> [i \in Row |-> poly_tobytes(p[i])], seed |-> PublicSeed(d)]]
  BY Zenon DEF indcpa_keypair_derand, PublicSeed, NoiseSeed
<1>2. s = Secret(d)
  <2>1. ASSUME NEW i \in Row PROVE s[i] = Secret(d)[i]
    <3>1. 0 + i = i
      BY Dimensions
    <3>2. Secret(d)[i] = poly_getnoise(NoiseSeed(d), i)
      BY <3>1 DEF Secret, NoiseVector
    <3>3. IsShortPoly(Secret(d)[i])
      BY KeyPair DEF IsShortVector
    <3> QED
      BY <3>2, <3>3, ShortIsReduced
  <2>2. Secret(d) = [i \in Row |-> Secret(d)[i]]
    BY DEF Secret, NoiseVector
  <2> HIDE DEF s
  <2>3. s = [i \in Row |-> s[i]]
    BY DEF s
  <2> QED
    BY <2>1, <2>2, <2>3
<1>3. e = SecretError(d)
  BY DEF SecretError, NoiseVector
<1>4. p = PublicVector(d)
  <2> HIDE DEF s, e
  <2> QED
    BY <1>2, <1>3 DEF PublicVector
<1> HIDE DEF s, p
<1> QED
  BY <1>1, <1>2, <1>4

-----------------------------------------------------------------------------
(*  What indcpa_enc computes  *)

\* What indcpa_enc computes on the way, from coins o and a public key: seed,
\* and t as it is read from the bytes.
Ephemeral(o) == NoiseVector(o, 0)
EphemeralError(o) == NoiseVector(o, KYBER_K)
LastError(o) == poly_getnoise(o, 2 * KYBER_K)
SentVector(seed, o) ==
  [i \in Row |-> poly_reduce(poly_add(polyvec_basemul_acc(gen_matrix(seed, i, TRUE), Ephemeral(o)),
                                      EphemeralError(o)[i]))]
SentPoly(m, t, o) ==
  poly_reduce(poly_add(poly_add(polyvec_basemul_acc(t, Ephemeral(o)), LastError(o)),
                       [i \in Index |-> frommsg(m[i])]))

LEMMA EphemeralsAreShort ==
  ASSUME NEW o \in Int
  PROVE  IsShortVector(Ephemeral(o)) /\ IsShortVector(EphemeralError(o)) /\ IsShortPoly(LastError(o))
<1>1. KYBER_K \in Int /\ 0 \in Int /\ 2 * KYBER_K \in Int
  BY Dimensions
<1> QED
  BY <1>1, NoiseIsShort, NoiseVectorIsShort DEF Ephemeral, EphemeralError, LastError

LEMMA SentVectorIs ==
  ASSUME NEW seed \in Int, NEW o \in Int
  PROVE  /\ SentVector(seed, o) \in [Row -> Polynomials]
         /\ \A j \in Row : IsReducedPoly(SentVector(seed, o)[j])
         /\ \A j \in Row, k \in Index :
              Same(SentVector(seed, o)[j][k],
                   RowTimes([i \in Row |-> MatrixOf(seed)[i][j]], Ephemeral(o), k) + EphemeralError(o)[j][k])
<1>1. ASSUME NEW j \in Row
      PROVE  /\ IsReducedPoly(SentVector(seed, o)[j])
             /\ \A k \in Index : Same(SentVector(seed, o)[j][k],
                   RowTimes([i \in Row |-> MatrixOf(seed)[i][j]], Ephemeral(o), k) + EphemeralError(o)[j][k])
  <2> DEFINE x == [i \in Row |-> MatrixOf(seed)[i][j]]
             y == Ephemeral(o)
             e == EphemeralError(o)[j]
             t == poly_reduce(poly_add(polyvec_basemul_acc(x, y), e))
  <2>1. x \in [Row -> Polynomials] /\ gen_matrix(seed, j, TRUE) = x
    <3>1. MatrixOf(seed) \in [Row -> [Row -> Polynomials]]
      BY Matrix
    <3>2. gen_matrix(seed, j, TRUE) = x
      BY Matrix, Zenon
    <3> QED
      BY <3>1, <3>2
  <2>2. y \in [Row -> Polynomials] /\ IsShortPoly(e)
    BY EphemeralsAreShort DEF IsShortVector
  <2> HIDE DEF x
  <2>3. SentVector(seed, o)[j] = t
    BY <2>1 DEF SentVector
  <2> HIDE DEF y, e
  <2>4. IsReducedPoly(t) /\ \A k \in Index : Same(t[k], RowTimes(x, y, k) + e[k])
    BY <2>1, <2>2, AddedAndReduced
  <2> HIDE DEF t
  <2> QED
    BY <2>3, <2>4, Zenon DEF x, y, e
<1>2. SentVector(seed, o) \in [Row -> Polynomials]
  BY <1>1 DEF SentVector, IsReducedPoly
<1> QED
  BY <1>1, <1>2

Bit == {0, 1}
LEMMA SentPolyIs ==
  ASSUME NEW m \in [Index -> Bit], NEW t \in [Row -> Polynomials], NEW o \in Int
  PROVE  /\ IsReducedPoly(SentPoly(m, t, o))
         /\ \A k \in Index : /\ RowTimes(t, Ephemeral(o), k) \in Int
                             /\ LastError(o)[k] \in Int
                             /\ Same(SentPoly(m, t, o)[k],
                                     RowTimes(t, Ephemeral(o), k) + LastError(o)[k] + 1665 * m[k])
<1> DEFINE f == polyvec_basemul_acc(t, Ephemeral(o))
           u == SentPoly(m, t, o)
<1>1. ASSUME NEW k \in Index
      PROVE  /\ IsReduced(u[k]) /\ RowTimes(t, Ephemeral(o), k) \in Int /\ LastError(o)[k] \in Int
             /\ Same(u[k], RowTimes(t, Ephemeral(o), k) + LastError(o)[k] + 1665 * m[k])
  <2>1. PICK a \in Int, x \in Int : /\ a = f[k] /\ x = RowTimes(t, Ephemeral(o), k)
                                    /\ a >= 0 /\ a <= 3328 /\ Same(a, x)
    <3>1. Ephemeral(o) \in [Row -> Polynomials]
      BY EphemeralsAreShort DEF IsShortVector
    <3> QED
      BY <3>1, Accumulated
  <2>2. PICK e \in Int : e = LastError(o)[k] /\ e >= -2 /\ e <= 2
    BY EphemeralsAreShort DEF IsShortPoly, Polynomials
  <2>3. PICK n \in Int : n = frommsg(m[k]) /\ n = 1665 * m[k] /\ n >= 0 /\ n <= 1665
    <3>1. m[k] = 0 \/ m[k] = 1
      BY DEF Bit
    <3>2. frommsg(1) = 1665 /\ frommsg(0) = 0
      BY DEF frommsg, KYBER_Q
    <3> QED
      BY <3>1, <3>2
  <2>4. u[k] = barrett_reduce(Int16(Int16(a + e) + n))
    <3> DEFINE z == [i \in Index |-> frommsg(m[i])]
               p == poly_add(f, LastError(o))
               q == poly_add(p, z)
    <3>1. p[k] = Int16(a + e)
      BY <2>1, <2>2 DEF poly_add
    <3>2. z[k] = n
      <4>1. z[k] = frommsg(m[k])
        OBVIOUS
      <4>2. frommsg(m[k]) = n
        BY <2>3
      <4> HIDE DEF z
      <4> QED
        BY <4>1, <4>2
    <3> HIDE DEF p, z
    <3>3. q[k] = Int16(Int16(a + e) + n)
      BY <3>1, <3>2 DEF poly_add
    <3> HIDE DEF q
    <3>4. poly_reduce(q)[k] = barrett_reduce(q[k])
      BY DEF poly_reduce
    <3>5. u = poly_reduce(q)
      BY Zenon DEF SentPoly, q, p, z
    <3> HIDE DEF u
    <3> QED
      BY <3>3, <3>4, <3>5
  <2>5. PICK b \in Int : b = a + e /\ b >= -32768 /\ b <= 32767
    BY <2>1, <2>2
  <2>6. PICK w \in Int : w = b + n /\ w >= -32768 /\ w <= 32767
    BY <2>1, <2>2, <2>3, <2>5
  <2>7. u[k] = barrett_reduce(w)
    BY <2>4, <2>5, <2>6, Int16Small
  <2>8. IsReduced(u[k]) /\ Same(u[k], w)
    BY <2>6, <2>7, BarrettSame
  <2>9. Same(w, x + e + n)
    <3>1. Same(e + n, e + n) /\ e + n \in Int
      BY SameIsCongruence
    <3>2. Same(a, x)
      BY <2>1
    <3>3. Same(a + (e + n), x + (e + n))
      BY <3>1, <3>2, SamePlus, Zenon
    <3>4. a + (e + n) = w /\ x + (e + n) = x + e + n
      BY <2>5, <2>6
    <3> QED
      BY <3>3, <3>4, Zenon
  <2>10. u[k] \in Int /\ x + e + n \in Int
    BY <2>8 DEF IsReduced
  <2> HIDE DEF u
  <2>11. Same(u[k], x + e + n)
    BY <2>8, <2>9, <2>10, SameThen, Zenon
  <2> QED
    BY <2>1, <2>2, <2>3, <2>8, <2>11
<1>2. u = [k \in Index |-> u[k]]
  BY DEF SentPoly, poly_reduce
<1> HIDE DEF u
<1>3. u \in Polynomials
  BY <1>1, <1>2 DEF Polynomials, IsReduced
<1> QED
  BY <1>1, <1>3 DEF IsReducedPoly, u

LEMMA EncryptionIs ==
  ASSUME NEW m, NEW pk, NEW o \in Int
  PROVE  indcpa_enc(m, pk, o) =
           pack_ciphertext(SentVector(pk.seed, o), SentPoly(m, [i \in Row |-> poly_frombytes(pk.t[i])], o))
<1> DEFINE r == [i \in Row |-> poly_reduce(poly_getnoise(o, i))]
           e == [i \in Row |-> poly_getnoise(o, KYBER_K + i)]
           t == [i \in Row |-> poly_frombytes(pk.t[i])]
           z == [i \in Index |-> frommsg(m[i])]
           b == [i \in Row |->
                  poly_reduce(poly_add(polyvec_basemul_acc(gen_matrix(pk.seed, i, TRUE), r), e[i]))]
           u == poly_reduce(poly_add(poly_add(polyvec_basemul_acc(t, r), poly_getnoise(o, 2 * KYBER_K)), z))
<1>1. indcpa_enc(m, pk, o) = pack_ciphertext(b, u)
  BY Zenon DEF indcpa_enc
<1>2. r = Ephemeral(o)
  <2>1. ASSUME NEW i \in Row PROVE r[i] = Ephemeral(o)[i]
    <3>1. 0 + i = i
      BY Dimensions
    <3>2. Ephemeral(o)[i] = poly_getnoise(o, i)
      BY <3>1 DEF Ephemeral, NoiseVector
    <3>3. IsShortPoly(Ephemeral(o)[i])
      BY EphemeralsAreShort DEF IsShortVector
    <3> QED
      BY <3>2, <3>3, ShortIsReduced
  <2>2. Ephemeral(o) = [i \in Row |-> Ephemeral(o)[i]]
    BY DEF Ephemeral, NoiseVector
  <2> HIDE DEF r
  <2>3. r = [i \in Row |-> r[i]]
    BY DEF r
  <2> QED
    BY <2>1, <2>2, <2>3
<1>3. e = EphemeralError(o)
  BY DEF EphemeralError, NoiseVector
<1>4. b = SentVector(pk.seed, o)
  <2> HIDE DEF r, e
  <2> QED
    BY <1>2, <1>3 DEF SentVector
<1>5. u = SentPoly(m, t, o)
  <2> HIDE DEF r, t, z
  <2>1. SentPoly(m, t, o) =
          poly_reduce(poly_add(poly_add(polyvec_basemul_acc(t, Ephemeral(o)), LastError(o)), z))
    BY Zenon DEF SentPoly, z
  <2> QED
    BY <1>2, <2>1, Zenon DEF LastError
<1> HIDE DEF b, u
<1> QED
  BY <1>1, <1>4, <1>5

-----------------------------------------------------------------------------
(*  Noise  *)

\* The residue of x that is nearest to zero.
Centred(x) == LET r == x % KYBER_Q IN IF 2 * r < KYBER_Q THEN r ELSE r - KYBER_Q

LEMMA LossIs ==
  ASSUME NEW x \in Int, NEW y \in Int, Near(y, x, 2)
  PROVE  /\ Centred(y - x) \in Int /\ Centred(y - x) >= -2 /\ Centred(y - x) <= 2
         /\ Same(y, x + Centred(y - x))
<1>1. PICK k \in Int, e \in Int : y = x + k * 3329 + e /\ e >= -2 /\ e <= 2
  BY DEF Near
<1>2. PICK z \in Int : z = y - x /\ z = k * 3329 + e
  BY <1>1
<1>3. Centred(z) = e
  <2>1. Centred(z) = IF 2 * (z % 3329) < 3329 THEN z % 3329 ELSE (z % 3329) - 3329
    BY DEF Centred, KYBER_Q
  <2>2. CASE e >= 0
    <3>1. z % 3329 = e
      BY <1>1, <1>2, <2>2
    <3> QED
      BY <1>1, <2>1, <3>1
  <2>3. CASE e < 0
    <3>1. z % 3329 = e + 3329
      BY <1>1, <1>2, <2>3
    <3> QED
      BY <1>1, <2>1, <3>1
  <2> QED
    BY <2>2, <2>3
<1>4. y = (x + e) + KYBER_Q * k
  BY <1>1 DEF KYBER_Q
<1> QED
  BY <1>1, <1>2, <1>3, <1>4 DEF Same

\* What the compression of a polynomial takes away.
Lost10(x) == Centred(decompress(compress10(x), 10) - x)

LEMMA Lost10Is ==
  ASSUME NEW x, IsReduced(x)
  PROVE  /\ x \in Int /\ decompress(compress10(x), 10) \in Int
         /\ Lost10(x) \in Int /\ Lost10(x) >= -2 /\ Lost10(x) <= 2
         /\ Same(decompress(compress10(x), 10), x + Lost10(x))
<1>1. x \in Int /\ x >= -1664 /\ x <= 1664
  BY DEF IsReduced
<1>2. PICK y : y = decompress(compress10(x), 10)
  OBVIOUS
<1>3. y \in Int /\ Near(y, x, 2)
  BY <1>1, <1>2, Compress10
<1>4. Lost10(x) = Centred(y - x)
  BY <1>2 DEF Lost10
<1> QED
  BY <1>1, <1>2, <1>3, <1>4, LossIs

\* The error of the vector and what its compression takes away.
VectorLoss(d, o) ==
  [i \in Row |-> [l \in Index |-> EphemeralError(o)[i][l] + Lost10(SentVector(PublicSeed(d), o)[i][l])]]

\* What the products of both sides differ by.
DecryptionNoise(d, o, k) ==
  (Dot(Ephemeral(o), SecretError(d), k) - Dot(Secret(d), VectorLoss(d, o), k)) + LastError(o)[k]

LEMMA VectorLossIs ==
  ASSUME NEW d \in Int, NEW o \in Int
  PROVE  /\ VectorLoss(d, o) \in [Row -> Polynomials]
         /\ \A i \in Row, l \in Index : VectorLoss(d, o)[i][l] >= -4 /\ VectorLoss(d, o)[i][l] <= 4
<1>1. ASSUME NEW i \in Row, NEW l \in Index
      PROVE  /\ VectorLoss(d, o)[i][l] \in Int
             /\ VectorLoss(d, o)[i][l] >= -4 /\ VectorLoss(d, o)[i][l] <= 4
  <2>1. PICK e \in Int : e = EphemeralError(o)[i][l] /\ e >= -2 /\ e <= 2
    BY EphemeralsAreShort DEF IsShortVector, IsShortPoly, Polynomials
  <2>2. PICK x : x = SentVector(PublicSeed(d), o)[i][l]
    OBVIOUS
  <2>3. IsReduced(x)
    BY <2>2, Seeds, SentVectorIs DEF IsReducedPoly
  <2>4. Lost10(x) \in Int /\ Lost10(x) >= -2 /\ Lost10(x) <= 2
    BY <2>3, Lost10Is
  <2>5. VectorLoss(d, o)[i][l] = e + Lost10(x)
    BY <2>1, <2>2 DEF VectorLoss
  <2> QED
    BY <2>1, <2>4, <2>5
<1> QED
  BY <1>1 DEF VectorLoss, Polynomials

\* Products of a short polynomial and one with bounded coefficients.
LEMMA ConvBound ==
  ASSUME NEW a, IsShortPoly(a), NEW b \in Polynomials, NEW n \in Nat,
         \A l \in Index : b[l] >= -n /\ b[l] <= n, NEW k \in Index
  PROVE  /\ Conv(a, b, k) \in Int /\ KYBER_N * (2 * n) \in Int
         /\ -(KYBER_N * (2 * n)) <= Conv(a, b, k) /\ Conv(a, b, k) <= KYBER_N * (2 * n)
<1>1. ASSUME NEW i \in 0 .. KYBER_N - 1
      PROVE  /\ Terms(a, b, k)[i] \in Int
             /\ -(2 * n) <= Terms(a, b, k)[i] /\ Terms(a, b, k)[i] <= 2 * n
  <2>1. PICK x \in Int : x = a[i] /\ x >= -2 /\ x <= 2
    BY Dimensions DEF IsShortPoly, Polynomials
  <2>2. PICK w \in Int : w = Wrapped(b, k - i) /\ w >= -n /\ w <= n
    <3>1. PICK j \in Int : j = k - i /\ j < KYBER_N /\ j >= -KYBER_N
      BY Dimensions
    <3>2. CASE j >= 0
      <4>1. j \in Index
        BY <3>1, <3>2, Dimensions
      <4>2. b[j] \in Int /\ b[j] >= -n /\ b[j] <= n
        BY <4>1 DEF Polynomials
      <4> QED
        BY <3>1, <3>2, <4>2 DEF Wrapped
    <3>3. CASE j < 0
      <4>1. KYBER_N + j \in Index
        BY <3>1, <3>3, Dimensions
      <4>2. PICK e \in Int : e = b[KYBER_N + j] /\ e >= -n /\ e <= n
        BY <4>1 DEF Polynomials
      <4>3. Wrapped(b, j) = -e
        BY <3>1, <3>3, <4>2 DEF Wrapped
      <4>4. -e \in Int /\ -e >= -n /\ -e <= n
        BY <4>2
      <4> QED
        BY <3>1, <4>3, <4>4
    <3> QED
      BY <3>1, <3>2, <3>3
  <2>3. Terms(a, b, k)[i] = x * w
    BY <2>1, <2>2 DEF Terms
  <2>4. x = -2 \/ x = -1 \/ x = 0 \/ x = 1 \/ x = 2
    BY <2>1
  <2>5. x * w \in Int /\ -(2 * n) <= x * w /\ x * w <= 2 * n
    BY <2>2, <2>4
  <2> QED
    BY <2>3, <2>5
<1>2. PICK m \in Nat : m = 2 * n
  OBVIOUS
<1>3. \A i \in 0 .. KYBER_N - 1 : Terms(a, b, k)[i] \in Int /\ -m <= Terms(a, b, k)[i] /\ Terms(a, b, k)[i] <= m
  BY <1>1, <1>2
<1>4. PICK f : f = Terms(a, b, k)
  OBVIOUS
<1>5. KYBER_N \in Nat /\ \A i \in 0 .. KYBER_N - 1 : f[i] \in Int /\ -m <= f[i] /\ f[i] <= m
  BY <1>3, <1>4, Dimensions
<1>6. /\ Sum(f, KYBER_N) \in Int /\ KYBER_N * m \in Int
      /\ -(KYBER_N * m) <= Sum(f, KYBER_N) /\ Sum(f, KYBER_N) <= KYBER_N * m
  BY <1>5, SumBound
<1>7. Conv(a, b, k) = Sum(f, KYBER_N)
  BY <1>4 DEF Conv
<1> QED
  BY <1>2, <1>6, <1>7, Zenon

LEMMA DotBound ==
  ASSUME NEW x, IsShortVector(x), NEW y \in [Row -> Polynomials], NEW n \in Nat,
         \A i \in Row, l \in Index : y[i][l] >= -n /\ y[i][l] <= n, NEW k \in Index,
         NEW w \in Nat, w = KYBER_N * (2 * n)
  PROVE  /\ Dot(x, y, k) \in Int /\ KYBER_K * w \in Int
         /\ -(KYBER_K * w) <= Dot(x, y, k) /\ Dot(x, y, k) <= KYBER_K * w
<1> DEFINE f == [i \in Row |-> Conv(x[i], y[i], k)]
<1>1. ASSUME NEW i \in 0 .. KYBER_K - 1 PROVE f[i] \in Int /\ -w <= f[i] /\ f[i] <= w
  <2>1. i \in Row /\ IsShortPoly(x[i]) /\ y[i] \in Polynomials /\ \A l \in Index : y[i][l] >= -n /\ y[i][l] <= n
    BY Dimensions DEF IsShortVector
  <2>2. PICK p : p = Conv(x[i], y[i], k)
    OBVIOUS
  <2>3. p \in Int /\ -w <= p /\ p <= w
    BY <2>1, <2>2, ConvBound
  <2> QED
    BY <2>1, <2>2, <2>3
<1>2. Dot(x, y, k) = Sum(f, KYBER_K)
  BY DEF Dot
<1>3. KYBER_K \in Nat
  BY Dimensions
<1> HIDE DEF f
<1> QED
  BY <1>1, <1>2, <1>3, SumBound

\* No noise is larger than this: every product has a factor within 2 of zero.
LEMMA NoiseBound ==
  ASSUME NEW d \in Int, NEW o \in Int, NEW k \in Index
  PROVE  /\ DecryptionNoise(d, o, k) \in Int /\ 12 * (KYBER_N * KYBER_K) + 2 \in Int
         /\ -(12 * (KYBER_N * KYBER_K) + 2) <= DecryptionNoise(d, o, k)
         /\ DecryptionNoise(d, o, k) <= 12 * (KYBER_N * KYBER_K) + 2
<1>1. IsShortVector(Secret(d)) /\ IsShortVector(SecretError(d))
  BY KeyPair
<1>2. IsShortVector(Ephemeral(o)) /\ IsShortPoly(LastError(o))
  BY EphemeralsAreShort
<1>3. PICK m \in Nat : m = KYBER_N * KYBER_K
  BY Dimensions
<1>4. PICK w \in Nat, z \in Nat : /\ w = KYBER_N * (2 * 2) /\ z = KYBER_N * (2 * 4)
                                  /\ KYBER_K * w = 4 * m /\ KYBER_K * z = 8 * m
  <2>1. KYBER_N \in Nat /\ KYBER_K \in Nat
    BY Dimensions
  <2>2. KYBER_N * (2 * 2) \in Nat /\ KYBER_N * (2 * 4) \in Nat
    BY <2>1
  <2>3. /\ KYBER_K * (KYBER_N * (2 * 2)) = 4 * (KYBER_N * KYBER_K)
        /\ KYBER_K * (KYBER_N * (2 * 4)) = 8 * (KYBER_N * KYBER_K)
    BY <2>1
  <2> QED
    BY <1>3, <2>2, <2>3
<1>5. PICK x \in Int : x = Dot(Ephemeral(o), SecretError(d), k) /\ x >= -(4 * m) /\ x <= 4 * m
  <2>1. SecretError(d) \in [Row -> Polynomials]
        /\ \A i \in Row, l \in Index : SecretError(d)[i][l] >= -2 /\ SecretError(d)[i][l] <= 2
    BY <1>1 DEF IsShortVector, IsShortPoly
  <2>2. 2 \in Nat
    OBVIOUS
  <2>3. PICK x : x = Dot(Ephemeral(o), SecretError(d), k)
    OBVIOUS
  <2>4. x \in Int /\ -(KYBER_K * w) <= x /\ x <= KYBER_K * w
    BY <1>2, <1>4, <2>1, <2>2, <2>3, DotBound
  <2> QED
    BY <1>4, <2>3, <2>4
<1>6. PICK y \in Int : y = Dot(Secret(d), VectorLoss(d, o), k) /\ y >= -(8 * m) /\ y <= 8 * m
  <2>1. 4 \in Nat
    OBVIOUS
  <2>2. PICK y : y = Dot(Secret(d), VectorLoss(d, o), k)
    OBVIOUS
  <2>3. PICK g : g = VectorLoss(d, o)
    OBVIOUS
  <2>4. g \in [Row -> Polynomials] /\ \A i \in Row, l \in Index : g[i][l] >= -4 /\ g[i][l] <= 4
    BY <2>3, VectorLossIs
  <2>5. y \in Int /\ -(KYBER_K * z) <= y /\ y <= KYBER_K * z
    BY <1>1, <1>4, <2>1, <2>2, <2>3, <2>4, DotBound
  <2> QED
    BY <1>4, <2>2, <2>5
<1>7. PICK e \in Int : e = LastError(o)[k] /\ e >= -2 /\ e <= 2
  BY <1>2 DEF IsShortPoly, Polynomials
<1>8. DecryptionNoise(d, o, k) = (x - y) + e
  BY <1>5, <1>6, <1>7 DEF DecryptionNoise
<1> QED
  BY <1>3, <1>5, <1>6, <1>7, <1>8

-----------------------------------------------------------------------------
(*  What indcpa_dec computes  *)

\* A coefficient with a message bit and at most 831 of noise gives the bit.
LEMMA BitIsRead ==
  ASSUME NEW y, IsReduced(y), NEW bt \in Bit, NEW n \in Int, n >= -831, n <= 831, Same(y, 1665 * bt + n)
  PROVE  tomsg(y) = bt
<1>1. y \in Int /\ y >= -1664 /\ y <= 1664
  BY DEF IsReduced
<1>2. PICK j \in Int : y = (1665 * bt + n) + 3329 * j
  BY DEF Same, KYBER_Q
<1>3. CASE bt = 0
  <2>1. y = n
    BY <1>1, <1>2, <1>3
  <2> QED
    BY <1>1, <1>3, <2>1, ReadBit
<1>4. CASE bt = 1
  <2>1. y >= 834 \/ y <= -833
    BY <1>1, <1>2, <1>4
  <2> QED
    BY <1>1, <1>4, <2>1, ReadBit
<1> QED
  BY <1>3, <1>4 DEF Bit

\* What a reader of the last part gets: the polynomial up to 104.
LEMMA LastPart ==
  ASSUME NEW b, NEW u, IsReducedPoly(u), NEW k \in Index
  PROVE  LET y == poly_decompress(SubSeq(pack_ciphertext(b, u), POLYVECCOMPRESSEDBYTES + 1, CIPHERTEXTBYTES))[k]
         IN /\ y \in Int /\ y >= 0 /\ y <= 3329
            /\ \E e \in Int : e >= -104 /\ e <= 104 /\ Same(y, u[k] + e)
<1>1. PICK x : x = u[k]
  OBVIOUS
<1>2. x \in Int /\ x >= -1664 /\ x <= 1664
  BY <1>1 DEF IsReducedPoly, IsReduced
<1>3. PICK t : t = compress4(x)
  OBVIOUS
<1>4. t \in Int /\ t >= 0 /\ t <= 15 /\ Near(decompress(t, 4), x, 104)
  BY <1>2, <1>3, Compress4
<1>5. PICK y : y = decompress(t, 4)
  OBVIOUS
<1>6. y \in Int /\ y >= 0 /\ y <= 3329
  <2>1. 2 ^ 4 = 16 /\ 2 ^ (4 - 1) = 8
    BY SMT
  <2>2. y = (t * 3329 + 8) \div 16
    BY <1>5, <2>1 DEF decompress, KYBER_Q
  <2> QED
    BY <1>4, <2>2
<1>7. PICK j \in Int, e \in Int : y = x + j * 3329 + e /\ e >= -104 /\ e <= 104
  BY <1>4, <1>5 DEF Near
<1>8. Same(y, x + e)
  <2>1. y = (x + e) + KYBER_Q * j
    BY <1>2, <1>7 DEF KYBER_Q
  <2> QED
    BY <2>1 DEF Same
<1>9. poly_decompress(SubSeq(pack_ciphertext(b, u), POLYVECCOMPRESSEDBYTES + 1, CIPHERTEXTBYTES))[k] = y
  BY <1>1, <1>3, <1>5, PolyRoundTrip, Zenon
<1> QED
  BY <1>1, <1>6, <1>7, <1>8, <1>9

\* What a reader of the vector gets.
LEMMA VectorPart ==
  ASSUME NEW d \in Int, NEW o \in Int, NEW u, NEW x,
         x = polyvec_decompress(pack_ciphertext(SentVector(PublicSeed(d), o), u))
  PROVE  /\ x \in [Row -> Polynomials]
         /\ \A j \in Row, l \in Index :
              Same(x[j][l], RowTimes([i \in Row |-> MatrixOf(PublicSeed(d))[i][j]], Ephemeral(o), l)
                              + VectorLoss(d, o)[j][l])
<1> DEFINE b == SentVector(PublicSeed(d), o)
<1>1. \A i \in Row : IsReducedPoly(b[i])
  BY Seeds, SentVectorIs
<1>2. \A j \in Row, l \in Index : x[j][l] = decompress(compress10(b[j][l]), 10)
  <2> HIDE DEF b
  <2>1. \A j \in Row, l \in Index :
          polyvec_decompress(pack_ciphertext(b, u))[j][l] = decompress(compress10(b[j][l]), 10)
    BY <1>1, VectorRoundTrip, Zenon
  <2> QED
    BY <2>1, Zenon DEF b
<1>3. ASSUME NEW j \in Row, NEW l \in Index
      PROVE  /\ x[j][l] \in Int
             /\ Same(x[j][l], RowTimes([i \in Row |-> MatrixOf(PublicSeed(d))[i][j]], Ephemeral(o), l)
                                + VectorLoss(d, o)[j][l])
  <2> DEFINE column == [i \in Row |-> MatrixOf(PublicSeed(d))[i][j]]
  <2>1. PICK y : y = b[j][l]
    OBVIOUS
  <2>2. IsReduced(y)
    BY <1>1, <2>1 DEF IsReducedPoly
  <2>3. PICK w \in Int, n \in Int : w = x[j][l] /\ n = Lost10(y) /\ Same(w, y + n) /\ y \in Int
    BY <1>2, <2>1, <2>2, Lost10Is
  <2>4. PICK e \in Int : e = EphemeralError(o)[j][l]
    BY EphemeralsAreShort DEF IsShortVector, Polynomials
  <2>5. PICK h \in Int : h = RowTimes(column, Ephemeral(o), l)
    <3>1. column \in [Row -> Polynomials]
      <4>1. MatrixOf(PublicSeed(d)) \in [Row -> [Row -> Polynomials]]
        BY Seeds, Matrix
      <4> QED
        BY <4>1
    <3>2. Ephemeral(o) \in [Row -> Polynomials]
      BY EphemeralsAreShort DEF IsShortVector
    <3> HIDE DEF column
    <3> QED
      BY <3>1, <3>2, RowTimesType
  <2>6. Same(y, h + e)
    BY <2>1, <2>4, <2>5, Seeds, SentVectorIs
  <2>7. VectorLoss(d, o)[j][l] = e + n
    BY <2>1, <2>3, <2>4 DEF VectorLoss
  <2>8. Same(w, h + (e + n))
    <3>1. y \in Int /\ h + e \in Int /\ y + n \in Int /\ (h + e) + n \in Int
      BY <2>3
    <3>2. Same(n, n)
      BY SameIsCongruence
    <3>3. Same(y + n, (h + e) + n)
      BY <2>6, <3>1, <3>2, SamePlus, Zenon
    <3>4. Same(w, (h + e) + n)
      BY <2>3, <3>1, <3>3, SameThen, Zenon
    <3>5. (h + e) + n = h + (e + n)
      OBVIOUS
    <3> QED
      BY <3>4, <3>5, Zenon
  <2> QED
    BY <2>3, <2>5, <2>7, <2>8, Zenon
<1>4. x = [j \in Row |-> [l \in Index |-> x[j][l]]]
  BY DEF polyvec_decompress
<1>5. x \in [Row -> Polynomials]
  <2> DEFINE f == [j \in Row |-> [l \in Index |-> x[j][l]]]
  <2>1. f \in [Row -> Polynomials]
    BY <1>3 DEF Polynomials
  <2> HIDE DEF f
  <2>2. x = f
    BY <1>4, Zenon DEF f
  <2> QED
    BY <2>1, <2>2
<1> QED
  BY <1>3, <1>5

\* The polynomials as they are read from the bytes of a key.
LEMMA VectorOfBytes ==
  ASSUME NEW x \in [Row -> Polynomials], \A i \in Row : IsReducedPoly(x[i]), NEW y,
         y = [i \in Row |-> poly_frombytes([j \in Row |-> poly_tobytes(x[j])][i])]
  PROVE  /\ y \in [Row -> Polynomials]
         /\ \A i \in Row, l \in Index : Same(y[i][l], x[i][l])
<1>1. \A i \in Row : y[i] = poly_frombytes(poly_tobytes(x[i]))
  OBVIOUS
<1>2. \A i \in Row : y[i] \in Polynomials
  BY <1>1, BytesRoundTrip, Dimensions
<1>3. ASSUME NEW i \in Row, NEW l \in Index PROVE Same(y[i][l], x[i][l])
  <2>1. y[i][l] = Unsigned(x[i][l])
    BY <1>1, BytesRoundTrip
  <2>2. IsReduced(x[i][l])
    BY DEF IsReducedPoly
  <2> QED
    BY <2>1, <2>2, UnsignedSame
<1> QED
  BY <1>2, <1>3

\* indcpa_dec gives back the message of indcpa_enc, under every key and with all
\* coins, where the noise leaves room for it: what compression takes away of the
\* last part is at most 104 and the half of q that a bit is read by is 832.
THEOREM MlKemDecryptionWorks ==
  ASSUME NEW d \in Int, NEW o \in Int, NEW m \in [Index -> Bit],
         \A k \in Index : DecryptionNoise(d, o, k) >= -727 /\ DecryptionNoise(d, o, k) <= 727
  PROVE  LET kp == indcpa_keypair_derand(d) IN indcpa_dec(indcpa_enc(m, kp.pk, o), kp.sk) = m
<1> DEFINE kp == indcpa_keypair_derand(d)
           t == [i \in Row |-> poly_frombytes(kp.pk.t[i])]
           x == [i \in Row |-> poly_frombytes(kp.sk[i])]
           b == SentVector(PublicSeed(d), o)
           u == SentPoly(m, t, o)
           ct == pack_ciphertext(b, u)
           w == polyvec_decompress(ct)
           z == poly_decompress(SubSeq(ct, POLYVECCOMPRESSEDBYTES + 1, CIPHERTEXTBYTES))
           f == polyvec_basemul_acc(x, w)
           mp == poly_reduce(poly_sub(z, f))
           A == MatrixOf(PublicSeed(d))
           s == Secret(d)
           e == SecretError(d)
           r == Ephemeral(o)
           g == VectorLoss(d, o)
<1>1. kp.pk.seed = PublicSeed(d) /\ kp.pk.t = [i \in Row |-> poly_tobytes(PublicVector(d)[i])]
      /\ kp.sk = [i \in Row |-> poly_tobytes(s[i])]
  BY KeyPairBytes
<1> HIDE DEF kp
<1>2. indcpa_enc(m, kp.pk, o) = ct
  <2>1. PICK pk : pk = kp.pk
    OBVIOUS
  <2>2. indcpa_enc(m, pk, o) =
          pack_ciphertext(SentVector(pk.seed, o), SentPoly(m, [i \in Row |-> poly_frombytes(pk.t[i])], o))
    BY EncryptionIs, Zenon
  <2>3. pk.seed = PublicSeed(d) /\ [i \in Row |-> poly_frombytes(pk.t[i])] = t
    BY <1>1, <2>1
  <2> HIDE DEF t
  <2> QED
    BY <2>1, <2>2, <2>3
<1>3. indcpa_dec(ct, kp.sk) = [i \in Index |-> tomsg(mp[i])]
  BY Zenon DEF indcpa_dec
<1>4. /\ A \in [Row -> [Row -> Polynomials]] /\ s \in [Row -> Polynomials] /\ e \in [Row -> Polynomials]
      /\ r \in [Row -> Polynomials] /\ g \in [Row -> Polynomials]
  BY Seeds, Matrix, KeyPair, EphemeralsAreShort, VectorLossIs DEF IsShortVector
<1>5. /\ t \in [Row -> Polynomials]
      /\ \A i \in Row, l \in Index : Same(t[i][l], RowTimes(A[i], s, l) + e[i][l])
  <2> DEFINE p == PublicVector(d)
  <2>1. t = [i \in Row |-> poly_frombytes([j \in Row |-> poly_tobytes(p[j])][i])]
    BY <1>1
  <2>2. /\ p \in [Row -> Polynomials] /\ \A i \in Row : IsReducedPoly(p[i])
        /\ \A i \in Row, l \in Index : Same(p[i][l], RowTimes(A[i], s, l) + e[i][l])
    BY KeyPair
  <2> HIDE DEF p, t, A, s, e
  <2>3. t \in [Row -> Polynomials] /\ \A i \in Row, l \in Index : Same(t[i][l], p[i][l])
    BY <2>1, <2>2, VectorOfBytes
  <2>4. ASSUME NEW i \in Row, NEW l \in Index PROVE Same(t[i][l], RowTimes(A[i], s, l) + e[i][l])
    <3>1. PICK h \in Int : h = RowTimes(A[i], s, l)
      BY <1>4, RowTimesType
    <3>2. t[i][l] \in Int /\ p[i][l] \in Int /\ e[i][l] \in Int
      BY <1>4, <2>2, <2>3 DEF Polynomials
    <3>3. h + e[i][l] \in Int
      BY <3>1, <3>2
    <3>4. Same(t[i][l], p[i][l]) /\ Same(p[i][l], h + e[i][l])
      BY <2>2, <2>3, <3>1
    <3>5. Same(t[i][l], h + e[i][l])
      BY <3>2, <3>3, <3>4, SameThen, Zenon
    <3> QED
      BY <3>1, <3>5
  <2> QED
    BY <2>3, <2>4
<1>6. x \in [Row -> Polynomials] /\ \A i \in Row, l \in Index : Same(x[i][l], s[i][l])
  <2>1. x = [i \in Row |-> poly_frombytes([j \in Row |-> poly_tobytes(s[j])][i])]
    BY <1>1
  <2>2. \A i \in Row : IsReducedPoly(s[i])
    BY KeyPair, ShortIsReduced DEF IsShortVector
  <2> HIDE DEF x, s
  <2> QED
    BY <1>4, <2>1, <2>2, VectorOfBytes
<1>7. /\ w \in [Row -> Polynomials]
      /\ \A j \in Row, l \in Index : Same(w[j][l], RowTimes([i \in Row |-> A[i][j]], r, l) + g[j][l])
  <2> HIDE DEF u
  <2> QED
    BY VectorPart
<1>8. IsReducedPoly(u)
  <2> HIDE DEF t
  <2> QED
    BY <1>5, SentPolyIs
<1>9. ASSUME NEW k \in Index PROVE tomsg(mp[k]) = m[k]
  <2>1. PICK a \in Int, c1 \in Int, q1 \in Int, q2 \in Int :
          /\ a = RowTimes(t, r, k) /\ c1 = RowTimes(x, w, k) /\ q1 = Dot(r, e, k) /\ q2 = Dot(s, g, k)
          /\ Same(a - c1, q1 - q2)
    <3> HIDE DEF A, s, e, r, g, t, x, w
    <3>1. /\ RowTimes(t, r, k) \in Int /\ RowTimes(x, w, k) \in Int
          /\ Dot(r, e, k) \in Int /\ Dot(s, g, k) \in Int
          /\ Same(RowTimes(t, r, k) - RowTimes(x, w, k), Dot(r, e, k) - Dot(s, g, k))
      BY <1>4, <1>5, <1>6, <1>7, ProductsDiffer, Zenon
    <3> QED
      BY <3>1
  <2>2. PICK h \in Int : /\ h = LastError(o)[k]
                         /\ Same(u[k], a + h + 1665 * m[k])
    <3> HIDE DEF t
    <3>1. /\ RowTimes(t, Ephemeral(o), k) \in Int /\ LastError(o)[k] \in Int
          /\ Same(u[k], RowTimes(t, Ephemeral(o), k) + LastError(o)[k] + 1665 * m[k])
      BY <1>5, SentPolyIs
    <3> HIDE DEF u
    <3> QED
      BY <2>1, <3>1
  <2>3. PICK n \in Int : n = (q1 - q2) + h /\ n >= -727 /\ n <= 727
    <3>1. DecryptionNoise(d, o, k) = (q1 - q2) + h
      BY <2>1, <2>2 DEF DecryptionNoise
    <3> QED
      BY <3>1
  <2>4. PICK y \in Int, l \in Int : /\ y = z[k] /\ y >= 0 /\ y <= 3329
                                    /\ l >= -104 /\ l <= 104 /\ Same(y, u[k] + l)
    <3> HIDE DEF b, u
    <3> QED
      BY <1>8, LastPart
  <2>5. PICK f1 \in Int : f1 = f[k] /\ f1 >= 0 /\ f1 <= 3328 /\ Same(f1, c1)
    <3> HIDE DEF x, w
    <3> QED
      BY <1>6, <1>7, <2>1, Accumulated
  <2>6. IsReduced(mp[k]) /\ Same(mp[k], y - f1)
    <3> HIDE DEF z, f
    <3>1. mp[k] = barrett_reduce(Int16(y - f1))
      BY <2>4, <2>5 DEF poly_reduce, poly_sub
    <3>2. PICK p \in Int : p = y - f1 /\ p >= -32768 /\ p <= 32767
      BY <2>4, <2>5
    <3>3. mp[k] = barrett_reduce(p)
      BY <3>1, <3>2, Int16Small
    <3> QED
      BY <3>2, <3>3, BarrettSame
  <2>7. PICK u1 \in Int, bt \in Bit : u1 = u[k] /\ bt = m[k]
    BY <1>8 DEF IsReducedPoly, Polynomials
  <2> HIDE DEF mp, u, z, f
  <2>8. mp[k] \in Int
    BY <2>6 DEF IsReduced
  <2>9. Same(mp[k], 1665 * bt + (n + l))
    <3>0. PICK i0 \in Int, bn \in Int : i0 = a + h + 1665 * bt /\ bn = 1665 * bt
      <4>1. bt \in Int
        BY DEF Bit
      <4> QED
        BY <4>1
    <3>1. Same(u1, i0) /\ Same(y, u1 + l)
      BY <2>2, <2>4, <2>7, <3>0
    <3>2. Same(y, i0 + l)
      <4>1. Same(l, l) /\ u1 + l \in Int /\ i0 + l \in Int
        BY SameIsCongruence
      <4>2. Same(u1 + l, i0 + l)
        BY <3>1, <4>1, SamePlus, Zenon
      <4> QED
        BY <3>1, <4>1, <4>2, SameThen, Zenon
    <3>3. Same(y - f1, (i0 + l) - c1)
      <4>1. PICK i6 \in Int : i6 = i0 + l
        OBVIOUS
      <4>2. Same(y, i6) /\ Same(f1, c1)
        BY <2>5, <3>2, <4>1
      <4>3. Same(y - f1, i6 - c1)
        BY <4>2, SameMinus, Zenon
      <4> QED
        BY <4>1, <4>3
    <3>4. PICK i1 \in Int, i2 \in Int, i3 \in Int, i4 \in Int, i5 \in Int :
            /\ i1 = a - c1 /\ i2 = q1 - q2 /\ i3 = (h + bn) + l /\ i4 = y - f1 /\ i5 = bn + (n + l)
      OBVIOUS
    <3>5. Same(i1 + i3, i2 + i3)
      <4>1. Same(i1, i2) /\ Same(i3, i3)
        BY <2>1, <3>4, SameIsCongruence
      <4> QED
        BY <4>1, SamePlus, Zenon
    <3>6. i1 + i3 = (i0 + l) - c1 /\ i2 + i3 = i5
      BY <2>3, <3>0, <3>4
    <3>7. i1 + i3 \in Int /\ i2 + i3 \in Int
      OBVIOUS
    <3>8. Same(i4, i1 + i3)
      BY <3>3, <3>4, <3>6, Zenon
    <3>9. Same(i4, i5)
      BY <3>5, <3>6, <3>7, <3>8, SameThen, Zenon
    <3>10. Same(mp[k], i4)
      BY <2>6, <3>4, Zenon
    <3>11. Same(mp[k], i5)
      BY <2>8, <3>9, <3>10, SameThen, Zenon
    <3>12. i5 = 1665 * bt + (n + l)
      BY <3>0, <3>4
    <3> QED
      BY <3>11, <3>12
  <2>10. n + l \in Int /\ n + l >= -831 /\ n + l <= 831
    BY <2>3, <2>4
  <2>11. tomsg(mp[k]) = bt
    BY <2>6, <2>9, <2>10, BitIsRead
  <2> QED
    BY <2>7, <2>11, Zenon
<1>10. [i \in Index |-> tomsg(mp[i])] = m
  <2> HIDE DEF mp
  <2>1. m = [i \in Index |-> m[i]]
    OBVIOUS
  <2> QED
    BY <1>9, <2>1
<1> QED
  BY <1>2, <1>3, <1>10, Zenon DEF kp

-----------------------------------------------------------------------------
(*  MlKem: keys, ciphertexts and secrets  *)

\* A string of bytes as long as a ciphertext.
IsCiphertext(ct) == ct = [i \in 1 .. CIPHERTEXTBYTES |-> ct[i]]

\* What was sent belongs to one message and one public key.
IsSent(e, coin, m) ==
  LET pk == crypto_kem_keypair_derand(coin).pk IN
  e = [to |-> pk, ct |-> crypto_kem_enc_derand(pk, m).ct, ss |-> crypto_kem_enc_derand(pk, m).ss]
SentInv == \A e \in sent : \E coin \in KeyCoins, m \in Messages : IsSent(e, coin, m)

\* What was received was opened with one secret key, and is as long as a
\* ciphertext.
IsReceived(r, coin) ==
  LET sk == crypto_kem_keypair_derand(coin).sk IN
  /\ IsCiphertext(r.ct)
  /\ r = [by |-> sk, ct |-> r.ct, ss |-> crypto_kem_dec(r.ct, sk)]
ReceivedInv == \A r \in received : \E coin \in KeyCoins : IsReceived(r, coin)

MlKemInv == keys \in Seq({crypto_kem_keypair_derand(coin) : coin \in KeyCoins}) /\ SentInv /\ ReceivedInv

-----------------------------------------------------------------------------
(*  Keys, ciphertexts and secrets  *)

LEMMA KeyFields ==
  ASSUME NEW coin
  PROVE  LET kp == crypto_kem_keypair_derand(coin) IN
         /\ kp.sk.pk = kp.pk /\ kp.sk.h = hash_h(kp.pk)
         /\ kp.pk = [t |-> kp.pk.t, seed |-> kp.pk.seed]
<1> DEFINE kp == indcpa_keypair_derand(coin.d)
<1>1. kp.pk = [t |-> kp.pk.t, seed |-> kp.pk.seed]
  BY DEF indcpa_keypair_derand
<1> HIDE DEF kp
<1> QED
  BY <1>1 DEF crypto_kem_keypair_derand, kp

\* The digest of a public key tells which it is.
LEMMA HashIsOfKey ==
  ASSUME NEW p, p = [t |-> p.t, seed |-> p.seed],
         NEW q, q = [t |-> q.t, seed |-> q.seed],
         hash_h(p) = hash_h(q)
  PROVE  p = q
<1>1. <<p.t, p.seed>> = <<q.t, q.seed>>
  BY DEF hash_h
<1>2. p.t = q.t /\ p.seed = q.seed
  BY <1>1
<1> QED
  BY <1>2

\* indcpa_enc fills its array.
LEMMA EncryptionIsCiphertext ==
  ASSUME NEW m, NEW pk, NEW coins
  PROVE  IsCiphertext(indcpa_enc(m, pk, coins))
<1>1. ASSUME NEW b, NEW u
      PROVE  IsCiphertext(pack_ciphertext(b, u))
  BY CiphertextParts, Zenon DEF IsCiphertext
<1> QED
  BY <1>1 DEF indcpa_enc

\* verify looks at every byte.
LEMMA VerifyIsEquality ==
  ASSUME NEW a, NEW b, IsCiphertext(a), IsCiphertext(b)
  PROVE  verify(a, b) = 0 <=> a = b
<1>1. CASE \A i \in 1 .. CIPHERTEXTBYTES : a[i] = b[i]
  <2>1. a = b
    BY <1>1 DEF IsCiphertext
  <2> QED
    BY <1>1, <2>1 DEF verify
<1>2. CASE ~ \A i \in 1 .. CIPHERTEXTBYTES : a[i] = b[i]
  BY <1>2 DEF verify
<1> QED
  BY <1>1, <1>2

\* A ciphertext is accepted if and only if it is the encryption of the message
\* that it decrypts to, under the key it is opened with.
Opened(ct, sk) == indcpa_dec(ct, sk.s)
Encrypted(m, pk) == indcpa_enc(m, pk, hash_g_coins(m, pk))
LEMMA DecapsulatedSecret ==
  ASSUME NEW ct, IsCiphertext(ct), NEW coin
  PROVE  LET sk == crypto_kem_keypair_derand(coin).sk
             m == Opened(ct, sk)
         IN crypto_kem_dec(ct, sk) =
              IF ct = Encrypted(m, sk.pk) THEN hash_g_key(m, hash_h(sk.pk)) ELSE rkprf(sk.z, ct)
<1> DEFINE sk == crypto_kem_keypair_derand(coin).sk
           m == Opened(ct, sk)
<1>1. sk.h = hash_h(sk.pk)
  BY KeyFields
<1>2. verify(ct, Encrypted(m, sk.pk)) = 0 <=> ct = Encrypted(m, sk.pk)
  BY EncryptionIsCiphertext, VerifyIsEquality DEF Encrypted
<1>3. crypto_kem_dec(ct, sk) =
        IF verify(ct, Encrypted(m, sk.pk)) = 0 THEN hash_g_key(m, sk.h) ELSE rkprf(sk.z, ct)
  BY DEF crypto_kem_dec, Encrypted, Opened
<1> QED
  BY <1>1, <1>2, <1>3

\* Secrets tell what they were derived from.
LEMMA SecretsTell ==
  ASSUME NEW m, NEW h, NEW n, NEW g, NEW z, NEW x, NEW ct, NEW du
  PROVE  /\ hash_g_key(m, h) = hash_g_key(n, g) => m = n /\ h = g
         /\ rkprf(z, ct) = rkprf(x, du) => z = x /\ ct = du
         /\ hash_g_key(m, h) # rkprf(z, ct)
<1>1. hash_g_key(m, h).kind = "key" /\ rkprf(z, ct).kind = "reject"
  BY DEF hash_g_key, rkprf
<1>2. hash_g_key(m, h).m = m /\ hash_g_key(m, h).h = h /\ hash_g_key(n, g).m = n /\ hash_g_key(n, g).h = g
  BY DEF hash_g_key
<1>3. rkprf(z, ct).z = z /\ rkprf(z, ct).ct = ct /\ rkprf(x, du).z = x /\ rkprf(x, du).ct = du
  BY DEF rkprf
<1> QED
  BY <1>1, <1>2, <1>3

-----------------------------------------------------------------------------
(*  The invariant  *)

LEMMA KeysAreDerived ==
  ASSUME MlKemInv, NEW k \in 1 .. Len(keys)
  PROVE  \E coin \in KeyCoins : keys[k] = crypto_kem_keypair_derand(coin)
<1> DEFINE S == {crypto_kem_keypair_derand(coin) : coin \in KeyCoins}
<1>1. keys \in Seq(S)
  BY DEF MlKemInv
<1> HIDE DEF S
<1>2. keys[k] \in S
  BY <1>1
<1> QED
  BY <1>2 DEF S

LEMMA MlKemInit == Init => MlKemInv
BY DEF Init, MlKemInv, SentInv, ReceivedInv

LEMMA MlKemNext == MlKemInv /\ [Next]_vars => MlKemInv'
<1> SUFFICES ASSUME MlKemInv, [Next]_vars PROVE MlKemInv'
  OBVIOUS
<1> DEFINE S == {crypto_kem_keypair_derand(coin) : coin \in KeyCoins}
<1>1. CASE crypto_kem_keypair
  <2>1. keys' \in Seq(S)
    <3>1. PICK coin \in KeyCoins : keys' = Append(keys, crypto_kem_keypair_derand(coin))
      BY <1>1 DEF crypto_kem_keypair
    <3>2. keys \in Seq(S) /\ crypto_kem_keypair_derand(coin) \in S
      BY DEF MlKemInv
    <3> HIDE DEF S
    <3> QED
      BY <3>1, <3>2
  <2>2. SentInv' /\ ReceivedInv'
    BY <1>1 DEF crypto_kem_keypair, MlKemInv, SentInv, ReceivedInv
  <2> QED
    BY <2>1, <2>2 DEF MlKemInv
<1>2. ASSUME NEW k \in 1 .. Len(keys), crypto_kem_enc(k)
      PROVE  MlKemInv'
  <2>1. PICK coin \in KeyCoins : keys[k] = crypto_kem_keypair_derand(coin)
    BY KeysAreDerived
  <2> DEFINE pk == crypto_kem_keypair_derand(coin).pk
             term(m) == crypto_kem_enc_derand(pk, m)
  <2>2. PICK m \in Messages :
          sent' = sent \cup {[to |-> pk, ct |-> term(m).ct, ss |-> term(m).ss]}
    BY <1>2, <2>1 DEF crypto_kem_enc
  <2>3. IsSent([to |-> pk, ct |-> term(m).ct, ss |-> term(m).ss], coin, m)
    BY DEF IsSent
  <2> HIDE DEF pk, term
  <2>4. SentInv'
    <3>1. \A e \in sent : \E d \in KeyCoins, n \in Messages : IsSent(e, d, n)
      BY DEF MlKemInv, SentInv
    <3> QED
      BY <2>2, <2>3, <3>1 DEF SentInv
  <2> QED
    BY <1>2, <2>4 DEF crypto_kem_enc, MlKemInv, ReceivedInv
<1>3. ASSUME NEW k \in 1 .. Len(keys), Deliver(k)
      PROVE  MlKemInv'
  <2>1. PICK coin \in KeyCoins : keys[k] = crypto_kem_keypair_derand(coin)
    BY KeysAreDerived
  <2> DEFINE sk == crypto_kem_keypair_derand(coin).sk
             opened(ct) == [by |-> sk, ct |-> ct, ss |-> crypto_kem_dec(ct, sk)]
  <2>2. PICK e \in sent : \E ct \in Arrivals(e.ct) : received' = received \cup {opened(ct)}
    BY <1>3, <2>1 DEF Deliver
  <2>3. PICK ct \in Arrivals(e.ct) : received' = received \cup {opened(ct)}
    BY <2>2
  <2>4. IsCiphertext(e.ct)
    <3>1. PICK d \in KeyCoins, m \in Messages : IsSent(e, d, m)
      BY DEF MlKemInv, SentInv
    <3>2. e.ct = crypto_kem_enc_derand(crypto_kem_keypair_derand(d).pk, m).ct
      BY <3>1 DEF IsSent
    <3> QED
      BY <3>2, EncryptionIsCiphertext DEF crypto_kem_enc_derand
  <2>5. IsCiphertext(ct)
    <3>1. ct = e.ct \/ \E i \in 1 .. Len(e.ct), x \in Changes : ct = [e.ct EXCEPT ![i] = (@ + x) % 256]
      BY <2>3 DEF Arrivals
    <3> QED
      BY <2>4, <3>1 DEF IsCiphertext
  <2>6. IsReceived(opened(ct), coin)
    BY <2>5 DEF IsReceived
  <2> HIDE DEF opened
  <2>7. ReceivedInv'
    <3>1. \A r \in received : \E d \in KeyCoins : IsReceived(r, d)
      BY DEF MlKemInv, ReceivedInv
    <3> QED
      BY <2>3, <2>6, <3>1 DEF ReceivedInv
  <2> QED
    BY <1>3, <2>7 DEF Deliver, MlKemInv, SentInv
<1>4. CASE UNCHANGED vars
  BY <1>4 DEF vars, MlKemInv, SentInv, ReceivedInv
<1> QED
  BY <1>1, <1>2, <1>3, <1>4 DEF Next

\* Keys, what is sent and what is received are derived from coins and messages, in
\* every state that the calls of kem.c reach.
THEOREM MlKemInvariant == Spec => []MlKemInv
<1>1. Spec => []MlKemInv
  BY MlKemInit, MlKemNext, PTL DEF Spec
<1> QED
  BY <1>1

-----------------------------------------------------------------------------
(*  The properties  *)

\* What is known of a ciphertext that was sent.
LEMMA SentFields ==
  ASSUME NEW e, NEW coin, NEW m, IsSent(e, coin, m)
  PROVE  LET pk == crypto_kem_keypair_derand(coin).pk IN
         e.to = pk /\ e.ct = Encrypted(m, pk) /\ e.ss = hash_g_key(m, hash_h(pk))
BY DEF IsSent, crypto_kem_enc_derand, Encrypted

\* And of one that was received.
LEMMA ReceivedFields ==
  ASSUME NEW r, NEW coin, IsReceived(r, coin)
  PROVE  LET kp == crypto_kem_keypair_derand(coin)
             m == Opened(r.ct, kp.sk)
         IN /\ IsCiphertext(r.ct) /\ r.by = kp.sk /\ r.by.pk = kp.pk
            /\ r.ss = IF r.ct = Encrypted(m, kp.pk) THEN hash_g_key(m, hash_h(kp.pk))
                      ELSE rkprf(kp.sk.z, r.ct)
<1> DEFINE kp == crypto_kem_keypair_derand(coin)
<1>1. IsCiphertext(r.ct) /\ r.by = kp.sk /\ r.ss = crypto_kem_dec(r.ct, kp.sk)
  BY DEF IsReceived
<1>2. kp.sk.pk = kp.pk
  BY KeyFields
<1> QED
  BY <1>1, <1>2, DecapsulatedSecret

\* crypto_kem_dec: a ciphertext that was changed in any way, or that was made for
\* another key, does not give the secret of the exchange.
THEOREM MlKemChangedIsRejected == Spec => []ChangedIsRejected
<1>1. MlKemInv => ChangedIsRejected
  <2> SUFFICES ASSUME MlKemInv, NEW e \in sent, NEW r \in received, e.ss = r.ss
               PROVE  e.ct = r.ct /\ e.to = r.by.pk
    BY DEF ChangedIsRejected
  <2>1. PICK d \in KeyCoins, n \in Messages : IsSent(e, d, n)
    BY DEF MlKemInv, SentInv
  <2>2. PICK coin \in KeyCoins : IsReceived(r, coin)
    BY DEF MlKemInv, ReceivedInv
  <2> DEFINE p == crypto_kem_keypair_derand(d).pk
             kp == crypto_kem_keypair_derand(coin)
             m == Opened(r.ct, kp.sk)
  <2>3. e.to = p /\ e.ct = Encrypted(n, p) /\ e.ss = hash_g_key(n, hash_h(p))
    BY <2>1, SentFields
  <2>4. /\ r.by.pk = kp.pk
        /\ r.ss = IF r.ct = Encrypted(m, kp.pk) THEN hash_g_key(m, hash_h(kp.pk))
                  ELSE rkprf(kp.sk.z, r.ct)
    BY <2>2, ReceivedFields
  <2>5. /\ p = [t |-> p.t, seed |-> p.seed]
        /\ kp.pk = [t |-> kp.pk.t, seed |-> kp.pk.seed]
    BY KeyFields
  <2> HIDE DEF p, kp, m
  <2>6. r.ct = Encrypted(m, kp.pk) /\ n = m /\ hash_h(p) = hash_h(kp.pk)
    <3>1. hash_g_key(n, hash_h(p)) # rkprf(kp.sk.z, r.ct)
      BY SecretsTell
    <3>2. r.ct = Encrypted(m, kp.pk)
      BY <2>3, <2>4, <3>1
    <3>3. hash_g_key(n, hash_h(p)) = hash_g_key(m, hash_h(kp.pk))
      BY <2>3, <2>4, <3>2
    <3> QED
      BY <3>2, <3>3, SecretsTell
  <2>7. p = kp.pk
    BY <2>5, <2>6, HashIsOfKey
  <2> QED
    BY <2>3, <2>4, <2>6, <2>7
<1> QED
  BY <1>1, MlKemInvariant, PTL

\* crypto_kem_dec: under one secret key two ciphertexts never give one secret,
\* whether they are accepted or rejected, and one always gives the same.
THEOREM MlKemOneSecretPerCiphertext == Spec => []OneSecretPerCiphertext
<1>1. MlKemInv => OneSecretPerCiphertext
  <2> SUFFICES ASSUME MlKemInv, NEW r \in received, NEW s \in received, r.by = s.by
               PROVE  r.ss = s.ss <=> r.ct = s.ct
    BY DEF OneSecretPerCiphertext
  <2>1. PICK coin \in KeyCoins : IsReceived(r, coin)
    BY DEF MlKemInv, ReceivedInv
  <2>2. PICK d \in KeyCoins : IsReceived(s, d)
    BY DEF MlKemInv, ReceivedInv
  <2> DEFINE kp == crypto_kem_keypair_derand(coin)
             kq == crypto_kem_keypair_derand(d)
             m == Opened(r.ct, kp.sk)
             n == Opened(s.ct, kq.sk)
  <2>3. /\ r.by = kp.sk /\ r.by.pk = kp.pk
        /\ r.ss = IF r.ct = Encrypted(m, kp.pk) THEN hash_g_key(m, hash_h(kp.pk))
                  ELSE rkprf(kp.sk.z, r.ct)
    BY <2>1, ReceivedFields
  <2>4. /\ s.by = kq.sk /\ s.by.pk = kq.pk
        /\ s.ss = IF s.ct = Encrypted(n, kq.pk) THEN hash_g_key(n, hash_h(kq.pk))
                  ELSE rkprf(kq.sk.z, s.ct)
    BY <2>2, ReceivedFields
  <2>5. kp.sk = kq.sk /\ kp.pk = kq.pk
    BY <2>3, <2>4
  <2>6. r.ct = s.ct => m = n
    BY <2>5
  <2> HIDE DEF kp, kq, m, n
  <2>7. r.ct = s.ct => r.ss = s.ss
    BY <2>3, <2>4, <2>5, <2>6
  <2>8. r.ss = s.ss => r.ct = s.ct
    BY <2>3, <2>4, <2>5, SecretsTell
  <2> QED
    BY <2>7, <2>8
<1> QED
  BY <1>1, MlKemInvariant, PTL

-----------------------------------------------------------------------------
(*  The secrets of both sides  *)

\* hash_g gives numbers.
LEMMA CoinsAreNumbers ==
  ASSUME NEW d \in Int, NEW m \in [Index -> Bit], NEW pk, pk = indcpa_keypair_derand(d).pk
  PROVE  hash_g_coins(m, pk) \in Int
<1>1. pk.seed = PublicSeed(d) /\ pk.t = [i \in Row |-> poly_tobytes(PublicVector(d)[i])]
  BY KeyPairBytes
<1>2. ASSUME NEW i \in Row PROVE Digest(pk.t[i]) \in Int
  <2>1. PICK a : a = PublicVector(d)[i] /\ IsReducedPoly(a)
    BY KeyPair
  <2>2. PICK w \in Nat : KYBER_N = 4 * w /\ POLYBYTES = 6 * w
    BY Groups
  <2> DEFINE s == poly_tobytes(a)
  <2>3. ASSUME NEW n \in 1 .. POLYBYTES PROVE s[n] \in Int
    <3>1. PICK j \in Nat : j = (n - 1) \div 3 /\ j < 2 * w
      <4>1. (n - 1) \div 3 \in Nat /\ (n - 1) \div 3 < 2 * w
        BY <2>2
      <4> QED
        BY <4>1
    <3>2. 2 * j \in Index /\ 2 * j + 1 \in Index
      BY <2>2, <3>1, Dimensions
    <3>3. PICK t \in Int, u \in Int : t = Unsigned(a[2 * j]) /\ u = Unsigned(a[2 * j + 1])
      BY <2>1, <3>2, UnsignedSame DEF IsReducedPoly
    <3>4. s[n] = CASE n % 3 = 1 -> t % 256
                   [] n % 3 = 2 -> (t \div 2 ^ 8 + u * 2 ^ 4) % 256
                   [] n % 3 = 0 -> (u \div 2 ^ 4) % 256
      BY <3>1, <3>3 DEF poly_tobytes
    <3> HIDE DEF s
    <3>5. n % 3 = 1 \/ n % 3 = 2 \/ n % 3 = 0
      BY <2>2
    <3>6. /\ t % 256 \in Int /\ (t \div 2 ^ 8 + u * 2 ^ 4) % 256 \in Int /\ (u \div 2 ^ 4) % 256 \in Int
      <4>1. 2 ^ 8 = 256 /\ 2 ^ 4 = 16
        BY SMT
      <4> QED
        BY <4>1
    <3> QED
      BY <3>4, <3>5, <3>6
  <2>4. s = [n \in 1 .. POLYBYTES |-> s[n]] /\ POLYBYTES \in Nat
    BY <2>2 DEF poly_tobytes
  <2> HIDE DEF s
  <2>5. s \in Seq(Int) /\ Len(s) = POLYBYTES
    <3>1. s \in [1 .. POLYBYTES -> Int]
      BY <2>3, <2>4
    <3>2. s \in Seq(Int)
      BY <2>4, <3>1, SeqDef
    <3> QED
      BY <2>4, <3>1, <3>2, LenProperties
  <2>6. Digest(s) \in Int
    BY <2>3, <2>4, <2>5, DigestType
  <2> QED
    BY <1>1, <2>1, <2>6 DEF s
<1> DEFINE x == [i \in 1 .. KYBER_N |-> m[i - 1]]
           y == [i \in 1 .. KYBER_K |-> Digest(pk.t[i - 1])]
           z == <<pk.seed>>
<1>3. x \in Seq(Int) /\ y \in Seq(Int) /\ z \in Seq(Int)
  <2>1. \A i \in 1 .. KYBER_N : i - 1 \in Index
    BY Dimensions
  <2>2. \A i \in 1 .. KYBER_K : i - 1 \in Row
    BY Dimensions
  <2>3. \A i \in 1 .. KYBER_N : m[i - 1] \in Int
    BY <2>1 DEF Bit
  <2>4. x \in [1 .. KYBER_N -> Int] /\ y \in [1 .. KYBER_K -> Int]
    BY <1>2, <2>2, <2>3
  <2>5. pk.seed \in Int
    BY <1>1, Seeds
  <2>6. KYBER_N \in Nat /\ KYBER_K \in Nat
    BY Dimensions
  <2> HIDE DEF x, y
  <2> QED
    BY <2>4, <2>5, <2>6, SeqDef
<1>4. hash_g_coins(m, pk) = Digest(x \o (y \o z))
  BY Zenon DEF hash_g_coins, BytesOf
<1> HIDE DEF x, y, z
<1>5. PICK s \in Seq(Int) : s = x \o (y \o z)
  <2>1. PICK w \in Seq(Int) : w = y \o z
    BY <1>3, ConcatProperties
  <2> QED
    BY <1>3, <2>1, ConcatProperties
<1>6. Len(s) \in Nat /\ \A i \in 1 .. Len(s) : s[i] \in Int
  BY <1>5
<1>7. Digest(s) \in Int
  BY <1>6, DigestType
<1> QED
  BY <1>4, <1>5, <1>7

\* The noise of a message under the key of a coin leaves room for it.
NoiseIsSmall(coin, m) ==
  LET o == hash_g_coins(m, crypto_kem_keypair_derand(coin).pk) IN
  \A k \in Index : DecryptionNoise(coin.d, o, k) >= -727 /\ DecryptionNoise(coin.d, o, k) <= 727

LEMMA OpensWhatWasSent ==
  ASSUME NEW coin \in KeyCoins, NEW m \in Messages, NoiseIsSmall(coin, m)
  PROVE  LET kp == crypto_kem_keypair_derand(coin) IN Opened(Encrypted(m, kp.pk), kp.sk) = m
<1> DEFINE kp == crypto_kem_keypair_derand(coin)
           kq == indcpa_keypair_derand(coin.d)
           o == hash_g_coins(m, kp.pk)
<1>1. kp.pk = kq.pk /\ kp.sk.s = kq.sk
  BY DEF crypto_kem_keypair_derand
<1>2. coin.d \in Int /\ m \in [Index -> Bit]
  BY MlKemAssumption DEF Bit
<1>3. \A k \in Index : DecryptionNoise(coin.d, o, k) >= -727 /\ DecryptionNoise(coin.d, o, k) <= 727
  BY DEF NoiseIsSmall
<1> HIDE DEF kp
<1>4. o \in Int
  <2>1. PICK d \in Int : d = coin.d
    BY <1>2
  <2>2. PICK pk : pk = kp.pk
    OBVIOUS
  <2> QED
    BY <1>1, <1>2, <2>1, <2>2, CoinsAreNumbers
<1> HIDE DEF o
<1>5. indcpa_dec(indcpa_enc(m, kq.pk, o), kq.sk) = m
  BY <1>2, <1>3, <1>4, MlKemDecryptionWorks
<1> HIDE DEF kq
<1>6. Encrypted(m, kp.pk) = indcpa_enc(m, kq.pk, o)
  BY <1>1 DEF Encrypted, o
<1>7. Opened(Encrypted(m, kp.pk), kp.sk) = indcpa_dec(indcpa_enc(m, kq.pk, o), kq.sk)
  BY <1>1, <1>6 DEF Opened
<1> QED
  BY <1>5, <1>7 DEF kp

\* Both sides of an exchange hold the same secret, wherever the noise is small
\* for the messages sent to the keys made.
THEOREM MlKemSecretsAgree ==
  ASSUME \A coin \in KeyCoins, m \in Messages : NoiseIsSmall(coin, m)
  PROVE  Spec => []SecretsAgree
<1>1. MlKemInv => SecretsAgree
  <2> SUFFICES ASSUME MlKemInv, NEW e \in sent, NEW r \in received, e.ct = r.ct, e.to = r.by.pk
               PROVE  e.ss = r.ss
    BY DEF SecretsAgree
  <2>1. PICK d \in KeyCoins, n \in Messages : IsSent(e, d, n)
    BY DEF MlKemInv, SentInv
  <2>2. PICK coin \in KeyCoins : IsReceived(r, coin)
    BY DEF MlKemInv, ReceivedInv
  <2> DEFINE p == crypto_kem_keypair_derand(d).pk
             kp == crypto_kem_keypair_derand(coin)
             m == Opened(r.ct, kp.sk)
  <2>3. e.to = p /\ e.ct = Encrypted(n, p) /\ e.ss = hash_g_key(n, hash_h(p))
    BY <2>1, SentFields
  <2>4. /\ r.by.pk = kp.pk
        /\ r.ss = IF r.ct = Encrypted(m, kp.pk) THEN hash_g_key(m, hash_h(kp.pk))
                  ELSE rkprf(kp.sk.z, r.ct)
    BY <2>2, ReceivedFields
  <2>5. Opened(Encrypted(n, kp.pk), kp.sk) = n
    BY OpensWhatWasSent
  <2>6. p = kp.pk /\ r.ct = Encrypted(n, kp.pk)
    BY <2>3, <2>4
  <2>7. m = n
    BY <2>5, <2>6
  <2> HIDE DEF p, kp, m
  <2> QED
    BY <2>3, <2>4, <2>6, <2>7
<1> QED
  BY <1>1, MlKemInvariant, PTL
=============================================================================
