--------------------------- MODULE SignatureProofs --------------------------
(***************************************************************************)
(* Proofs about the signature as bytes: the hint part of it is written and *)
(* read inside its bytes and has one encoding (HintCodec), and the         *)
(* functions for messages accept what was signed and nothing else, return  *)
(* it and leave nothing of what they refuse (SignedMessage).               *)
(***************************************************************************)
EXTENDS MCSignature, FiniteSetTheorems, TLAPS

-----------------------------------------------------------------------------
(* The hint part.  The invariant says for each loop what it has done so far. *)

\* The ones before coefficient c of polynomial r, in the order of pack_sig.
Before(x, r, c) == {o \in Hints!Ones(x) : o[1] < r \/ (o[1] = r /\ o[2] < c)}

\* The ones of a polynomial before its coefficient c.
OnesBefore(x, r, c) == {d \in 0 .. c - 1 : d \in x[r]}

\* The loops of pack_sig: k ones are written, row by row, zeros are behind.
HintPacking ==
  pc = "pack" =>
    /\ ~Hints!TooMany(h) /\ k = Cardinality(Before(h, i, j))
    /\ i = HintK => j = 0
    /\ \A r \in 0 .. i - 1 :
         /\ Hints!End(sig, r) <= k
         /\ Hints!Lists(sig, Hints!Begin(sig, r), Hints!End(sig, r), h[r])
    /\ Hints!Lists(sig, Hints!Begin(sig, i), k, OnesBefore(h, i, j))
    /\ \A p \in k .. OMEGA - 1 : sig[p] = 0

\* What pack_sig has written stays.
HintEncoded ==
  packed =>
    /\ pc \notin {"start", "pack"}
    /\ Hints!IsEncodingOf(h) /\ \A r \in Hints!Row : Hints!End(sig, r) <= OMEGA

\* The loops of unpack_sig: what was read so far is listed in the bytes.
HintUnpacking ==
  /\ pc \in {"row", "index", "extra"} =>
       /\ k = Hints!Begin(sig, i) /\ unpacked = 0
       /\ \A r \in 0 .. i - 1 : Hints!Lists(sig, Hints!Begin(sig, r), Hints!End(sig, r), hint[r])
  /\ pc = "index" =>
       /\ i < HintK /\ k <= j /\ j <= Hints!End(sig, i) /\ Hints!End(sig, i) <= OMEGA
       /\ Hints!Lists(sig, k, j, hint[i])
  /\ pc = "extra" =>
       /\ i = HintK /\ k <= j /\ \A p \in k .. j - 1 : sig[p] = 0

HintInv ==
  /\ Hints!PackedIsRead /\ Hints!AcceptedIsCanonical
  /\ HintPacking /\ HintEncoded /\ HintUnpacking
  /\ pc # "done" => unpacked = 0

\* What is known of the parameters.
LEMMA HintParameters ==
  /\ HintN \in Nat
  /\ HintK \in Nat
  /\ OMEGA \in Nat
  /\ HintK > 0
  /\ OMEGA > 0
  /\ OMEGA < HintN
BY SignatureAssumption DEF Hints!HintCodecParameters

\* The module of HintCodec counts with the same operator.
LEMMA SameCardinality ==
  ASSUME NEW set
  PROVE  Hints!Cardinality(set) = Cardinality(set)
BY DEF Hints!Cardinality, Cardinality

\* A hint has finitely many ones.
LEMMA OnesFinite ==
  ASSUME NEW x \in Hints!Hint
  PROVE  /\ IsFiniteSet(Hints!Ones(x)) /\ Cardinality(Hints!Ones(x)) \in Nat
         /\ \A r \in Hints!Row : IsFiniteSet(x[r])
<1>1. IsFiniteSet(Hints!Row) /\ IsFiniteSet(Hints!Index)
  BY HintParameters, FS_Interval DEF Hints!Row, Hints!Index
<1>2. IsFiniteSet(Hints!Row \X Hints!Index)
  BY <1>1, FS_Product
<1>3. Hints!Ones(x) \subseteq Hints!Row \X Hints!Index
  BY DEF Hints!Ones
<1>4. \A r \in Hints!Row : x[r] \subseteq Hints!Index
  BY DEF Hints!Hint
<1> QED
  BY <1>1, <1>2, <1>3, <1>4, FS_Subset, FS_CardinalityType

\* None is before the first coefficient.
LEMMA BeforeFirst ==
  ASSUME NEW x \in Hints!Hint
  PROVE  Cardinality(Before(x, 0, 0)) = 0
<1>1. Before(x, 0, 0) = {}
  BY DEF Before, Hints!Ones, Hints!Row, Hints!Index
<1> QED
  BY <1>1, FS_EmptySet

\* Behind a one there is one more before, and there was room for it.
LEMMA BeforeOne ==
  ASSUME NEW x \in Hints!Hint, NEW r \in Hints!Row, NEW c \in Hints!Index, c \in x[r]
  PROVE  /\ Cardinality(Before(x, r, c + 1)) = Cardinality(Before(x, r, c)) + 1
         /\ Cardinality(Before(x, r, c)) + 1 <= Cardinality(Hints!Ones(x))
<1> DEFINE o == <<r, c>>
<1>1. o \in Hints!Ones(x) /\ o \notin Before(x, r, c)
  BY DEF Hints!Ones, Before, Hints!Row, Hints!Index
<1>2. Before(x, r, c + 1) = Before(x, r, c) \cup {o}
  <2>1. ASSUME NEW q \in Before(x, r, c + 1) PROVE q \in Before(x, r, c) \cup {o}
    <3>1. q \in Hints!Ones(x) /\ q = <<q[1], q[2]>> /\ q[1] \in Int /\ q[2] \in Int
      BY <2>1 DEF Before, Hints!Ones, Hints!Row, Hints!Index
    <3>2. q[1] < r \/ (q[1] = r /\ q[2] < c) \/ (q[1] = r /\ q[2] = c)
      BY <2>1, <3>1 DEF Before, Hints!Row, Hints!Index
    <3> QED
      BY <3>1, <3>2 DEF Before
  <2>2. ASSUME NEW q \in Before(x, r, c) \cup {o} PROVE q \in Before(x, r, c + 1)
    BY <1>1, <2>2 DEF Before, Hints!Ones, Hints!Row, Hints!Index
  <2> QED
    BY <2>1, <2>2
<1>3. Before(x, r, c) \subseteq Hints!Ones(x) /\ IsFiniteSet(Before(x, r, c))
  BY OnesFinite, FS_Subset DEF Before
<1>4. Before(x, r, c) \cup {o} \subseteq Hints!Ones(x)
  BY <1>1, <1>3
<1>5. Cardinality(Before(x, r, c) \cup {o}) = Cardinality(Before(x, r, c)) + 1
  BY <1>1, <1>3, FS_AddElement
<1>6. Cardinality(Before(x, r, c) \cup {o}) <= Cardinality(Hints!Ones(x))
  BY <1>4, OnesFinite, FS_Subset
<1> QED
  BY <1>2, <1>5, <1>6

\* Behind a zero there are as many.
LEMMA BeforeZero ==
  ASSUME NEW x \in Hints!Hint, NEW r \in Hints!Row, NEW c \in Hints!Index, c \notin x[r]
  PROVE  Before(x, r, c + 1) = Before(x, r, c)
<1>1. ASSUME NEW q \in Hints!Ones(x)
      PROVE  q[1] \in Int /\ q[2] \in Int /\ q[2] \in x[q[1]]
  BY DEF Hints!Ones, Hints!Row, Hints!Index
<1>2. ASSUME NEW q \in Hints!Ones(x)
      PROVE  (q[1] < r \/ (q[1] = r /\ q[2] < c + 1)) <=> (q[1] < r \/ (q[1] = r /\ q[2] < c))
  BY <1>1 DEF Hints!Row, Hints!Index
<1> QED
  BY <1>2 DEF Before

\* The end of a polynomial is the begin of the next.
LEMMA BeforeRow ==
  ASSUME NEW x \in Hints!Hint, NEW r \in Hints!Row
  PROVE  Before(x, r + 1, 0) = Before(x, r, HintN)
<1>1. ASSUME NEW q \in Hints!Ones(x)
      PROVE  (q[1] < r + 1 \/ (q[1] = r + 1 /\ q[2] < 0))
               <=> (q[1] < r \/ (q[1] = r /\ q[2] < HintN))
  <2>1. q[1] \in 0 .. HintK - 1 /\ q[2] \in 0 .. HintN - 1
    BY DEF Hints!Ones, Hints!Row, Hints!Index
  <2> QED
    BY <2>1, HintParameters DEF Hints!Row
<1> QED
  BY <1>1 DEF Before

\* A longer list: a byte behind it that is larger than all in it.
LEMMA ListsLonger ==
  ASSUME NEW s, NEW b \in Nat, NEW e \in Nat, NEW set,
         IsFiniteSet(set), set \subseteq Nat, b <= e, Hints!Lists(s, b, e, set),
         s[e] \in Nat, \A c \in set : c < s[e]
  PROVE  Hints!Lists(s, b, e + 1, set \cup {s[e]})
<1>1. s[e] \notin set
  OBVIOUS
<1>2. Cardinality(set \cup {s[e]}) = Cardinality(set) + 1 /\ Cardinality(set) \in Nat
  BY <1>1, FS_AddElement, FS_CardinalityType
<1>3. b .. e = (b .. e - 1) \cup {e}
  OBVIOUS
<1>4. {s[p] : p \in b .. e} = set \cup {s[e]}
  BY <1>3 DEF Hints!Lists
<1>5. ASSUME NEW p \in b .. e, NEW q \in b .. e, p < q PROVE s[p] < s[q]
  <2>1. CASE q = e
    <3>1. p \in b .. e - 1
      BY <1>5, <2>1
    <3> QED
      BY <2>1, <3>1 DEF Hints!Lists
  <2>2. CASE q # e
    BY <1>5, <2>2 DEF Hints!Lists
  <2> QED
    BY <2>1, <2>2
<1>6. (e + 1) - 1 = e /\ (e + 1) - b = (e - b) + 1
  OBVIOUS
<1> QED
  BY <1>2, <1>4, <1>5, <1>6, SameCardinality DEF Hints!Lists

\* No bytes list nothing.
LEMMA ListsNothing ==
  ASSUME NEW s, NEW b \in Nat
  PROVE  Hints!Lists(s, b, b, {})
<1>1. b .. b - 1 = {}
  OBVIOUS
<1> QED
  BY <1>1, FS_EmptySet, SameCardinality DEF Hints!Lists

\* A list depends on its own bytes.
LEMMA ListsSame ==
  ASSUME NEW s, NEW t, NEW b \in Int, NEW e \in Int, NEW set,
         \A p \in b .. e - 1 : s[p] = t[p], Hints!Lists(s, b, e, set)
  PROVE  Hints!Lists(t, b, e, set)
<1>1. {t[p] : p \in b .. e - 1} = {s[p] : p \in b .. e - 1}
  OBVIOUS
<1> QED
  BY <1>1 DEF Hints!Lists

\* A list does not end before it begins.
LEMMA ListsOrder ==
  ASSUME NEW s, NEW b \in Int, NEW e \in Int, NEW set, IsFiniteSet(set), Hints!Lists(s, b, e, set)
  PROVE  b <= e
BY FS_CardinalityType, SameCardinality DEF Hints!Lists

-----------------------------------------------------------------------------
\* The places of the counters in the bytes.
LEMMA HintPlaces ==
  /\ \A r \in Hints!Row : OMEGA + r \in Hints!Position /\ OMEGA + r \in Nat
  /\ \A p \in 0 .. OMEGA - 1 : p \in Hints!Position
  /\ \A r \in Hints!Row : r \in Nat /\ r < HintK
  /\ 0 .. OMEGA \subseteq Hints!Byte /\ HintK - 1 \in Hints!Row
BY HintParameters DEF Hints!Position, Hints!Row, Hints!Byte, Hints!Index

\* The first state.
LEMMA HintInit == Hints!Init => HintInv
<1> SUFFICES ASSUME Hints!Init PROVE HintInv
  OBVIOUS
<1>1. Hints!TypeOK
  <2>1. h \in Hints!Hint /\ hint \in Hints!Hint
    BY DEF Hints!Init, Hints!Hint
  <2>2. sig \in [Hints!Position -> Hints!Byte]
    BY HintParameters DEF Hints!Init, Hints!Zero, Hints!Byte
  <2>3. packed \in BOOLEAN
    BY Zenon DEF Hints!Init
  <2>4. pc = "start" /\ i = 0 /\ j = 0 /\ k = 0 /\ unpacked = 0
    BY DEF Hints!Init
  <2> QED
    BY <2>1, <2>2, <2>3, <2>4, HintParameters DEF Hints!TypeOK
<1> QED
  BY <1>1
  DEF Hints!Init, HintInv, Hints!PackedIsRead, Hints!AcceptedIsCanonical, HintPacking,
      HintEncoded, HintUnpacking

\* pack_sig is called with a hint that was counted.
LEMMA CallPackStep ==
  ASSUME HintInv, Hints!CallPack
  PROVE  HintInv'
<1> USE HintParameters, HintPlaces
<1>1. h' \in Hints!Hint /\ ~Hints!TooMany(h') /\ sig' = Hints!Zero /\ pc = "start" /\ pc' = "pack"
      /\ i' = 0 /\ j' = 0 /\ k' = 0 /\ hint' = hint /\ packed' = packed /\ unpacked' = unpacked
  BY DEF Hints!CallPack
<1>2. Hints!TypeOK /\ packed = FALSE /\ unpacked = 0
  BY <1>1 DEF HintInv, Hints!PackedIsRead, HintEncoded, Hints!TypeOK
<1>3. Cardinality(Before(h', 0, 0)) = 0
  BY <1>1, BeforeFirst
<1>4. Hints!TypeOK'
  <2>1. 0 \in h'[0] => 0 < OMEGA
    OBVIOUS
  <2> QED
    BY <1>1, <1>2, <2>1 DEF Hints!TypeOK, Hints!Zero, Hints!Byte
<1>5. HintPacking'
  <2>1. OnesBefore(h', 0, 0) = {}
    BY DEF OnesBefore
  <2>2. Hints!Lists(sig', 0, 0, {})
    BY ListsNothing
  <2>3. Hints!Begin(sig', i') = 0
    BY <1>1 DEF Hints!Begin
  <2>4. Hints!Lists(sig', Hints!Begin(sig', i'), k', OnesBefore(h', i', j'))
    BY <1>1, <2>1, <2>2, <2>3
  <2>5. \A p \in 0 .. OMEGA - 1 : sig'[p] = 0
    BY <1>1 DEF Hints!Zero
  <2>6. k' = Cardinality(Before(h', i', j'))
    BY <1>1, <1>3
  <2> QED
    BY <1>1, <2>4, <2>5, <2>6 DEF HintPacking, Hints!TooMany, Hints!Weight, Hints!Ones, Before
<1> QED
  BY <1>1, <1>2, <1>4, <1>5
  DEF HintInv, Hints!PackedIsRead, Hints!AcceptedIsCanonical, HintEncoded, HintUnpacking

\* A step leaves the ends of the polynomials alone, and with them the begins.
SameEnds ==
  /\ \A r \in Hints!Row : Hints!End(sig', r) = Hints!End(sig, r) /\ Hints!End(sig, r) \in Nat
  /\ \A r \in 0 .. HintK : Hints!Begin(sig', r) = Hints!Begin(sig, r) /\ Hints!Begin(sig, r) \in Nat

\* The ends are bytes.
LEMMA EndsNatural ==
  ASSUME Hints!TypeOK
  PROVE  \A r \in Hints!Row : Hints!End(sig, r) \in Nat
BY HintParameters, HintPlaces DEF Hints!TypeOK, Hints!End, Hints!Byte

\* Whoever leaves the ends alone leaves the begins.
LEMMA SameBegins ==
  ASSUME Hints!TypeOK, \A r \in Hints!Row : Hints!End(sig', r) = Hints!End(sig, r)
  PROVE  SameEnds
<1> USE HintParameters, HintPlaces
<1>1. \A r \in Hints!Row : Hints!End(sig, r) \in Nat
  BY DEF Hints!TypeOK, Hints!End, Hints!Byte
<1>2. ASSUME NEW r \in 0 .. HintK
      PROVE  Hints!Begin(sig', r) = Hints!Begin(sig, r) /\ Hints!Begin(sig, r) \in Nat
  <2>1. CASE r = 0
    BY <2>1 DEF Hints!Begin
  <2>2. CASE r # 0
    <3>1. r - 1 \in Hints!Row /\ OMEGA + (r - 1) = OMEGA + r - 1
      BY <2>2 DEF Hints!Row
    <3>2. /\ Hints!Begin(sig, r) = Hints!End(sig, r - 1)
          /\ Hints!Begin(sig', r) = Hints!End(sig', r - 1)
      BY <2>2, <3>1 DEF Hints!Begin, Hints!End
    <3> QED
      BY <1>1, <3>1, <3>2
  <2> QED
    BY <2>1, <2>2
<1> QED
  BY <1>1, <1>2 DEF SameEnds

\* A one is written behind the others, and not over the ends.
LEMMA PackOne ==
  ASSUME HintInv, Hints!pack_coefficient, j \in h[i]
  PROVE  /\ k < OMEGA /\ sig' = [sig EXCEPT ![k] = j] /\ k' = k + 1 /\ Hints!TypeOK'
         /\ HintPacking'
<1> USE HintParameters, HintPlaces
<1>1. /\ pc = "pack" /\ i < HintK /\ j < HintN /\ sig' = [sig EXCEPT ![k] = j] /\ k' = k + 1
      /\ j' = j + 1 /\ UNCHANGED <<pc, h, i, hint, packed, unpacked>>
  BY DEF Hints!pack_coefficient
<1>2. Hints!TypeOK /\ HintPacking
  BY DEF HintInv, Hints!PackedIsRead
<1>3. i \in Hints!Row /\ j \in Hints!Index /\ h \in Hints!Hint /\ k \in Nat /\ i \in Nat
  BY <1>1, <1>2 DEF Hints!TypeOK, Hints!Row, Hints!Index
<1>4. k < OMEGA
  BY <1>1, <1>2 DEF Hints!TypeOK
<1>5. k' = Cardinality(Before(h, i, j + 1)) /\ ~Hints!TooMany(h)
  BY <1>1, <1>2, <1>3, BeforeOne DEF HintPacking
<1>6. Hints!TypeOK'
  <2>1. sig' \in [Hints!Position -> Hints!Byte]
    <3>1. j \in Hints!Byte /\ k \in Hints!Position
      BY <1>3, <1>4 DEF Hints!Byte, Hints!Index, Hints!Position
    <3> QED
      BY <1>1, <1>2, <3>1 DEF Hints!TypeOK
  <2>2. ASSUME j' < HintN, j' \in h[i] PROVE k' < OMEGA
    <3>1. j' \in Hints!Index
      BY <1>1, <1>3, <2>2 DEF Hints!Index
    <3>2. k' + 1 <= Cardinality(Hints!Ones(h))
      BY <1>1, <1>3, <1>5, <2>2, <3>1, BeforeOne
    <3>3. Cardinality(Hints!Ones(h)) <= OMEGA
      BY <1>3, <1>5, OnesFinite, SameCardinality DEF Hints!TooMany, Hints!Weight
    <3> QED
      BY <1>1, <1>3, <3>2, <3>3, OnesFinite
  <2>3. k' \in 0 .. OMEGA /\ j' \in 0 .. HintN
    BY <1>1, <1>2, <1>3, <1>4 DEF Hints!TypeOK
  <2> QED
    BY <1>1, <1>2, <2>1, <2>2, <2>3 DEF Hints!TypeOK
<1>7. /\ \A p \in Nat : p < k \/ p >= OMEGA => (p \in Hints!Position => sig'[p] = sig[p])
      /\ sig'[k] = j
  BY <1>1, <1>2, <1>3, <1>4 DEF Hints!TypeOK
<1>8. SameEnds
  <2>1. \A r \in Hints!Row : Hints!End(sig', r) = Hints!End(sig, r)
    BY <1>7 DEF Hints!End
  <2> QED
    BY <1>2, <1>3, <2>1, SameBegins
<1>9. \A r \in 0 .. i - 1 :
        /\ Hints!End(sig', r) <= k'
        /\ Hints!Lists(sig', Hints!Begin(sig', r), Hints!End(sig', r), h'[r])
  <2> SUFFICES ASSUME NEW r \in 0 .. i - 1
               PROVE  /\ Hints!End(sig', r) <= k'
                      /\ Hints!Lists(sig', Hints!Begin(sig', r), Hints!End(sig', r), h'[r])
    OBVIOUS
  <2>1. /\ r \in Hints!Row
        /\ Hints!Begin(sig', r) = Hints!Begin(sig, r)
        /\ Hints!End(sig', r) = Hints!End(sig, r)
        /\ Hints!Begin(sig, r) \in Nat
        /\ Hints!End(sig, r) \in Nat
    BY <1>3, <1>8 DEF SameEnds, Hints!Row
  <2>2. Hints!End(sig, r) <= k /\ Hints!Lists(sig, Hints!Begin(sig, r), Hints!End(sig, r), h[r])
    BY <1>1, <1>2 DEF HintPacking
  <2>3. \A p \in Hints!Begin(sig, r) .. Hints!End(sig, r) - 1 : sig[p] = sig'[p]
    <3> SUFFICES ASSUME NEW p \in Hints!Begin(sig, r) .. Hints!End(sig, r) - 1
                 PROVE  sig[p] = sig'[p]
      OBVIOUS
    <3>1. p \in Nat /\ p < k /\ p \in 0 .. OMEGA - 1
      BY <1>3, <1>4, <2>1, <2>2
    <3> QED
      BY <1>7, <3>1
  <2>4. Hints!Lists(sig', Hints!Begin(sig, r), Hints!End(sig, r), h[r])
    BY <2>1, <2>2, <2>3, ListsSame
  <2> QED
    BY <1>1, <1>3, <2>1, <2>2, <2>4
<1>10. Hints!Lists(sig', Hints!Begin(sig', i'), k', OnesBefore(h', i', j'))
  <2> DEFINE S == OnesBefore(h, i, j)
  <2>1. /\ Hints!Lists(sig, Hints!Begin(sig, i), k, S)
        /\ Hints!Begin(sig, i) \in Nat
        /\ Hints!Begin(sig', i') = Hints!Begin(sig, i)
    <3>1. i \in 0 .. HintK /\ i' = i
      BY <1>1, <1>3
    <3>2. Hints!Lists(sig, Hints!Begin(sig, i), k, S)
      BY <1>1, <1>2 DEF HintPacking
    <3> QED
      BY <1>8, <3>1, <3>2 DEF SameEnds
  <2>2. IsFiniteSet(S) /\ S \subseteq Nat /\ \A c \in S : c < j
    <3>1. S \subseteq 0 .. j - 1
      BY DEF OnesBefore
    <3>2. IsFiniteSet(0 .. j - 1)
      BY <1>3, FS_Interval DEF Hints!Index
    <3> QED
      BY <1>3, <3>1, <3>2, FS_Subset DEF Hints!Index
  <2>3. OnesBefore(h, i, j + 1) = S \cup {j}
    BY <1>3 DEF Hints!Index, OnesBefore
  <2> HIDE DEF S
  <2>4. Hints!Begin(sig, i) <= k
    BY <1>3, <2>1, <2>2, ListsOrder
  <2>5. \A p \in Hints!Begin(sig, i) .. k - 1 : sig[p] = sig'[p]
    BY <1>3, <1>4, <1>7, <2>1
  <2>6. Hints!Lists(sig', Hints!Begin(sig, i), k, S)
    BY <1>3, <2>1, <2>5, ListsSame
  <2>7. Hints!Lists(sig', Hints!Begin(sig, i), k + 1, S \cup {sig'[k]})
    <3>1. sig'[k] \in Nat /\ \A c \in S : c < sig'[k]
      BY <1>3, <1>7, <2>2 DEF Hints!Index
    <3> QED
      BY <1>3, <2>1, <2>2, <2>4, <2>6, <3>1, ListsLonger
  <2> QED
    BY <1>1, <1>7, <2>1, <2>3, <2>7
<1>11. \A p \in k' .. OMEGA - 1 : sig'[p] = 0
  BY <1>1, <1>2, <1>3 DEF HintPacking, Hints!TypeOK
<1>12. HintPacking'
  <2>1. k' = Cardinality(Before(h', i', j')) /\ ~Hints!TooMany(h') /\ i' # HintK
    BY <1>1, <1>3, <1>5
  <2>2. \A r \in 0 .. i' - 1 :
          /\ Hints!End(sig', r) <= k'
          /\ Hints!Lists(sig', Hints!Begin(sig', r), Hints!End(sig', r), h'[r])
    BY <1>1, <1>9
  <2> QED
    BY <1>10, <1>11, <2>1, <2>2 DEF HintPacking
<1> QED
  BY <1>1, <1>4, <1>6, <1>12

\* One coefficient of pack_sig.
LEMMA pack_coefficient_Step ==
  ASSUME HintInv, Hints!pack_coefficient
  PROVE  HintInv'
<1> USE HintParameters, HintPlaces
<1>1. /\ pc = "pack" /\ i < HintK /\ j < HintN /\ j' = j + 1
      /\ UNCHANGED <<pc, h, i, hint, packed, unpacked>>
  BY DEF Hints!pack_coefficient
<1>2. Hints!TypeOK /\ HintPacking /\ ~packed
  BY <1>1 DEF HintInv, Hints!PackedIsRead, HintEncoded
<1>3. Hints!TypeOK' /\ HintPacking'
  <2>1. CASE j \in h[i]
    BY <2>1, PackOne
  <2>2. CASE j \notin h[i]
    <3>1. sig' = sig /\ k' = k
      BY <2>2 DEF Hints!pack_coefficient
    <3>2. /\ i \in Hints!Row
          /\ j \in Hints!Index
          /\ h \in Hints!Hint
          /\ k \in Nat
          /\ i \in Nat
          /\ j \in Nat
      BY <1>1, <1>2 DEF Hints!TypeOK, Hints!Row, Hints!Index
    <3>3. k' = Cardinality(Before(h', i', j')) /\ ~Hints!TooMany(h')
      <4>1. Before(h, i, j + 1) = Before(h, i, j)
        BY <2>2, <3>2, BeforeZero
      <4> QED
        BY <1>1, <1>2, <3>1, <4>1 DEF HintPacking
    <3>4. OnesBefore(h', i', j') = OnesBefore(h, i, j)
      <4>1. OnesBefore(h, i, j + 1) = OnesBefore(h, i, j)
        BY <2>2, <3>2 DEF OnesBefore
      <4> QED
        BY <1>1, <4>1
    <3>5. Hints!TypeOK'
      <4>1. ASSUME j' < HintN, j' \in h[i] PROVE k < OMEGA
        <5>1. j' \in Hints!Index
          BY <1>1, <3>2, <4>1 DEF Hints!Index
        <5>2. k' + 1 <= Cardinality(Hints!Ones(h)) /\ k' = k
          BY <1>1, <3>1, <3>2, <3>3, <4>1, <5>1, BeforeOne
        <5>3. Cardinality(Hints!Ones(h)) <= OMEGA
          BY <1>1, <3>2, <3>3, OnesFinite, SameCardinality DEF Hints!TooMany, Hints!Weight
        <5> QED
          BY <3>2, <5>2, <5>3, OnesFinite
      <4>2. j' \in 0 .. HintN
        BY <1>1, <3>2
      <4> QED
        BY <1>1, <1>2, <3>1, <4>1, <4>2 DEF Hints!TypeOK
    <3>6. i' # HintK /\ i' = i
      BY <1>1, <3>2
    <3> QED
      BY <1>1, <1>2, <3>1, <3>3, <3>4, <3>5, <3>6 DEF HintPacking
  <2> QED
    BY <2>1, <2>2
<1> QED
  BY <1>1, <1>2, <1>3
  DEF HintInv, Hints!PackedIsRead, Hints!AcceptedIsCanonical, HintEncoded, HintUnpacking

\* The end of a polynomial is written: it is the begin of the next.
LEMMA pack_row_Step ==
  ASSUME HintInv, Hints!pack_row
  PROVE  HintInv'
<1> USE HintParameters, HintPlaces
<1>1. /\ pc = "pack" /\ i < HintK /\ j = HintN /\ sig' = [sig EXCEPT ![OMEGA + i] = k]
      /\ i' = i + 1 /\ j' = 0 /\ UNCHANGED <<pc, h, k, hint, packed, unpacked>>
  BY DEF Hints!pack_row, Hints!EndOfRow
<1>2. Hints!TypeOK /\ HintPacking /\ ~packed
  BY <1>1 DEF HintInv, Hints!PackedIsRead, HintEncoded
<1>3. i \in Hints!Row /\ h \in Hints!Hint /\ k \in 0 .. OMEGA /\ i \in Nat /\ i' \in 0 .. HintK
  BY <1>1, <1>2 DEF Hints!TypeOK, Hints!Row
<1>4. /\ \A p \in Hints!Position : p # OMEGA + i => sig'[p] = sig[p]
      /\ sig'[OMEGA + i] = k /\ sig' \in [Hints!Position -> Hints!Byte]
  BY <1>1, <1>2, <1>3 DEF Hints!TypeOK
<1>5. k' = Cardinality(Before(h', i', j')) /\ ~Hints!TooMany(h')
  <2>1. Before(h, i + 1, 0) = Before(h, i, HintN)
    BY <1>3, BeforeRow
  <2> QED
    BY <1>1, <1>2, <2>1 DEF HintPacking
<1>6. Hints!TypeOK'
  <2>1. ASSUME i' < HintK, 0 \in h[i'] PROVE k' < OMEGA
    <3>1. i' \in Hints!Row /\ 0 \in Hints!Index
      BY <1>3, <2>1 DEF Hints!Row, Hints!Index
    <3>2. k' + 1 <= Cardinality(Hints!Ones(h))
      BY <1>1, <1>3, <1>5, <2>1, <3>1, BeforeOne
    <3>3. Cardinality(Hints!Ones(h)) <= OMEGA
      BY <1>1, <1>3, <1>5, OnesFinite, SameCardinality DEF Hints!TooMany, Hints!Weight
    <3> QED
      BY <1>1, <1>3, <3>2, <3>3, OnesFinite
  <2> QED
    BY <1>1, <1>2, <1>3, <1>4, <2>1 DEF Hints!TypeOK
<1>7. \A r \in Hints!Row : r # i => Hints!End(sig', r) = Hints!End(sig, r)
  BY <1>3, <1>4 DEF Hints!End, Hints!Row
<1>8. Hints!End(sig', i) = k /\ Hints!Begin(sig', i + 1) = k
  BY <1>3, <1>4 DEF Hints!End, Hints!Begin
<1>9. \A r \in 0 .. i : Hints!Begin(sig', r) = Hints!Begin(sig, r) /\ Hints!Begin(sig, r) \in Nat
  <2> SUFFICES ASSUME NEW r \in 0 .. i
               PROVE  Hints!Begin(sig', r) = Hints!Begin(sig, r) /\ Hints!Begin(sig, r) \in Nat
    OBVIOUS
  <2>1. CASE r = 0
    BY <2>1 DEF Hints!Begin
  <2>2. CASE r # 0
    <3>1. OMEGA + r - 1 \in Hints!Position /\ OMEGA + r - 1 # OMEGA + i
      BY <1>3, <2>2 DEF Hints!Position
    <3> QED
      BY <1>2, <1>4, <2>2, <3>1 DEF Hints!Begin, Hints!TypeOK, Hints!Byte
  <2> QED
    BY <2>1, <2>2
<1>10. \A p \in 0 .. OMEGA - 1 : sig'[p] = sig[p]
  BY <1>3, <1>4
<1>11. ASSUME NEW r \in 0 .. i
       PROVE  /\ Hints!End(sig', r) <= k
              /\ Hints!Lists(sig', Hints!Begin(sig', r), Hints!End(sig', r), h[r])
  <2>1. r \in Hints!Row /\ r \in Nat /\ r \in 0 .. HintK
    BY <1>3 DEF Hints!Row
  <2>2. CASE r < i
    <3>1. Hints!End(sig, r) <= k /\ Hints!Lists(sig, Hints!Begin(sig, r), Hints!End(sig, r), h[r])
      BY <1>1, <1>2, <1>3, <2>2 DEF HintPacking
    <3>2. Hints!End(sig', r) = Hints!End(sig, r) /\ Hints!End(sig, r) \in Nat
      BY <1>2, <1>7, <2>1, <2>2 DEF Hints!TypeOK, Hints!End, Hints!Byte
    <3>3. \A p \in Hints!Begin(sig, r) .. Hints!End(sig, r) - 1 : sig[p] = sig'[p]
      BY <1>3, <1>9, <1>10, <3>1, <3>2
    <3>4. Hints!Lists(sig', Hints!Begin(sig, r), Hints!End(sig, r), h[r])
      BY <1>9, <3>1, <3>2, <3>3, ListsSame
    <3> QED
      BY <1>9, <3>1, <3>2, <3>4
  <2>3. CASE r = i
    <3>1. Hints!Lists(sig, Hints!Begin(sig, i), k, OnesBefore(h, i, HintN))
      BY <1>1, <1>2 DEF HintPacking
    <3>2. OnesBefore(h, i, HintN) = h[i]
      BY <1>3 DEF OnesBefore, Hints!Hint, Hints!Index
    <3>3. \A p \in Hints!Begin(sig, i) .. k - 1 : sig[p] = sig'[p]
      BY <1>3, <1>9, <1>10
    <3>4. Hints!Lists(sig', Hints!Begin(sig, i), k, h[i])
      BY <1>3, <1>9, <3>1, <3>2, <3>3, ListsSame
    <3> QED
      BY <1>3, <1>8, <1>9, <2>3, <3>4
  <2> QED
    BY <1>3, <2>2, <2>3
<1>12. Hints!Lists(sig', Hints!Begin(sig', i'), k', OnesBefore(h', i', j'))
  <2>1. OnesBefore(h', i', 0) = {}
    BY DEF OnesBefore
  <2>2. Hints!Lists(sig', k, k, {})
    BY <1>3, ListsNothing
  <2> QED
    BY <1>1, <1>8, <2>1, <2>2
<1>13. \A p \in k' .. OMEGA - 1 : sig'[p] = 0
  BY <1>1, <1>2, <1>3, <1>10 DEF HintPacking
<1>14. HintPacking'
  <2>1. 0 .. i' - 1 = 0 .. i /\ k' = k /\ h' = h
    BY <1>1, <1>3
  <2>2. \A r \in 0 .. i' - 1 :
          /\ Hints!End(sig', r) <= k'
          /\ Hints!Lists(sig', Hints!Begin(sig', r), Hints!End(sig', r), h'[r])
    BY <1>11, <2>1
  <2> QED
    BY <1>1, <1>5, <1>12, <1>13, <2>2 DEF HintPacking
<1> QED
  BY <1>1, <1>2, <1>6, <1>14
  DEF HintInv, Hints!PackedIsRead, Hints!AcceptedIsCanonical, HintEncoded, HintUnpacking

\* After the last polynomial the bytes are the encoding.
LEMMA pack_return_Step ==
  ASSUME HintInv, Hints!pack_return
  PROVE  HintInv'
<1> USE HintParameters, HintPlaces
<1>1. /\ pc = "pack"
      /\ i = HintK
      /\ pc' = "packed"
      /\ packed'
      /\ UNCHANGED <<h, sig, i, j, k, hint, unpacked>>
  BY DEF Hints!pack_return
<1>2. Hints!TypeOK /\ HintPacking /\ unpacked = 0
  BY <1>1 DEF HintInv, Hints!PackedIsRead
<1>3. \A r \in Hints!Row :
        /\ Hints!End(sig, r) <= OMEGA
        /\ Hints!Lists(sig, Hints!Begin(sig, r), Hints!End(sig, r), h[r])
  <2>1. \A r \in Hints!Row : r \in 0 .. HintK - 1
    BY DEF Hints!Row
  <2> QED
    BY <1>1, <1>2, <2>1, EndsNatural DEF HintPacking, Hints!TypeOK
<1>4. k = Hints!End(sig, HintK - 1)
  <2>1. OnesBefore(h, HintK, 0) = {} /\ Cardinality({}) = 0
    BY FS_EmptySet DEF OnesBefore
  <2>2. Hints!Lists(sig, Hints!Begin(sig, HintK), k, {})
    BY <1>1, <1>2, <2>1 DEF HintPacking
  <2>3. Hints!Begin(sig, HintK) = Hints!End(sig, HintK - 1) /\ Hints!End(sig, HintK - 1) \in Nat
    BY <1>2 DEF Hints!Begin, Hints!End, Hints!TypeOK, Hints!Byte
  <2>4. k - Hints!Begin(sig, HintK) = 0
    BY <2>1, <2>2, SameCardinality DEF Hints!Lists
  <2> QED
    BY <1>2, <2>3, <2>4 DEF Hints!TypeOK
<1>5. Hints!IsEncodingOf(h)
  BY <1>1, <1>2, <1>3, <1>4 DEF Hints!IsEncodingOf, HintPacking
<1>6. Hints!IsEncodingOf(h)' /\ \A r \in Hints!Row : Hints!End(sig', r) <= OMEGA
  BY <1>1, <1>3, <1>5 DEF Hints!IsEncodingOf
<1>7. Hints!TypeOK'
  <2>1. packed' \in BOOLEAN
    BY Zenon DEF Hints!pack_return
  <2> QED
    BY <1>1, <1>2, <2>1 DEF Hints!TypeOK
<1> QED
  BY <1>1, <1>2, <1>6, <1>7
  DEF HintInv, Hints!PackedIsRead, Hints!AcceptedIsCanonical, HintPacking, HintEncoded,
      HintUnpacking

\* unpack_sig is called with what was packed or with any bytes.
LEMMA CallUnpackStep ==
  ASSUME HintInv, Hints!CallUnpack
  PROVE  HintInv'
<1> USE HintParameters, HintPlaces
<1>1. pc' = "row" /\ i' = 0 /\ j' = 0 /\ k' = 0 /\ UNCHANGED <<h, hint, packed, unpacked>>
  BY DEF Hints!CallUnpack
<1>2. Hints!TypeOK /\ HintEncoded /\ unpacked = 0 /\ pc \in {"packed", "start"}
  BY DEF HintInv, Hints!PackedIsRead, Hints!CallUnpack
<1>3. sig' \in [Hints!Position -> Hints!Byte]
  BY <1>2 DEF Hints!CallUnpack, Hints!TypeOK
<1>4. packed' => Hints!IsEncodingOf(h)' /\ \A r \in Hints!Row : Hints!End(sig', r) <= OMEGA
  <2>1. packed' => packed /\ sig' = sig
    BY <1>1, <1>2 DEF Hints!CallUnpack, HintEncoded
  <2> QED
    BY <1>1, <1>2, <2>1 DEF HintEncoded, Hints!IsEncodingOf
<1>5. Hints!Begin(sig', 0) = 0
  BY DEF Hints!Begin
<1>6. Hints!TypeOK'
  BY <1>1, <1>2, <1>3 DEF Hints!TypeOK
<1> QED
  BY <1>1, <1>2, <1>4, <1>5, <1>6
  DEF HintInv, Hints!PackedIsRead, Hints!AcceptedIsCanonical, HintPacking, HintEncoded, HintUnpacking

\* unpack_sig refuses: it does not happen to what was packed.
LEMMA Refused ==
  ASSUME HintInv, Hints!TypeOK', pc' = "done", unpacked' = 1, UNCHANGED packed, ~packed
  PROVE  HintInv'
BY
DEF HintInv, Hints!PackedIsRead, Hints!AcceptedIsCanonical, HintPacking, HintEncoded,
    HintUnpacking

\* The end of a polynomial is tested before it is used as a bound.
LEMMA unpack_row_Step ==
  ASSUME HintInv, Hints!unpack_row
  PROVE  HintInv'
<1> USE HintParameters, HintPlaces
<1>1. /\ pc = "row" /\ i < HintK /\ hint' = [hint EXCEPT ![i] = {}]
      /\ UNCHANGED <<h, sig, i, k, packed>>
  BY DEF Hints!unpack_row
<1>2. Hints!TypeOK /\ HintEncoded /\ HintUnpacking /\ unpacked = 0
  BY <1>1 DEF HintInv, Hints!PackedIsRead
<1>3. /\ i \in Hints!Row
      /\ i \in Nat
      /\ k \in 0 .. OMEGA
      /\ k = Hints!Begin(sig, i)
      /\ Hints!End(sig, i) \in Nat
  BY <1>1, <1>2, EndsNatural DEF Hints!TypeOK, Hints!Row, HintUnpacking
<1>4. hint' \in Hints!Hint /\ hint'[i] = {} /\ \A r \in Hints!Row : r # i => hint'[r] = hint[r]
  BY <1>1, <1>2, <1>3 DEF Hints!TypeOK, Hints!Hint
<1>5. CASE Hints!BadEnd(sig[OMEGA + i])
  <2>1. pc' = "done" /\ unpacked' = 1 /\ j' = j
    BY <1>5 DEF Hints!unpack_row, Hints!return
  <2>2. Hints!TypeOK'
    BY <1>1, <1>2, <1>4, <2>1 DEF Hints!TypeOK
  <2>3. ASSUME packed PROVE FALSE
    <3>1. /\ Hints!Lists(sig, Hints!Begin(sig, i), Hints!End(sig, i), h[i])
          /\ Hints!End(sig, i) <= OMEGA
      BY <1>2, <1>3, <2>3 DEF HintEncoded, Hints!IsEncodingOf
    <3>2. Hints!Begin(sig, i) <= Hints!End(sig, i)
      BY <1>2, <1>3, <3>1, OnesFinite, ListsOrder DEF Hints!TypeOK
    <3> QED
      BY <1>3, <1>5, <3>1, <3>2 DEF Hints!BadEnd, Hints!End
  <2> QED
    BY <1>1, <2>1, <2>2, <2>3, Refused
<1>6. CASE ~Hints!BadEnd(sig[OMEGA + i])
  <2>1. pc' = "index" /\ unpacked' = unpacked /\ j' = k
    BY <1>6 DEF Hints!unpack_row
  <2>2. k <= Hints!End(sig, i) /\ Hints!End(sig, i) <= OMEGA
    BY <1>3, <1>6 DEF Hints!BadEnd, Hints!End
  <2>3. k \in 0 .. HintN
    BY <1>3
  <2>4. Hints!TypeOK'
    BY <1>1, <1>2, <1>3, <1>4, <2>1, <2>3 DEF Hints!TypeOK
  <2>5. Hints!Lists(sig, k, k, {})
    BY <1>3, ListsNothing
  <2>6. \A r \in 0 .. i - 1 : Hints!Lists(sig, Hints!Begin(sig, r), Hints!End(sig, r), hint'[r])
    <3> SUFFICES ASSUME NEW r \in 0 .. i - 1
                 PROVE  Hints!Lists(sig, Hints!Begin(sig, r), Hints!End(sig, r), hint'[r])
      OBVIOUS
    <3>1. r \in Hints!Row /\ r # i
      BY <1>3 DEF Hints!Row
    <3> QED
      BY <1>1, <1>2, <1>4, <3>1 DEF HintUnpacking
  <2>7. HintUnpacking'
    BY <1>1, <1>2, <1>3, <1>4, <2>1, <2>2, <2>5, <2>6 DEF HintUnpacking
  <2>8. HintEncoded'
    BY <1>1, <1>2, <2>1 DEF HintEncoded, Hints!IsEncodingOf
  <2> QED
    BY <1>2, <2>1, <2>4, <2>7, <2>8
    DEF HintInv, Hints!PackedIsRead, Hints!AcceptedIsCanonical, HintPacking
<1> QED
  BY <1>5, <1>6

\* An index is larger than the one before, hence than all before.
LEMMA unpack_index_Step ==
  ASSUME HintInv, Hints!unpack_index
  PROVE  HintInv'
<1> USE HintParameters, HintPlaces
<1>1. /\ pc = "index" /\ j < Hints!End(sig, i) /\ UNCHANGED <<h, sig, i, k, packed>>
  BY DEF Hints!unpack_index, Hints!End
<1>2. Hints!TypeOK /\ HintEncoded /\ HintUnpacking /\ unpacked = 0
  BY <1>1 DEF HintInv, Hints!PackedIsRead
<1>3. /\ i < HintK /\ k = Hints!Begin(sig, i) /\ k <= j /\ Hints!End(sig, i) <= OMEGA
      /\ Hints!Lists(sig, k, j, hint[i])
  BY <1>1, <1>2 DEF HintUnpacking
<1>4. /\ i \in Hints!Row
      /\ i \in Nat
      /\ k \in Nat
      /\ j \in Nat
      /\ j < OMEGA
      /\ Hints!End(sig, i) \in Nat
  BY <1>1, <1>2, <1>3, EndsNatural DEF Hints!TypeOK, Hints!Row
<1>5. sig[j] \in Hints!Index /\ sig[j] \in Nat /\ \A p \in 0 .. j : sig[p] \in Nat
  <2>1. \A p \in 0 .. j : p \in Hints!Position
    BY <1>4
  <2> QED
    BY <1>2, <1>4, <2>1 DEF Hints!TypeOK, Hints!Byte, Hints!Index
<1>6. CASE Hints!OutOfOrder
  <2>1. pc' = "done" /\ unpacked' = 1 /\ j' = j /\ hint' = hint
    BY <1>6 DEF Hints!unpack_index, Hints!return
  <2>2. Hints!TypeOK'
    BY <1>1, <1>2, <2>1 DEF Hints!TypeOK
  <2>3. ASSUME packed PROVE FALSE
    <3>1. Hints!Lists(sig, Hints!Begin(sig, i), Hints!End(sig, i), h[i])
      BY <1>2, <1>4, <2>3 DEF HintEncoded, Hints!IsEncodingOf
    <3>2. /\ j > k
          /\ j - 1 \in k .. Hints!End(sig, i) - 1
          /\ j \in k .. Hints!End(sig, i) - 1
          /\ j - 1 < j
      BY <1>1, <1>3, <1>4, <1>6 DEF Hints!OutOfOrder
    <3>3. sig[j - 1] < sig[j]
      BY <1>3, <3>1, <3>2 DEF Hints!Lists
    <3>4. sig[j - 1] \in Nat
      BY <1>4, <1>5, <3>2
    <3> QED
      BY <1>5, <1>6, <3>3, <3>4 DEF Hints!OutOfOrder
  <2> QED
    BY <1>1, <2>1, <2>2, <2>3, Refused
<1>7. CASE ~Hints!OutOfOrder
  <2>1. /\ hint' = [hint EXCEPT ![i] = @ \cup {sig[j]}]
        /\ j' = j + 1
        /\ pc' = pc
        /\ unpacked' = unpacked
    BY <1>7 DEF Hints!unpack_index
  <2>2. /\ hint' \in Hints!Hint /\ hint'[i] = hint[i] \cup {sig[j]}
        /\ \A r \in Hints!Row : r # i => hint'[r] = hint[r]
    BY <1>2, <1>4, <1>5, <2>1 DEF Hints!TypeOK, Hints!Hint
  <2>3. Hints!TypeOK'
    BY <1>1, <1>2, <1>4, <2>1, <2>2 DEF Hints!TypeOK
  <2>4. IsFiniteSet(hint[i]) /\ hint[i] \subseteq Nat
    BY <1>2, <1>4, OnesFinite DEF Hints!TypeOK, Hints!Hint, Hints!Index
  <2>5. \A c \in hint[i] : c < sig[j]
    <3> SUFFICES ASSUME NEW c \in hint[i] PROVE c < sig[j]
      OBVIOUS
    <3>1. PICK p \in k .. j - 1 : c = sig[p]
      BY <1>3 DEF Hints!Lists
    <3>2. j > k /\ j - 1 \in k .. j - 1 /\ p \in Nat /\ j - 1 \in Nat
      BY <1>4, <3>1
    <3>3. sig[j - 1] < sig[j]
      BY <1>4, <1>5, <1>7, <3>2 DEF Hints!OutOfOrder
    <3>4. p < j - 1 => sig[p] < sig[j - 1]
      BY <1>3, <3>2 DEF Hints!Lists
    <3>5. sig[p] \in Nat /\ sig[j - 1] \in Nat
      BY <1>4, <1>5, <3>2
    <3>6. p < j - 1 \/ p = j - 1
      BY <1>4, <3>2
    <3> QED
      BY <1>5, <3>1, <3>3, <3>4, <3>5, <3>6
  <2>6. Hints!Lists(sig, k, j + 1, hint'[i])
    BY <1>3, <1>4, <1>5, <2>2, <2>4, <2>5, ListsLonger
  <2>7. \A r \in 0 .. i - 1 : Hints!Lists(sig, Hints!Begin(sig, r), Hints!End(sig, r), hint'[r])
    <3> SUFFICES ASSUME NEW r \in 0 .. i - 1
                 PROVE  Hints!Lists(sig, Hints!Begin(sig, r), Hints!End(sig, r), hint'[r])
      OBVIOUS
    <3>1. r \in Hints!Row /\ r # i
      BY <1>4 DEF Hints!Row
    <3> QED
      BY <1>1, <1>2, <2>2, <3>1 DEF HintUnpacking
  <2>8. k <= j + 1 /\ j + 1 <= Hints!End(sig, i)
    BY <1>1, <1>3, <1>4
  <2>9. HintUnpacking'
    BY <1>1, <1>2, <1>3, <2>1, <2>6, <2>7, <2>8 DEF HintUnpacking
  <2>10. HintEncoded'
    BY <1>1, <1>2, <2>1 DEF HintEncoded, Hints!IsEncodingOf
  <2> QED
    BY <1>1, <1>2, <2>1, <2>3, <2>9, <2>10
    DEF HintInv, Hints!PackedIsRead, Hints!AcceptedIsCanonical, HintPacking
<1> QED
  BY <1>6, <1>7

\* The indices of a polynomial are read.
LEMMA unpack_row_end_Step ==
  ASSUME HintInv, Hints!unpack_row_end
  PROVE  HintInv'
<1> USE HintParameters, HintPlaces
<1>1. /\ /\ pc = "index"
      /\ j >= Hints!End(sig, i)
      /\ k' = Hints!End(sig, i)
      /\ i' = i + 1
      /\ pc' = "row"
      /\ UNCHANGED <<h, sig, j, hint, packed, unpacked>>
  BY DEF Hints!unpack_row_end, Hints!End
<1>2. Hints!TypeOK /\ HintEncoded /\ HintUnpacking /\ unpacked = 0
  BY <1>1 DEF HintInv, Hints!PackedIsRead
<1>3. /\ /\ i < HintK
      /\ k = Hints!Begin(sig, i)
      /\ j <= Hints!End(sig, i)
      /\ Hints!End(sig, i) <= OMEGA
      /\ Hints!Lists(sig, k, j, hint[i])
  BY <1>1, <1>2 DEF HintUnpacking
<1>4. i \in Hints!Row /\ i \in Nat /\ j \in Nat /\ Hints!End(sig, i) \in Nat
  BY <1>1, <1>2, <1>3, EndsNatural DEF Hints!TypeOK, Hints!Row
<1>5. j = Hints!End(sig, i) /\ i' \in 0 .. HintK /\ Hints!End(sig, i) \in 0 .. OMEGA
  BY <1>1, <1>3, <1>4
<1>6. Hints!TypeOK'
  BY <1>1, <1>2, <1>5 DEF Hints!TypeOK
<1>7. Hints!Begin(sig, i + 1) = Hints!End(sig, i)
  BY <1>4 DEF Hints!Begin, Hints!End
<1>8. \A r \in 0 .. i : Hints!Lists(sig, Hints!Begin(sig, r), Hints!End(sig, r), hint[r])
  <2> SUFFICES ASSUME NEW r \in 0 .. i
               PROVE  Hints!Lists(sig, Hints!Begin(sig, r), Hints!End(sig, r), hint[r])
    OBVIOUS
  <2>1. r = i \/ r \in 0 .. i - 1
    BY <1>4
  <2> QED
    BY <1>1, <1>2, <1>3, <1>5, <2>1 DEF HintUnpacking
<1>9. 0 .. i' - 1 = 0 .. i
  BY <1>1, <1>4
<1>10. HintUnpacking'
  BY <1>1, <1>2, <1>7, <1>8, <1>9 DEF HintUnpacking
<1>11. HintEncoded'
  BY <1>1, <1>2 DEF HintEncoded, Hints!IsEncodingOf
<1> QED
  BY <1>1, <1>2, <1>6, <1>10, <1>11
  DEF HintInv, Hints!PackedIsRead, Hints!AcceptedIsCanonical, HintPacking

\* All polynomials are read.
LEMMA unpack_extra_Step ==
  ASSUME HintInv, Hints!unpack_extra
  PROVE  HintInv'
<1> USE HintParameters, HintPlaces
<1>1. /\ pc = "row" /\ i = HintK /\ pc' = "extra" /\ j' = k
      /\ UNCHANGED <<h, sig, i, k, hint, packed, unpacked>>
  BY DEF Hints!unpack_extra
<1>2. Hints!TypeOK /\ HintEncoded /\ HintUnpacking /\ unpacked = 0
  BY <1>1 DEF HintInv, Hints!PackedIsRead
<1>3. k \in 0 .. OMEGA /\ k \in 0 .. HintN /\ k .. k - 1 = {}
  BY <1>2 DEF Hints!TypeOK
<1>4. Hints!TypeOK'
  BY <1>1, <1>2, <1>3 DEF Hints!TypeOK
<1>5. HintUnpacking'
  BY <1>1, <1>2, <1>3 DEF HintUnpacking
<1>6. HintEncoded'
  BY <1>1, <1>2 DEF HintEncoded, Hints!IsEncodingOf
<1> QED
  BY <1>1, <1>2, <1>4, <1>5, <1>6
  DEF HintInv, Hints!PackedIsRead, Hints!AcceptedIsCanonical, HintPacking

\* A byte behind the last index has to be zero.
LEMMA extra_index_Step ==
  ASSUME HintInv, Hints!extra_index
  PROVE  HintInv'
<1> USE HintParameters, HintPlaces
<1>1. pc = "extra" /\ j < OMEGA /\ UNCHANGED <<h, sig, i, k, hint, packed>>
  BY DEF Hints!extra_index
<1>2. Hints!TypeOK /\ HintEncoded /\ HintUnpacking /\ unpacked = 0
  BY <1>1 DEF HintInv, Hints!PackedIsRead
<1>3. /\ i = HintK /\ k = Hints!Begin(sig, i) /\ k <= j /\ j \in Nat /\ k \in Nat
      /\ \A p \in k .. j - 1 : sig[p] = 0
  BY <1>1, <1>2 DEF HintUnpacking, Hints!TypeOK
<1>4. CASE sig[j] # 0
  <2>1. pc' = "done" /\ unpacked' = 1 /\ j' = j
    BY <1>4 DEF Hints!extra_index, Hints!return
  <2>2. Hints!TypeOK'
    BY <1>1, <1>2, <2>1 DEF Hints!TypeOK
  <2>3. ASSUME packed PROVE FALSE
    <3>1. k = Hints!End(sig, HintK - 1)
      BY <1>3 DEF Hints!Begin, Hints!End
    <3>2. j \in Hints!End(sig, HintK - 1) .. OMEGA - 1
      BY <1>1, <1>3, <3>1
    <3> QED
      BY <1>2, <1>4, <2>3, <3>2 DEF HintEncoded, Hints!IsEncodingOf
  <2> QED
    BY <1>1, <2>1, <2>2, <2>3, Refused
<1>5. CASE sig[j] = 0
  <2>1. j' = j + 1 /\ pc' = pc /\ unpacked' = unpacked
    BY <1>5 DEF Hints!extra_index
  <2>2. j' <= OMEGA /\ j' \in 0 .. HintN /\ k <= j'
    BY <1>1, <1>3, <2>1
  <2>3. Hints!TypeOK'
    BY <1>1, <1>2, <2>1, <2>2 DEF Hints!TypeOK
  <2>4. \A p \in k .. j' - 1 : sig[p] = 0
    BY <1>3, <1>5, <2>1
  <2>5. HintUnpacking'
    BY <1>1, <1>2, <1>3, <2>1, <2>2, <2>4 DEF HintUnpacking
  <2>6. HintEncoded'
    BY <1>1, <1>2, <2>1 DEF HintEncoded, Hints!IsEncodingOf
  <2> QED
    BY <1>1, <1>2, <2>1, <2>3, <2>5, <2>6
    DEF HintInv, Hints!PackedIsRead, Hints!AcceptedIsCanonical, HintPacking
<1> QED
  BY <1>4, <1>5

\* What is accepted is the encoding of what was read; two hints with one
\* encoding are equal.
LEMMA unpack_return_Step ==
  ASSUME HintInv, Hints!unpack_return
  PROVE  HintInv'
<1> USE HintParameters, HintPlaces
<1>1. /\ pc = "extra" /\ j >= OMEGA /\ pc' = "done" /\ unpacked' = 0
      /\ UNCHANGED <<h, sig, i, j, k, hint, packed>>
  BY DEF Hints!unpack_return, Hints!return
<1>2. Hints!TypeOK /\ HintEncoded /\ HintUnpacking /\ unpacked = 0
  BY <1>1 DEF HintInv, Hints!PackedIsRead
<1>3. i = HintK /\ k = Hints!Begin(sig, i) /\ j = OMEGA /\ \A p \in k .. OMEGA - 1 : sig[p] = 0
  BY <1>1, <1>2 DEF HintUnpacking, Hints!TypeOK
<1>4. k = Hints!End(sig, HintK - 1)
  BY <1>3 DEF Hints!Begin, Hints!End
<1>5. \A r \in Hints!Row : Hints!Lists(sig, Hints!Begin(sig, r), Hints!End(sig, r), hint[r])
  <2>1. \A r \in Hints!Row : r \in 0 .. i - 1
    BY <1>3 DEF Hints!Row
  <2> QED
    BY <1>1, <1>2, <2>1 DEF HintUnpacking
<1>6. Hints!IsEncodingOf(hint)
  BY <1>3, <1>4, <1>5 DEF Hints!IsEncodingOf
<1>7. Hints!IsEncodingOf(hint)'
  BY <1>1, <1>6 DEF Hints!IsEncodingOf
<1>8. packed => hint = h
  <2> SUFFICES ASSUME packed PROVE hint = h
    OBVIOUS
  <2>1. \A r \in Hints!Row : Hints!Lists(sig, Hints!Begin(sig, r), Hints!End(sig, r), h[r])
    BY <1>2 DEF HintEncoded, Hints!IsEncodingOf
  <2>2. \A r \in Hints!Row : hint[r] = h[r]
    BY <1>5, <2>1 DEF Hints!Lists
  <2> QED
    BY <1>2, <2>2 DEF Hints!TypeOK, Hints!Hint
<1>9. Hints!TypeOK'
  BY <1>1, <1>2 DEF Hints!TypeOK
<1>10. HintEncoded'
  BY <1>1, <1>2 DEF HintEncoded, Hints!IsEncodingOf
<1> QED
  BY <1>1, <1>7, <1>8, <1>9, <1>10
  DEF HintInv, Hints!PackedIsRead, Hints!AcceptedIsCanonical, HintPacking, HintUnpacking

\* Every step keeps the invariant.
LEMMA HintStep == HintInv /\ [Hints!Next]_(Hints!vars) => HintInv'
<1> SUFFICES ASSUME HintInv, [Hints!Next]_(Hints!vars) PROVE HintInv'
  OBVIOUS
<1>1. CASE UNCHANGED Hints!vars
  BY <1>1
  DEF Hints!vars, HintInv, Hints!PackedIsRead, Hints!AcceptedIsCanonical, Hints!TypeOK,
      HintPacking, HintEncoded, HintUnpacking,
              Hints!IsEncodingOf, Hints!TooMany, Hints!Weight
<1> QED
  BY <1>1, CallPackStep, pack_coefficient_Step, pack_row_Step, pack_return_Step, CallUnpackStep,
     unpack_row_Step, unpack_index_Step, unpack_row_end_Step, unpack_extra_Step, extra_index_Step,
     unpack_return_Step DEF Hints!Next

\* The hints of a signature are one part of the behaviours of MCSignature.
LEMMA HintsAlways == SignatureSpec => []HintInv
<1>1. SignatureInit => HintInv
  BY HintInit DEF SignatureInit
<1>2. HintInv /\ [SignatureNext]_signatureVars => HintInv'
  <2> SUFFICES ASSUME HintInv, [SignatureNext]_signatureVars PROVE HintInv'
    OBVIOUS
  <2>1. [Hints!Next]_(Hints!vars)
    BY DEF SignatureNext, signatureVars, ofHints, Hints!vars
  <2> QED
    BY <2>1, HintStep
<1> QED
  BY <1>1, <1>2, PTL DEF SignatureSpec

\* For all parameters: what pack_sig writes for a hint that was counted,
\* unpack_sig accepts and reads back, and neither leaves its array.
THEOREM SignaturePackedIsRead == SignatureSpec => []PackedIsRead
<1>1. HintInv => PackedIsRead
  BY DEF HintInv, PackedIsRead
<1> QED
  BY <1>1, HintsAlways, PTL

\* For all parameters: whatever bytes unpack_sig accepts, they are the one
\* encoding of the hint it read.
THEOREM SignatureAcceptedIsCanonical == SignatureSpec => []AcceptedIsCanonical
<1>1. HintInv => AcceptedIsCanonical
  BY DEF HintInv, AcceptedIsCanonical
<1> QED
  BY <1>1, HintsAlways, PTL

-----------------------------------------------------------------------------
(* The functions for messages. *)

\* Memory holds bytes and the signatures of what was signed, no others.
Cells(pairs) == Plain \cup ((1 .. SigLen) \X {Prefix(s[1]) \o s[2] : s \in pairs})
GenuineMemory(memory, pairs) ==
  memory = [a \in Address |-> memory[a]] /\ \A a \in Address : memory[a] \in Cells(pairs)
Genuine == GenuineMemory(mem, signed) /\ signed \subseteq Contexts \X Messages

\* An array that was signed and not touched holds its message and its signature.
Kept ==
  \A given \in intact :
    /\ given \in signed /\ Len(given[1]) <= MaxCtx
    /\ smlen = SigLen + Len(given[2])
    /\ Read(mem, sm, SigLen) = Signature(Prefix(given[1]) \o given[2])
    /\ Read(mem, sm + SigLen, Len(given[2])) = given[2]

MessageInv == Genuine /\ Kept /\ AcceptedWasSigned

\* Induction over the natural numbers, for a set in the place of a predicate.
LEMMA SetInduction ==
  ASSUME NEW T, T \subseteq Nat, 0 \in T, \A n \in T : n + 1 \in T
  PROVE  Nat \subseteq T
<1> DEFINE U == Nat \ T
           I == {0 .. n : n \in U}
           W == StrictSubsetOrdering(Nat)
<1>1. SUFFICES ASSUME U # {} PROVE FALSE
  OBVIOUS
<1>2. I \subseteq FiniteSubsetsOf(Nat)
  <2>1. SUFFICES ASSUME NEW n \in U PROVE 0 .. n \in FiniteSubsetsOf(Nat)
    OBVIOUS
  <2>2. IsFiniteSet(0 .. n)
    BY FS_Interval
  <2> QED
    BY <2>2 DEF FiniteSubsetsOf
<1>3. I # {}
  BY <1>1
<1>4. IsWellFoundedOn(W, FiniteSubsetsOf(Nat))
  BY FS_StrictSubsetOrderingWellFounded
<1>5. PICK s \in I : \A r \in I : ~(<<r, s>> \in W)
  <2> HIDE DEF W, I
  <2> QED
    BY <1>2, <1>3, <1>4, WFMin
<1>6. PICK x \in U : s = 0 .. x
  OBVIOUS
<1>7. x # 0 /\ x \in Nat /\ x - 1 \in Nat
  OBVIOUS
<1>8. x - 1 \in U
  BY <1>7
<1>9. <<0 .. x - 1, s>> \in W
  BY <1>6, <1>7 DEF StrictSubsetOrdering
<1> QED
  BY <1>5, <1>8, <1>9

\* The memory in which n bytes were moved.
Moved(memory, to, from, n) ==
  [a \in Address |-> IF a \in to .. to + n - 1 THEN memory[from + (a - to)] ELSE memory[a]]

\* A loop that copies from the first byte moves what lies at the place or
\* behind it, and what does not overlap.
LEMMA CopyFromFirstMoves ==
  ASSUME NEW memory, memory = [a \in Address |-> memory[a]],
         NEW to \in Nat, NEW from \in Nat, NEW n \in Nat, MemLen \in Nat,
         to + n <= MemLen, from + n <= MemLen, to <= from \/ to >= from + n
  PROVE  CopyFromFirst(memory, to, from, n) = Moved(memory, to, from, n)
<1> DEFINE
      step(m, x) == [m EXCEPT ![to + x - 1] = m[from + x - 1]]
      loop(f) == [x \in 0 .. n |-> IF x = 0 THEN memory ELSE step(f[x - 1], x)]
      copy == CHOOSE f : f = loop(f)
      turns == [x \in 0 .. n |-> Moved(memory, to, from, x)]
<1>1. CopyFromFirst(memory, to, from, n) = copy[n]
  BY DEF CopyFromFirst
<1>2. Moved(memory, to, from, 0) = memory
  BY DEF Moved
<1>3. ASSUME NEW x \in 0 .. n, x # 0
      PROVE  step(Moved(memory, to, from, x - 1), x) = Moved(memory, to, from, x)
  <2> DEFINE m == Moved(memory, to, from, x - 1)
  <2>1. /\ from + x - 1 \in Address /\ to + x - 1 \in Address
        /\ from + x - 1 \notin to .. to + (x - 1) - 1
    BY <1>3 DEF Address
  <2>2. m[from + x - 1] = memory[from + x - 1]
    BY <2>1 DEF Moved
  <2>3. ASSUME NEW a \in Address
        PROVE  step(m, x)[a] = Moved(memory, to, from, x)[a]
    <3>1. CASE a = to + x - 1
      <4>1. step(m, x)[a] = memory[from + x - 1]
        BY <2>1, <2>2, <3>1 DEF Moved
      <4>2. a \in to .. to + x - 1 /\ from + (a - to) = from + x - 1
        BY <1>3, <3>1
      <4> QED
        BY <4>1, <4>2 DEF Moved
    <3>2. CASE a # to + x - 1
      <4>1. a \in to .. to + x - 1 <=> a \in to .. to + (x - 1) - 1
        BY <1>3, <3>2 DEF Address
      <4> QED
        BY <3>2, <4>1 DEF Moved
    <3> QED
      BY <3>1, <3>2
  <2>4. step(m, x) = [a \in Address |-> step(m, x)[a]]
    <3>1. DOMAIN m = Address
      BY DEF Moved
    <3> HIDE DEF m
    <3> QED
      BY <3>1
  <2>5. Moved(memory, to, from, x) = [a \in Address |-> Moved(memory, to, from, x)[a]]
    BY DEF Moved
  <2> HIDE DEF step, m
  <2>6. step(m, x) = Moved(memory, to, from, x)
    BY <2>3, <2>4, <2>5
  <2> QED
    BY <2>6 DEF m
<1> HIDE DEF step
<1>4. turns = loop(turns)
  BY <1>2, <1>3
<1>5. copy = loop(copy)
  <2> HIDE DEF loop, turns
  <2> QED
    BY <1>4
<1>6. ASSUME NEW x \in 0 .. n, x # 0
      PROVE  copy[x] = step(copy[x - 1], x)
  <2> HIDE DEF copy
  <2> QED
    BY <1>5, <1>6
<1>7. copy[0] = memory
  <2> HIDE DEF copy
  <2> QED
    BY <1>5
<1> HIDE DEF copy
<1> DEFINE T == {x \in Nat : x <= n => copy[x] = Moved(memory, to, from, x)}
<1>8. 0 \in T
  BY <1>2, <1>7
<1>9. ASSUME NEW x \in T PROVE x + 1 \in T
  <2>1. CASE x + 1 <= n
    <3>1. copy[x] = Moved(memory, to, from, x) /\ x + 1 \in 0 .. n /\ x + 1 # 0 /\ (x + 1) - 1 = x
      BY <2>1
    <3>2. copy[x + 1] = Moved(memory, to, from, x + 1)
      BY <1>3, <1>6, <3>1
    <3> QED
      BY <3>2
  <2> QED
    BY <2>1
<1>10. n \in T
  <2> HIDE DEF T
  <2>1. T \subseteq Nat
    BY DEF T
  <2> QED
    BY <1>8, <1>9, <2>1, SetInduction
<1> QED
  BY <1>1, <1>10
\* A loop that copies from the last byte moves what lies at the place or before
\* it, and what does not overlap.
LEMMA CopyFromLastMoves ==
  ASSUME NEW memory, memory = [a \in Address |-> memory[a]],
         NEW to \in Nat, NEW from \in Nat, NEW n \in Nat, MemLen \in Nat,
         to + n <= MemLen, from + n <= MemLen, to >= from \/ to + n <= from
  PROVE  CopyFromLast(memory, to, from, n) = Moved(memory, to, from, n)
<1> DEFINE
      Rest(x) == Moved(memory, to + (n - x), from + (n - x), x)
      step(m, x) == [m EXCEPT ![to + n - x] = m[from + n - x]]
      loop(f) == [x \in 0 .. n |-> IF x = 0 THEN memory ELSE step(f[x - 1], x)]
      copy == CHOOSE f : f = loop(f)
      turns == [x \in 0 .. n |-> Rest(x)]
<1>1. CopyFromLast(memory, to, from, n) = copy[n]
  BY DEF CopyFromLast
<1>2. Rest(0) = memory
  BY DEF Moved
<1>3. ASSUME NEW x \in 0 .. n, x # 0
      PROVE  step(Rest(x - 1), x) = Rest(x)
  <2> DEFINE m == Rest(x - 1)
  <2>1. /\ from + n - x \in Address /\ to + n - x \in Address
        /\ from + n - x \notin to + (n - (x - 1)) .. to + (n - (x - 1)) + (x - 1) - 1
    <3>1. x \in Nat /\ x >= 1 /\ x <= n
      BY <1>3
    <3>2. from + n - x \in Address /\ to + n - x \in Address
      BY <3>1 DEF Address
    <3>3. /\ to + (n - (x - 1)) = to + n - x + 1
          /\ to + (n - (x - 1)) + (x - 1) - 1 = to + n - 1
      BY <3>1
    <3>4. from + n - x < to + n - x + 1 \/ from + n - x > to + n - 1
      BY <3>1
    <3> QED
      BY <3>1, <3>2, <3>3, <3>4
  <2>2. m[from + n - x] = memory[from + n - x]
    BY <2>1 DEF Moved
  <2>3. ASSUME NEW a \in Address
        PROVE  step(m, x)[a] = Rest(x)[a]
    <3>1. CASE a = to + n - x
      <4>1. step(m, x)[a] = memory[from + n - x]
        BY <2>1, <2>2, <3>1 DEF Moved
      <4>2. /\ a \in to + (n - x) .. to + (n - x) + x - 1
            /\ from + (n - x) + (a - (to + (n - x))) = from + n - x
        BY <1>3, <3>1
      <4> QED
        BY <4>1, <4>2 DEF Moved
    <3>2. CASE a # to + n - x
      <4>1. a \in to + (n - x) .. to + (n - x) + x - 1 <=>
              a \in to + (n - (x - 1)) .. to + (n - (x - 1)) + (x - 1) - 1
        BY <1>3, <3>2 DEF Address
      <4>2. from + (n - x) + (a - (to + (n - x))) = from + (n - (x - 1)) + (a - (to + (n - (x - 1))))
        BY <1>3 DEF Address
      <4> QED
        BY <3>2, <4>1, <4>2 DEF Moved
    <3> QED
      BY <3>1, <3>2
  <2>4. step(m, x) = [a \in Address |-> step(m, x)[a]]
    <3>1. DOMAIN m = Address
      BY DEF Moved
    <3> HIDE DEF m
    <3> QED
      BY <3>1
  <2>5. Rest(x) = [a \in Address |-> Rest(x)[a]]
    BY DEF Moved
  <2> HIDE DEF step, m
  <2>6. step(m, x) = Rest(x)
    BY <2>3, <2>4, <2>5
  <2> QED
    BY <2>6 DEF m
<1> HIDE DEF step
<1>4. turns = loop(turns)
  BY <1>2, <1>3
<1>5. copy = loop(copy)
  <2> HIDE DEF loop, turns
  <2> QED
    BY <1>4
<1>6. ASSUME NEW x \in 0 .. n, x # 0
      PROVE  copy[x] = step(copy[x - 1], x)
  <2> HIDE DEF copy
  <2> QED
    BY <1>5, <1>6
<1>7. copy[0] = memory
  <2> HIDE DEF copy
  <2> QED
    BY <1>5
<1> HIDE DEF copy
<1> DEFINE T == {x \in Nat : x <= n => copy[x] = Rest(x)}
<1>8. 0 \in T
  BY <1>2, <1>7
<1>9. ASSUME NEW x \in T PROVE x + 1 \in T
  <2>1. CASE x + 1 <= n
    <3>1. copy[x] = Rest(x) /\ x + 1 \in 0 .. n /\ x + 1 # 0 /\ (x + 1) - 1 = x
      BY <2>1
    <3>2. copy[x + 1] = Rest(x + 1)
      BY <1>3, <1>6, <3>1
    <3> QED
      BY <3>2
  <2> QED
    BY <2>1
<1>10. n \in T
  <2> HIDE DEF T
  <2>1. T \subseteq Nat
    BY DEF T
  <2> QED
    BY <1>8, <1>9, <2>1, SetInduction
<1>11. Rest(n) = Moved(memory, to, from, n)
  <2>1. to + (n - n) = to /\ from + (n - n) = from
    OBVIOUS
  <2> QED
    BY <2>1
<1> QED
  BY <1>1, <1>10, <1>11

\* What is known of the parameters of the messages.
LEMMA MessageParameters ==
  /\ SigLen \in Nat /\ SigLen > 0 /\ MaxCtx \in Nat /\ MemLen \in Nat /\ Word \in Nat
  /\ \A n \in Lengths : n \in Nat /\ SigLen + n < Word /\ SigLen + n <= MemLen
  /\ \A p \in Places, n \in Lengths :
       /\ p \in Nat
       /\ p + n <= MemLen
       /\ (p <= SigLen \/ p >= SigLen + n)
  /\ \A p \in OpenPlaces, n \in Received :
       p \in Nat /\ n \in Nat /\ p + n <= MemLen /\ (p <= SigLen \/ p >= n)
  /\ \A n \in Received : n >= SigLen => n - SigLen \in Lengths
  /\ \A msg \in Messages : msg \in Seq(Plain) /\ Len(msg) \in Lengths
  /\ \A ctx \in Contexts : ctx \in Seq(Plain)
<1>1. /\ {SigLen, MaxCtx, MemLen, Word, MaxCalls} \subseteq Nat \ {0}
      /\ Messages \cup Contexts \subseteq Seq(Plain) /\ Bytes \subseteq Plain
      /\ Places \cup OpenPlaces \subseteq Nat
      /\ \A n \in Lengths : SigLen + n < Word /\ SigLen + n <= MemLen
      /\ \A p \in Places, n \in Lengths : p + n <= MemLen /\ (p <= SigLen \/ p >= SigLen + n)
      /\ \A p \in OpenPlaces, n \in Received : p + n <= MemLen /\ (p <= SigLen \/ p >= n)
  BY SignedMessageAssumption
<1>2. \A msg \in Messages : msg \in Seq(Plain) /\ Len(msg) \in Lengths
  BY <1>1 DEF Lengths
<1>3. \A n \in Lengths : n \in Nat
  BY <1>2 DEF Lengths
<1>4. \A n \in Received : n \in Nat /\ (n >= SigLen => n - SigLen \in Lengths)
  BY <1>1, <1>3 DEF Received
<1> QED
  BY <1>1, <1>2, <1>3, <1>4

\* A sequence behind another one.
LEMMA Concatenation ==
  ASSUME NEW S, NEW s \in Seq(S), NEW t \in Seq(S)
  PROVE  /\ Len(s \o t) = Len(s) + Len(t)
         /\ \A q \in 1 .. Len(s) : (s \o t)[q] = s[q]
         /\ \A q \in 1 .. Len(t) : (s \o t)[Len(s) + q] = t[q]
OBVIOUS

\* The bytes that are hashed show where the context ends.
LEMMA PrefixSeparates ==
  ASSUME NEW S, NEW c1 \in Seq(S), NEW c2 \in Seq(S), NEW m1 \in Seq(S), NEW m2 \in Seq(S),
         Prefix(c1) \o m1 = Prefix(c2) \o m2
  PROVE  c1 = c2 /\ m1 = m2
<1> DEFINE S2 == S \cup {Byte(0), Byte(Len(c1)), Byte(Len(c2))}
<1>1. /\ c1 \in Seq(S2) /\ c2 \in Seq(S2) /\ m1 \in Seq(S2) /\ m2 \in Seq(S2)
  OBVIOUS
<1> DEFINE p1 == Prefix(c1)  p2 == Prefix(c2)
<1>2. p1 \in Seq(S2) /\ p2 \in Seq(S2) /\ Len(p1) = 2 + Len(c1) /\ Len(p2) = 2 + Len(c2)
  BY <1>1 DEF Prefix
<1>3. /\ p1[2] = Byte(Len(c1)) /\ p2[2] = Byte(Len(c2))
      /\ \A q \in 1 .. Len(c1) : p1[q + 2] = c1[q]
      /\ \A q \in 1 .. Len(c2) : p2[q + 2] = c2[q]
  BY <1>1 DEF Prefix
<1>4. p1 \o m1 = p2 \o m2
  OBVIOUS
<1> HIDE DEF p1, p2, S2
<1>5. Byte(Len(c1)) = Byte(Len(c2))
  BY <1>1, <1>2, <1>3, <1>4
<1>6. Len(c1) = Len(c2) /\ Len(c1) \in Nat
  BY <1>5 DEF Byte
<1>7. \A q \in 1 .. Len(c1) : c1[q] = c2[q]
  <2> SUFFICES ASSUME NEW q \in 1 .. Len(c1) PROVE c1[q] = c2[q]
    OBVIOUS
  <2>1. q + 2 \in 1 .. Len(p1) /\ q + 2 \in 1 .. Len(p2)
    BY <1>2, <1>6
  <2>2. (p1 \o m1)[q + 2] = p1[q + 2] /\ (p2 \o m2)[q + 2] = p2[q + 2]
    BY <1>1, <1>2, <2>1
  <2> QED
    BY <1>3, <1>4, <1>6, <2>2
<1>8. Len(m1) = Len(m2) /\ Len(m1) \in Nat
  <2>1. Len(p1 \o m1) = Len(p1) + Len(m1) /\ Len(p2 \o m2) = Len(p2) + Len(m2)
    BY <1>1, <1>2, Concatenation
  <2> QED
    BY <1>1, <1>2, <1>4, <1>6, <2>1
<1>9. \A q \in 1 .. Len(m1) : m1[q] = m2[q]
  <2> SUFFICES ASSUME NEW q \in 1 .. Len(m1) PROVE m1[q] = m2[q]
    OBVIOUS
  <2>1. (p1 \o m1)[Len(p1) + q] = m1[q] /\ (p2 \o m2)[Len(p2) + q] = m2[q]
    BY <1>1, <1>2, <1>8
  <2> QED
    BY <1>2, <1>4, <1>6, <2>1
<1> QED
  BY <1>1, <1>6, <1>7, <1>8, <1>9

\* Moved bytes are read at their new place.
LEMMA ReadMoved ==
  ASSUME NEW memory, NEW to \in Nat, NEW from \in Nat, NEW n \in Nat, MemLen \in Nat,
         to + n <= MemLen, from + n <= MemLen
  PROVE  Read(Moved(memory, to, from, n), to, n) = Read(memory, from, n)
<1>1. ASSUME NEW q \in 1 .. n
      PROVE  Moved(memory, to, from, n)[to + q - 1] = memory[from + q - 1]
  <2>1. to + q - 1 \in Address /\ to + q - 1 \in to .. to + n - 1
        /\ from + (to + q - 1 - to) = from + q - 1
    BY DEF Address
  <2> QED
    BY <2>1 DEF Moved
<1> QED
  BY <1>1 DEF Read

\* What was stored is read back, as a sequence.
LEMMA ReadStored ==
  ASSUME NEW memory, NEW at \in Nat, NEW n \in Nat, NEW S, NEW s \in Seq(S), Len(s) = n,
         MemLen \in Nat, at + n <= MemLen
  PROVE  Read(Store(memory, at, s), at, n) = s
<1>1. ASSUME NEW q \in 1 .. n
      PROVE  Store(memory, at, s)[at + q - 1] = s[q]
  <2>1. at + q - 1 \in Address /\ at + q - 1 \in at .. at + Len(s) - 1 /\ at + q - 1 - at + 1 = q
    BY DEF Address
  <2> QED
    BY <2>1 DEF Store
<1>2. s = [q \in 1 .. n |-> s[q]]
  OBVIOUS
<1> QED
  BY <1>1, <1>2 DEF Read

\* What lies beside a store is read as before.
LEMMA ReadBeside ==
  ASSUME NEW memory, NEW at \in Nat, NEW s, Len(s) \in Nat, NEW from \in Nat, NEW n \in Nat,
         MemLen \in Nat, from + n <= MemLen, from + n <= at \/ at + Len(s) <= from
  PROVE  Read(Store(memory, at, s), from, n) = Read(memory, from, n)
<1>1. ASSUME NEW q \in 1 .. n
      PROVE  Store(memory, at, s)[from + q - 1] = memory[from + q - 1]
  <2>1. from + q - 1 \in Address /\ from + q - 1 \notin at .. at + Len(s) - 1
    BY DEF Address
  <2> QED
    BY <2>1 DEF Store
<1> QED
  BY <1>1 DEF Read

\* A store of bytes that memory may hold.
LEMMA GenuineStore ==
  ASSUME NEW memory, NEW pairs, NEW at \in Nat, NEW s \in Seq(Cells(pairs)),
         GenuineMemory(memory, pairs)
  PROVE  GenuineMemory(Store(memory, at, s), pairs)
<1>1. ASSUME NEW a \in Address PROVE Store(memory, at, s)[a] \in Cells(pairs)
  <2>1. CASE a \in at .. at + Len(s) - 1
    <3>1. a - at + 1 \in 1 .. Len(s)
      BY <2>1
    <3>2. s[a - at + 1] \in Cells(pairs)
      BY <3>1
    <3> QED
      BY <2>1, <3>2 DEF Store
  <2>2. CASE a \notin at .. at + Len(s) - 1
    BY <2>2 DEF Store, GenuineMemory
  <2> QED
    BY <2>1, <2>2
<1> QED
  BY <1>1 DEF GenuineMemory, Store

\* A move brings nothing that was not in memory.
LEMMA GenuineMoved ==
  ASSUME NEW memory, NEW pairs, NEW to \in Nat, NEW from \in Nat, NEW n \in Nat, MemLen \in Nat,
         from + n <= MemLen, GenuineMemory(memory, pairs)
  PROVE  GenuineMemory(Moved(memory, to, from, n), pairs)
<1>1. ASSUME NEW a \in Address PROVE Moved(memory, to, from, n)[a] \in Cells(pairs)
  <2>1. CASE a \in to .. to + n - 1
    <3>1. from + (a - to) \in Address
      BY <2>1 DEF Address
    <3> QED
      BY <2>1, <3>1 DEF Moved, GenuineMemory
  <2>2. CASE a \notin to .. to + n - 1
    BY <2>2 DEF Moved, GenuineMemory
  <2> QED
    BY <2>1, <2>2
<1> QED
  BY <1>1 DEF GenuineMemory, Moved

\* What was signed stays signed.
LEMMA GenuineMore ==
  ASSUME NEW memory, NEW pairs, NEW more, pairs \subseteq more, GenuineMemory(memory, pairs)
  PROVE  GenuineMemory(memory, more)
BY DEF GenuineMemory, Cells

\* The bytes of a signature of something that was signed.
LEMMA SignatureCells ==
  ASSUME NEW pairs, NEW ctx, NEW msg, <<ctx, msg>> \in pairs, SigLen \in Nat
  PROVE  /\ Signature(Prefix(ctx) \o msg) \in Seq(Cells(pairs))
         /\ Len(Signature(Prefix(ctx) \o msg)) = SigLen
<1> DEFINE mu == Prefix(ctx) \o msg
<1>1. ASSUME NEW q \in 1 .. SigLen PROVE <<q, mu>> \in Cells(pairs)
  <2> DEFINE s == <<ctx, msg>>
  <2>1. mu = Prefix(s[1]) \o s[2] /\ s \in pairs
    OBVIOUS
  <2> HIDE DEF mu, s
  <2> QED
    BY <2>1 DEF Cells
<1>2. Signature(mu) = [q \in 1 .. SigLen |-> <<q, mu>>]
  BY DEF Signature
<1> HIDE DEF mu
<1>3. Signature(mu) \in Seq(Cells(pairs)) /\ Len(Signature(mu)) = SigLen
  BY <1>1, <1>2
<1> QED
  BY <1>3 DEF mu

\* What verifies was signed: the cells of the signature tell the context and
\* the message.
LEMMA VerifiedWasSigned ==
  ASSUME Genuine, NEW ctx \in Contexts, NEW siglen, NEW n \in Nat, SigLen + n <= MemLen,
         crypto_sign_verify(mem, siglen, sm + SigLen, n, ctx) = 0
  PROVE  <<ctx, Read(mem, sm + SigLen, n)>> \in signed
<1> USE MessageParameters
<1> DEFINE R == Read(mem, sm + SigLen, n)
           mu == Prefix(ctx) \o R
<1>1. Read(mem, sm, SigLen) = Signature(mu)
  BY DEF crypto_sign_verify
<1>2. mem[0] = <<1, mu>>
  <2>1. Signature(mu)[1] = <<1, mu>>
    BY DEF Signature
  <2>2. Read(mem, sm, SigLen)[1] = mem[0]
    BY DEF Read, sm
  <2> QED
    BY <1>1, <2>1, <2>2
<1>3. GenuineMemory(mem, signed) /\ signed \subseteq Contexts \X Messages
  BY DEF Genuine
<1>4. <<1, mu>> \in Cells(signed)
  <2>1. 0 \in Address
    BY DEF Address
  <2> QED
    BY <1>2, <1>3, <2>1 DEF GenuineMemory
<1>5. <<1, mu>> \notin Plain
  <2> HIDE DEF mu
  <2> QED
    BY DEF Plain, Byte
<1>6. PICK s \in signed : mu = Prefix(s[1]) \o s[2]
  <2> HIDE DEF mu
  <2> QED
    BY <1>4, <1>5 DEF Cells
<1>7. PICK c2 \in Contexts, m2 \in Messages : s = <<c2, m2>>
  BY <1>3
<1>8. R \in Seq(Cells(signed))
  <2>1. ASSUME NEW q \in 1 .. n PROVE mem[sm + SigLen + q - 1] \in Cells(signed)
    <3>1. sm + SigLen + q - 1 \in Address
      BY DEF Address, sm
    <3> QED
      BY <1>3, <3>1 DEF GenuineMemory
  <2> QED
    BY <2>1 DEF Read
<1>9. /\ ctx \in Seq(Cells(signed)) /\ c2 \in Seq(Cells(signed)) /\ m2 \in Seq(Cells(signed))
  <2>1. Plain \subseteq Cells(signed)
    BY DEF Cells
  <2>2. Seq(Plain) \subseteq Seq(Cells(signed))
    BY <2>1
  <2> QED
    BY <1>7, <2>2
<1>10. ctx = c2 /\ R = m2
  <2>1. Prefix(ctx) \o R = Prefix(c2) \o m2
    BY <1>6, <1>7
  <2> DEFINE S == Cells(signed)
  <2>2. R \in Seq(S) /\ ctx \in Seq(S) /\ c2 \in Seq(S) /\ m2 \in Seq(S)
    BY <1>8, <1>9
  <2> HIDE DEF R, S
  <2> QED
    BY ONLY <2>1, <2>2, PrefixSeparates
<1> QED
  BY <1>6, <1>7, <1>10

\* crypto_sign_signature over a message that lies behind the signature.
LEMMA SignsStep ==
  ASSUME NEW memory, NEW ctx \in Contexts, NEW msg \in Messages,
         GenuineMemory(memory, signed), signed \subseteq Contexts \X Messages,
         Read(memory, sm + SigLen, Len(msg)) = msg,
         NEW r, r = crypto_sign_signature(memory, smlen, sm + SigLen, Len(msg), ctx),
         Signs(r, ctx, msg)
  PROVE  /\ Genuine'
         /\ r.ret = 0 =>
              /\ r.len = SigLen /\ Len(ctx) <= MaxCtx /\ <<ctx, msg>> \in signed'
              /\ Read(mem', sm, SigLen) = Signature(Prefix(ctx) \o msg)
              /\ Read(mem', sm + SigLen, Len(msg)) = msg
<1> USE MessageParameters
<1>1. mem' = r.mem /\ signed' = IF r.ret = 0 THEN signed \cup {<<ctx, msg>>} ELSE signed
  BY DEF Signs
<1>2. Len(msg) \in Nat /\ SigLen + Len(msg) <= MemLen
  OBVIOUS
<1>3. CASE Len(ctx) > MaxCtx
  <2>1. r.ret = -1 /\ r.mem = memory
    BY <1>3 DEF crypto_sign_signature
  <2> QED
    BY <1>1, <2>1 DEF Genuine
<1>4. CASE ~(Len(ctx) > MaxCtx)
  <2> DEFINE s == Signature(Prefix(ctx) \o msg)
             more == signed \cup {<<ctx, msg>>}
  <2>1. r.ret = 0 /\ r.len = SigLen /\ r.mem = Store(memory, sm, s)
    BY <1>4 DEF crypto_sign_signature
  <2>2. s \in Seq(Cells(more)) /\ Len(s) = SigLen
    BY SignatureCells
  <2>3. GenuineMemory(memory, more)
    BY GenuineMore
  <2> HIDE DEF s
  <2>4. GenuineMemory(Store(memory, sm, s), more)
    <3> HIDE DEF more
    <3> QED
      BY <2>2, <2>3, GenuineStore DEF sm
  <2>5. more \subseteq Contexts \X Messages
    OBVIOUS
  <2>6. Read(Store(memory, sm, s), sm, SigLen) = s
    <3> HIDE DEF more
    <3> QED
      BY <1>2, <2>2, ReadStored DEF sm
  <2>7. Read(Store(memory, sm, s), sm + SigLen, Len(msg)) = msg
    BY <1>2, <2>2, ReadBeside DEF sm
  <2>8. Len(ctx) <= MaxCtx
    <3>1. Len(ctx) \in Nat
      OBVIOUS
    <3> QED
      BY <1>4, <3>1
  <2>9. mem' = Store(memory, sm, s) /\ signed' = more
    BY <1>1, <2>1
  <2> QED
    BY <2>1, <2>4, <2>5, <2>6, <2>7, <2>8, <2>9 DEF Genuine, s
<1> QED
  BY <1>3, <1>4

\* A message that the program writes is Genuine, wherever it lies.
LEMMA WritesMessage ==
  ASSUME Genuine, NEW msg \in Messages, NEW at \in Nat
  PROVE  GenuineMemory(Store(mem, at, msg), signed)
<1>1. msg \in Seq(Plain) /\ Plain \subseteq Cells(signed)
  BY MessageParameters DEF Cells
<1>2. msg \in Seq(Cells(signed))
  BY <1>1
<1> QED
  BY <1>2, GenuineStore DEF Genuine

\* The message is written behind the place of its signature and signed there.
LEMMA sign_detached_Step ==
  ASSUME MessageInv, NEW msg \in Messages, NEW ctx \in Contexts, sign_detached(msg, ctx)
  PROVE  MessageInv' /\ did'.op = "signature"
<1> USE MessageParameters
<1> DEFINE memory == Store(mem, sm + SigLen, msg)
           r == crypto_sign_signature(memory, smlen, sm + SigLen, Len(msg), ctx)
<1>1. Signs(r, ctx, msg) /\ intact' = {} /\ did'.op = "signature"
  BY DEF sign_detached, Call
<1>2. Genuine /\ signed \subseteq Contexts \X Messages /\ sm + SigLen \in Nat
  BY DEF MessageInv, Genuine, sm
<1>3. GenuineMemory(memory, signed)
  BY <1>2, WritesMessage
<1>4. Read(memory, sm + SigLen, Len(msg)) = msg
  BY ReadStored DEF sm
<1> HIDE DEF memory
<1>5. Genuine'
  BY <1>1, <1>2, <1>3, <1>4, SignsStep
<1> QED
  BY <1>1, <1>5 DEF MessageInv, Kept, AcceptedWasSigned

\* The message is moved behind its signature first, whichever way the two
\* arrays lie.
LEMMA crypto_sign_Step ==
  ASSUME MessageInv, NEW msg \in Messages, NEW ctx \in Contexts, NEW at \in Places,
         crypto_sign(msg, ctx, at)
  PROVE  MessageInv' /\ did'.op = "sign"
<1> USE MessageParameters
<1> DEFINE written == Store(mem, at, msg)
           memory == MoveBack(written, sm + SigLen, at, Len(msg))
           r == crypto_sign_signature(memory, smlen, sm + SigLen, Len(msg), ctx)
<1>1. /\ Signs(r, ctx, msg) /\ did'.op = "sign" /\ smlen' = (r.len + Len(msg)) % Word
      /\ intact' = IF r.ret = 0 THEN {<<ctx, msg>>} ELSE {}
  BY DEF crypto_sign, Call
<1>2. Genuine /\ signed \subseteq Contexts \X Messages /\ sm + SigLen = SigLen
  BY DEF MessageInv, Genuine, sm
<1>3. /\ at \in Nat /\ Len(msg) \in Nat /\ SigLen + Len(msg) < Word /\ SigLen + Len(msg) <= MemLen
      /\ at + Len(msg) <= MemLen /\ (at <= SigLen \/ at >= SigLen + Len(msg))
  OBVIOUS
<1>4. GenuineMemory(written, signed) /\ Read(written, at, Len(msg)) = msg
  BY <1>2, <1>3, WritesMessage, ReadStored
<1>5. memory = Moved(written, SigLen, at, Len(msg))
  <2> HIDE DEF written
  <2> QED
    BY <1>2, <1>3, <1>4, CopyFromLastMoves DEF MoveBack, GenuineMemory
<1> HIDE DEF written, memory
<1>6. GenuineMemory(memory, signed) /\ Read(memory, sm + SigLen, Len(msg)) = msg
  BY <1>2, <1>3, <1>4, <1>5, GenuineMoved, ReadMoved
<1>7. /\ Genuine'
      /\ r.ret = 0 =>
           /\ r.len = SigLen /\ Len(ctx) <= MaxCtx /\ <<ctx, msg>> \in signed'
           /\ Read(mem', sm, SigLen) = Signature(Prefix(ctx) \o msg)
           /\ Read(mem', sm + SigLen, Len(msg)) = msg
  BY <1>1, <1>2, <1>6, SignsStep
<1> HIDE DEF r
<1>8. ASSUME r.ret = 0 PROVE smlen' = SigLen + Len(msg)
  <2> DEFINE len == SigLen + Len(msg)
  <2>1. len \in 0 .. Word - 1 /\ smlen' = len % Word
    <3>1. r.len = SigLen
      BY <1>7, <1>8
    <3>2. smlen' = (SigLen + Len(msg)) % Word
      BY <1>1, <3>1
    <3>3. len \in 0 .. Word - 1
      BY <1>3
    <3> QED
      BY <3>2, <3>3
  <2> HIDE DEF len
  <2>2. len % Word = len
    BY <2>1
  <2> QED
    BY <2>1, <2>2 DEF len
<1>9. Kept'
  <2>1. CASE r.ret = 0
    <3> SUFFICES ASSUME NEW given \in intact'
                 PROVE  /\ given \in signed' /\ Len(given[1]) <= MaxCtx
                        /\ smlen' = SigLen + Len(given[2])
                        /\ Read(mem', sm, SigLen) = Signature(Prefix(given[1]) \o given[2])
                        /\ Read(mem', sm + SigLen, Len(given[2])) = given[2]
      BY DEF Kept
    <3>1. given = <<ctx, msg>> /\ given[1] = ctx /\ given[2] = msg
      BY <1>1, <2>1
    <3> QED
      BY <1>7, <1>8, <2>1, <3>1
  <2>2. CASE r.ret # 0
    BY <1>1, <2>2 DEF Kept
  <2> QED
    BY <2>1, <2>2
<1> QED
  BY <1>1, <1>7, <1>9 DEF MessageInv, AcceptedWasSigned

\* Nothing is written by a verification.
LEMMA verify_detached_Step ==
  ASSUME MessageInv, NEW siglen, NEW n \in Lengths, NEW ctx \in Contexts,
         verify_detached(siglen, n, ctx)
  PROVE  MessageInv' /\ did'.op = "verify"
<1> USE MessageParameters
<1>1. /\ UNCHANGED <<mem, smlen, mlen, intact, signed>>
      /\ did'.op = "verify" /\ did'.ctx = ctx /\ did'.at = sm + SigLen /\ did'.n = n
      /\ ret' = crypto_sign_verify(mem, siglen, sm + SigLen, n, ctx)
  BY DEF verify_detached, Call
<1>2. Genuine' /\ Kept'
  BY <1>1 DEF MessageInv, Genuine, Kept
<1>3. ASSUME ret' = 0 PROVE <<ctx, Read(mem, sm + SigLen, n)>> \in signed
  BY <1>1, <1>3, VerifiedWasSigned DEF MessageInv
<1> QED
  BY <1>1, <1>2, <1>3 DEF MessageInv, AcceptedWasSigned

\* What crypto_sign_open does when the signature is good, and when it is not.
LEMMA OpenCases ==
  ASSUME MessageInv, NEW n \in Received, NEW ctx, NEW at \in OpenPlaces,
         crypto_sign_open(n, ctx, at)
  PROVE  /\ did'.op = "open" /\ did'.ctx = ctx /\ did'.at = at /\ did'.n = n
         /\ IF n >= SigLen /\ crypto_sign_verify(mem, SigLen, sm + SigLen, n - SigLen, ctx) = 0
            THEN /\ ret' = 0 /\ mlen' = n - SigLen
                 /\ mem' = Moved(mem, at, sm + SigLen, n - SigLen)
                 /\ Read(mem', at, mlen') = Read(mem, sm + SigLen, n - SigLen)
            ELSE ret' = -1 /\ mlen' = 0 /\ mem' = Store(mem, at, [q \in 1 .. n |-> Byte(0)])
<1> USE MessageParameters
<1>1. did'.op = "open" /\ did'.ctx = ctx /\ did'.at = at /\ did'.n = n
  BY DEF crypto_sign_open, Call
<1> DEFINE good == n >= SigLen /\ crypto_sign_verify(mem, SigLen, sm + SigLen, n - SigLen, ctx) = 0
<1>2. CASE good
  <2>1. ret' = 0 /\ mlen' = n - SigLen /\ mem' = CopyFromFirst(mem, at, sm + SigLen, n - SigLen)
    BY <1>2 DEF crypto_sign_open
  <2>2. n - SigLen \in Nat /\ at \in Nat /\ sm + SigLen \in Nat /\ sm + SigLen = SigLen
        /\ at + (n - SigLen) <= MemLen /\ SigLen + (n - SigLen) <= MemLen
        /\ (at <= SigLen \/ at >= SigLen + (n - SigLen))
    BY <1>2 DEF sm
  <2>3. mem = [a \in Address |-> mem[a]]
    BY DEF MessageInv, Genuine, GenuineMemory
  <2>4. mem' = Moved(mem, at, sm + SigLen, n - SigLen)
    BY <2>1, <2>2, <2>3, CopyFromFirstMoves
  <2>5. Read(mem', at, mlen') = Read(mem, sm + SigLen, n - SigLen)
    BY <2>1, <2>2, <2>4, ReadMoved
  <2> QED
    BY <1>1, <1>2, <2>1, <2>4, <2>5
<1>3. CASE ~good
  BY <1>1, <1>3 DEF crypto_sign_open, Cleared
<1> QED
  BY <1>2, <1>3

\* Opening copies a message that was signed, or writes zeros.
LEMMA crypto_sign_open_Step ==
  ASSUME MessageInv, NEW n \in Received, NEW ctx \in Contexts, NEW at \in OpenPlaces,
         crypto_sign_open(n, ctx, at)
  PROVE  MessageInv'
<1> USE MessageParameters
<1>1. UNCHANGED signed /\ intact' = {}
  BY DEF crypto_sign_open
<1>2. Genuine /\ GenuineMemory(mem, signed) /\ signed \subseteq Contexts \X Messages
  BY DEF MessageInv, Genuine
<1>3. did'.op = "open" /\ did'.ctx = ctx /\ did'.at = at
  BY OpenCases
<1>4. CASE /\ n >= SigLen /\ crypto_sign_verify(mem, SigLen, sm + SigLen, n - SigLen, ctx) = 0
           /\ ret' = 0 /\ mlen' = n - SigLen
           /\ mem' = Moved(mem, at, sm + SigLen, n - SigLen)
           /\ Read(mem', at, mlen') = Read(mem, sm + SigLen, n - SigLen)
  <2>1. n - SigLen \in Nat /\ at \in Nat /\ sm + SigLen \in Nat /\ SigLen + (n - SigLen) <= MemLen
        /\ sm + SigLen = SigLen
    BY <1>4 DEF sm
  <2>2. Genuine'
    BY <1>1, <1>2, <1>4, <2>1, GenuineMoved DEF Genuine
  <2>3. <<ctx, Read(mem, sm + SigLen, n - SigLen)>> \in signed
    BY <1>2, <1>4, <2>1, VerifiedWasSigned
  <2>4. AcceptedWasSigned'
    BY <1>1, <1>3, <1>4, <2>3 DEF AcceptedWasSigned
  <2> QED
    BY <1>1, <2>2, <2>4 DEF MessageInv, Kept
<1>5. CASE ret' = -1 /\ mem' = Store(mem, at, [q \in 1 .. n |-> Byte(0)])
  <2> DEFINE zeros == [q \in 1 .. n |-> Byte(0)]
  <2>1. Byte(0) \in Cells(signed)
    <3>1. 0 \in 0 .. Word
      OBVIOUS
    <3> QED
      BY <3>1 DEF Cells, Plain
  <2>2. zeros \in Seq(Cells(signed)) /\ at \in Nat
    BY <2>1
  <2> HIDE DEF zeros
  <2>3. GenuineMemory(Store(mem, at, zeros), signed)
    BY <1>2, <2>2, GenuineStore
  <2>4. Genuine'
    BY <1>1, <1>2, <1>5, <2>3 DEF Genuine, zeros
  <2> QED
    BY <1>1, <1>5, <2>4 DEF MessageInv, Kept, AcceptedWasSigned
<1> QED
  BY <1>4, <1>5, OpenCases

\* A byte on its way may change, but nobody can write part of a signature.
LEMMA alter_Step ==
  ASSUME MessageInv, NEW a \in Address, NEW b \in Bytes, alter(a, b)
  PROVE  MessageInv' /\ did'.op = "none"
<1>1. mem' = [mem EXCEPT ![a] = b] /\ did' = NoCall /\ intact' = {} /\ UNCHANGED signed
  BY DEF alter
<1>2. b \in Cells(signed)
  BY SignedMessageAssumption DEF Cells
<1>3. GenuineMemory(mem, signed) /\ signed \subseteq Contexts \X Messages
  BY DEF MessageInv, Genuine
<1>4. GenuineMemory([mem EXCEPT ![a] = b], signed)
  <2> DEFINE m == [mem EXCEPT ![a] = b]
  <2>1. m = [c \in Address |-> m[c]] /\ \A c \in Address : m[c] \in Cells(signed)
    BY <1>2, <1>3 DEF GenuineMemory
  <2> HIDE DEF m
  <2>2. GenuineMemory(m, signed)
    BY <2>1 DEF GenuineMemory
  <2> QED
    BY <2>2 DEF m
<1> QED
  BY <1>1, <1>3, <1>4 DEF MessageInv, Genuine, Kept, AcceptedWasSigned, NoCall

\* The first state: nothing is signed.
LEMMA MessageInit == Init => MessageInv
<1> SUFFICES ASSUME Init PROVE MessageInv
  OBVIOUS
<1>1. mem = [a \in Address |-> Junk] /\ signed = {} /\ intact = {} /\ did.op = "none"
  BY DEF Init, NoCall
<1>2. Junk \in Cells(signed)
  <2>1. Word \in 0 .. Word
    BY MessageParameters
  <2> QED
    BY <2>1 DEF Junk, Cells, Plain
<1>3. Genuine
  BY <1>1, <1>2 DEF Genuine, GenuineMemory
<1> QED
  BY <1>1, <1>3 DEF MessageInv, Kept, AcceptedWasSigned

\* Every step keeps the invariant.
LEMMA MessageStep == MessageInv /\ [Next]_vars => MessageInv'
<1> SUFFICES ASSUME MessageInv, [Next]_vars PROVE MessageInv'
  OBVIOUS
<1>1. CASE UNCHANGED vars
  BY <1>1 DEF vars, MessageInv, Genuine, Kept, AcceptedWasSigned
<1> QED
  BY <1>1, sign_detached_Step, crypto_sign_Step, verify_detached_Step, crypto_sign_open_Step,
     alter_Step
  DEF Next

\* For all parameters: nothing is opened or verified that was not signed under
\* that context, whatever was called and altered before.
THEOREM MessageAcceptedWasSigned == Spec => []AcceptedWasSigned
<1>1. MessageInv => AcceptedWasSigned
  BY DEF MessageInv
<1> QED
  BY <1>1, MessageInit, MessageStep, PTL DEF Spec

\* Opening an array that nobody touched gives the message that was signed.
LEMMA OpenReturnsMessageStep ==
  ASSUME MessageInv, Next, NEW given \in intact
  PROVE  /\ did'.op = "open" => smlen = SigLen + Len(given[2])
         /\ did'.op = "open" /\ did'.ctx = given[1] /\ did'.n = smlen =>
              ret' = 0 /\ Read(mem', did'.at, mlen') = given[2]
<1> USE MessageParameters
<1>1. /\ given \in signed /\ Len(given[1]) <= MaxCtx
      /\ smlen = SigLen + Len(given[2])
      /\ Read(mem, sm, SigLen) = Signature(Prefix(given[1]) \o given[2])
      /\ Read(mem, sm + SigLen, Len(given[2])) = given[2]
  BY DEF MessageInv, Kept
<1>2. Len(given[2]) \in Nat
  BY <1>1 DEF MessageInv, Genuine
<1>3. SUFFICES ASSUME did'.op = "open", did'.ctx = given[1], did'.n = smlen
               PROVE  ret' = 0 /\ Read(mem', did'.at, mlen') = given[2]
  BY <1>1
<1>4. PICK n \in Received, ctx \in Contexts, at \in OpenPlaces : crypto_sign_open(n, ctx, at)
  BY <1>3, sign_detached_Step, crypto_sign_Step, verify_detached_Step, alter_Step DEF Next
<1>5. did'.ctx = ctx /\ did'.at = at /\ did'.n = n
  BY <1>4, OpenCases
<1>6. n - SigLen = Len(given[2]) /\ n >= SigLen /\ ctx = given[1]
  BY <1>1, <1>2, <1>3, <1>5
<1>7. crypto_sign_verify(mem, SigLen, sm + SigLen, n - SigLen, ctx) = 0
  BY <1>1, <1>6 DEF crypto_sign_verify
<1>8. ret' = 0 /\ Read(mem', at, mlen') = Read(mem, sm + SigLen, n - SigLen)
  <2>1. IF n >= SigLen /\ crypto_sign_verify(mem, SigLen, sm + SigLen, n - SigLen, ctx) = 0
        THEN /\ ret' = 0 /\ mlen' = n - SigLen
             /\ mem' = Moved(mem, at, sm + SigLen, n - SigLen)
             /\ Read(mem', at, mlen') = Read(mem, sm + SigLen, n - SigLen)
        ELSE ret' = -1 /\ mlen' = 0 /\ mem' = Store(mem, at, [q \in 1 .. n |-> Byte(0)])
    BY <1>4, OpenCases
  <2> QED
    BY <1>6, <1>7, <2>1
<1> QED
  BY <1>1, <1>5, <1>6, <1>8

\* For all parameters: what was signed and not touched since is opened, in
\* place or elsewhere, and the message comes out.
THEOREM MessageOpenReturnsMessage == Spec => OpenReturnsMessage
<1>1. MessageInv /\ [Next]_vars =>
        [\A given \in intact :
           /\ did'.op = "open" => smlen = SigLen + Len(given[2])
           /\ did'.op = "open" /\ did'.ctx = given[1] /\ did'.n = smlen =>
                ret' = 0 /\ Read(mem', did'.at, mlen') = given[2]]_vars
  BY OpenReturnsMessageStep
<1> QED
  BY <1>1, MessageInit, MessageStep, PTL DEF Spec, OpenReturnsMessage

\* What was stored is read.
LEMMA StoreReadsBack ==
  ASSUME NEW memory, NEW s, NEW at \in Nat, NEW n \in Nat, Len(s) = n,
         MemLen \in Nat, at + n <= MemLen, NEW q \in 0 .. n - 1
  PROVE  Store(memory, at, s)[at + q] = s[q + 1]
<1>1. at + q \in Address /\ at + q \in at .. at + n - 1 /\ at + q - at + 1 = q + 1
  BY DEF Address
<1> QED
  BY <1>1 DEF Store

\* A call that is not the opening of a message says nothing about one.
LEMMA OtherCalls ==
  ASSUME did'.op # "open"
  PROVE  RejectedIsCleared'
BY DEF RejectedIsCleared

\* For all parameters: what crypto_sign_open refuses it clears, in the array
\* of the caller, which may be the one that was received.
THEOREM MessageRejectedIsCleared == Spec => []RejectedIsCleared
<1>1. Init => RejectedIsCleared
  BY DEF Init, NoCall, RejectedIsCleared
<1>2. RejectedIsCleared /\ [Next]_vars => RejectedIsCleared'
  <2> SUFFICES ASSUME RejectedIsCleared, [Next]_vars PROVE RejectedIsCleared'
    OBVIOUS
  <2>1. ASSUME NEW ctx, NEW msg, sign_detached(msg, ctx) PROVE did'.op # "open"
    BY <2>1 DEF sign_detached, Call
  <2>2. ASSUME NEW ctx, NEW msg, NEW at, crypto_sign(msg, ctx, at) PROVE did'.op # "open"
    BY <2>2 DEF crypto_sign, Call
  <2>3. ASSUME NEW ctx, NEW n, NEW siglen, verify_detached(siglen, n, ctx) PROVE did'.op # "open"
    BY <2>3 DEF verify_detached, Call
  <2>4. ASSUME NEW a, NEW b, alter(a, b) PROVE did'.op # "open"
    BY <2>4 DEF alter, NoCall
  <2>5. ASSUME NEW ctx, NEW n \in Received, NEW at \in OpenPlaces, crypto_sign_open(n, ctx, at)
        PROVE  RejectedIsCleared'
    <3>1. did'.at = at /\ did'.n = n
      BY <2>5 DEF crypto_sign_open, Call
    <3>2. CASE ret' # -1
      BY <3>2 DEF RejectedIsCleared
    <3>3. CASE ret' = -1
      <4>1. mlen' = 0 /\ mem' = Store(mem, at, [q \in 1 .. n |-> Byte(0)])
        BY <2>5, <3>3 DEF crypto_sign_open, Cleared
      <4>2. n \in Nat /\ at \in Nat /\ at + n <= MemLen /\ MemLen \in Nat
        BY MessageParameters
      <4>3. \A q \in 0 .. n - 1 : mem'[at + q] = Byte(0)
        <5> SUFFICES ASSUME NEW r \in 0 .. n - 1 PROVE mem'[at + r] = Byte(0)
          OBVIOUS
        <5> DEFINE s == [q \in 1 .. n |-> Byte(0)]
        <5>1. Len(s) = n /\ s[r + 1] = Byte(0)
          BY <4>2
        <5>2. mem' = Store(mem, at, s)
          BY <4>1
        <5> HIDE DEF s
        <5> QED
          BY <4>2, <5>1, <5>2, StoreReadsBack
      <4> QED
        BY <3>1, <4>1, <4>3 DEF RejectedIsCleared
    <3> QED
      BY <3>2, <3>3
  <2>6. CASE UNCHANGED vars
    BY <2>6 DEF vars, RejectedIsCleared
  <2> QED
    BY <2>1, <2>2, <2>3, <2>4, <2>5, <2>6, OtherCalls DEF Next
<1> QED
  BY <1>1, <1>2, PTL DEF Spec
=============================================================================
