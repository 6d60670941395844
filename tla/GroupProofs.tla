---------------------------- MODULE GroupProofs -----------------------------
(***************************************************************************)
(* That the formulas of ecdh25519/group.c are the group of the curve, in   *)
(* all coordinates, that both loops of ecdh25519/smult.c multiply, and     *)
(* that the key exchange agrees: for every field and curve with the        *)
(* structure CurveAssumption says, and scalars of any length.              *)
(***************************************************************************)
EXTENDS Ristretto, ScalarMult, FiniteSetTheorems, TLAPS

-----------------------------------------------------------------------------
(*  Residues                                                               *)

LEMMA Division ==
  ASSUME NEW n \in Nat, n > 0, NEW x \in Int
  PROVE  /\ x % n \in 0 .. n - 1 /\ x \div n \in Int
         /\ x = n * (x \div n) + (x % n)
  OBVIOUS

\* A remainder is what is left of any multiple.
LEMMA Remainder ==
  ASSUME NEW n \in Nat, n > 0, NEW x \in Int, NEW y \in Int, NEW k \in Int, x = y + n * k
  PROVE  x % n = y % n
<1> DEFINE j == x \div n
           i == y \div n
           a == x % n
           b == y % n
           m == (k + i) - j
<1>1. a \in 0 .. n - 1 /\ j \in Int /\ x = n * j + a
  BY Division
<1>2. b \in 0 .. n - 1 /\ i \in Int /\ y = n * i + b
  BY Division
<1> HIDE DEF a, b, i, j
<1>3. m \in Int /\ a - b = n * m
  <2>1. n * m = (n * k + n * i) - n * j
    BY <1>1, <1>2, SMT
  <2> QED
    BY <1>1, <1>2, <2>1
<1>4. m = 0
  <2> HIDE DEF m
  <2>1. CASE m >= 1
    <3>1. n * m >= n
      BY <1>3, <2>1, SMT
    <3> QED
      BY <1>1, <1>2, <1>3, <3>1
  <2>2. CASE m <= -1
    <3>1. n * m <= -n
      BY <1>3, <2>2, SMT
    <3> QED
      BY <1>1, <1>2, <1>3, <3>1
  <2> QED
    BY <1>3, <2>1, <2>2
<1>5. a = b
  BY <1>1, <1>2, <1>3, <1>4
<1> QED
  BY <1>5 DEF a, b

\* Congruent modulo n.
Same(n, x, y) == x \in Int /\ y \in Int /\ \E k \in Int : x = y + n * k

LEMMA SameIsEqual ==
  ASSUME NEW n \in Nat, n > 0, NEW x \in Int, NEW y \in Int
  PROVE  Same(n, x, y) <=> x % n = y % n
<1>1. ASSUME Same(n, x, y) PROVE x % n = y % n
  <2>1. PICK k \in Int : x = y + n * k
    BY <1>1 DEF Same
  <2> QED
    BY <2>1, Remainder
<1>2. ASSUME x % n = y % n PROVE Same(n, x, y)
  <2> DEFINE j == x \div n
             i == y \div n
  <2>1. /\ j \in Int /\ i \in Int /\ x % n \in Int
        /\ x = n * j + (x % n) /\ y = n * i + (x % n)
    BY <1>2, Division
  <2> HIDE DEF i, j
  <2>2. n * (j - i) = n * j - n * i
    BY <2>1, SMT
  <2>3. x = y + n * (j - i) /\ j - i \in Int
    BY <2>1, <2>2
  <2> QED
    BY <2>3, Zenon DEF Same
<1> QED
  BY <1>1, <1>2

LEMMA SameArithmetic ==
  ASSUME NEW n \in Nat, NEW x, NEW y, NEW a, NEW b, Same(n, a, x), Same(n, b, y)
  PROVE  /\ Same(n, a + b, x + y)
         /\ Same(n, a - b, x - y)
         /\ Same(n, a * b, x * y)
<1>1. x \in Int /\ y \in Int /\ a \in Int /\ b \in Int
  BY DEF Same
<1>2. PICK k \in Int, m \in Int : a = x + n * k /\ b = y + n * m
  BY DEF Same
<1> DEFINE u == x * m + k * y + k * n * m
<1>3. a + b = (x + y) + n * (k + m) /\ a - b = (x - y) + n * (k - m)
  BY <1>1, <1>2, SMT
<1>4. a * b = (x * y) + n * u
  <2>1. (x + n * k) * (y + n * m) = (x * y) + n * u
    BY <1>1, <1>2, SMT
  <2> QED
    BY <1>2, <2>1
<1>5. /\ a + b \in Int /\ x + y \in Int /\ k + m \in Int
      /\ a - b \in Int /\ x - y \in Int /\ k - m \in Int
      /\ a * b \in Int /\ x * y \in Int /\ u \in Int
  BY <1>1
<1> HIDE DEF u
<1> QED
  BY <1>3, <1>4, <1>5, Zenon DEF Same

LEMMA SameEquivalence ==
  ASSUME NEW n \in Nat, n > 0
  PROVE  /\ \A x \in Int : Same(n, x, x) /\ Same(n, x % n, x)
         /\ \A x, y : Same(n, x, y) => Same(n, y, x)
         /\ \A x, y, z : Same(n, x, y) /\ Same(n, y, z) => Same(n, x, z)
<1>1. ASSUME NEW x \in Int PROVE Same(n, x, x) /\ Same(n, x % n, x)
  <2>1. x % n \in Int /\ (x % n) % n = x % n
    BY Division
  <2> QED
    BY <2>1, SameIsEqual
<1>2. ASSUME NEW x, NEW y, Same(n, x, y) PROVE Same(n, y, x)
  <2>1. x \in Int /\ y \in Int
    BY <1>2 DEF Same
  <2>2. x % n = y % n
    BY <1>2, <2>1, SameIsEqual
  <2> QED
    BY <2>1, <2>2, SameIsEqual
<1>3. ASSUME NEW x, NEW y, NEW z, Same(n, x, y), Same(n, y, z) PROVE Same(n, x, z)
  <2>1. x \in Int /\ y \in Int /\ z \in Int
    BY <1>3 DEF Same
  <2>2. x % n = y % n /\ y % n = z % n
    BY <1>3, <2>1, SameIsEqual
  <2> QED
    BY <2>1, <2>2, SameIsEqual
<1> QED
  BY <1>1, <1>2, <1>3

\* The residue a stands for the integer x.
Is(a, x) == x \in Int /\ a = x % p

LEMMA PrimeIsPositive == p \in Nat /\ p > 0 /\ p > 4 /\ p % 2 = 1
  BY GroupAssumption

LEMMA IsResidue ==
  ASSUME NEW x \in Field
  PROVE  Is(x, x)
  BY PrimeIsPositive DEF Field, Is

LEMMA IsUnique ==
  ASSUME NEW a, NEW b, NEW x, Is(a, x), Is(b, x)
  PROVE  a = b /\ a \in Field /\ x \in Int /\ a \in Int
<1>1. x \in Int /\ a = x % p /\ b = x % p
  BY DEF Is
<1>2. x % p \in 0 .. p - 1
  BY <1>1, PrimeIsPositive, Division
<1> QED
  BY <1>1, <1>2, PrimeIsPositive DEF Field

\* The field operations compute with residues.
LEMMA IsArithmetic ==
  ASSUME NEW a, NEW b, NEW x, NEW y, Is(a, x), Is(b, y)
  PROVE  /\ Is(Mul(a, b), x * y)
         /\ Is(Add(a, b), x + y)
         /\ Is(Sub(a, b), x - y)
         /\ Is(Neg(a), - x)
<1>1. x \in Int /\ y \in Int /\ a = x % p /\ b = y % p
  BY DEF Is
<1>2. p \in Nat /\ p > 0
  BY PrimeIsPositive
<1>3. a \in Int /\ b \in Int
  BY IsUnique
<1>4. Same(p, a, x) /\ Same(p, b, y) /\ Same(p, 0, 0)
  BY <1>1, <1>2, SameEquivalence
<1>5. Same(p, a + b, x + y) /\ Same(p, a - b, x - y) /\ Same(p, a * b, x * y) /\ Same(p, 0 - a, 0 - x)
  BY <1>2, <1>4, SameArithmetic
<1>6. /\ (a + b) % p = (x + y) % p /\ (a - b) % p = (x - y) % p /\ (a * b) % p = (x * y) % p
      /\ (0 - a) % p = (0 - x) % p
  <2>1. \A t, w : Same(p, t, w) => t % p = w % p
    BY <1>2, SameIsEqual DEF Same
  <2> QED
    BY <1>5, <2>1
<1>7. /\ x * y \in Int /\ x + y \in Int /\ x - y \in Int /\ - x \in Int
      /\ 0 - a = - a /\ 0 - x = - x
  BY <1>1, <1>3
<1> QED
  BY <1>6, <1>7 DEF Is, Mul, Add, Sub, Neg

LEMMA IsConstant ==
  /\ Is(0, 0) /\ Is(1, 1) /\ Is(2, 2)
  BY PrimeIsPositive DEF Is

\* A factor that stands for 1 makes no difference.
LEMMA IsTimesOne ==
  ASSUME NEW a, NEW x, NEW u, Is(a, x), Is(1, u)
  PROVE  Is(a, u * x)
<1>1. Is(Mul(1, a), u * x)
  BY IsArithmetic, Zenon
<1>2. Is(Mul(1, a), 1 * x)
  BY IsArithmetic, IsConstant, Zenon
<1>3. x \in Int
  BY DEF Is
<1>4. 1 * x = x
  BY <1>3
<1>5. Mul(1, a) = a
  BY <1>2, <1>4, IsUnique
<1> QED
  BY <1>1, <1>5

\* CurveAssumption says that p is a prime: every other residue has a reciprocal.
LEMMA ReciprocalDivides ==
  ASSUME NEW x \in Field, x # 0
  PROVE  Reciprocal[x] \in Field /\ Mul(x, Reciprocal[x]) = 1
<1>1. \E y \in Field : Mul(x, y) = 1
  BY CurveAssumption
<1> QED
  BY <1>1 DEF Reciprocal

LEMMA NoZeroDivisors ==
  ASSUME NEW a \in Field, NEW b \in Field, a # 0, b # 0
  PROVE  Mul(a, b) # 0
<1> SUFFICES ASSUME Mul(a, b) = 0 PROVE FALSE
  OBVIOUS
<1>1. PICK i \in Field : Mul(a, i) = 1
  BY ReciprocalDivides
<1>2. Is(a, a) /\ Is(b, b) /\ Is(i, i) /\ a \in Int /\ b \in Int /\ i \in Int
  BY IsResidue, IsUnique
<1>3. Is(1, a * i) /\ Is(0, a * b)
  BY <1>1, <1>2, IsArithmetic
<1>4. Is(b, (a * i) * b)
  BY <1>2, <1>3, IsTimesOne, Zenon
<1>5. Is(Mul(0, i), (a * b) * i)
  BY <1>2, <1>3, IsArithmetic, Zenon
<1>6. (a * b) * i = (a * i) * b
  BY <1>2, SMT
<1>7. Mul(0, i) = 0
  BY <1>2, PrimeIsPositive DEF Mul
<1>8. b = Mul(0, i)
  BY <1>4, <1>5, <1>6, IsUnique
<1> QED
  BY <1>7, <1>8

-----------------------------------------------------------------------------
(*  The formulas for addition and doubling                                 *)

\* The factors of p1p1_to_p3 are the numerators n1, n2 and the denominators 1 + k,
\* 1 - k of the coordinates, times m1 and m2.
Factors(r, m1, m2, n1, n2, k, a1, a2, b1, b2, g, f) ==
  /\ m1 \in Int /\ m2 \in Int /\ n1 \in Int /\ n2 \in Int /\ k \in Int
  /\ Is(a1, m1) /\ Is(a2, m2) /\ Is(b1, n1) /\ Is(b2, n2) /\ Is(g, 1 + k) /\ Is(f, 1 - k)
  /\ a1 # 0 /\ a2 # 0 /\ g # 0 /\ f # 0
  /\ Is(r.x, m1 * n1) /\ Is(r.z, m1 * (1 + k)) /\ Is(r.t, m2 * (1 - k)) /\ Is(r.y, m2 * n2)

\* The products are then the coordinates with a common denominator.
LEMMA Quotients ==
  ASSUME NEW m1, NEW m2, NEW n1, NEW n2, NEW k, NEW a1, NEW a2, NEW b1, NEW b2, NEW g, NEW f,
         NEW r, Factors(r, m1, m2, n1, n2, k, a1, a2, b1, b2, g, f)
  PROVE  LET q == p1p1_to_p3(r) IN
         /\ q.z \in Field \ {0} /\ q.t \in Field
         /\ q.x = Mul(Mul(b1, Reciprocal[g]), q.z)
         /\ q.y = Mul(Mul(b2, Reciprocal[f]), q.z)
         /\ Mul(q.t, q.z) = Mul(q.x, q.y)
<1> DEFINE q == p1p1_to_p3(r)
           u == 1 + k
           v == 1 - k
           ex == m1 * n1
           ez == m1 * u
           et == m2 * v
           ey == m2 * n2
           i == Reciprocal[g]
           j == Reciprocal[f]
<1>0. Factors(r, m1, m2, n1, n2, k, a1, a2, b1, b2, g, f)
  OBVIOUS
<1>1. /\ m1 \in Int /\ m2 \in Int /\ n1 \in Int /\ n2 \in Int /\ u \in Int /\ v \in Int
      /\ Is(a1, m1) /\ Is(a2, m2) /\ Is(b1, n1) /\ Is(b2, n2)
      /\ a1 # 0 /\ a2 # 0 /\ g # 0 /\ f # 0
  BY <1>0 DEF Factors
<1>2. ex \in Int /\ ez \in Int /\ et \in Int /\ ey \in Int
  BY <1>1
<1>3. Is(r.x, ex) /\ Is(r.z, ez) /\ Is(r.t, et) /\ Is(r.y, ey) /\ Is(g, u) /\ Is(f, v)
  BY <1>0 DEF Factors
<1>4. g \in Field /\ f \in Field /\ a1 \in Field /\ a2 \in Field
  BY <1>1, <1>3, IsUnique
<1>5. /\ q.x = Mul(r.x, r.t) /\ q.y = Mul(r.y, r.z)
      /\ q.z = Mul(r.z, r.t) /\ q.t = Mul(r.x, r.y)
  BY DEF p1p1_to_p3, Point
<1>6. /\ i \in Field /\ Mul(g, i) = 1
      /\ j \in Field /\ Mul(f, j) = 1
  BY <1>1, <1>4, ReciprocalDivides
<1> SUFFICES /\ q.z \in Field \ {0} /\ q.t \in Field
             /\ q.x = Mul(Mul(b1, i), q.z)
             /\ q.y = Mul(Mul(b2, j), q.z)
             /\ Mul(q.t, q.z) = Mul(q.x, q.y)
  OBVIOUS
<1> HIDE DEF q, i, j, u, v
<1>7. r.z = Mul(a1, g) /\ r.t = Mul(a2, f)
  <2>1. Is(Mul(a1, g), ez) /\ Is(Mul(a2, f), et)
    BY <1>1, <1>3, IsArithmetic
  <2> QED
    BY <1>3, <2>1, IsUnique
<1>8. r.z \in Field /\ r.t \in Field /\ r.z # 0 /\ r.t # 0
  <2>1. r.z \in Field /\ r.t \in Field
    BY <1>3, IsUnique
  <2> QED
    BY <1>1, <1>4, <1>7, <2>1, NoZeroDivisors
<1>9. Is(i, i) /\ Is(j, j) /\ i \in Int /\ j \in Int
  BY <1>6, IsResidue, IsUnique
<1>10. Is(1, u * i) /\ Is(1, v * j)
  BY <1>3, <1>6, <1>9, IsArithmetic
<1> HIDE DEF ex, ez, et, ey
<1>11. Is(q.x, ex * et) /\ Is(q.y, ey * ez) /\ Is(q.z, ez * et) /\ Is(q.t, ex * ey)
  BY <1>3, <1>5, IsArithmetic
<1>12. q.z \in Field \ {0} /\ q.t \in Field
  BY <1>5, <1>8, <1>11, IsUnique, NoZeroDivisors
<1>13. Mul(q.t, q.z) = Mul(q.x, q.y)
  <2>1. /\ Is(Mul(q.t, q.z), (ex * ey) * (ez * et))
        /\ Is(Mul(q.x, q.y), (ex * et) * (ey * ez))
    BY <1>11, IsArithmetic
  <2>2. (ex * ey) * (ez * et) = (ex * et) * (ey * ez)
    BY <1>2, SMT
  <2> QED
    BY <2>1, <2>2, IsUnique
<1>14. Mul(Mul(b1, i), q.z) = q.x
  <2>1. Is(Mul(Mul(b1, i), q.z), (n1 * i) * (ez * et))
    BY <1>1, <1>9, <1>11, IsArithmetic
  <2>2. Is(q.x, (u * i) * (ex * et))
    BY <1>10, <1>11, IsTimesOne
  <2>3. (n1 * i) * ((m1 * u) * et) = (u * i) * ((m1 * n1) * et)
    BY <1>1, <1>2, <1>9, SMT
  <2>4. (n1 * i) * (ez * et) = (u * i) * (ex * et)
    BY <2>3 DEF ez, ex
  <2> QED
    BY <2>1, <2>2, <2>4, IsUnique
<1>15. Mul(Mul(b2, j), q.z) = q.y
  <2>1. Is(Mul(Mul(b2, j), q.z), (n2 * j) * (ez * et))
    BY <1>1, <1>9, <1>11, IsArithmetic
  <2>2. Is(q.y, (v * j) * (ey * ez))
    BY <1>10, <1>11, IsTimesOne
  <2>3. (n2 * j) * (ez * (m2 * v)) = (v * j) * ((m2 * n2) * ez)
    BY <1>1, <1>2, <1>9, SMT
  <2>4. (n2 * j) * (ez * et) = (v * j) * (ey * ez)
    BY <2>3 DEF et, ey
  <2> QED
    BY <2>1, <2>2, <2>4, IsUnique
<1> QED
  BY <1>12, <1>13, <1>14, <1>15

Exponents == 0 .. Order - 1

\* The coordinates of a point are those of its multiple, times z.
LEMMA Coordinates ==
  ASSUME NEW e \in Exponents, NEW q, Represents(q, e)
  PROVE  LET X == Multiples[e][1]
             Y == Multiples[e][2]
             z == q.z
         IN /\ X \in Int /\ Y \in Int /\ z \in Int /\ z \in Field /\ z # 0
            /\ Is(X, X) /\ Is(Y, Y) /\ Is(z, z)
            /\ Is(q.x, X * z) /\ Is(q.y, Y * z) /\ Is(q.t, (X * Y) * z)
            /\ q.t = Mul(Mul(X, Y), z)
<1> DEFINE X == Multiples[e][1]
           Y == Multiples[e][2]
           z == q.z
           t == q.t
           i == Reciprocal[z]
<1>1. X \in Field /\ Y \in Field
  BY CurveAssumption DEF Exponents
<1>2. /\ z \in Field /\ z # 0 /\ t \in Field
      /\ q.x = Mul(X, z) /\ q.y = Mul(Y, z) /\ Mul(t, z) = Mul(q.x, q.y)
  BY DEF Represents
<1>3. i \in Field /\ Mul(z, i) = 1
  BY <1>2, ReciprocalDivides
<1> HIDE DEF X, Y, z, t, i
<1>4. /\ Is(X, X) /\ Is(Y, Y) /\ Is(z, z) /\ Is(t, t) /\ Is(i, i)
      /\ X \in Int /\ Y \in Int /\ z \in Int /\ t \in Int /\ i \in Int
  BY <1>1, <1>2, <1>3, IsResidue, IsUnique
<1>5. Is(q.x, X * z) /\ Is(q.y, Y * z)
  BY <1>2, <1>4, IsArithmetic
<1>6. Is(1, z * i)
  BY <1>3, <1>4, IsArithmetic
<1>7. Mul(Mul(t, z), i) = t
  <2>1. Is(Mul(Mul(t, z), i), (t * z) * i)
    BY <1>4, IsArithmetic
  <2>2. Is(t, (z * i) * t)
    BY <1>4, <1>6, IsTimesOne
  <2>3. (t * z) * i = (z * i) * t
    BY <1>4, SMT
  <2> QED
    BY <2>1, <2>2, <2>3, IsUnique
<1>8. Is(t, ((X * z) * (Y * z)) * i)
  BY <1>2, <1>4, <1>5, <1>7, IsArithmetic
<1>9. Is(Mul(Mul(X, Y), z), (X * Y) * z)
  BY <1>4, IsArithmetic
<1>10. Is(Mul(Mul(X, Y), z), (z * i) * ((X * Y) * z))
  BY <1>6, <1>9, IsTimesOne
<1>11. ((X * z) * (Y * z)) * i = (z * i) * ((X * Y) * z)
  BY <1>4, SMT
<1>12. t = Mul(Mul(X, Y), z)
  BY <1>8, <1>10, <1>11, IsUnique
<1> QED
  BY <1>2, <1>4, <1>5, <1>9, <1>12 DEF X, Y, z, t

\* Twice what is not zero is not zero: p is odd.
LEMMA TwiceIs ==
  ASSUME NEW a, NEW x, Is(a, x)
  PROVE  Is(Twice(a), 2 * x) /\ (a # 0 => Twice(a) # 0)
<1>1. Is(Add(a, a), x + x) /\ Is(Mul(2, a), 2 * x) /\ x \in Int /\ a \in Field
  BY IsArithmetic, IsConstant, IsUnique
<1>2. x + x = 2 * x
  BY <1>1
<1>3. Twice(a) = Mul(2, a)
  BY <1>1, <1>2, IsUnique DEF Twice
<1>4. 2 \in Field /\ 2 # 0
  BY PrimeIsPositive DEF Field
<1> QED
  BY <1>1, <1>3, <1>4, NoZeroDivisors

LEMMA AdditionIdentities ==
  ASSUME NEW x1 \in Int, NEW y1 \in Int, NEW x2 \in Int, NEW y2 \in Int,
         NEW z \in Int, NEW w \in Int, NEW c \in Int
  PROVE  LET A == (y1 * z - x1 * z) * (y2 * w - x2 * w)
             B == (y1 * z + x1 * z) * (y2 * w + x2 * w)
             C == (((x1 * y1) * z) * ((x2 * y2) * w)) * (c + c)
             D == 2 * (z * w)
             k == c * ((x1 * x2) * (y1 * y2))
         IN /\ B - A = (2 * (z * w)) * (x1 * y2 + y1 * x2)
            /\ B + A = (2 * (z * w)) * (y1 * y2 + x1 * x2)
            /\ D + C = (2 * (z * w)) * (1 + k)
            /\ D - C = (2 * (z * w)) * (1 - k)
  BY SMT

\* group_ge_add, for any two points in any coordinates, equal ones included.
LEMMA AddRepresents ==
  ASSUME NEW e \in Exponents, NEW f \in Exponents, NEW q, NEW r,
         Represents(q, e), Represents(r, f)
  PROVE  Represents(group_ge_add(q, r), (e + f) % Order)
<1> DEFINE x1 == Multiples[e][1]
           y1 == Multiples[e][2]
           x2 == Multiples[f][1]
           y2 == Multiples[f][2]
           z == q.z
           w == r.z
           A == Mul(Sub(q.y, q.x), Sub(r.y, r.x))
           B == Mul(Add(q.y, q.x), Add(r.y, r.x))
           C == Mul(Mul(q.t, r.t), Add(d, d))
           D == Twice(Mul(q.z, r.z))
           s == [x |-> Sub(B, A), t |-> Sub(D, C), z |-> Add(D, C), y |-> Add(B, A)]
           k == d * ((x1 * x2) * (y1 * y2))
           m == 2 * (z * w)
           kr == Mul(d, Mul(Mul(x1, x2), Mul(y1, y2)))
           n1 == x1 * y2 + y1 * x2
           n2 == y1 * y2 + x1 * x2
           b1 == Add(Mul(x1, y2), Mul(y1, x2))
           b2 == Add(Mul(y1, y2), Mul(x1, x2))
           a == (y1 * z - x1 * z) * (y2 * w - x2 * w)
           b == (y1 * z + x1 * z) * (y2 * w + x2 * w)
           cc == (((x1 * y1) * z) * ((x2 * y2) * w)) * (d + d)
<1>1. /\ x1 \in Int /\ y1 \in Int /\ z \in Int /\ z \in Field /\ z # 0
      /\ Is(x1, x1) /\ Is(y1, y1) /\ Is(z, z)
      /\ Is(q.x, x1 * z) /\ Is(q.y, y1 * z) /\ Is(q.t, (x1 * y1) * z)
  BY Coordinates
<1>2. /\ x2 \in Int /\ y2 \in Int /\ w \in Int /\ w \in Field /\ w # 0
      /\ Is(x2, x2) /\ Is(y2, y2) /\ Is(w, w)
      /\ Is(r.x, x2 * w) /\ Is(r.y, y2 * w) /\ Is(r.t, (x2 * y2) * w)
  BY Coordinates
<1>3. Is(d, d) /\ d \in Int
  BY GroupAssumption, IsResidue, IsUnique
<1>4. /\ Add(1, kr) # 0 /\ Sub(1, kr) # 0
      /\ Multiples[(e + f) % Order] = <<Mul(b1, Reciprocal[Add(1, kr)]), Mul(b2, Reciprocal[Sub(1, kr)])>>
  BY CurveAssumption DEF Exponents, Complete, AffineAdd
<1>5. group_ge_add(q, r) = p1p1_to_p3(s)
  BY DEF group_ge_add
<1>6. /\ s.x = Sub(B, A) /\ s.t = Sub(D, C) /\ s.z = Add(D, C) /\ s.y = Add(B, A)
  OBVIOUS
<1> HIDE DEF x1, y1, x2, y2, z, w, s
<1>7. Is(A, a) /\ Is(B, b)
  <2>1. /\ Is(Sub(q.y, q.x), y1 * z - x1 * z) /\ Is(Sub(r.y, r.x), y2 * w - x2 * w)
        /\ Is(Add(q.y, q.x), y1 * z + x1 * z) /\ Is(Add(r.y, r.x), y2 * w + x2 * w)
    BY <1>1, <1>2, IsArithmetic
  <2> QED
    BY <2>1, IsArithmetic
<1>8. Is(C, cc)
  <2>1. Is(Mul(q.t, r.t), ((x1 * y1) * z) * ((x2 * y2) * w)) /\ Is(Add(d, d), d + d)
    BY <1>1, <1>2, <1>3, IsArithmetic
  <2> QED
    BY <2>1, IsArithmetic
<1>9. Is(D, m) /\ D # 0
  <2>1. Is(Mul(z, w), z * w) /\ Mul(z, w) # 0
    BY <1>1, <1>2, IsArithmetic, NoZeroDivisors
  <2> QED
    BY <2>1, TwiceIs DEF z, w
<1>10. Is(b1, n1) /\ Is(b2, n2)
  <2>1. /\ Is(Mul(x1, y2), x1 * y2) /\ Is(Mul(y1, x2), y1 * x2)
        /\ Is(Mul(y1, y2), y1 * y2) /\ Is(Mul(x1, x2), x1 * x2)
    BY <1>1, <1>2, IsArithmetic
  <2> QED
    BY <2>1, IsArithmetic
<1>11. Is(Add(1, kr), 1 + k) /\ Is(Sub(1, kr), 1 - k)
  <2>1. Is(Mul(x1, x2), x1 * x2) /\ Is(Mul(y1, y2), y1 * y2)
    BY <1>1, <1>2, IsArithmetic
  <2>2. Is(Mul(Mul(x1, x2), Mul(y1, y2)), (x1 * x2) * (y1 * y2))
    BY <2>1, IsArithmetic
  <2>3. Is(kr, k)
    BY <1>3, <2>2, IsArithmetic
  <2> QED
    BY <2>3, IsConstant, IsArithmetic
<1>12. b - a = m * n1 /\ b + a = m * n2 /\ m + cc = m * (1 + k) /\ m - cc = m * (1 - k)
  BY <1>1, <1>2, <1>3, AdditionIdentities
<1> HIDE DEF A, B, C, D, a, b, cc
<1>13. Is(Sub(B, A), b - a) /\ Is(Add(B, A), b + a) /\ Is(Add(D, C), m + cc) /\ Is(Sub(D, C), m - cc)
  BY <1>7, <1>8, <1>9, IsArithmetic
<1>14. Is(s.x, m * n1) /\ Is(s.y, m * n2) /\ Is(s.z, m * (1 + k)) /\ Is(s.t, m * (1 - k))
  BY <1>6, <1>12, <1>13
<1>15. m \in Int /\ n1 \in Int /\ n2 \in Int /\ k \in Int
  BY <1>1, <1>2, <1>3
<1> HIDE DEF m, n1, n2, k, kr, b1, b2
<1>16. Factors(s, m, m, n1, n2, k, D, D, b1, b2, Add(1, kr), Sub(1, kr))
  BY <1>4, <1>9, <1>10, <1>11, <1>14, <1>15 DEF Factors
<1>17. LET o == p1p1_to_p3(s) IN
       /\ o.z \in Field \ {0} /\ o.t \in Field
       /\ o.x = Mul(Mul(b1, Reciprocal[Add(1, kr)]), o.z)
       /\ o.y = Mul(Mul(b2, Reciprocal[Sub(1, kr)]), o.z)
       /\ Mul(o.t, o.z) = Mul(o.x, o.y)
  BY <1>16, Quotients
<1> QED
  BY <1>4, <1>5, <1>17 DEF Represents

LEMMA DoublingIdentities ==
  ASSUME NEW x \in Int, NEW y \in Int, NEW z \in Int
  PROVE  LET A == (x * z) * (x * z)
             B == (y * z) * (y * z)
             C == 2 * (z * z)
             s == (x * z + y * z) * (x * z + y * z)
         IN /\ (s - A) - B = (z * z) * (x * y + y * x)
            /\ (- A) + B = (z * z) * (y * y - x * x)
            /\ ((- A) + B) - C = (- (z * z)) * (2 - (y * y - x * x))
            /\ (- A) - B = (- (z * z)) * (y * y + x * x)
  BY SMT

LEMMA NegativeNotZero ==
  ASSUME NEW a \in Field, a # 0
  PROVE  Neg(a) # 0
<1>1. p \in Nat /\ p > 0 /\ a \in Int /\ p - a \in Int /\ - a \in Int /\ p - a \in 1 .. p - 1
  BY PrimeIsPositive DEF Field
<1>2. Same(p, p - a, - a)
  <2>1. p - a = (- a) + p * 1 /\ 1 \in Int
    BY <1>1
  <2> QED
    BY <1>1, <2>1, Zenon DEF Same
<1>3. (p - a) % p = (- a) % p
  BY <1>1, <1>2, SameIsEqual
<1>4. (p - a) % p = p - a
  BY <1>1
<1> QED
  BY <1>1, <1>3, <1>4 DEF Neg

\* group_ge_double, in any coordinates.
LEMMA DoubleRepresents ==
  ASSUME NEW e \in Exponents, NEW q, Represents(q, e)
  PROVE  Represents(group_ge_double(q), (2 * e) % Order)
<1> DEFINE x == Multiples[e][1]
           y == Multiples[e][2]
           z == q.z
           A == Square(q.x)
           B == Square(q.y)
           C == Twice(Square(q.z))
           G == Add(Neg(A), B)
           s == [x |-> Sub(Sub(Square(Add(q.x, q.y)), A), B), z |-> G, t |-> Sub(G, C), y |-> Sub(Neg(A), B)]
           v == Sub(Mul(y, y), Mul(x, x))
           k == d * ((x * x) * (y * y))
           kr == Mul(d, Mul(Mul(x, x), Mul(y, y)))
           m1 == z * z
           m2 == - (z * z)
           n1 == x * y + y * x
           n2 == y * y + x * x
           a1 == Mul(z, z)
           a2 == Neg(a1)
           b1 == Add(Mul(x, y), Mul(y, x))
           b2 == Add(Mul(y, y), Mul(x, x))
           a == (x * z) * (x * z)
           b == (y * z) * (y * z)
           c == 2 * (z * z)
           t == (x * z + y * z) * (x * z + y * z)
<1>1. /\ x \in Int /\ y \in Int /\ z \in Int /\ z \in Field /\ z # 0
      /\ Is(x, x) /\ Is(y, y) /\ Is(z, z) /\ Is(q.x, x * z) /\ Is(q.y, y * z)
  BY Coordinates
<1>2. Is(d, d) /\ d \in Int
  BY GroupAssumption, IsResidue, IsUnique
<1>3. e + e = 2 * e
  BY DEF Exponents
<1>4. /\ Add(1, kr) # 0 /\ Sub(1, kr) # 0
      /\ Multiples[(2 * e) % Order] = <<Mul(b1, Reciprocal[Add(1, kr)]), Mul(b2, Reciprocal[Sub(1, kr)])>>
      /\ v = Add(1, kr)
  BY <1>3, CurveAssumption DEF Exponents, Complete, AffineAdd, OnCurve, Square
<1>5. group_ge_double(q) = p1p1_to_p3(s)
  BY DEF group_ge_double
<1>6. /\ s.x = Sub(Sub(Square(Add(q.x, q.y)), A), B) /\ s.z = G
      /\ s.t = Sub(G, C) /\ s.y = Sub(Neg(A), B)
  OBVIOUS
<1> HIDE DEF x, y, z, s
<1>7. /\ Is(Mul(x, x), x * x) /\ Is(Mul(y, y), y * y) /\ Is(a1, m1)
      /\ Is(Mul(x, y), x * y) /\ Is(Mul(y, x), y * x)
  BY <1>1, IsArithmetic
<1>8. Is(b1, n1) /\ Is(b2, n2) /\ Is(v, y * y - x * x)
  BY <1>7, IsArithmetic
<1>9. Is(Add(1, kr), 1 + k) /\ Is(Sub(1, kr), 1 - k) /\ 1 - k = 2 - (1 + k) /\ k \in Int
  <2>1. Is(Mul(Mul(x, x), Mul(y, y)), (x * x) * (y * y))
    BY <1>7, IsArithmetic
  <2>2. Is(kr, k)
    BY <1>2, <2>1, IsArithmetic
  <2>3. k \in Int
    BY <1>1, <1>2
  <2> HIDE DEF k
  <2>4. 1 - k = 2 - (1 + k)
    BY <2>3
  <2> QED
    BY <2>2, <2>3, <2>4, IsConstant, IsArithmetic
<1>10. /\ a1 # 0 /\ a2 # 0 /\ Is(a2, m2)
  <2>1. a1 # 0 /\ a1 \in Field
    BY <1>1, <1>7, NoZeroDivisors, IsUnique
  <2> QED
    BY <1>7, <2>1, NegativeNotZero, IsArithmetic
<1>11. /\ (t - a) - b = m1 * n1
       /\ (- a) + b = m1 * (y * y - x * x)
       /\ ((- a) + b) - c = m2 * (2 - (y * y - x * x))
       /\ (- a) - b = m2 * n2
  BY <1>1, DoublingIdentities
<1>12. Is(A, a) /\ Is(B, b) /\ Is(C, c) /\ Is(Square(Add(q.x, q.y)), t)
  <2>1. Is(Add(q.x, q.y), x * z + y * z) /\ Is(Square(z), z * z)
    BY <1>1, IsArithmetic DEF Square
  <2> QED
    BY <1>1, <2>1, IsArithmetic, TwiceIs DEF Square, z
<1> HIDE DEF A, B, C, a, b, c, t
<1>13. Is(Neg(A), - a)
  BY <1>12, IsArithmetic
<1>14. Is(G, (- a) + b) /\ Is(s.y, (- a) - b) /\ Is(s.x, (t - a) - b)
  <2>1. Is(Sub(Square(Add(q.x, q.y)), A), t - a)
    BY <1>12, IsArithmetic
  <2> QED
    BY <1>6, <1>12, <1>13, <2>1, IsArithmetic
<1> HIDE DEF G
<1>15. Is(s.t, ((- a) + b) - c)
  BY <1>6, <1>12, <1>14, IsArithmetic
<1>16. Is(s.z, m1 * (1 + k))
  <2>1. Is(s.z, m1 * (y * y - x * x))
    BY <1>6, <1>11, <1>14
  <2>2. Is(Mul(a1, v), m1 * (y * y - x * x)) /\ Is(Mul(a1, v), m1 * (1 + k))
    BY <1>4, <1>7, <1>8, <1>9, IsArithmetic
  <2>3. s.z = Mul(a1, v)
    BY <2>1, <2>2, IsUnique
  <2> QED
    BY <2>2, <2>3
<1>17. Is(s.t, m2 * (1 - k))
  <2>1. Is(s.t, m2 * (2 - (y * y - x * x)))
    BY <1>11, <1>15
  <2>2. Is(Sub(2, v), 2 - (y * y - x * x)) /\ Is(Sub(2, v), 2 - (1 + k))
    BY <1>4, <1>8, <1>9, IsConstant, IsArithmetic
  <2>3. Is(Mul(a2, Sub(2, v)), m2 * (2 - (y * y - x * x))) /\ Is(Mul(a2, Sub(2, v)), m2 * (2 - (1 + k)))
    BY <1>10, <2>2, IsArithmetic
  <2>4. s.t = Mul(a2, Sub(2, v))
    BY <2>1, <2>3, IsUnique
  <2> QED
    BY <1>9, <2>3, <2>4
<1>18. m1 \in Int /\ m2 \in Int /\ n1 \in Int /\ n2 \in Int
  BY <1>1
<1>19. Is(s.x, m1 * n1) /\ Is(s.y, m2 * n2)
  BY <1>11, <1>14
<1> HIDE DEF m1, m2, n1, n2, k, kr, a1, a2, b1, b2
<1>20. Factors(s, m1, m2, n1, n2, k, a1, a2, b1, b2, Add(1, kr), Sub(1, kr))
  BY <1>4, <1>7, <1>8, <1>9, <1>10, <1>16, <1>17, <1>18, <1>19 DEF Factors
<1>21. LET o == p1p1_to_p3(s) IN
       /\ o.z \in Field \ {0} /\ o.t \in Field
       /\ o.x = Mul(Mul(b1, Reciprocal[Add(1, kr)]), o.z)
       /\ o.y = Mul(Mul(b2, Reciprocal[Sub(1, kr)]), o.z)
       /\ Mul(o.t, o.z) = Mul(o.x, o.y)
  BY <1>20, Quotients
<1> QED
  BY <1>4, <1>5, <1>21 DEF Represents

\* The exponents of points.
LEMMA Orders ==
  /\ Order \in Nat /\ Order > 8 /\ Order % 2 = 0
  /\ \A x \in Int : x % Order \in Exponents
  /\ \A x \in Int : x % 2 = 0 => x % Order \in Even
  /\ Even \subseteq Exponents
<1>1. Prime \in Nat /\ Prime > 1 /\ Order = 8 * Prime
  BY CurveAssumption DEF Order
<1>2. Order \in Nat /\ Order > 8 /\ Order % 2 = 0 /\ Order > 0
  BY <1>1
<1>3. ASSUME NEW x \in Int PROVE x % Order \in Exponents /\ (x % 2 = 0 => x % Order \in Even)
  <2> DEFINE m == x % Order
             k == x \div Order
  <2>1. m \in 0 .. Order - 1 /\ k \in Int /\ x = Order * k + m
    BY <1>2, Division
  <2>2. Order * k = 8 * (Prime * k) /\ Prime * k \in Int
    BY <1>1, <2>1, SMT
  <2> HIDE DEF m, k
  <2> DEFINE u == Prime * k
  <2>3. u \in Int /\ x = 8 * u + m /\ m \in Int
    BY <1>2, <2>1, <2>2
  <2> HIDE DEF u
  <2>4. x % 2 = 0 => m % 2 = 0
    BY <2>3
  <2> QED
    BY <2>1, <2>4 DEF Exponents, Even, m
<1> QED
  BY <1>2, <1>3 DEF Even, Exponents

\* The points the code starts from.
LEMMA RepresentativeRepresents ==
  ASSUME NEW e \in Exponents, NEW z \in Field, z # 0
  PROVE  Represents(Representative(e, z), e)
<1> DEFINE x == Multiples[e][1]
           y == Multiples[e][2]
           t == Mul(Mul(x, y), z)
<1>1. x \in Field /\ y \in Field
  BY CurveAssumption DEF Exponents
<1> HIDE DEF x, y
<1>2. Is(x, x) /\ Is(y, y) /\ Is(z, z) /\ x \in Int /\ y \in Int /\ z \in Int
  BY <1>1, IsResidue, IsUnique
<1>3. Is(Mul(x, y), x * y) /\ Is(t, (x * y) * z) /\ Is(Mul(x, z), x * z) /\ Is(Mul(y, z), y * z)
  BY <1>2, IsArithmetic
<1>4. Mul(t, z) = Mul(Mul(x, z), Mul(y, z)) /\ t \in Field
  <2>1. Is(Mul(t, z), ((x * y) * z) * z) /\ Is(Mul(Mul(x, z), Mul(y, z)), (x * z) * (y * z))
    BY <1>2, <1>3, IsArithmetic
  <2>2. ((x * y) * z) * z = (x * z) * (y * z)
    BY <1>2, SMT
  <2> QED
    BY <1>3, <2>1, <2>2, IsUnique
<1> QED
  BY <1>4 DEF Represents, Representative, Point, x, y

LEMMA NeutralRepresents == Represents(group_ge_neutral, 0)
<1>1. 0 \in Field /\ 1 \in Field /\ 1 # 0
  BY PrimeIsPositive DEF Field
<1>2. Multiples[0] = <<0, 1>>
  BY CurveAssumption
<1>3. Mul(0, 1) = 0 /\ Mul(1, 1) = 1
  BY PrimeIsPositive DEF Mul
<1> QED
  BY <1>1, <1>2, <1>3 DEF Represents, group_ge_neutral, Point

LEMMA BaseRepresents == BaseExponent \in Exponents /\ Represents(group_ge_base, BaseExponent)
<1>1. BaseExponent \in Exponents
  BY Orders DEF BaseExponent, Exponents
<1>2. 1 \in Field /\ 1 # 0
  BY PrimeIsPositive DEF Field
<1> QED
  BY <1>1, <1>2, RepresentativeRepresents DEF group_ge_base

-----------------------------------------------------------------------------
(*  Recursive functions on 0 .. n                                          *)

\* Induction over a set of naturals.
LEMMA SetInduction ==
  ASSUME NEW T, T \subseteq Nat, 0 \in T, \A n \in T : n + 1 \in T
  PROVE  Nat \subseteq T
<1> DEFINE U == Nat \ T
           I == {0 .. n : n \in U}
           W == StrictSubsetOrdering(Nat)
<1>1. SUFFICES ASSUME U # {} PROVE FALSE
  OBVIOUS
<1>2. I \subseteq FiniteSubsetsOf(Nat)
  <2>1. SUFFICES ASSUME NEW n \in U PROVE 0 .. n \in FiniteSubsetsOf(Nat)
    OBVIOUS
  <2>2. IsFiniteSet(0 .. n)
    BY FS_Interval
  <2> QED
    BY <2>2 DEF FiniteSubsetsOf
<1>3. I # {}
  BY <1>1
<1>4. IsWellFoundedOn(W, FiniteSubsetsOf(Nat))
  BY FS_StrictSubsetOrderingWellFounded
<1>5. PICK s \in I : \A r \in I : ~(<<r, s>> \in W)
  <2> HIDE DEF W, I
  <2> QED
    BY <1>2, <1>3, <1>4, WFMin
<1>6. PICK x \in U : s = 0 .. x
  OBVIOUS
<1>7. x # 0 /\ x \in Nat /\ x - 1 \in Nat
  OBVIOUS
<1>8. x - 1 \in U
  BY <1>7
<1>9. <<0 .. x - 1, s>> \in W
  BY <1>6, <1>7 DEF StrictSubsetOrdering
<1> QED
  BY <1>5, <1>8, <1>9

\* What holds of the first value and is passed on holds of all of them.
LEMMA ChainIsTyped ==
  ASSUME NEW n \in Nat, NEW S, NEW f, f[0] \in S,
         \A i \in 1 .. n : f[i - 1] \in S => f[i] \in S
  PROVE  \A i \in 0 .. n : f[i] \in S
<1> DEFINE T == {i \in Nat : i <= n => f[i] \in S}
<1>1. 0 \in T /\ T \subseteq Nat
  OBVIOUS
<1>2. ASSUME NEW i \in T PROVE i + 1 \in T
  <2> SUFFICES ASSUME i + 1 <= n PROVE f[i + 1] \in S
    OBVIOUS
  <2>1. i + 1 \in 1 .. n /\ (i + 1) - 1 = i /\ f[i] \in S
    OBVIOUS
  <2> QED
    BY <2>1
<1>3. Nat \subseteq T
  <2> HIDE DEF T
  <2> QED
    BY <1>1, <1>2, SetInduction
<1> QED
  BY <1>3

IsChain(f, n, S, start, step) ==
  /\ f \in [0 .. n -> S]
  /\ f = [i \in 0 .. n |-> IF i = 0 THEN start ELSE step[<<i, f[i - 1]>>]]

LEMMA ChainExists ==
  ASSUME NEW n \in Nat, NEW S, NEW start \in S, NEW step \in [(0 .. n) \X S -> S]
  PROVE  \E f : IsChain(f, n, S, start, step)
<1> DEFINE Upto(f, m) == /\ f \in [0 .. m -> S] /\ f[0] = start
                         /\ \A i \in 1 .. m : f[i] = step[<<i, f[i - 1]>>]
           T == {m \in Nat : m <= n => \E f : Upto(f, m)}
<1>1. 0 \in T /\ T \subseteq Nat
  <2>1. Upto([i \in 0 .. 0 |-> start], 0)
    OBVIOUS
  <2> QED
    BY <2>1
<1>2. ASSUME NEW m \in T PROVE m + 1 \in T
  <2> SUFFICES ASSUME m + 1 <= n PROVE \E f : Upto(f, m + 1)
    OBVIOUS
  <2>1. PICK f : Upto(f, m)
    OBVIOUS
  <2> DEFINE v == step[<<m + 1, f[m]>>]
             g == [i \in 0 .. m + 1 |-> IF i <= m THEN f[i] ELSE v]
  <2>2. v \in S
    BY <2>1
  <2>3. g \in [0 .. m + 1 -> S] /\ g[0] = start
    BY <2>1, <2>2
  <2>4. ASSUME NEW i \in 1 .. m + 1 PROVE g[i] = step[<<i, g[i - 1]>>]
    <3>1. CASE i <= m
      <4>1. g[i] = f[i] /\ g[i - 1] = f[i - 1] /\ i \in 1 .. m
        BY <3>1
      <4> QED
        BY <2>1, <4>1
    <3>2. CASE i = m + 1
      <4>1. g[i] = v /\ g[i - 1] = f[m]
        BY <3>2
      <4> QED
        BY <3>2, <4>1
    <3> QED
      BY <3>1, <3>2
  <2> QED
    BY <2>3, <2>4
<1>3. n \in T
  <2> HIDE DEF T
  <2> QED
    BY <1>1, <1>2, SetInduction
<1>4. PICK f : Upto(f, n)
  BY <1>3
<1>5. ASSUME NEW i \in 0 .. n PROVE f[i] = IF i = 0 THEN start ELSE step[<<i, f[i - 1]>>]
  BY <1>4
<1> QED
  BY <1>4, <1>5 DEF IsChain

LEMMA PowerIsResidue ==
  ASSUME NEW x \in Field, NEW e \in Nat
  PROVE  Pow(x, e) \in Field
<1> DEFINE loop(g) == [k \in 0 .. e |-> IF k = 0 THEN 1 ELSE Mul(x, g[k - 1])]
           f == CHOOSE g : g = loop(g)
           step == [t \in (0 .. e) \X Field |-> Mul(x, t[2])]
<1>1. ASSUME NEW a \in Field PROVE Mul(x, a) \in Field
  <2>1. Is(Mul(x, a), x * a)
    BY IsResidue, IsArithmetic
  <2> QED
    BY <2>1, IsUnique
<1>2. 1 \in Field
  BY PrimeIsPositive DEF Field
<1>3. step \in [(0 .. e) \X Field -> Field]
  BY <1>1
<1>4. PICK h : IsChain(h, e, Field, 1, step)
  <2> HIDE DEF step
  <2> QED
    BY <1>2, <1>3, ChainExists
<1>5. h = loop(h)
  <2>1. ASSUME NEW k \in 0 .. e PROVE h[k] = loop(h)[k]
    <3>1. CASE k = 0
      BY <1>4, <3>1 DEF IsChain
    <3>2. CASE k # 0
      <4>0. k - 1 \in 0 .. e
        BY <3>2
      <4>1. h[k - 1] \in Field /\ h[k] = step[<<k, h[k - 1]>>]
        <5> HIDE DEF step
        <5> QED
          BY <1>4, <3>2, <4>0 DEF IsChain
      <4> QED
        BY <3>2, <4>0, <4>1
    <3> QED
      BY <3>1, <3>2
  <2>2. h = [k \in 0 .. e |-> h[k]]
    BY <1>4 DEF IsChain
  <2> QED
    BY <2>1, <2>2
<1>6. f = loop(f)
  BY <1>5
<1>7. Pow(x, e) = f[e]
  BY DEF Pow
<1> HIDE DEF f
<1>8. f[0] \in Field /\ \A k \in 1 .. e : f[k - 1] \in Field => f[k] \in Field
  BY <1>1, <1>2, <1>6
<1>9. f[e] \in Field
  BY <1>8, ChainIsTyped
<1> QED
  BY <1>7, <1>9

-----------------------------------------------------------------------------
(*  Unpacking                                                              *)

LEMMA RootIsResidue ==
  ASSUME NEW x \in Field
  PROVE  fe25519_invsqrt(x) \in Field
<1>1. (p - 5) \div 8 \in Nat /\ 7 \in Nat /\ 3 \in Nat
  BY PrimeIsPositive
<1>2. ASSUME NEW a \in Field, NEW b \in Field PROVE Mul(a, b) \in Field
  <2>1. Is(Mul(a, b), a * b)
    BY IsResidue, IsArithmetic
  <2> QED
    BY <2>1, IsUnique
<1>3. Pow(x, 7) \in Field /\ Pow(x, 3) \in Field
  BY <1>1, PowerIsResidue
<1>4. Pow(Pow(x, 7), (p - 5) \div 8) \in Field
  BY <1>1, <1>3, PowerIsResidue
<1>5. sqrtm1 \in Field
  BY GroupAssumption
<1> QED
  BY <1>2, <1>3, <1>4, <1>5 DEF fe25519_invsqrt, fe25519_pow2523

\* w can be cancelled if something times w is 1.
LEMMA Cancel ==
  ASSUME NEW a \in Field, NEW b \in Field, NEW w \in Field, NEW i \in Field,
         Mul(i, w) = 1, Mul(a, w) = Mul(b, w)
  PROVE  a = b
<1>1. /\ Is(a, a) /\ Is(b, b) /\ Is(w, w) /\ Is(i, i)
      /\ a \in Int /\ b \in Int /\ w \in Int /\ i \in Int
  BY IsResidue, IsUnique
<1>2. Is(1, i * w)
  BY <1>1, IsArithmetic
<1>3. Is(a, (i * w) * a) /\ Is(b, (i * w) * b)
  BY <1>1, <1>2, IsTimesOne
<1>4. Is(Mul(a, w), a * w) /\ Is(Mul(b, w), b * w)
  BY <1>1, IsArithmetic
<1>5. Is(Mul(Mul(a, w), i), (a * w) * i) /\ Is(Mul(Mul(b, w), i), (b * w) * i)
  BY <1>1, <1>4, IsArithmetic
<1>6. (a * w) * i = (i * w) * a /\ (b * w) * i = (i * w) * b
  BY <1>1, SMT
<1>7. Mul(Mul(a, w), i) = a /\ Mul(Mul(b, w), i) = b
  BY <1>3, <1>5, <1>6, IsUnique
<1> QED
  BY <1>7

LEMMA PositiveSquare ==
  ASSUME NEW a \in Field
  PROVE  Positive(a) \in Field /\ Square(Positive(a)) = Square(a)
<1>1. Is(a, a) /\ a \in Int
  BY IsResidue, IsUnique
<1>2. Is(Neg(a), - a) /\ Is(Mul(Neg(a), Neg(a)), (- a) * (- a)) /\ Is(Mul(a, a), a * a)
  BY <1>1, IsArithmetic
<1>3. (- a) * (- a) = a * a
  BY <1>1, SMT
<1>4. Mul(Neg(a), Neg(a)) = Mul(a, a) /\ Neg(a) \in Field
  BY <1>2, <1>3, IsUnique
<1> QED
  BY <1>4 DEF Positive, Square

\* The point that the formulas of group_ge_unpack give when the root they take is
\* one: y = (1 - s^2) / (1 + s^2) and x^2 = 4 s^2 / xden2.
LEMMA DecodedPoint ==
  ASSUME NEW s \in Field, NEW i \in Field, NEW w \in Field, NEW u \in Field, NEW n \in Field,
         u = Add(1, Square(s)), n = Sub(1, Square(s)),
         w = Neg(Add(Mul(d, Square(n)), Square(u))),
         Mul(Square(i), Mul(w, Square(u))) = 1,
         NEW x, NEW y,
         x = Positive(Twice(Mul(s, Mul(i, u)))), y = Mul(n, Mul(Mul(Mul(i, u), i), w))
  PROVE  /\ x \in Field /\ y \in Field
         /\ Mul(y, u) = n
         /\ OnCurve(<<x, y>>)
<1> DEFINE x0 == Twice(Mul(s, Mul(i, u)))
           e == (i * i) * (w * (u * u))
           q == s * s
           uu == 1 + q
           nn == 1 - q
           ww == - (d * (nn * nn) + uu * uu)
           L == Sub(Square(y), Square(x))
           R == Add(1, Mul(d, Mul(Square(x), Square(y))))
           W == Mul(w, Square(u))
<1>1. /\ Is(s, s) /\ Is(i, i) /\ Is(w, w) /\ Is(u, u) /\ Is(n, n) /\ Is(d, d)
      /\ s \in Int /\ i \in Int /\ w \in Int /\ u \in Int /\ n \in Int /\ d \in Int
  BY GroupAssumption, IsResidue, IsUnique
<1>2. q \in Int /\ uu \in Int /\ nn \in Int /\ ww \in Int
  BY <1>1
<1>3. Is(1, e)
  <2>1. Is(Square(i), i * i) /\ Is(Mul(w, Square(u)), w * (u * u))
    BY <1>1, IsArithmetic DEF Square
  <2>2. Is(Mul(Square(i), Mul(w, Square(u))), e)
    BY <2>1, IsArithmetic
  <2> QED
    BY <2>2
<1>4. Is(u, uu) /\ Is(n, nn) /\ Is(Square(s), q)
  <2>1. Is(Square(s), q)
    BY <1>1, IsArithmetic DEF Square
  <2> QED
    BY <2>1, IsConstant, IsArithmetic
<1> HIDE DEF uu, nn
<1>5. Is(w, ww)
  <2>1. Is(Square(n), nn * nn) /\ Is(Square(u), uu * uu)
    BY <1>4, IsArithmetic DEF Square
  <2>2. Is(Add(Mul(d, Square(n)), Square(u)), d * (nn * nn) + uu * uu)
    BY <1>1, <2>1, IsArithmetic
  <2> QED
    BY <2>2, IsArithmetic
<1>6. Is(y, n * (((i * u) * i) * w)) /\ y \in Field
  <2>1. Is(Mul(Mul(Mul(i, u), i), w), ((i * u) * i) * w)
    BY <1>1, IsArithmetic
  <2>2. Is(y, n * (((i * u) * i) * w))
    BY <1>1, <2>1, IsArithmetic
  <2> QED
    BY <2>2, IsUnique
<1>7. Is(x0, 2 * (s * (i * u))) /\ x0 \in Field
  <2>1. Is(Mul(s, Mul(i, u)), s * (i * u))
    BY <1>1, IsArithmetic
  <2>2. Is(x0, 2 * (s * (i * u)))
    BY <2>1, TwiceIs
  <2> QED
    BY <2>2, IsUnique
<1>8. x = Positive(x0)
  OBVIOUS
<1> HIDE DEF x0
<1>9. x \in Field /\ Square(x) = Square(x0)
  BY <1>7, <1>8, PositiveSquare
<1>10. Is(x, x) /\ Is(y, y) /\ x \in Int /\ y \in Int
  BY <1>6, <1>9, IsResidue, IsUnique
<1>11. Mul(y, u) = n
  <2>1. Is(Mul(y, u), (n * (((i * u) * i) * w)) * u)
    BY <1>1, <1>6, IsArithmetic
  <2>2. Is(n, e * n)
    BY <1>1, <1>3, IsTimesOne
  <2>3. (n * (((i * u) * i) * w)) * u = e * n
    BY <1>1, SMT
  <2> QED
    BY <2>1, <2>2, <2>3, IsUnique
<1>12. Is(Mul(Square(x), w), 4 * q)
  <2> DEFINE v == 2 * (s * (i * u))
  <2>1. Is(Square(x), v * v)
    BY <1>7, <1>9, IsArithmetic DEF Square
  <2>2. Is(Mul(Square(x), w), (v * v) * w)
    BY <1>1, <2>1, IsArithmetic
  <2>3. Is(Twice(Twice(Square(s))), 2 * (2 * q))
    BY <1>4, TwiceIs
  <2>4. Is(Twice(Twice(Square(s))), e * (2 * (2 * q)))
    BY <1>3, <2>3, IsTimesOne
  <2>5. (v * v) * w = e * (2 * (2 * q))
    BY <1>1, SMT
  <2>6. Mul(Square(x), w) = Twice(Twice(Square(s)))
    BY <2>2, <2>4, <2>5, IsUnique
  <2>7. 2 * (2 * q) = 4 * q
    BY <1>2
  <2> QED
    BY <2>3, <2>6, <2>7
<1>13. Is(Square(x), x * x) /\ Is(Square(y), y * y) /\ Is(Square(u), u * u)
  BY <1>1, <1>10, IsArithmetic DEF Square
<1>14. Is(W, w * (u * u)) /\ W \in Field
  <2>1. Is(W, w * (u * u))
    BY <1>1, <1>13, IsArithmetic
  <2> QED
    BY <2>1, IsUnique
<1>15. /\ Is(L, y * y - x * x) /\ L \in Field
       /\ Is(R, 1 + d * ((x * x) * (y * y))) /\ R \in Field
  <2>1. Is(L, y * y - x * x)
    BY <1>13, IsArithmetic
  <2>2. Is(Mul(Square(x), Square(y)), (x * x) * (y * y))
    BY <1>13, IsArithmetic
  <2>3. Is(Mul(d, Mul(Square(x), Square(y))), d * ((x * x) * (y * y)))
    BY <1>1, <2>2, IsArithmetic
  <2>4. Is(R, 1 + d * ((x * x) * (y * y)))
    BY <2>3, IsConstant, IsArithmetic
  <2> QED
    BY <2>1, <2>4, IsUnique
<1> HIDE DEF e, L, R, W
<1> DEFINE a == Mul(Square(x), w)
           b == Square(Mul(y, u))
           xw == (x * x) * w
           yu == (y * u) * (y * u)
<1>16. Is(a, xw) /\ Is(b, yu) /\ Is(a, 4 * q) /\ Is(b, nn * nn)
  <2>1. Is(Mul(y, u), y * u)
    BY <1>1, <1>10, IsArithmetic
  <2> QED
    BY <1>1, <1>4, <1>11, <1>12, <1>13, <2>1, IsArithmetic DEF Square
<1> HIDE DEF a, b, q
<1>17. Is(Mul(L, W), (nn * nn) * ww - (4 * q) * (uu * uu))
  <2> DEFINE h == Sub(Mul(b, w), Mul(a, Square(u)))
  <2>1. Is(Mul(b, w), yu * w) /\ Is(Mul(a, Square(u)), xw * (u * u))
    BY <1>1, <1>13, <1>16, IsArithmetic
  <2>2. Is(h, yu * w - xw * (u * u))
    BY <2>1, IsArithmetic
  <2>3. Is(Mul(L, W), (y * y - x * x) * (w * (u * u)))
    BY <1>14, <1>15, IsArithmetic
  <2>4. yu * w - xw * (u * u) = (y * y - x * x) * (w * (u * u))
    BY <1>1, <1>10, SMT
  <2>5. h = Mul(L, W)
    BY <2>2, <2>3, <2>4, IsUnique
  <2>6. Is(Square(u), uu * uu)
    BY <1>4, IsArithmetic DEF Square
  <2>7. Is(Mul(b, w), (nn * nn) * ww) /\ Is(Mul(a, Square(u)), (4 * q) * (uu * uu))
    BY <1>5, <1>16, <2>6, IsArithmetic
  <2>8. Is(h, (nn * nn) * ww - (4 * q) * (uu * uu))
    BY <2>7, IsArithmetic
  <2> QED
    BY <2>5, <2>8
<1>18. Is(Mul(R, W), ww * (uu * uu) + d * ((4 * q) * (nn * nn)))
  <2> DEFINE h == Add(W, Mul(d, Mul(a, b)))
  <2>1. Is(Mul(a, b), xw * yu) /\ Is(Mul(a, b), (4 * q) * (nn * nn))
    BY <1>16, IsArithmetic
  <2>2. Is(Mul(d, Mul(a, b)), d * (xw * yu)) /\ Is(Mul(d, Mul(a, b)), d * ((4 * q) * (nn * nn)))
    BY <1>1, <2>1, IsArithmetic
  <2>3. Is(h, w * (u * u) + d * (xw * yu))
    BY <1>14, <2>2, IsArithmetic
  <2>4. Is(Mul(R, W), (1 + d * ((x * x) * (y * y))) * (w * (u * u)))
    BY <1>14, <1>15, IsArithmetic
  <2>5. w * (u * u) + d * (xw * yu) = (1 + d * ((x * x) * (y * y))) * (w * (u * u))
    BY <1>1, <1>10, SMT
  <2>6. h = Mul(R, W)
    BY <2>3, <2>4, <2>5, IsUnique
  <2>7. Is(Square(u), uu * uu)
    BY <1>4, IsArithmetic DEF Square
  <2>8. Is(W, ww * (uu * uu))
    BY <1>5, <2>7, IsArithmetic DEF W
  <2>9. Is(h, ww * (uu * uu) + d * ((4 * q) * (nn * nn)))
    BY <2>2, <2>8, IsArithmetic
  <2> QED
    BY <2>6, <2>9
<1>19. (nn * nn) * ww - (4 * q) * (uu * uu) = ww * (uu * uu) + d * ((4 * q) * (nn * nn))
  BY <1>1, <1>2, SMT DEF nn, uu
<1>20. Mul(L, W) = Mul(R, W)
  BY <1>17, <1>18, <1>19, IsUnique
<1>21. Mul(Square(i), W) = 1 /\ Square(i) \in Field
  <2>1. Is(Square(i), i * i)
    BY <1>1, IsArithmetic DEF Square
  <2> QED
    BY <2>1, IsUnique DEF W
<1>22. L = R
  BY <1>14, <1>15, <1>20, <1>21, Cancel
<1> QED
  BY <1>6, <1>9, <1>11, <1>22 DEF OnCurve, L, R

\* A point whose y is (1 - s^2) / (1 + s^2) is an even multiple.
LEMMA EvenOfRoot ==
  ASSUME NEW s \in Field, NEW y \in Field, Mul(y, Add(1, Square(s))) = Sub(1, Square(s))
  PROVE  \E w \in Field : Square(w) = Sub(1, Square(y))
<1> DEFINE u == Add(1, Square(s))
           n == Sub(1, Square(s))
           r == Reciprocal[u]
           uu == 1 + s * s
           nn == 1 - s * s
           w == Mul(Twice(s), r)
<1>1. Is(s, s) /\ Is(y, y) /\ s \in Int /\ y \in Int
  BY IsResidue, IsUnique
<1>2. Is(u, uu) /\ Is(n, nn)
  <2>1. Is(Square(s), s * s)
    BY <1>1, IsArithmetic DEF Square
  <2> QED
    BY <2>1, IsConstant, IsArithmetic
<1>3. u \in Field /\ n \in Field /\ Mul(y, u) = n /\ uu \in Int /\ nn \in Int
  BY <1>1, <1>2, IsUnique
<1> HIDE DEF u, n
<1>4. u # 0
  <2>1. SUFFICES ASSUME u = 0 PROVE FALSE
    OBVIOUS
  <2>2. n = 0
    BY <1>1, <1>3, <2>1, PrimeIsPositive DEF Mul
  <2>3. Is(Add(u, n), uu + nn)
    <3> HIDE DEF uu, nn
    <3> QED
      BY <1>2, IsArithmetic
  <2>4. uu + nn = 2
    BY <1>1
  <2>5. Add(u, n) = 2
    BY <2>3, <2>4, IsConstant, IsUnique
  <2>6. Add(u, n) = 0
    BY <2>1, <2>2, PrimeIsPositive DEF Add
  <2> QED
    BY <2>5, <2>6
<1>5. r \in Field /\ Mul(u, r) = 1
  BY <1>3, <1>4, ReciprocalDivides
<1> HIDE DEF r
<1>6. Is(r, r) /\ r \in Int
  BY <1>5, IsResidue, IsUnique
<1> HIDE DEF uu, nn
<1>7. Is(1, uu * r)
  BY <1>2, <1>5, <1>6, IsArithmetic
<1>8. Is(y, nn * r)
  <2>1. Is(Mul(n, r), nn * r) /\ Is(Mul(n, r), (y * uu) * r)
    <3>1. Is(Mul(y, u), y * uu)
      BY <1>1, <1>2, IsArithmetic
    <3>2. Is(n, y * uu)
      BY <1>3, <3>1
    <3> QED
      BY <1>2, <1>6, <3>2, IsArithmetic
  <2>2. Is(y, (uu * r) * y)
    BY <1>1, <1>7, IsTimesOne
  <2>3. (y * uu) * r = (uu * r) * y
    BY <1>1, <1>3, <1>6, SMT
  <2>4. y = Mul(n, r)
    BY <2>1, <2>2, <2>3, IsUnique
  <2> QED
    BY <2>1, <2>4
<1>9. Is(Sub(1, Square(y)), (uu * r) * (uu * r) - (nn * r) * (nn * r))
  <2>1. Is(Mul(1, 1), (uu * r) * (uu * r)) /\ Is(Square(y), (nn * r) * (nn * r))
    BY <1>7, <1>8, IsArithmetic DEF Square
  <2>2. Mul(1, 1) = 1
    BY PrimeIsPositive DEF Mul
  <2> QED
    BY <2>1, <2>2, IsArithmetic
<1>10. Is(w, (2 * s) * r) /\ w \in Field
  <2>1. Is(Twice(s), 2 * s)
    BY <1>1, TwiceIs
  <2>2. Is(w, (2 * s) * r)
    BY <1>6, <2>1, IsArithmetic
  <2> QED
    BY <2>2, IsUnique
<1> HIDE DEF w
<1>11. Is(Square(w), ((2 * s) * r) * ((2 * s) * r))
  BY <1>10, IsArithmetic DEF Square
<1>12. ((2 * s) * r) * ((2 * s) * r) = (uu * r) * (uu * r) - (nn * r) * (nn * r)
  <2>1. (uu + nn) * (uu - nn) = 4 * (s * s)
    <3>1. uu + nn = 2 /\ uu - nn = 2 * (s * s)
      BY <1>1 DEF uu, nn
    <3> QED
      BY <1>1, <3>1
  <2>2. (uu * r) * (uu * r) - (nn * r) * (nn * r) = ((uu + nn) * (uu - nn)) * (r * r)
    BY <1>3, <1>6, SMT
  <2>3. ((2 * s) * r) * ((2 * s) * r) = (4 * (s * s)) * (r * r)
    BY <1>1, <1>6, SMT
  <2> QED
    BY <2>1, <2>2, <2>3
<1>13. Square(w) = Sub(1, Square(y))
  BY <1>9, <1>11, <1>12, IsUnique
<1> QED
  BY <1>10, <1>13

\* group_ge_unpack: a string that is not rejected gives an even multiple of Gen.
LEMMA UnpackRepresents ==
  ASSUME NEW st \in Nat, group_ge_unpack(st).ret = 0
  PROVE  \E e \in Even : Represents(group_ge_unpack(st).point, e)
<1> DEFINE s == st % p
           u == Add(1, Square(s))
           n == Sub(1, Square(s))
           w == Neg(Add(Mul(d, Square(n)), Square(u)))
           t == Mul(w, Square(u))
           i == fe25519_invsqrt(t)
           x == Positive(Twice(Mul(s, Mul(i, u))))
           y == Mul(n, Mul(Mul(Mul(i, u), i), w))
<1>1. s \in Field
  BY PrimeIsPositive, Division DEF Field
<1>2. /\ ~Rejects(s, i, t, Mul(x, y), y)
      /\ group_ge_unpack(st).point = Point(x, y, 1, Mul(x, y))
  BY DEF group_ge_unpack
<1>3. Mul(Square(i), t) = 1
  BY <1>2 DEF Rejects
<1> HIDE DEF s
<1>4. Is(s, s) /\ Is(Square(s), s * s) /\ s \in Int
  BY <1>1, IsResidue, IsArithmetic, IsUnique DEF Square
<1>5. Is(u, 1 + s * s) /\ Is(n, 1 - s * s)
  BY <1>4, IsConstant, IsArithmetic
<1>6. u \in Field /\ n \in Field
  BY <1>5, IsUnique
<1> HIDE DEF u, n
<1>7. w \in Field /\ t \in Field
  <2>1. Is(u, u) /\ Is(n, n) /\ Is(d, d)
    BY <1>6, GroupAssumption, IsResidue
  <2>2. Is(w, - (d * (n * n) + u * u))
    BY <2>1, IsArithmetic DEF Square
  <2>3. Is(t, (- (d * (n * n) + u * u)) * (u * u))
    BY <2>1, <2>2, IsArithmetic DEF Square
  <2> QED
    BY <2>2, <2>3, IsUnique
<1>8. i \in Field
  BY <1>7, RootIsResidue
<1>9. Mul(Square(i), Mul(w, Square(u))) = 1
  BY <1>3
<1> HIDE DEF i
<1>10. x \in Field /\ y \in Field /\ Mul(y, u) = n /\ OnCurve(<<x, y>>)
  <2>1. u = Add(1, Square(s)) /\ n = Sub(1, Square(s))
    BY DEF u, n
  <2> QED
    BY <1>1, <1>6, <1>7, <1>8, <1>9, <2>1, DecodedPoint
<1> HIDE DEF x, y
<1>11. PICK e \in 0 .. Order - 1 : Multiples[e] = <<x, y>>
  BY <1>10, CurveAssumption
<1>12. e \in Even
  <2>1. Mul(Multiples[e][2], Add(1, Square(s))) = Sub(1, Square(s))
    BY <1>10, <1>11 DEF u, n
  <2>2. \E v \in Field : Square(v) = Sub(1, Square(Multiples[e][2]))
    BY <1>1, <1>10, <1>11, <2>1, EvenOfRoot
  <2>3. e % 2 = 0
    BY <2>2, CurveAssumption
  <2> QED
    BY <2>3 DEF Even
<1>13. Is(x, x) /\ Is(y, y) /\ Is(Mul(x, y), x * y) /\ x \in Int /\ y \in Int
  BY <1>10, IsResidue, IsArithmetic, IsUnique
<1>14. 1 \in Field /\ 1 # 0 /\ Mul(x, y) \in Field
  BY <1>13, PrimeIsPositive, IsUnique DEF Field
<1>15. \A a \in Field : Mul(a, 1) = a
  BY PrimeIsPositive DEF Mul, Field
<1>16. Represents(Point(x, y, 1, Mul(x, y)), e)
  BY <1>10, <1>11, <1>14, <1>15 DEF Represents, Point
<1> QED
  BY <1>2, <1>12, <1>16

-----------------------------------------------------------------------------
(*  The operations of group.h, one at a time                               *)

PointsOfField == [x : Field, y : Field, z : Field, t : Field]

LEMMA FieldIsClosed ==
  ASSUME NEW a \in Field, NEW b \in Field
  PROVE  /\ Mul(a, b) \in Field /\ Add(a, b) \in Field /\ Sub(a, b) \in Field
         /\ Neg(a) \in Field /\ Square(a) \in Field /\ Twice(a) \in Field
<1>1. Is(a, a) /\ Is(b, b)
  BY IsResidue
<1>2. /\ Is(Mul(a, b), a * b) /\ Is(Add(a, b), a + b) /\ Is(Sub(a, b), a - b)
      /\ Is(Neg(a), - a) /\ Is(Mul(a, a), a * a) /\ Is(Add(a, a), a + a)
  BY <1>1, IsArithmetic
<1> QED
  BY <1>2, IsUnique DEF Square, Twice

LEMMA PointIsOfField ==
  ASSUME NEW e \in Exponents, NEW q, Represents(q, e)
  PROVE  q.x \in Field /\ q.y \in Field /\ q.z \in Field /\ q.t \in Field
<1>1. Is(q.x, Multiples[e][1] * q.z) /\ Is(q.y, Multiples[e][2] * q.z)
  BY Coordinates
<1> QED
  BY <1>1, IsUnique DEF Represents

\* The formulas give a record of four residues, whatever four they are given.
LEMMA FormulasAreClosed ==
  ASSUME NEW q \in PointsOfField, NEW r \in PointsOfField
  PROVE  group_ge_add(q, r) \in PointsOfField /\ group_ge_double(q) \in PointsOfField
<1>1. /\ q.x \in Field /\ q.y \in Field /\ q.z \in Field /\ q.t \in Field
      /\ r.x \in Field /\ r.y \in Field /\ r.z \in Field /\ r.t \in Field /\ d \in Field
  BY GroupAssumption DEF PointsOfField
<1>2. ASSUME NEW s, s.x \in Field, s.y \in Field, s.z \in Field, s.t \in Field
      PROVE  p1p1_to_p3(s) \in PointsOfField
  BY <1>2, FieldIsClosed DEF p1p1_to_p3, Point, PointsOfField
<1>3. group_ge_add(q, r) \in PointsOfField
  <2> DEFINE A == Mul(Sub(q.y, q.x), Sub(r.y, r.x))
             B == Mul(Add(q.y, q.x), Add(r.y, r.x))
             C == Mul(Mul(q.t, r.t), Add(d, d))
             D == Twice(Mul(q.z, r.z))
             s == [x |-> Sub(B, A), t |-> Sub(D, C), z |-> Add(D, C), y |-> Add(B, A)]
  <2>1. A \in Field /\ B \in Field /\ C \in Field /\ D \in Field
    <3>1. /\ Sub(q.y, q.x) \in Field /\ Sub(r.y, r.x) \in Field /\ Add(q.y, q.x) \in Field
          /\ Add(r.y, r.x) \in Field /\ Mul(q.t, r.t) \in Field /\ Add(d, d) \in Field
          /\ Mul(q.z, r.z) \in Field
      BY <1>1, FieldIsClosed
    <3> QED
      BY <3>1, FieldIsClosed
  <2>2. group_ge_add(q, r) = p1p1_to_p3(s)
    BY DEF group_ge_add
  <2> HIDE DEF A, B, C, D
  <2>3. s.x \in Field /\ s.y \in Field /\ s.z \in Field /\ s.t \in Field
    BY <2>1, FieldIsClosed
  <2> HIDE DEF s
  <2> QED
    BY <1>2, <2>2, <2>3
<1>4. group_ge_double(q) \in PointsOfField
  <2> DEFINE A == Square(q.x)
             B == Square(q.y)
             C == Twice(Square(q.z))
             G == Add(Neg(A), B)
             T == Square(Add(q.x, q.y))
             s == [x |-> Sub(Sub(T, A), B), z |-> G, t |-> Sub(G, C), y |-> Sub(Neg(A), B)]
  <2>1. A \in Field /\ B \in Field /\ C \in Field /\ T \in Field
    <3>1. Square(q.z) \in Field /\ Add(q.x, q.y) \in Field
      BY <1>1, FieldIsClosed
    <3> QED
      BY <1>1, <3>1, FieldIsClosed
  <2>2. group_ge_double(q) = p1p1_to_p3(s)
    BY DEF group_ge_double
  <2> HIDE DEF A, B, C, T
  <2>3. Neg(A) \in Field /\ Sub(T, A) \in Field
    BY <2>1, FieldIsClosed
  <2>4. G \in Field
    BY <2>1, <2>3, FieldIsClosed
  <2> HIDE DEF G
  <2>5. s.x \in Field /\ s.y \in Field /\ s.z \in Field /\ s.t \in Field
    BY <2>1, <2>3, <2>4, FieldIsClosed
  <2> HIDE DEF s
  <2> QED
    BY <1>2, <2>2, <2>5
<1> QED
  BY <1>3, <1>4

LEMMA PackIsResidue ==
  ASSUME NEW e \in Exponents, NEW q, Represents(q, e)
  PROVE  group_ge_pack(q) \in Field
<1> DEFINE u1 == Mul(Sub(q.z, q.y), Add(q.z, q.y))
           u2 == Mul(q.x, q.y)
           isr == fe25519_invsqrt(Mul(Square(u2), u1))
           i1 == Mul(isr, u1)
           i2 == Mul(isr, u2)
           zinv == Mul(Mul(i1, i2), q.t)
           rotate == Rotate(Mul(zinv, q.t))
           nx == IF rotate THEN Mul(q.y, sqrtm1) ELSE q.x
           ny == IF rotate THEN Mul(q.x, sqrtm1) ELSE q.y
           deninv == IF rotate THEN Mul(magic, i1) ELSE i2
           y == IF isnegative(Mul(nx, zinv)) THEN Neg(ny) ELSE ny
<1>1. q.x \in Field /\ q.y \in Field /\ q.z \in Field /\ q.t \in Field
  BY PointIsOfField
<1>2. sqrtm1 \in Field /\ magic \in Field
  BY GroupAssumption
<1>3. u1 \in Field /\ u2 \in Field
  <2>1. Sub(q.z, q.y) \in Field /\ Add(q.z, q.y) \in Field
    BY <1>1, FieldIsClosed
  <2> QED
    BY <1>1, <2>1, FieldIsClosed
<1>4. group_ge_pack(q) = Positive(Mul(Sub(q.z, y), deninv))
  BY DEF group_ge_pack
<1> HIDE DEF u1, u2
<1>5. isr \in Field
  <2>1. Square(u2) \in Field
    BY <1>3, FieldIsClosed
  <2>2. Mul(Square(u2), u1) \in Field
    BY <1>3, <2>1, FieldIsClosed
  <2> QED
    BY <2>2, RootIsResidue
<1> HIDE DEF isr
<1>6. i1 \in Field /\ i2 \in Field
  BY <1>3, <1>5, FieldIsClosed
<1> HIDE DEF i1, i2, rotate
<1>7. ny \in Field /\ deninv \in Field
  BY <1>1, <1>2, <1>6, FieldIsClosed
<1> HIDE DEF ny, nx, zinv, deninv
<1>8. y \in Field
  BY <1>7, FieldIsClosed
<1> HIDE DEF y
<1>9. Mul(Sub(q.z, y), deninv) \in Field
  <2>1. Sub(q.z, y) \in Field
    BY <1>1, <1>8, FieldIsClosed
  <2> QED
    BY <1>7, <2>1, FieldIsClosed
<1> QED
  BY <1>4, <1>9, PositiveSquare

LEMMA EvenSums ==
  ASSUME NEW e \in Even, NEW f \in Even
  PROVE  (e + f) % Order \in Even /\ (2 * e) % Order \in Even
<1>1. e \in Int /\ f \in Int /\ (e + f) % 2 = 0 /\ (2 * e) % 2 = 0
  BY DEF Even
<1>2. e + f \in Int /\ 2 * e \in Int
  BY <1>1
<1> QED
  BY <1>1, <1>2, Orders

-----------------------------------------------------------------------------
(*  Equations modulo p                                                     *)

\* Multiples of p.
Zero(x) == x \in Int /\ \E k \in Int : x = p * k

\* What follows from two equations by adding multiples of them.
LEMMA ZeroCombines ==
  ASSUME NEW a, NEW b, Zero(a), Zero(b), NEW c \in Int, NEW e \in Int
  PROVE  Zero(c * a + e * b)
<1>1. PICK k \in Int, m \in Int : a = p * k /\ b = p * m
  BY DEF Zero
<1>2. p \in Int /\ a \in Int /\ b \in Int
  BY PrimeIsPositive DEF Zero
<1>3. c * (p * k) + e * (p * m) = p * (c * k + e * m)
  BY <1>2, SMT
<1>4. c * a + e * b \in Int /\ c * k + e * m \in Int
  BY <1>2
<1> QED
  BY <1>1, <1>3, <1>4, Zenon DEF Zero

LEMMA ZeroTimes ==
  ASSUME NEW a, Zero(a), NEW c \in Int
  PROVE  Zero(c * a)
<1>1. Zero(c * a + 0 * a)
  <2>1. 0 \in Int
    OBVIOUS
  <2> QED
    BY <2>1, ZeroCombines, Zenon
<1>2. c * a + 0 * a = c * a
  BY DEF Zero
<1> QED
  BY <1>1, <1>2

\* Residues are the same exactly if their integers differ by a multiple of p.
LEMMA IsSame ==
  ASSUME NEW a, NEW b, NEW x, NEW y, Is(a, x), Is(b, y)
  PROVE  a = b <=> Zero(x - y)
<1>1. x \in Int /\ y \in Int /\ a = x % p /\ b = y % p
  BY DEF Is
<1>2. p \in Nat /\ p > 0 /\ p \in Int
  BY PrimeIsPositive
<1>3. a = b <=> Same(p, x, y)
  BY <1>1, <1>2, SameIsEqual
<1>4. Zero(x - y) <=> \E k \in Int : x = y + p * k
  <2>1. ASSUME NEW k \in Int PROVE x - y = p * k <=> x = y + p * k
    <3>1. p * k \in Int
      BY <1>2
    <3> HIDE DEF Zero
    <3> DEFINE m == p * k
    <3> HIDE DEF m
    <3>2. m \in Int
      BY <3>1 DEF m
    <3>3. x - y = m <=> x = y + m
      BY <1>1, <3>2
    <3> QED
      BY <3>3 DEF m
  <2>2. x - y \in Int
    BY <1>1
  <2> QED
    BY <2>1, <2>2 DEF Zero
<1> QED
  BY <1>1, <1>3, <1>4 DEF Same

\* p is a prime.
LEMMA ZeroFactor ==
  ASSUME NEW x \in Int, NEW y \in Int, Zero(x * y)
  PROVE  Zero(x) \/ Zero(y)
<1> DEFINE a == x % p
           b == y % p
<1>1. Is(a, x) /\ Is(b, y) /\ Is(0, 0)
  BY IsConstant DEF Is
<1> HIDE DEF a, b
<1>2. a \in Field /\ b \in Field /\ Is(Mul(a, b), x * y)
  BY <1>1, IsUnique, IsArithmetic
<1>3. x - 0 = x /\ y - 0 = y /\ (x * y) - 0 = x * y
  OBVIOUS
<1>4. Mul(a, b) = 0
  <2>1. Zero((x * y) - 0)
    BY <1>3
  <2> HIDE DEF Zero
  <2>2. Mul(a, b) = 0 <=> Zero((x * y) - 0)
    BY <1>1, <1>2, IsSame
  <2> QED
    BY <2>1, <2>2
<1>5. a = 0 \/ b = 0
  BY <1>2, <1>4, NoZeroDivisors
<1>6. (a = 0 <=> Zero(x - 0)) /\ (b = 0 <=> Zero(y - 0))
  BY <1>1, IsSame
<1> QED
  BY <1>3, <1>5, <1>6

LEMMA ZeroOfField ==
  ASSUME NEW a \in Field
  PROVE  Is(a, a) /\ a \in Int /\ (Zero(a) <=> a = 0)
<1>1. Is(a, a) /\ Is(0, 0) /\ a \in Int
  BY IsResidue, IsConstant, IsUnique
<1>2. a = 0 <=> Zero(a - 0)
  BY <1>1, IsSame
<1>3. a - 0 = a
  BY <1>1
<1> QED
  BY <1>1, <1>2, <1>3

\* 1 and 2 are not 0.
LEMMA NotZero == ~Zero(1) /\ ~Zero(2) /\ ~Zero(-2)
<1>1. 1 \in Field /\ 2 \in Field
  BY PrimeIsPositive DEF Field
<1>2. ~Zero(1) /\ ~Zero(2)
  BY <1>1, ZeroOfField
<1>3. ASSUME Zero(-2) PROVE Zero(2)
  <2>1. PICK k \in Int : -2 = p * k
    BY <1>3 DEF Zero
  <2>2. 2 = p * (- k) /\ - k \in Int
    BY <2>1, PrimeIsPositive
  <2> QED
    BY <2>2 DEF Zero
<1> QED
  BY <1>2, <1>3

\* The equations that the constants satisfy.
LEMMA ConstantsSatisfy ==
  /\ sqrtm1 \in Field /\ magic \in Field /\ d \in Field
  /\ sqrtm1 \in Int /\ magic \in Int /\ d \in Int
  /\ Zero(sqrtm1 * sqrtm1 + 1)
  /\ Zero((magic * magic) * (1 + d) + 1)
<1>1. /\ sqrtm1 \in Field /\ magic \in Field /\ d \in Field
      /\ sqrtm1 \in Int /\ magic \in Int /\ d \in Int
  BY GroupAssumption, ZeroOfField
<1>2. p \in Nat /\ p > 0
  BY PrimeIsPositive
<1>3. ASSUME NEW x \in Int, x % p = 0 PROVE Zero(x)
  <2>1. x \div p \in Int /\ x = p * (x \div p) + (x % p)
    BY <1>2, Division
  <2> DEFINE k == x \div p
  <2> HIDE DEF k
  <2>2. x = p * k
    BY <1>2, <1>3, <2>1 DEF k
  <2> QED
    BY <2>1, <2>2 DEF Zero, k
<1> DEFINE x == sqrtm1 * sqrtm1 + 1
           y == magic * magic * (1 + d) + 1
<1>4. x \in Int /\ y \in Int /\ x % p = 0 /\ y % p = 0
  BY <1>1, GroupAssumption
<1>5. y = (magic * magic) * (1 + d) + 1
  OBVIOUS
<1> HIDE DEF x, y
<1>6. Zero(x) /\ Zero(y)
  BY <1>3, <1>4
<1> QED
  BY <1>1, <1>5, <1>6 DEF x

-----------------------------------------------------------------------------
(*  Square roots                                                           *)

\* f holds the first powers of x.
HoldsPowers(f, n, x) == f = [k \in 0 .. n |-> IF k = 0 THEN 1 ELSE Mul(x, f[k - 1])]

LEMMA PowersAgree ==
  ASSUME NEW m \in Nat, NEW n \in Nat, NEW x, NEW f, NEW g,
         HoldsPowers(f, m, x), HoldsPowers(g, n, x)
  PROVE  \A k \in Nat : k <= m /\ k <= n => f[k] = g[k]
<1> DEFINE T == {k \in Nat : k <= m /\ k <= n => f[k] = g[k]}
<1>1. 0 \in T /\ T \subseteq Nat
  BY DEF HoldsPowers
<1>2. ASSUME NEW k \in T PROVE k + 1 \in T
  <2> SUFFICES ASSUME k + 1 <= m, k + 1 <= n PROVE f[k + 1] = g[k + 1]
    OBVIOUS
  <2>1. k + 1 \in 0 .. m /\ k + 1 \in 0 .. n /\ (k + 1) - 1 = k /\ k + 1 # 0 /\ f[k] = g[k]
    OBVIOUS
  <2>2. f[k + 1] = Mul(x, f[k])
    BY <2>1 DEF HoldsPowers
  <2>3. g[k + 1] = Mul(x, g[k])
    BY <2>1 DEF HoldsPowers
  <2> QED
    BY <2>1, <2>2, <2>3
<1>3. Nat \subseteq T
  <2> HIDE DEF T
  <2> QED
    BY <1>1, <1>2, SetInduction
<1> QED
  BY <1>3

LEMMA PowerSteps ==
  ASSUME NEW x \in Field, NEW e \in Nat
  PROVE  Pow(x, 0) = 1 /\ Pow(x, e + 1) = Mul(x, Pow(x, e))
<1> DEFINE loop(g, n) == [k \in 0 .. n |-> IF k = 0 THEN 1 ELSE Mul(x, g[k - 1])]
           f(n) == CHOOSE g : g = loop(g, n)
<1>1. ASSUME NEW n \in Nat PROVE f(n) = loop(f(n), n) /\ Pow(x, n) = f(n)[n]
  <2> DEFINE step == [t \in (0 .. n) \X Field |-> Mul(x, t[2])]
  <2>1. 1 \in Field /\ \A a \in Field : Mul(x, a) \in Field
    BY FieldIsClosed, PrimeIsPositive DEF Field
  <2>2. step \in [(0 .. n) \X Field -> Field]
    BY <2>1
  <2>3. PICK h : IsChain(h, n, Field, 1, step)
    <3> HIDE DEF step
    <3> QED
      BY <2>1, <2>2, ChainExists
  <2>4. h = loop(h, n)
    <3>1. ASSUME NEW k \in 0 .. n PROVE h[k] = loop(h, n)[k]
      <4>1. CASE k = 0
        BY <2>3, <4>1 DEF IsChain
      <4>2. CASE k # 0
        <5>0. k - 1 \in 0 .. n
          BY <4>2
        <5>1. h[k - 1] \in Field /\ h[k] = step[<<k, h[k - 1]>>]
          <6> HIDE DEF step
          <6> QED
            BY <2>3, <4>2, <5>0 DEF IsChain
        <5> QED
          BY <4>2, <5>0, <5>1
      <4> QED
        BY <4>1, <4>2
    <3>2. h = [k \in 0 .. n |-> h[k]]
      BY <2>3 DEF IsChain
    <3> QED
      BY <3>1, <3>2
  <2> QED
    BY <2>4 DEF Pow
<1>2. e + 1 \in Nat /\ 0 \in Nat /\ e <= e + 1 /\ e <= e /\ (e + 1) - 1 = e /\ e + 1 # 0
  OBVIOUS
<1>3. Pow(x, 0) = 1
  <2>1. f(0) = loop(f(0), 0) /\ Pow(x, 0) = f(0)[0]
    BY <1>1
  <2> HIDE DEF f
  <2> QED
    BY <2>1
<1>4. Pow(x, e + 1) = Mul(x, Pow(x, e))
  <2>1. /\ f(e) = loop(f(e), e) /\ Pow(x, e) = f(e)[e]
        /\ f(e + 1) = loop(f(e + 1), e + 1) /\ Pow(x, e + 1) = f(e + 1)[e + 1]
    BY <1>1, <1>2
  <2> HIDE DEF f
  <2> DEFINE g == f(e)
             h == f(e + 1)
  <2>2. h[e] = g[e]
    <3>1. HoldsPowers(g, e, x) /\ HoldsPowers(h, e + 1, x)
      BY <2>1 DEF HoldsPowers
    <3> HIDE DEF g, h
    <3>2. \A k \in Nat : k <= e /\ k <= e + 1 => g[k] = h[k]
      BY <1>2, <3>1, PowersAgree
    <3> QED
      BY <1>2, <3>2
  <2>3. f(e + 1)[e + 1] = Mul(x, f(e + 1)[e])
    BY <1>2, <2>1
  <2> QED
    BY <2>1, <2>2, <2>3
<1> QED
  BY <1>3, <1>4

\* One more factor.
LEMMA PowerGrows ==
  ASSUME NEW x \in Field, NEW e \in Nat, NEW u, NEW v, Is(x, u), Is(Pow(x, e), v)
  PROVE  Is(Pow(x, e + 1), u * v)
  BY PowerSteps, IsArithmetic

LEMMA ThirdPower ==
  ASSUME NEW x \in Field, NEW u, Is(x, u)
  PROVE  Is(Pow(x, 3), u * (u * (u * 1)))
<1>1. 0 \in Nat /\ 1 \in Nat /\ 2 \in Nat /\ 0 + 1 = 1 /\ 1 + 1 = 2 /\ 2 + 1 = 3
  OBVIOUS
<1>2. Is(Pow(x, 0), 1)
  BY <1>1, PowerSteps, IsConstant
<1>3. Is(Pow(x, 1), u * 1)
  BY <1>1, <1>2, PowerGrows
<1>4. Is(Pow(x, 2), u * (u * 1))
  BY <1>1, <1>3, PowerGrows
<1> QED
  BY <1>1, <1>4, PowerGrows

LEMMA SeventhPower ==
  ASSUME NEW x \in Field, NEW u, Is(x, u)
  PROVE  Is(Pow(x, 7), u * (u * (u * (u * (u * (u * (u * 1)))))))
<1>1. /\ 3 \in Nat /\ 4 \in Nat /\ 5 \in Nat /\ 6 \in Nat
      /\ 3 + 1 = 4 /\ 4 + 1 = 5 /\ 5 + 1 = 6 /\ 6 + 1 = 7
  OBVIOUS
<1> DEFINE v == u * (u * (u * 1))
<1>2. Is(Pow(x, 3), v)
  BY ThirdPower
<1> HIDE DEF v
<1>3. Is(Pow(x, 4), u * v)
  BY <1>1, <1>2, PowerGrows
<1>4. Is(Pow(x, 5), u * (u * v))
  BY <1>1, <1>3, PowerGrows
<1>5. Is(Pow(x, 6), u * (u * (u * v)))
  BY <1>1, <1>4, PowerGrows
<1>6. Is(Pow(x, 7), u * (u * (u * (u * v))))
  BY <1>1, <1>5, PowerGrows
<1> QED
  BY <1>6 DEF v

LEMMA PowerSum ==
  ASSUME NEW x \in Field, NEW m \in Nat, NEW n \in Nat
  PROVE  Pow(x, m + n) = Mul(Pow(x, m), Pow(x, n))
<1> DEFINE T == {k \in Nat : Pow(x, m + k) = Mul(Pow(x, m), Pow(x, k))}
           a == Pow(x, m)
<1>1. a \in Field /\ Is(a, a) /\ Is(x, x) /\ a \in Int /\ x \in Int
  BY PowerIsResidue, ZeroOfField
<1> HIDE DEF a
<1>2. 0 \in T /\ T \subseteq Nat
  <2>1. 0 \in Nat /\ m + 0 = m
    OBVIOUS
  <2>2. Pow(x, 0) = 1
    BY <2>1, PowerSteps
  <2>3. Is(Mul(a, 1), a * 1) /\ a * 1 = a
    BY <1>1, IsConstant, IsArithmetic
  <2>4. Mul(a, 1) = a
    BY <1>1, <2>3, IsUnique
  <2> QED
    BY <2>1, <2>2, <2>4 DEF a
<1>3. ASSUME NEW k \in T PROVE k + 1 \in T
  <2> DEFINE b == Pow(x, k)
  <2>1. k \in Nat /\ m + k \in Nat /\ m + (k + 1) = (m + k) + 1
    OBVIOUS
  <2>2. b \in Field /\ Is(b, b) /\ b \in Int
    BY <2>1, PowerIsResidue, ZeroOfField
  <2>3. Pow(x, k + 1) = Mul(x, b) /\ Pow(x, m + (k + 1)) = Mul(x, Pow(x, m + k))
    BY <2>1, PowerSteps
  <2>4. Pow(x, m + k) = Mul(a, b)
    BY DEF a
  <2> HIDE DEF b
  <2>5. Is(Mul(x, Mul(a, b)), x * (a * b)) /\ Is(Mul(a, Mul(x, b)), a * (x * b))
    BY <1>1, <2>2, IsArithmetic
  <2>6. x * (a * b) = a * (x * b)
    BY <1>1, <2>2, SMT
  <2>7. Mul(x, Mul(a, b)) = Mul(a, Mul(x, b))
    BY <2>5, <2>6, IsUnique
  <2>8. Pow(x, m + (k + 1)) = Mul(a, Pow(x, k + 1))
    BY <2>3, <2>4, <2>7
  <2> QED
    BY <2>1, <2>8 DEF a
<1>4. Nat \subseteq T
  <2> HIDE DEF T
  <2> QED
    BY <1>2, <1>3, SetInduction
<1> QED
  BY <1>4

LEMMA PowerOfProduct ==
  ASSUME NEW x \in Field, NEW y \in Field, NEW n \in Nat
  PROVE  Pow(Mul(x, y), n) = Mul(Pow(x, n), Pow(y, n))
<1> DEFINE T == {k \in Nat : Pow(Mul(x, y), k) = Mul(Pow(x, k), Pow(y, k))}
           z == Mul(x, y)
<1>1. Is(x, x) /\ Is(y, y) /\ Is(z, x * y) /\ x \in Int /\ y \in Int /\ z \in Field
  BY ZeroOfField, FieldIsClosed, IsArithmetic
<1> HIDE DEF z
<1>2. 0 \in T /\ T \subseteq Nat
  <2>1. 0 \in Nat
    OBVIOUS
  <2>2. Pow(z, 0) = 1 /\ Pow(x, 0) = 1 /\ Pow(y, 0) = 1
    BY <1>1, <2>1, PowerSteps
  <2>3. Mul(1, 1) = 1
    BY PrimeIsPositive DEF Mul
  <2> QED
    BY <2>1, <2>2, <2>3 DEF z
<1>3. ASSUME NEW k \in T PROVE k + 1 \in T
  <2> DEFINE a == Pow(x, k)
             b == Pow(y, k)
  <2>1. k \in Nat
    OBVIOUS
  <2>2. a \in Field /\ Is(a, a) /\ a \in Int /\ b \in Field /\ Is(b, b) /\ b \in Int
    BY <2>1, PowerIsResidue, ZeroOfField
  <2>3. Pow(x, k + 1) = Mul(x, a) /\ Pow(y, k + 1) = Mul(y, b) /\ Pow(z, k + 1) = Mul(z, Pow(z, k))
    BY <1>1, <2>1, PowerSteps
  <2>4. Pow(z, k) = Mul(a, b)
    BY DEF z
  <2> HIDE DEF a, b
  <2>5. /\ Is(Mul(z, Mul(a, b)), (x * y) * (a * b))
        /\ Is(Mul(Mul(x, a), Mul(y, b)), (x * a) * (y * b))
    BY <1>1, <2>2, IsArithmetic
  <2>6. (x * y) * (a * b) = (x * a) * (y * b)
    BY <1>1, <2>2, SMT
  <2>7. Mul(z, Mul(a, b)) = Mul(Mul(x, a), Mul(y, b))
    BY <2>5, <2>6, IsUnique
  <2>8. Pow(z, k + 1) = Mul(Pow(x, k + 1), Pow(y, k + 1))
    BY <2>3, <2>4, <2>7
  <2> QED
    BY <2>1, <2>8 DEF z
<1>4. Nat \subseteq T
  <2> HIDE DEF T
  <2> QED
    BY <1>2, <1>3, SetInduction
<1> QED
  BY <1>4

LEMMA OneToPower ==
  ASSUME NEW n \in Nat
  PROVE  Pow(1, n) = 1
<1> DEFINE T == {k \in Nat : Pow(1, k) = 1}
<1>1. 1 \in Field /\ Mul(1, 1) = 1 /\ 0 \in Nat
  BY PrimeIsPositive DEF Field, Mul
<1>2. 0 \in T /\ T \subseteq Nat
  BY <1>1, PowerSteps
<1>3. ASSUME NEW k \in T PROVE k + 1 \in T
  <2>1. k \in Nat
    OBVIOUS
  <2>2. Pow(1, k + 1) = Mul(1, Pow(1, k))
    BY <1>1, <2>1, PowerSteps
  <2> QED
    BY <1>1, <2>1, <2>2
<1>4. Nat \subseteq T
  <2> HIDE DEF T
  <2> QED
    BY <1>2, <1>3, SetInduction
<1> QED
  BY <1>4

LEMMA PowerOfPower ==
  ASSUME NEW x \in Field, NEW m \in Nat, NEW n \in Nat
  PROVE  Pow(Pow(x, n), m) = Pow(Pow(x, m), n)
<1> DEFINE T == {k \in Nat : Pow(Pow(x, k), m) = Pow(Pow(x, m), k)}
           y == Pow(x, m)
<1>1. y \in Field /\ 0 \in Nat
  BY PowerIsResidue
<1>2. 0 \in T /\ T \subseteq Nat
  <2>1. Pow(x, 0) = 1 /\ Pow(y, 0) = 1
    <3> HIDE DEF y
    <3> QED
      BY <1>1, PowerSteps
  <2> QED
    BY <1>1, <2>1, OneToPower
<1>3. ASSUME NEW k \in T PROVE k + 1 \in T
  <2> DEFINE a == Pow(x, k)
  <2>1. k \in Nat /\ a \in Field /\ Pow(a, m) = Pow(y, k)
    BY PowerIsResidue
  <2>2. Pow(x, k + 1) = Mul(x, a)
    BY <2>1, PowerSteps
  <2> HIDE DEF a
  <2>3. Pow(Mul(x, a), m) = Mul(Pow(x, m), Pow(a, m))
    BY <2>1, PowerOfProduct
  <2>4. Pow(y, k + 1) = Mul(y, Pow(y, k))
    <3> HIDE DEF y
    <3> QED
      BY <1>1, <2>1, PowerSteps
  <2> QED
    BY <2>1, <2>2, <2>3, <2>4
<1>4. Nat \subseteq T
  <2> HIDE DEF T
  <2> QED
    BY <1>2, <1>3, SetInduction
<1> QED
  BY <1>4

\* The seventh power of a square root of 1.
LEMMA SeventhOfRoot ==
  ASSUME NEW v \in Int, NEW c \in Int, c = v * (v * (v * (v * (v * (v * v))))), Zero(v * v - 1)
  PROVE  Zero(c - 1) \/ Zero(c + 1)
<1> DEFINE a == v - 1
           b == v + 1
           u == v * v * v * v * v * v
           g == u + v * v * v * v * v + v * v * v * v + v * v * v + v * v + v + 1
           h == u - v * v * v * v * v + v * v * v * v - v * v * v + v * v - v + 1
<1>1. a \in Int /\ b \in Int /\ g \in Int /\ h \in Int /\ v * v - 1 = a * b
  BY SMT
<1>2. c - 1 = g * a /\ c + 1 = h * b
  BY SMT
<1> HIDE DEF a, b, g, h
<1>3. Zero(a) \/ Zero(b)
  BY <1>1, ZeroFactor
<1>4. (Zero(a) => Zero(g * a)) /\ (Zero(b) => Zero(h * b))
  BY <1>1, ZeroTimes
<1> QED
  BY <1>2, <1>3, <1>4

\* w^((p - 1) / 2), by the exponents that the addition chain makes.
LEMMA HalfPower ==
  ASSUME NEW w \in Field, w # 0
  PROVE  LET m == (p - 5) \div 8
             x == Square(w)
             g == Pow(x, m)
             v == Mul(Square(g), x)
         IN m \in Nat /\ x \in Field /\ g \in Field /\ v \in Field /\ Mul(v, v) = 1
<1> DEFINE m == (p - 5) \div 8
           x == Square(w)
           g == Pow(x, m)
           v == Mul(Square(g), x)
           k == 4 * m + 2
<1>1. m \in Nat /\ 2 * m \in Nat /\ 4 * m \in Nat /\ k \in Nat /\ 2 \in Nat /\ 1 \in Nat /\ 0 \in Nat
  BY PrimeIsPositive
<1>2. p - 1 = k + k /\ 2 * m = m + m /\ 4 * m = 2 * m + 2 * m /\ k = 4 * m + 2
  BY GroupAssumption
<1>3. x \in Field /\ Is(w, w) /\ Is(x, w * w) /\ w \in Int
  BY ZeroOfField, FieldIsClosed, IsArithmetic DEF Square
<1>4. Pow(w, 2) = x
  <2>1. Pow(w, 0) = 1 /\ Pow(w, 0 + 1) = Mul(w, Pow(w, 0)) /\ Pow(w, 1 + 1) = Mul(w, Pow(w, 1))
    BY <1>1, PowerSteps
  <2>2. Mul(w, 1) = w
    BY PrimeIsPositive DEF Mul, Field
  <2> QED
    BY <2>1, <2>2 DEF Square
<1>5. g = Mul(Pow(w, m), Pow(w, m))
  BY <1>1, PowerOfProduct DEF Square
<1> HIDE DEF k, m
<1>6. Pow(w, 2 * m) = g
  BY <1>1, <1>2, <1>5, PowerSum
<1>7. Pow(w, 4 * m) = Mul(g, g)
  BY <1>1, <1>2, <1>6, PowerSum
<1>8. Pow(w, k) = v
  BY <1>1, <1>2, <1>4, <1>7, PowerSum DEF Square
<1>9. Pow(w, p - 1) = Mul(v, v)
  BY <1>1, <1>2, <1>8, PowerSum
<1>10. Pow(w, p - 1) = 1
  BY CurveAssumption
<1>11. g \in Field /\ v \in Field
  <2>1. g \in Field
    BY <1>1, <1>3, PowerIsResidue
  <2> HIDE DEF g, x
  <2> QED
    BY <1>3, <2>1, FieldIsClosed
<1> QED
  BY <1>1, <1>3, <1>9, <1>10, <1>11 DEF m

\* fe25519_invsqrt gives a root of the reciprocal of every square but 0.
LEMMA RootOfSquare ==
  ASSUME NEW w \in Field, w # 0
  PROVE  Mul(Square(fe25519_invsqrt(Square(w))), Square(w)) = 1
<1> DEFINE m == (p - 5) \div 8
           x == Square(w)
           g == Pow(x, m)
           v == Mul(Square(g), x)
           t == Mul(fe25519_pow2523(Pow(x, 7)), Pow(x, 3))
           chk == Mul(Square(t), x)
           V == (g * g) * x
           g7 == g * (g * (g * (g * (g * (g * (g * 1))))))
           T == g7 * (x * (x * (x * 1)))
           C == (T * T) * x
<1>1. m \in Nat /\ x \in Field /\ g \in Field /\ v \in Field /\ Mul(v, v) = 1
  BY HalfPower
<1>2. fe25519_invsqrt(x) = IF chk = 1 THEN t ELSE Mul(t, sqrtm1)
  BY DEF fe25519_invsqrt
<1>3. fe25519_pow2523(Pow(x, 7)) = Pow(g, 7)
  <2>1. 7 \in Nat
    OBVIOUS
  <2> HIDE DEF x
  <2> QED
    BY <1>1, <2>1, PowerOfPower DEF fe25519_pow2523
<1> HIDE DEF x, g, m
<1>4. Is(x, x) /\ Is(g, g) /\ x \in Int /\ g \in Int
  BY <1>1, ZeroOfField
<1>5. Is(v, V) /\ Is(Mul(v, v), V * V) /\ V \in Int
  <2>1. Is(Square(g), g * g)
    BY <1>4, IsArithmetic DEF Square
  <2>2. Is(v, V)
    BY <1>4, <2>1, IsArithmetic
  <2>3. V \in Int
    BY <1>4
  <2> HIDE DEF v, V
  <2> QED
    BY <2>2, <2>3, IsArithmetic
<1>6. Zero(V * V - 1)
  BY <1>1, <1>5, IsConstant, IsSame
<1>7. Is(t, T)
  <2>1. Is(Pow(g, 7), g7) /\ Is(Pow(x, 3), x * (x * (x * 1)))
    BY <1>1, <1>4, SeventhPower, ThirdPower
  <2> HIDE DEF g7
  <2> QED
    BY <1>3, <2>1, IsArithmetic
<1>8. T \in Int /\ C \in Int /\ C = V * (V * (V * (V * (V * (V * V)))))
  BY <1>4, SMT
<1> HIDE DEF t, T, V, v
<1>9. Is(chk, C)
  BY <1>4, <1>7, IsArithmetic DEF Square
<1> HIDE DEF chk
<1>10. Zero(C - 1) \/ Zero(C + 1)
  <2> HIDE DEF C
  <2> QED
    BY <1>5, <1>6, <1>8, SeventhOfRoot
<1>11. chk = 1 <=> Zero(C - 1)
  <2> HIDE DEF C
  <2> QED
    BY <1>9, IsConstant, IsSame
<1>12. CASE chk = 1
  BY <1>2, <1>12 DEF chk, x
<1>13. CASE chk # 1
  <2>1. Zero(C + 1)
    BY <1>10, <1>11, <1>13
  <2> DEFINE I == sqrtm1
             r == Mul(t, I)
             o == I * I + 1
             e == C + 1
  <2>2. I \in Int /\ Is(I, I) /\ Zero(o) /\ o \in Int /\ e \in Int /\ Zero(e) /\ -1 \in Int
    BY <1>8, <2>1, ConstantsSatisfy, ZeroOfField
  <2>3. Is(Mul(Square(r), x), ((T * I) * (T * I)) * x)
    BY <1>4, <1>7, <2>2, IsArithmetic DEF Square
  <2>4. ((T * I) * (T * I)) * x - 1 = C * o + (-1) * e
    BY <1>4, <1>8, <2>2, SMT
  <2> HIDE DEF C, o, e, I
  <2>5. Zero(C * o + (-1) * e)
    BY <1>8, <2>2, ZeroCombines
  <2>6. Mul(Square(r), x) = 1
    BY <2>3, <2>4, <2>5, IsConstant, IsSame
  <2> QED
    BY <1>2, <1>13, <2>6 DEF x, I
<1> QED
  BY <1>12, <1>13

\* The root of 0 is 0.
LEMMA RootOfZero == fe25519_invsqrt(0) = 0
<1> DEFINE a == fe25519_pow2523(Pow(0, 7))
<1>1. 0 \in Field /\ 2 \in Nat /\ 2 + 1 = 3 /\ 7 \in Nat
  BY PrimeIsPositive DEF Field
<1>2. Pow(0, 3) = Mul(0, Pow(0, 2))
  BY <1>1, PowerSteps
<1>3. Pow(0, 2) \in Field /\ Pow(0, 7) \in Field
  BY <1>1, PowerIsResidue
<1>4. a \in Field
  <2>1. (p - 5) \div 8 \in Nat
    BY PrimeIsPositive
  <2> QED
    BY <1>3, <2>1, PowerIsResidue DEF fe25519_pow2523
<1>5. ASSUME NEW b \in Field PROVE Mul(0, b) = 0 /\ Mul(b, 0) = 0
  BY PrimeIsPositive DEF Mul, Field
<1> HIDE DEF a
<1>6. Mul(a, Pow(0, 3)) = 0
  BY <1>2, <1>3, <1>4, <1>5
<1>7. Mul(0, sqrtm1) = 0 /\ Square(0) = 0
  BY <1>1, <1>5, ConstantsSatisfy DEF Square
<1> QED
  BY <1>1, <1>5, <1>6, <1>7 DEF fe25519_invsqrt, a

-----------------------------------------------------------------------------
(*  Points of the curve that differ by 4-torsion                           *)

Curve(x, y) == (y * y - x * x) - (1 + d * ((x * x) * (y * y)))

LEMMA CurveEquation ==
  ASSUME NEW x \in Field, NEW y \in Field
  PROVE  x \in Int /\ y \in Int /\ (OnCurve(<<x, y>>) <=> Zero(Curve(x, y)))
<1> DEFINE L == Sub(Square(y), Square(x))
           R == Add(1, Mul(d, Mul(Square(x), Square(y))))
<1>1. Is(x, x) /\ Is(y, y) /\ Is(d, d) /\ x \in Int /\ y \in Int
  BY ZeroOfField, ConstantsSatisfy
<1>2. Is(Square(x), x * x) /\ Is(Square(y), y * y)
  BY <1>1, IsArithmetic DEF Square
<1>3. Is(L, y * y - x * x)
  BY <1>2, IsArithmetic
<1>4. Is(R, 1 + d * ((x * x) * (y * y)))
  <2>1. Is(Mul(Square(x), Square(y)), (x * x) * (y * y))
    BY <1>2, IsArithmetic
  <2>2. Is(Mul(d, Mul(Square(x), Square(y))), d * ((x * x) * (y * y)))
    BY <1>1, <2>1, IsArithmetic
  <2> QED
    BY <2>2, IsConstant, IsArithmetic
<1>5. OnCurve(<<x, y>>) <=> L = R
  BY DEF OnCurve
<1> HIDE DEF L, R
<1>6. L = R <=> Zero((y * y - x * x) - (1 + d * ((x * x) * (y * y))))
  BY <1>3, <1>4, IsSame
<1> QED
  BY <1>1, <1>5, <1>6 DEF Curve

LEMMA OnePlusD == 1 + d \in Int /\ ~Zero(1 + d)
<1> DEFINE b == 1 + d
           c == magic * magic
<1>1. b \in Int /\ c \in Int /\ - c \in Int /\ Zero(c * b + 1)
  BY ConstantsSatisfy
<1> HIDE DEF b, c
<1>2. ASSUME Zero(b) PROVE FALSE
  <2>1. 1 \in Int
    OBVIOUS
  <2>2. Zero(1 * (c * b + 1) + (- c) * b)
    BY <1>1, <1>2, <2>1, ZeroCombines
  <2>3. 1 * (c * b + 1) + (- c) * b = 1
    BY <1>1, SMT
  <2> QED
    BY <2>2, <2>3, NotZero
<1> QED
  BY <1>1, <1>2 DEF b

\* What divides on the curve is not 0.
LEMMA CurveDivides ==
  ASSUME NEW x \in Int, NEW y \in Int, Zero(Curve(x, y))
  PROVE  /\ ~Zero(1 + d * (y * y))
         /\ ~Zero(x) => ~Zero(1 - y * y)
<1> DEFINE c == Curve(x, y)
           r == 1 + d * (y * y)
           o == 1 - y * y
           b == 1 + d
<1>1. d \in Int /\ c \in Int /\ r \in Int /\ o \in Int /\ b \in Int /\ 1 \in Int /\ -1 \in Int
  BY ConstantsSatisfy DEF Curve
<1>2. /\ o = (-1) * c + (- (x * x)) * r
      /\ b = 1 * r + d * o
      /\ (x * x) * b = (-1) * c + (d * (x * x) - 1) * o
  BY <1>1, SMT DEF Curve
<1>3. - (x * x) \in Int /\ d * (x * x) - 1 \in Int /\ x * x \in Int
  BY <1>1
<1> HIDE DEF c, r, o, b
<1>4. Zero(c)
  BY DEF c
<1>5. ASSUME Zero(r) PROVE FALSE
  <2>1. Zero(o)
    BY <1>1, <1>2, <1>3, <1>4, <1>5, ZeroCombines
  <2>2. Zero(b)
    BY <1>1, <1>2, <1>5, <2>1, ZeroCombines
  <2> QED
    BY <2>2, OnePlusD DEF b
<1>6. ASSUME Zero(o) PROVE Zero(x)
  <2>1. Zero((x * x) * b)
    BY <1>1, <1>2, <1>3, <1>4, <1>6, ZeroCombines
  <2>2. Zero(x * x) \/ Zero(b)
    BY <1>1, <1>3, <2>1, ZeroFactor
  <2>3. Zero(x * x)
    BY <2>2, OnePlusD DEF b
  <2> QED
    BY <2>3, ZeroFactor
<1> QED
  BY <1>5, <1>6 DEF r, o

\* The sum with a point of order 2, and with one of order 4.
Opposite(a) == <<Neg(a[1]), Neg(a[2])>>
Turned(a) == <<Mul(a[2], sqrtm1), Mul(a[1], sqrtm1)>>
Coset(a) == {a, Opposite(a), Turned(a), Opposite(Turned(a))}

LEMMA PointsOfOrderFour ==
  /\ <<0, Neg(1)>> \in Field \X Field /\ OnCurve(<<0, Neg(1)>>)
  /\ <<sqrtm1, 0>> \in Field \X Field /\ OnCurve(<<sqrtm1, 0>>)
  /\ Neg(1) # 1 /\ Neg(1) = p - 1
<1> DEFINE I == sqrtm1
<1>1. 0 \in Field /\ 1 \in Field /\ Neg(1) \in Field /\ I \in Field /\ d \in Int
  BY FieldIsClosed, PrimeIsPositive, ConstantsSatisfy DEF Field
<1>2. Neg(1) = p - 1 /\ Neg(1) # 1
  BY PrimeIsPositive DEF Neg
<1>3. OnCurve(<<0, Neg(1)>>)
  <2>1. Square(Neg(1)) = 1
    <3>1. Is(Neg(1), -1) /\ Is(Mul(Neg(1), Neg(1)), (-1) * (-1))
      BY IsConstant, IsArithmetic
    <3>2. (-1) * (-1) = 1
      OBVIOUS
    <3> QED
      BY <3>1, <3>2, IsConstant, IsUnique DEF Square
  <2>2. Square(0) = 0 /\ Sub(1, 0) = 1 /\ Mul(0, 1) = 0 /\ Mul(d, 0) = 0 /\ Add(1, 0) = 1
    BY <1>1, PrimeIsPositive DEF Square, Mul, Sub, Add
  <2> QED
    BY <2>1, <2>2 DEF OnCurve
<1>4. OnCurve(<<I, 0>>)
  <2>1. Zero(I * I + 1) /\ I \in Int /\ -1 \in Int
    BY ConstantsSatisfy
  <2>2. Curve(I, 0) = (-1) * (I * I + 1)
    BY <1>1, <2>1, SMT DEF Curve
  <2>3. Zero(Curve(I, 0))
    BY <2>1, <2>2, ZeroTimes
  <2> QED
    BY <1>1, <2>3, CurveEquation
<1> QED
  BY <1>1, <1>2, <1>3, <1>4

\* A sum of numbers below the order.
LEMMA Wraps ==
  ASSUME NEW x \in Exponents, NEW y \in Exponents
  PROVE  /\ x \in Int /\ y \in Int
         /\ (x + y) % Order \in Exponents
         /\ (x + y) % Order = IF x + y < Order THEN x + y ELSE (x + y) - Order
<1>1. Order \in Nat /\ Order > 0 /\ x \in 0 .. Order - 1 /\ y \in 0 .. Order - 1
  BY Orders DEF Exponents
<1>2. x + y \in Int /\ (x + y) - Order \in Int /\ x + y >= 0 /\ x + y < 2 * Order
  BY <1>1
<1>3. CASE x + y < Order
  BY <1>1, <1>2, <1>3 DEF Exponents
<1>4. CASE ~(x + y < Order)
  <2>1. (x + y) - Order \in 0 .. Order - 1
    BY <1>1, <1>2, <1>4
  <2>2. (x + y) % Order = ((x + y) - Order) % Order
    <3>1. x + y = ((x + y) - Order) + Order * 1 /\ 1 \in Int
      BY <1>1, <1>2
    <3> QED
      BY <1>1, <1>2, <3>1, Remainder
  <2> QED
    BY <1>1, <1>2, <1>4, <2>1, <2>2 DEF Exponents
<1> QED
  BY <1>1, <1>3, <1>4

\* What CurveAssumption says of sums.
LEMMA SumsOfMultiples ==
  ASSUME NEW e \in Exponents, NEW f \in Exponents
  PROVE  /\ AffineAdd(Multiples[e], Multiples[f]) = Multiples[(e + f) % Order]
         /\ Multiples[e] = Multiples[f] => e = f
<1>1. e \in 0 .. Order - 1 /\ f \in 0 .. Order - 1
  BY DEF Exponents
<1> QED
  BY <1>1, CurveAssumption

LEMMA TorsionExponents ==
  \E h, t \in Exponents :
    /\ t = 4 * Prime /\ (h = 2 * Prime \/ h = 6 * Prime)
    /\ \A e \in Exponents : /\ Multiples[(e + t) % Order] = Opposite(Multiples[e])
                            /\ Multiples[(e + h) % Order] = Turned(Multiples[e])
<1> DEFINE I == sqrtm1
<1>1. PICK t \in Exponents : Multiples[t] = <<0, Neg(1)>>
  BY PointsOfOrderFour, CurveAssumption DEF Exponents
<1>2. PICK h \in Exponents : Multiples[h] = <<I, 0>>
  BY PointsOfOrderFour, CurveAssumption DEF Exponents
<1>3. /\ 0 \in Field /\ 1 \in Field /\ Neg(1) \in Field /\ I \in Field
      /\ Is(0, 0) /\ Is(1, 1) /\ Is(Neg(1), -1) /\ Is(I, I) /\ Is(d, d) /\ I \in Int /\ d \in Int
  BY IsConstant, IsUnique, IsArithmetic, ZeroOfField, ConstantsSatisfy
<1>4. Reciprocal[1] = 1
  <2>1. Reciprocal[1] \in Field /\ Mul(1, Reciprocal[1]) = 1
    BY <1>3, ReciprocalDivides
  <2> DEFINE r == Reciprocal[1]
  <2> HIDE DEF r
  <2>2. r \in Field /\ Mul(1, r) = 1
    BY <2>1 DEF r
  <2>3. r = 1
    BY <2>2, PrimeIsPositive DEF Mul, Field
  <2> QED
    BY <2>3 DEF r
<1>5. \A a \in Field : /\ Mul(a, 0) = 0 /\ Mul(0, a) = 0 /\ Mul(a, 1) = a
                       /\ Add(a, 0) = a /\ Add(0, a) = a /\ Sub(a, 0) = a /\ Mul(a, Neg(1)) = Neg(a)
  <2>1. ASSUME NEW a \in Field PROVE Mul(a, Neg(1)) = Neg(a)
    <3>1. Is(a, a) /\ a \in Int
      BY ZeroOfField
    <3>2. Is(Mul(a, Neg(1)), a * (-1)) /\ Is(Neg(a), - a)
      BY <1>3, <3>1, IsArithmetic
    <3>3. a * (-1) = - a
      BY <3>1
    <3> QED
      BY <3>2, <3>3, IsUnique
  <2> QED
    BY <2>1, PrimeIsPositive DEF Mul, Add, Sub, Field
<1>6. ASSUME NEW e \in Exponents
      PROVE  /\ Multiples[(e + t) % Order] = Opposite(Multiples[e])
             /\ Multiples[(e + h) % Order] = Turned(Multiples[e])
  <2> DEFINE x == Multiples[e][1]
             y == Multiples[e][2]
  <2>1. x \in Field /\ y \in Field /\ Mul(x, I) \in Field /\ Mul(y, I) \in Field
        /\ Neg(x) \in Field /\ Neg(y) \in Field /\ Mul(x, y) \in Field
    <3>1. Multiples[e] \in Field \X Field
      BY CurveAssumption DEF Exponents
    <3> QED
      BY <1>3, <3>1, FieldIsClosed
  <2>2. /\ Multiples[(e + t) % Order] = AffineAdd(Multiples[e], <<0, Neg(1)>>)
        /\ Multiples[(e + h) % Order] = AffineAdd(Multiples[e], <<I, 0>>)
    BY <1>1, <1>2, SumsOfMultiples
  <2> HIDE DEF x, y
  <2>3. AffineAdd(Multiples[e], <<0, Neg(1)>>) = <<Neg(x), Neg(y)>>
    <3>1. Mul(Mul(x, 0), Mul(y, Neg(1))) = 0 /\ Mul(d, 0) = 0
      BY <1>3, <1>5, <2>1, ConstantsSatisfy
    <3>2. /\ Add(Mul(x, Neg(1)), Mul(y, 0)) = Neg(x)
          /\ Add(Mul(y, Neg(1)), Mul(x, 0)) = Neg(y)
          /\ Add(1, 0) = 1 /\ Sub(1, 0) = 1 /\ Mul(Neg(x), 1) = Neg(x) /\ Mul(Neg(y), 1) = Neg(y)
      BY <1>3, <1>5, <2>1
    <3> QED
      BY <1>4, <3>1, <3>2 DEF AffineAdd, x, y
  <2>4. AffineAdd(Multiples[e], <<I, 0>>) = <<Mul(y, I), Mul(x, I)>>
    <3>1. Mul(Mul(x, I), Mul(y, 0)) = 0 /\ Mul(d, 0) = 0
      BY <1>3, <1>5, <2>1, ConstantsSatisfy
    <3>2. /\ Add(Mul(x, 0), Mul(y, I)) = Mul(y, I)
          /\ Add(Mul(y, 0), Mul(x, I)) = Mul(x, I)
          /\ Add(1, 0) = 1 /\ Sub(1, 0) = 1
          /\ Mul(Mul(y, I), 1) = Mul(y, I) /\ Mul(Mul(x, I), 1) = Mul(x, I)
      BY <1>3, <1>5, <2>1
    <3> QED
      BY <1>4, <3>1, <3>2 DEF AffineAdd, x, y
  <2> QED
    BY <2>2, <2>3, <2>4 DEF Opposite, Turned, x, y
<1>7. /\ Multiples[(t + t) % Order] = <<0, 1>> /\ Multiples[(h + h) % Order] = <<0, Neg(1)>>
      /\ t # 0
  <2>1. Neg(0) = 0 /\ Neg(Neg(1)) = 1 /\ Mul(0, I) = 0 /\ Mul(I, I) = Neg(1)
    <3>1. Neg(0) = 0 /\ Neg(Neg(1)) = 1 /\ Mul(0, I) = 0
      BY <1>3, PrimeIsPositive DEF Neg, Mul, Field
    <3>2. Is(Mul(I, I), I * I) /\ Zero(I * I + 1)
      BY <1>3, IsArithmetic, ConstantsSatisfy
    <3>3. I * I - (-1) = I * I + 1
      BY <1>3
    <3>4. Mul(I, I) = Neg(1) <=> Zero(I * I - (-1))
      BY <1>3, <3>2, IsSame
    <3> QED
      BY <3>1, <3>2, <3>3, <3>4
  <2>2. t # 0
    BY <1>1, PointsOfOrderFour, CurveAssumption
  <2> QED
    BY <1>1, <1>2, <1>6, <2>1, <2>2 DEF Opposite, Turned
<1>8. (t + t) % Order = 0 /\ (h + h) % Order = t
  <2>1. (t + t) % Order \in Exponents /\ (h + h) % Order \in Exponents /\ 0 \in Exponents
    <3>1. (t + t) % Order \in Exponents /\ (h + h) % Order \in Exponents
      BY Wraps
    <3>2. 0 \in Exponents
      BY Orders DEF Exponents
    <3> QED
      BY <3>1, <3>2
  <2>2. Multiples[0] = <<0, 1>>
    BY CurveAssumption
  <2>3. Multiples[(t + t) % Order] = Multiples[0] /\ Multiples[(h + h) % Order] = Multiples[t]
    BY <1>1, <1>7, <2>2
  <2> QED
    BY <2>1, <2>3, SumsOfMultiples
<1>9. t = 4 * Prime /\ (h = 2 * Prime \/ h = 6 * Prime)
  <2>1. Prime \in Nat /\ Prime > 1 /\ Order = 8 * Prime /\ t \in 0 .. Order - 1 /\ h \in 0 .. Order - 1
    BY CurveAssumption DEF Order, Exponents
  <2>2. /\ (IF t + t < Order THEN t + t ELSE (t + t) - Order) = 0
        /\ (IF h + h < Order THEN h + h ELSE (h + h) - Order) = t
    BY <1>8, Wraps
  <2> QED
    BY <1>7, <2>1, <2>2
<1> QED
  BY <1>6, <1>9

\* Exponents modulo the order of the packed group.
LEMMA SamePackedIsSame ==
  /\ 2 * Prime \in Nat /\ 2 * Prime > 0
  /\ \A e, f \in Int : SamePacked(e, f) <=> Same(2 * Prime, e, f)
  /\ \A a \in Int : Same(2 * Prime, a % Order, a)
<1>1. 2 * Prime \in Nat /\ 2 * Prime > 0 /\ Prime \in Nat /\ Order = 8 * Prime /\ Order > 0
  BY CurveAssumption, Orders DEF Order
<1> DEFINE m == 2 * Prime
<1>2. ASSUME NEW e \in Int, NEW f \in Int PROVE SamePacked(e, f) <=> Same(2 * Prime, e, f)
  <2>1. m \in Nat /\ m > 0 /\ e - f \in Int
    BY <1>1
  <2>2. SamePacked(e, f) <=> (e - f) % m = 0
    BY DEF SamePacked
  <2> HIDE DEF m
  <2> DEFINE k == (e - f) \div m
  <2>3. (e - f) % m = 0 => Same(m, e, f)
    <3>1. k \in Int /\ e - f = m * k + ((e - f) % m)
      BY <2>1, Division
    <3> HIDE DEF k
    <3>2. m * k \in Int
      BY <2>1, <3>1
    <3>3. (e - f) % m = 0 => e = f + m * k
      BY <3>1, <3>2
    <3> QED
      BY <3>1, <3>3 DEF Same
  <2>4. Same(m, e, f) => (e - f) % m = 0
    <3> SUFFICES ASSUME Same(m, e, f) PROVE (e - f) % m = 0
      OBVIOUS
    <3>1. PICK j \in Int : e = f + m * j
      BY DEF Same
    <3>2. m * j \in Int
      BY <2>1
    <3>3. e - f = 0 + m * j
      BY <3>1, <3>2
    <3>4. (e - f) % m = 0 % m
      <4> HIDE DEF k
      <4>1. 0 \in Int
        OBVIOUS
      <4> QED
        BY <2>1, <3>3, <4>1, Remainder
    <3> QED
      BY <2>1, <3>4
  <2> QED
    BY <2>2, <2>3, <2>4 DEF m
<1>3. ASSUME NEW a \in Int PROVE Same(2 * Prime, a % Order, a)
  <2>1. Same(Order, a % Order, a)
    BY <1>1, Orders, SameEquivalence
  <2>2. PICK k \in Int : a % Order = a + Order * k
    BY <2>1 DEF Same
  <2>3. Order * k = (2 * Prime) * (4 * k) /\ 4 * k \in Int /\ a % Order \in Int
    BY <1>1, <2>1 DEF Same
  <2> QED
    BY <2>2, <2>3 DEF Same
<1> QED
  BY <1>1, <1>2, <1>3

\* They are the points whose exponents are the same modulo 2 * Prime.
LEMMA CosetExponents ==
  ASSUME NEW e \in Exponents
  PROVE  /\ \A a \in Coset(Multiples[e]) : \E f \in Exponents : a = Multiples[f]
         /\ \A f \in Exponents : Multiples[f] \in Coset(Multiples[e]) <=> SamePacked(e, f)
<1>1. PICK h \in Exponents, t \in Exponents :
        /\ t = 4 * Prime /\ (h = 2 * Prime \/ h = 6 * Prime)
        /\ \A i \in Exponents : /\ Multiples[(i + t) % Order] = Opposite(Multiples[i])
                                /\ Multiples[(i + h) % Order] = Turned(Multiples[i])
  BY TorsionExponents
<1> DEFINE e1 == (e + t) % Order
           e2 == (e + h) % Order
           e3 == (e2 + t) % Order
<1>2. /\ e1 \in Exponents /\ e1 = IF e + t < Order THEN e + t ELSE (e + t) - Order
      /\ e2 \in Exponents /\ e2 = IF e + h < Order THEN e + h ELSE (e + h) - Order
  BY <1>1, Wraps
<1> HIDE DEF e1, e2
<1>3. e3 \in Exponents /\ e3 = IF e2 + t < Order THEN e2 + t ELSE (e2 + t) - Order
  BY <1>1, <1>2, Wraps
<1>4. Coset(Multiples[e]) = {Multiples[e], Multiples[e1], Multiples[e2], Multiples[e3]}
  BY <1>1, <1>2 DEF Coset, e1, e2
<1> HIDE DEF e3
<1>5. ASSUME NEW f \in Exponents PROVE Multiples[f] \in Coset(Multiples[e]) <=> SamePacked(e, f)
  <2>1. Multiples[f] \in Coset(Multiples[e]) <=> f \in {e, e1, e2, e3}
    BY <1>2, <1>3, <1>4, SumsOfMultiples
  <2>2. /\ Prime \in Nat /\ Prime > 1 /\ Order = 8 * Prime
        /\ e \in 0 .. Order - 1 /\ f \in 0 .. Order - 1
    BY CurveAssumption DEF Order, Exponents
  <2>3. f \in {e, e1, e2, e3} => Same(2 * Prime, e, f)
    <3> DEFINE m == 2 * Prime
    <3>1. \/ e = f \/ e = f + m \/ e = f + 2 * m \/ e = f + 3 * m
          \/ e = f - m \/ e = f - 2 * m \/ e = f - 3 * m
          \/ f \notin {e, e1, e2, e3}
      BY <1>1, <1>2, <1>3, <2>2
    <3>2. \/ e = f + m * 0 \/ e = f + m * 1 \/ e = f + m * 2 \/ e = f + m * 3
          \/ e = f + m * (-1) \/ e = f + m * (-2) \/ e = f + m * (-3)
          \/ f \notin {e, e1, e2, e3}
      BY <2>2, <3>1
    <3>3. /\ 0 \in Int /\ 1 \in Int /\ 2 \in Int /\ 3 \in Int /\ -1 \in Int /\ -2 \in Int /\ -3 \in Int
          /\ e \in Int /\ f \in Int
      BY <2>2
    <3> HIDE DEF m
    <3>4. f \in {e, e1, e2, e3} => \E k \in Int : e = f + m * k
      BY <3>2, <3>3
    <3> QED
      BY <3>3, <3>4 DEF Same, m
  <2>4. Same(2 * Prime, e, f) => f \in {e, e1, e2, e3}
    <3> SUFFICES ASSUME Same(2 * Prime, e, f) PROVE f \in {e, e1, e2, e3}
      OBVIOUS
    <3> DEFINE m == 2 * Prime
    <3>1. PICK k \in Int : e = f + m * k
      BY DEF Same
    <3>2. m \in Nat /\ m > 0 /\ Order = 4 * m /\ t = 2 * m /\ (h = m \/ h = 3 * m)
      BY <1>1, <2>2
    <3> HIDE DEF m
    <3>3. k <= 3
      <4> SUFFICES ASSUME k >= 4 PROVE FALSE
        OBVIOUS
      <4>1. m * k >= m * 4
        BY <3>2, SMT
      <4> QED
        BY <2>2, <3>1, <3>2, <4>1
    <3>4. k >= -3
      <4> SUFFICES ASSUME k <= -4 PROVE FALSE
        OBVIOUS
      <4>1. m * k <= m * (-4)
        BY <3>2, SMT
      <4> QED
        BY <2>2, <3>1, <3>2, <4>1
    <3>5. k \in {-3, -2, -1, 0, 1, 2, 3}
      BY <3>3, <3>4
    <3>6. \/ e = f \/ e = f + m \/ e = f + 2 * m \/ e = f + 3 * m
          \/ e = f - m \/ e = f - 2 * m \/ e = f - 3 * m
      BY <2>2, <3>1, <3>2, <3>5
    <3> QED
      BY <1>2, <1>3, <2>2, <3>2, <3>6
  <2>5. SamePacked(e, f) <=> Same(2 * Prime, e, f)
    BY <2>2, SamePackedIsSame
  <2> QED
    BY <2>1, <2>3, <2>4, <2>5
<1> QED
  BY <1>2, <1>3, <1>4, <1>5

\* Both coordinates of a point that is not 4-torsion.
Pairs == (Field \ {0}) \X (Field \ {0})

LEMMA NegOf ==
  ASSUME NEW a \in Field
  PROVE  /\ Neg(a) \in Field /\ Neg(Neg(a)) = a
         /\ a # 0 => Neg(a) # 0 /\ (isnegative(Neg(a)) <=> ~isnegative(a))
<1>1. p \in Nat /\ p > 0 /\ p % 2 = 1 /\ a \in 0 .. p - 1
  BY PrimeIsPositive DEF Field
<1>2. CASE a = 0
  BY <1>1, <1>2 DEF Neg, Field
<1>3. CASE a # 0
  <2>1. p - a \in 0 .. p - 1 /\ p - a # 0 /\ p - (p - a) = a
    BY <1>1, <1>3
  <2>2. (- a) % p = (p - a) % p
    <3>1. p - a = (- a) + p * 1 /\ - a \in Int /\ 1 \in Int /\ p - a \in Int
      BY <1>1
    <3> QED
      BY <1>1, <3>1, Remainder
  <2>3. Neg(a) = p - a
    BY <1>1, <2>1, <2>2 DEF Neg
  <2>4. (- (p - a)) % p = a % p
    <3>1. a = (- (p - a)) + p * 1 /\ - (p - a) \in Int /\ 1 \in Int /\ a \in Int
      BY <1>1
    <3> QED
      BY <1>1, <3>1, Remainder
  <2>5. Neg(Neg(a)) = a
    BY <1>1, <2>3, <2>4 DEF Neg
  <2>6. (p - a) % 2 = 1 <=> a % 2 # 1
    BY <1>1
  <2> QED
    BY <1>3, <2>1, <2>3, <2>5, <2>6, <1>1 DEF isnegative, Field
<1> QED
  BY <1>2, <1>3

LEMMA TurnedFacts ==
  ASSUME NEW a \in Pairs
  PROVE  /\ Opposite(a) \in Pairs /\ Turned(a) \in Pairs
         /\ Opposite(Opposite(a)) = a /\ Turned(Turned(a)) = Opposite(a)
         /\ Turned(Opposite(a)) = Opposite(Turned(a))
         /\ Mul(a[1], a[2]) \in Field \ {0}
         /\ Mul(Opposite(a)[1], Opposite(a)[2]) = Mul(a[1], a[2])
         /\ Mul(Turned(a)[1], Turned(a)[2]) = Neg(Mul(a[1], a[2]))
<1> DEFINE I == sqrtm1
           x == a[1]
           y == a[2]
           o == I * I + 1
<1>1. a = <<x, y>> /\ x \in Field /\ y \in Field /\ x # 0 /\ y # 0
  BY DEF Pairs
<1> HIDE DEF x, y
<1>2. /\ Is(x, x) /\ Is(y, y) /\ Is(I, I) /\ x \in Int /\ y \in Int /\ I \in Int
      /\ I \in Field /\ Zero(o) /\ o \in Int
  BY <1>1, ZeroOfField, ConstantsSatisfy
<1>3. I # 0
  <2> SUFFICES ASSUME I = 0 PROVE FALSE
    OBVIOUS
  <2>1. I * I + 1 = 1
    OBVIOUS
  <2> QED
    BY <1>2, <2>1, NotZero
<1>4. /\ Neg(x) \in Field \ {0} /\ Neg(y) \in Field \ {0} /\ Neg(Neg(x)) = x /\ Neg(Neg(y)) = y
      /\ Mul(y, I) \in Field \ {0} /\ Mul(x, I) \in Field \ {0} /\ Mul(x, y) \in Field \ {0}
  BY <1>1, <1>2, <1>3, NegOf, NoZeroDivisors, FieldIsClosed
<1>5. /\ Is(Neg(x), - x) /\ Is(Neg(y), - y) /\ Is(Mul(y, I), y * I) /\ Is(Mul(x, I), x * I)
      /\ Is(Mul(x, y), x * y)
  BY <1>2, IsArithmetic
<1>6. Mul(Mul(x, I), I) = Neg(x) /\ Mul(Mul(y, I), I) = Neg(y)
  <2>1. Is(Mul(Mul(x, I), I), (x * I) * I) /\ Is(Mul(Mul(y, I), I), (y * I) * I)
    BY <1>2, <1>5, IsArithmetic
  <2>2. (x * I) * I - (- x) = x * o /\ (y * I) * I - (- y) = y * o
    BY <1>2, SMT
  <2>3. Zero(x * o) /\ Zero(y * o)
    BY <1>2, ZeroTimes
  <2>4. Zero((x * I) * I - (- x)) /\ Zero((y * I) * I - (- y))
    BY <2>2, <2>3
  <2> QED
    BY <1>5, <2>1, <2>4, IsSame
<1>7. Mul(Neg(x), I) = Neg(Mul(x, I)) /\ Mul(Neg(y), I) = Neg(Mul(y, I))
  <2>1. /\ Is(Mul(Neg(x), I), (- x) * I) /\ Is(Neg(Mul(x, I)), - (x * I))
        /\ Is(Mul(Neg(y), I), (- y) * I) /\ Is(Neg(Mul(y, I)), - (y * I))
    BY <1>2, <1>5, IsArithmetic
  <2>2. (- x) * I = - (x * I) /\ (- y) * I = - (y * I)
    BY <1>2, SMT
  <2> QED
    BY <2>1, <2>2, IsUnique
<1>8. Mul(Neg(x), Neg(y)) = Mul(x, y)
  <2>1. Is(Mul(Neg(x), Neg(y)), (- x) * (- y))
    BY <1>5, IsArithmetic
  <2>2. (- x) * (- y) = x * y
    BY <1>2, SMT
  <2> QED
    BY <1>5, <2>1, <2>2, IsUnique
<1>9. Mul(Mul(y, I), Mul(x, I)) = Neg(Mul(x, y))
  <2>1. Is(Mul(Mul(y, I), Mul(x, I)), (y * I) * (x * I)) /\ Is(Neg(Mul(x, y)), - (x * y))
    BY <1>5, IsArithmetic
  <2>2. (y * I) * (x * I) - (- (x * y)) = (x * y) * o /\ x * y \in Int
    BY <1>2, SMT
  <2>3. Zero((y * I) * (x * I) - (- (x * y)))
    <3>1. Zero((x * y) * o)
      BY <1>2, <2>2, ZeroTimes
    <3> QED
      BY <2>2, <3>1
  <2> QED
    BY <2>1, <2>3, IsSame
<1> HIDE DEF o
<1> QED
  BY <1>1, <1>4, <1>6, <1>7, <1>8, <1>9 DEF Opposite, Turned, Pairs

\* The one of the four points that packing takes.
Folded(a) ==
  LET b == IF isnegative(Mul(a[1], a[2])) THEN Turned(a) ELSE a
  IN IF isnegative(b[1]) THEN Opposite(b) ELSE b

LEMMA FoldedFacts ==
  ASSUME NEW a \in Pairs
  PROVE  /\ Folded(a) \in Pairs /\ Folded(a) \in Coset(a)
         /\ ~isnegative(Folded(a)[1]) /\ ~isnegative(Mul(Folded(a)[1], Folded(a)[2]))
<1> DEFINE b == IF isnegative(Mul(a[1], a[2])) THEN Turned(a) ELSE a
<1>1. b \in Pairs /\ ~isnegative(Mul(b[1], b[2])) /\ (b = a \/ b = Turned(a))
  <2>1. CASE isnegative(Mul(a[1], a[2]))
    BY <2>1, TurnedFacts, NegOf
  <2>2. CASE ~isnegative(Mul(a[1], a[2]))
    BY <2>2
  <2> QED
    BY <2>1, <2>2
<1>2. Folded(a) = IF isnegative(b[1]) THEN Opposite(b) ELSE b
  BY DEF Folded
<1> HIDE DEF b
<1>3. b[1] \in Field \ {0} /\ Opposite(b)[1] = Neg(b[1])
  BY <1>1 DEF Pairs, Opposite
<1> QED
  BY <1>1, <1>2, <1>3, TurnedFacts, NegOf DEF Coset

\* It does not depend on which of the four is packed.
LEMMA FoldedOfCoset ==
  ASSUME NEW a \in Pairs, NEW b \in Coset(a)
  PROVE  Folded(b) = Folded(a)
<1> DEFINE Abs(c) == IF isnegative(c[1]) THEN Opposite(c) ELSE c
           Fold(c) == Abs(IF isnegative(Mul(c[1], c[2])) THEN Turned(c) ELSE c)
<1>1. ASSUME NEW c \in Pairs PROVE Abs(Opposite(c)) = Abs(c)
  <2>1. c[1] \in Field \ {0} /\ Opposite(c)[1] = Neg(c[1])
    BY DEF Pairs, Opposite
  <2> QED
    BY <2>1, TurnedFacts, NegOf
<1>2. ASSUME NEW c \in Pairs PROVE Fold(Opposite(c)) = Fold(c) /\ Fold(Turned(c)) = Fold(c)
  <2>1. /\ Opposite(c) \in Pairs /\ Turned(c) \in Pairs
        /\ Turned(Turned(c)) = Opposite(c)
        /\ Turned(Opposite(c)) = Opposite(Turned(c))
        /\ Mul(Opposite(c)[1], Opposite(c)[2]) = Mul(c[1], c[2])
        /\ Mul(Turned(c)[1], Turned(c)[2]) = Neg(Mul(c[1], c[2]))
        /\ isnegative(Neg(Mul(c[1], c[2]))) <=> ~isnegative(Mul(c[1], c[2]))
    BY TurnedFacts, NegOf
  <2>2. Abs(Opposite(c)) = Abs(c) /\ Abs(Opposite(Turned(c))) = Abs(Turned(c))
    BY <1>1, <2>1
  <2> HIDE DEF Abs
  <2> QED
    BY <2>1, <2>2
<1>3. \A c : Folded(c) = Fold(c)
  BY DEF Folded
<1> HIDE DEF Fold
<1>4. Turned(a) \in Pairs
  BY TurnedFacts
<1> QED
  BY <1>2, <1>3, <1>4 DEF Coset

-----------------------------------------------------------------------------
(*  Packing                                                                *)

\* s^2 = (1 - y) / (1 + y)
Root(s, y) == Zero((s * s) * (1 + y) - (1 - y))

LEMMA PositiveIs ==
  ASSUME NEW a \in Field
  PROVE  /\ Positive(a) \in Field /\ ~isnegative(Positive(a))
         /\ Square(Positive(a)) = Square(a)
<1>1. ~isnegative(0)
  BY DEF isnegative
<1>2. isnegative(a) => ~isnegative(Neg(a))
  BY <1>1, NegOf
<1> QED
  BY <1>2, PositiveSquare DEF Positive

\* The square of what is packed if the point is not turned: i is the root that
\* group_ge_pack takes, of 1 / k.
LEMMA StraightRoot ==
  ASSUME NEW x \in Int, NEW y \in Int, NEW z \in Int, NEW i \in Int, NEW c \in Int,
         Zero((i * i) * ((((x * z) * (y * z)) * ((x * z) * (y * z))) * ((z - y * z) * (z + y * z))) - 1),
         Zero(y * y - c * c)
  PROVE  LET m == (z - c * z) * (i * ((x * z) * (y * z)))
         IN Zero((m * m) * (1 + c) - (1 - c))
<1> DEFINE w == i * ((x * z) * (y * z))
           k == (i * i) * ((((x * z) * (y * z)) * ((x * z) * (y * z))) * ((z - y * z) * (z + y * z))) - 1
           g == y * y - c * c
           m == (z - c * z) * w
           b == (1 - c) * ((z * z) * (w * w))
<1>1. w \in Int /\ g \in Int /\ b \in Int /\ 1 - c \in Int /\ k \in Int /\ m \in Int
  BY SMT
<1>2. k = (w * w) * ((z * z) * (1 - y * y)) - 1
  BY SMT
<1>3. Zero(k) /\ Zero(g)
  OBVIOUS
<1> SUFFICES Zero((m * m) * (1 + c) - (1 - c))
  OBVIOUS
<1> HIDE DEF w, k
<1>4. (m * m) * (1 + c) - (1 - c) = (1 - c) * k + b * g
  BY <1>1, <1>2, SMT
<1> HIDE DEF g, b
<1>5. Zero((1 - c) * k + b * g)
  BY <1>1, <1>3, ZeroCombines
<1> QED
  BY <1>4, <1>5

\* The same if it is turned.
LEMMA TurnedRoot ==
  ASSUME NEW x \in Int, NEW y \in Int, NEW z \in Int, NEW i \in Int, NEW c \in Int,
         Zero((i * i) * ((((x * z) * (y * z)) * ((x * z) * (y * z))) * ((z - y * z) * (z + y * z))) - 1),
         Zero(c * c + x * x), Zero(Curve(x, y))
  PROVE  LET m == (z - c * z) * (magic * (i * ((z - y * z) * (z + y * z))))
         IN Zero((m * m) * (1 + c) - (1 - c))
<1> DEFINE n == magic
           u == (z - y * z) * (z + y * z)
           v == ((x * z) * (y * z)) * ((x * z) * (y * z))
           k == (i * i) * (v * u) - 1
           g == c * c + x * x
           r == Curve(x, y)
           o == (n * n) * (1 + d) + 1
           w == n * (i * u)
           m == (z - c * z) * w
           f == (n * n) * (i * i)
           N == (m * m) * (1 + c) - (1 - c)
           E1 == (z * z) * (w * w)
           E2 == ((z * z) * (z * z)) * (f * u)
           E3 == (i * i) * (v * u)
<1>1. n \in Int /\ d \in Int /\ Zero(o)
  BY ConstantsSatisfy
<1>2. u \in Int /\ v \in Int /\ w \in Int /\ f \in Int
  BY <1>1
<1>3. E1 \in Int /\ E2 \in Int /\ E3 \in Int /\ - E1 \in Int /\ - E2 \in Int /\ - E3 \in Int
  <2> HIDE DEF u, v, w, f
  <2> QED
    BY <1>2
<1>4. /\ k \in Int /\ g \in Int /\ r \in Int /\ o \in Int /\ 1 \in Int
      /\ 1 - c \in Int /\ N \in Int
  <2> HIDE DEF u, v, w
  <2> QED
    BY <1>1, <1>2 DEF Curve
<1>5. Zero(k) /\ Zero(g) /\ Zero(r)
  OBVIOUS
<1> SUFFICES Zero(N)
  OBVIOUS
<1>6. N = (1 - c) * (E1 * (1 - c * c) - 1)
  <2> HIDE DEF w
  <2> QED
    BY <1>2, SMT
<1>7. E1 * (1 + x * x) = ((- E2) * r + (- E3) * o) + E3
  <2>1. u = (z * z) * (1 - y * y)
    BY SMT
  <2>2. E1 * (1 + x * x) = (((z * z) * (f * u)) * (z * z)) * ((1 - y * y) * (1 + x * x))
    <3>1. E1 = (z * z) * ((f * u) * u)
      <4> HIDE DEF u
      <4> QED
        BY <1>1, <1>2, SMT
    <3> HIDE DEF u, f, E1
    <3> QED
      BY <1>2, <2>1, <3>1, SMT
  <2>3. (1 - y * y) * (1 + x * x) = (- r) - (1 + d) * ((x * x) * (y * y))
    BY <1>1, SMT DEF Curve
  <2>4. v = ((z * z) * (z * z)) * ((x * x) * (y * y))
    BY SMT
  <2>5. E3 * (o - 1) = (((z * z) * (z * z)) * (f * u)) * ((1 + d) * ((x * x) * (y * y)))
    <3> DEFINE xy == (x * x) * (y * y)
               zz == (z * z) * (z * z)
               ii == i * i
               nn == n * n
               dd == 1 + d
    <3>1. /\ E3 = ii * ((zz * xy) * u) /\ o - 1 = nn * dd /\ f = nn * ii
          /\ xy \in Int /\ zz \in Int /\ ii \in Int /\ nn \in Int /\ dd \in Int
      BY <1>1, <2>4
    <3> HIDE DEF xy, zz, ii, nn, dd, u, E3, o, f
    <3>2. E3 * (o - 1) = (zz * (f * u)) * (dd * xy)
      BY <1>2, <3>1, SMT
    <3> QED
      BY <3>2 DEF xy, zz, dd
  <2> DEFINE rr == r
             xy == (x * x) * (y * y)
             zz == (z * z) * (z * z)
             fu == f * u
  <2>6. /\ xy \in Int /\ zz \in Int /\ fu \in Int /\ rr \in Int
        /\ E2 = zz * fu /\ E1 * (1 + x * x) = (zz * fu) * ((- rr) - (1 + d) * xy)
    <3>1. ((z * z) * (f * u)) * (z * z) = ((z * z) * (z * z)) * (f * u)
      <4> HIDE DEF f, u
      <4> QED
        BY <1>2, SMT
    <3> HIDE DEF f, u
    <3> QED
      BY <1>2, <1>4, <2>2, <2>3, <3>1
  <2>7. E3 * (o - 1) = (zz * fu) * ((1 + d) * xy)
    BY <2>5
  <2> HIDE DEF xy, zz, fu, rr, E1, E2, E3, o
  <2>8. (zz * fu) * ((- rr) - (1 + d) * xy) = (- E2) * rr - (zz * fu) * ((1 + d) * xy)
    BY <1>1, <2>6, SMT
  <2>9. E3 * (o - 1) = E3 * o - E3 /\ (- E3) * o = - (E3 * o)
    BY <1>3, <1>4, SMT
  <2>10. (- E2) * rr \in Int /\ E3 * o \in Int /\ (zz * fu) * ((1 + d) * xy) \in Int
    BY <1>1, <1>3, <1>4, <2>6
  <2> QED
    BY <1>3, <2>6, <2>7, <2>8, <2>9, <2>10 DEF rr
<1>8. E3 = k + 1
  BY <1>3
<1>9. N = (1 - c) * (((- E2) * r + (- E3) * o) + (1 * k + (- E1) * g))
  <2>1. E1 * (1 - c * c) - 1 = (E1 * (1 + x * x) - E1 * g) - 1
    <3> HIDE DEF E1
    <3> QED
      BY <1>3, SMT
  <2> HIDE DEF E1, E2, E3, r, o, k, g, N
  <2>2. E1 * (1 - c * c) - 1 = ((- E2) * r + (- E3) * o) + (1 * k + (- E1) * g)
    <3>1. (- E1) * g = - (E1 * g) /\ E1 * g \in Int /\ 1 * k = k
      BY <1>3, <1>4, SMT
    <3>2. (- E2) * r \in Int /\ (- E3) * o \in Int
      BY <1>3, <1>4
    <3> QED
      BY <1>3, <1>4, <1>7, <1>8, <2>1, <3>1, <3>2
  <2> QED
    BY <1>6, <2>2
<1> HIDE DEF E1, E2, E3, r, o, k, g, N
<1>10. Zero((- E2) * r + (- E3) * o) /\ Zero(1 * k + (- E1) * g)
  BY <1>1, <1>3, <1>4, <1>5, ZeroCombines
<1> DEFINE s == (- E2) * r + (- E3) * o
           t == 1 * k + (- E1) * g
<1>11. Zero(1 * s + 1 * t)
  <2> HIDE DEF s, t
  <2>1. Zero(s) /\ Zero(t)
    BY <1>10 DEF s, t
  <2> QED
    BY <1>4, <2>1, ZeroCombines
<1>12. 1 * s + 1 * t = s + t
  <2>1. s \in Int /\ t \in Int
    BY <1>10 DEF Zero
  <2> HIDE DEF s, t
  <2> QED
    BY <2>1
<1> HIDE DEF s, t
<1>13. Zero((1 - c) * (s + t))
  BY <1>4, <1>11, <1>12, ZeroTimes
<1> QED
  BY <1>9, <1>13 DEF s, t

\* An even multiple other than the four points: its 1 - y^2 is the square of a
\* number that is not 0.
LEMMA EvenRoot ==
  ASSUME NEW e \in Even
  PROVE  LET a == Multiples[e] IN
         /\ e \in Exponents /\ a \in Field \X Field /\ a = <<a[1], a[2]>>
         /\ a[1] \in Field /\ a[2] \in Field /\ Zero(Curve(a[1], a[2]))
         /\ \E w \in Field : /\ Zero((1 - a[2] * a[2]) - w * w)
                             /\ a[1] # 0 => w # 0
<1> DEFINE a == Multiples[e]
           x == a[1]
           y == a[2]
<1>1. e \in Exponents /\ e \in 0 .. Order - 1 /\ e % 2 = 0
  BY DEF Even, Exponents
<1>2. a \in Field \X Field /\ OnCurve(a)
  BY <1>1, CurveAssumption
<1>3. PICK w \in Field : Square(w) = Sub(1, Square(y))
  BY <1>1, CurveAssumption
<1>4. a = <<x, y>> /\ x \in Field /\ y \in Field
  BY <1>2
<1> HIDE DEF a, x, y
<1>5. Zero(Curve(x, y)) /\ x \in Int /\ y \in Int
  BY <1>2, <1>4, CurveEquation
<1>6. Is(y, y) /\ Is(w, w) /\ w \in Int /\ (Zero(x) <=> x = 0) /\ (Zero(w) <=> w = 0)
  BY <1>3, <1>4, ZeroOfField
<1>7. Is(Square(w), w * w) /\ Is(Square(y), y * y)
  BY <1>6, IsArithmetic DEF Square
<1>8. Is(Sub(1, Square(y)), 1 - y * y)
  BY <1>7, IsConstant, IsArithmetic
<1>9. Zero((1 - y * y) - w * w)
  <2>1. Is(Square(w), 1 - y * y)
    BY <1>3, <1>8
  <2>2. Square(w) = Square(w) <=> Zero((1 - y * y) - w * w)
    BY <1>7, <2>1, IsSame
  <2> QED
    BY <2>2
<1>10. x # 0 => w # 0
  <2>1. SUFFICES ASSUME x # 0, w = 0 PROVE FALSE
    OBVIOUS
  <2>2. ~Zero(1 - y * y)
    BY <1>5, <1>6, <2>1, CurveDivides
  <2>3. (1 - y * y) - w * w = 1 - y * y
    BY <1>5, <2>1
  <2> QED
    BY <1>9, <2>2, <2>3
<1> QED
  BY <1>1, <1>2, <1>3, <1>4, <1>5, <1>9, <1>10 DEF a, x, y

\* What group_ge_pack takes the root of is 0 or a square.
LEMMA PackTakesRoot ==
  ASSUME NEW e \in Even, NEW q, Represents(q, e)
  PROVE  LET u1 == Mul(Sub(q.z, q.y), Add(q.z, q.y))
             u2 == Mul(q.x, q.y)
             R == Mul(Square(u2), u1)
             i == fe25519_invsqrt(R)
         IN /\ u1 \in Field /\ u2 \in Field /\ R \in Field /\ i \in Field
            /\ Multiples[e] \in Pairs => Mul(Square(i), R) = 1
            /\ Multiples[e] \notin Pairs => i = 0
<1> DEFINE u1 == Mul(Sub(q.z, q.y), Add(q.z, q.y))
           u2 == Mul(q.x, q.y)
           R == Mul(Square(u2), u1)
           i == fe25519_invsqrt(R)
           x == Multiples[e][1]
           y == Multiples[e][2]
           z == q.z
           U1 == (z - y * z) * (z + y * z)
           U2 == (x * z) * (y * z)
<1>1. PICK w \in Field : /\ Zero((1 - y * y) - w * w)
                         /\ x # 0 => w # 0
  BY EvenRoot
<1>2. e \in Exponents /\ Multiples[e] = <<x, y>> /\ x \in Field /\ y \in Field
  BY EvenRoot
<1>3. Multiples[e] \in Pairs <=> x # 0 /\ y # 0
  BY <1>2 DEF Pairs
<1>4. /\ x \in Int /\ y \in Int /\ z \in Int /\ z \in Field /\ z # 0
      /\ Is(z, z) /\ Is(q.x, x * z) /\ Is(q.y, y * z)
  BY <1>2, Coordinates
<1>5. Is(x, x) /\ Is(y, y) /\ Is(w, w) /\ w \in Int
  BY <1>1, <1>2, ZeroOfField
<1> HIDE DEF x, y, z
<1>6. Is(u1, U1) /\ Is(u2, U2)
  <2>1. Is(Sub(q.z, q.y), z - y * z) /\ Is(Add(q.z, q.y), z + y * z)
    BY <1>4, IsArithmetic DEF z
  <2> QED
    BY <1>4, <2>1, IsArithmetic
<1>7. U1 \in Int /\ U2 \in Int /\ u1 \in Field /\ u2 \in Field
  BY <1>6, IsUnique
<1> HIDE DEF u1, u2
<1>8. Is(R, (U2 * U2) * U1)
  BY <1>6, IsArithmetic DEF Square
<1>9. R \in Field
  BY <1>8, IsUnique
<1>10. i \in Field
  BY <1>9, RootIsResidue
<1>11. ASSUME x # 0, y # 0
       PROVE  Mul(Square(i), R) = 1
  <2> DEFINE v == Mul(u2, Mul(z, w))
  <2>1. Is(v, U2 * (z * w)) /\ v \in Field
    <3>1. Is(v, U2 * (z * w))
      BY <1>4, <1>5, <1>6, IsArithmetic
    <3> QED
      BY <3>1, IsUnique
  <2>2. u2 # 0
    <3>1. Is(Mul(Mul(x, z), Mul(y, z)), U2)
      BY <1>4, <1>5, IsArithmetic
    <3>2. u2 = Mul(Mul(x, z), Mul(y, z))
      BY <1>6, <3>1, IsUnique
    <3>3. Mul(x, z) \in Field /\ Mul(y, z) \in Field /\ Mul(x, z) # 0 /\ Mul(y, z) # 0
      BY <1>2, <1>4, <1>11, NoZeroDivisors, FieldIsClosed
    <3> QED
      BY <3>2, <3>3, NoZeroDivisors
  <2>3. v # 0
    <3>1. Mul(z, w) # 0 /\ Mul(z, w) \in Field
      BY <1>1, <1>4, <1>11, NoZeroDivisors, FieldIsClosed
    <3> QED
      BY <1>7, <2>2, <3>1, NoZeroDivisors
  <2> HIDE DEF v
  <2>4. Is(Square(v), (U2 * (z * w)) * (U2 * (z * w)))
    BY <2>1, IsArithmetic DEF Square
  <2>5. R = Square(v)
    <3> DEFINE g == (1 - y * y) - w * w
               c == (U2 * U2) * (z * z)
    <3>1. c \in Int /\ Zero(g)
      BY <1>1, <1>4, <1>7
    <3>2. c * g = (U2 * U2) * U1 - (U2 * (z * w)) * (U2 * (z * w))
      <4> HIDE DEF U2
      <4>1. /\ (z * z) * ((1 - y * y) - w * w) = U1 - (z * w) * (z * w)
        BY <1>4, <1>5, SMT
      <4> DEFINE zw == z * w
                 zz == z * z
                 gg == (1 - y * y) - w * w
      <4>2. zz \in Int /\ gg \in Int /\ zw \in Int
        BY <1>4, <1>5
      <4>3. zz * gg = U1 - zw * zw
        BY <4>1
      <4> HIDE DEF zw, zz, gg, U1
      <4>4. (U2 * U2) * (zz * gg) = (U2 * U2) * U1 - (U2 * zw) * (U2 * zw)
        BY <1>7, <4>2, <4>3, SMT
      <4>5. ((U2 * U2) * zz) * gg = (U2 * U2) * (zz * gg)
        BY <1>7, <4>2, SMT
      <4> QED
        BY <4>4, <4>5 DEF zw, zz, gg
    <3>3. Zero(c * g)
      <4> HIDE DEF c, g
      <4> QED
        BY <3>1, ZeroTimes
    <3> HIDE DEF c, g
    <3>4. Zero((U2 * U2) * U1 - (U2 * (z * w)) * (U2 * (z * w)))
      BY <3>2, <3>3
    <3> QED
      BY <1>8, <2>4, <3>4, IsSame
  <2> QED
    BY <2>1, <2>3, <2>5, RootOfSquare
<1>12. ASSUME x = 0 \/ y = 0
       PROVE  i = 0
  <2>1. U2 = 0
    BY <1>4, <1>12
  <2>2. (U2 * U2) * U1 = 0
    BY <1>7, <2>1
  <2>3. R = 0
    BY <1>8, <2>2, IsConstant, IsUnique
  <2> QED
    BY <2>3, RootOfZero
<1> QED
  BY <1>3, <1>7, <1>9, <1>10, <1>11, <1>12 DEF u1, u2

\* The four points are packed to 0.
LEMMA PackDegenerate ==
  ASSUME NEW e \in Even, NEW q, Represents(q, e), Multiples[e] \notin Pairs
  PROVE  group_ge_pack(q) = 0
<1> DEFINE u1 == Mul(Sub(q.z, q.y), Add(q.z, q.y))
           u2 == Mul(q.x, q.y)
           i == fe25519_invsqrt(Mul(Square(u2), u1))
           i1 == Mul(i, u1)
           i2 == Mul(i, u2)
           zinv == Mul(Mul(i1, i2), q.t)
           rotate == Rotate(Mul(zinv, q.t))
           nx == IF rotate THEN Mul(q.y, sqrtm1) ELSE q.x
           ny == IF rotate THEN Mul(q.x, sqrtm1) ELSE q.y
           deninv == IF rotate THEN Mul(magic, i1) ELSE i2
           y == IF isnegative(Mul(nx, zinv)) THEN Neg(ny) ELSE ny
           m == Sub(q.z, y)
<1>1. i = 0 /\ u1 \in Field /\ u2 \in Field
  BY PackTakesRoot
<1>2. e \in Exponents /\ sqrtm1 \in Field /\ magic \in Field
  BY EvenRoot, ConstantsSatisfy
<1>3. q.x \in Field /\ q.y \in Field /\ q.z \in Field /\ q.t \in Field
  BY <1>2, PointIsOfField
<1>4. group_ge_pack(q) = Positive(Mul(m, deninv))
  BY DEF group_ge_pack
<1>5. \A a \in Field : Mul(0, a) = 0 /\ Mul(a, 0) = 0
  BY PrimeIsPositive DEF Mul, Field
<1> HIDE DEF u1, u2, i
<1>6. i1 = 0 /\ i2 = 0
  BY <1>1, <1>5
<1> HIDE DEF i1, i2, rotate
<1>7. deninv = 0
  BY <1>2, <1>5, <1>6
<1>8. m \in Field
  <2>1. ny \in Field
    BY <1>2, <1>3, FieldIsClosed
  <2> HIDE DEF ny, nx, zinv
  <2>2. y \in Field
    BY <2>1, FieldIsClosed
  <2> HIDE DEF y
  <2> QED
    BY <1>3, <2>2, FieldIsClosed
<1> HIDE DEF m, deninv
<1>9. Mul(m, deninv) = 0 /\ ~isnegative(0)
  BY <1>5, <1>7, <1>8 DEF isnegative
<1> QED
  BY <1>4, <1>9 DEF Positive

\* Every other multiple is packed to a root of (1 - c) / (1 + c), c being the
\* second coordinate of the point it is folded to.
LEMMA PackRoot ==
  ASSUME NEW e \in Even, NEW q, Represents(q, e), Multiples[e] \in Pairs
  PROVE  LET s == group_ge_pack(q) IN
         s \in Field /\ ~isnegative(s) /\ Root(s, Folded(Multiples[e])[2])
<1> DEFINE u1 == Mul(Sub(q.z, q.y), Add(q.z, q.y))
           u2 == Mul(q.x, q.y)
           i == fe25519_invsqrt(Mul(Square(u2), u1))
           i1 == Mul(i, u1)
           i2 == Mul(i, u2)
           zinv == Mul(Mul(i1, i2), q.t)
           rotate == Rotate(Mul(zinv, q.t))
           nx == IF rotate THEN Mul(q.y, sqrtm1) ELSE q.x
           ny == IF rotate THEN Mul(q.x, sqrtm1) ELSE q.y
           deninv == IF rotate THEN Mul(magic, i1) ELSE i2
           yy == IF isnegative(Mul(nx, zinv)) THEN Neg(ny) ELSE ny
           m == Mul(Sub(q.z, yy), deninv)
           a == Multiples[e]
           x == a[1]
           y == a[2]
           z == q.z
           c == Folded(a)[2]
           U1 == (z - y * z) * (z + y * z)
           U2 == (x * z) * (y * z)
           K == (i * i) * ((U2 * U2) * U1) - 1
           Zi == ((i * U1) * (i * U2)) * ((x * y) * z)
<1>1. /\ e \in Exponents /\ a = <<x, y>> /\ x \in Field /\ y \in Field
      /\ Zero(Curve(x, y))
  BY EvenRoot
<1>2. /\ u1 \in Field /\ u2 \in Field /\ i \in Field
      /\ Mul(Square(i), Mul(Square(u2), u1)) = 1
  BY PackTakesRoot
<1>3. /\ x \in Int /\ y \in Int /\ z \in Int /\ z \in Field /\ z # 0
      /\ Is(x, x) /\ Is(y, y) /\ Is(z, z)
      /\ Is(q.x, x * z) /\ Is(q.y, y * z) /\ Is(q.t, (x * y) * z)
  BY <1>1, Coordinates
<1>4. group_ge_pack(q) = Positive(m)
  BY DEF group_ge_pack
<1>5. Is(i, i) /\ i \in Int /\ Is(sqrtm1, sqrtm1) /\ Is(magic, magic) /\ sqrtm1 \in Int /\ magic \in Int
  BY <1>2, ConstantsSatisfy, ZeroOfField
<1>6. a \in Pairs
  OBVIOUS
<1> HIDE DEF a, x, y, z, i
<1>7. Is(u1, U1) /\ Is(u2, U2)
  <2>1. Is(Sub(q.z, q.y), z - y * z) /\ Is(Add(q.z, q.y), z + y * z)
    BY <1>3, IsArithmetic DEF z
  <2> QED
    BY <1>3, <2>1, IsArithmetic
<1>8. U1 \in Int /\ U2 \in Int
  BY <1>7, IsUnique
<1> HIDE DEF u1, u2
<1>9. Zero(K)
  <2>1. Is(Mul(Square(i), Mul(Square(u2), u1)), (i * i) * ((U2 * U2) * U1))
    <3>1. Is(Mul(Square(u2), u1), (U2 * U2) * U1) /\ Is(Square(i), i * i)
      BY <1>5, <1>7, IsArithmetic DEF Square
    <3> QED
      BY <3>1, IsArithmetic
  <2>2. Is(1, (i * i) * ((U2 * U2) * U1))
    BY <1>2, <2>1
  <2> HIDE DEF U1, U2
  <2> QED
    BY <2>2, IsConstant, IsSame
<1>10. Is(i1, i * U1) /\ Is(i2, i * U2) /\ Is(zinv, Zi)
  <2>1. Is(i1, i * U1) /\ Is(i2, i * U2)
    BY <1>5, <1>7, IsArithmetic
  <2>2. Is(Mul(i1, i2), (i * U1) * (i * U2))
    BY <2>1, IsArithmetic
  <2> HIDE DEF i1, i2, U1, U2
  <2>3. Is(zinv, Zi)
    BY <1>3, <2>2, IsArithmetic
  <2> QED
    BY <2>1, <2>3
\* zinv is the reciprocal of z.
<1>11. Zi \in Int /\ Is(1, Zi * z)
  <2>1. Zi \in Int
    BY <1>10, IsUnique
  <2>2. Zi * z = (i * i) * ((U2 * U2) * U1)
    <3>1. U2 = (x * y) * (z * z)
      BY <1>3, SMT
    <3> DEFINE xy == x * y
    <3>2. xy \in Int /\ Zi = ((i * U1) * (i * U2)) * (xy * z) /\ U2 = xy * (z * z)
      BY <1>3, <3>1
    <3> HIDE DEF xy, U1, U2, Zi
    <3>3. (((i * U1) * (i * U2)) * (xy * z)) * z = ((i * U1) * (i * U2)) * (xy * (z * z))
      BY <1>3, <1>5, <1>8, <3>2, SMT
    <3>4. ((i * U1) * (i * U2)) * U2 = (i * i) * ((U2 * U2) * U1)
      BY <1>5, <1>8, SMT
    <3> QED
      BY <3>2, <3>3, <3>4
  <2> HIDE DEF Zi, U1, U2
  <2> DEFINE ii == (i * i) * ((U2 * U2) * U1)
  <2>3. K = ii - 1 /\ ii \in Int
    BY <1>5, <1>8
  <2> HIDE DEF ii, K
  <2>4. 1 % p = ii % p
    <3>1. PICK k \in Int : K = p * k
      BY <1>9 DEF Zero
    <3>2. ii = 1 + p * k
      BY <2>3, <3>1, PrimeIsPositive
    <3> QED
      BY <2>3, <3>1, <3>2, PrimeIsPositive, Remainder
  <2>5. Is(1, 1)
    BY IsConstant
  <2> QED
    BY <2>1, <2>2, <2>3, <2>4, <2>5 DEF Is, ii
<1> HIDE DEF i1, i2, zinv, Zi, U1, U2, K
<1>12. Mul(zinv, q.t) = Mul(x, y)
  <2>1. Is(Mul(zinv, q.t), Zi * ((x * y) * z))
    BY <1>3, <1>10, IsArithmetic
  <2>2. Is(Mul(x, y), x * y)
    BY <1>3, IsArithmetic
  <2>3. Is(Mul(x, y), (Zi * z) * (x * y))
    BY <1>11, <2>2, IsTimesOne
  <2>4. Zi * ((x * y) * z) = (Zi * z) * (x * y)
    BY <1>3, <1>11, SMT
  <2> QED
    BY <2>1, <2>3, <2>4, IsUnique
<1> DEFINE b == IF rotate THEN Turned(a) ELSE a
<1>13. /\ rotate <=> isnegative(Mul(a[1], a[2]))
       /\ Folded(a) = IF isnegative(b[1]) THEN Opposite(b) ELSE b
  BY <1>12 DEF Rotate, Folded, x, y
<1> HIDE DEF rotate
<1>14. ASSUME NEW g, NEW G \in Int, Is(g, G), g \in Field
       PROVE  Mul(Mul(g, z), zinv) = g
  <2>1. Is(Mul(Mul(g, z), zinv), (G * z) * Zi)
    BY <1>3, <1>10, <1>14, IsArithmetic
  <2>2. Is(g, (Zi * z) * G)
    BY <1>11, <1>14, IsTimesOne
  <2>3. (G * z) * Zi = (Zi * z) * G
    BY <1>3, <1>11, <1>14, SMT
  <2> QED
    BY <2>1, <2>2, <2>3, IsUnique
<1>15. /\ b[1] \in Field /\ b[2] \in Field /\ Is(b[1], b[1]) /\ b[1] \in Int
       /\ Is(b[2], b[2]) /\ b[2] \in Int
  <2>1. b \in Pairs
    BY <1>6, TurnedFacts
  <2>2. b[1] \in Field /\ b[2] \in Field
    BY <2>1 DEF Pairs
  <2> QED
    BY <2>2, ZeroOfField
<1>16. nx = Mul(b[1], z) /\ ny = Mul(b[2], z)
  <2>1. CASE rotate
    <3>1. b[1] = Mul(y, sqrtm1) /\ b[2] = Mul(x, sqrtm1)
      BY <2>1 DEF Turned, x, y
    <3>2. nx = Mul(q.y, sqrtm1) /\ ny = Mul(q.x, sqrtm1)
      BY <2>1
    <3>3. /\ Is(Mul(q.y, sqrtm1), (y * z) * sqrtm1) /\ Is(Mul(q.x, sqrtm1), (x * z) * sqrtm1)
          /\ Is(Mul(Mul(y, sqrtm1), z), (y * sqrtm1) * z)
          /\ Is(Mul(Mul(x, sqrtm1), z), (x * sqrtm1) * z)
      BY <1>3, <1>5, IsArithmetic
    <3>4. (y * z) * sqrtm1 = (y * sqrtm1) * z /\ (x * z) * sqrtm1 = (x * sqrtm1) * z
      BY <1>3, <1>5, SMT
    <3>5. Mul(q.y, sqrtm1) = Mul(Mul(y, sqrtm1), z)
      BY <3>3, <3>4, IsUnique
    <3>6. Mul(q.x, sqrtm1) = Mul(Mul(x, sqrtm1), z)
      BY <3>3, <3>4, IsUnique
    <3> QED
      BY <3>1, <3>2, <3>5, <3>6
  <2>2. CASE ~rotate
    <3>1. nx = q.x /\ ny = q.y /\ b[1] = x /\ b[2] = y
      BY <2>2 DEF x, y
    <3>2. Is(Mul(x, z), x * z) /\ Is(Mul(y, z), y * z)
      BY <1>3, IsArithmetic
    <3>3. q.x = Mul(x, z)
      BY <1>3, <3>2, IsUnique
    <3>4. q.y = Mul(y, z)
      BY <1>3, <3>2, IsUnique
    <3> QED
      BY <3>1, <3>3, <3>4
  <2> QED
    BY <2>1, <2>2
<1> HIDE DEF b, nx, ny
<1>17. Mul(nx, zinv) = b[1]
  BY <1>14, <1>15, <1>16
<1>18. c = IF isnegative(b[1]) THEN Neg(b[2]) ELSE b[2]
  BY <1>13 DEF Opposite
<1>19. c \in Field /\ Is(c, c) /\ c \in Int
  <2>1. c \in Field
    BY <1>15, <1>18, NegOf
  <2> HIDE DEF c
  <2> QED
    BY <2>1, ZeroOfField
<1>20. Is(yy, c * z)
  <2>1. yy = IF isnegative(b[1]) THEN Neg(Mul(b[2], z)) ELSE Mul(b[2], z)
    BY <1>16, <1>17
  <2>2. Neg(Mul(b[2], z)) = Mul(Neg(b[2]), z)
    <3>1. Is(Neg(Mul(b[2], z)), - (b[2] * z)) /\ Is(Mul(Neg(b[2]), z), (- b[2]) * z)
      BY <1>3, <1>15, IsArithmetic
    <3>2. - (b[2] * z) = (- b[2]) * z
      BY <1>3, <1>15, SMT
    <3> QED
      BY <3>1, <3>2, IsUnique
  <2>3. yy = Mul(c, z)
    BY <1>18, <2>1, <2>2
  <2> HIDE DEF yy, c
  <2> QED
    BY <1>3, <1>19, <2>3, IsArithmetic
<1>21. Square(c) = Square(b[2])
  <2>1. Square(Neg(b[2])) = Square(b[2])
    <3>1. Is(Mul(Neg(b[2]), Neg(b[2])), (- b[2]) * (- b[2])) /\ Is(Mul(b[2], b[2]), b[2] * b[2])
      BY <1>15, IsArithmetic
    <3>2. (- b[2]) * (- b[2]) = b[2] * b[2]
      BY <1>15, SMT
    <3> QED
      BY <3>1, <3>2, IsUnique DEF Square
  <2> QED
    BY <1>18, <2>1
<1> HIDE DEF c, yy
<1>22. Is(Sub(q.z, yy), z - c * z)
  BY <1>3, <1>20, IsArithmetic DEF z
<1> DEFINE D == IF rotate THEN magic * (i * U1) ELSE i * U2
           M == (z - c * z) * D
<1>23. Is(deninv, D) /\ D \in Int
  <2>1. Is(Mul(magic, i1), magic * (i * U1))
    BY <1>5, <1>10, IsArithmetic
  <2>2. Is(deninv, D)
    BY <1>10, <2>1
  <2> QED
    BY <2>2, IsUnique
<1> HIDE DEF deninv
<1>24. Is(m, M) /\ M \in Int
  <2>1. Is(m, M)
    BY <1>22, <1>23, IsArithmetic
  <2> QED
    BY <2>1, IsUnique
<1>25. Zero((M * M) * (1 + c) - (1 - c))
  <2>1. CASE ~rotate
    <3>1. Zero(y * y - c * c)
      <4>1. b[2] = y
        BY <2>1 DEF b, y
      <4>2. Is(Square(c), c * c) /\ Is(Square(y), y * y)
        BY <1>3, <1>19, IsArithmetic DEF Square
      <4> QED
        BY <1>21, <4>1, <4>2, IsSame
    <3>2. Zero((i * i) * ((((x * z) * (y * z)) * ((x * z) * (y * z))) * ((z - y * z) * (z + y * z))) - 1)
      BY <1>9 DEF K, U1, U2
    <3>3. M = (z - c * z) * (i * ((x * z) * (y * z)))
      BY <2>1 DEF D, U2
    <3> HIDE DEF M, D
    <3> QED
      BY <1>3, <1>5, <1>19, <3>1, <3>2, <3>3, StraightRoot
  <2>2. CASE rotate
    <3>1. Zero(c * c + x * x)
      <4>1. b[2] = Mul(x, sqrtm1)
        BY <2>2 DEF b, Turned, x
      <4>2. Is(Square(c), c * c) /\ Is(Square(Mul(x, sqrtm1)), (x * sqrtm1) * (x * sqrtm1))
        BY <1>3, <1>5, <1>19, IsArithmetic DEF Square
      <4>3. Zero(c * c - (x * sqrtm1) * (x * sqrtm1))
        BY <1>21, <4>1, <4>2, IsSame
      <4> DEFINE g == c * c - (x * sqrtm1) * (x * sqrtm1)
                 h == sqrtm1 * sqrtm1 + 1
                 X == x * x
      <4>4. Zero(g) /\ Zero(h) /\ X \in Int /\ 1 \in Int
        BY <1>3, <4>3, ConstantsSatisfy
      <4>5. 1 * g + X * h = c * c + x * x
        BY <1>3, <1>5, <1>19, SMT
      <4> HIDE DEF g, h, X
      <4>6. Zero(1 * g + X * h)
        BY <4>4, ZeroCombines
      <4> QED
        BY <4>5, <4>6
    <3>2. Zero((i * i) * ((((x * z) * (y * z)) * ((x * z) * (y * z))) * ((z - y * z) * (z + y * z))) - 1)
      BY <1>9 DEF K, U1, U2
    <3>3. M = (z - c * z) * (magic * (i * ((z - y * z) * (z + y * z))))
      BY <2>2 DEF D, U1
    <3> HIDE DEF M, D
    <3> QED
      BY <1>1, <1>3, <1>5, <1>19, <3>1, <3>2, <3>3, TurnedRoot
  <2> QED
    BY <2>1, <2>2
<1> HIDE DEF m, M, D
<1> DEFINE s == Positive(m)
<1>26. m \in Field /\ s \in Field /\ ~isnegative(s) /\ Square(s) = Square(m)
  <2>1. m \in Field
    BY <1>24, IsUnique
  <2> QED
    BY <2>1, PositiveIs
<1> HIDE DEF s
<1>27. Is(s, s) /\ s \in Int
  BY <1>26, ZeroOfField
<1>28. Root(s, c)
  <2>1. Is(Square(s), s * s) /\ Is(Square(m), M * M)
    BY <1>24, <1>27, IsArithmetic DEF Square
  <2>2. Zero(s * s - M * M)
    BY <1>26, <2>1, IsSame
  <2> DEFINE g == s * s - M * M
             h == (M * M) * (1 + c) - (1 - c)
             f == 1 + c
  <2>3. Zero(g) /\ Zero(h) /\ f \in Int /\ 1 \in Int
    BY <1>19, <1>25, <2>2
  <2>4. f * g + 1 * h = (s * s) * (1 + c) - (1 - c)
    <3> DEFINE sq == s * s
               mm == M * M
    <3>1. sq \in Int /\ mm \in Int
      BY <1>24, <1>27
    <3> HIDE DEF sq, mm
    <3>2. (1 + c) * (sq - mm) + 1 * (mm * (1 + c) - (1 - c)) = sq * (1 + c) - (1 - c)
      BY <1>19, <3>1, SMT
    <3> QED
      BY <3>2 DEF sq, mm
  <2> HIDE DEF f, g, h
  <2>5. Zero(f * g + 1 * h)
    BY <2>3, ZeroCombines
  <2> QED
    BY <2>4, <2>5 DEF Root
<1> QED
  BY <1>4, <1>26, <1>28 DEF s, c, a

\* A square has one root that is not negative.
LEMMA SquaresAgree ==
  ASSUME NEW s \in Field, NEW t \in Field, ~isnegative(s), ~isnegative(t), Zero(s * s - t * t)
  PROVE  s = t
<1>1. Is(s, s) /\ Is(t, t) /\ s \in Int /\ t \in Int /\ Is(Neg(t), - t)
  BY ZeroOfField, IsArithmetic
<1>2. s - t \in Int /\ s + t \in Int /\ s * s - t * t = (s - t) * (s + t)
  BY <1>1, SMT
<1>3. Zero(s - t) \/ Zero(s + t)
  <2> DEFINE f == s - t
             g == s + t
  <2>1. f \in Int /\ g \in Int /\ Zero(f * g)
    BY <1>2
  <2> HIDE DEF f, g
  <2>2. Zero(f) \/ Zero(g)
    BY <2>1, ZeroFactor
  <2> QED
    BY <2>2 DEF f, g
<1>4. CASE Zero(s - t)
  BY <1>1, <1>4, IsSame
<1>5. CASE Zero(s + t)
  <2>1. s + t = s - (- t)
    BY <1>1
  <2>2. Zero(s - (- t))
    BY <1>5, <2>1
  <2>3. s = Neg(t)
    BY <1>1, <2>2, IsSame
  <2>4. t = 0
    BY <2>3, NegOf
  <2>5. Neg(0) = 0
    BY PrimeIsPositive DEF Neg
  <2> QED
    BY <2>3, <2>4, <2>5
<1> QED
  BY <1>3, <1>4, <1>5

\* Neither side of s^2 (1 + c) = 1 - c is a product with 0.
LEMMA RootDivides ==
  ASSUME NEW s \in Int, NEW c \in Int, Root(s, c)
  PROVE  ~Zero(1 + c) /\ ~Zero(1 + s * s)
<1> DEFINE sq == s * s
           r == sq * (1 + c) - (1 - c)
           f == 1 + c
           g == 1 + sq
<1>1. sq \in Int /\ Zero(r)
  BY DEF Root
<1> HIDE DEF sq
<1>2. /\ (sq + 1) * f + (-1) * r = 2
      /\ (1 + c) * g + (-1) * r = 2
  BY <1>1, SMT
<1>3. sq + 1 \in Int /\ 1 + c \in Int /\ -1 \in Int
  BY <1>1
<1> HIDE DEF f, g, r
<1>4. ~Zero(f)
  <2>1. SUFFICES ASSUME Zero(f) PROVE FALSE
    OBVIOUS
  <2>2. Zero((sq + 1) * f + (-1) * r)
    BY <1>1, <1>3, <2>1, ZeroCombines
  <2> QED
    BY <1>2, <2>2, NotZero
<1>5. ~Zero(g)
  <2>1. SUFFICES ASSUME Zero(g) PROVE FALSE
    OBVIOUS
  <2>2. Zero((1 + c) * g + (-1) * r)
    BY <1>1, <1>3, <2>1, ZeroCombines
  <2> QED
    BY <1>2, <2>2, NotZero
<1> QED
  BY <1>4, <1>5 DEF f, g, sq

\* What is packed is known from the point it is folded to.
LEMMA RootIsUnique ==
  ASSUME NEW s \in Field, NEW t \in Field, ~isnegative(s), ~isnegative(t),
         NEW c \in Int, Root(s, c), Root(t, c)
  PROVE  s = t
<1>1. s \in Int /\ t \in Int
  BY ZeroOfField
<1> DEFINE sq == s * s
           tt == t * t
           g == sq * (1 + c) - (1 - c)
           h == tt * (1 + c) - (1 - c)
           f == 1 + c
           e == sq - tt
<1>2. sq \in Int /\ tt \in Int /\ Zero(g) /\ Zero(h)
  BY <1>1 DEF Root
<1> HIDE DEF sq, tt
<1>3. 1 * g + (-1) * h = f * e
  BY <1>2, SMT
<1>4. 1 \in Int /\ -1 \in Int /\ f \in Int /\ e \in Int
  BY <1>2
<1>5. ~Zero(f)
  BY <1>1, RootDivides
<1> HIDE DEF f, e, g, h
<1>6. Zero(1 * g + (-1) * h)
  BY <1>2, <1>4, ZeroCombines
<1>7. Zero(f * e)
  BY <1>3, <1>6
<1>8. Zero(e)
  BY <1>4, <1>5, <1>7, ZeroFactor
<1> QED
  BY <1>8, SquaresAgree DEF e, sq, tt

\* And the point it is folded to is known from what is packed.
LEMMA FoldedIsUnique ==
  ASSUME NEW a \in Field \X Field, NEW b \in Field \X Field,
         Zero(Curve(a[1], a[2])), Zero(Curve(b[1], b[2])),
         ~isnegative(a[1]), ~isnegative(b[1]),
         NEW s \in Int, Root(s, a[2]), Root(s, b[2])
  PROVE  a = b
<1> DEFINE x == a[1]
           c == a[2]
           y == b[1]
           k == b[2]
<1>1. /\ x \in Field /\ c \in Field /\ y \in Field /\ k \in Field
      /\ a = <<x, c>> /\ b = <<y, k>>
  OBVIOUS
<1>2. /\ Zero(Curve(x, c)) /\ Zero(Curve(y, k)) /\ ~isnegative(x) /\ ~isnegative(y)
      /\ Root(s, c) /\ Root(s, k)
  OBVIOUS
<1> HIDE DEF x, c, y, k
<1>3. /\ x \in Int /\ c \in Int /\ y \in Int /\ k \in Int
      /\ Is(c, c) /\ Is(k, k)
  BY <1>1, ZeroOfField
<1>4. c = k
  <2> DEFINE sq == s * s
             g == sq * (1 + c) - (1 - c)
             h == sq * (1 + k) - (1 - k)
             f == 1 + sq
             e == c - k
  <2>1. sq \in Int /\ Zero(g) /\ Zero(h)
    BY <1>2 DEF Root
  <2>2. ~Zero(f)
    BY <1>2, <1>3, RootDivides
  <2> HIDE DEF sq
  <2>3. 1 * g + (-1) * h = f * e
    BY <1>3, <2>1, SMT
  <2>4. 1 \in Int /\ -1 \in Int /\ f \in Int /\ e \in Int
    BY <1>3, <2>1
  <2> HIDE DEF f, e, g, h
  <2>5. Zero(1 * g + (-1) * h)
    BY <2>1, <2>4, ZeroCombines
  <2>6. Zero(f * e)
    BY <2>3, <2>5
  <2>7. Zero(e)
    BY <2>2, <2>4, <2>6, ZeroFactor
  <2> QED
    BY <1>3, <2>7, IsSame DEF e
<1>5. Zero(x * x - y * y)
  <2> DEFINE xx == x * x
             yy == y * y
             cc == c * c
             g == (cc - xx) - (1 + d * (xx * cc))
             h == (cc - yy) - (1 + d * (yy * cc))
             f == 1 + d * cc
             e == xx - yy
  <2>1. Zero(g) /\ Zero(h)
    BY <1>2, <1>4 DEF Curve
  <2>2. ~Zero(f)
    BY <1>2, <1>3, CurveDivides
  <2>3. d \in Int /\ xx \in Int /\ yy \in Int /\ cc \in Int
    BY <1>3, ConstantsSatisfy
  <2> HIDE DEF xx, yy, cc
  <2>4. (-1) * g + 1 * h = f * e
    BY <2>3, SMT
  <2>5. 1 \in Int /\ -1 \in Int /\ f \in Int /\ e \in Int
    BY <2>3
  <2> HIDE DEF f, e, g, h
  <2>6. Zero((-1) * g + 1 * h)
    BY <2>1, <2>5, ZeroCombines
  <2>7. Zero(f * e)
    BY <2>4, <2>6
  <2>8. Zero(e)
    BY <2>2, <2>5, <2>7, ZeroFactor
  <2> QED
    BY <2>8 DEF e, xx, yy
<1>6. x = y
  BY <1>1, <1>2, <1>5, SquaresAgree
<1> QED
  BY <1>1, <1>4, <1>6

\* The four points are those with a coordinate 0.
LEMMA DegenerateExponents ==
  ASSUME NEW e \in Exponents
  PROVE  Multiples[e] \notin Pairs <=> SamePacked(0, e)
<1> DEFINE x == Multiples[e][1]
           y == Multiples[e][2]
           i == sqrtm1
           N == <<0, 1>>
<1>1. 0 \in Exponents /\ Multiples[0] = <<0, 1>>
  BY Orders, CurveAssumption DEF Exponents
<1>2. SamePacked(0, e) <=> Multiples[e] \in Coset(<<0, 1>>)
  BY <1>1, CosetExponents
<1>3. i \in Field /\ i \in Int /\ Is(i, i) /\ Is(Neg(i), - i) /\ Is(Neg(1), -1) /\ Is(1, 1)
  BY ConstantsSatisfy, ZeroOfField, IsConstant, IsArithmetic
<1>4. Coset(<<0, 1>>) = {<<0, 1>>, <<0, Neg(1)>>, <<i, 0>>, <<Neg(i), 0>>}
  <2>1. Neg(0) = 0 /\ Mul(1, i) = i /\ Mul(0, i) = 0
    BY <1>3, PrimeIsPositive DEF Neg, Mul, Field
  <2>2. Opposite(N) = <<0, Neg(1)>> /\ Turned(N) = <<i, 0>>
    BY <2>1 DEF Opposite, Turned
  <2>3. Opposite(<<i, 0>>) = <<Neg(i), 0>>
    BY <2>1 DEF Opposite
  <2> QED
    BY <2>2, <2>3 DEF Coset
<1>5. /\ Multiples[e] = <<x, y>> /\ x \in Field /\ y \in Field /\ OnCurve(<<x, y>>)
  BY CurveAssumption DEF Exponents
<1> HIDE DEF x, y
<1>6. x \in Int /\ y \in Int /\ Zero(Curve(x, y)) /\ Is(x, x) /\ Is(y, y)
  BY <1>5, CurveEquation, ZeroOfField
<1>7. ASSUME x = 0
      PROVE  y = 1 \/ y = Neg(1)
  <2>1. Curve(x, y) = (y - 1) * (y - (-1))
    BY <1>6, <1>7, ConstantsSatisfy, SMT DEF Curve
  <2> DEFINE f == y - 1
             g == y - (-1)
  <2>2. f \in Int /\ g \in Int /\ Zero(f * g)
    BY <1>6, <2>1
  <2> HIDE DEF f, g
  <2>3. Zero(f) \/ Zero(g)
    BY <2>2, ZeroFactor
  <2>4. Zero(f) => y = 1
    BY <1>3, <1>6, IsSame DEF f
  <2>5. Zero(g) => y = Neg(1)
    BY <1>3, <1>6, IsSame DEF g
  <2> QED
    BY <2>3, <2>4, <2>5
<1>8. ASSUME y = 0
      PROVE  x = i \/ x = Neg(i)
  <2> DEFINE c == Curve(x, y)
             h == i * i + 1
             f == x - i
             g == x - (- i)
  <2>1. (-1) * c + (-1) * h = f * g
    <3>1. c = - (x * x) - 1
      BY <1>6, <1>8, ConstantsSatisfy, SMT DEF Curve
    <3> HIDE DEF c
    <3> QED
      BY <1>3, <1>6, <3>1, SMT
  <2>2. f \in Int /\ g \in Int /\ Zero(c) /\ Zero(h) /\ -1 \in Int
    BY <1>3, <1>6, ConstantsSatisfy
  <2> HIDE DEF f, g, c, h
  <2>3. Zero((-1) * c + (-1) * h)
    BY <2>2, ZeroCombines
  <2>4. Zero(f) \/ Zero(g)
    BY <2>1, <2>2, <2>3, ZeroFactor
  <2>5. Zero(f) => x = i
    BY <1>3, <1>6, IsSame DEF f
  <2>6. Zero(g) => x = Neg(i)
    BY <1>3, <1>6, IsSame DEF g
  <2> QED
    BY <2>4, <2>5, <2>6
<1>9. Multiples[e] \notin Pairs <=> x = 0 \/ y = 0
  BY <1>5 DEF Pairs
<1>10. Multiples[e] \in Coset(<<0, 1>>)
       <=> (x = 0 /\ y \in {1, Neg(1)}) \/ (y = 0 /\ x \in {i, Neg(i)})
  <2>1. Multiples[e] \in Coset(<<0, 1>>)
        <=> <<x, y>> \in {<<0, 1>>, <<0, Neg(1)>>, <<i, 0>>, <<Neg(i), 0>>}
    BY <1>4, <1>5
  <2> QED
    BY <2>1
<1> QED
  BY <1>2, <1>7, <1>8, <1>9, <1>10

\* The point that packing folds to is the multiple of another even exponent.
LEMMA FoldedMultiple ==
  ASSUME NEW e \in Even, Multiples[e] \in Pairs
  PROVE  LET b == Folded(Multiples[e]) IN
         /\ b \in Pairs /\ b \in Field \X Field /\ Zero(Curve(b[1], b[2]))
         /\ ~isnegative(b[1]) /\ ~isnegative(Mul(b[1], b[2]))
         /\ \E g \in Even : b = Multiples[g] /\ SamePacked(e, g)
<1> DEFINE b == Folded(Multiples[e])
<1>1. /\ b \in Pairs /\ b \in Coset(Multiples[e])
      /\ ~isnegative(b[1]) /\ ~isnegative(Mul(b[1], b[2]))
  BY FoldedFacts
<1>2. e \in Exponents /\ e \in Int /\ e % 2 = 0
  BY DEF Even, Exponents
<1> HIDE DEF b
<1>3. PICK g \in Exponents : b = Multiples[g]
  BY <1>1, <1>2, CosetExponents
<1>4. SamePacked(e, g)
  BY <1>1, <1>2, <1>3, CosetExponents
<1>5. g \in Even
  <2>1. g \in Int /\ Prime \in Nat
    BY CurveAssumption DEF Exponents
  <2>2. Same(2 * Prime, e, g)
    BY <1>2, <1>4, <2>1, SamePackedIsSame
  <2>3. PICK k \in Int : e = g + (2 * Prime) * k
    BY <2>2 DEF Same
  <2>4. Prime * k \in Int /\ (2 * Prime) * k = 2 * (Prime * k)
    BY <2>1, SMT
  <2> DEFINE n == Prime * k
  <2>5. n \in Int /\ e = g + 2 * n
    BY <2>3, <2>4
  <2> HIDE DEF n
  <2>6. e % 2 = g % 2
    BY <1>2, <2>1, <2>5
  <2> QED
    BY <1>2, <2>6 DEF Even, Exponents
<1>6. b \in Field \X Field /\ b = <<b[1], b[2]>> /\ b[1] \in Field /\ b[2] \in Field
  BY <1>1 DEF Pairs
<1>7. Zero(Curve(b[1], b[2]))
  <2>1. OnCurve(b)
    BY <1>3, CurveAssumption DEF Exponents
  <2> QED
    BY <1>6, <2>1, CurveEquation
<1> QED
  BY <1>1, <1>4, <1>3, <1>5, <1>6, <1>7 DEF b

\* Only the four points are packed to 0.
LEMMA ZeroIsNoRoot ==
  ASSUME NEW x \in Field, NEW c \in Field, x # 0, Zero(Curve(x, c))
  PROVE  ~Root(0, c)
<1>1. SUFFICES ASSUME Root(0, c) PROVE FALSE
  OBVIOUS
<1>2. x \in Int /\ c \in Int /\ Is(c, c) /\ Is(1, 1) /\ (Zero(x) <=> x = 0)
  BY ZeroOfField, IsConstant
<1>3. (0 * 0) * (1 + c) - (1 - c) = c - 1
  BY <1>2
<1>4. Zero(c - 1)
  BY <1>1, <1>3 DEF Root
<1>5. c = 1
  BY <1>2, <1>4, IsSame
<1>6. ~Zero(1 - c * c)
  BY <1>2, CurveDivides
<1>7. 1 - c * c = 0
  BY <1>5
<1>8. 0 \in Field
  BY PrimeIsPositive DEF Field
<1>9. Zero(0)
  BY <1>8, ZeroOfField
<1> QED
  BY <1>6, <1>7, <1>9

\* Equal exponents modulo 2 * Prime.
LEMMA SamePackedSets ==
  ASSUME NEW e \in Exponents, NEW f \in Exponents, NEW g \in Exponents
  PROVE  /\ SamePacked(e, f) => SamePacked(f, e)
         /\ SamePacked(e, f) /\ SamePacked(f, g) => SamePacked(e, g)
<1>1. e \in Int /\ f \in Int /\ g \in Int
  BY DEF Exponents
<1>2. 2 * Prime \in Nat /\ 2 * Prime > 0
  BY SamePackedIsSame
<1>3. /\ SamePacked(e, f) <=> Same(2 * Prime, e, f)
      /\ SamePacked(f, e) <=> Same(2 * Prime, f, e)
      /\ SamePacked(f, g) <=> Same(2 * Prime, f, g)
      /\ SamePacked(e, g) <=> Same(2 * Prime, e, g)
  BY <1>1, SamePackedIsSame
<1> DEFINE n == 2 * Prime
<1> HIDE DEF n
<1>4. n \in Nat /\ n > 0
  BY <1>2 DEF n
<1>5. /\ \A x, y : Same(n, x, y) => Same(n, y, x)
      /\ \A x, y, z : Same(n, x, y) /\ Same(n, y, z) => Same(n, x, z)
  BY <1>4, SameEquivalence
<1>6. Same(n, e, f) => Same(n, f, e)
  BY <1>5
<1>7. Same(n, e, f) /\ Same(n, f, g) => Same(n, e, g)
  BY <1>5
<1> QED
  BY <1>3, <1>6, <1>7 DEF n

\* Two points have the same packed form exactly if they differ by one of the four
\* points, whatever their coordinates.
LEMMA PackTellsPoints ==
  ASSUME NEW e \in Even, NEW f \in Even, NEW q, NEW r, Represents(q, e), Represents(r, f)
  PROVE  group_ge_pack(q) = group_ge_pack(r) <=> SamePacked(e, f)
<1> DEFINE a == Multiples[e]
           b == Multiples[f]
           s == group_ge_pack(q)
           t == group_ge_pack(r)
<1>1. e \in Exponents /\ f \in Exponents /\ 0 \in Exponents
  BY Orders, CurveAssumption DEF Even, Exponents
<1>2. (a \notin Pairs <=> SamePacked(0, e)) /\ (b \notin Pairs <=> SamePacked(0, f))
  BY <1>1, DegenerateExponents
<1>3. a \notin Pairs => s = 0
  BY PackDegenerate
<1>4. b \notin Pairs => t = 0
  BY PackDegenerate
<1>5. a \in Pairs => s \in Field /\ ~isnegative(s) /\ Root(s, Folded(a)[2])
  BY PackRoot
<1>6. b \in Pairs => t \in Field /\ ~isnegative(t) /\ Root(t, Folded(b)[2])
  BY PackRoot
<1> DEFINE F == Folded(a)
           G == Folded(b)
<1>7. ASSUME a \in Pairs
      PROVE  /\ F \in Field \X Field /\ F[1] \in Field /\ F[2] \in Field /\ F[1] # 0
             /\ Zero(Curve(F[1], F[2])) /\ ~isnegative(F[1])
             /\ \E g \in Even : F = Multiples[g] /\ SamePacked(e, g)
  BY <1>7, FoldedMultiple DEF Pairs
<1>8. ASSUME b \in Pairs
      PROVE  /\ G \in Field \X Field /\ G[1] \in Field /\ G[2] \in Field /\ G[1] # 0
             /\ Zero(Curve(G[1], G[2])) /\ ~isnegative(G[1])
             /\ \E g \in Even : G = Multiples[g] /\ SamePacked(f, g)
  BY <1>8, FoldedMultiple DEF Pairs
<1>9. b \in Coset(a) <=> SamePacked(e, f)
  BY <1>1, CosetExponents
<1>10. a \in Pairs /\ b \in Coset(a) => G = F
  BY FoldedOfCoset
<1> HIDE DEF a, b, s, t, F, G
<1>11. a \in Pairs => s # 0
  BY <1>5, <1>7, ZeroIsNoRoot DEF F
<1>12. b \in Pairs => t # 0
  BY <1>6, <1>8, ZeroIsNoRoot DEF G
<1>13. CASE a \notin Pairs /\ b \notin Pairs
  BY <1>1, <1>2, <1>3, <1>4, <1>13, SamePackedSets DEF s, t
<1>14. CASE a \in Pairs /\ b \notin Pairs
  <2>1. ~SamePacked(e, f)
    BY <1>1, <1>2, <1>14, SamePackedSets
  <2> QED
    BY <1>4, <1>11, <1>14, <2>1 DEF s, t
<1>15. CASE a \notin Pairs /\ b \in Pairs
  <2>1. ~SamePacked(e, f)
    BY <1>1, <1>2, <1>15, SamePackedSets
  <2> QED
    BY <1>3, <1>12, <1>15, <2>1 DEF s, t
<1>16. CASE a \in Pairs /\ b \in Pairs
  <2>1. ASSUME SamePacked(e, f)
        PROVE  s = t
    <3>1. G = F
      BY <1>9, <1>10, <1>16, <2>1
    <3>2. F[2] \in Int
      BY <1>7, <1>16, ZeroOfField
    <3>3. Root(s, F[2]) /\ Root(t, F[2])
      BY <1>5, <1>6, <1>16, <3>1 DEF F, G
    <3> QED
      BY <1>5, <1>6, <1>16, <3>2, <3>3, RootIsUnique
  <2>2. ASSUME s = t
        PROVE  SamePacked(e, f)
    <3>1. s \in Int /\ Root(s, F[2]) /\ Root(s, G[2])
      BY <1>5, <1>6, <1>16, <2>2, ZeroOfField DEF F, G
    <3>2. F = G
      BY <1>7, <1>8, <1>16, <3>1, FoldedIsUnique
    <3>3. PICK g \in Even : F = Multiples[g] /\ SamePacked(e, g)
      BY <1>7, <1>16
    <3>4. PICK h \in Even : G = Multiples[h] /\ SamePacked(f, h)
      BY <1>8, <1>16
    <3>5. g \in Exponents /\ h \in Exponents
      BY Orders
    <3>6. g = h
      BY <3>2, <3>3, <3>4, <3>5, SumsOfMultiples
    <3>7. SamePacked(h, f) /\ SamePacked(e, h)
      BY <1>1, <3>3, <3>4, <3>5, <3>6, SamePackedSets
    <3> QED
      BY <1>1, <3>5, <3>7, SamePackedSets
  <2> QED
    BY <2>1, <2>2 DEF s, t
<1> QED
  BY <1>13, <1>14, <1>15, <1>16

-----------------------------------------------------------------------------
(*  Unpacking what was packed                                              *)

\* What group_ge_unpack takes the root of.
Radicand(s) ==
  LET yden == Add(1, Square(s))
      ynum == Sub(1, Square(s))
  IN Mul(Neg(Add(Mul(d, Square(ynum)), Square(yden))), Square(yden))

LEMMA RadicandIs ==
  ASSUME NEW s \in Field
  PROVE  LET u == 1 + s * s
             n == 1 - s * s
         IN /\ s \in Int /\ u \in Int /\ n \in Int
            /\ Is(Add(1, Square(s)), u) /\ Is(Sub(1, Square(s)), n)
            /\ Is(Radicand(s), (- (d * (n * n) + u * u)) * (u * u))
<1> DEFINE u == 1 + s * s
           n == 1 - s * s
           yden == Add(1, Square(s))
           ynum == Sub(1, Square(s))
<1>1. Is(s, s) /\ s \in Int /\ Is(d, d) /\ d \in Int
  BY ZeroOfField, ConstantsSatisfy
<1>2. Is(Square(s), s * s)
  BY <1>1, IsArithmetic DEF Square
<1>3. Is(yden, u) /\ Is(ynum, n)
  BY <1>2, IsConstant, IsArithmetic
<1>4. Radicand(s) = Mul(Neg(Add(Mul(d, Square(ynum)), Square(yden))), Square(yden))
  BY DEF Radicand
<1>5. u \in Int /\ n \in Int
  BY <1>1
<1> HIDE DEF u, n, yden, ynum
<1>6. Is(Square(yden), u * u) /\ Is(Square(ynum), n * n)
  BY <1>3, IsArithmetic DEF Square
<1>7. Is(Add(Mul(d, Square(ynum)), Square(yden)), d * (n * n) + u * u)
  BY <1>1, <1>6, IsArithmetic
<1>8. Is(Neg(Add(Mul(d, Square(ynum)), Square(yden))), - (d * (n * n) + u * u))
  BY <1>7, IsArithmetic
<1>9. Is(Radicand(s), (- (d * (n * n) + u * u)) * (u * u))
  BY <1>4, <1>6, <1>8, IsArithmetic
<1> QED
  BY <1>1, <1>3, <1>5, <1>9 DEF u, n, yden, ynum

\* It is a square if s is what a point with first coordinate other than 0 is
\* packed to.
LEMMA RadicandIsSquare ==
  ASSUME NEW s \in Field, NEW x \in Field, NEW y \in Field, NEW w \in Field,
         x # 0, w # 0, Zero(Curve(x, y)), Zero((1 - y * y) - w * w), Root(s, y)
  PROVE  \E v \in Field : v # 0 /\ Radicand(s) = Square(v)
<1> DEFINE u == 1 + s * s
           n == 1 - s * s
           T == (- (d * (n * n) + u * u)) * (u * u)
           r == Reciprocal[x]
           U == Add(1, Square(s))
           v == Mul(Square(U), Mul(w, r))
<1>1. /\ s \in Int /\ u \in Int /\ n \in Int /\ Is(U, u) /\ Is(Radicand(s), T)
  BY RadicandIs
<1>2. r \in Field /\ Mul(x, r) = 1
  BY ReciprocalDivides
<1> HIDE DEF r, U
<1>3. /\ Is(x, x) /\ Is(y, y) /\ Is(w, w) /\ Is(r, r)
      /\ x \in Int /\ y \in Int /\ w \in Int /\ r \in Int /\ d \in Int
  BY <1>2, ZeroOfField, ConstantsSatisfy
<1>4. Zero(x * r - 1)
  <2>1. Is(Mul(x, r), x * r)
    BY <1>3, IsArithmetic
  <2> QED
    BY <1>2, <2>1, IsConstant, IsSame
<1>5. ~Zero(u)
  BY <1>1, <1>3, RootDivides
<1>6. v \in Field /\ v # 0 /\ Is(v, (u * u) * (w * r))
  <2>1. U \in Field /\ U # 0
    <3>1. U \in Field /\ Is(0, 0)
      BY <1>1, IsConstant, IsUnique
    <3>2. u - 0 = u
      BY <1>1
    <3> HIDE DEF u
    <3>3. U = 0 <=> Zero(u - 0)
      BY <1>1, <3>1, IsSame
    <3> QED
      BY <1>5, <3>1, <3>2, <3>3
  <2>2. r # 0
    <3>1. Mul(x, 0) = 0
      BY <1>3, PrimeIsPositive DEF Mul
    <3> QED
      BY <1>2, <3>1
  <2>3. Mul(w, r) \in Field /\ Mul(w, r) # 0 /\ Square(U) \in Field /\ Square(U) # 0
    BY <1>2, <2>1, <2>2, NoZeroDivisors, FieldIsClosed DEF Square
  <2>4. v \in Field /\ v # 0
    BY <2>3, NoZeroDivisors, FieldIsClosed
  <2> HIDE DEF u
  <2>5. Is(Square(U), u * u) /\ Is(Mul(w, r), w * r)
    BY <1>1, <1>3, IsArithmetic DEF Square
  <2>6. Is(v, (u * u) * (w * r))
    BY <2>5, IsArithmetic
  <2> QED
    BY <2>4, <2>6
<1> HIDE DEF v
<1> DEFINE V == ((u * u) * (w * r)) * ((u * u) * (w * r))
<1>7. Is(Square(v), V)
  BY <1>6, IsArithmetic DEF Square
<1> DEFINE f == 1 + d * (y * y)
           c == Curve(x, y)
           h == (1 - y * y) - w * w
           k2 == (x * r) * (x * r) - 1
           k3 == (x * x) * f + w * w
           k4 == f + (r * r) * (w * w)
           uu == u * u
           k5 == T + (uu * uu) * f
<1>8. f \in Int /\ uu \in Int
  BY <1>1, <1>3
<1>9. Zero(k2)
  <2> DEFINE k1 == x * r - 1
             g == x * r + 1
  <2>1. Zero(k1) /\ g \in Int
    BY <1>3, <1>4
  <2>2. g * k1 = k2
    BY <1>3, SMT
  <2> HIDE DEF g, k1, k2
  <2>3. Zero(g * k1)
    BY <2>1, ZeroTimes
  <2> QED
    BY <2>2, <2>3
<1>10. Zero(k3)
  <2>1. (-1) * c + (-1) * h = k3
    BY <1>3, SMT DEF Curve
  <2>2. Zero(c) /\ Zero(h) /\ -1 \in Int
    OBVIOUS
  <2> HIDE DEF c, h, k3
  <2>3. Zero((-1) * c + (-1) * h)
    BY <2>2, ZeroCombines
  <2> QED
    BY <2>1, <2>3
<1>11. Zero(k4)
  <2> DEFINE rr == r * r
             ff == - f
  <2>1. rr * k3 + ff * k2 = k4
    <3> HIDE DEF f
    <3>1. k2 = (x * x) * (r * r) - 1
      BY <1>3, SMT
    <3> DEFINE xx == x * x
               ww == w * w
    <3>2. xx \in Int /\ rr \in Int /\ ww \in Int
      BY <1>3
    <3>3. k2 = xx * rr - 1 /\ k3 = xx * f + ww /\ k4 = f + rr * ww
      BY <3>1
    <3> HIDE DEF xx, rr, ww, k2, k3, k4
    <3>4. rr * (xx * f + ww) + (- f) * (xx * rr - 1) = f + rr * ww
      BY <1>8, <3>2, SMT
    <3> QED
      BY <3>3, <3>4
  <2>2. rr \in Int /\ ff \in Int
    BY <1>3, <1>8
  <2> HIDE DEF rr, ff, k2, k3, k4
  <2>3. Zero(rr * k3 + ff * k2)
    BY <1>9, <1>10, <2>2, ZeroCombines
  <2> QED
    BY <2>1, <2>3
<1>12. Zero(k5)
  <2> DEFINE g == (s * s) * (1 + y) - (1 - y)
             e == (d * uu) * (y * u + n)
  <2>1. Zero(g)
    BY DEF Root
  <2>2. e \in Int
    BY <1>1, <1>3, <1>8
  <2>3. e * g = k5
    <3>1. g = y * u - n
      BY <1>1, <1>3, SMT
    <3> HIDE DEF u, n, g
    <3> DEFINE yu == y * u
               nn == n * n
    <3>2. yu \in Int /\ nn \in Int /\ g = yu - n /\ e = (d * uu) * (yu + n)
      BY <1>1, <1>3, <3>1
    <3>3. uu * f = uu + d * (yu * yu)
      BY <1>1, <1>3, SMT
    <3>4. k5 = (- (d * nn + uu)) * uu + uu * (uu * f)
      <4>1. (uu * uu) * f = uu * (uu * f)
        BY <1>8, SMT
      <4> QED
        BY <4>1
    <3>5. nn = n * n
      OBVIOUS
    <3> HIDE DEF uu, nn, yu, k5, e, f
    <3>6. ((d * uu) * (yu + n)) * (yu - n) = (- (d * (n * n) + uu)) * uu + uu * (uu + d * (yu * yu))
      BY <1>1, <1>3, <1>8, <3>2, SMT
    <3> QED
      BY <3>2, <3>3, <3>4, <3>5, <3>6
  <2> HIDE DEF e, g, k5
  <2>4. Zero(e * g)
    BY <2>1, <2>2, ZeroTimes
  <2> QED
    BY <2>3, <2>4
<1>13. Zero(V - T)
  <2> DEFINE g == uu * uu
             wr == (r * r) * (w * w)
  <2>1. V = g * wr /\ g \in Int /\ wr \in Int
    <3> HIDE DEF uu
    <3>1. (uu * (w * r)) * (uu * (w * r)) = (uu * uu) * ((r * r) * (w * w))
      BY <1>3, <1>8, SMT
    <3> QED
      BY <1>3, <1>8, <3>1 DEF uu
  <2>2. T \in Int
    BY <1>1, <1>3
  <2>3. k4 = f + wr /\ k5 = T + g * f
    OBVIOUS
  <2> HIDE DEF V, T, g, f, wr, k4, k5
  <2>4. g * k4 + (-1) * k5 = V - T
    BY <1>8, <2>1, <2>2, <2>3, SMT
  <2>5. Zero(g * k4 + (-1) * k5)
    BY <1>11, <1>12, <2>1, ZeroCombines
  <2> QED
    BY <2>4, <2>5
<1> HIDE DEF V, T
<1>14. Radicand(s) = Square(v)
  <2>1. Square(v) = Radicand(s) <=> Zero(V - T)
    BY <1>1, <1>7, IsSame
  <2> QED
    BY <1>13, <2>1
<1> QED
  BY <1>6, <1>14

\* And if s is 0.
LEMMA RadicandOfZero == \E v \in Field : v # 0 /\ Radicand(0) = Square(v)
<1> DEFINE r == Reciprocal[magic]
           m == magic
<1>1. 0 \in Field /\ m \in Field /\ m \in Int /\ d \in Int /\ Is(m, m)
  BY PrimeIsPositive, ConstantsSatisfy, ZeroOfField DEF Field
<1>2. Zero((m * m) * (1 + d) + 1)
  BY ConstantsSatisfy
<1>3. m # 0
  <2>1. SUFFICES ASSUME m = 0 PROVE FALSE
    OBVIOUS
  <2>2. (m * m) * (1 + d) + 1 = 1
    BY <1>1, <2>1
  <2> QED
    BY <1>2, <2>2, NotZero
<1>4. r \in Field /\ Mul(m, r) = 1
  BY <1>1, <1>3, ReciprocalDivides
<1> HIDE DEF r, m
<1>5. Is(r, r) /\ r \in Int
  BY <1>4, ZeroOfField
<1>6. r # 0
  <2>1. Mul(m, 0) = 0
    BY <1>1, PrimeIsPositive DEF Mul
  <2> QED
    BY <1>4, <2>1
<1>7. Is(Radicand(0), - (d + 1))
  <2> DEFINE u == 1 + 0 * 0
             n == 1 - 0 * 0
  <2>1. Is(Radicand(0), (- (d * (n * n) + u * u)) * (u * u))
    BY <1>1, RadicandIs
  <2>2. (- (d * (n * n) + u * u)) * (u * u) = - (d + 1)
    BY <1>1
  <2> QED
    BY <2>1, <2>2
<1>8. Is(Square(r), r * r)
  BY <1>5, IsArithmetic DEF Square
<1>9. Zero(r * r - (- (d + 1)))
  <2>1. Is(Mul(m, r), m * r)
    BY <1>1, <1>5, IsArithmetic
  <2>2. Zero(m * r - 1)
    BY <1>4, <2>1, IsConstant, IsSame
  <2> DEFINE k1 == m * r - 1
             k2 == (m * m) * (1 + d) + 1
             rr == r * r
             e == - ((1 + d) * (m * r + 1))
  <2>3. Zero(k1) /\ Zero(k2) /\ rr \in Int /\ e \in Int
    BY <1>1, <1>2, <1>5, <2>2
  <2>4. rr * k2 + e * k1 = r * r - (- (d + 1))
    <3> DEFINE mr == m * r
               b == 1 + d
    <3>1. mr \in Int /\ b \in Int /\ rr * (m * m) = mr * mr
      BY <1>1, <1>5, SMT
    <3>2. rr * k2 = (rr * (m * m)) * b + rr
      <4> DEFINE mm == m * m
      <4>1. mm \in Int /\ k2 = mm * b + 1
        BY <1>1
      <4> HIDE DEF mm, b, rr, k2
      <4>2. rr * (mm * b + 1) = (rr * mm) * b + rr
        BY <2>3, <3>1, <4>1, SMT
      <4> QED
        BY <4>1, <4>2 DEF mm
    <3>3. e = - (b * (mr + 1)) /\ k1 = mr - 1
      OBVIOUS
    <3> HIDE DEF mr, rr, k2, k1, e
    <3>4. b = 1 + d
      OBVIOUS
    <3> HIDE DEF b
    <3>5. ((mr * mr) * b + rr) + (- (b * (mr + 1))) * (mr - 1) = rr + b
      BY <2>3, <3>1, SMT
    <3>6. rr * k2 + e * k1 = rr + b
      BY <3>1, <3>2, <3>3, <3>5
    <3>7. rr + b = rr - (- (d + 1))
      BY <1>1, <2>3, <3>4
    <3> QED
      BY <3>6, <3>7 DEF rr
  <2> HIDE DEF k1, k2, e, rr
  <2>5. Zero(rr * k2 + e * k1)
    BY <2>3, ZeroCombines
  <2> QED
    BY <2>4, <2>5
<1>10. Square(r) = Radicand(0)
  BY <1>7, <1>8, <1>9, IsSame
<1> QED
  BY <1>4, <1>6, <1>10

\* A string is not rejected if it is a root for a point of the curve, both of
\* whose signs are right, and the number it takes the root of is a square.
LEMMA UnpackAccepts ==
  ASSUME NEW st \in Nat, ~isnegative(st % p),
         NEW b \in Field \X Field, Zero(Curve(b[1], b[2])), Root(st % p, b[2]),
         ~isnegative(b[1]), ~isnegative(Mul(b[1], b[2])), b[2] # 0,
         \E v \in Field : v # 0 /\ Radicand(st % p) = Square(v)
  PROVE  group_ge_unpack(st).ret = 0
<1> DEFINE s == st % p
           u == Add(1, Square(s))
           n == Sub(1, Square(s))
           w == Neg(Add(Mul(d, Square(n)), Square(u)))
           t == Mul(w, Square(u))
           i == fe25519_invsqrt(t)
           x == Positive(Twice(Mul(s, Mul(i, u))))
           y == Mul(n, Mul(Mul(Mul(i, u), i), w))
           x1 == b[1]
           y1 == b[2]
<1>1. s \in Field
  BY PrimeIsPositive, Division DEF Field
<1>2. group_ge_unpack(st).ret = IF Rejects(s, i, t, Mul(x, y), y) THEN -1 ELSE 0
  BY DEF group_ge_unpack
<1>3. t = Radicand(s)
  BY DEF Radicand
<1>4. PICK v \in Field : v # 0 /\ t = Square(v)
  BY <1>3
<1>5. /\ b = <<x1, y1>> /\ x1 \in Field /\ y1 \in Field /\ Zero(Curve(x1, y1)) /\ Root(s, y1)
      /\ ~isnegative(x1) /\ ~isnegative(Mul(x1, y1)) /\ y1 # 0 /\ ~isnegative(s)
  OBVIOUS
<1> HIDE DEF s, x1, y1
<1>6. Mul(Square(i), t) = 1 /\ i \in Field
  <2>1. t \in Field
    BY <1>4, FieldIsClosed
  <2> HIDE DEF t
  <2>2. Mul(Square(i), t) = 1
    BY <1>4, RootOfSquare
  <2> QED
    BY <2>1, <2>2, RootIsResidue
<1>7. /\ s \in Int /\ Is(u, 1 + s * s) /\ Is(n, 1 - s * s)
  BY <1>1, RadicandIs
<1>8. u \in Field /\ n \in Field /\ Is(u, u) /\ Is(n, n) /\ u \in Int /\ n \in Int
  <2>1. u \in Field /\ n \in Field
    BY <1>7, IsUnique
  <2> HIDE DEF u, n
  <2> QED
    BY <2>1, ZeroOfField
<1>9. u = Add(1, Square(s)) /\ n = Sub(1, Square(s))
  OBVIOUS
<1> HIDE DEF u, n
<1>10. w \in Field
  <2>1. d \in Field /\ Square(n) \in Field /\ Square(u) \in Field
    BY <1>8, ConstantsSatisfy, FieldIsClosed
  <2>2. Mul(d, Square(n)) \in Field
    BY <2>1, FieldIsClosed
  <2>3. Add(Mul(d, Square(n)), Square(u)) \in Field
    BY <2>1, <2>2, FieldIsClosed
  <2> QED
    BY <2>3, FieldIsClosed
<1>11. Mul(Square(i), Mul(w, Square(u))) = 1
  BY <1>6
<1>12. w = Neg(Add(Mul(d, Square(n)), Square(u)))
  OBVIOUS
<1> HIDE DEF i, t, w
<1>13. x \in Field /\ y \in Field /\ Mul(y, u) = n /\ OnCurve(<<x, y>>)
  BY <1>1, <1>6, <1>8, <1>9, <1>10, <1>11, <1>12, DecodedPoint
<1>14. ~isnegative(x)
  <2> DEFINE c == Twice(Mul(s, Mul(i, u)))
  <2>1. Mul(s, Mul(i, u)) \in Field
    BY <1>1, <1>6, <1>8, FieldIsClosed
  <2>2. c \in Field
    BY <2>1, FieldIsClosed
  <2> HIDE DEF c
  <2>3. ~isnegative(Positive(c))
    BY <2>2, PositiveIs
  <2> QED
    BY <2>3 DEF c
<1> HIDE DEF x, y
<1>15. Root(s, y)
  <2>1. Is(y, y) /\ y \in Int
    BY <1>13, ZeroOfField
  <2>2. Is(Mul(y, u), y * (1 + s * s)) /\ Is(Mul(y, u), 1 - s * s)
    BY <1>7, <1>13, <2>1, IsArithmetic
  <2>3. Mul(y, u) = Mul(y, u) <=> Zero(y * (1 + s * s) - (1 - s * s))
    BY <2>2, IsSame
  <2>4. y * (1 + s * s) - (1 - s * s) = (s * s) * (1 + y) - (1 - y)
    BY <1>7, <2>1, SMT
  <2> QED
    BY <2>3, <2>4 DEF Root
<1>16. Zero(Curve(x, y))
  BY <1>13, CurveEquation
<1>17. <<x, y>> = b
  <2> DEFINE a == <<x, y>>
  <2>1. /\ a \in Field \X Field /\ Zero(Curve(a[1], a[2])) /\ ~isnegative(a[1])
        /\ Root(s, a[2]) /\ Root(s, b[2]) /\ Zero(Curve(b[1], b[2])) /\ ~isnegative(b[1])
    BY <1>5, <1>13, <1>14, <1>15, <1>16 DEF x1, y1
  <2> HIDE DEF a
  <2>2. a = b
    BY <1>7, <2>1, FoldedIsUnique
  <2> QED
    BY <2>2 DEF a
<1>18. x = x1 /\ y = y1
  BY <1>5, <1>17
<1>19. ~Rejects(s, i, t, Mul(x, y), y)
  BY <1>5, <1>6, <1>18 DEF Rejects
<1> QED
  BY <1>2, <1>19 DEF s, t, i, x, y, w, u, n

\* Whatever an even multiple is packed to, is not rejected.
LEMMA UnpackTakesPacked ==
  ASSUME NEW st \in Nat, NEW e \in Even, NEW q, Represents(q, e), group_ge_pack(q) = st % p
  PROVE  group_ge_unpack(st).ret = 0
<1> DEFINE s == st % p
           a == Multiples[e]
<1>1. CASE a \notin Pairs
  <2>1. s = 0
    BY <1>1, PackDegenerate
  <2> DEFINE b == <<0, 1>>
  <2>2. 0 \in Field /\ 1 \in Field
    BY PrimeIsPositive DEF Field
  <2>3. OnCurve(b)
    <3>1. 0 \in 0 .. Order - 1
      BY Orders
    <3> HIDE DEF b
    <3>2. OnCurve(Multiples[0]) /\ Multiples[0] = b
      BY <3>1, CurveAssumption DEF b
    <3> QED
      BY <3>2
  <2>4. Zero(Curve(b[1], b[2])) /\ b \in Field \X Field
    BY <2>2, <2>3, CurveEquation
  <2>5. Root(s, b[2])
    <3>1. Zero(0)
      BY <2>2, ZeroOfField
    <3>2. (0 * 0) * (1 + 1) - (1 - 1) = 0
      OBVIOUS
    <3> QED
      BY <2>1, <3>1, <3>2 DEF Root
  <2>6. ~isnegative(s) /\ ~isnegative(b[1]) /\ ~isnegative(Mul(b[1], b[2])) /\ b[2] # 0
    BY <2>1, PrimeIsPositive DEF isnegative, Mul
  <2>7. \E v \in Field : v # 0 /\ Radicand(s) = Square(v)
    BY <2>1, RadicandOfZero
  <2> HIDE DEF b
  <2> QED
    BY <2>4, <2>5, <2>6, <2>7, UnpackAccepts
<1>2. CASE a \in Pairs
  <2> DEFINE b == Folded(a)
             x == b[1]
             y == b[2]
  <2>1. s \in Field /\ ~isnegative(s) /\ Root(s, y)
    BY <1>2, PackRoot
  <2>2. /\ b \in Pairs /\ b \in Field \X Field /\ Zero(Curve(x, y))
        /\ ~isnegative(x) /\ ~isnegative(Mul(x, y))
    BY <1>2, FoldedMultiple
  <2>3. PICK g \in Even : b = Multiples[g]
    BY <1>2, FoldedMultiple
  <2>4. x \in Field /\ y \in Field /\ x # 0 /\ y # 0
    BY <2>2 DEF Pairs
  <2>5. PICK w \in Field : Zero((1 - y * y) - w * w) /\ (x # 0 => w # 0)
    BY <2>3, EvenRoot
  <2> HIDE DEF b
  <2>6. \E v \in Field : v # 0 /\ Radicand(s) = Square(v)
    BY <2>1, <2>2, <2>4, <2>5, RadicandIsSquare
  <2> QED
    BY <2>1, <2>2, <2>4, <2>6, UnpackAccepts
<1> QED
  BY <1>1, <1>2

\* And what is not rejected, is packed to the string again.
LEMMA PackGivesBack ==
  ASSUME NEW st \in Nat, group_ge_unpack(st).ret = 0
  PROVE  group_ge_pack(group_ge_unpack(st).point) = st % p
<1> DEFINE s == st % p
           u == Add(1, Square(s))
           n == Sub(1, Square(s))
           w == Neg(Add(Mul(d, Square(n)), Square(u)))
           t == Mul(w, Square(u))
           i == fe25519_invsqrt(t)
           x == Positive(Twice(Mul(s, Mul(i, u))))
           y == Mul(n, Mul(Mul(Mul(i, u), i), w))
           q == group_ge_unpack(st).point
<1>1. s \in Field
  BY PrimeIsPositive, Division DEF Field
<1>2. ~Rejects(s, i, t, Mul(x, y), y) /\ q = Point(x, y, 1, Mul(x, y))
  BY DEF group_ge_unpack
<1>3. Mul(Square(i), t) = 1 /\ ~isnegative(s) /\ ~isnegative(Mul(x, y)) /\ y # 0
  BY <1>2 DEF Rejects
<1>4. PICK e \in Even : Represents(q, e)
  BY UnpackRepresents
<1> HIDE DEF s
<1>5. s \in Int /\ Is(u, 1 + s * s) /\ Is(n, 1 - s * s)
  BY <1>1, RadicandIs
<1>6. u \in Field /\ n \in Field /\ u = Add(1, Square(s)) /\ n = Sub(1, Square(s))
  BY <1>5, IsUnique
<1> HIDE DEF u, n
<1>7. w \in Field /\ t \in Field
  <2>1. d \in Field /\ Square(n) \in Field /\ Square(u) \in Field
    BY <1>6, ConstantsSatisfy, FieldIsClosed
  <2>2. Mul(d, Square(n)) \in Field
    BY <2>1, FieldIsClosed
  <2>3. Add(Mul(d, Square(n)), Square(u)) \in Field
    BY <2>1, <2>2, FieldIsClosed
  <2>4. w \in Field
    BY <2>3, FieldIsClosed
  <2> QED
    BY <2>1, <2>4, FieldIsClosed
<1>8. i \in Field
  BY <1>7, RootIsResidue
<1>9. Mul(Square(i), Mul(w, Square(u))) = 1 /\ w = Neg(Add(Mul(d, Square(n)), Square(u)))
  BY <1>3
<1> HIDE DEF i, t, w
<1>10. x \in Field /\ y \in Field /\ Mul(y, u) = n /\ OnCurve(<<x, y>>)
  BY <1>1, <1>6, <1>7, <1>8, <1>9, DecodedPoint
<1>11. ~isnegative(x)
  <2> DEFINE c == Twice(Mul(s, Mul(i, u)))
  <2>1. Mul(s, Mul(i, u)) \in Field
    BY <1>1, <1>6, <1>8, FieldIsClosed
  <2>2. c \in Field
    BY <2>1, FieldIsClosed
  <2> HIDE DEF c
  <2>3. ~isnegative(Positive(c))
    BY <2>2, PositiveIs
  <2> QED
    BY <2>3 DEF c
<1> HIDE DEF x, y
<1>12. /\ Is(x, x) /\ Is(y, y) /\ x \in Int /\ y \in Int /\ Zero(Curve(x, y))
       /\ (Zero(x) <=> x = 0)
  BY <1>10, CurveEquation, ZeroOfField
<1>13. Root(s, y)
  <2>2. Is(Mul(y, u), y * (1 + s * s)) /\ Is(Mul(y, u), 1 - s * s)
    BY <1>5, <1>10, <1>12, IsArithmetic
  <2>3. Mul(y, u) = Mul(y, u) <=> Zero(y * (1 + s * s) - (1 - s * s))
    BY <2>2, IsSame
  <2>4. y * (1 + s * s) - (1 - s * s) = (s * s) * (1 + y) - (1 - y)
    BY <1>5, <1>12, SMT
  <2> QED
    BY <2>3, <2>4 DEF Root
<1>14. Multiples[e] = <<x, y>>
  <2>1. \A a \in Field : Mul(a, 1) = a
    BY PrimeIsPositive DEF Mul, Field
  <2>2. q.x = x /\ q.y = y /\ q.z = 1
    BY <1>2 DEF Point
  <2>3. Multiples[e][1] \in Field /\ Multiples[e][2] \in Field /\ Multiples[e] = <<Multiples[e][1], Multiples[e][2]>>
    BY EvenRoot
  <2> QED
    BY <1>4, <2>1, <2>2, <2>3 DEF Represents
<1>15. CASE x = 0
  <2>1. Multiples[e] \notin Pairs
    BY <1>14, <1>15 DEF Pairs
  <2>2. group_ge_pack(q) = 0
    BY <1>4, <2>1, PackDegenerate
  <2>3. Zero(y * y - 1)
    <3>1. Curve(x, y) = y * y - 1
      BY <1>12, <1>15, ConstantsSatisfy, SMT DEF Curve
    <3> QED
      BY <1>12, <3>1
  <2> DEFINE f == 1 + y
             g == y - 1
             sq == s * s
             r == sq * (1 + y) - (1 - y)
  <2>4. ~Zero(f) /\ f \in Int /\ g \in Int /\ sq \in Int /\ Zero(r)
    BY <1>5, <1>12, <1>13, RootDivides DEF Root
  <2> HIDE DEF sq
  <2>5. f * g = y * y - 1 /\ 1 * r + (-1) * g = sq * f /\ 1 \in Int /\ -1 \in Int
    BY <1>12, <2>4, SMT
  <2> HIDE DEF f, g, r
  <2>6. Zero(g)
    BY <2>3, <2>4, <2>5, ZeroFactor
  <2>7. Zero(1 * r + (-1) * g)
    BY <2>4, <2>5, <2>6, ZeroCombines
  <2>8. Zero(sq)
    BY <2>4, <2>5, <2>7, ZeroFactor
  <2>9. Zero(s)
    BY <1>5, <2>8, ZeroFactor DEF sq
  <2>10. s = 0
    BY <1>1, <2>9, ZeroOfField
  <2> QED
    BY <2>2, <2>10 DEF s, q
<1>16. CASE x # 0
  <2>1. Multiples[e] \in Pairs
    BY <1>3, <1>10, <1>14, <1>16 DEF Pairs, x, y
  <2>2. Folded(Multiples[e]) = Multiples[e]
    BY <1>3, <1>11, <1>14 DEF Folded, x, y
  <2> DEFINE r == group_ge_pack(q)
  <2>3. r \in Field /\ ~isnegative(r) /\ Root(r, y)
    BY <1>4, <1>14, <2>1, <2>2, PackRoot
  <2> HIDE DEF r
  <2>4. r = s
    BY <1>1, <1>3, <1>12, <1>13, <2>3, RootIsUnique DEF s
  <2> QED
    BY <2>4 DEF r, s, q
<1> QED
  BY <1>15, <1>16

-----------------------------------------------------------------------------
(*  The operations of group.h, whatever they are applied to                *)

LEMMA OneIsResidue == 1 \in Field /\ 1 # 0 /\ 1 \in Field \ {0}
  BY PrimeIsPositive DEF Field

RistrettoInv ==
  /\ eP \in Even /\ eQ \in Even /\ string \in Nat
  /\ PointsAreMultiples

LEMMA RistrettoInvariant == Spec => []RistrettoInv
<1>1. Init => RistrettoInv
  <2> SUFFICES ASSUME Init PROVE RistrettoInv
    OBVIOUS
  <2>1. CASE string = 0 /\ \E e, f \in Even, y, z \in Zs :
               /\ eP = e /\ P = Representative(e, y)
               /\ eQ = f /\ Q = Representative(f, z)
    <3>1. eP \in Exponents /\ eQ \in Exponents /\ eP \in Even /\ eQ \in Even
      BY <2>1, Orders
    <3>2. PICK y \in Zs, z \in Zs : P = Representative(eP, y) /\ Q = Representative(eQ, z)
      BY <2>1
    <3>3. y \in Field /\ y # 0 /\ z \in Field /\ z # 0
      BY RistrettoAssumption
    <3> QED
      BY <2>1, <3>1, <3>2, <3>3, RepresentativeRepresents DEF RistrettoInv, PointsAreMultiples
  <2>2. CASE /\ P = group_ge_neutral /\ Q = group_ge_neutral
             /\ eP = 0 /\ eQ = 0 /\ string \in Strings
    <3>1. 0 \in Even
      BY Orders DEF Even
    <3> QED
      BY <2>2, <3>1, RistrettoAssumption, NeutralRepresents DEF RistrettoInv, PointsAreMultiples
  <2> QED
    BY <2>1, <2>2 DEF Init
<1>2. RistrettoInv /\ [Next]_vars => RistrettoInv'
  <2> SUFFICES ASSUME RistrettoInv, [Next]_vars PROVE RistrettoInv'
    OBVIOUS
  <2>1. /\ eP \in Even /\ eQ \in Even /\ eP \in Exponents /\ eQ \in Exponents
        /\ Represents(P, eP) /\ Represents(Q, eQ) /\ string \in Nat
    BY Orders DEF RistrettoInv, PointsAreMultiples
  <2>2. CASE AddPoints
    <3>1. Represents(P', eP')
      BY <2>1, <2>2, AddRepresents DEF AddPoints
    <3> QED
      BY <2>1, <2>2, <3>1, EvenSums DEF AddPoints, RistrettoInv, PointsAreMultiples
  <2>3. CASE DoublePoint
    <3>1. Represents(P', eP')
      BY <2>1, <2>3, DoubleRepresents DEF DoublePoint
    <3> QED
      BY <2>1, <2>3, <3>1, EvenSums DEF DoublePoint, RistrettoInv, PointsAreMultiples
  <2>4. CASE group_ge_cswap
    BY <2>1, <2>4 DEF group_ge_cswap, RistrettoInv, PointsAreMultiples
  <2>5. CASE PackPoint
    <3>1. string' \in Nat
      BY <2>1, <2>5, PackIsResidue, PrimeIsPositive DEF PackPoint, Field
    <3> QED
      BY <2>1, <2>5, <3>1 DEF PackPoint, RistrettoInv, PointsAreMultiples
  <2>6. CASE UnpackPoint
    <3>1. P' = group_ge_unpack(string).point /\ group_ge_unpack(string).ret = 0
      BY <2>6 DEF UnpackPoint
    <3>2. \E e \in Even : Represents(P', e)
      BY <2>1, <3>1, UnpackRepresents
    <3>3. eP' = CHOOSE e \in Even : Represents(P', e)
      BY <2>6, <3>2 DEF UnpackPoint
    <3>4. eP' \in Even /\ Represents(P', eP')
      BY <3>2, <3>3
    <3> QED
      BY <2>1, <2>6, <3>4 DEF UnpackPoint, RistrettoInv, PointsAreMultiples
  <2>7. CASE UNCHANGED vars
    BY <2>1, <2>7 DEF vars, RistrettoInv, PointsAreMultiples
  <2> QED
    BY <2>2, <2>3, <2>4, <2>5, <2>6, <2>7 DEF Next
<1> QED
  BY <1>1, <1>2, PTL DEF Spec

\* group_ge_add, group_ge_double, group_ge_unpack and group_ge_cswap: whatever is
\* done to two points, they stand for the multiples they should.
THEOREM RistrettoPointsAreMultiples == Spec => []PointsAreMultiples
<1>1. RistrettoInv => PointsAreMultiples
  BY DEF RistrettoInv
<1> QED
  BY <1>1, RistrettoInvariant, PTL

\* group_ge_pack gives two points the same string exactly if they differ by a
\* point whose order divides 4, in whatever coordinates the operations left them.
THEOREM RistrettoPackIsCanonical == Spec => []PackIsCanonical
<1>1. RistrettoInv => PackIsCanonical
  BY PackTellsPoints DEF RistrettoInv, PointsAreMultiples, PackIsCanonical
<1> QED
  BY <1>1, RistrettoInvariant, PTL

\* group_ge_unpack rejects exactly the strings that no point is packed to, and
\* group_ge_pack gives back every other string.
THEOREM RistrettoUnpackInvertsPack == Spec => []UnpackInvertsPack
<1>1. RistrettoInv => UnpackInvertsPack
  <2> SUFFICES ASSUME RistrettoInv PROVE UnpackInvertsPack
    OBVIOUS
  <2>1. string \in Nat
    BY DEF RistrettoInv
  <2>2. group_ge_unpack(string).ret = 0
        => group_ge_pack(group_ge_unpack(string).point) = string % p
    BY <2>1, PackGivesBack
  <2>3. ASSUME NEW e \in Even, group_ge_pack(Representative(e, 1)) = string % p
        PROVE  group_ge_unpack(string).ret = 0
    <3>1. Represents(Representative(e, 1), e)
      BY OneIsResidue, Orders, RepresentativeRepresents
    <3> QED
      BY <2>1, <2>3, <3>1, UnpackTakesPacked
  <2> QED
    BY <2>2, <2>3 DEF UnpackInvertsPack
<1> QED
  BY <1>1, RistrettoInvariant, PTL

-----------------------------------------------------------------------------
(*  Scalars: powers of two, bits and windows                               *)

LEMMA PowersOfTwo ==
  /\ TwoTo[0] = 1
  /\ \A n \in 0 .. 8 * Bytes : TwoTo[n] \in Nat /\ TwoTo[n] > 0
  /\ \A n \in 0 .. 8 * Bytes - 1 : TwoTo[n + 1] = 2 * TwoTo[n]
<1> DEFINE N == 8 * Bytes
           loop(g) == [n \in 0 .. N |-> IF n = 0 THEN 1 ELSE 2 * g[n - 1]]
           S == {n \in Nat : n > 0}
           step == [t \in (0 .. N) \X S |-> 2 * t[2]]
<1>1. N \in Nat
  BY ScalarMultAssumption
<1>2. TwoTo = CHOOSE g : g = loop(g)
  BY DEF TwoTo
<1> HIDE DEF N
<1>3. step \in [(0 .. N) \X S -> S] /\ 1 \in S
  OBVIOUS
<1>4. PICK h : IsChain(h, N, S, 1, step)
  <2> HIDE DEF step, S
  <2> QED
    BY <1>1, <1>3, ChainExists
<1>5. h = loop(h)
  <2>1. ASSUME NEW n \in 0 .. N PROVE h[n] = loop(h)[n]
    <3>1. CASE n = 0
      BY <1>4, <3>1 DEF IsChain
    <3>2. CASE n # 0
      <4>1. n - 1 \in 0 .. N
        BY <1>1, <3>2
      <4>2. h[n - 1] \in S /\ h[n] = step[<<n, h[n - 1]>>]
        <5> HIDE DEF step, S
        <5> QED
          BY <1>4, <3>2, <4>1 DEF IsChain
      <4> QED
        BY <3>2, <4>1, <4>2
    <3> QED
      BY <3>1, <3>2
  <2>2. h = [n \in 0 .. N |-> h[n]]
    <3> HIDE DEF S
    <3> QED
      BY <1>4 DEF IsChain
  <2> QED
    BY <2>1, <2>2
<1>6. TwoTo = loop(TwoTo)
  BY <1>2, <1>5
<1>7. TwoTo[0] = 1
  BY <1>1, <1>6
<1>8. ASSUME NEW n \in 1 .. N PROVE TwoTo[n] = 2 * TwoTo[n - 1]
  <2>1. n \in 0 .. N /\ n # 0
    BY <1>1
  <2>2. TwoTo[n] = loop(TwoTo)[n]
    <3> HIDE DEF loop
    <3> QED
      BY <1>6
  <2> QED
    BY <2>1, <2>2
<1>9. \A n \in 0 .. N : TwoTo[n] \in S
  <2>1. \A n \in 1 .. N : TwoTo[n - 1] \in S => TwoTo[n] \in S
    BY <1>8
  <2>2. TwoTo[0] \in S
    BY <1>7
  <2> HIDE DEF S
  <2> QED
    BY <1>1, <2>1, <2>2, ChainIsTyped
<1>10. ASSUME NEW n \in 0 .. N - 1 PROVE TwoTo[n + 1] = 2 * TwoTo[n]
  <2>1. n + 1 \in 1 .. N /\ (n + 1) - 1 = n
    BY <1>1
  <2> QED
    BY <1>8, <2>1
<1> QED
  BY <1>7, <1>9, <1>10 DEF N

\* A quotient is known by its remainder.
LEMMA QuotientIs ==
  ASSUME NEW m \in Nat, m > 0, NEW c \in Int, NEW k \in Int, NEW r \in 0 .. m - 1, c = m * k + r
  PROVE  c \div m = k
<1> DEFINE j == c \div m
           s == c % m
           i == j - k
<1>1. s \in 0 .. m - 1 /\ j \in Int /\ c = m * j + s
  BY Division
<1> HIDE DEF j, s
<1>2. i \in Int /\ m * i = r - s
  <2>1. m * i = m * j - m * k
    BY <1>1, SMT
  <2> QED
    BY <1>1, <2>1
<1> HIDE DEF i
<1>3. i = 0
  <2>1. CASE i >= 1
    <3>1. m * i >= m
      BY <1>2, <2>1, SMT
    <3> QED
      BY <1>1, <1>2, <3>1
  <2>2. CASE i <= -1
    <3>1. m * i <= -m
      BY <1>2, <2>2, SMT
    <3> QED
      BY <1>1, <1>2, <3>1
  <2> QED
    BY <1>2, <2>1, <2>2
<1> QED
  BY <1>1, <1>3 DEF i, j

\* Dividing by m and then by n is dividing by their product.
LEMMA NestedDivision ==
  ASSUME NEW m \in Nat, m > 0, NEW n \in Nat, n > 0, NEW c \in Nat
  PROVE  /\ c \div m \in Nat /\ c \div (n * m) \in Nat
         /\ c \div m = (n * (c \div (n * m))) + ((c \div m) % n)
<1> DEFINE a == c \div m
           r == c % m
           h == a \div n
           b == a % n
           M == n * m
<1>1. a \in Int /\ r \in 0 .. m - 1 /\ c = m * a + r
  BY Division
<1>2. a \in Nat
  <2> HIDE DEF a, r
  <2> SUFFICES ASSUME a <= -1 PROVE FALSE
    BY <1>1
  <2>1. m * a <= -m
    BY <1>1, SMT
  <2> QED
    BY <1>1, <2>1
<1> HIDE DEF a, r
<1>3. h \in Int /\ b \in 0 .. n - 1 /\ a = n * h + b
  BY <1>1, Division
<1>4. h \in Nat
  <2> HIDE DEF h, b
  <2> SUFFICES ASSUME h <= -1 PROVE FALSE
    BY <1>3
  <2>1. n * h <= -n
    BY <1>3, SMT
  <2> QED
    BY <1>2, <1>3, <2>1
<1> HIDE DEF h, b
<1>5. M \in Nat /\ M > 0
  BY SMT
<1>6. m * b + r \in 0 .. M - 1
  <2>1. m * b >= 0 /\ m * b <= m * (n - 1) /\ m * b \in Int
    BY <1>3, SMT
  <2>2. m * (n - 1) = M - m
    BY SMT
  <2> QED
    BY <1>1, <1>5, <2>1, <2>2
<1>7. c = M * h + (m * b + r)
  <2>1. m * (n * h + b) = M * h + m * b
    BY <1>3, SMT
  <2> QED
    BY <1>1, <1>3, <1>5, <1>6, <2>1
<1> HIDE DEF M
<1> DEFINE rr == m * b + r
<1>8. rr \in 0 .. M - 1 /\ c = M * h + rr
  BY <1>6, <1>7
<1> HIDE DEF rr
<1>9. c \div M = h
  BY <1>4, <1>5, <1>8, QuotientIs
<1> QED
  BY <1>2, <1>3, <1>4, <1>9 DEF a, h, b, M

LEMMA ScalarSizes ==
  /\ Bytes \in Nat /\ Bytes > 0
  /\ TopBit \in 0 .. 8 * Bytes - 2 /\ FirstBit \in 0 .. 8 * Bytes - 3 /\ FirstBit + 1 = TopBit
  /\ BASE_WINDOW_SIZE = 16 /\ BASE_WINDOW_BITS = 4
  /\ BASE_WINDOW_COUNT = 2 * Bytes
<1>1. Bytes \in Nat /\ Bytes > 0
  BY ScalarMultAssumption
<1>2. BASE_WINDOW_SIZE = 16 /\ BASE_WINDOW_BITS = 4
  BY DEF BASE_WINDOW_SIZE, BASE_WINDOW_BITS
<1>3. BASE_WINDOW_COUNT = 2 * Bytes
  BY <1>1, <1>2 DEF BASE_WINDOW_COUNT
<1> QED
  BY <1>1, <1>2, <1>3 DEF TopBit, FirstBit

\* Clamping sets the bit below the top one and clears the top one.
LEMMA ClampedTop ==
  ASSUME NEW x \in Parties, sk \in [Parties -> Scalars]
  PROVE  LET c == Clamp(sk[x]) IN
         c \in Nat /\ c \div TwoTo[8 * Bytes - 2] = 1 /\ c \div TwoTo[8 * Bytes] = 0
<1> DEFINE k == sk[x]
           N == 8 * Bytes
           top == TwoTo[N - 2]
           q == TwoTo[N - 5]
           t == k % top
           c == Clamp(k)
           o == TwoTo[N]
<1>1. k \in Nat
  <2>1. TwoTo[8 * Bytes] \in Nat
    <3>1. Bytes \in Nat
      BY ScalarSizes
    <3>2. 8 * Bytes \in 0 .. 8 * Bytes
      BY <3>1
    <3> QED
      BY <3>2, PowersOfTwo
  <2>2. k \in Scalars
    OBVIOUS
  <2>3. Scalars \subseteq 0 .. TwoTo[8 * Bytes] - 1
    BY ScalarMultAssumption
  <2> HIDE DEF k
  <2> QED
    BY <2>1, <2>2, <2>3
<1>2. N \in Nat /\ N >= 8
  BY ScalarSizes
<1> HIDE DEF k, N
<1>3. /\ q \in Nat /\ q > 0 /\ top = 8 * q /\ TwoTo[N] = 4 * top /\ top \in Nat /\ top > 0
  <2>1. \A n \in 0 .. N : TwoTo[n] \in Nat /\ TwoTo[n] > 0
    BY PowersOfTwo DEF N
  <2>2. \A n \in 0 .. N - 1 : TwoTo[n + 1] = 2 * TwoTo[n]
    BY PowersOfTwo DEF N
  <2>3. /\ N - 5 \in 0 .. N - 1 /\ N - 4 \in 0 .. N - 1 /\ N - 3 \in 0 .. N - 1
        /\ N - 2 \in 0 .. N - 1 /\ N - 1 \in 0 .. N - 1
        /\ (N - 5) + 1 = N - 4 /\ (N - 4) + 1 = N - 3 /\ (N - 3) + 1 = N - 2
        /\ (N - 2) + 1 = N - 1 /\ (N - 1) + 1 = N
    BY <1>2
  <2>4. /\ TwoTo[N - 4] = 2 * q /\ TwoTo[N - 3] = 2 * TwoTo[N - 4] /\ top = 2 * TwoTo[N - 3]
        /\ TwoTo[N - 1] = 2 * top /\ TwoTo[N] = 2 * TwoTo[N - 1]
    BY <2>2, <2>3
  <2> HIDE DEF q, top
  <2>5. q \in Nat /\ q > 0
    BY <2>1, <2>3 DEF q
  <2> QED
    BY <2>4, <2>5
<1>4. c = top + (k % top) - (k % 8)
  BY DEF Clamp, N, top
<1> HIDE DEF q, top, o
<1>5. k % 8 \in 0 .. 7 /\ t \in 0 .. top - 1 /\ t >= k % 8
  <2>1. /\ t \in 0 .. top - 1 /\ k \div top \in Int /\ k = top * (k \div top) + t
    BY <1>1, <1>3, Division
  <2> DEFINE u == q * (k \div top)
  <2>2. u \in Int /\ top * (k \div top) = 8 * u
    BY <1>3, <2>1, SMT
  <2> HIDE DEF t, u
  <2>3. k = 8 * u + t
    BY <2>1, <2>2
  <2>4. k % 8 = t % 8
    BY <1>3, <2>1, <2>2, <2>3
  <2>5. t % 8 \in 0 .. 7 /\ t % 8 <= t
    BY <1>3, <2>1
  <2> QED
    BY <2>1, <2>4, <2>5
<1> HIDE DEF t, c
<1> DEFINE r == t - (k % 8)
<1>6. r \in 0 .. top - 1 /\ c = top * 1 + r
  <2>1. c = top + (t - (k % 8))
    BY <1>3, <1>4, <1>5 DEF t
  <2> QED
    BY <1>3, <1>5, <2>1
<1> HIDE DEF r
<1>7. c \in Nat /\ 1 \in Int
  BY <1>3, <1>6
<1>8. c \div top = 1
  BY <1>3, <1>6, <1>7, QuotientIs
<1>9. c \div o = 0
  <2>1. o \in Nat /\ o > 0 /\ c \in 0 .. o - 1
    BY <1>3, <1>6, <1>7 DEF o
  <2>2. c = o * 0 + c /\ 0 \in Int
    BY <2>1
  <2> QED
    BY <1>7, <2>1, <2>2, QuotientIs
<1> QED
  BY <1>7, <1>8, <1>9 DEF c, k, top, o, N

\* One bit, or one window, more of a scalar.
LEMMA NextBit ==
  ASSUME NEW c \in Nat, NEW n \in 0 .. 8 * Bytes - 1
  PROVE  LET h == c \div TwoTo[n + 1] IN
         h \in Nat /\ Bit(c, n) \in 0 .. 1 /\ c \div TwoTo[n] = 2 * h + Bit(c, n)
<1> DEFINE m == TwoTo[n]
<1>1. m \in Nat /\ m > 0 /\ TwoTo[n + 1] = 2 * m
  BY PowersOfTwo, ScalarSizes
<1> HIDE DEF m
<1>2. /\ c \div m \in Nat /\ c \div (2 * m) \in Nat
      /\ c \div m = (2 * (c \div (2 * m))) + ((c \div m) % 2)
  <2>1. 2 \in Nat /\ 2 > 0
    OBVIOUS
  <2> QED
    BY <1>1, <2>1, NestedDivision, Zenon
<1>3. (c \div m) % 2 \in 0 .. 1
  BY <1>2
<1> QED
  BY <1>1, <1>2, <1>3 DEF Bit, m

LEMMA NextWindow ==
  ASSUME NEW c \in Nat, NEW w \in 0 .. BASE_WINDOW_COUNT - 1
  PROVE  LET m == TwoTo[4 * w]
             h == c \div TwoTo[4 * (w + 1)]
         IN /\ m \in Nat /\ m > 0 /\ TwoTo[4 * (w + 1)] = 16 * m
            /\ h \in Nat /\ Window(c, w) \in 0 .. 15 /\ c \div m = 16 * h + Window(c, w)
<1> DEFINE n == 4 * w
           m == TwoTo[n]
<1>1. n \in Nat /\ n + 4 \in 0 .. 8 * Bytes /\ 4 * (w + 1) = n + 4 /\ w * 4 = n
  BY ScalarSizes
<1>2. m \in Nat /\ m > 0 /\ TwoTo[n + 4] = 16 * m
  <2>1. /\ n \in 0 .. 8 * Bytes - 1 /\ n + 1 \in 0 .. 8 * Bytes - 1 /\ n + 2 \in 0 .. 8 * Bytes - 1
        /\ n + 3 \in 0 .. 8 * Bytes - 1 /\ n \in 0 .. 8 * Bytes
        /\ (n + 1) + 1 = n + 2 /\ (n + 2) + 1 = n + 3 /\ (n + 3) + 1 = n + 4
    BY <1>1, ScalarSizes
  <2> HIDE DEF n
  <2>2. /\ TwoTo[n + 1] = 2 * m /\ TwoTo[n + 2] = 2 * TwoTo[n + 1]
        /\ TwoTo[n + 3] = 2 * TwoTo[n + 2] /\ TwoTo[n + 4] = 2 * TwoTo[n + 3]
        /\ m \in Nat /\ m > 0
    BY <2>1, PowersOfTwo
  <2> HIDE DEF m
  <2> QED
    BY <2>2
<1> HIDE DEF m, n
<1>3. /\ c \div m \in Nat /\ c \div (16 * m) \in Nat
      /\ c \div m = (16 * (c \div (16 * m))) + ((c \div m) % 16)
  <2>1. 16 \in Nat /\ 16 > 0
    OBVIOUS
  <2> QED
    BY <1>2, <2>1, NestedDivision, Zenon
<1>4. (c \div m) % 16 \in 0 .. 15
  BY <1>3
<1>5. Window(c, w) = (c \div m) % 16
  BY <1>1, ScalarSizes DEF Window, m
<1> QED
  BY <1>1, <1>2, <1>3, <1>4, <1>5 DEF m, n

-----------------------------------------------------------------------------
(*  Exponents modulo the order, and the table                              *)

LEMMA DoubleOf ==
  ASSUME NEW a \in Int, NEW q, Represents(q, a % Order)
  PROVE  Represents(group_ge_double(q), (2 * a) % Order)
<1>1. Order \in Nat /\ Order > 0 /\ a % Order \in Exponents /\ a % Order \in Int
  BY Orders DEF Exponents
<1>2. Same(Order, a % Order, a) /\ Same(Order, 2, 2)
  BY <1>1, SameEquivalence
<1>3. Same(Order, 2 * (a % Order), 2 * a)
  BY <1>1, <1>2, SameArithmetic
<1>4. (2 * (a % Order)) % Order = (2 * a) % Order
  <2>1. 2 * (a % Order) \in Int /\ 2 * a \in Int
    BY <1>1
  <2> QED
    BY <1>1, <1>3, <2>1, SameIsEqual
<1> QED
  BY <1>1, <1>4, DoubleRepresents

LEMMA AddOf ==
  ASSUME NEW a \in Int, NEW b \in Int, NEW q, NEW r,
         Represents(q, a % Order), Represents(r, b % Order)
  PROVE  Represents(group_ge_add(q, r), (a + b) % Order)
<1>1. /\ Order \in Nat /\ Order > 0
      /\ a % Order \in Exponents /\ a % Order \in Int
      /\ b % Order \in Exponents /\ b % Order \in Int
  <2>1. Order \in Nat /\ Order > 0
    BY Orders
  <2>2. a % Order \in Exponents /\ a % Order \in Int
    BY <2>1 DEF Exponents
  <2>3. b % Order \in Exponents /\ b % Order \in Int
    BY <2>1 DEF Exponents
  <2> QED
    BY <2>1, <2>2, <2>3
<1>2. Same(Order, a % Order, a) /\ Same(Order, b % Order, b)
  BY <1>1, SameEquivalence
<1>3. Same(Order, (a % Order) + (b % Order), a + b)
  BY <1>1, <1>2, SameArithmetic
<1>4. ((a % Order) + (b % Order)) % Order = (a + b) % Order
  <2>1. (a % Order) + (b % Order) \in Int /\ a + b \in Int
    BY <1>1
  <2> QED
    BY <1>1, <1>3, <2>1, SameIsEqual
<1> QED
  BY <1>1, <1>4, AddRepresents

LEMMA StartsAreOfField == group_ge_neutral \in PointsOfField /\ group_ge_base \in PointsOfField
<1>1. 0 \in Field /\ 1 \in Field
  BY PrimeIsPositive DEF Field
<1>2. Multiples[BaseExponent] \in Field \X Field
  BY BaseRepresents, CurveAssumption DEF Exponents
<1>3. /\ Multiples[BaseExponent][1] \in Field /\ Multiples[BaseExponent][2] \in Field
  BY <1>2
<1>4. group_ge_neutral \in PointsOfField
  BY <1>1 DEF group_ge_neutral, PointsOfField, Point
<1>5. group_ge_base \in PointsOfField
  BY <1>1, <1>3, FieldIsClosed DEF group_ge_base, Representative, PointsOfField, Point
<1> QED
  BY <1>4, <1>5

FourDoublings(q) == group_ge_double(group_ge_double(group_ge_double(group_ge_double(q))))

\* The base of window w is the base point times 16^w.
LEMMA WindowBases ==
  ASSUME NEW w \in 0 .. BASE_WINDOW_COUNT - 1
  PROVE  WindowBase[w] \in PointsOfField /\ Represents(WindowBase[w], (8 * TwoTo[4 * w]) % Order)
<1> DEFINE n == BASE_WINDOW_COUNT - 1
           loop(g) == [i \in 0 .. n |-> IF i = 0 THEN group_ge_base ELSE FourDoublings(g[i - 1])]
           step == [t \in (0 .. n) \X PointsOfField |-> FourDoublings(t[2])]
<1>1. n \in Nat
  BY ScalarSizes
<1>2. \A q \in PointsOfField : FourDoublings(q) \in PointsOfField
  BY FormulasAreClosed DEF FourDoublings
<1>3. WindowBase = CHOOSE g : g = loop(g)
  BY DEF WindowBase, FourDoublings
<1> HIDE DEF n
<1>4. step \in [(0 .. n) \X PointsOfField -> PointsOfField]
  BY <1>2
<1>5. PICK h : IsChain(h, n, PointsOfField, group_ge_base, step)
  <2> HIDE DEF step
  <2> QED
    BY <1>1, <1>4, StartsAreOfField, ChainExists
<1>6. h = loop(h)
  <2>1. ASSUME NEW i \in 0 .. n PROVE h[i] = loop(h)[i]
    <3>1. CASE i = 0
      BY <1>5, <3>1 DEF IsChain
    <3>2. CASE i # 0
      <4>1. i - 1 \in 0 .. n
        BY <1>1, <3>2
      <4>2. h[i - 1] \in PointsOfField /\ h[i] = step[<<i, h[i - 1]>>]
        <5> HIDE DEF step
        <5> QED
          BY <1>5, <3>2, <4>1 DEF IsChain
      <4> QED
        BY <3>2, <4>1, <4>2
    <3> QED
      BY <3>1, <3>2
  <2>2. h = [i \in 0 .. n |-> h[i]]
    BY <1>5 DEF IsChain
  <2> QED
    BY <2>1, <2>2
<1>7. WindowBase = loop(WindowBase)
  BY <1>3, <1>6
<1>8. WindowBase[0] = group_ge_base
  <2>1. 0 \in 0 .. n
    BY <1>1
  <2>2. WindowBase[0] = loop(WindowBase)[0]
    <3> HIDE DEF loop
    <3> QED
      BY <1>7
  <2> QED
    BY <2>1, <2>2
<1>9. ASSUME NEW i \in 0 .. n, i # 0 PROVE WindowBase[i] = FourDoublings(WindowBase[i - 1])
  <2>1. WindowBase[i] = loop(WindowBase)[i]
    <3> HIDE DEF loop
    <3> QED
      BY <1>7
  <2> QED
    BY <1>9, <2>1
<1> DEFINE T == {i \in Nat : i <= n =>
                   /\ WindowBase[i] \in PointsOfField
                   /\ Represents(WindowBase[i], (8 * TwoTo[4 * i]) % Order)}
<1>10. 0 \in T /\ T \subseteq Nat
  <2>1. TwoTo[4 * 0] = 1
    BY PowersOfTwo
  <2>2. (8 * TwoTo[4 * 0]) % Order = BaseExponent
    BY <2>1, Orders DEF BaseExponent
  <2> QED
    BY <1>8, <2>2, BaseRepresents, StartsAreOfField
<1>11. ASSUME NEW i \in T PROVE i + 1 \in T
  <2> SUFFICES ASSUME i + 1 <= n
               PROVE  /\ WindowBase[i + 1] \in PointsOfField
                      /\ Represents(WindowBase[i + 1], (8 * TwoTo[4 * (i + 1)]) % Order)
    OBVIOUS
  <2>1. i + 1 \in 0 .. n /\ i + 1 # 0 /\ (i + 1) - 1 = i /\ i \in 0 .. n
    BY <1>1
  <2>2. WindowBase[i] \in PointsOfField /\ Represents(WindowBase[i], (8 * TwoTo[4 * i]) % Order)
    BY <2>1
  <2>3. WindowBase[i + 1] = FourDoublings(WindowBase[i])
    BY <1>9, <2>1
  <2> DEFINE m == TwoTo[4 * i]
  <2>4. m \in Nat /\ TwoTo[4 * (i + 1)] = 16 * m
    BY <2>1, NextWindow, ScalarSizes DEF n
  <2> HIDE DEF m
  <2> DEFINE q == WindowBase[i]
             D(r) == group_ge_double(r)
  <2>5. Represents(q, (8 * m) % Order) /\ 8 * m \in Int
    BY <2>2, <2>4 DEF m
  <2> HIDE DEF q
  <2>6. Represents(D(q), (2 * (8 * m)) % Order) /\ 2 * (8 * m) \in Int
    BY <2>5, <2>4, DoubleOf
  <2>7. Represents(D(D(q)), (2 * (2 * (8 * m))) % Order) /\ 2 * (2 * (8 * m)) \in Int
    BY <2>6, <2>4, DoubleOf
  <2>8. Represents(D(D(D(q))), (2 * (2 * (2 * (8 * m)))) % Order) /\ 2 * (2 * (2 * (8 * m))) \in Int
    BY <2>7, <2>4, DoubleOf
  <2>9. Represents(D(D(D(D(q)))), (2 * (2 * (2 * (2 * (8 * m))))) % Order)
    BY <2>8, DoubleOf
  <2>10. 2 * (2 * (2 * (2 * (8 * m)))) = 8 * (16 * m)
    BY <2>4
  <2> QED
    BY <1>2, <2>2, <2>3, <2>4, <2>9, <2>10 DEF FourDoublings, q
<1>12. w \in T
  <2> HIDE DEF T
  <2>1. Nat \subseteq T
    BY <1>10, <1>11, SetInduction
  <2>2. w \in Nat
    BY <1>1 DEF n
  <2> QED
    BY <2>1, <2>2
<1> QED
  BY <1>12, ScalarSizes DEF n

\* Entry j of window w is j times its base.
LEMMA TableEntries ==
  ASSUME NEW w \in 0 .. BASE_WINDOW_COUNT - 1, NEW j \in 0 .. 15
  PROVE  Represents(crypto_scalarmult_base_table[w][j], ((8 * TwoTo[4 * w]) * j) % Order)
<1> DEFINE b == WindowBase[w]
           m == 8 * TwoTo[4 * w]
           loop(g) == [i \in 0 .. 15 |->
                         CASE i = 0 -> group_ge_neutral
                           [] i = 1 -> b
                           [] OTHER -> group_ge_add(g[i - 1], b)]
           step == [t \in (0 .. 15) \X PointsOfField |->
                      IF t[1] = 1 THEN b ELSE group_ge_add(t[2], b)]
           table == crypto_scalarmult_base_table[w]
<1>1. b \in PointsOfField /\ Represents(b, m % Order)
  BY WindowBases
<1>2. m \in Int /\ 0 \in Int
  BY NextWindow
<1>3. table = CHOOSE g : g = loop(g)
  BY ScalarSizes DEF crypto_scalarmult_base_table
<1> HIDE DEF b, m
<1>4. step \in [(0 .. 15) \X PointsOfField -> PointsOfField]
  BY <1>1, FormulasAreClosed
<1>5. PICK h : IsChain(h, 15, PointsOfField, group_ge_neutral, step)
  <2> HIDE DEF step
  <2>1. 15 \in Nat
    OBVIOUS
  <2> QED
    BY <1>4, <2>1, StartsAreOfField, ChainExists
<1>6. h = loop(h)
  <2>1. ASSUME NEW i \in 0 .. 15 PROVE h[i] = loop(h)[i]
    <3>1. CASE i = 0
      BY <1>5, <3>1 DEF IsChain
    <3>2. CASE i # 0
      <4>1. i - 1 \in 0 .. 15
        BY <3>2
      <4>2. h[i - 1] \in PointsOfField /\ h[i] = step[<<i, h[i - 1]>>]
        <5> HIDE DEF step
        <5> QED
          BY <1>5, <3>2, <4>1 DEF IsChain
      <4> QED
        BY <3>2, <4>1, <4>2
    <3> QED
      BY <3>1, <3>2
  <2>2. h = [i \in 0 .. 15 |-> h[i]]
    BY <1>5 DEF IsChain
  <2> QED
    BY <2>1, <2>2
<1>7. table = loop(table)
  <2> HIDE DEF loop, table
  <2> QED
    BY <1>3, <1>6
<1>8. ASSUME NEW i \in 0 .. 15 PROVE table[i] = loop(table)[i]
  <2> HIDE DEF loop, table
  <2> QED
    BY <1>7
<1> HIDE DEF table
<1>9. /\ table[0] = group_ge_neutral /\ table[1] = b
      /\ \A i \in 2 .. 15 : table[i] = group_ge_add(table[i - 1], b)
  BY <1>8
<1> HIDE DEF loop
<1> DEFINE T == {i \in Nat : i <= 15 => Represents(table[i], (m * i) % Order)}
<1>10. 0 \in T /\ T \subseteq Nat
  <2>1. (m * 0) % Order = 0
    BY <1>2, Orders
  <2> QED
    BY <1>9, <2>1, NeutralRepresents
<1>11. ASSUME NEW i \in T PROVE i + 1 \in T
  <2> SUFFICES ASSUME i + 1 <= 15 PROVE Represents(table[i + 1], (m * (i + 1)) % Order)
    OBVIOUS
  <2>1. CASE i = 0
    <3>1. m * (i + 1) = m
      BY <1>2, <2>1
    <3> QED
      BY <1>1, <1>9, <2>1, <3>1
  <2>2. CASE i # 0
    <3>1. i \in Nat /\ i + 1 \in 2 .. 15 /\ (i + 1) - 1 = i
      BY <2>2
    <3>2. Represents(table[i], (m * i) % Order) /\ m * i \in Int
      BY <1>2, <3>1
    <3>3. table[i + 1] = group_ge_add(table[i], b)
      BY <1>9, <3>1
    <3>4. m * (i + 1) = m * i + m
      BY <1>2, <3>1
    <3> QED
      BY <1>1, <1>2, <3>2, <3>3, <3>4, AddOf
  <2> QED
    BY <2>1, <2>2
<1>12. j \in T
  <2> HIDE DEF T
  <2>1. Nat \subseteq T
    BY <1>10, <1>11, SetInduction
  <2> QED
    BY <2>1
<1> QED
  BY <1>12 DEF m, table

-----------------------------------------------------------------------------
(*  The key exchange                                                       *)

\* s is the packed form of k times Gen.
Packs(s, k) == \E z \in Field \ {0} : s = group_ge_pack(Representative(k % Order, z))

\* The string x computed its secret from, and what came of it.
SecretOf(x) ==
  LET u == group_ge_unpack(peer[x])
  IN /\ peer[x] \in Nat
     /\ IF u.ret # 0 THEN ss[x] = Failed
        ELSE \E e \in Even : Represents(u.point, e) /\ Packs(ss[x], e * Clamp(sk[x]))

KeysAndSecrets ==
  /\ sk \in [Parties -> Scalars]
  /\ pk \in [Parties -> Field \cup {None}]
  /\ DOMAIN ss = Parties /\ DOMAIN peer = Parties
  /\ \A x \in Parties : pk[x] # None => Packs(pk[x], 8 * Clamp(sk[x]))
  /\ \A x \in Parties : ss[x] # None => SecretOf(x)

BaseCall ==
  pc = "scalarmult_base" =>
    /\ who \in Parties /\ scalar = Clamp(sk[who])
    /\ next \in -1 .. BASE_WINDOW_COUNT - 1

LadderCall ==
  pc = "scalarmult" =>
    LET u == group_ge_unpack(peer[who])
    IN /\ who \in Parties /\ scalar = Clamp(sk[who])
       /\ next \in -1 .. FirstBit
       /\ peer[who] \in Nat /\ u.ret = 0 /\ base = u.point

\* What holds between two steps of the exchange.
ExchangeInv == KeysAndSecrets /\ BaseCall /\ LadderCall /\ LadderIsPrefix /\ WindowsAddUp

\* Packing reads no more of a point than its coordinates.
LEMMA PackOfRepresented ==
  ASSUME NEW k \in Int, NEW q, Represents(q, k % Order)
  PROVE  Packs(group_ge_pack(q), k) /\ group_ge_pack(q) \in Field
<1> DEFINE e == k % Order
           R == Representative(e, q.z)
<1>1. e \in Exponents
  BY Orders
<1> HIDE DEF e
<1>2. q.z \in Field \ {0} /\ Represents(q, e)
  BY DEF Represents, e
<1>3. q.x = R.x /\ q.y = R.y /\ q.z = R.z /\ q.t = R.t
  BY <1>1, <1>2, Coordinates DEF Representative, Point, Represents
<1>4. group_ge_pack(q) = group_ge_pack(R)
  <2> HIDE DEF R
  <2> QED
    BY <1>3 DEF group_ge_pack
<1>5. group_ge_pack(q) \in Field
  BY <1>1, <1>2, PackIsResidue
<1> QED
  BY <1>2, <1>4, <1>5 DEF Packs, e

\* A call of crypto_scalarmult starts with the point it was given.
LEMMA LadderStarts ==
  ASSUME NEW x \in Parties, sk \in [Parties -> Scalars],
         NEW st \in Nat, group_ge_unpack(st).ret = 0
  PROVE  LET b == group_ge_unpack(st).point
             c == Clamp(sk[x])
         IN \E e \in Even : /\ Represents(b, e)
                            /\ Represents(b, (e * (c \div TwoTo[FirstBit + 1])) % Order)
<1> DEFINE c == Clamp(sk[x])
<1>1. c \div TwoTo[FirstBit + 1] = 1
  <2>1. FirstBit + 1 = 8 * Bytes - 2
    BY ScalarSizes DEF TopBit
  <2> QED
    BY <2>1, ClampedTop
<1>2. PICK e \in Even : Represents(group_ge_unpack(st).point, e)
  BY UnpackRepresents
<1>3. (e * 1) % Order = e
  BY Orders DEF Even
<1> QED
  BY <1>1, <1>2, <1>3

\* One bit: from the bits above to the bits from this one on.
LEMMA LadderSteps ==
  ASSUME NEW c \in Nat, NEW n \in 0 .. 8 * Bytes - 1, NEW e \in Even, NEW b, NEW k,
         Represents(b, e), Represents(k, (e * (c \div TwoTo[n + 1])) % Order)
  PROVE  LET D == group_ge_double(k)
             A == group_ge_add(D, b)
         IN Represents(IF Bit(c, n) = 1 THEN A ELSE D, (e * (c \div TwoTo[n])) % Order)
<1> DEFINE h == c \div TwoTo[n + 1]
           D == group_ge_double(k)
<1>1. h \in Nat /\ Bit(c, n) \in 0 .. 1 /\ c \div TwoTo[n] = 2 * h + Bit(c, n)
  BY NextBit
<1>2. e \in Int /\ e % Order = e
  <2>1. e \in 0 .. Order - 1 /\ Order \in Nat /\ Order > 0
    BY Orders DEF Even
  <2> QED
    BY <2>1
<1> HIDE DEF h
<1>3. e * h \in Int /\ 2 * (e * h) \in Int /\ Represents(k, (e * h) % Order)
  BY <1>1, <1>2 DEF h
<1>4. Represents(D, (2 * (e * h)) % Order)
  BY <1>3, DoubleOf
<1> HIDE DEF D
<1>5. CASE Bit(c, n) = 1
  <2>1. Represents(group_ge_add(D, b), (2 * (e * h) + e) % Order)
    BY <1>2, <1>3, <1>4, AddOf
  <2>2. e * (2 * h + 1) = 2 * (e * h) + e
    BY <1>1, <1>2, SMT
  <2> QED
    BY <1>1, <1>5, <2>1, <2>2 DEF D
<1>6. CASE Bit(c, n) # 1
  <2>1. e * (2 * h + 0) = 2 * (e * h)
    BY <1>1, <1>2, SMT
  <2>2. Bit(c, n) = 0
    BY <1>1, <1>6
  <2> QED
    BY <1>1, <1>4, <1>6, <2>1, <2>2 DEF D
<1> QED
  BY <1>5, <1>6

\* One window of crypto_scalarmult_base.
LEMMA WindowSteps ==
  ASSUME NEW c \in Nat, NEW w \in 0 .. BASE_WINDOW_COUNT - 1, NEW k,
         Represents(k, (8 * ((c \div TwoTo[4 * (w + 1)]) * TwoTo[4 * (w + 1)])) % Order)
  PROVE  LET nibble == Window(c, w)
             sum == group_ge_add(k, base_select_window(w, nibble))
         IN Represents(IF nibble # 0 THEN sum ELSE k,
                       (8 * ((c \div TwoTo[4 * w]) * TwoTo[4 * w])) % Order)
<1> DEFINE m == TwoTo[4 * w]
           h == c \div TwoTo[4 * (w + 1)]
           g == Window(c, w)
<1>1. /\ m \in Nat /\ m > 0 /\ TwoTo[4 * (w + 1)] = 16 * m
      /\ h \in Nat /\ g \in 0 .. 15 /\ c \div m = 16 * h + g
  BY NextWindow
<1>2. Represents(base_select_window(w, g), ((8 * m) * g) % Order)
  BY <1>1, TableEntries DEF base_select_window
<1>3. Represents(k, (8 * (h * (16 * m))) % Order)
  BY <1>1
<1> HIDE DEF m, h, g
<1>4. 8 * (h * (16 * m)) \in Int /\ (8 * m) * g \in Int
  BY <1>1
<1>5. CASE g # 0
  <2>1. 8 * ((16 * h + g) * m) = 8 * (h * (16 * m)) + (8 * m) * g
    BY <1>1, SMT
  <2>2. Represents(group_ge_add(k, base_select_window(w, g)),
                   (8 * (h * (16 * m)) + (8 * m) * g) % Order)
    BY <1>2, <1>3, <1>4, AddOf
  <2> QED
    BY <1>1, <1>5, <2>1, <2>2 DEF m, g
<1>6. CASE g = 0
  <2>1. 8 * ((16 * h + 0) * m) = 8 * (h * (16 * m))
    BY <1>1, SMT
  <2> QED
    BY <1>1, <1>3, <1>6, <2>1 DEF m, g
<1> QED
  BY <1>5, <1>6

LEMMA ExchangeStarts == ExchangeInit => ExchangeInv
<1> SUFFICES ASSUME ExchangeInit PROVE ExchangeInv
  OBVIOUS
<1>1. KeysAndSecrets
  BY DEF ExchangeInit, KeysAndSecrets
<1>2. pc = "idle"
  BY DEF ExchangeInit
<1> QED
  BY <1>1, <1>2 DEF ExchangeInv, BaseCall, LadderCall, LadderIsPrefix, WindowsAddUp

\* What the keys and secrets satisfy is not lost when they stay the same.
LEMMA KeysStay ==
  ASSUME KeysAndSecrets, sk' = sk, pk' = pk, ss' = ss, peer' = peer
  PROVE  KeysAndSecrets'
  BY DEF KeysAndSecrets, SecretOf

\* The string a secret is computed from may change before there is a secret.
LEMMA PeerStays ==
  ASSUME KeysAndSecrets, NEW x \in Parties, ss[x] = None, NEW st,
         sk' = sk, pk' = pk, ss' = ss, peer' = [peer EXCEPT ![x] = st]
  PROVE  KeysAndSecrets'
<1>1. ASSUME NEW y \in Parties, ss'[y] # None PROVE SecretOf(y)'
  <2>1. y # x /\ peer'[y] = peer[y] /\ SecretOf(y)
    BY <1>1 DEF KeysAndSecrets
  <2> QED
    BY <2>1 DEF SecretOf
<1> QED
  BY <1>1 DEF KeysAndSecrets

LEMMA ScalarIsNatural ==
  ASSUME KeysAndSecrets, NEW x \in Parties
  PROVE  Clamp(sk[x]) \in Nat
  BY ClampedTop DEF KeysAndSecrets

LEMMA CallBaseKeeps ==
  ASSUME ExchangeInv, NEW x \in Parties, CallBase(x)
  PROVE  ExchangeInv'
<1>1. /\ pc' = "scalarmult_base" /\ who' = x /\ scalar' = Clamp(sk[x]) /\ sk' = sk
      /\ acc' = group_ge_neutral /\ next' = BASE_WINDOW_COUNT - 1
  BY DEF CallBase, keys
<1>2. KeysAndSecrets'
  BY KeysStay DEF ExchangeInv, CallBase, keys
<1>3. BaseCall'
  BY <1>1, ScalarSizes DEF BaseCall
<1>4. WindowsAddUp'
  <2>1. BASE_WINDOW_BITS * (next' + 1) = 8 * Bytes
    BY <1>1, ScalarSizes
  <2>2. scalar' \div TwoTo[8 * Bytes] = 0
    BY <1>1, ClampedTop DEF ExchangeInv, KeysAndSecrets
  <2>3. TwoTo[8 * Bytes] \in Int
    BY PowersOfTwo, ScalarSizes
  <2>4. 0 * TwoTo[8 * Bytes] = 0
    BY <2>3
  <2>5. (BaseExponent * 0) % Order = 0
    BY Orders DEF BaseExponent
  <2> QED
    BY <1>1, <2>1, <2>2, <2>4, <2>5, NeutralRepresents DEF WindowsAddUp
<1> QED
  BY <1>1, <1>2, <1>3, <1>4 DEF ExchangeInv, LadderCall, LadderIsPrefix

LEMMA WindowStepKeeps ==
  ASSUME ExchangeInv, WindowStep
  PROVE  ExchangeInv'
<1> DEFINE c == scalar
           w == next
<1>1. /\ pc = "scalarmult_base" /\ pc' = pc /\ who' = who /\ scalar' = scalar /\ sk' = sk
      /\ next' = next - 1 /\ next >= 0
  BY DEF WindowStep, keys
<1>2. KeysAndSecrets'
  BY KeysStay DEF ExchangeInv, WindowStep, keys
<1>3. who \in Parties /\ scalar = Clamp(sk[who]) /\ next \in -1 .. BASE_WINDOW_COUNT - 1
  BY <1>1 DEF ExchangeInv, BaseCall
<1>4. c \in Nat /\ w \in 0 .. BASE_WINDOW_COUNT - 1 /\ next' + 1 = w /\ BASE_WINDOW_COUNT \in Nat
  BY <1>1, <1>3, ScalarIsNatural, ScalarSizes DEF ExchangeInv
<1>5. BaseCall'
  BY <1>1, <1>3, <1>4 DEF BaseCall
<1>6. BaseExponent = 8 /\ BASE_WINDOW_BITS = 4
  BY ScalarSizes DEF BaseExponent
<1>7. Represents(acc, (8 * ((c \div TwoTo[4 * (w + 1)]) * TwoTo[4 * (w + 1)])) % Order)
  BY <1>1, <1>6 DEF ExchangeInv, WindowsAddUp
<1>8. acc' = IF Window(c, w) # 0 THEN group_ge_add(acc, base_select_window(w, Window(c, w))) ELSE acc
  BY DEF WindowStep
<1>9. Represents(acc', (8 * ((c \div TwoTo[4 * w]) * TwoTo[4 * w])) % Order)
  <2> HIDE DEF c, w
  <2> QED
    BY <1>4, <1>7, <1>8, WindowSteps
<1>10. WindowsAddUp'
  <2>1. BASE_WINDOW_BITS * (next' + 1) = 4 * w
    BY <1>4, <1>6
  <2> QED
    BY <1>1, <1>6, <1>9, <2>1 DEF WindowsAddUp
<1> QED
  BY <1>1, <1>2, <1>5, <1>10 DEF ExchangeInv, LadderCall, LadderIsPrefix

\* The point packed for a public key stands for the scalar.
LEMMA ReturnBaseKeeps ==
  ASSUME ExchangeInv, ReturnBase
  PROVE  ExchangeInv'
<1>1. /\ pc = "scalarmult_base" /\ next < 0 /\ pc' = "idle"
      /\ pk' = [pk EXCEPT ![who] = group_ge_pack(acc)]
      /\ sk' = sk /\ ss' = ss /\ peer' = peer
  BY DEF ReturnBase, Return
<1>2. /\ who \in Parties /\ scalar = Clamp(sk[who]) /\ next \in -1 .. BASE_WINDOW_COUNT - 1
      /\ KeysAndSecrets
  BY <1>1 DEF ExchangeInv, BaseCall
<1>3. next = -1 /\ scalar \in Nat
  BY <1>1, <1>2, ScalarIsNatural, ScalarSizes
<1>4. Represents(acc, (8 * scalar) % Order)
  <2>1. BASE_WINDOW_BITS * (next + 1) = 0 /\ TwoTo[0] = 1
    BY <1>3, ScalarSizes, PowersOfTwo
  <2>2. (scalar \div 1) * 1 = scalar
    BY <1>3
  <2> QED
    BY <1>1, <2>1, <2>2 DEF ExchangeInv, WindowsAddUp, BaseExponent
<1>5. Packs(group_ge_pack(acc), 8 * scalar) /\ group_ge_pack(acc) \in Field
  BY <1>3, <1>4, PackOfRepresented
<1>6. pk' \in [Parties -> Field \cup {None}]
  BY <1>1, <1>2, <1>5 DEF KeysAndSecrets
<1>7. ASSUME NEW y \in Parties, pk'[y] # None PROVE Packs(pk'[y], 8 * Clamp(sk'[y]))
  BY <1>1, <1>2, <1>5, <1>7 DEF KeysAndSecrets
<1>8. \A y \in Parties : ss'[y] # None => SecretOf(y)'
  BY <1>1, <1>2 DEF KeysAndSecrets, SecretOf
<1>9. KeysAndSecrets'
  BY <1>1, <1>2, <1>6, <1>7, <1>8 DEF KeysAndSecrets
<1> QED
  BY <1>1, <1>9 DEF ExchangeInv, BaseCall, LadderCall, LadderIsPrefix, WindowsAddUp

\* A string is rejected at once, or the loop starts at the point it stands for.
LEMMA CallScalarmultKeeps ==
  ASSUME ExchangeInv, NEW x \in Parties, NEW st \in Nat, CallScalarmult(x, st)
  PROVE  ExchangeInv'
<1> DEFINE u == group_ge_unpack(st)
<1>1. /\ pc = "idle" /\ ss[x] = None /\ peer' = [peer EXCEPT ![x] = st] /\ who' = x
      /\ sk' = sk /\ pk' = pk /\ KeysAndSecrets
  BY DEF CallScalarmult, ExchangeInv
<1>2. CASE u.ret # 0 /\ ss' = [ss EXCEPT ![x] = Failed] /\ pc' = pc
  <2>1. ASSUME NEW y \in Parties, ss'[y] # None PROVE SecretOf(y)'
    <3>1. CASE y = x
      <4>1. peer'[x] = st /\ ss'[x] = Failed
        BY <1>1, <1>2 DEF KeysAndSecrets
      <4> QED
        BY <1>2, <3>1, <4>1 DEF SecretOf
    <3>2. CASE y # x
      <4>1. peer'[y] = peer[y] /\ ss'[y] = ss[y] /\ SecretOf(y)
        BY <1>1, <1>2, <2>1, <3>2 DEF KeysAndSecrets
      <4> QED
        BY <1>1, <4>1 DEF SecretOf
    <3> QED
      BY <3>1, <3>2
  <2>2. KeysAndSecrets'
    BY <1>1, <1>2, <2>1 DEF KeysAndSecrets
  <2> QED
    BY <1>1, <1>2, <2>2 DEF ExchangeInv, BaseCall, LadderCall, LadderIsPrefix, WindowsAddUp
<1>3. CASE /\ u.ret = 0 /\ pc' = "scalarmult" /\ scalar' = Clamp(sk[x])
           /\ base' = u.point /\ acc' = u.point /\ next' = FirstBit /\ ss' = ss
  <2>1. KeysAndSecrets'
    BY <1>1, <1>3, PeerStays
  <2>2. peer'[x] = st
    BY <1>1 DEF KeysAndSecrets
  <2>3. FirstBit \in -1 .. FirstBit
    BY ScalarSizes
  <2>4. LadderCall'
    BY <1>1, <1>3, <2>2, <2>3 DEF LadderCall
  <2>5. sk \in [Parties -> Scalars]
    BY <1>1 DEF KeysAndSecrets
  <2>6. LadderIsPrefix'
    BY <1>3, <2>5, LadderStarts DEF LadderIsPrefix
  <2> QED
    BY <1>3, <2>1, <2>4, <2>6 DEF ExchangeInv, BaseCall, WindowsAddUp
<1> QED
  BY <1>2, <1>3 DEF CallScalarmult

LEMMA BitStepKeeps ==
  ASSUME ExchangeInv, BitStep
  PROVE  ExchangeInv'
<1> DEFINE c == scalar
           n == next
<1>1. /\ pc = "scalarmult" /\ pc' = pc /\ who' = who /\ scalar' = scalar /\ sk' = sk
      /\ base' = base /\ peer' = peer /\ next' = next - 1 /\ next >= 0
  BY DEF BitStep, keys
<1>2. KeysAndSecrets'
  BY KeysStay DEF ExchangeInv, BitStep, keys
<1>3. who \in Parties /\ scalar = Clamp(sk[who]) /\ next \in -1 .. FirstBit
  BY <1>1 DEF ExchangeInv, LadderCall
<1>4. c \in Nat /\ n \in 0 .. 8 * Bytes - 1 /\ next' + 1 = n /\ next' \in -1 .. FirstBit
  BY <1>1, <1>3, ScalarIsNatural, ScalarSizes DEF ExchangeInv
<1>5. LadderCall'
  BY <1>1, <1>4 DEF LadderCall, ExchangeInv
<1>6. PICK e \in Even : /\ Represents(base, e)
                        /\ Represents(acc, (e * (c \div TwoTo[n + 1])) % Order)
  BY <1>1 DEF ExchangeInv, LadderIsPrefix
<1> DEFINE D == group_ge_double(acc)
<1>7. acc' = IF Bit(c, n) = 1 THEN group_ge_add(D, base) ELSE D
  BY DEF BitStep
<1>8. Represents(acc', (e * (c \div TwoTo[n])) % Order)
  <2> HIDE DEF c, n
  <2> QED
    BY <1>4, <1>6, <1>7, LadderSteps
<1>9. LadderIsPrefix'
  BY <1>1, <1>4, <1>6, <1>8 DEF LadderIsPrefix
<1> QED
  BY <1>1, <1>2, <1>5, <1>9 DEF ExchangeInv, BaseCall, WindowsAddUp

LEMMA ReturnScalarmultKeeps ==
  ASSUME ExchangeInv, ReturnScalarmult
  PROVE  ExchangeInv'
<1>1. /\ pc = "scalarmult" /\ next < 0 /\ pc' = "idle"
      /\ ss' = [ss EXCEPT ![who] = group_ge_pack(acc)]
      /\ sk' = sk /\ pk' = pk /\ peer' = peer
  BY DEF ReturnScalarmult, Return
<1>2. /\ who \in Parties /\ scalar = Clamp(sk[who]) /\ next \in -1 .. FirstBit
      /\ peer[who] \in Nat
      /\ group_ge_unpack(peer[who]).ret = 0 /\ base = group_ge_unpack(peer[who]).point
      /\ KeysAndSecrets
  BY <1>1 DEF ExchangeInv, LadderCall
<1>3. next = -1 /\ scalar \in Nat
  BY <1>1, <1>2, ScalarIsNatural, ScalarSizes
<1>4. PICK e \in Even : Represents(base, e) /\ Represents(acc, (e * scalar) % Order)
  <2>1. next + 1 = 0 /\ TwoTo[0] = 1
    BY <1>3, PowersOfTwo
  <2>2. scalar \div 1 = scalar
    BY <1>3
  <2> QED
    BY <1>1, <2>1, <2>2 DEF ExchangeInv, LadderIsPrefix
<1>5. Packs(group_ge_pack(acc), e * scalar)
  <2>1. e * scalar \in Int
    BY <1>3, Orders DEF Even
  <2> QED
    BY <1>4, <2>1, PackOfRepresented
<1>6. ASSUME NEW y \in Parties, ss'[y] # None PROVE SecretOf(y)'
  <2>1. CASE y = who
    <3>1. ss'[y] = group_ge_pack(acc)
      BY <1>1, <1>2, <2>1 DEF KeysAndSecrets
    <3> QED
      BY <1>1, <1>2, <1>4, <1>5, <2>1, <3>1 DEF SecretOf
  <2>2. CASE y # who
    <3>1. ss'[y] = ss[y] /\ SecretOf(y)
      BY <1>1, <1>2, <1>6, <2>2 DEF KeysAndSecrets
    <3> QED
      BY <1>1, <3>1 DEF SecretOf
  <2> QED
    BY <2>1, <2>2
<1>7. KeysAndSecrets'
  BY <1>1, <1>2, <1>6 DEF KeysAndSecrets
<1> QED
  BY <1>1, <1>7 DEF ExchangeInv, BaseCall, LadderCall, LadderIsPrefix, WindowsAddUp

\* The loops keep what they say of acc, and the keys stand for their scalars.
LEMMA ExchangeInvariant == ExchangeSpec => []ExchangeInv
<1>1. ExchangeInv /\ [ExchangeNext]_exchangeVars => ExchangeInv'
  <2> SUFFICES ASSUME ExchangeInv, [ExchangeNext]_exchangeVars PROVE ExchangeInv'
    OBVIOUS
  <2>1. ASSUME NEW x \in Parties, CallBase(x) PROVE ExchangeInv'
    BY <2>1, CallBaseKeeps
  <2>2. ASSUME NEW x \in Parties, Exchange(x) PROVE ExchangeInv'
    <3>1. PICK st : CallScalarmult(x, st) /\ (st \in Received \/ \E y \in Parties : st = pk[y] /\ pk[y] # None)
      BY <2>2 DEF Exchange
    <3>2. st \in Nat
      <4>1. Received \subseteq Nat /\ Field \subseteq Nat
        BY ScalarMultAssumption, PrimeIsPositive DEF Field
      <4>2. pk \in [Parties -> Field \cup {None}]
        BY DEF ExchangeInv, KeysAndSecrets
      <4> QED
        BY <3>1, <4>1, <4>2
    <3> QED
      BY <3>1, <3>2, CallScalarmultKeeps
  <2>3. CASE WindowStep
    BY <2>3, WindowStepKeeps
  <2>4. CASE ReturnBase
    BY <2>4, ReturnBaseKeeps
  <2>5. CASE BitStep
    BY <2>5, BitStepKeeps
  <2>6. CASE ReturnScalarmult
    BY <2>6, ReturnScalarmultKeeps
  <2>7. CASE UNCHANGED exchangeVars
    BY <2>7, KeysStay DEF exchangeVars, keys, ExchangeInv, BaseCall, LadderCall,
                          LadderIsPrefix, WindowsAddUp
  <2> QED
    BY <2>1, <2>2, <2>3, <2>4, <2>5, <2>6, <2>7 DEF ExchangeNext
<1> QED
  BY <1>1, ExchangeStarts, PTL DEF ExchangeSpec

\* The accumulator of crypto_scalarmult is always the point times the bits it
\* has read, for every point, every scalar and every length of a scalar.
THEOREM LadderKeepsPrefix == ExchangeSpec => []LadderIsPrefix
<1>1. ExchangeInv => LadderIsPrefix
  BY DEF ExchangeInv
<1> QED
  BY <1>1, ExchangeInvariant, PTL

\* The accumulator of crypto_scalarmult_base is always the base point times the
\* windows it has read, each at its place, whatever the table holds elsewhere.
THEOREM WindowsKeepSum == ExchangeSpec => []WindowsAddUp
<1>1. ExchangeInv => WindowsAddUp
  BY DEF ExchangeInv
<1> QED
  BY <1>1, ExchangeInvariant, PTL

-----------------------------------------------------------------------------
(*  Agreement                                                              *)

packed(e) == group_ge_pack(Representative(e, 1))

\* Packing gives back what was unpacked, what is packed can be unpacked, and two
\* points have the same packed form exactly if they differ by 4-torsion.
LEMMA PackingTellsPoints ==
  /\ \A e \in Even, z \in Field \ {0} : group_ge_pack(Representative(e, z)) = packed(e)
  /\ \A e, f \in Even : packed(e) = packed(f) <=> SamePacked(e, f)
  /\ \A s \in Field :
       LET u == group_ge_unpack(s) IN
       /\ u.ret = 0 => group_ge_pack(u.point) = s
       /\ \A e \in Even : packed(e) = s => u.ret = 0
<1>1. ASSUME NEW e \in Even, NEW z \in Field \ {0}
      PROVE  Represents(Representative(e, z), e)
  BY <1>1, Orders, RepresentativeRepresents
<1>2. ASSUME NEW e \in Even, NEW z \in Field \ {0}
      PROVE  group_ge_pack(Representative(e, z)) = packed(e)
  <2>1. Represents(Representative(e, 1), e) /\ Represents(Representative(e, z), e)
    BY <1>1, <1>2, OneIsResidue
  <2>2. SamePacked(e, e)
    BY CurveAssumption DEF Even, SamePacked
  <2> QED
    BY <2>1, <2>2, PackTellsPoints DEF packed
<1>3. ASSUME NEW e \in Even, NEW f \in Even
      PROVE  packed(e) = packed(f) <=> SamePacked(e, f)
  <2>1. Represents(Representative(e, 1), e)
    BY <1>1, OneIsResidue
  <2>2. Represents(Representative(f, 1), f)
    BY <1>1, OneIsResidue
  <2> QED
    BY <2>1, <2>2, PackTellsPoints DEF packed
<1>4. ASSUME NEW s \in Field
      PROVE  s \in Nat /\ s % p = s
  BY <1>4, PrimeIsPositive DEF Field
<1>5. ASSUME NEW s \in Field, group_ge_unpack(s).ret = 0
      PROVE  group_ge_pack(group_ge_unpack(s).point) = s
  BY <1>4, <1>5, PackGivesBack
<1>6. ASSUME NEW s \in Field, NEW e \in Even, packed(e) = s
      PROVE  group_ge_unpack(s).ret = 0
  <2>1. Represents(Representative(e, 1), e)
    BY <1>1, OneIsResidue
  <2> QED
    BY <1>4, <1>6, <2>1, UnpackTakesPacked DEF packed
<1> QED
  BY <1>2, <1>3, <1>5, <1>6

\* The two products of the scalars with the other's exponent are the same.
LEMMA ExponentsMeet ==
  ASSUME NEW n \in Nat, n > 0, NEW f \in Int, NEW g \in Int, NEW a \in Int, NEW b \in Int,
         Same(n, f, 8 * b), Same(n, g, 8 * a)
  PROVE  Same(n, f * a, g * b)
<1>1. Same(n, a, a) /\ Same(n, b, b)
  BY SameEquivalence
<1>2. Same(n, f * a, (8 * b) * a) /\ Same(n, g * b, (8 * a) * b)
  BY <1>1, SameArithmetic
<1>3. (8 * b) * a = (8 * a) * b
  BY SMT
<1> QED
  BY <1>2, <1>3, SameEquivalence

\* A multiple of an even exponent is one.
LEMMA EvenProduct ==
  ASSUME NEW f \in Even, NEW a \in Int
  PROVE  f * a \in Int /\ (f * a) % 2 = 0 /\ (f * a) % Order \in Even
<1> DEFINE h == f \div 2
<1>1. f \in Int /\ f % 2 = 0
  BY Orders DEF Even
<1>2. h \in Int /\ f = 2 * h
  BY <1>1
<1> HIDE DEF h
<1>3. f * a = 2 * (h * a) /\ h * a \in Int
  BY <1>2, SMT
<1>4. f * a \in Int /\ (f * a) % 2 = 0
  BY <1>3
<1> QED
  BY <1>4, Orders

\* What the packed form of a multiple is, whatever the coordinates.
LEMMA PacksIsPacked ==
  ASSUME NEW k \in Int, k % 2 = 0, NEW s, Packs(s, k)
  PROVE  s = packed(k % Order) /\ k % Order \in Even
  BY Orders, PackingTellsPoints DEF Packs

\* A secret computed from the key of another party is the product of both
\* scalars and the base point.
LEMMA SecretOfKey ==
  ASSUME ExchangeInv, NEW x \in Parties, NEW y \in Parties,
         peer[x] = pk[y], pk[y] # None, ss[x] # None
  PROVE  \E f \in Even : /\ Same(2 * Prime, f, 8 * Clamp(sk[y]))
                         /\ ss[x] = packed((f * Clamp(sk[x])) % Order)
                         /\ ss[x] \in Field
<1> DEFINE a == Clamp(sk[x])
           b == Clamp(sk[y])
           s == peer[x]
           u == group_ge_unpack(s)
           e == (8 * b) % Order
<1>1. KeysAndSecrets /\ a \in Nat /\ b \in Nat
  BY ScalarIsNatural DEF ExchangeInv
<1>2. s \in Field /\ Packs(s, 8 * b) /\ SecretOf(x)
  BY <1>1 DEF KeysAndSecrets
<1>3. u = group_ge_unpack(peer[x])
  OBVIOUS
<1> HIDE DEF a, b, u
<1>4. 8 * b \in Int /\ (8 * b) % 2 = 0
  BY <1>1
<1>5. s = packed(e) /\ e \in Even
  BY <1>2, <1>4, PacksIsPacked
<1>6. u.ret = 0 /\ group_ge_pack(u.point) = s
  BY <1>2, <1>5, PackingTellsPoints DEF u
<1>7. PICK f \in Even : Represents(u.point, f) /\ Packs(ss[x], f * a)
  BY <1>2, <1>6 DEF SecretOf, u, a
<1>8. f \in Int /\ f % 2 = 0 /\ f % Order = f
  <2>1. f \in 0 .. Order - 1 /\ f % 2 = 0 /\ Order \in Nat /\ Order > 0
    BY Orders DEF Even
  <2> QED
    BY <2>1
<1>9. s = packed(f)
  <2>1. Packs(group_ge_pack(u.point), f)
    BY <1>7, <1>8, PackOfRepresented
  <2> QED
    BY <1>6, <1>8, <2>1, PacksIsPacked
<1>10. Same(2 * Prime, f, 8 * b)
  <2>1. SamePacked(f, e)
    BY <1>5, <1>9, PackingTellsPoints
  <2>2. e \in Int
    BY <1>5, Orders DEF Even
  <2>3. Same(2 * Prime, f, e) /\ Same(2 * Prime, e, 8 * b)
    BY <1>4, <1>8, <2>1, <2>2, SamePackedIsSame
  <2> QED
    BY <2>3, SamePackedIsSame, SameEquivalence
<1>11. f * a \in Int /\ (f * a) % 2 = 0
  BY <1>1, EvenProduct
<1>12. ss[x] = packed((f * a) % Order)
  BY <1>7, <1>11, PacksIsPacked
<1>13. ss[x] \in Field
  <2>1. PICK z \in Field \ {0} : ss[x] = group_ge_pack(Representative((f * a) % Order, z))
    BY <1>7 DEF Packs
  <2>2. (f * a) % Order \in Exponents
    BY <1>11, Orders
  <2> QED
    BY <2>1, <2>2, RepresentativeRepresents, PackIsResidue
<1> QED
  BY <1>10, <1>12, <1>13 DEF a, b

\* Both parties of a key exchange come to the same secret, and neither fails,
\* for all secret keys.
THEOREM SharedSecretsAgree == ExchangeSpec => []SecretsAgree
<1>1. ExchangeInv => SecretsAgree
  <2> SUFFICES ASSUME ExchangeInv, NEW x \in Parties, NEW y \in Parties,
                      peer[x] = pk[y], peer[y] = pk[x], ss[x] # None, ss[y] # None,
                      pk[x] # None, pk[y] # None
               PROVE  ss[x] = ss[y] /\ ss[x] # Failed
    BY DEF SecretsAgree
  <2> DEFINE a == Clamp(sk[x])
             b == Clamp(sk[y])
             n == 2 * Prime
  <2>1. a \in Int /\ b \in Int /\ n \in Nat /\ n > 0
    BY ScalarIsNatural, SamePackedIsSame DEF ExchangeInv
  <2>2. PICK f \in Even : Same(n, f, 8 * b) /\ ss[x] = packed((f * a) % Order) /\ ss[x] \in Field
    BY SecretOfKey
  <2>3. PICK g \in Even : Same(n, g, 8 * a) /\ ss[y] = packed((g * b) % Order)
    BY SecretOfKey
  <2> HIDE DEF a, b
  <2> DEFINE i == (f * a) % Order
             j == (g * b) % Order
  <2>4. f \in Int /\ g \in Int /\ f * a \in Int /\ g * b \in Int
    BY <2>1, Orders DEF Even
  <2>5. Same(n, i, f * a) /\ Same(n, j, g * b) /\ Same(n, f * a, g * b)
    BY <2>1, <2>2, <2>3, <2>4, SamePackedIsSame, ExponentsMeet
  <2>6. Same(n, i, j)
    <3> HIDE DEF i, j
    <3> QED
      BY <2>1, <2>5, SameEquivalence
  <2>7. i \in Even /\ j \in Even /\ i \in Int /\ j \in Int
    <3>1. i \in Int /\ j \in Int
      BY <2>6 DEF Same
    <3>2. i \in Even
      BY <2>1, <2>2, EvenProduct
    <3>3. j \in Even
      BY <2>1, <2>3, EvenProduct
    <3> QED
      BY <3>1, <3>2, <3>3
  <2>8. SamePacked(i, j)
    <3> HIDE DEF i, j
    <3> QED
      BY <2>6, <2>7, SamePackedIsSame
  <2>9. packed(i) = packed(j)
    <3> HIDE DEF i, j
    <3> QED
      BY <2>7, <2>8, PackingTellsPoints
  <2>10. ss[x] # Failed
    BY <2>2, PrimeIsPositive DEF Field, Failed
  <2> QED
    BY <2>2, <2>3, <2>9, <2>10
<1> QED
  BY <1>1, ExchangeInvariant, PTL
=============================================================================
