------------------------------- MODULE Group --------------------------------
(***************************************************************************)
(* ecdh25519/group.c: the group of ecdh25519, points of the twisted        *)
(* Edwards curve -x^2 + y^2 = 1 + d x^2 y^2 in extended coordinates,       *)
(* packed the ristretto way.  Field elements are residues modulo p, which  *)
(* is what Fe25519 shows the limbs of fe25519.c to be; p is 5 modulo 8.    *)
(* The curve has 8 * Prime points and is generated by Gen: the last part   *)
(* says what the coordinates stand for.                                    *)
(***************************************************************************)
EXTENDS Integers

CONSTANTS
  p,                  \* the field, 2^255 - 19
  d,                  \* ge25519_ecd
  sqrtm1,             \* fe25519_sqrtm1
  magic,              \* ge25519_magic
  Gen,                \* a generator of the curve, <<x, y>>
  Prime               \* the order of the group of packed points

Field == 0 .. p - 1
Order == 8 * Prime

ASSUME GroupAssumption ==
  /\ p \in Nat /\ p % 8 = 5
  /\ {d, sqrtm1, magic} \subseteq Field
  /\ (sqrtm1 * sqrtm1 + 1) % p = 0
  /\ (magic * magic * (1 + d) + 1) % p = 0

-----------------------------------------------------------------------------
\* The field operations on residues.
Mul(x, y) == (x * y) % p
Square(x) == Mul(x, x)
Add(x, y) == (x + y) % p
Sub(x, y) == (x - y) % p
Neg(x) == (- x) % p
isnegative(x) == x % 2 = 1

Pow(x, e) == LET f[k \in 0 .. e] == IF k = 0 THEN 1 ELSE Mul(x, f[k - 1]) IN f[e]

\* x^((p - 5) / 8), by the addition chain of the code.
fe25519_pow2523(x) == Pow(x, (p - 5) \div 8)

\* A square root of 1 / x if x is a square, of sqrtm1 / x or -1 / x otherwise.
fe25519_invsqrt(x) ==
  LET t == Mul(fe25519_pow2523(Pow(x, 7)), Pow(x, 3))
      chk == Mul(Square(t), x)
  IN IF chk = 1 THEN t ELSE Mul(t, sqrtm1)

\* if negative(x): x = -x
Positive(x) == IF isnegative(x) THEN Neg(x) ELSE x

-----------------------------------------------------------------------------
Point(x, y, z, t) == [x |-> x, y |-> y, z |-> z, t |-> t]

group_ge_neutral == Point(0, 1, 1, 0)

p1p1_to_p3(r) ==
  Point(Mul(r.x, r.t), Mul(r.y, r.z), Mul(r.z, r.t), Mul(r.x, r.y))

\* Mutant: the factor 2 of Z1 * Z2 is forgotten.
TwiceOnce(x) == x
Twice(x) == Add(x, x)

group_ge_add(q, r) ==
  LET A == Mul(Sub(q.y, q.x), Sub(r.y, r.x))
      B == Mul(Add(q.y, q.x), Add(r.y, r.x))
      C == Mul(Mul(q.t, r.t), Add(d, d))
      D == Twice(Mul(q.z, r.z))
  IN p1p1_to_p3([x |-> Sub(B, A), t |-> Sub(D, C), z |-> Add(D, C), y |-> Add(B, A)])

group_ge_double(q) ==
  LET A == Square(q.x)
      B == Square(q.y)
      C == Twice(Square(q.z))
      G == Add(Neg(A), B)
  IN p1p1_to_p3([x |-> Sub(Sub(Square(Add(q.x, q.y)), A), B),
                 z |-> G, t |-> Sub(G, C), y |-> Sub(Neg(A), B)])

\* Mutant: the sign of the string is not looked at.
AnySign(s, isr, t, xy, y) == Mul(Square(isr), t) # 1 \/ isnegative(xy) \/ y = 0
\* ret: what makes group_ge_unpack reject a string.
Rejects(s, isr, t, xy, y) ==
  \/ isnegative(s)
  \/ Mul(Square(isr), t) # 1
  \/ isnegative(xy)
  \/ y = 0

group_ge_unpack(string) ==
  LET s == string % p
      yden == Add(1, Square(s))
      ynum == Sub(1, Square(s))
      xden2 == Neg(Add(Mul(d, Square(ynum)), Square(yden)))
      t == Mul(xden2, Square(yden))
      isr == fe25519_invsqrt(t)
      xdeninv == Mul(isr, yden)
      ydeninv == Mul(Mul(xdeninv, isr), xden2)
      x == Positive(Twice(Mul(s, xdeninv)))
      y == Mul(ynum, ydeninv)
      ret == Rejects(s, isr, t, Mul(x, y), y)
  IN [ret |-> IF ret THEN -1 ELSE 0,
      point |-> IF ret THEN Point(0, 0, 0, 0) ELSE Point(x, y, 1, Mul(x, y))]

\* Mutant: the 4-torsion is not rotated away.
NeverRotate(tz) == FALSE
Rotate(tz) == isnegative(tz)

group_ge_pack(q) ==
  LET u1 == Mul(Sub(q.z, q.y), Add(q.z, q.y))
      u2 == Mul(q.x, q.y)
      isr == fe25519_invsqrt(Mul(Square(u2), u1))
      i1 == Mul(isr, u1)
      i2 == Mul(isr, u2)
      zinv == Mul(Mul(i1, i2), q.t)
      rotate == Rotate(Mul(zinv, q.t))
      nx == IF rotate THEN Mul(q.y, sqrtm1) ELSE q.x
      ny == IF rotate THEN Mul(q.x, sqrtm1) ELSE q.y
      deninv == IF rotate THEN Mul(magic, i1) ELSE i2
      y == IF isnegative(Mul(nx, zinv)) THEN Neg(ny) ELSE ny
  IN Positive(Mul(Sub(q.z, y), deninv))

-----------------------------------------------------------------------------
\* The affine points e * Gen, by the addition law of the curve.
Reciprocal == [x \in Field |-> IF x = 0 THEN 0 ELSE CHOOSE y \in Field : Mul(x, y) = 1]

AffineAdd(q, r) ==
  LET k == Mul(d, Mul(Mul(q[1], r[1]), Mul(q[2], r[2])))
  IN <<Mul(Add(Mul(q[1], r[2]), Mul(q[2], r[1])), Reciprocal[Add(1, k)]),
       Mul(Add(Mul(q[2], r[2]), Mul(q[1], r[1])), Reciprocal[Sub(1, k)])>>

Multiple[e \in 0 .. Order - 1] ==
  IF e = 0 THEN <<0, 1>>
  ELSE IF e % 2 = 0 THEN AffineAdd(Multiple[e \div 2], Multiple[e \div 2])
  ELSE AffineAdd(Multiple[e - 1], Gen)

Multiples == [e \in 0 .. Order - 1 |-> Multiple[e]]

\* q stands for e * Gen.
Represents(q, e) ==
  /\ q.z \in Field \ {0} /\ q.t \in Field
  /\ q.x = Mul(Multiples[e][1], q.z)
  /\ q.y = Mul(Multiples[e][2], q.z)
  /\ Mul(q.t, q.z) = Mul(q.x, q.y)

\* Packed points are the even multiples of Gen, up to the four points of order
\* dividing 4.
Even == {e \in 0 .. Order - 1 : e % 2 = 0}
SamePacked(e, f) == (e - f) % (2 * Prime) = 0

Representative(e, z) ==
  LET x == Multiples[e][1]
      y == Multiples[e][2]
  IN Point(Mul(x, z), Mul(y, z), z, Mul(Mul(x, y), z))

-----------------------------------------------------------------------------
(* What is known of the curve, whatever the code does with it.             *)

OnCurve(q) ==
  Sub(Square(q[2]), Square(q[1])) = Add(1, Mul(d, Mul(Square(q[1]), Square(q[2]))))

\* The addition law divides by neither 0.
Complete(q, r) ==
  LET k == Mul(d, Mul(Mul(q[1], r[1]), Mul(q[2], r[2])))
  IN Add(1, k) # 0 /\ Sub(1, k) # 0

\* p is a prime, and the points of the curve are a cyclic group of 8 * Prime
\* elements; a point is twice another one exactly if 1 - y^2 is a square.
ASSUME CurveAssumption ==
  /\ Prime \in Nat /\ Prime > 1
  /\ \A x \in Field \ {0} : Pow(x, p - 1) = 1 /\ \E y \in Field : Mul(x, y) = 1
  /\ \A e \in 0 .. Order - 1 : Multiples[e] \in Field \X Field /\ OnCurve(Multiples[e])
  /\ Multiples[0] = <<0, 1>>
  /\ \A e, f \in 0 .. Order - 1 :
       /\ Complete(Multiples[e], Multiples[f])
       /\ AffineAdd(Multiples[e], Multiples[f]) = Multiples[(e + f) % Order]
       /\ Multiples[e] = Multiples[f] => e = f
  /\ \A x, y \in Field :
       OnCurve(<<x, y>>) => \E e \in 0 .. Order - 1 : Multiples[e] = <<x, y>>
  /\ \A e \in 0 .. Order - 1 :
       e % 2 = 0 <=> \E w \in Field : Square(w) = Sub(1, Square(Multiples[e][2]))
=============================================================================
