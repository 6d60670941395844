--------------------------- MODULE Fe25519Proofs ----------------------------
(***************************************************************************)
(* That the field arithmetic of ecdh25519/fe25519.c and its assembly is    *)
(* that of the residues modulo p, for bytes, words, limbs and a prime of   *)
(* any size that Fe25519Assumption and WideAssumption allow; those of      *)
(* 2^255 - 19 in 32 bytes and 10 limbs of 26 and 25 bits are among them.   *)
(*                                                                         *)
(* A number is a sum of limbs times weights, and a chain of carries keeps  *)
(* it.  After a sum two passes carry all of it; a conditional subtraction  *)
(* makes a carried element the residue; a product keeps the product of the *)
(* numbers modulo p, n + 2 rounded carries bring it below M, four chains   *)
(* make it a carried element.                                              *)
(***************************************************************************)
EXTENDS Fe25519, FiniteSetTheorems, TLAPS

\* Induction over a set of naturals.
LEMMA SetInduction ==
  ASSUME NEW T, T \subseteq Nat, 0 \in T, \A m \in T : m + 1 \in T
  PROVE  Nat \subseteq T
<1> DEFINE U == Nat \ T
           I == {0 .. m : m \in U}
           Order == StrictSubsetOrdering(Nat)
<1>1. SUFFICES ASSUME U # {} PROVE FALSE
  OBVIOUS
<1>2. I \subseteq FiniteSubsetsOf(Nat)
  <2>1. SUFFICES ASSUME NEW m \in U PROVE 0 .. m \in FiniteSubsetsOf(Nat)
    OBVIOUS
  <2>2. IsFiniteSet(0 .. m)
    BY FS_Interval
  <2> QED
    BY <2>2 DEF FiniteSubsetsOf
<1>3. I # {}
  BY <1>1
<1>4. IsWellFoundedOn(Order, FiniteSubsetsOf(Nat))
  BY FS_StrictSubsetOrderingWellFounded
<1>5. PICK s \in I : \A r \in I : ~(<<r, s>> \in Order)
  <2> HIDE DEF Order, I
  <2> QED
    BY <1>2, <1>3, <1>4, WFMin
<1>6. PICK x \in U : s = 0 .. x
  OBVIOUS
<1>7. x # 0 /\ x \in Nat /\ x - 1 \in Nat
  OBVIOUS
<1>8. x - 1 \in U
  BY <1>7
<1>9. <<0 .. x - 1, s>> \in Order
  BY <1>6, <1>7 DEF StrictSubsetOrdering
<1> QED
  BY <1>5, <1>8, <1>9

-----------------------------------------------------------------------------
(*  Folds over finite sets                                                 *)

\* What a fold over the elements of S gives for each subset, chosen[s] first.
IsIteration(it, S, V, base, chosen, step) ==
  /\ it \in [SUBSET S -> V]
  /\ it = [s \in SUBSET S |->
             IF s = {} THEN base ELSE step[<<chosen[s], it[s \ {chosen[s]}]>>]]

\* The recursion of a fold has a solution.
LEMMA IterationExists ==
  ASSUME NEW S, IsFiniteSet(S), NEW V, NEW base \in V, NEW chosen,
         \A s \in SUBSET S : s # {} => chosen[s] \in s,
         NEW step \in [S \X V -> V]
  PROVE  \E it : IsIteration(it, S, V, base, chosen, step)
<1> DEFINE Small(k) == {s \in SUBSET S : Cardinality(s) <= k}
           Next1(it, s) == IF s = {} THEN base ELSE step[<<chosen[s], it[s \ {chosen[s]}]>>]
           Upto(it, k) == it \in [Small(k) -> V] /\ \A s \in Small(k) : it[s] = Next1(it, s)
           T == {k \in Nat : \E it : Upto(it, k)}
<1>1. ASSUME NEW s \in SUBSET S
      PROVE  /\ IsFiniteSet(s) /\ Cardinality(s) \in Nat
             /\ Cardinality(s) = 0 <=> s = {}
             /\ Cardinality(s) <= Cardinality(S)
  BY FS_Subset, FS_CardinalityType, FS_EmptySet
<1>2. ASSUME NEW s \in SUBSET S, s # {}
      PROVE  /\ chosen[s] \in s /\ s \ {chosen[s]} \in SUBSET S
             /\ Cardinality(s \ {chosen[s]}) = Cardinality(s) - 1
  BY <1>1, <1>2, FS_RemoveElement
<1>3. 0 \in T
  <2> DEFINE it == [s \in Small(0) |-> base]
  <2>1. \A s \in Small(0) : s = {}
    BY <1>1
  <2>2. Upto(it, 0)
    BY <2>1
  <2> QED
    BY <2>2
<1>4. ASSUME NEW k \in T PROVE k + 1 \in T
  <2>1. PICK it : Upto(it, k)
    BY <1>4
  <2> DEFINE jt == [s \in Small(k + 1) |-> IF s \in Small(k) THEN it[s] ELSE Next1(it, s)]
  <2>2. ASSUME NEW s \in Small(k + 1) PROVE jt[s] \in V /\ jt[s] = Next1(jt, s)
    <3> k \in Nat /\ s \in SUBSET S /\ Cardinality(s) <= k + 1
      OBVIOUS
    <3>1. CASE s = {}
      <4>1. s \in Small(k) 
        BY <1>1, <3>1
      <4>2. jt[s] = it[s] /\ it[s] = base
        BY <2>1, <3>1, <4>1
      <4> QED
        BY <3>1, <4>2
    <3>2. CASE s # {}
      <4> DEFINE x == chosen[s]
                 r == s \ {x}
      <4>1. x \in S /\ r \in SUBSET S /\ Cardinality(r) = Cardinality(s) - 1 /\ Cardinality(s) \in Nat
        BY <1>1, <1>2, <3>2
      <4>2. r \in Small(k) /\ r \in Small(k + 1)
        BY <4>1
      <4>3. jt[r] = it[r] /\ it[r] \in V
        BY <2>1, <4>2
      <4>4. jt[s] = step[<<x, it[r]>>]
        <5>1. CASE s \in Small(k)
          BY <2>1, <3>2, <5>1
        <5>2. CASE s \notin Small(k)
          BY <3>2, <5>2
        <5> QED
          BY <5>1, <5>2
      <4>5. step[<<x, it[r]>>] \in V
        BY <4>1, <4>3
      <4> QED
        BY <3>2, <4>3, <4>4, <4>5
    <3> QED
      BY <3>1, <3>2
  <2>3. jt \in [Small(k + 1) -> V]
    BY <2>2
  <2>4. Upto(jt, k + 1)
    BY <2>2, <2>3
  <2>5. k + 1 \in Nat
    OBVIOUS
  <2> HIDE DEF Upto, jt
  <2> QED
    BY <2>4, <2>5
<1>5. Cardinality(S) \in T
  <2>1. T \subseteq Nat /\ Cardinality(S) \in Nat
    BY <1>1
  <2> HIDE DEF T
  <2> QED
    BY <1>3, <1>4, <2>1, SetInduction
<1>6. PICK it : Upto(it, Cardinality(S))
  BY <1>5
<1>7. Small(Cardinality(S)) = SUBSET S
  BY <1>1
<1>8. \A s \in SUBSET S : it[s] = Next1(it, s)
  BY <1>6, <1>7
<1>9. it \in [SUBSET S -> V]
  BY <1>6, <1>7
<1>10. it = [s \in SUBSET S |-> Next1(it, s)]
  <2> HIDE DEF Next1
  <2> QED
    BY <1>8, <1>9
<1> QED
  BY <1>9, <1>10 DEF IsIteration

\* What holds of the empty set, and of a set when it does without its chosen
\* element, holds of all subsets.
LEMMA SubsetInduction ==
  ASSUME NEW S, IsFiniteSet(S), NEW chosen, NEW Good, {} \in Good,
         \A s \in SUBSET S : s # {} => chosen[s] \in s,
         \A s \in SUBSET S : s # {} /\ s \ {chosen[s]} \in Good => s \in Good
  PROVE  SUBSET S \subseteq Good
<1> DEFINE T == {k \in Nat : \A s \in SUBSET S : Cardinality(s) <= k => s \in Good}
<1>1. ASSUME NEW s \in SUBSET S
      PROVE  /\ IsFiniteSet(s) /\ Cardinality(s) \in Nat
             /\ Cardinality(s) = 0 <=> s = {}
  BY FS_Subset, FS_CardinalityType, FS_EmptySet
<1>2. 0 \in T
  <2>1. ASSUME NEW s \in SUBSET S, Cardinality(s) <= 0 PROVE s \in Good
    <3>1. Cardinality(s) \in Nat
      BY <1>1
    <3>2. Cardinality(s) = 0
      BY <2>1, <3>1
    <3>3. s = {}
      BY <1>1, <3>2
    <3> QED
      BY <3>3
  <2> QED
    BY <2>1
<1>3. ASSUME NEW k \in T PROVE k + 1 \in T
  <2>1. SUFFICES ASSUME NEW s \in SUBSET S, Cardinality(s) <= k + 1 PROVE s \in Good
    OBVIOUS
  <2>2. SUFFICES ASSUME s # {} PROVE s \in Good
    OBVIOUS
  <2> DEFINE r == s \ {chosen[s]}
  <2>3. r \in SUBSET S /\ Cardinality(r) = Cardinality(s) - 1 /\ k \in Nat /\ Cardinality(s) \in Nat
    BY <1>1, <2>2, FS_RemoveElement
  <2>4. r \in Good
    <3>1. Cardinality(r) <= k
      BY <2>1, <2>3
    <3>2. \A q \in SUBSET S : Cardinality(q) <= k => q \in Good
      BY <1>3
    <3> QED
      BY <2>3, <3>1, <3>2
  <2> QED
    BY <2>2, <2>4
<1>4. Nat \subseteq T
  <2>1. T \subseteq Nat
    OBVIOUS
  <2> HIDE DEF T
  <2> QED
    BY <1>2, <1>3, <2>1, SetInduction
<1>5. ASSUME NEW s \in SUBSET S PROVE s \in Good
  <2>1. Cardinality(s) \in T /\ Cardinality(s) \in Nat
    BY <1>1, <1>4
  <2> QED
    BY <2>1
<1> QED
  BY <1>5

\* Sums over the subsets of a finite set are those of one function, and any
\* element of a set may be added first.
IsSumOf(it, f, S) ==
  /\ it \in [SUBSET S -> Int]
  /\ it[{}] = 0
  /\ \A s \in SUBSET S : \A x \in s : it[s] = f[x] + it[s \ {x}]

\* The sums an iteration gives do not depend on the elements it chooses.
LEMMA IterationIsSum ==
  ASSUME NEW S, IsFiniteSet(S), NEW f, \A x \in S : f[x] \in Int, NEW chosen,
         \A s \in SUBSET S : s # {} => chosen[s] \in s,
         NEW it \in [SUBSET S -> Int], it[{}] = 0,
         \A s \in SUBSET S : s # {} => it[s] = f[chosen[s]] + it[s \ {chosen[s]}]
  PROVE  IsSumOf(it, f, S)
<1> DEFINE Ok(s) == \A x \in s : it[s] = f[x] + it[s \ {x}]
           T == {k \in Nat : \A s \in SUBSET S : Cardinality(s) <= k => Ok(s)}
<1>1. ASSUME NEW s \in SUBSET S
      PROVE  /\ IsFiniteSet(s) /\ Cardinality(s) \in Nat
             /\ Cardinality(s) = 0 <=> s = {}
  BY FS_Subset, FS_CardinalityType, FS_EmptySet
<1>2. 0 \in T
  <2>1. ASSUME NEW s \in SUBSET S, Cardinality(s) <= 0 PROVE Ok(s)
    <3>1. Cardinality(s) \in Nat
      BY <1>1
    <3>2. Cardinality(s) = 0
      BY <2>1, <3>1
    <3>3. s = {}
      BY <1>1, <3>2
    <3> QED
      BY <3>3
  <2> QED
    BY <2>1
<1>3. ASSUME NEW k \in T PROVE k + 1 \in T
  <2>1. SUFFICES ASSUME NEW s \in SUBSET S, Cardinality(s) <= k + 1, NEW x \in s
                 PROVE  it[s] = f[x] + it[s \ {x}]
    OBVIOUS
  <2> DEFINE c == chosen[s]
  <2>2. c \in s /\ it[s] = f[c] + it[s \ {c}]
    OBVIOUS
  <2>3. CASE x = c
    BY <2>2, <2>3
  <2>4. CASE x # c
    <3> DEFINE r == s \ {c}
               u == s \ {x}
               v == s \ {x, c}
    <3>1. r \in SUBSET S /\ u \in SUBSET S /\ v \in SUBSET S
      OBVIOUS
    <3>2. x \in r /\ c \in u /\ r \ {x} = v /\ u \ {c} = v
      BY <2>2, <2>4
    <3>3. Cardinality(s) \in Nat /\ k \in Nat /\ IsFiniteSet(s)
      BY <1>1
    <3>4. Cardinality(r) = Cardinality(s) - 1 /\ Cardinality(u) = Cardinality(s) - 1
      <4> HIDE DEF c
      <4>1. Cardinality(r) = Cardinality(s) - 1
        BY <2>2, <3>3, FS_RemoveElement
      <4>2. Cardinality(u) = Cardinality(s) - 1
        BY <3>3, FS_RemoveElement
      <4> QED
        BY <4>1, <4>2
    <3>5. Cardinality(r) <= k /\ Cardinality(u) <= k
      BY <2>1, <3>3, <3>4
    <3>6. \A q \in SUBSET S : Cardinality(q) <= k => Ok(q)
      BY <1>3
    <3>7. Ok(r) /\ Ok(u)
      BY <3>1, <3>5, <3>6
    <3>8. it[r] = f[x] + it[v] /\ it[u] = f[c] + it[v]
      BY <3>2, <3>7
    <3>9. f[x] \in Int /\ f[c] \in Int /\ it[v] \in Int
      BY <2>2, <3>1
    <3> HIDE DEF r, u, v, c
    <3>10. it[s] = f[x] + (f[c] + it[v])
      BY <2>2, <3>8, <3>9 DEF r
    <3> QED
      BY <3>8, <3>10 DEF u
  <2> QED
    BY <2>3, <2>4
<1>4. Nat \subseteq T
  <2>1. T \subseteq Nat
    OBVIOUS
  <2> HIDE DEF T
  <2> QED
    BY <1>2, <1>3, <2>1, SetInduction
<1>5. ASSUME NEW s \in SUBSET S PROVE Ok(s)
  <2>1. Cardinality(s) \in T /\ Cardinality(s) \in Nat
    BY <1>1, <1>4
  <2> QED
    BY <2>1
<1> QED
  BY <1>5 DEF IsSumOf

\* The sum of the community module is that sum.
LEMMA SumOnSet ==
  ASSUME NEW S, IsFiniteSet(S), NEW f, \A x \in S : f[x] \in Int
  PROVE  \E it : IsSumOf(it, f, S) /\ \A R \in SUBSET S : SumFunctionOnSet(f, R) = it[R]
<1> DEFINE chosen == [s \in SUBSET S |-> CHOOSE x \in s : TRUE]
           step == [z \in S \X Int |-> f[z[1]] + z[2]]
           Value1(g, s) == IF s = {} THEN 0 
                           ELSE f[CHOOSE x \in s : TRUE] + g[s \ {CHOOSE x \in s : TRUE}]
           Body(g, R) == [s \in SUBSET R |-> Value1(g, s)]
<1>1. \A s \in SUBSET S : s # {} => chosen[s] \in s
  OBVIOUS
<1>2. step \in [S \X Int -> Int]
  OBVIOUS
<1>3. PICK it : IsIteration(it, S, Int, 0, chosen, step)
  <2> HIDE DEF chosen, step
  <2> QED
    BY <1>1, <1>2, IterationExists
<1>4. it \in [SUBSET S -> Int]
  BY <1>3 DEF IsIteration
<1>5. ASSUME NEW s \in SUBSET S PROVE it[s] = Value1(it, s)
  <2>1. it[s] = IF s = {} THEN 0 ELSE step[<<chosen[s], it[s \ {chosen[s]}]>>]
    <3> HIDE DEF step, chosen
    <3> QED
      BY <1>3 DEF IsIteration
  <2>2. CASE s # {}
    <3>1. chosen[s] \in S /\ it[s \ {chosen[s]}] \in Int
      BY <1>1, <1>4, <2>2
    <3>2. step[<<chosen[s], it[s \ {chosen[s]}]>>] = f[chosen[s]] + it[s \ {chosen[s]}]
      <4> HIDE DEF chosen
      <4> QED
        BY <3>1
    <3> QED
      BY <2>1, <2>2, <3>2
  <2> QED
    BY <2>1, <2>2
<1>6. IsSumOf(it, f, S)
  <2>1. it[{}] = 0
    BY <1>5
  <2>2. \A s \in SUBSET S : s # {} => it[s] = f[chosen[s]] + it[s \ {chosen[s]}]
    BY <1>5
  <2> HIDE DEF chosen
  <2> QED
    BY <1>1, <1>4, <2>1, <2>2, IterationIsSum
<1>7. ASSUME NEW R \in SUBSET S PROVE SumFunctionOnSet(f, R) = it[R]
  <2> DEFINE g == CHOOSE g : g = Body(g, R)
  <2>1. SumFunctionOnSet(f, R) = g[R]
    BY DEF SumFunctionOnSet, FoldFunctionOnSet, MapThenFoldSet
  <2> DEFINE rt == [s \in SUBSET R |-> it[s]]
  <2>2. ASSUME NEW s \in SUBSET R PROVE rt[s] = Value1(rt, s)
    <3>1. s \in SUBSET S /\ s \ {CHOOSE x \in s : TRUE} \in SUBSET R
      OBVIOUS
    <3>2. it[s] = Value1(it, s)
      BY <1>5, <3>1
    <3> QED
      BY <3>1, <3>2
  <2>3. rt = Body(rt, R)
    <3> HIDE DEF Value1
    <3> QED
      BY <2>2
  <2>4. g = Body(g, R)
    <3> HIDE DEF rt, Body
    <3> QED
      BY <2>3
  <2> HIDE DEF g
  <2> DEFINE Good == {s \in SUBSET R : g[s] = it[s]}
  <2>5. ASSUME NEW s \in SUBSET R PROVE g[s] = Value1(g, s) /\ it[s] = Value1(it, s)
    <3>1. g[s] = Value1(g, s)
      <4> HIDE DEF Value1
      <4> QED
        BY <2>4
    <3> HIDE DEF Value1
    <3> QED
      BY <1>5, <3>1
  <2>6. {} \in Good
    BY <2>5
  <2>7. ASSUME NEW s \in SUBSET R, s # {}, s \ {chosen[s]} \in Good PROVE s \in Good
    <3>1. s \in SUBSET S /\ g[s \ {chosen[s]}] = it[s \ {chosen[s]}]
      BY <2>7
    <3>2. chosen[s] = CHOOSE x \in s : TRUE
      BY <3>1
    <3>3. g[s] = it[s]
      BY <2>5, <2>7, <3>1, <3>2
    <3> QED
      BY <3>3
  <2>8. SUBSET R \subseteq Good
    <3>1. IsFiniteSet(R)
      BY FS_Subset
    <3>2. \A s \in SUBSET R : s # {} => chosen[s] \in s
      BY <1>1
    <3> HIDE DEF Good, chosen
    <3> QED
      BY <2>6, <2>7, <3>1, <3>2, SubsetInduction
  <2> QED
    BY <2>1, <2>8
<1> QED
  BY <1>6, <1>7

-----------------------------------------------------------------------------
(*  Sums over 0 .. k - 1                                                   *)

\* The sum of the first k terms.
SumTo(f, k) == SumFunctionOnSet(f, 0 .. k - 1)

\* A sum grows by one term at a time.
LEMMA PrefixSums ==
  ASSUME NEW m \in Nat, NEW f, \A i \in 0 .. m - 1 : f[i] \in Int
  PROVE  /\ SumTo(f, 0) = 0
         /\ \A k \in 0 .. m : SumTo(f, k) \in Int
         /\ \A k \in 0 .. m - 1 : SumTo(f, k + 1) = f[k] + SumTo(f, k)
<1> DEFINE S == 0 .. m - 1
<1>1. IsFiniteSet(S)
  BY FS_Interval
<1>2. PICK it : IsSumOf(it, f, S) /\ \A R \in SUBSET S : SumFunctionOnSet(f, R) = it[R]
  <2> HIDE DEF S
  <2>1. \A x \in S : f[x] \in Int
    BY DEF S
  <2> QED
    BY <1>1, <2>1, SumOnSet
<1>3. ASSUME NEW k \in 0 .. m PROVE 0 .. k - 1 \in SUBSET S /\ SumTo(f, k) = it[0 .. k - 1]
  BY <1>2 DEF SumTo
<1>4. SumTo(f, 0) = 0
  <2>1. 0 .. 0 - 1 = {} /\ 0 \in 0 .. m
    OBVIOUS
  <2>2. it[{}] = 0
    BY <1>2 DEF IsSumOf
  <2> QED
    BY <1>3, <2>1, <2>2
<1>5. ASSUME NEW k \in 0 .. m PROVE SumTo(f, k) \in Int
  BY <1>2, <1>3 DEF IsSumOf
<1>6. ASSUME NEW k \in 0 .. m - 1 PROVE SumTo(f, k + 1) = f[k] + SumTo(f, k)
  <2>1. k \in 0 .. m /\ k + 1 \in 0 .. m /\ 0 .. (k + 1) - 1 = 0 .. k
    OBVIOUS
  <2>2. k \in 0 .. k /\ (0 .. k) \ {k} = 0 .. k - 1
    OBVIOUS
  <2>3. SumTo(f, k + 1) = it[0 .. k] /\ 0 .. k \in SUBSET S /\ SumTo(f, k) = it[0 .. k - 1]
    BY <1>3, <2>1
  <2>4. it[0 .. k] = f[k] + it[(0 .. k) \ {k}]
    BY <1>2, <2>2, <2>3 DEF IsSumOf
  <2> QED
    BY <2>2, <2>3, <2>4
<1> QED
  BY <1>4, <1>5, <1>6

\* The sum of a whole function is the last of its sums.
LEMMA SumOfFunction ==
  ASSUME NEW m \in Nat, NEW f, DOMAIN f = 0 .. m - 1
  PROVE  SumFunction(f) = SumTo(f, m)
BY DEF SumFunction, SumTo

\* Induction up to a bound.
LEMMA UptoInduction ==
  ASSUME NEW m \in Nat, NEW Good, 0 \in Good,
         \A k \in 0 .. m - 1 : k \in Good => k + 1 \in Good
  PROVE  \A k \in 0 .. m : k \in Good
<1> DEFINE T == {k \in Nat : k <= m => k \in Good}
<1>1. 0 \in T /\ T \subseteq Nat
  OBVIOUS
<1>2. ASSUME NEW k \in T PROVE k + 1 \in T
  OBVIOUS
<1>3. Nat \subseteq T
  <2> HIDE DEF T
  <2> QED
    BY <1>1, <1>2, SetInduction
<1> QED
  BY <1>3

\* A sequence of m numbers.
Summable(f, m) == m \in Nat /\ \A i \in 0 .. m - 1 : f[i] \in Int

\* Each term of f is one of g, c times, and one of h, e times.
Combines(f, c, g, e, h, m) ==
  /\ Summable(g, m) /\ Summable(h, m) /\ c \in Int /\ e \in Int
  /\ \A i \in 0 .. m - 1 : f[i] = c * g[i] + e * h[i]

\* A sum of combinations is the combination of the sums.
LEMMA SumLinear ==
  ASSUME NEW m, NEW f, NEW g, NEW h, NEW c, NEW e, Combines(f, c, g, e, h, m)
  PROVE  /\ Summable(f, m)
         /\ \A k \in 0 .. m : SumTo(f, k) = c * SumTo(g, k) + e * SumTo(h, k)
<1> USE DEF Combines
<1> m \in Nat /\ c \in Int /\ e \in Int
  BY DEF Summable
<1>1. \A i \in 0 .. m - 1 : g[i] \in Int /\ h[i] \in Int
  BY DEF Summable
<1>2. \A i \in 0 .. m - 1 : f[i] \in Int
  BY <1>1
<1> DEFINE Good == {k \in 0 .. m : SumTo(f, k) = c * SumTo(g, k) + e * SumTo(h, k)}
<1>3. 0 \in Good
  <2>1. SumTo(f, 0) = 0 /\ SumTo(g, 0) = 0 /\ SumTo(h, 0) = 0
    BY <1>1, <1>2, PrefixSums
  <2> QED
    BY <2>1
<1>4. ASSUME NEW k \in 0 .. m - 1, k \in Good PROVE k + 1 \in Good
  <2>1. k \in 0 .. m /\ k + 1 \in 0 .. m
    OBVIOUS
  <2>2. SumTo(f, k + 1) = f[k] + SumTo(f, k) /\ SumTo(f, k) \in Int
    BY <1>2, <2>1, PrefixSums
  <2>3. SumTo(g, k + 1) = g[k] + SumTo(g, k) /\ SumTo(g, k) \in Int
    BY <1>1, <2>1, PrefixSums
  <2>4. SumTo(h, k + 1) = h[k] + SumTo(h, k) /\ SumTo(h, k) \in Int
    BY <1>1, <2>1, PrefixSums
  <2>5. f[k] = c * g[k] + e * h[k] /\ g[k] \in Int /\ h[k] \in Int
    BY <1>1
  <2>6. SumTo(f, k) = c * SumTo(g, k) + e * SumTo(h, k)
    BY <1>4
  <2>7. SumTo(f, k + 1) = c * SumTo(g, k + 1) + e * SumTo(h, k + 1)
    BY <2>2, <2>3, <2>4, <2>5, <2>6
  <2> QED
    BY <2>1, <2>7
<1>5. \A k \in 0 .. m : k \in Good
  <2> HIDE DEF Good
  <2> QED
    BY <1>3, <1>4, UptoInduction
<1> QED
  BY <1>2, <1>5 DEF Summable

\* f is c times g.
IsScaled(f, c, g, m) == Summable(g, m) /\ c \in Int /\ \A i \in 0 .. m - 1 : f[i] = c * g[i]

\* A common factor may be taken out of a sum.
LEMMA SumScale ==
  ASSUME NEW m, NEW f, NEW g, NEW c, IsScaled(f, c, g, m)
  PROVE  /\ Summable(f, m)
         /\ \A k \in 0 .. m : SumTo(f, k) = c * SumTo(g, k)
<1>1. PICK z \in Int : z = 0
  OBVIOUS
<1>2. Combines(f, c, g, z, g, m)
  BY <1>1 DEF Summable, Combines, IsScaled
<1>3. Summable(f, m) /\ \A k \in 0 .. m : SumTo(f, k) = c * SumTo(g, k) + z * SumTo(g, k)
  BY <1>2, SumLinear
<1>4. c \in Int /\ \A k \in 0 .. m : SumTo(g, k) \in Int
  BY PrefixSums DEF Summable, IsScaled
<1> QED
  BY <1>1, <1>3, <1>4

\* Equal terms have equal sums.
LEMMA SumEqual ==
  ASSUME NEW m, NEW f, NEW g, Summable(g, m), \A i \in 0 .. m - 1 : f[i] = g[i]
  PROVE  /\ Summable(f, m)
         /\ \A k \in 0 .. m : SumTo(f, k) = SumTo(g, k)
<1>1. PICK c \in Int : c = 1
  OBVIOUS
<1>2. IsScaled(f, c, g, m)
  BY <1>1 DEF Summable, IsScaled
<1>3. Summable(f, m) /\ \A k \in 0 .. m : SumTo(f, k) = c * SumTo(g, k)
  BY <1>1, <1>2, SumScale
<1>4. \A k \in 0 .. m : SumTo(g, k) \in Int
  BY PrefixSums DEF Summable
<1> QED
  BY <1>1, <1>3, <1>4

\* Larger terms have larger sums.
LEMMA SumMonotone ==
  ASSUME NEW m, NEW f, NEW g, Summable(f, m), Summable(g, m),
         \A i \in 0 .. m - 1 : f[i] <= g[i]
  PROVE  \A k \in 0 .. m : SumTo(f, k) <= SumTo(g, k)
<1> m \in Nat
  BY DEF Summable
<1>1. \A i \in 0 .. m - 1 : f[i] \in Int /\ g[i] \in Int
  BY DEF Summable
<1> DEFINE Good == {k \in 0 .. m : SumTo(f, k) <= SumTo(g, k)}
<1>3. 0 \in Good
  <2>1. SumTo(f, 0) = 0 /\ SumTo(g, 0) = 0
    BY <1>1, PrefixSums
  <2> QED
    BY <2>1
<1>4. ASSUME NEW k \in 0 .. m - 1, k \in Good PROVE k + 1 \in Good
  <2>1. k \in 0 .. m /\ k + 1 \in 0 .. m
    OBVIOUS
  <2>2. SumTo(f, k + 1) = f[k] + SumTo(f, k) /\ SumTo(f, k) \in Int
    BY <1>1, <2>1, PrefixSums
  <2>3. SumTo(g, k + 1) = g[k] + SumTo(g, k) /\ SumTo(g, k) \in Int
    BY <1>1, <2>1, PrefixSums
  <2>5. f[k] <= g[k] /\ f[k] \in Int /\ g[k] \in Int
    BY <1>1
  <2>6. SumTo(f, k) <= SumTo(g, k)
    BY <1>4
  <2>7. SumTo(f, k + 1) <= SumTo(g, k + 1)
    BY <2>2, <2>3, <2>5, <2>6
  <2> QED
    BY <2>1, <2>7
<1>5. \A k \in 0 .. m : k \in Good
  <2> HIDE DEF Good
  <2> QED
    BY <1>3, <1>4, UptoInduction
<1> QED
  BY <1>5

\* The terms of a sum may be taken in any order.
Reorders(order, m, f, g) ==
  /\ order \in [0 .. m - 1 -> 0 .. m - 1]
  /\ \A i, j \in 0 .. m - 1 : order[i] = order[j] => i = j
  /\ \A j \in 0 .. m - 1 : \E i \in 0 .. m - 1 : order[i] = j
  /\ \A i \in 0 .. m - 1 : g[i] = f[order[i]]

\* A sum is the same in every order.
LEMMA SumReordered ==
  ASSUME NEW m, NEW f, Summable(f, m), NEW g, NEW order, Reorders(order, m, f, g)
  PROVE  Summable(g, m) /\ SumTo(g, m) = SumTo(f, m)
<1>0. PICK S : S = 0 .. m - 1
  OBVIOUS
<1> DEFINE Image(s) == {order[x] : x \in s}
           chosen == [s \in SUBSET S |-> CHOOSE x \in s : TRUE]
<1>1. m \in Nat /\ IsFiniteSet(S)
  BY <1>0, FS_Interval DEF Summable
<1>f. IsFiniteSet(S)
  BY <1>1
<1>a. \A x \in S : f[x] \in Int
  BY <1>0 DEF Summable
<1>b. \A x \in S : g[x] \in Int
  BY <1>0, <1>a DEF Reorders
<1>2. PICK it : IsSumOf(it, f, S) /\ \A R \in SUBSET S : SumFunctionOnSet(f, R) = it[R]
  <2> HIDE DEF chosen
  <2> QED
    BY <1>f, <1>a, SumOnSet
<1>3. PICK jt : IsSumOf(jt, g, S) /\ \A R \in SUBSET S : SumFunctionOnSet(g, R) = jt[R]
  <2> HIDE DEF chosen
  <2> QED
    BY <1>f, <1>b, SumOnSet
<1>4. \A s \in SUBSET S : s # {} => chosen[s] \in s
  OBVIOUS
<1>5. /\ \A i \in S : order[i] \in S
      /\ \A i, j \in S : order[i] = order[j] => i = j
      /\ \A j \in S : \E i \in S : order[i] = j
      /\ \A i \in S : g[i] = f[order[i]]
  BY <1>0 DEF Reorders
<1> DEFINE Good == {s \in SUBSET S : jt[s] = it[Image(s)]}
<1>6. {} \in Good
  <2>1. Image({}) = {}
    OBVIOUS
  <2>2. it[{}] = 0 /\ jt[{}] = 0
    BY <1>2, <1>3 DEF IsSumOf
  <2> HIDE DEF Image
  <2> QED
    BY <2>1, <2>2
<1>7. ASSUME NEW s \in SUBSET S, s # {}, s \ {chosen[s]} \in Good PROVE s \in Good
  <2>1. PICK x : x = chosen[s]
    OBVIOUS
  <2>2. x \in s /\ x \in S
    BY <1>4, <1>7, <2>1
  <2> DEFINE r == s \ {x}
  <2>3. jt[r] = it[Image(r)] /\ r \in SUBSET S
    BY <1>7, <2>1
  <2>4. jt[s] = g[x] + jt[r]
    BY <1>3, <2>2 DEF IsSumOf
  <2>5. Image(s) \in SUBSET S /\ order[x] \in Image(s)
    BY <1>5, <2>2
  <2>6. Image(s) \ {order[x]} = Image(r)
    <3>1. ASSUME NEW y \in s, order[y] # order[x] PROVE y \in r
      BY <3>1
    <3>2. ASSUME NEW y \in r PROVE order[y] # order[x]
      BY <1>5, <2>2
    <3>3. ASSUME NEW z \in Image(s) \ {order[x]} PROVE z \in Image(r)
      <4>1. PICK y \in s : z = order[y]
        OBVIOUS
      <4> QED
        BY <3>1, <3>3, <4>1
    <3>4. ASSUME NEW z \in Image(r) PROVE z \in Image(s) \ {order[x]}
      <4>1. PICK y \in r : z = order[y]
        OBVIOUS
      <4>2. y \in s
        OBVIOUS
      <4> QED
        BY <3>2, <4>1, <4>2
    <3> HIDE DEF Image
    <3> QED
      BY <3>3, <3>4
  <2>7. it[Image(s)] = f[order[x]] + it[Image(s) \ {order[x]}]
    <3> HIDE DEF Image
    <3> QED
      BY <1>2, <2>5 DEF IsSumOf
  <2>8. jt[s] = it[Image(s)]
    <3> HIDE DEF Image, r
    <3> QED
      BY <1>5, <2>2, <2>3, <2>4, <2>6, <2>7
  <2> QED
    BY <2>8
<1>8. SUBSET S \subseteq Good
  <2> HIDE DEF Good, chosen
  <2> QED
    BY <1>f, <1>4, <1>6, <1>7, SubsetInduction
<1>9. Image(S) = S
  BY <1>5
<1>10. S \in Good
  BY <1>8
<1>11. jt[S] = it[S]
  <2> HIDE DEF Image
  <2> QED
    BY <1>9, <1>10
<1>12. SumTo(f, m) = it[S] /\ SumTo(g, m) = jt[S]
  BY <1>0, <1>2, <1>3 DEF SumTo
<1> QED
  BY <1>0, <1>1, <1>b, <1>11, <1>12 DEF Summable

\* A sum of sums may be taken by rows or by columns.
LEMMA SumExchanged ==
  ASSUME NEW m \in Nat, NEW l \in Nat, NEW t,
         \A i \in 0 .. m - 1, k \in 0 .. l - 1 : t[<<i, k>>] \in Int
  PROVE  LET rows == [i \in 0 .. m - 1 |-> SumTo([k \in 0 .. l - 1 |-> t[<<i, k>>]], l)]
             columns == [k \in 0 .. l - 1 |-> SumTo([i \in 0 .. m - 1 |-> t[<<i, k>>]], m)]
         IN  /\ Summable(rows, m) /\ Summable(columns, l)
             /\ SumTo(rows, m) = SumTo(columns, l)
<1> DEFINE Row(i) == [k \in 0 .. l - 1 |-> t[<<i, k>>]]
           Column(k) == [i \in 0 .. m - 1 |-> t[<<i, k>>]]
           Part(k) == [i \in 0 .. m - 1 |-> SumTo(Row(i), k)]
           rows == [i \in 0 .. m - 1 |-> SumTo(Row(i), l)]
           columns == [k \in 0 .. l - 1 |-> SumTo(Column(k), m)]
           Good == {k \in 0 .. l : SumTo(Part(k), m) = SumTo(columns, k)}
<1>1. ASSUME NEW i \in 0 .. m - 1
      PROVE  /\ SumTo(Row(i), 0) = 0
             /\ \A k \in 0 .. l : SumTo(Row(i), k) \in Int
             /\ \A k \in 0 .. l - 1 : SumTo(Row(i), k + 1) = t[<<i, k>>] + SumTo(Row(i), k)
  <2>1. \A k \in 0 .. l - 1 : Row(i)[k] \in Int /\ Row(i)[k] = t[<<i, k>>]
    OBVIOUS
  <2> HIDE DEF Row
  <2> QED
    BY <2>1, PrefixSums
<1>2. ASSUME NEW k \in 0 .. l - 1
      PROVE  Summable(Column(k), m) /\ SumTo(Column(k), m) \in Int
  <2>1. \A i \in 0 .. m - 1 : Column(k)[i] \in Int
    OBVIOUS
  <2>2. m \in 0 .. m
    OBVIOUS
  <2> HIDE DEF Column
  <2> QED
    BY <2>1, <2>2, PrefixSums DEF Summable
<1>3. ASSUME NEW k \in 0 .. l PROVE Summable(Part(k), m)
  <2> HIDE DEF Row
  <2> QED
    BY <1>1 DEF Summable
<1>4. Summable(columns, l)
  <2> HIDE DEF Column
  <2> QED
    BY <1>2 DEF Summable
<1>5. /\ SumTo(columns, 0) = 0
      /\ \A k \in 0 .. l : SumTo(columns, k) \in Int
      /\ \A k \in 0 .. l - 1 : SumTo(columns, k + 1) = columns[k] + SumTo(columns, k)
  <2> HIDE DEF columns
  <2> QED
    BY <1>4, PrefixSums DEF Summable
<1>6. 0 \in Good
  <2>1. PICK z \in Int : z = 0
    OBVIOUS
  <2>2. 0 \in 0 .. l /\ m \in 0 .. m
    OBVIOUS
  <2>3. Summable(Part(0), m)
    BY <1>3, <2>2
  <2>4. \A i \in 0 .. m - 1 : Part(0)[i] = z * Part(0)[i]
    <3> HIDE DEF Row
    <3> QED
      BY <1>1, <2>1
  <2>5. SumTo(Part(0), m) \in Int
    <3> HIDE DEF Part
    <3> QED
      BY <2>2, <2>3, PrefixSums DEF Summable
  <2>6. SumTo(Part(0), m) = z * SumTo(Part(0), m)
    <3> HIDE DEF Part
    <3>1. IsScaled(Part(0), z, Part(0), m)
      BY <2>1, <2>3, <2>4 DEF IsScaled
    <3> QED
      BY <2>2, <3>1, SumScale
  <2>7. SumTo(Part(0), m) = 0
    BY <2>1, <2>5, <2>6
  <2> HIDE DEF Part, columns
  <2> QED
    BY <1>5, <2>2, <2>7
<1>7. ASSUME NEW k \in 0 .. l - 1, k \in Good PROVE k + 1 \in Good
  <2>1. PICK c \in Int : c = 1
    OBVIOUS
  <2>2. k \in 0 .. l /\ k + 1 \in 0 .. l /\ m \in 0 .. m
    OBVIOUS
  <2>3. Combines(Part(k + 1), c, Column(k), c, Part(k), m)
    <3>1. \A i \in 0 .. m - 1 : Part(k + 1)[i] = c * Column(k)[i] + c * Part(k)[i]
      <4>1. ASSUME NEW i \in 0 .. m - 1 PROVE Part(k + 1)[i] = c * Column(k)[i] + c * Part(k)[i]
        <5>1. Column(k)[i] = t[<<i, k>>] /\ t[<<i, k>>] \in Int
          OBVIOUS
        <5>2. /\ SumTo(Row(i), k + 1) = t[<<i, k>>] + SumTo(Row(i), k)
              /\ SumTo(Row(i), k) \in Int
          <6> HIDE DEF Row
          <6> QED
            BY <1>1, <2>2
        <5> HIDE DEF Row, Column
        <5> QED
          BY <2>1, <5>1, <5>2
      <4> HIDE DEF Part, Column
      <4> QED
        BY <4>1
    <3> HIDE DEF Part, Column
    <3> QED
      BY <1>2, <1>3, <2>1, <2>2, <3>1 DEF Combines
  <2>4. SumTo(Part(k + 1), m) = c * SumTo(Column(k), m) + c * SumTo(Part(k), m)
    <3> HIDE DEF Part, Column
    <3> QED
      BY <2>2, <2>3, SumLinear
  <2>5. SumTo(Part(k), m) = SumTo(columns, k)
    BY <1>7
  <2>6. columns[k] = SumTo(Column(k), m) /\ SumTo(Column(k), m) \in Int
    <3> HIDE DEF Column
    <3> QED
      BY <1>2
  <2> HIDE DEF Part, Column, columns
  <2>7. SumTo(Part(k + 1), m) = SumTo(columns, k + 1)
    BY <1>5, <2>1, <2>2, <2>4, <2>5, <2>6
  <2> QED
    BY <2>2, <2>7
<1>8. \A k \in 0 .. l : k \in Good
  <2> HIDE DEF Good
  <2> QED
    BY <1>6, <1>7, UptoInduction
<1>9. l \in Good /\ l \in 0 .. l
  <2> HIDE DEF Good
  <2> QED
    BY <1>8
<1>10. SumTo(rows, m) = SumTo(columns, l) /\ rows = Part(l)
  BY <1>9
<1>11. Summable(rows, m) /\ Summable(columns, l) /\ SumTo(rows, m) = SumTo(columns, l)
  <2> HIDE DEF Part, columns, rows
  <2> QED
    BY <1>3, <1>4, <1>9, <1>10
<1> QED
  BY <1>11

-----------------------------------------------------------------------------
(*  Recursive functions on 0 .. m                                          *)

\* A recursion on 0 .. m.
IsChain(f, m, S, start, step) ==
  /\ f \in [0 .. m -> S]
  /\ f = [i \in 0 .. m |-> IF i = 0 THEN start ELSE step[<<i, f[i - 1]>>]]

\* There is a function for every recursion on 0 .. m.
LEMMA ChainExists ==
  ASSUME NEW m \in Nat, NEW S, NEW start \in S, NEW step \in [(0 .. m) \X S -> S]
  PROVE  \E f : IsChain(f, m, S, start, step)
<1> DEFINE Upto(f, k) == /\ f \in [0 .. k -> S] /\ f[0] = start
                         /\ \A i \in 1 .. k : f[i] = step[<<i, f[i - 1]>>]
           T == {k \in Nat : k <= m => \E f : Upto(f, k)}
<1>1. 0 \in T /\ T \subseteq Nat
  <2>1. Upto([i \in 0 .. 0 |-> start], 0)
    OBVIOUS
  <2> QED
    BY <2>1
<1>2. ASSUME NEW k \in T PROVE k + 1 \in T
  <2> SUFFICES ASSUME k + 1 <= m PROVE \E f : Upto(f, k + 1)
    OBVIOUS
  <2>1. PICK f : Upto(f, k)
    OBVIOUS
  <2> DEFINE v == step[<<k + 1, f[k]>>]
             g == [i \in 0 .. k + 1 |-> IF i <= k THEN f[i] ELSE v]
  <2>2. v \in S
    BY <2>1
  <2>3. g \in [0 .. k + 1 -> S] /\ g[0] = start
    BY <2>1, <2>2
  <2>4. ASSUME NEW i \in 1 .. k + 1 PROVE g[i] = step[<<i, g[i - 1]>>]
    <3>1. CASE i <= k
      <4>1. g[i] = f[i] /\ g[i - 1] = f[i - 1] /\ i \in 1 .. k
        BY <3>1
      <4> QED
        BY <2>1, <4>1
    <3>2. CASE i = k + 1
      <4>1. g[i] = v /\ g[i - 1] = f[k]
        BY <3>2
      <4> QED
        BY <3>2, <4>1
    <3> QED
      BY <3>1, <3>2
  <2> QED
    BY <2>3, <2>4
<1>3. m \in T
  <2> HIDE DEF T
  <2> QED
    BY <1>1, <1>2, SetInduction
<1>4. PICK f : Upto(f, m)
  BY <1>3
<1>5. ASSUME NEW i \in 0 .. m PROVE f[i] = IF i = 0 THEN start ELSE step[<<i, f[i - 1]>>]
  BY <1>4
<1> QED
  BY <1>4, <1>5 DEF IsChain

-----------------------------------------------------------------------------
(*  Division                                                               *)

\* Quotient and remainder of a division.
LEMMA Division ==
  ASSUME NEW x \in Int, NEW r \in Nat \ {0}
  PROVE  /\ x \div r \in Int
         /\ x % r \in Int /\ 0 <= x % r /\ x % r < r
         /\ x = r * (x \div r) + (x % r)
OBVIOUS

\* There is only one quotient with a remainder that is small enough.
LEMMA DivisionIsUnique ==
  ASSUME NEW x \in Int, NEW r \in Nat \ {0}, NEW q \in Int, NEW s \in Int,
         0 <= s, s < r, x = r * q + s
  PROVE  x \div r = q /\ x % r = s
<1> DEFINE y == x \div r
           z == x % r
<1>1. y \in Int /\ z \in Int /\ 0 <= z /\ z < r /\ x = r * y + z
  BY Division
<1> HIDE DEF y, z
<1>2. r * (q - y) = z - s
  BY <1>1
<1>3. CASE q - y >= 1
  <2>1. r * (q - y) >= r
    BY <1>1, <1>3
  <2> QED
    BY <1>1, <1>2, <2>1
<1>4. CASE q - y <= -1
  <2>1. r * (q - y) <= -r
    BY <1>1, <1>4
  <2> QED
    BY <1>1, <1>2, <2>1
<1>5. CASE q = y
  BY <1>1, <1>5 DEF y, z
<1> QED
  BY <1>1, <1>3, <1>4, <1>5

\* Digits of mixed radix.
LEMMA DigitOf ==
  ASSUME NEW x \in Int, NEW w \in Nat \ {0}, NEW r \in Nat \ {0}
  PROVE  /\ r * w \in Nat \ {0}
         /\ x \div (r * w) = (x \div w) \div r
         /\ x % (r * w) = (x % w) + (((x \div w) % r) * w)
<1> DEFINE q == x \div w
           s == x % w
           y == q \div r
           d == q % r
<1>1. q \in Int /\ s \in Int /\ 0 <= s /\ s < w /\ x = w * q + s
  BY Division
<1> HIDE DEF q, s
<1>2. y \in Int /\ d \in Int /\ 0 <= d /\ d < r /\ q = r * y + d
  BY <1>1, Division
<1> HIDE DEF y, d
<1>3. r * w \in Nat \ {0}
  OBVIOUS
<1>4. d * w + s \in Int /\ 0 <= d * w + s
  BY <1>1, <1>2
<1>5. d * w + s < r * w
  <2>1. d * w <= (r - 1) * w
    BY <1>2
  <2>2. (r - 1) * w = r * w - w
    OBVIOUS
  <2> QED
    BY <1>1, <1>2, <2>1, <2>2
<1>6. x = (r * w) * y + (d * w + s)
  <2>1. w * q = w * (r * y) + w * d
    BY <1>1, <1>2
  <2>2. w * (r * y) = (r * w) * y /\ w * d = d * w
    BY <1>2
  <2> QED
    BY <1>1, <1>2, <2>1, <2>2
<1>7. x \div (r * w) = y /\ x % (r * w) = d * w + s
  <2>1. PICK e \in Nat \ {0} : e = r * w
    BY <1>3
  <2>2. PICK t \in Int : t = d * w + s
    BY <1>4
  <2> QED
    BY <1>2, <1>4, <1>5, <1>6, <2>1, <2>2, DivisionIsUnique
<1> QED
  BY <1>1, <1>2, <1>3, <1>7 DEF q, s, y, d

-----------------------------------------------------------------------------
(*  The weights of the limbs                                               *)

\* What the assumptions say of each constant.
LEMMA Parameters ==
  /\ B \in Nat /\ Top \in Nat /\ N \in Nat /\ W \in Nat /\ C \in Nat /\ n \in Nat /\ MaxOps \in Nat
  /\ N > 1 /\ n > 2 /\ B % 2 = 0 /\ 0 < C /\ 2 * C <= B /\ 4 <= Top /\ Top <= B /\ 4 * B <= W
  /\ Radix \in [0 .. n - 1 -> Nat \ {0}]
BY Fe25519Assumption, WideAssumption DEF Wide

\* The weights of the limbs are powers of B.
LEMMA Weights ==
  /\ Weight \in [0 .. N -> Nat \ {0}]
  /\ Weight[0] = 1
  /\ \A i \in 0 .. N - 1 : Weight[i + 1] = B * Weight[i]
<1> DEFINE step == [z \in (0 .. N) \X (Nat \ {0}) |-> B * z[2]]
           Entry(f, i) == IF i = 0 THEN 1 ELSE B * f[i - 1]
           Next1(f) == [i \in 0 .. N |-> Entry(f, i)]
<1>0. N \in Nat /\ B \in Nat \ {0}
  BY Parameters
<1>1. step \in [(0 .. N) \X (Nat \ {0}) -> Nat \ {0}] /\ 1 \in Nat \ {0}
  BY <1>0
<1>2. PICK f : IsChain(f, N, Nat \ {0}, 1, step)
  <2> HIDE DEF step
  <2> QED
    BY <1>0, <1>1, ChainExists, Zenon
<1>a. f \in [0 .. N -> Nat \ {0}]
  BY <1>2 DEF IsChain
<1>3. f = Next1(f)
  <2>1. ASSUME NEW i \in 0 .. N PROVE f[i] = Entry(f, i)
    <3>1. f[i] = IF i = 0 THEN 1 ELSE step[<<i, f[i - 1]>>]
      <4> HIDE DEF step
      <4> QED
        BY <1>2 DEF IsChain
    <3>2. CASE i # 0
      <4>1. <<i, f[i - 1]>> \in (0 .. N) \X (Nat \ {0}) /\ i - 1 \in 0 .. N - 1
        BY <1>0, <1>a, <3>2
      <4>2. step[<<i, f[i - 1]>>] = B * f[i - 1]
        BY <4>1, <3>2
      <4> HIDE DEF step
      <4> QED
        BY <3>1, <3>2, <4>2
    <3> HIDE DEF step
    <3> QED
      BY <3>1, <3>2
  <2>2. f = [i \in 0 .. N |-> f[i]]
    BY <1>2 DEF IsChain
  <2> HIDE DEF Entry
  <2> QED
    BY <2>1, <2>2
<1>4. Weight = CHOOSE g : g = Next1(g)
  BY DEF Weight
<1>5. Weight = Next1(Weight)
  <2> HIDE DEF Next1
  <2> QED
    BY <1>3, <1>4
<1>6. Weight[0] = 1 /\ \A i \in 0 .. N - 1 : Weight[i + 1] = B * Weight[i]
  BY <1>0, <1>5
<1> DEFINE Good == {i \in 0 .. N : Weight[i] \in Nat \ {0}}
<1>7. \A i \in 0 .. N : i \in Good
  <2>1. 0 \in Good
    BY <1>0, <1>6
  <2>2. ASSUME NEW i \in 0 .. N - 1, i \in Good PROVE i + 1 \in Good
    BY <1>0, <1>6, <2>2
  <2> HIDE DEF Good
  <2> QED
    BY <1>0, <2>1, <2>2, UptoInduction
<1>8. Weight \in [0 .. N -> Nat \ {0}]
  BY <1>5, <1>7
<1> QED
  BY <1>6, <1>8

\* The weights of the wide limbs are products of what they hold.
LEMMA WideWeights ==
  /\ WideWeight \in [0 .. n -> Nat \ {0}]
  /\ WideWeight[0] = 1
  /\ \A i \in 0 .. n - 1 : WideWeight[i + 1] = Radix[i] * WideWeight[i]
<1> DEFINE step == [z \in (0 .. n) \X (Nat \ {0}) |-> (IF z[1] = 0 THEN 1 ELSE Radix[z[1] - 1]) * z[2]]
           Entry(f, i) == IF i = 0 THEN 1 ELSE Radix[i - 1] * f[i - 1]
           Next1(f) == [i \in 0 .. n |-> Entry(f, i)]
<1>0. n \in Nat /\ \A i \in 0 .. n - 1 : Radix[i] \in Nat \ {0}
  BY Parameters
<1>1. step \in [(0 .. n) \X (Nat \ {0}) -> Nat \ {0}] /\ 1 \in Nat \ {0}
  BY <1>0
<1>2. PICK f : IsChain(f, n, Nat \ {0}, 1, step)
  <2> HIDE DEF step
  <2> QED
    BY <1>0, <1>1, ChainExists, Zenon
<1>a. f \in [0 .. n -> Nat \ {0}]
  BY <1>2 DEF IsChain
<1>3. f = Next1(f)
  <2>1. ASSUME NEW i \in 0 .. n PROVE f[i] = Entry(f, i)
    <3>1. f[i] = IF i = 0 THEN 1 ELSE step[<<i, f[i - 1]>>]
      <4> HIDE DEF step
      <4> QED
        BY <1>2 DEF IsChain
    <3>2. CASE i # 0
      <4>1. <<i, f[i - 1]>> \in (0 .. n) \X (Nat \ {0}) /\ i - 1 \in 0 .. n - 1
        BY <1>0, <1>a, <3>2
      <4>2. step[<<i, f[i - 1]>>] = Radix[i - 1] * f[i - 1]
        BY <4>1, <3>2
      <4> HIDE DEF step
      <4> QED
        BY <3>1, <3>2, <4>2
    <3> HIDE DEF step
    <3> QED
      BY <3>1, <3>2
  <2>2. f = [i \in 0 .. n |-> f[i]]
    BY <1>2 DEF IsChain
  <2> HIDE DEF Entry
  <2> QED
    BY <2>1, <2>2
<1>4. WideWeight = CHOOSE g : g = Next1(g)
  BY DEF WideWeight
<1>5. WideWeight = Next1(WideWeight)
  <2> HIDE DEF Next1
  <2> QED
    BY <1>3, <1>4
<1>6. WideWeight[0] = 1 /\ \A i \in 0 .. n - 1 : WideWeight[i + 1] = Radix[i] * WideWeight[i]
  BY <1>0, <1>5
<1> DEFINE Good == {i \in 0 .. n : WideWeight[i] \in Nat \ {0}}
<1>7. \A i \in 0 .. n : i \in Good
  <2>1. 0 \in Good
    BY <1>0, <1>6
  <2>2. ASSUME NEW i \in 0 .. n - 1, i \in Good PROVE i + 1 \in Good
    BY <1>0, <1>6, <2>2
  <2> HIDE DEF Good
  <2> QED
    BY <1>0, <2>1, <2>2, UptoInduction
<1>8. WideWeight \in [0 .. n -> Nat \ {0}]
  BY <1>5, <1>7
<1> QED
  BY <1>6, <1>8

-----------------------------------------------------------------------------
(*  Numbers in mixed radix                                                 *)

\* The number that the first k of m limbs f stand for.
Low(f, w, m, k) == SumTo([i \in 0 .. m - 1 |-> f[i] * w[i]], k)

\* The weights of limbs that hold radix[i] values each.
AreWeights(w, radix, m) ==
  /\ m \in Nat /\ w[0] = 1
  /\ \A i \in 0 .. m : w[i] \in Nat \ {0}
  /\ \A i \in 0 .. m - 1 : radix[i] \in Nat \ {0} /\ w[i + 1] = radix[i] * w[i]

\* Limbs are any numbers, digits are those a limb holds.
AreLimbs(f, m) == \A i \in 0 .. m - 1 : f[i] \in Int
AreDigits(f, radix, m) == \A i \in 0 .. m - 1 : f[i] \in Int /\ 0 <= f[i] /\ f[i] < radix[i]

\* The lower limbs stand for a number, and the next limb adds its share.
LEMMA LowSums ==
  ASSUME NEW m, NEW w, NEW radix, AreWeights(w, radix, m), NEW f, AreLimbs(f, m)
  PROVE  /\ Low(f, w, m, 0) = 0
         /\ \A k \in 0 .. m : Low(f, w, m, k) \in Int
         /\ \A k \in 0 .. m - 1 : Low(f, w, m, k + 1) = f[k] * w[k] + Low(f, w, m, k)
<1> DEFINE g == [i \in 0 .. m - 1 |-> f[i] * w[i]]
<1>1. m \in Nat
  BY DEF AreWeights
<1>2. \A i \in 0 .. m - 1 : g[i] = f[i] * w[i] /\ g[i] \in Int
  BY <1>1 DEF AreWeights, AreLimbs
<1> HIDE DEF g
<1>3. /\ SumTo(g, 0) = 0
      /\ \A k \in 0 .. m : SumTo(g, k) \in Int
      /\ \A k \in 0 .. m - 1 : SumTo(g, k + 1) = g[k] + SumTo(g, k)
  BY <1>1, <1>2, PrefixSums
<1>5. \A k : Low(f, w, m, k) = SumTo(g, k)
  BY DEF Low, g
<1> QED
  BY <1>2, <1>3, <1>5

\* Digits below a limb make less than its weight.
LEMMA DigitsBelowWeight ==
  ASSUME NEW m, NEW w, NEW radix, AreWeights(w, radix, m), NEW f, AreDigits(f, radix, m)
  PROVE  \A k \in 0 .. m : 0 <= Low(f, w, m, k) /\ Low(f, w, m, k) < w[k]
<1> DEFINE Good == {k \in 0 .. m : 0 <= Low(f, w, m, k) /\ Low(f, w, m, k) < w[k]}
<1>1. m \in Nat /\ AreLimbs(f, m)
  BY DEF AreWeights, AreDigits, AreLimbs
<1>2. 0 \in Good
  BY <1>1, LowSums DEF AreWeights
<1>3. ASSUME NEW k \in 0 .. m - 1, k \in Good PROVE k + 1 \in Good
  <2>1. k \in 0 .. m /\ k + 1 \in 0 .. m
    BY <1>1
  <2>2. Low(f, w, m, k + 1) = f[k] * w[k] + Low(f, w, m, k) /\ Low(f, w, m, k) \in Int
    BY <1>1, <2>1, LowSums
  <2>3. /\ w[k] \in Nat \ {0} /\ radix[k] \in Nat \ {0} /\ w[k + 1] = radix[k] * w[k]
    BY <2>1 DEF AreWeights
  <2>4. f[k] \in Int /\ 0 <= f[k] /\ f[k] <= radix[k] - 1
    BY <2>3 DEF AreDigits
  <2>5. 0 <= Low(f, w, m, k) /\ Low(f, w, m, k) < w[k]
    BY <1>3
  <2>6. 0 <= f[k] * w[k] /\ f[k] * w[k] <= (radix[k] - 1) * w[k]
    BY <2>3, <2>4
  <2>7. (radix[k] - 1) * w[k] = radix[k] * w[k] - w[k]
    BY <2>3
  <2>8. f[k] * w[k] \in Int
    BY <2>3, <2>4
  <2>9. 0 <= Low(f, w, m, k + 1) /\ Low(f, w, m, k + 1) < w[k + 1]
    BY <2>2, <2>3, <2>5, <2>6, <2>7, <2>8
  <2> QED
    BY <2>1, <2>9
<1> QED
  <2>1. \A k \in 0 .. m : k \in Good
    <3> HIDE DEF Good
    <3> QED
      BY <1>1, <1>2, <1>3, UptoInduction
  <2> QED
    BY <2>1

\* The digits of a number make the number, less what is above them.
LEMMA DigitsOfNumber ==
  ASSUME NEW m, NEW w, NEW radix, AreWeights(w, radix, m), NEW x \in Int, NEW f,
         \A i \in 0 .. m - 1 : f[i] = (x \div w[i]) % radix[i]
  PROVE  /\ AreDigits(f, radix, m)
         /\ \A k \in 0 .. m : Low(f, w, m, k) = x % w[k]
<1>1. m \in Nat
  BY DEF AreWeights
<1>2. ASSUME NEW i \in 0 .. m - 1
      PROVE  f[i] \in Int /\ 0 <= f[i] /\ f[i] < radix[i]
  <2>1. i \in 0 .. m /\ w[i] \in Nat \ {0} /\ radix[i] \in Nat \ {0}
    BY <1>1 DEF AreWeights
  <2>2. x \div w[i] \in Int
    BY <2>1, Division
  <2> QED
    BY <2>1, <2>2, Division
<1>3. AreDigits(f, radix, m) /\ AreLimbs(f, m)
  BY <1>2 DEF AreDigits, AreLimbs
<1> DEFINE Good == {k \in 0 .. m : Low(f, w, m, k) = x % w[k]}
<1>4. 0 \in Good
  <2>1. Low(f, w, m, 0) = 0
    BY <1>3, LowSums
  <2>3. w[0] = 1
    BY DEF AreWeights
  <2>2. x % 1 = 0
    OBVIOUS
  <2> QED
    BY <1>1, <2>1, <2>2, <2>3
<1>5. ASSUME NEW k \in 0 .. m - 1, k \in Good PROVE k + 1 \in Good
  <2>1. k \in 0 .. m /\ k + 1 \in 0 .. m
    BY <1>1
  <2>2. Low(f, w, m, k + 1) = f[k] * w[k] + Low(f, w, m, k)
    BY <1>3, <2>1, LowSums
  <2>3. /\ w[k] \in Nat \ {0} /\ radix[k] \in Nat \ {0} /\ w[k + 1] = radix[k] * w[k]
    BY <2>1 DEF AreWeights
  <2>4. x % (radix[k] * w[k]) = (x % w[k]) + (((x \div w[k]) % radix[k]) * w[k])
    BY <2>3, DigitOf
  <2>5. f[k] = (x \div w[k]) % radix[k] /\ Low(f, w, m, k) = x % w[k]
    BY <1>5
  <2>6. f[k] \in Int /\ x % w[k] \in Int /\ f[k] * w[k] \in Int
    <3>1. x % w[k] \in Int
      BY <2>3, Division
    <3>2. f[k] \in Int
      BY <1>2
    <3> QED
      BY <2>3, <3>1, <3>2
  <2>7. x % w[k + 1] = (x % w[k]) + (f[k] * w[k])
    BY <2>3, <2>4, <2>5
  <2>8. Low(f, w, m, k + 1) = x % w[k + 1]
    BY <2>2, <2>5, <2>6, <2>7
  <2> QED
    BY <2>1, <2>8
<1>6. \A k \in 0 .. m : k \in Good
  <2> HIDE DEF Good
  <2> QED
    BY <1>1, <1>4, <1>5, UptoInduction
<1> QED
  BY <1>3, <1>6

\* Two arrays of digits that make the same number are the same.
LEMMA DigitsAreUnique ==
  ASSUME NEW m, NEW w, NEW radix, AreWeights(w, radix, m),
         NEW f, AreDigits(f, radix, m), NEW g, AreDigits(g, radix, m),
         Low(f, w, m, m) = Low(g, w, m, m)
  PROVE  \A i \in 0 .. m - 1 : f[i] = g[i]
<1>1. m \in Nat /\ AreLimbs(f, m) /\ AreLimbs(g, m)
  BY DEF AreWeights, AreDigits, AreLimbs
<1>2. ASSUME NEW k \in 0 .. m - 1, Low(f, w, m, k + 1) = Low(g, w, m, k + 1)
      PROVE  f[k] = g[k] /\ Low(f, w, m, k) = Low(g, w, m, k)
  <2>1. k \in 0 .. m /\ k + 1 \in 0 .. m
    BY <1>1
  <2>2. w[k] \in Nat \ {0} /\ f[k] \in Int /\ g[k] \in Int
    BY <1>1, <2>1 DEF AreWeights, AreLimbs
  <2>3. Low(f, w, m, k + 1) = f[k] * w[k] + Low(f, w, m, k) /\ Low(f, w, m, k) \in Int
    BY <1>1, <2>1, LowSums
  <2>4. Low(g, w, m, k + 1) = g[k] * w[k] + Low(g, w, m, k) /\ Low(g, w, m, k) \in Int
    BY <1>1, <2>1, LowSums
  <2>5. 0 <= Low(f, w, m, k) /\ Low(f, w, m, k) < w[k]
    BY <2>1, DigitsBelowWeight
  <2>6. 0 <= Low(g, w, m, k) /\ Low(g, w, m, k) < w[k]
    BY <2>1, DigitsBelowWeight
  <2>7. PICK x \in Int : x = w[k] * f[k] + Low(f, w, m, k)
    BY <2>2, <2>3
  <2>8. x = w[k] * g[k] + Low(g, w, m, k)
    BY <1>2, <2>2, <2>3, <2>4, <2>7
  <2>9. x \div w[k] = f[k] /\ x % w[k] = Low(f, w, m, k)
    BY <2>2, <2>3, <2>5, <2>7, DivisionIsUnique
  <2>10. x \div w[k] = g[k] /\ x % w[k] = Low(g, w, m, k)
    BY <2>2, <2>4, <2>6, <2>8, DivisionIsUnique
  <2> QED
    BY <2>9, <2>10
<1> DEFINE Good == {j \in 0 .. m : Low(f, w, m, m - j) = Low(g, w, m, m - j)}
<1>3. 0 \in Good
  BY <1>1
<1>4. ASSUME NEW j \in 0 .. m - 1, j \in Good PROVE j + 1 \in Good
  <2>1. m - (j + 1) \in 0 .. m - 1 /\ (m - (j + 1)) + 1 = m - j /\ j + 1 \in 0 .. m
    BY <1>1
  <2>2. Low(f, w, m, m - j) = Low(g, w, m, m - j)
    BY <1>4
  <2>3. Low(f, w, m, m - (j + 1)) = Low(g, w, m, m - (j + 1))
    BY <1>2, <2>1, <2>2
  <2> QED
    BY <2>1, <2>3
<1>5. \A j \in 0 .. m : j \in Good
  <2> HIDE DEF Good
  <2> QED
    BY <1>1, <1>3, <1>4, UptoInduction
<1>6. ASSUME NEW k \in 0 .. m - 1 PROVE f[k] = g[k]
  <2>1. m - (k + 1) \in 0 .. m /\ m - (m - (k + 1)) = k + 1
    BY <1>1
  <2>2. m - (k + 1) \in Good
    BY <1>5, <2>1
  <2>3. Low(f, w, m, k + 1) = Low(g, w, m, k + 1)
    BY <2>1, <2>2
  <2> QED
    BY <1>2, <2>3
<1> QED
  BY <1>6

-----------------------------------------------------------------------------
(*  Chains of carries                                                      *)

\* t[i] is limb i with what comes from below, before its carry goes on.
AreCarried(t, f, radix, m) ==
  /\ m \in Nat \ {0}
  /\ \A i \in 0 .. m - 1 : t[i] \in Int
  /\ t[0] = f[0]
  /\ \A i \in 1 .. m - 1 : t[i] = f[i] + (t[i - 1] \div radix[i - 1])

\* A chain of carries leaves digits, and keeps the number but for the carry
\* that goes out of it.
LEMMA CarriesKeepValue ==
  ASSUME NEW m, NEW w, NEW radix, AreWeights(w, radix, m),
         NEW f, AreLimbs(f, m), NEW t, AreCarried(t, f, radix, m),
         NEW g, \A i \in 0 .. m - 1 : g[i] = t[i] % radix[i]
  PROVE  /\ AreDigits(g, radix, m)
         /\ \A k \in 0 .. m - 1 :
              Low(f, w, m, k + 1) = Low(g, w, m, k + 1) + (t[k] \div radix[k]) * w[k + 1]
<1>1. m \in Nat \ {0}
  BY DEF AreCarried
<1>2. ASSUME NEW i \in 0 .. m - 1
      PROVE  /\ radix[i] \in Nat \ {0} /\ t[i] \in Int /\ t[i] \div radix[i] \in Int
             /\ g[i] \in Int /\ 0 <= g[i] /\ g[i] < radix[i]
             /\ t[i] = radix[i] * (t[i] \div radix[i]) + g[i]
  <2>1. radix[i] \in Nat \ {0} /\ t[i] \in Int
    BY DEF AreWeights, AreCarried
  <2> QED
    BY <2>1, Division
<1>3. AreDigits(g, radix, m)
  BY <1>2 DEF AreDigits
<1>4. AreLimbs(g, m)
  BY <1>2 DEF AreLimbs
<1>5. ASSUME NEW k \in 0 .. m - 1
      PROVE  /\ Low(f, w, m, k + 1) = f[k] * w[k] + Low(f, w, m, k) /\ Low(f, w, m, k) \in Int
             /\ Low(g, w, m, k + 1) = g[k] * w[k] + Low(g, w, m, k) /\ Low(g, w, m, k) \in Int
             /\ w[k] \in Nat \ {0} /\ w[k + 1] = radix[k] * w[k] /\ f[k] \in Int
  <2>1. k \in 0 .. m /\ m \in Nat
    BY <1>1
  <2>2. Low(f, w, m, k + 1) = f[k] * w[k] + Low(f, w, m, k) /\ Low(f, w, m, k) \in Int
    BY <2>1, LowSums
  <2>3. Low(g, w, m, k + 1) = g[k] * w[k] + Low(g, w, m, k) /\ Low(g, w, m, k) \in Int
    BY <1>4, <2>1, LowSums
  <2>4. w[k] \in Nat \ {0} /\ w[k + 1] = radix[k] * w[k]
    BY <2>1 DEF AreWeights
  <2>5. f[k] \in Int
    BY DEF AreLimbs
  <2> QED
    BY <2>2, <2>3, <2>4, <2>5
<1> DEFINE Carry(k) == t[k] \div radix[k]
           Kept(k) == Low(f, w, m, k + 1) = Low(g, w, m, k + 1) + Carry(k) * w[k + 1]
           Good == {k \in 0 .. m - 1 : Kept(k)}
<1>6. ASSUME NEW k \in 0 .. m - 1, NEW low \in Int,
             Low(f, w, m, k) = Low(g, w, m, k) + low * w[k], t[k] = f[k] + low
      PROVE  Kept(k)
  <2> DEFINE c == t[k] \div radix[k]
             r == radix[k]
             v == w[k]
             x == f[k]
             y == g[k]
             z == Low(g, w, m, k)
  <2>1. /\ c \in Int /\ r \in Int /\ v \in Int /\ x \in Int /\ y \in Int /\ z \in Int
        /\ t[k] = r * c + y
    BY <1>2, <1>5
  <2>a. /\ Low(f, w, m, k + 1) = x * v + Low(f, w, m, k)
        /\ Low(g, w, m, k + 1) = y * v + z /\ w[k + 1] = r * v
    BY <1>5
  <2>b. Low(f, w, m, k) = z + low * v /\ t[k] = x + low
    BY <1>6
  <2>c. Kept(k) <=> Low(f, w, m, k + 1) = Low(g, w, m, k + 1) + c * w[k + 1]
    OBVIOUS
  <2> HIDE DEF c, r, v, x, y, z, Kept
  <2>2. x + low = r * c + y
    BY <2>1, <2>b
  <2>6. x * v + (z + low * v) = (y * v + z) + c * (r * v)
    <3>1. (x + low) * v = (r * c + y) * v
      BY <2>2
    <3>2. (x + low) * v = x * v + low * v /\ (r * c + y) * v = c * (r * v) + y * v
      BY <2>1
    <3>3. x * v \in Int /\ low * v \in Int /\ y * v \in Int /\ c * (r * v) \in Int
      BY <2>1
    <3> QED
      BY <2>1, <3>1, <3>2, <3>3
  <2> QED
    BY <2>a, <2>b, <2>c, <2>6
<1>7. 0 \in Good
  <2>1. 0 \in 0 .. m - 1 /\ 0 \in 0 .. m /\ m \in Nat
    BY <1>1
  <2>2. Low(f, w, m, 0) = 0
    BY <2>1, LowSums
  <2>3. Low(g, w, m, 0) = 0
    BY <1>4, <2>1, LowSums
  <2>4. t[0] = f[0]
    BY DEF AreCarried
  <2>5. PICK low \in Int : low = 0
    OBVIOUS
  <2>6. Low(f, w, m, 0) = Low(g, w, m, 0) + low * w[0] /\ t[0] = f[0] + low
    BY <1>5, <2>1, <2>2, <2>3, <2>4, <2>5
  <2>7. Kept(0)
    <3> HIDE DEF Kept
    <3> QED
      BY <1>6, <2>1, <2>6
  <2> HIDE DEF Kept
  <2> QED
    BY <2>1, <2>7
<1>8. ASSUME NEW k \in 0 .. (m - 1) - 1, k \in Good PROVE k + 1 \in Good
  <2>1. k \in 0 .. m - 1 /\ k + 1 \in 0 .. m - 1 /\ (k + 1) - 1 = k /\ k + 1 \in 1 .. m - 1
    BY <1>1
  <2>2. t[k + 1] = f[k + 1] + Carry(k)
    BY <2>1 DEF AreCarried
  <2>3. Carry(k) \in Int
    BY <1>2, <2>1
  <2>4. Low(f, w, m, k + 1) = Low(g, w, m, k + 1) + Carry(k) * w[k + 1]
    BY <1>8
  <2>5. Kept(k + 1)
    <3> HIDE DEF Kept, Carry
    <3> QED
      BY <1>6, <2>1, <2>2, <2>3, <2>4
  <2> HIDE DEF Kept
  <2> QED
    BY <2>1, <2>5
<1>9. \A k \in 0 .. m - 1 : k \in Good
  <2>1. m - 1 \in Nat
    BY <1>1
  <2> HIDE DEF Good
  <2> QED
    BY <1>7, <1>8, <2>1, UptoInduction
<1> QED
  BY <1>3, <1>9

\* Over all limbs: the digits are those of the number, the last carry is what
\* is above them.
LEMMA CarriesDivide ==
  ASSUME NEW m, NEW w, NEW radix, AreWeights(w, radix, m),
         NEW f, AreLimbs(f, m), NEW t, AreCarried(t, f, radix, m),
         NEW g, \A i \in 0 .. m - 1 : g[i] = t[i] % radix[i]
  PROVE  /\ AreDigits(g, radix, m) /\ Low(f, w, m, m) \in Int
         /\ Low(g, w, m, m) = Low(f, w, m, m) % w[m]
         /\ t[m - 1] \div radix[m - 1] = Low(f, w, m, m) \div w[m]
<1>1. m \in Nat \ {0} /\ m - 1 \in 0 .. m - 1 /\ (m - 1) + 1 = m /\ m \in 0 .. m
  BY DEF AreCarried
<1>2. AreDigits(g, radix, m)
  BY CarriesKeepValue
<1>3. Low(f, w, m, m) = Low(g, w, m, m) + (t[m - 1] \div radix[m - 1]) * w[m]
  <2>1. Low(f, w, m, (m - 1) + 1)
          = Low(g, w, m, (m - 1) + 1) + (t[m - 1] \div radix[m - 1]) * w[(m - 1) + 1]
    BY <1>1, CarriesKeepValue
  <2> QED
    BY <1>1, <2>1
<1>4. 0 <= Low(g, w, m, m) /\ Low(g, w, m, m) < w[m]
  BY <1>1, <1>2, DigitsBelowWeight
<1>5. AreLimbs(g, m)
  BY <1>2 DEF AreDigits, AreLimbs
<1>6. Low(f, w, m, m) \in Int
  BY <1>1, LowSums
<1>7. Low(g, w, m, m) \in Int
  BY <1>1, <1>5, LowSums
<1>8. w[m] \in Nat \ {0} /\ radix[m - 1] \in Nat \ {0}
  BY <1>1 DEF AreWeights
<1>9. t[m - 1] \div radix[m - 1] \in Int
  BY <1>1, <1>8, Division DEF AreCarried
<1>10. PICK q \in Int : q = t[m - 1] \div radix[m - 1]
  BY <1>9
<1>11. Low(f, w, m, m) = w[m] * q + Low(g, w, m, m)
  BY <1>3, <1>7, <1>8, <1>10
<1>12. Low(f, w, m, m) \div w[m] = q /\ Low(f, w, m, m) % w[m] = Low(g, w, m, m)
  BY <1>4, <1>6, <1>7, <1>8, <1>11, DivisionIsUnique
<1> QED
  BY <1>2, <1>6, <1>10, <1>12

\* Limbs that agree stand for the same number.
LEMMA LowEqual ==
  ASSUME NEW m, NEW w, NEW radix, AreWeights(w, radix, m),
         NEW f, AreLimbs(f, m), NEW g, AreLimbs(g, m),
         NEW l \in 0 .. m, \A i \in 0 .. l - 1 : f[i] = g[i]
  PROVE  Low(f, w, m, l) = Low(g, w, m, l)
<1> DEFINE Good == {k \in 0 .. l : Low(f, w, m, k) = Low(g, w, m, k)}
<1>1. m \in Nat /\ l \in Nat
  BY DEF AreWeights
<1>2. 0 \in Good
  <2>1. Low(f, w, m, 0) = 0
    BY LowSums
  <2>2. Low(g, w, m, 0) = 0
    BY LowSums
  <2> QED
    BY <1>1, <2>1, <2>2
<1>3. ASSUME NEW k \in 0 .. l - 1, k \in Good PROVE k + 1 \in Good
  <2>1. k \in 0 .. m - 1 /\ k + 1 \in 0 .. l
    BY <1>1
  <2>2. Low(f, w, m, k + 1) = f[k] * w[k] + Low(f, w, m, k)
    BY <2>1, LowSums
  <2>3. Low(g, w, m, k + 1) = g[k] * w[k] + Low(g, w, m, k)
    BY <2>1, LowSums
  <2>4. f[k] = g[k] /\ Low(f, w, m, k) = Low(g, w, m, k)
    BY <1>3
  <2> QED
    BY <2>1, <2>2, <2>3, <2>4
<1>4. \A k \in 0 .. l : k \in Good
  <2> HIDE DEF Good
  <2> QED
    BY <1>1, <1>2, <1>3, UptoInduction
<1> QED
  <2>1. l \in Good
    <3> HIDE DEF Good
    <3> QED
      BY <1>1, <1>4
  <2> QED
    BY <2>1

\* What is added to a limb is added with its weight.
LEMMA LowAdds ==
  ASSUME NEW m, NEW w, NEW radix, AreWeights(w, radix, m),
         NEW f, AreLimbs(f, m), NEW g, AreLimbs(g, m),
         NEW j \in 0 .. m - 1, NEW d \in Int,
         \A i \in 0 .. m - 1 : f[i] = IF i = j THEN g[i] + d ELSE g[i]
  PROVE  Low(f, w, m, m) = Low(g, w, m, m) + d * w[j]
<1> DEFINE More(k) == IF j < k THEN d * w[j] ELSE 0
           Good == {k \in 0 .. m : Low(f, w, m, k) = Low(g, w, m, k) + More(k)}
<1>1. m \in Nat /\ j \in Int /\ w[j] \in Int
  BY DEF AreWeights
<1>2. 0 \in Good
  <2>1. Low(f, w, m, 0) = 0
    BY LowSums
  <2>2. Low(g, w, m, 0) = 0
    BY LowSums
  <2> QED
    BY <1>1, <2>1, <2>2
<1>3. ASSUME NEW k \in 0 .. m - 1, k \in Good PROVE k + 1 \in Good
  <2>1. k \in 0 .. m /\ k + 1 \in 0 .. m
    BY <1>1
  <2>2. Low(f, w, m, k + 1) = f[k] * w[k] + Low(f, w, m, k) /\ Low(f, w, m, k) \in Int
    BY <2>1, LowSums
  <2>3. Low(g, w, m, k + 1) = g[k] * w[k] + Low(g, w, m, k) /\ Low(g, w, m, k) \in Int
    BY <2>1, LowSums
  <2>4. w[k] \in Int /\ f[k] \in Int /\ g[k] \in Int
    BY <2>1 DEF AreWeights, AreLimbs
  <2>5. Low(f, w, m, k) = Low(g, w, m, k) + More(k)
    BY <1>3
  <2>6. CASE k = j
    <3>1. f[k] * w[k] = g[k] * w[k] + d * w[k]
      BY <2>4, <2>6
    <3>2. More(k) = 0 /\ More(k + 1) = d * w[k]
      BY <1>1, <2>6
    <3>3. g[k] * w[k] \in Int /\ d * w[k] \in Int
      BY <2>4
    <3> HIDE DEF More
    <3>4. Low(f, w, m, k + 1) = Low(g, w, m, k + 1) + More(k + 1)
      BY <2>2, <2>3, <2>5, <3>1, <3>2, <3>3
    <3> QED
      BY <2>1, <3>4
  <2>7. CASE k # j
    <3>1. f[k] = g[k]
      BY <2>7
    <3>2. More(k) = More(k + 1) /\ More(k) \in Int
      BY <1>1, <2>7
    <3>3. g[k] * w[k] \in Int
      BY <2>4
    <3> HIDE DEF More
    <3>4. Low(f, w, m, k + 1) = Low(g, w, m, k + 1) + More(k + 1)
      BY <2>2, <2>3, <2>5, <3>1, <3>2, <3>3
    <3> QED
      BY <2>1, <3>4
  <2> QED
    BY <2>6, <2>7
<1>4. \A k \in 0 .. m : k \in Good
  <2> HIDE DEF Good
  <2> QED
    BY <1>1, <1>2, <1>3, UptoInduction
<1> QED
  <2>1. m \in Good
    <3> HIDE DEF Good
    <3> QED
      BY <1>1, <1>4
  <2>2. More(m) = d * w[j]
    BY <1>1
  <2> QED
    BY <2>1, <2>2

\* The limbs f are c times the limbs g and e times the limbs h.
AreCombined(f, c, g, e, h, m) ==
  /\ AreLimbs(g, m) /\ AreLimbs(h, m) /\ c \in Int /\ e \in Int
  /\ \A i \in 0 .. m - 1 : f[i] = c * g[i] + e * h[i]

\* Limbs in proportion make numbers in proportion.
LEMMA LowLinear ==
  ASSUME NEW m, NEW w, NEW radix, AreWeights(w, radix, m),
         NEW f, NEW g, NEW h, NEW c, NEW e, AreCombined(f, c, g, e, h, m)
  PROVE  Low(f, w, m, m) = c * Low(g, w, m, m) + e * Low(h, w, m, m)
<1> DEFINE F == [i \in 0 .. m - 1 |-> f[i] * w[i]]
           G == [i \in 0 .. m - 1 |-> g[i] * w[i]]
           K == [i \in 0 .. m - 1 |-> h[i] * w[i]]
<1>1. m \in Nat
  BY DEF AreWeights
<1>2. ASSUME NEW i \in 0 .. m - 1
      PROVE  G[i] \in Int /\ K[i] \in Int /\ F[i] = c * G[i] + e * K[i]
  <2>1. g[i] \in Int /\ h[i] \in Int /\ w[i] \in Int
    BY <1>1 DEF AreWeights, AreLimbs, AreCombined
  <2>2. F[i] = (c * g[i] + e * h[i]) * w[i] /\ c \in Int /\ e \in Int
    BY DEF AreCombined
  <2>3. (c * g[i] + e * h[i]) * w[i] = c * (g[i] * w[i]) + e * (h[i] * w[i])
    BY <2>1, <2>2
  <2> QED
    BY <2>1, <2>2, <2>3
<1> HIDE DEF F, G, K
<1>3. Combines(F, c, G, e, K, m)
  BY <1>1, <1>2 DEF Combines, Summable, AreCombined
<1>4. m \in 0 .. m
  BY <1>1
<1>5. SumTo(F, m) = c * SumTo(G, m) + e * SumTo(K, m)
  BY <1>3, <1>4, SumLinear
<1> QED
  BY <1>5 DEF Low, F, G, K

-----------------------------------------------------------------------------
(*  Elements of the field                                                  *)

\* What each byte of an element holds.
ByteRadix == [i \in 0 .. N - 1 |-> B]

\* Limbs of B values have the weights of Fe25519.
LEMMA ByteWeights == AreWeights(Weight, ByteRadix, N)
<1>1. N \in Nat /\ B \in Nat \ {0}
  BY Parameters
<1>2. \A i \in 0 .. N : Weight[i] \in Nat \ {0}
  BY Weights
<1>3. \A i \in 0 .. N - 1 : ByteRadix[i] = B /\ Weight[i + 1] = B * Weight[i]
  BY Weights DEF ByteRadix
<1> QED
  BY <1>1, <1>2, <1>3, Weights DEF AreWeights

\* So have the wide limbs.
LEMMA WideWeightsAreWeights == AreWeights(WideWeight, Radix, n)
<1>1. n \in Nat /\ \A i \in 0 .. n - 1 : Radix[i] \in Nat \ {0}
  BY Parameters
<1>2. \A i \in 0 .. n : WideWeight[i] \in Nat \ {0}
  BY WideWeights
<1> QED
  BY <1>1, <1>2, WideWeights DEF AreWeights

\* The value of an element is the number that all of its limbs stand for.
LEMMA ValueIsLow ==
  ASSUME NEW r
  PROVE  Value(r) = Low(r, Weight, N, N)
<1> DEFINE t == [i \in 0 .. N - 1 |-> r[i] * Weight[i]]
<1>1. Value(r) = SumFunction(t)
  BY DEF Value, Limb
<1>2. DOMAIN t = 0 .. N - 1 /\ N \in Nat
  BY Parameters
<1>3. SumFunction(t) = SumTo(t, N)
  <2> HIDE DEF t
  <2> QED
    BY <1>2, SumOfFunction
<1> QED
  BY <1>1, <1>3 DEF Low

\* The modulus.
LEMMA Modulus ==
  /\ Weight[N - 1] \in Nat \ {0} /\ M = Top * Weight[N - 1] /\ M \in Nat /\ M <= Weight[N]
  /\ p \in Nat /\ 0 < p /\ p = M - C /\ 4 * B <= M
<1>1. N - 1 \in 0 .. N /\ N - 1 \in 0 .. N - 1 /\ N - 2 \in 0 .. N - 1 /\ (N - 2) + 1 = N - 1
      /\ (N - 1) + 1 = N /\ N - 2 \in 0 .. N
  BY Parameters
<1>2. PICK u \in Nat \ {0}, v \in Nat \ {0} : u = Weight[N - 1] /\ v = Weight[N - 2]
  BY <1>1, Weights
<1>3. u = B * v /\ Weight[N] = B * u
  BY <1>1, <1>2, Weights
<1>4. B <= u
  <2>1. B * 1 <= B * v
    BY Parameters
  <2> QED
    BY <1>3, <2>1, Parameters
<1>5. M = Top * u
  BY <1>2 DEF M
<1>6. Top * u <= B * u
  BY Parameters
<1>7. 4 * u <= Top * u
  BY Parameters
<1>8. M \in Nat /\ M <= Weight[N] /\ 4 * B <= M
  BY <1>3, <1>4, <1>5, <1>6, <1>7, Parameters
<1>9. p = M - C
  BY DEF p
<1>10. p \in Nat /\ 0 < p
  BY <1>8, <1>9, Parameters
<1> QED
  BY <1>2, <1>5, <1>8, <1>9, <1>10

\* Equal but for a multiple of p.
Congruent(x, y) == \E q \in Int : x = y + q * p

\* Congruent numbers have the same residue.
LEMMA CongruentResidue ==
  ASSUME NEW x \in Int, NEW y \in Int, Congruent(x, y)
  PROVE  x % p = y % p
<1>1. p \in Nat \ {0}
  BY Modulus
<1>2. PICK q \in Int : x = y + q * p
  BY DEF Congruent
<1> DEFINE e == y \div p
           s == y % p
<1>3. e \in Int /\ s \in Int /\ 0 <= s /\ s < p /\ y = p * e + s
  BY <1>1, Division
<1> HIDE DEF e, s
<1>4. x = p * (e + q) + s
  BY <1>1, <1>2, <1>3
<1>5. e + q \in Int
  BY <1>3
<1>6. x % p = s
  BY <1>1, <1>3, <1>4, <1>5, DivisionIsUnique
<1> QED
  BY <1>6 DEF s

\* A number is congruent to its residue.
LEMMA ResidueIsCongruent ==
  ASSUME NEW x \in Int
  PROVE  Congruent(x, x % p) /\ Congruent(x % p, x) /\ x % p \in Int /\ 0 <= x % p /\ x % p < p
<1>1. p \in Nat \ {0}
  BY Modulus
<1> DEFINE e == x \div p
           s == x % p
<1>2. e \in Int /\ s \in Int /\ 0 <= s /\ s < p /\ x = p * e + s
  BY <1>1, Division
<1> HIDE DEF e, s
<1>3. x = s + e * p /\ s = x + (-e) * p /\ -e \in Int
  BY <1>1, <1>2
<1>4. Congruent(x, s) /\ Congruent(s, x)
  BY <1>2, <1>3 DEF Congruent
<1> QED
  BY <1>2, <1>4 DEF s

\* Sums, differences and products of congruent numbers are congruent.
LEMMA CongruentCombines ==
  ASSUME NEW x \in Int, NEW y \in Int, Congruent(x, y),
         NEW u \in Int, NEW v \in Int, Congruent(u, v)
  PROVE  /\ Congruent(x + u, y + v)
         /\ Congruent(x - u, y - v)
         /\ Congruent(x * u, y * v)
<1>1. p \in Int
  BY Modulus
<1>2. PICK q \in Int : x = y + q * p
  BY DEF Congruent
<1>3. PICK r \in Int : u = v + r * p
  BY DEF Congruent
<1>4. x + u = (y + v) + (q + r) * p /\ q + r \in Int
  BY <1>1, <1>2, <1>3
<1>5. x - u = (y - v) + (q - r) * p /\ q - r \in Int
  BY <1>1, <1>2, <1>3
<1>6. x * u = y * v + (y * r + q * v + q * (r * p)) * p
  <2>1. PICK s \in Int, t \in Int : s = q * p /\ t = r * p
    BY <1>1
  <2>2. x * u = y * v + y * t + s * v + s * t
    BY <1>2, <1>3, <2>1
  <2>3. y * t = (y * r) * p /\ s * v = (q * v) * p /\ s * t = (q * (r * p)) * p
    BY <1>1, <2>1
  <2>4. y * r \in Int /\ q * v \in Int /\ q * (r * p) \in Int /\ y * v \in Int
    BY <1>1
  <2>5. PICK d \in Int, e \in Int, f \in Int : d = y * r /\ e = q * v /\ f = q * (r * p)
    BY <2>4
  <2>6. (d + e + f) * p = d * p + e * p + f * p /\ d * p \in Int /\ e * p \in Int /\ f * p \in Int
    BY <1>1
  <2>7. x * u = y * v + (d + e + f) * p
    BY <2>2, <2>3, <2>4, <2>5, <2>6
  <2> QED
    BY <2>5, <2>7
<1>7. y * r + q * v + q * (r * p) \in Int
  BY <1>1
<1> QED
  BY <1>4, <1>5, <1>6, <1>7 DEF Congruent

\* Congruence is an equivalence.
LEMMA CongruentTransitive ==
  ASSUME NEW x \in Int, NEW y \in Int, NEW z \in Int, Congruent(x, y), Congruent(y, z)
  PROVE  Congruent(x, z) /\ Congruent(y, x) /\ Congruent(x, x)
<1>1. p \in Int
  BY Modulus
<1>2. PICK q \in Int : x = y + q * p
  BY DEF Congruent
<1>3. PICK r \in Int : y = z + r * p
  BY DEF Congruent
<1>4. x = z + (q + r) * p /\ y = x + (-q) * p /\ x = x + 0 * p
  BY <1>1, <1>2, <1>3
<1>5. q + r \in Int /\ -q \in Int /\ 0 \in Int
  OBVIOUS
<1> QED
  BY <1>4, <1>5 DEF Congruent

-----------------------------------------------------------------------------
(*  reduce_add_sub                                                         *)

\* The limbs between the passes: at most k of the largest in each.
Waiting(r, k) ==
  /\ AreLimbs(r, N)
  /\ \A i \in 0 .. N - 2 : 0 <= r[i] /\ r[i] <= k * (B - 1)
  /\ 0 <= r[N - 1] /\ r[N - 1] <= 3 * Top - 3

\* The limbs of a pass before they are masked.
PassLimb(r, t, i) ==
  LET own == IF i = N - 1 THEN r[i] % Top ELSE r[i]
  IN IF i = 0 THEN (own + C * (r[N - 1] \div Top)) % W
     ELSE (own + t[i - 1] \div B) % W

\* A pass of reduce_add_sub is such a sequence of limbs, masked.
LEMMA PassLimbs ==
  ASSUME NEW r, AreLimbs(r, N)
  PROVE  \E t : /\ t \in [0 .. N - 1 -> Int]
                /\ \A i \in 0 .. N - 1 : t[i] = PassLimb(r, t, i)
                /\ Pass(r) = [i \in 0 .. N - 1 |-> IF i = N - 1 THEN t[i] ELSE t[i] % B]
<1> DEFINE start == PassLimb(r, <<>>, 0)
           step == [z \in (0 .. N - 1) \X Int |->
                      IF z[1] = 0 THEN 0
                      ELSE ((IF z[1] = N - 1 THEN r[z[1]] % Top ELSE r[z[1]]) + z[2] \div B) % W]
           Next1(t) == [i \in 0 .. N - 1 |-> PassLimb(r, t, i)]
<1>1. /\ N - 1 \in Nat /\ N > 1 /\ B \in Nat \ {0} /\ W \in Nat \ {0} /\ Top \in Nat \ {0} /\ C \in Int
  BY Parameters
<1>2. ASSUME NEW i \in 0 .. N - 1
      PROVE  r[i] \in Int /\ r[i] % Top \in Int
  <2>1. r[i] \in Int
    BY DEF AreLimbs
  <2> QED
    BY <1>1, <2>1, Division
<1>3. r[N - 1] \div Top \in Int
  <2>1. r[N - 1] \in Int
    BY <1>1, <1>2
  <2> QED
    BY <1>1, <2>1, Division
<1>4. start = (r[0] + C * (r[N - 1] \div Top)) % W
  BY <1>1 DEF PassLimb
<1>5. start \in Int
  <2>1. r[0] + C * (r[N - 1] \div Top) \in Int
    BY <1>1, <1>2, <1>3
  <2> HIDE DEF start
  <2> QED
    BY <1>1, <1>4, <2>1, Division
<1>6. step \in [(0 .. N - 1) \X Int -> Int]
  <2>1. ASSUME NEW i \in 0 .. N - 1, NEW x \in Int
        PROVE ((IF i = N - 1 THEN r[i] % Top ELSE r[i]) + x \div B) % W \in Int
    <3>1. x \div B \in Int
      BY <1>1, Division
    <3>2. (IF i = N - 1 THEN r[i] % Top ELSE r[i]) + x \div B \in Int
      BY <1>2, <3>1
    <3> QED
      BY <1>1, <3>2, Division
  <2> QED
    BY <2>1
<1>7. PICK f : IsChain(f, N - 1, Int, start, step)
  <2> HIDE DEF start, step
  <2> QED
    BY <1>1, <1>5, <1>6, ChainExists, Zenon
<1>8. f \in [0 .. N - 1 -> Int]
  BY <1>7 DEF IsChain
<1>9. ASSUME NEW i \in 0 .. N - 1 PROVE f[i] = PassLimb(r, f, i)
  <2>1. f[i] = IF i = 0 THEN start ELSE step[<<i, f[i - 1]>>]
    <3> HIDE DEF start, step
    <3> QED
      BY <1>7 DEF IsChain
  <2>2. CASE i = 0
    BY <1>1, <1>4, <2>1, <2>2 DEF PassLimb
  <2>3. CASE i # 0
    <3>1. i - 1 \in 0 .. N - 1 /\ f[i - 1] \in Int
      BY <1>1, <1>8, <2>3
    <3>2. step[<<i, f[i - 1]>>]
            = ((IF i = N - 1 THEN r[i] % Top ELSE r[i]) + f[i - 1] \div B) % W
      BY <2>3, <3>1
    <3>3. PassLimb(r, f, i) = ((IF i = N - 1 THEN r[i] % Top ELSE r[i]) + f[i - 1] \div B) % W
      BY <2>3 DEF PassLimb
    <3> HIDE DEF step, start
    <3> QED
      BY <2>1, <2>3, <3>2, <3>3
  <2> QED
    BY <2>2, <2>3
<1>10. f = Next1(f)
  BY <1>8, <1>9
<1> DEFINE t == CHOOSE g : g = Next1(g)
<1>11. t = Next1(t)
  <2> HIDE DEF Next1
  <2> QED
    BY <1>10
<1>12. Pass(r) = [i \in 0 .. N - 1 |-> IF i = N - 1 THEN t[i] ELSE t[i] % B]
  BY DEF Pass, Limb, PassLimb
<1> HIDE DEF t
<1>13. \A i \in 0 .. N - 1 : t[i] = PassLimb(r, t, i)
  <2>1. ASSUME NEW i \in 0 .. N - 1 PROVE Next1(t)[i] = PassLimb(r, t, i)
    OBVIOUS
  <2> HIDE DEF Next1
  <2> QED
    BY <1>11, <2>1
<1> DEFINE Good == {i \in 0 .. N - 1 : t[i] \in Int}
<1>14. \A i \in 0 .. N - 1 : i \in Good
  <2>1. t[0] = start
    <3>1. 0 \in 0 .. N - 1
      BY <1>1
    <3>2. t[0] = PassLimb(r, t, 0)
      BY <1>13, <3>1
    <3>3. PassLimb(r, t, 0) = start
      BY DEF PassLimb
    <3> QED
      BY <3>2, <3>3
  <2>2. 0 \in Good
    <3> HIDE DEF start
    <3> QED
      BY <1>1, <1>5, <2>1
  <2>3. ASSUME NEW i \in 0 .. (N - 1) - 1, i \in Good PROVE i + 1 \in Good
    <3>1. i + 1 \in 0 .. N - 1 /\ (i + 1) - 1 = i /\ i + 1 # 0
      BY <1>1
    <3>2. t[i] \in Int
      BY <2>3
    <3>3. t[i] \div B \in Int
      BY <1>1, <3>2, Division
    <3>4. t[i + 1] = ((IF i + 1 = N - 1 THEN r[i + 1] % Top ELSE r[i + 1]) + t[i] \div B) % W
      BY <1>13, <3>1 DEF PassLimb
    <3>5. (IF i + 1 = N - 1 THEN r[i + 1] % Top ELSE r[i + 1]) + t[i] \div B \in Int
      BY <1>2, <3>1, <3>3
    <3>6. t[i + 1] \in Int
      BY <1>1, <3>4, <3>5, Division
    <3> QED
      BY <3>1, <3>6
  <2> HIDE DEF Good
  <2> QED
    BY <1>1, <2>2, <2>3, UptoInduction
<1>15. t \in [0 .. N - 1 -> Int]
  <2>1. t = [i \in 0 .. N - 1 |-> t[i]]
    <3> HIDE DEF PassLimb
    <3>1. DOMAIN t = 0 .. N - 1
      BY <1>11
    <3> QED
      BY <1>11
  <2> QED
    BY <1>14, <2>1
<1> QED
  BY <1>12, <1>13, <1>15

\* A pass: limbs that wait for the carries of k additions hand at most k to the
\* next, no word overflows, and the value changes by a multiple of p.
LEMMA PassStep ==
  ASSUME NEW r, NEW k \in {1, 3}, Waiting(r, k)
  PROVE  LET s == Pass(r) IN
         /\ s \in [0 .. N - 1 -> Int]
         /\ \A i \in 0 .. N - 2 : 0 <= s[i] /\ s[i] <= B - 1
         /\ 0 <= s[N - 1] /\ s[N - 1] <= (r[N - 1] % Top) + k
         /\ r[N - 1] < Top /\ k = 1 => \A i \in 0 .. N - 1 : s[i] = r[i]
         /\ Congruent(Value(s), Value(r))
<1> DEFINE s == Pass(r)
<1>1. /\ N \in Nat /\ N > 1 /\ B \in Nat \ {0} /\ B > 0 /\ W \in Nat /\ 4 * B <= W /\ Top \in Nat /\ 4 <= Top
      /\ Top <= B /\ C \in Nat /\ 2 * C <= B /\ N - 1 \in 0 .. N - 1 /\ k \in Nat /\ k <= 3 /\ 1 <= k
  BY Parameters
<1>2. PICK t : /\ t \in [0 .. N - 1 -> Int]
               /\ \A i \in 0 .. N - 1 : t[i] = PassLimb(r, t, i)
               /\ s = [i \in 0 .. N - 1 |-> IF i = N - 1 THEN t[i] ELSE t[i] % B]
  BY PassLimbs DEF Waiting
<1> HIDE DEF s
<1>3. PICK q \in Int, top \in Int :
        /\ q = r[N - 1] \div Top /\ top = r[N - 1] % Top
        /\ 0 <= top /\ top < Top /\ r[N - 1] = Top * q + top
  <2>1. r[N - 1] \in Int /\ Top \in Nat \ {0}
    BY <1>1 DEF Waiting, AreLimbs
  <2> QED
    BY <2>1, Division
<1>4. 0 <= q /\ q <= 2
  <2>1. 0 <= r[N - 1] /\ r[N - 1] <= 3 * Top - 3
    BY DEF Waiting
  <2>2. Top * q + top <= 3 * Top - 3 /\ 0 <= Top * q + top
    BY <1>3, <2>1
  <2>3. ~(q >= 3)
    <3>1. SUFFICES ASSUME q >= 3 PROVE FALSE
      OBVIOUS
    <3>2. Top * q >= Top * 3
      BY <1>1, <3>1
    <3> QED
      BY <1>1, <1>3, <2>2, <3>2
  <2>4. ~(q <= -1)
    <3>1. SUFFICES ASSUME q <= -1 PROVE FALSE
      OBVIOUS
    <3>2. Top * q <= Top * (-1)
      BY <1>1, <3>1
    <3> QED
      BY <1>1, <1>3, <2>2, <3>2
  <2> QED
    BY <2>3, <2>4
<1>5. C * q \in Int /\ 0 <= C * q /\ C * q <= B
  BY <1>1, <1>4
<1> DEFINE own == [i \in 0 .. N - 1 |-> IF i = N - 1 THEN top ELSE r[i]]
           f == [i \in 0 .. N - 1 |-> IF i = 0 THEN own[i] + C * q ELSE own[i]]
<1>6. k * (B - 1) \in Int /\ k * (B - 1) = k * B - k /\ k * B \in Int /\ k * B <= 3 * B
  BY <1>1
<1>7. ASSUME NEW i \in 0 .. N - 1
      PROVE  own[i] \in Int /\ 0 <= own[i] /\ own[i] <= k * (B - 1)
  <2>1. CASE i = N - 1
    <3>1. 1 * (B - 1) <= k * (B - 1)
      BY <1>1
    <3> QED
      BY <1>1, <1>3, <1>6, <2>1, <3>1
  <2>2. CASE i # N - 1
    <3>1. i \in 0 .. N - 2
      BY <1>1, <2>2
    <3> QED
      BY <2>2, <3>1 DEF Waiting, AreLimbs
  <2> QED
    BY <2>1, <2>2
<1>8. ASSUME NEW i \in 0 .. N - 1, i # 0, t[i - 1] \in Int, 0 <= t[i - 1], t[i - 1] < (k + 1) * B
      PROVE  /\ t[i] = f[i] + (t[i - 1] \div B)
             /\ t[i - 1] \div B \in Int /\ 0 <= t[i - 1] \div B /\ t[i - 1] \div B <= k
             /\ 0 <= t[i] /\ t[i] <= k * B
  <2>1. PICK c \in Int, x \in Int : c = t[i - 1] \div B /\ x = t[i - 1] % B
                                      /\ 0 <= x /\ x < B /\ t[i - 1] = B * c + x
    BY <1>1, <1>8, Division
  <2>2. 0 <= c /\ c <= k
    <3>1. ~(c >= k + 1)
      <4>1. SUFFICES ASSUME c >= k + 1 PROVE FALSE
        OBVIOUS
      <4>2. B * c >= B * (k + 1) /\ B * (k + 1) = (k + 1) * B
        BY <1>1, <4>1
      <4> QED
        BY <1>1, <1>8, <2>1, <4>2
    <3>2. ~(c <= -1)
      <4>1. SUFFICES ASSUME c <= -1 PROVE FALSE
        OBVIOUS
      <4>2. B * c <= B * (-1)
        BY <1>1, <4>1
      <4> QED
        BY <1>1, <1>8, <2>1, <4>2
    <3>3. c \in Int /\ k \in Int
      BY <1>1, <2>1
    <3> QED
      BY <3>1, <3>2, <3>3
  <2>3. t[i] = (own[i] + c) % W
    <3>1. t[i] = PassLimb(r, t, i)
      BY <1>2
    <3>2. PassLimb(r, t, i) = ((IF i = N - 1 THEN r[i] % Top ELSE r[i]) + t[i - 1] \div B) % W
      BY <1>8 DEF PassLimb
    <3>3. (IF i = N - 1 THEN r[i] % Top ELSE r[i]) = own[i]
      BY <1>3
    <3> HIDE DEF own
    <3> QED
      BY <2>1, <3>1, <3>2, <3>3
  <2>4. own[i] + c \in Int /\ 0 <= own[i] + c /\ own[i] + c <= k * B /\ own[i] + c < W
    <3> HIDE DEF own
    <3>1. PICK z \in Int, y \in Int : z = k * B /\ y = own[i] /\ 0 <= y /\ y <= z - k
      BY <1>6, <1>7
    <3>2. c \in Int /\ k \in Int /\ z <= 3 * B
      BY <1>1, <1>6, <2>1, <3>1
    <3> QED
      BY <1>1, <2>2, <3>1, <3>2
  <2>5. t[i] = own[i] + c
    <3> HIDE DEF own
    <3>1. PICK y \in Int : y = own[i] + c /\ 0 <= y /\ y < W
      BY <2>4
    <3>2. y % W = y
      BY <1>1, <3>1
    <3> QED
      BY <2>3, <3>1, <3>2
  <2>6. f[i] = own[i]
    BY <1>8
  <2> HIDE DEF own, f
  <2> QED
    BY <2>1, <2>2, <2>4, <2>5, <2>6
<1>9. t[0] = f[0] /\ 0 <= t[0] /\ t[0] < (k + 1) * B
  <2>1. 0 \in 0 .. N - 1
    BY <1>1
  <2>2. t[0] = (own[0] + C * q) % W
    <3>1. t[0] = PassLimb(r, t, 0)
      BY <1>2, <2>1
    <3>2. PassLimb(r, t, 0) = ((IF 0 = N - 1 THEN r[0] % Top ELSE r[0]) + C * (r[N - 1] \div Top)) % W
      BY DEF PassLimb
    <3>3. (IF 0 = N - 1 THEN r[0] % Top ELSE r[0]) = own[0]
      BY <1>1, <2>1
    <3> HIDE DEF own
    <3> QED
      BY <1>3, <3>1, <3>2, <3>3
  <2>3. f[0] = own[0] + C * q
    BY <2>1
  <2>4. (k + 1) * B = k * B + B
    BY <1>1
  <2>5. own[0] \in Int /\ 0 <= own[0] /\ own[0] <= k * (B - 1)
    <3> HIDE DEF own
    <3> QED
      BY <1>7, <2>1
  <2> HIDE DEF own, f
  <2>6. PICK y \in Int : y = own[0] + C * q /\ 0 <= y /\ y < (k + 1) * B /\ y < W
    BY <1>1, <1>5, <1>6, <2>4, <2>5
  <2>7. y % W = y
    BY <1>1, <2>6
  <2> QED
    BY <2>2, <2>3, <2>6, <2>7
<1>10. ASSUME NEW i \in 0 .. N - 1 PROVE t[i] \in Int
  BY <1>2
<1> DEFINE Good == {i \in 0 .. N - 1 : 0 <= t[i] /\ t[i] < (k + 1) * B}
<1>11. \A i \in 0 .. N - 1 : i \in Good
  <2>1. 0 \in Good
    <3> HIDE DEF own, f
    <3> QED
      BY <1>1, <1>9
  <2>2. ASSUME NEW i \in 0 .. (N - 1) - 1, i \in Good PROVE i + 1 \in Good
    <3> HIDE DEF own, f
    <3>1. i + 1 \in 0 .. N - 1 /\ (i + 1) - 1 = i /\ i + 1 # 0 /\ i \in 0 .. N - 1
      BY <1>1
    <3>2. t[i] \in Int /\ 0 <= t[i] /\ t[i] < (k + 1) * B
      BY <1>10, <2>2, <3>1
    <3>3. 0 <= t[i + 1] /\ t[i + 1] <= k * B
      BY <1>8, <3>1, <3>2
    <3>4. t[i + 1] < (k + 1) * B
      <4>1. t[i + 1] \in Int
        BY <1>10, <3>1
      <4>2. (k + 1) * B = k * B + B
        BY <1>1
      <4> QED
        BY <1>1, <1>6, <3>3, <4>1, <4>2
    <3> QED
      BY <3>1, <3>3, <3>4
  <2>3. N - 1 \in Nat
    BY <1>1
  <2> HIDE DEF Good
  <2> QED
    BY <2>1, <2>2, <2>3, UptoInduction
<1>12. ASSUME NEW i \in 1 .. N - 1
       PROVE  /\ t[i] = f[i] + (t[i - 1] \div B)
              /\ t[i - 1] \div B \in Int /\ 0 <= t[i - 1] \div B /\ t[i - 1] \div B <= k
  <2> HIDE DEF own, f
  <2>1. i \in 0 .. N - 1 /\ i # 0 /\ i - 1 \in 0 .. N - 1
    BY <1>1
  <2>2. t[i - 1] \in Int /\ 0 <= t[i - 1] /\ t[i - 1] < (k + 1) * B
    BY <1>10, <1>11, <2>1
  <2> QED
    BY <1>8, <2>1, <2>2

<1> DEFINE g == [i \in 0 .. N - 1 |-> t[i] % B]
<1>13. AreCarried(t, f, ByteRadix, N)
  <2>1. \A i \in 1 .. N - 1 : ByteRadix[i - 1] = B
    BY <1>1 DEF ByteRadix
  <2> HIDE DEF f, own
  <2> QED
    BY <1>1, <1>9, <1>10, <1>12, <2>1 DEF AreCarried
<1>14. AreLimbs(own, N) /\ AreLimbs(f, N)
  <2>1. \A i \in 0 .. N - 1 : own[i] \in Int
    <3> HIDE DEF own
    <3> QED
      BY <1>7
  <2>2. \A i \in 0 .. N - 1 : f[i] \in Int
    <3> HIDE DEF own
    <3> QED
      BY <1>1, <1>5, <2>1
  <2> QED
    BY <2>1, <2>2 DEF AreLimbs
<1>15. ASSUME NEW i \in 0 .. N - 1
       PROVE  /\ g[i] = t[i] % B /\ g[i] \in Int /\ 0 <= g[i] /\ g[i] <= B - 1
              /\ t[i] \div B \in Int /\ t[i] = B * (t[i] \div B) + g[i]
              /\ s[i] = IF i = N - 1 THEN t[i] ELSE g[i]
  <2>1. t[i] % B \in Int /\ 0 <= t[i] % B /\ t[i] % B < B
        /\ t[i] \div B \in Int /\ t[i] = B * (t[i] \div B) + (t[i] % B)
    BY <1>1, <1>10, Division
  <2>2. s[i] = IF i = N - 1 THEN t[i] ELSE g[i]
    BY <1>2
  <2>3. t[i] % B <= B - 1
    BY <1>1, <2>1
  <2> QED
    BY <2>1, <2>2, <2>3
<1>16. AreLimbs(g, N) /\ AreLimbs(s, N) /\ AreLimbs(r, N)
  <2>1. \A i \in 0 .. N - 1 : s[i] \in Int /\ g[i] \in Int
    <3> HIDE DEF g
    <3> QED
      BY <1>10, <1>15
  <2> QED
    BY <2>1 DEF AreLimbs, Waiting
<1>17. \A i \in 0 .. N - 1 : g[i] = t[i] % ByteRadix[i]
  BY DEF ByteRadix
<1>18. /\ Weight[0] = 1 /\ Weight[N] = B * Weight[N - 1] /\ Weight[N - 1] \in Nat /\ M = Top * Weight[N - 1]
       /\ M \in Int /\ p \in Int /\ p = M - C
  BY <1>1, Weights, Modulus
<1> HIDE DEF own, f, g
<1>19. PICK c \in Int : c = t[N - 1] \div B
  BY <1>1, <1>15
<1>20. Low(f, Weight, N, N) = Low(g, Weight, N, N) + c * Weight[N]
  <2>1. N - 1 \in 0 .. N - 1 /\ (N - 1) + 1 = N /\ ByteRadix[N - 1] = B
    BY <1>1 DEF ByteRadix
  <2>2. \A j \in 0 .. N - 1 : Low(f, Weight, N, j + 1)
                                = Low(g, Weight, N, j + 1) + (t[j] \div ByteRadix[j]) * Weight[j + 1]
    BY <1>13, <1>14, <1>17, ByteWeights, CarriesKeepValue
  <2>3. Low(f, Weight, N, (N - 1) + 1)
          = Low(g, Weight, N, (N - 1) + 1) + (t[N - 1] \div ByteRadix[N - 1]) * Weight[(N - 1) + 1]
    BY <2>1, <2>2
  <2> QED
    BY <1>19, <2>1, <2>3
<1>21. Low(s, Weight, N, N) = Low(g, Weight, N, N) + (B * c) * Weight[N - 1]
  <2>1. B * c \in Int
    BY <1>1
  <2>2. \A i \in 0 .. N - 1 : s[i] = IF i = N - 1 THEN g[i] + B * c ELSE g[i]
    <3>1. ASSUME NEW i \in 0 .. N - 1 PROVE s[i] = IF i = N - 1 THEN g[i] + B * c ELSE g[i]
      <4>1. CASE i = N - 1
        BY <1>15, <1>19, <2>1, <4>1
      <4>2. CASE i # N - 1
        BY <1>15, <4>2
      <4> QED
        BY <4>1, <4>2
    <3> QED
      BY <3>1
  <2>3. PICK d \in Int : d = B * c
    BY <2>1
  <2>4. \A i \in 0 .. N - 1 : s[i] = IF i = N - 1 THEN g[i] + d ELSE g[i]
    BY <2>2, <2>3
  <2>5. N - 1 \in 0 .. N - 1
    BY <1>1
  <2> QED
    BY <1>16, <2>3, <2>4, <2>5, ByteWeights, LowAdds
<1>22. Low(f, Weight, N, N) = Low(own, Weight, N, N) + (C * q) * Weight[0]
  <2>1. PICK d \in Int : d = C * q
    BY <1>5
  <2>2. \A i \in 0 .. N - 1 : f[i] = IF i = 0 THEN own[i] + d ELSE own[i]
    BY <2>1 DEF f
  <2>3. 0 \in 0 .. N - 1
    BY <1>1
  <2> QED
    BY <1>14, <2>1, <2>2, <2>3, ByteWeights, LowAdds
<1>23. Low(own, Weight, N, N) = Low(r, Weight, N, N) + (-(Top * q)) * Weight[N - 1]
  <2>1. PICK d \in Int : d = -(Top * q)
    BY <1>1
  <2>2. r[N - 1] + d = top
    <3>1. PICK e \in Int : e = Top * q
      BY <1>1
    <3>2. d = -e /\ r[N - 1] = e + top
      BY <1>3, <2>1, <3>1
    <3> QED
      BY <3>1, <3>2
  <2>3. \A i \in 0 .. N - 1 : own[i] = IF i = N - 1 THEN r[i] + d ELSE r[i]
    BY <2>2 DEF own
  <2>4. N - 1 \in 0 .. N - 1
    BY <1>1
  <2>5. Low(own, Weight, N, N) = Low(r, Weight, N, N) + d * Weight[N - 1]
    <3>1. d \in Int
      BY <2>1
    <3>2. AreLimbs(own, N) /\ AreLimbs(r, N)
      BY <1>14, <1>16
    <3> QED
      BY <2>3, <2>4, <3>1, <3>2, ByteWeights, LowAdds
  <2> QED
    BY <2>1, <2>5
<1>24. Congruent(Value(s), Value(r))
  <2>1. PICK u \in Int, x \in Int, y \in Int, z \in Int :
          u = Weight[N - 1] /\ x = Low(s, Weight, N, N) /\ y = Low(r, Weight, N, N)
          /\ z = Low(g, Weight, N, N)
    <3>1. N \in 0 .. N
      BY <1>1
    <3>2. Low(s, Weight, N, N) \in Int
      BY <1>16, <3>1, ByteWeights, LowSums
    <3>3. Low(r, Weight, N, N) \in Int
      BY <1>16, <3>1, ByteWeights, LowSums
    <3>4. Low(g, Weight, N, N) \in Int
      BY <1>16, <3>1, ByteWeights, LowSums
    <3> QED
      BY <1>18, <3>2, <3>3, <3>4
  <2>2. x = z + (B * c) * u /\ z + c * (B * u) = y + (-(Top * q)) * u + (C * q)
    BY <1>1, <1>5, <1>18, <1>20, <1>21, <1>22, <1>23, <2>1
  <2>3. (B * c) * u = c * (B * u) /\ (-(Top * q)) * u = -(q * (Top * u))
    BY <1>1, <2>1
  <2>4. M = Top * u
    BY <1>18, <2>1
  <2>5. (B * c) * u \in Int /\ q * M \in Int /\ C * q = q * C
    BY <1>1, <1>18, <2>1
  <2>6. x = y - q * M + q * C
    BY <2>2, <2>3, <2>4, <2>5, <1>5
  <2>7. (-q) * p = - q * M + q * C
    BY <1>1, <1>18
  <2>8. x = y + (-q) * p
    BY <1>5, <2>5, <2>6, <2>7
  <2>9. Value(s) = x /\ Value(r) = y /\ -q \in Int
    BY <2>1, ValueIsLow
  <2> QED
    BY <2>8, <2>9 DEF Congruent
<1>25. s \in [0 .. N - 1 -> Int]
  <2>1. \A i \in 0 .. N - 1 : (IF i = N - 1 THEN t[i] ELSE t[i] % B) \in Int
    BY <1>10, <1>15
  <2> QED
    BY <1>2, <2>1
<1>26. \A i \in 0 .. N - 2 : 0 <= s[i] /\ s[i] <= B - 1
  <2>1. ASSUME NEW i \in 0 .. N - 2 PROVE i \in 0 .. N - 1 /\ i # N - 1
    BY <1>1
  <2> QED
    BY <1>15, <2>1
<1>27. 0 <= s[N - 1] /\ s[N - 1] <= (r[N - 1] % Top) + k
  <2>1. N - 1 \in 1 .. N - 1 /\ N - 1 \in 0 .. N - 1 /\ N - 1 # 0
    BY <1>1
  <2>2. s[N - 1] = t[N - 1]
    BY <1>15, <2>1
  <2>3. f[N - 1] = top
    BY <2>1 DEF f, own
  <2>4. t[N - 1] = f[N - 1] + (t[(N - 1) - 1] \div B) /\ t[(N - 1) - 1] \div B \in Int
        /\ 0 <= t[(N - 1) - 1] \div B /\ t[(N - 1) - 1] \div B <= k
    BY <1>12, <2>1
  <2>5. PICK d \in Int : d = t[(N - 1) - 1] \div B /\ 0 <= d /\ d <= k
    BY <2>4
  <2>6. s[N - 1] = top + d
    BY <2>2, <2>3, <2>4, <2>5
  <2>7. 0 <= top + d /\ top + d <= top + k
    <3>1. top \in Int /\ 0 <= top
      BY <1>3
    <3>2. d \in Int /\ 0 <= d /\ d <= k /\ k \in Int
      BY <1>1, <2>5
    <3> QED
      BY <3>1, <3>2
  <2> QED
    BY <1>3, <2>6, <2>7
<1>28. ASSUME r[N - 1] < Top, k = 1 PROVE \A i \in 0 .. N - 1 : s[i] = r[i]
  <2>1. q = 0 /\ top = r[N - 1]
    <3>1. ~(q >= 1)
      <4>1. SUFFICES ASSUME q >= 1 PROVE FALSE
        OBVIOUS
      <4>2. Top * q >= Top * 1
        BY <1>1, <4>1
      <4>3. r[N - 1] \in Int
        BY <1>1 DEF Waiting, AreLimbs
      <4> QED
        BY <1>1, <1>3, <1>28, <4>2, <4>3
    <3>2. q = 0
      BY <1>4, <3>1
    <3> QED
      BY <1>1, <1>3, <3>2
  <2>2. ASSUME NEW i \in 0 .. N - 1
        PROVE  f[i] = r[i] /\ r[i] \in Int /\ 0 <= r[i] /\ r[i] <= B - 1
    <3>1. own[i] = r[i]
      BY <2>1 DEF own
    <3>2. f[i] = own[i] \/ f[i] = own[i] + C * q
      BY DEF f
    <3>3. C * q = 0
      BY <1>1, <2>1
    <3>4. own[i] \in Int /\ 0 <= own[i] /\ own[i] <= k * (B - 1)
      BY <1>7
    <3>5. k * (B - 1) = B - 1
      BY <1>1, <1>28
    <3> QED
      BY <3>1, <3>2, <3>3, <3>4, <3>5
  <2> DEFINE Same == {i \in 0 .. N - 1 : t[i] = r[i]}
  <2>3. \A i \in 0 .. N - 1 : i \in Same
    <3>1. 0 \in Same
      BY <1>1, <1>9, <2>2
    <3>2. ASSUME NEW i \in 0 .. (N - 1) - 1, i \in Same PROVE i + 1 \in Same
      <4>1. i + 1 \in 1 .. N - 1 /\ (i + 1) - 1 = i /\ i \in 0 .. N - 1 /\ i + 1 \in 0 .. N - 1
        BY <1>1
      <4>2. t[i] = r[i]
        BY <3>2
      <4>3. r[i] \in Int /\ 0 <= r[i] /\ r[i] <= B - 1
        BY <2>2, <4>1
      <4>4. t[i] \div B = 0
        BY <1>1, <4>2, <4>3
      <4>5. t[i + 1] = f[i + 1] + (t[i] \div B)
        BY <1>12, <4>1
      <4>6. t[i + 1] = r[i + 1]
        BY <2>2, <4>1, <4>4, <4>5
      <4> QED
        BY <4>1, <4>6
    <3>3. N - 1 \in Nat
      BY <1>1
    <3> HIDE DEF Same
    <3> QED
      BY <3>1, <3>2, <3>3, UptoInduction
  <2>4. ASSUME NEW i \in 0 .. N - 1 PROVE s[i] = r[i]
    <3>1. t[i] = r[i] /\ r[i] \in Int /\ 0 <= r[i] /\ r[i] <= B - 1
      BY <2>2, <2>3
    <3>2. t[i] % B = t[i]
      BY <1>1, <3>1
    <3> QED
      BY <1>15, <3>1, <3>2
  <2> QED
    BY <2>4
<1> QED
  BY <1>24, <1>25, <1>26, <1>27, <1>28 DEF s

\* A carried element: every limb is a digit, and the value is below M.
LEMMA CarriedLimbs ==
  ASSUME NEW r, Carried(r)
  PROVE  /\ r \in [0 .. N - 1 -> 0 .. B - 1]
         /\ AreLimbs(r, N) /\ AreDigits(r, ByteRadix, N)
         /\ \A i \in 0 .. N - 1 : r[i] \in Int /\ 0 <= r[i] /\ r[i] <= B - 1
         /\ 0 <= r[N - 1] /\ r[N - 1] <= Top - 1
         /\ Value(r) \in Int /\ 0 <= Value(r) /\ Value(r) < M
<1>1. /\ N \in Nat /\ N > 1 /\ B \in Nat /\ Top \in Nat /\ 4 <= Top /\ N - 1 \in 0 .. N - 1 /\ N \in 0 .. N
      /\ N - 1 \in 0 .. N /\ (N - 1) + 1 = N
  BY Parameters
<1>2. r \in [0 .. N - 1 -> 0 .. B - 1]
  BY DEF Carried, Limb
<1>3. \A i \in 0 .. N - 1 : r[i] \in Int /\ 0 <= r[i] /\ r[i] <= B - 1
  BY <1>1, <1>2
<1>4. AreLimbs(r, N)
  BY <1>3 DEF AreLimbs
<1>5. AreDigits(r, ByteRadix, N)
  <2>1. \A i \in 0 .. N - 1 : ByteRadix[i] = B
    BY DEF ByteRadix
  <2>2. \A i \in 0 .. N - 1 : r[i] < B
    BY <1>1, <1>3
  <2> QED
    BY <1>3, <2>1, <2>2 DEF AreDigits
<1>6. 0 <= r[N - 1] /\ r[N - 1] <= Top - 1 /\ r[N - 1] \in Int
  <2>1. r[N - 1] < Top
    BY DEF Carried
  <2> QED
    BY <1>1, <1>3, <2>1
<1>7. PICK x \in Int, w \in Int, v \in Int :
        /\ x = Low(r, Weight, N, N - 1) /\ w = Weight[N - 1] /\ v = Value(r)
        /\ 0 <= x /\ x < w /\ M = Top * w /\ v = r[N - 1] * w + x
  <2>1. 0 <= Low(r, Weight, N, N - 1) /\ Low(r, Weight, N, N - 1) < Weight[N - 1]
    BY <1>1, <1>5, ByteWeights, DigitsBelowWeight
  <2>2. /\ Low(r, Weight, N, N - 1) \in Int /\ Low(r, Weight, N, N) \in Int
        /\ Low(r, Weight, N, (N - 1) + 1) = r[N - 1] * Weight[N - 1] + Low(r, Weight, N, N - 1)
    BY <1>1, <1>4, ByteWeights, LowSums
  <2>3. Weight[N - 1] \in Int /\ M = Top * Weight[N - 1]
    BY Modulus
  <2> QED
    BY <1>1, <2>1, <2>2, <2>3, ValueIsLow
<1>8. 0 <= v /\ v < M
  <2>1. PICK y \in Int : y = r[N - 1] /\ 0 <= y /\ y <= Top - 1
    BY <1>6
  <2>2. 0 <= y * w
    BY <1>7, <2>1
  <2>3. y * w <= (Top - 1) * w
    BY <1>1, <1>7, <2>1
  <2>4. (Top - 1) * w = Top * w - w /\ Top * w \in Int /\ y * w \in Int
    <3>1. Top \in Int /\ w \in Int /\ y \in Int
      BY <1>1, <1>7, <2>1
    <3> QED
      BY <3>1
  <2> QED
    BY <1>7, <2>1, <2>2, <2>3, <2>4
<1> QED
  BY <1>2, <1>3, <1>4, <1>5, <1>6, <1>7, <1>8

\* Two passes carry whatever three additions left in the limbs, without
\* changing the residue.
THEOREM ReduceCarries ==
  ASSUME NEW r, Waiting(r, 3)
  PROVE  Carried(reduce_add_sub(r)) /\ Congruent(Value(reduce_add_sub(r)), Value(r))
<1> DEFINE s == Pass(r)
           u == Pass(s)
<1>1. /\ N \in Nat /\ N > 1 /\ B \in Nat /\ B > 0 /\ Top \in Nat /\ 4 <= Top /\ Top <= B /\ N - 1 \in 0 .. N - 1
  BY Parameters
<1>2. r[N - 1] \in Int /\ AreLimbs(r, N)
  BY <1>1 DEF Waiting, AreLimbs
<1>3. /\ s \in [0 .. N - 1 -> Int]
      /\ \A i \in 0 .. N - 2 : 0 <= s[i] /\ s[i] <= B - 1
      /\ 0 <= s[N - 1] /\ s[N - 1] <= (r[N - 1] % Top) + 3
      /\ Congruent(Value(s), Value(r))
  <2>1. 3 \in {1, 3}
    OBVIOUS
  <2> QED
    BY <2>1, PassStep
<1> HIDE DEF s
<1>4. s[N - 1] \in Int /\ AreLimbs(s, N) /\ s[N - 1] <= Top + 2
  <2>1. PICK x \in Int : x = r[N - 1] % Top /\ x < Top
    BY <1>1, <1>2, Division
  <2>2. s[N - 1] \in Int
    BY <1>1, <1>3
  <2> QED
    BY <1>1, <1>3, <2>1, <2>2 DEF AreLimbs
<1>5. Waiting(s, 1)
  <2>1. 1 * (B - 1) = B - 1
    BY <1>1
  <2>2. s[N - 1] <= 3 * Top - 3
    BY <1>1, <1>4
  <2> QED
    BY <1>3, <1>4, <2>1, <2>2 DEF Waiting
<1>6. /\ u \in [0 .. N - 1 -> Int]
      /\ \A i \in 0 .. N - 2 : 0 <= u[i] /\ u[i] <= B - 1
      /\ 0 <= u[N - 1] /\ u[N - 1] <= (s[N - 1] % Top) + 1
      /\ s[N - 1] < Top => \A i \in 0 .. N - 1 : u[i] = s[i]
      /\ Congruent(Value(u), Value(s))
  <2>1. 1 \in {1, 3}
    OBVIOUS
  <2> QED
    BY <1>5, <2>1, PassStep
<1> HIDE DEF u
<1>7. u[N - 1] \in Int /\ 0 <= u[N - 1] /\ u[N - 1] < Top
  <2>0. u[N - 1] \in Int
    BY <1>1, <1>6
  <2>1. CASE s[N - 1] < Top
    BY <1>1, <1>6, <2>0, <2>1
  <2>2. CASE s[N - 1] >= Top
    <3>1. PICK x \in Int : x = s[N - 1] /\ Top <= x /\ x <= Top + 2
      BY <1>4, <2>2
    <3>2. x % Top = x - Top
      <4>1. Top \in Nat \ {0} /\ 1 \in Int /\ x - Top \in Int /\ 0 <= x - Top /\ x - Top < Top
            /\ x = Top * 1 + (x - Top)
        BY <1>1, <3>1
      <4>2. PICK y \in Int, z \in Int : y = 1 /\ z = x - Top
        BY <4>1
      <4>3. x \div Top = y /\ x % Top = z
        BY <3>1, <4>1, <4>2, DivisionIsUnique
      <4> QED
        BY <4>2, <4>3
    <3> QED
      BY <1>1, <1>6, <2>0, <3>1, <3>2
  <2> QED
    BY <1>1, <1>4, <2>1, <2>2
<1>8. Carried(u)
  <2>1. ASSUME NEW i \in 0 .. N - 1 PROVE u[i] \in 0 .. B - 1
    <3>1. CASE i = N - 1
      BY <1>1, <1>7, <3>1
    <3>2. CASE i # N - 1
      <4>1. i \in 0 .. N - 2 /\ u[i] \in Int
        BY <1>1, <1>6, <3>2
      <4> QED
        BY <1>1, <1>6, <4>1
    <3> QED
      BY <3>1, <3>2
  <2>2. u \in [0 .. N - 1 -> 0 .. B - 1]
    BY <1>6, <2>1
  <2> QED
    BY <1>7, <2>2 DEF Carried, Limb
<1>9. Congruent(Value(u), Value(r))
  <2>1. AreLimbs(u, N) /\ N \in 0 .. N
    BY <1>1, <1>6 DEF AreLimbs
  <2>2. Value(u) \in Int
    BY <2>1, ByteWeights, LowSums, ValueIsLow
  <2>3. Value(s) \in Int
    BY <1>4, <2>1, ByteWeights, LowSums, ValueIsLow
  <2>4. Value(r) \in Int
    BY <1>2, <2>1, ByteWeights, LowSums, ValueIsLow
  <2> QED
    BY <1>3, <1>6, <2>2, <2>3, <2>4, CongruentTransitive
<1>10. reduce_add_sub(r) = u
  BY DEF reduce_add_sub, u, s
<1> QED
  BY <1>8, <1>9, <1>10

\* The value of limbs is a number.
LEMMA ValueIsNumber ==
  ASSUME NEW r, AreLimbs(r, N)
  PROVE  Value(r) \in Int
<1>1. N \in 0 .. N
  BY Parameters
<1> QED
  BY <1>1, ByteWeights, LowSums, ValueIsLow

\* The value is linear in the limbs.
LEMMA ValueLinear ==
  ASSUME NEW f, NEW g, NEW h, NEW c, NEW e, AreCombined(f, c, g, e, h, N)
  PROVE  Value(f) = c * Value(g) + e * Value(h)
<1>1. Low(f, Weight, N, N) = c * Low(g, Weight, N, N) + e * Low(h, Weight, N, N)
  BY ByteWeights, LowLinear
<1> QED
  BY <1>1, ValueIsLow

\* The limbs of p are those of p.
LEMMA LimbsOfModulus ==
  LET f == [i \in 0 .. N - 1 |-> P(i)]
  IN  /\ \A i \in 0 .. N - 1 : /\ P(i) \in Int /\ 0 <= P(i) /\ P(i) <= B - 1
                               /\ B <= 2 * P(i) + 1 \/ (i = N - 1 /\ P(i) = Top - 1)
      /\ AreLimbs(f, N) /\ Value(f) = p
      /\ \A k \in 1 .. N - 1 : Low(f, Weight, N, k) = Weight[k] - C
<1> DEFINE f == [i \in 0 .. N - 1 |-> P(i)]
           Good == {k \in 0 .. N - 2 : Low(f, Weight, N, k + 1) = Weight[k + 1] - C}
<1>1. /\ N \in Nat /\ N > 1 /\ B \in Nat /\ B > 0 /\ Top \in Nat /\ 4 <= Top /\ Top <= B
      /\ C \in Nat /\ 0 < C /\ 2 * C <= B
  BY Parameters
<1>2. ASSUME NEW i \in 0 .. N - 1
      PROVE  /\ P(i) \in Int /\ 0 <= P(i) /\ P(i) <= B - 1
             /\ B <= 2 * P(i) + 1 \/ (i = N - 1 /\ P(i) = Top - 1)
  BY <1>1 DEF P
<1>3. f[0] = B - C /\ f[N - 1] = Top - 1 /\ \A i \in 1 .. N - 2 : f[i] = B - 1
  BY <1>1 DEF P
<1>4. AreLimbs(f, N)
  BY <1>2 DEF AreLimbs
<1> HIDE DEF f
<1>5. /\ Low(f, Weight, N, 0) = 0
      /\ \A k \in 0 .. N : Low(f, Weight, N, k) \in Int
      /\ \A k \in 0 .. N - 1 : Low(f, Weight, N, k + 1) = f[k] * Weight[k] + Low(f, Weight, N, k)
  BY <1>4, ByteWeights, LowSums
<1>6. /\ Weight[0] = 1 /\ \A i \in 0 .. N : Weight[i] \in Nat
      /\ \A i \in 0 .. N - 1 : Weight[i + 1] = B * Weight[i]
  BY Weights
<1>7. ASSUME NEW k \in 0 .. N - 2 PROVE k \in Good
  <2>1. 0 \in Good
    <3>1. 0 \in 0 .. N - 2 /\ 0 \in 0 .. N - 1 /\ 0 + 1 = 1
      BY <1>1
    <3>2. Low(f, Weight, N, 0 + 1) = f[0] * Weight[0] + Low(f, Weight, N, 0)
      BY <1>5, <3>1
    <3>3. Weight[0 + 1] = B * Weight[0]
      BY <1>6, <3>1
    <3>4. Low(f, Weight, N, 0 + 1) = Weight[0 + 1] - C
      BY <1>1, <1>3, <1>5, <1>6, <3>2, <3>3
    <3> QED
      BY <3>1, <3>4
  <2>2. ASSUME NEW j \in 0 .. (N - 2) - 1, j \in Good PROVE j + 1 \in Good
    <3>1. j + 1 \in 0 .. N - 2 /\ j + 1 \in 0 .. N - 1 /\ j + 1 \in 1 .. N - 2 /\ j + 1 \in 0 .. N
      BY <1>1
    <3>2. PICK w \in Int : w = Weight[j + 1]
      BY <1>6, <3>1
    <3>3. Low(f, Weight, N, j + 1) = w - C
      BY <2>2, <3>2
    <3>4. Low(f, Weight, N, (j + 1) + 1) = (B - 1) * w + (w - C)
      BY <1>3, <1>5, <3>1, <3>2, <3>3
    <3>5. Weight[(j + 1) + 1] = B * w
      BY <1>6, <3>1, <3>2
    <3>6. (B - 1) * w + (w - C) = B * w - C
      <4>1. (B - 1) * w = B * w - w /\ B * w \in Int
        BY <1>1, <3>2
      <4> QED
        BY <1>1, <3>2, <4>1
    <3> QED
      BY <3>1, <3>4, <3>5, <3>6
  <2>3. N - 2 \in Nat
    BY <1>1
  <2> HIDE DEF Good
  <2> QED
    BY <2>1, <2>2, <2>3, UptoInduction
<1>8. \A k \in 1 .. N - 1 : Low(f, Weight, N, k) = Weight[k] - C
  <2>1. ASSUME NEW k \in 1 .. N - 1 PROVE k - 1 \in 0 .. N - 2 /\ (k - 1) + 1 = k
    BY <1>1
  <2> QED
    BY <1>7, <2>1
<1>9. Value(f) = p
  <2>1. N - 1 \in 1 .. N - 1 /\ N - 1 \in 0 .. N - 1 /\ (N - 1) + 1 = N
    BY <1>1
  <2>2. PICK w \in Int : w = Weight[N - 1] /\ M = Top * w
    BY Modulus
  <2>3. Low(f, Weight, N, N) = (Top - 1) * w + (w - C)
    BY <1>3, <1>5, <1>8, <2>1, <2>2
  <2>4. (Top - 1) * w + (w - C) = Top * w - C
    <3>1. (Top - 1) * w = Top * w - w /\ Top * w \in Int
      BY <1>1, <2>2
    <3> QED
      BY <1>1, <2>2, <3>1
  <2> QED
    BY <2>2, <2>3, <2>4, Modulus, ValueIsLow
<1> QED
  BY <1>2, <1>4, <1>8, <1>9 DEF f

\* fe25519_add: the bytes of a sum fit words, and reduce_add_sub carries them.
LEMMA AddIsSum ==
  ASSUME NEW x, Carried(x), NEW y, Carried(y)
  PROVE  Carried(fe25519_add(x, y)) /\ Congruent(Value(fe25519_add(x, y)), Value(x) + Value(y))
<1> DEFINE f == [i \in 0 .. N - 1 |-> (x[i] + y[i]) % W]
<1>1. /\ N \in Nat /\ N > 1 /\ B \in Nat /\ B > 0 /\ W \in Nat /\ 4 * B <= W /\ Top \in Nat /\ 4 <= Top
      /\ N - 1 \in 0 .. N - 1
  BY Parameters
<1>2. /\ AreLimbs(x, N) /\ AreLimbs(y, N)
      /\ \A i \in 0 .. N - 1 : x[i] \in Int /\ 0 <= x[i] /\ x[i] <= B - 1
      /\ \A i \in 0 .. N - 1 : y[i] \in Int /\ 0 <= y[i] /\ y[i] <= B - 1
      /\ x[N - 1] <= Top - 1 /\ y[N - 1] <= Top - 1
  BY CarriedLimbs
<1>3. ASSUME NEW i \in 0 .. N - 1
      PROVE  f[i] \in Int /\ f[i] = x[i] + y[i] /\ 0 <= f[i] /\ f[i] <= 3 * (B - 1)
  <2>1. PICK z \in Int : z = x[i] + y[i] /\ 0 <= z /\ z <= 2 * B - 2
    BY <1>1, <1>2
  <2>2. z % W = z
    BY <1>1, <2>1
  <2> QED
    BY <1>1, <2>1, <2>2
<1>4. fe25519_add(x, y) = reduce_add_sub(f)
  BY DEF fe25519_add, Limb
<1> HIDE DEF f
<1>5. Waiting(f, 3)
  <2>1. AreLimbs(f, N)
    BY <1>3 DEF AreLimbs
  <2>2. f[N - 1] \in Int /\ f[N - 1] = x[N - 1] + y[N - 1] /\ 0 <= f[N - 1]
    BY <1>1, <1>3
  <2>3. f[N - 1] <= 3 * Top - 3
    BY <1>1, <1>2, <2>2
  <2>4. \A i \in 0 .. N - 2 : i \in 0 .. N - 1
    BY <1>1
  <2> QED
    BY <1>3, <2>1, <2>2, <2>3, <2>4 DEF Waiting
<1>6. Value(f) = Value(x) + Value(y)
  <2>1. PICK c \in Int : c = 1
    OBVIOUS
  <2>2. AreCombined(f, c, x, c, y, N)
    BY <1>2, <1>3, <2>1 DEF AreCombined
  <2>3. Value(f) = c * Value(x) + c * Value(y)
    BY <1>2, <2>1, <2>2, ValueLinear
  <2>4. Value(x) \in Int /\ Value(y) \in Int
    BY <1>2, ValueIsNumber
  <2> QED
    BY <2>1, <2>3, <2>4
<1> QED
  BY <1>4, <1>5, <1>6, ReduceCarries

\* fe25519_double, in the same way.
LEMMA DoubleIsTwice ==
  ASSUME NEW x, Carried(x)
  PROVE  Carried(fe25519_double(x)) /\ Congruent(Value(fe25519_double(x)), 2 * Value(x))
<1>1. fe25519_double(x) = fe25519_add(x, x)
  <2>1. \A i \in 0 .. N - 1 : x[i] \in Int
    BY CarriedLimbs
  <2>2. \A i \in 0 .. N - 1 : 2 * x[i] = x[i] + x[i]
    BY <2>1
  <2>3. [i \in 0 .. N - 1 |-> (2 * x[i]) % W] = [i \in 0 .. N - 1 |-> (x[i] + x[i]) % W]
    BY <2>2
  <2> QED
    BY <2>3 DEF fe25519_double, fe25519_add, Limb
<1>2. Carried(fe25519_add(x, x)) /\ Congruent(Value(fe25519_add(x, x)), Value(x) + Value(x))
  BY AddIsSum
<1>3. Value(x) \in Int /\ 2 * Value(x) = Value(x) + Value(x)
  BY CarriedLimbs
<1> QED
  BY <1>1, <1>2, <1>3

\* fe25519_sub: what is added to every limb is a multiple of p and keeps each
\* from falling below zero.
LEMMA SubIsDifference ==
  ASSUME NEW x, Carried(x), NEW y, Carried(y)
  PROVE  Carried(fe25519_sub(x, y)) /\ Congruent(Value(fe25519_sub(x, y)), Value(x) - Value(y))
<1> DEFINE f == [i \in 0 .. N - 1 |-> (x[i] + SubOffset(i) - y[i]) % W]
           g == [i \in 0 .. N - 1 |-> x[i] - y[i]]
           h == [i \in 0 .. N - 1 |-> P(i)]
<1>1. /\ N \in Nat /\ N > 1 /\ B \in Nat /\ B > 0 /\ W \in Nat /\ 4 * B <= W /\ Top \in Nat /\ 4 <= Top
      /\ N - 1 \in 0 .. N - 1
  BY Parameters
<1>2. /\ AreLimbs(x, N) /\ AreLimbs(y, N)
      /\ \A i \in 0 .. N - 1 : x[i] \in Int /\ 0 <= x[i] /\ x[i] <= B - 1
      /\ \A i \in 0 .. N - 1 : y[i] \in Int /\ 0 <= y[i] /\ y[i] <= B - 1
      /\ x[N - 1] <= Top - 1 /\ y[N - 1] <= Top - 1 /\ 0 <= x[N - 1]
  BY CarriedLimbs
<1>3. /\ \A i \in 0 .. N - 1 : /\ P(i) \in Int /\ 0 <= P(i) /\ P(i) <= B - 1
                               /\ B <= 2 * P(i) + 1 \/ (i = N - 1 /\ P(i) = Top - 1)
      /\ AreLimbs(h, N) /\ Value(h) = p
  BY LimbsOfModulus
<1>4. ASSUME NEW i \in 0 .. N - 1
      PROVE  /\ f[i] \in Int /\ f[i] = x[i] + 2 * P(i) - y[i]
             /\ 0 <= f[i] /\ f[i] <= 3 * (B - 1)
  <2>1. P(i) \in Int /\ P(i) <= B - 1 /\ (B <= 2 * P(i) + 1 \/ (i = N - 1 /\ P(i) = Top - 1))
    BY <1>3
  <2>2. x[i] \in Int /\ y[i] \in Int /\ 0 <= x[i] /\ x[i] <= B - 1 /\ y[i] <= B - 1 /\ 0 <= y[i]
    BY <1>2
  <2>3. y[i] <= 2 * P(i)
    <3>1. CASE B <= 2 * P(i) + 1
      BY <1>1, <2>1, <2>2, <3>1
    <3>2. CASE i = N - 1 /\ P(i) = Top - 1
      BY <1>1, <1>2, <2>2, <3>2
    <3> QED
      BY <2>1, <3>1, <3>2
  <2>4. PICK z \in Int : z = x[i] + 2 * P(i) - y[i] /\ 0 <= z /\ z <= 3 * (B - 1) /\ z < W
    BY <1>1, <2>1, <2>2, <2>3
  <2>5. z % W = z
    BY <1>1, <2>4
  <2>6. f[i] = z
    BY <2>4, <2>5 DEF SubOffset
  <2> QED
    BY <2>4, <2>6
<1>5. fe25519_sub(x, y) = reduce_add_sub(f)
  BY DEF fe25519_sub, Limb
<1>6. AreLimbs(g, N)
  BY <1>2 DEF AreLimbs
<1>7. \A i \in 0 .. N - 1 : g[i] = x[i] - y[i] /\ h[i] = P(i)
  OBVIOUS
<1> HIDE DEF f, g, h
<1>8. Waiting(f, 3)
  <2>1. AreLimbs(f, N)
    BY <1>4 DEF AreLimbs
  <2>2. f[N - 1] \in Int /\ f[N - 1] = x[N - 1] + 2 * P(N - 1) - y[N - 1] /\ 0 <= f[N - 1]
    BY <1>1, <1>4
  <2>3. f[N - 1] <= 3 * Top - 3
    <3>1. P(N - 1) = Top - 1
      BY <1>1 DEF P
    <3>2. y[N - 1] \in Int /\ 0 <= y[N - 1] /\ x[N - 1] \in Int
      BY <1>1, <1>2
    <3> QED
      BY <1>1, <1>2, <2>2, <3>1, <3>2
  <2>4. \A i \in 0 .. N - 2 : i \in 0 .. N - 1
    BY <1>1
  <2> QED
    BY <1>4, <2>1, <2>2, <2>3, <2>4 DEF Waiting
<1>9. Value(f) = Value(x) - Value(y) + 2 * p
  <2>1. PICK c \in Int, d \in Int, e \in Int : c = 1 /\ d = -1 /\ e = 2
    OBVIOUS
  <2>2. AreCombined(g, c, x, d, y, N)
    BY <1>2, <1>7, <2>1 DEF AreCombined
  <2>3. Value(g) = c * Value(x) + d * Value(y)
    BY <1>2, <2>1, <2>2, ValueLinear
  <2>4. AreCombined(f, c, g, e, h, N)
    BY <1>2, <1>3, <1>4, <1>6, <1>7, <2>1 DEF AreCombined
  <2>5. Value(f) = c * Value(g) + e * Value(h)
    BY <1>3, <1>6, <2>1, <2>4, ValueLinear
  <2>6. Value(x) \in Int /\ Value(y) \in Int /\ p \in Int
    BY <1>2, ValueIsNumber, Modulus
  <2> QED
    BY <1>3, <2>1, <2>3, <2>5, <2>6
<1>10. Congruent(Value(f), Value(x) - Value(y))
  <2>1. 2 \in Int
    OBVIOUS
  <2> QED
    BY <1>9, <2>1 DEF Congruent
<1>11. Carried(fe25519_sub(x, y)) /\ Congruent(Value(fe25519_sub(x, y)), Value(f))
  BY <1>5, <1>8, ReduceCarries
<1>12. Value(x) - Value(y) \in Int /\ Value(f) \in Int /\ Value(fe25519_sub(x, y)) \in Int
  <2>1. Value(x) \in Int /\ Value(y) \in Int /\ p \in Int
    BY <1>2, ValueIsNumber, Modulus
  <2>2. Value(fe25519_sub(x, y)) \in Int
    BY <1>11, CarriedLimbs
  <2> QED
    BY <1>9, <2>1, <2>2
<1> QED
  BY <1>10, <1>11, <1>12, CongruentTransitive

\* fe25519_neg is a difference from zero.
LEMMA NegIsOpposite ==
  ASSUME NEW x, Carried(x)
  PROVE  Carried(fe25519_neg(x)) /\ Congruent(Value(fe25519_neg(x)), - Value(x))
<1>1. /\ N \in Nat /\ N > 1 /\ B \in Nat /\ B > 0 /\ Top \in Nat /\ 4 <= Top /\ N - 1 \in 0 .. N - 1
  BY Parameters
<1>2. fe25519_zero \in [0 .. N - 1 -> 0 .. B - 1] /\ \A i \in 0 .. N - 1 : fe25519_zero[i] = 0
  BY <1>1 DEF fe25519_zero, Limb
<1>3. Carried(fe25519_zero)
  BY <1>1, <1>2 DEF Carried, Limb
<1>4. Value(fe25519_zero) = 0
  <2>1. PICK c \in Int : c = 0
    OBVIOUS
  <2>2. AreLimbs(fe25519_zero, N)
    BY <1>3, CarriedLimbs
  <2>3. AreCombined(fe25519_zero, c, fe25519_zero, c, fe25519_zero, N)
    BY <1>2, <2>1, <2>2 DEF AreCombined
  <2>4. Value(fe25519_zero) = c * Value(fe25519_zero) + c * Value(fe25519_zero)
    BY <2>1, <2>2, <2>3, ValueLinear
  <2>5. Value(fe25519_zero) \in Int
    BY <2>2, ValueIsNumber
  <2> QED
    BY <2>1, <2>4, <2>5
<1>5. Carried(fe25519_sub(fe25519_zero, x))
      /\ Congruent(Value(fe25519_sub(fe25519_zero, x)), Value(fe25519_zero) - Value(x))
  BY <1>3, SubIsDifference
<1>6. Value(fe25519_zero) - Value(x) = - Value(x)
  <2>1. Value(x) \in Int
    BY CarriedLimbs
  <2> QED
    BY <1>4, <2>1
<1> QED
  BY <1>5, <1>6 DEF fe25519_neg

\* One conditional subtraction makes a carried element the residue itself.
LEMMA FreezeIsResidue ==
  ASSUME NEW r, Carried(r)
  PROVE  Carried(fe25519_freeze(r)) /\ Value(fe25519_freeze(r)) = Value(r) % p
<1> DEFINE h == [i \in 0 .. N - 1 |-> P(i)]
           f == [i \in 0 .. N - 1 |-> r[i] - P(i)]
           Above == r[0] >= P(0) /\ \A i \in 0 .. N - 1 : i # 0 => r[i] = P(i)
<1>1. /\ N \in Nat /\ N > 1 /\ B \in Nat /\ B > 0 /\ Top \in Nat /\ 4 <= Top /\ Top <= B
      /\ C \in Nat /\ 0 < C /\ 2 * C <= B /\ 0 \in 0 .. N - 1 /\ N - 1 \in 0 .. N - 1 /\ N - 1 # 0
  BY Parameters
<1>2. /\ AreLimbs(r, N) /\ AreDigits(r, ByteRadix, N)
      /\ \A i \in 0 .. N - 1 : r[i] \in Int /\ 0 <= r[i] /\ r[i] <= B - 1
      /\ Value(r) \in Int /\ 0 <= Value(r) /\ Value(r) < M
  BY CarriedLimbs
<1>3. /\ \A i \in 0 .. N - 1 : P(i) \in Int /\ 0 <= P(i) /\ P(i) <= B - 1
      /\ AreLimbs(h, N) /\ Value(h) = p
  BY LimbsOfModulus
<1>4. \A i \in 0 .. N - 1 : h[i] = P(i)
  OBVIOUS
<1> HIDE DEF h
<1>5. p \in Nat \ {0} /\ p = M - C /\ M \in Int /\ 4 * B <= M
  BY Modulus
<1>6. fe25519_freeze(r) = IF Above THEN f ELSE r
  BY DEF fe25519_freeze, Limb
<1>7. CASE Above
  <2>1. ASSUME NEW i \in 0 .. N - 1 PROVE f[i] \in 0 .. B - 1 /\ (i # 0 => f[i] = 0)
    <3>1. r[i] \in Int /\ P(i) \in Int /\ r[i] <= B - 1 /\ 0 <= P(i)
      BY <1>2, <1>3
    <3>2. CASE i = 0
      BY <1>1, <1>7, <3>1, <3>2
    <3>3. CASE i # 0
      BY <1>1, <1>7, <3>1, <3>3
    <3> QED
      BY <3>2, <3>3
  <2>2. f \in [0 .. N - 1 -> 0 .. B - 1] /\ f[N - 1] = 0
    BY <1>1, <2>1
  <2> HIDE DEF f, Above
  <2>3. Carried(f)
    BY <1>1, <2>2 DEF Carried, Limb
  <2>4. PICK c \in Int, d \in Int : c = 1 /\ d = -1
    OBVIOUS
  <2>5. AreCombined(f, c, r, d, h, N)
    BY <1>2, <1>3, <1>4, <2>4 DEF AreCombined, f
  <2>6. Value(f) = c * Value(r) + d * Value(h)
    BY <2>5, ValueLinear
  <2>7. Value(f) = Value(r) - p
    BY <1>2, <1>3, <1>5, <2>4, <2>6
  <2>8. Value(f) \in Int /\ 0 <= Value(f)
    BY <2>3, CarriedLimbs
  <2>9. Value(f) < p
    BY <1>1, <1>2, <1>5, <2>7, <2>8
  <2>10. Value(r) = p * c + Value(f)
    BY <1>2, <1>5, <2>4, <2>7, <2>8
  <2>11. Value(r) % p = Value(f)
    BY <1>2, <1>5, <2>4, <2>8, <2>9, <2>10, DivisionIsUnique
  <2> QED
    BY <1>6, <1>7, <2>3, <2>11
<1>8. CASE ~Above
  <2>1. Value(r) < p
    <3>1. SUFFICES ASSUME Value(r) >= p PROVE FALSE
      BY <1>2, <1>5
    <3>2. PICK v \in Int : v = Value(r) - p /\ 0 <= v /\ v < C
      BY <1>1, <1>2, <1>5, <3>1
    <3> DEFINE g == [i \in 0 .. N - 1 |-> IF i = 0 THEN h[i] + v ELSE h[i]]
    <3>3. ASSUME NEW i \in 0 .. N - 1 PROVE g[i] \in Int /\ 0 <= g[i] /\ g[i] < B
      <4>1. CASE i = 0
        <5>1. P(0) = B - C
          BY DEF P
        <5> QED
          BY <1>1, <1>3, <1>4, <3>2, <4>1, <5>1
      <4>2. CASE i # 0
        <5>1. P(i) \in Int /\ 0 <= P(i) /\ P(i) <= B - 1 /\ g[i] = P(i)
          BY <1>3, <1>4, <4>2
        <5> QED
          BY <1>1, <5>1
      <4> QED
        BY <4>1, <4>2
    <3>4. \A i \in 0 .. N - 1 : g[i] = IF i = 0 THEN h[i] + v ELSE h[i]
      OBVIOUS
    <3>a. (g[0] = P(0) + v) /\ \A i \in 0 .. N - 1 : i # 0 => g[i] = P(i)
      BY <1>1, <1>4
    <3> HIDE DEF g, Above
    <3>5. AreLimbs(g, N) /\ AreDigits(g, ByteRadix, N)
      BY <3>3 DEF AreLimbs, AreDigits, ByteRadix
    <3>6. Low(g, Weight, N, N) = Low(h, Weight, N, N) + v * Weight[0]
      <4>1. AreLimbs(h, N) /\ AreLimbs(g, N) /\ v \in Int /\ 0 \in 0 .. N - 1
        BY <1>1, <1>3, <3>2, <3>5
      <4> QED
        BY <3>4, <4>1, ByteWeights, LowAdds
    <3>7. Value(g) = p + v
      BY <1>3, <3>2, <3>6, ValueIsLow, Weights
    <3>8. Low(r, Weight, N, N) = Low(g, Weight, N, N)
      BY <1>2, <1>5, <3>2, <3>7, ValueIsLow
    <3>9. \A i \in 0 .. N - 1 : r[i] = g[i]
      BY <1>2, <3>5, <3>8, ByteWeights, DigitsAreUnique
    <3>10. r[0] >= P(0)
      BY <1>1, <1>3, <3>2, <3>9, <3>a
    <3>11. \A i \in 0 .. N - 1 : i # 0 => r[i] = P(i)
      BY <3>9, <3>a
    <3> QED
      BY <1>8, <3>10, <3>11 DEF Above
  <2>2. Value(r) % p = Value(r)
    <3>1. PICK z \in Int : z = 0
      OBVIOUS
    <3>2. Value(r) = p * z + Value(r)
      BY <1>2, <1>5, <3>1
    <3> QED
      BY <1>2, <1>5, <2>1, <3>1, <3>2, DivisionIsUnique
  <2> QED
    BY <1>6, <1>8, <2>2
<1> QED
  BY <1>7, <1>8

\* The bytes handed out are those limbs.
LEMMA PackIsFrozen ==
  ASSUME NEW r, Carried(r)
  PROVE  fe25519_pack(r) = fe25519_freeze(r)
<1> DEFINE f == fe25519_freeze(r)
<1>1. Carried(f)
  BY FreezeIsResidue
<1> HIDE DEF f
<1>2. B \in Nat \ {0} /\ f \in [0 .. N - 1 -> 0 .. B - 1]
      /\ \A i \in 0 .. N - 1 : f[i] \in Int /\ 0 <= f[i] /\ f[i] <= B - 1
  BY <1>1, CarriedLimbs, Parameters
<1>3. ASSUME NEW i \in 0 .. N - 1 PROVE f[i] % B = f[i]
  <2>1. PICK x \in Int : x = f[i] /\ 0 <= x /\ x <= B - 1
    BY <1>2
  <2>2. x % B = x
    BY <1>2, <2>1
  <2> QED
    BY <2>1, <2>2
<1>4. [i \in 0 .. N - 1 |-> f[i] % B] = f
  BY <1>2, <1>3
<1> QED
  BY <1>4 DEF fe25519_pack, Limb, f

\* The lowest limb has the parity of the number.
LEMMA ParityOfValue ==
  ASSUME NEW r, AreLimbs(r, N)
  PROVE  Value(r) % 2 = r[0] % 2
<1> DEFINE Good == {k \in 0 .. N - 1 : \E z \in Int : Low(r, Weight, N, k + 1) = r[0] + 2 * z}
<1>1. N \in Nat /\ N > 1 /\ N - 1 \in Nat /\ B \in Nat /\ B % 2 = 0
  BY Parameters
<1>2. PICK half \in Int : B = 2 * half
  BY <1>1
<1>3. /\ Low(r, Weight, N, 0) = 0
      /\ \A k \in 0 .. N - 1 : Low(r, Weight, N, k + 1) = r[k] * Weight[k] + Low(r, Weight, N, k)
  BY ByteWeights, LowSums
<1>4. /\ Weight[0] = 1 /\ \A i \in 0 .. N : Weight[i] \in Int
      /\ \A i \in 0 .. N - 1 : Weight[i + 1] = B * Weight[i]
  BY Weights
<1>5. \A i \in 0 .. N - 1 : r[i] \in Int
  BY DEF AreLimbs
<1>6. \A k \in 0 .. N - 1 : k \in Good
  <2>1. 0 \in Good
    <3>1. 0 \in 0 .. N - 1 /\ 0 \in Int
      BY <1>1
    <3>2. Low(r, Weight, N, 0 + 1) = r[0] * Weight[0] + Low(r, Weight, N, 0)
      BY <1>3, <3>1
    <3>3. Low(r, Weight, N, 0 + 1) = r[0] + 2 * 0
      BY <1>3, <1>4, <1>5, <3>1, <3>2
    <3> QED
      BY <3>1, <3>3
  <2>2. ASSUME NEW k \in 0 .. (N - 1) - 1, k \in Good PROVE k + 1 \in Good
    <3>1. k + 1 \in 0 .. N - 1 /\ k \in 0 .. N - 1 /\ k \in 0 .. N
      BY <1>1
    <3>2. PICK z \in Int : Low(r, Weight, N, k + 1) = r[0] + 2 * z
      BY <2>2
    <3>3. PICK x \in Int, y \in Int, w \in Int : x = r[k + 1] /\ y = r[0] /\ w = Weight[k]
      BY <1>1, <1>4, <1>5, <3>1
    <3>4. Low(r, Weight, N, (k + 1) + 1) = x * (B * w) + (y + 2 * z)
      BY <1>3, <1>4, <3>1, <3>2, <3>3
    <3>5. x * (B * w) = 2 * (x * (half * w))
      BY <1>2, <3>3
    <3>6. PICK e \in Int : e = x * (half * w)
      BY <1>2, <3>3
    <3>7. Low(r, Weight, N, (k + 1) + 1) = r[0] + 2 * (e + z)
      BY <3>2, <3>3, <3>4, <3>5, <3>6
    <3>8. e + z \in Int
      BY <3>2, <3>6
    <3> QED
      BY <3>1, <3>7, <3>8
  <2> HIDE DEF Good
  <2> QED
    BY <1>1, <2>1, <2>2, UptoInduction
<1>7. PICK z \in Int : Low(r, Weight, N, (N - 1) + 1) = r[0] + 2 * z
  BY <1>1, <1>6
<1>8. PICK x \in Int : x = r[0]
  BY <1>1, <1>5
<1>9. Value(r) = x + 2 * z
  BY <1>1, <1>7, <1>8, ValueIsLow
<1>10. (x + 2 * z) % 2 = x % 2
  BY <1>7, <1>8
<1> QED
  BY <1>8, <1>9, <1>10

\* Two elements have the same frozen limbs when they are the same residue.
LEMMA SameFrozen ==
  ASSUME NEW x, Carried(x), NEW y, Carried(y)
  PROVE  fe25519_iseq(x, y) <=> Value(x) % p = Value(y) % p
<1> DEFINE f == fe25519_freeze(x)
           g == fe25519_freeze(y)
<1>1. Carried(f) /\ Value(f) = Value(x) % p
  BY FreezeIsResidue
<1>2. Carried(g) /\ Value(g) = Value(y) % p
  BY FreezeIsResidue
<1> HIDE DEF f, g
<1>3. f \in [0 .. N - 1 -> 0 .. B - 1] /\ AreDigits(f, ByteRadix, N)
  BY <1>1, CarriedLimbs
<1>4. g \in [0 .. N - 1 -> 0 .. B - 1] /\ AreDigits(g, ByteRadix, N)
  BY <1>2, CarriedLimbs
<1>5. ASSUME Value(f) = Value(g) PROVE f = g
  <2>1. Low(f, Weight, N, N) = Low(g, Weight, N, N)
    BY <1>5, ValueIsLow
  <2>2. \A i \in 0 .. N - 1 : f[i] = g[i]
    <3>1. AreDigits(f, ByteRadix, N) /\ AreDigits(g, ByteRadix, N)
      BY <1>3, <1>4
    <3> QED
      BY <2>1, <3>1, ByteWeights, DigitsAreUnique
  <2>3. f = [i \in 0 .. N - 1 |-> f[i]] /\ g = [i \in 0 .. N - 1 |-> g[i]]
    BY <1>3, <1>4
  <2>4. [i \in 0 .. N - 1 |-> f[i]] = [i \in 0 .. N - 1 |-> g[i]]
    BY <2>2
  <2> QED
    BY <2>3, <2>4
<1> QED
  BY <1>1, <1>2, <1>5 DEF fe25519_iseq, f, g

\* Unpacked bytes are carried.
LEMMA UnpackIsCarried ==
  ASSUME NEW x \in Start
  PROVE  Carried(fe25519_unpack(x))
<1>1. N \in Nat /\ N > 1 /\ N - 1 \in 0 .. N - 1 /\ B \in Nat /\ Top \in Nat \ {0} /\ Top <= B
  BY Parameters
<1>2. x \in [0 .. N - 1 -> 0 .. B - 1]
  BY Fe25519Assumption DEF Limb
<1>3. PICK y \in Int : y = x[N - 1] % Top /\ 0 <= y /\ y < Top
  BY <1>1, <1>2, Division
<1>4. fe25519_unpack(x) = [x EXCEPT ![N - 1] = y]
  BY <1>3 DEF fe25519_unpack
<1>5. y \in 0 .. B - 1
  BY <1>1, <1>3
<1>6. fe25519_unpack(x) \in [0 .. N - 1 -> 0 .. B - 1]
  BY <1>2, <1>4, <1>5
<1>7. fe25519_unpack(x)[N - 1] = y
  BY <1>1, <1>2, <1>4
<1> QED
  BY <1>3, <1>6, <1>7 DEF Carried, Limb

\* The number wide limbs stand for.
WideValue(f) == Low(f, WideWeight, n, n)

\* The facts about wide limbs that the lemmas below use.
LEMMA WideFacts ==
  /\ n \in Nat /\ n > 2 /\ n \in 0 .. n /\ n - 1 \in 0 .. n - 1 /\ (n - 1) + 1 = n /\ 0 \in 0 .. n - 1
  /\ \A i \in 0 .. n - 1 : Radix[i] \in Nat /\ Radix[i] > 0
  /\ \A i \in 0 .. n : WideWeight[i] \in Nat /\ WideWeight[i] > 0
  /\ WideWeight[0] = 1 /\ WideWeight[n] = M
  /\ \A i \in 0 .. n - 1 : WideWeight[i + 1] = Radix[i] * WideWeight[i]
  /\ C \in Nat /\ 0 < C /\ M \in Nat /\ 4 * C <= M /\ p \in Nat /\ 0 < p /\ p = M - C
<1>1. n \in Nat /\ n > 2 /\ \A i \in 0 .. n - 1 : Radix[i] \in Nat \ {0}
  BY Parameters
<1>2. /\ WideWeight \in [0 .. n -> Nat \ {0}] /\ WideWeight[0] = 1
      /\ \A i \in 0 .. n - 1 : WideWeight[i + 1] = Radix[i] * WideWeight[i]
  BY WideWeights
<1>3. WideWeight[n] = M
  BY WideAssumption
<1>4. \A i \in 0 .. n : WideWeight[i] \in Nat /\ WideWeight[i] > 0
  BY <1>1, <1>2
<1>5. C \in Nat /\ 0 < C /\ M \in Nat /\ 4 * C <= M /\ p \in Nat /\ 0 < p /\ p = M - C
  BY Parameters, Modulus
<1> QED
  BY <1>1, <1>2, <1>3, <1>4, <1>5

\* Wide limbs stand for a number.
LEMMA WideValueIsNumber ==
  ASSUME NEW f, AreLimbs(f, n)
  PROVE  WideValue(f) \in Int
BY WideFacts, WideWeightsAreWeights, LowSums DEF WideValue

\* The wide limbs of a carried element are digits of the same number.
LEMMA LoadKeepsValue ==
  ASSUME NEW x, Carried(x)
  PROVE  AreDigits(Load(x), Radix, n) /\ WideValue(Load(x)) = Value(x)
<1> DEFINE f == Load(x)
<1>1. /\ x \in [0 .. N - 1 -> 0 .. B - 1] /\ B \in Nat \ {0}
      /\ \A i \in 0 .. N - 1 : x[i] \in Int /\ 0 <= x[i] /\ x[i] <= B - 1
      /\ Value(x) \in Int /\ 0 <= Value(x) /\ Value(x) < M
  BY CarriedLimbs, Parameters
<1>2. [i \in 0 .. N - 1 |-> x[i] % B] = x
  <2>1. ASSUME NEW i \in 0 .. N - 1 PROVE x[i] % B = x[i]
    <3>1. PICK y \in Int : y = x[i] /\ 0 <= y /\ y <= B - 1
      BY <1>1
    <3>2. y % B = y
      BY <1>1, <3>1
    <3> QED
      BY <3>1, <3>2
  <2> QED
    BY <1>1, <2>1
<1>3. \A i \in 0 .. n - 1 : f[i] = (Value(x) \div WideWeight[i]) % Radix[i]
  BY <1>2 DEF Load, Wide, Limb
<1> HIDE DEF f
<1>4. AreDigits(f, Radix, n) /\ \A k \in 0 .. n : Low(f, WideWeight, n, k) = Value(x) % WideWeight[k]
  BY <1>1, <1>3, WideWeightsAreWeights, DigitsOfNumber
<1>5. Low(f, WideWeight, n, n) = Value(x) % M
  BY <1>4, WideFacts
<1>6. Value(x) % M = Value(x)
  <2>1. PICK y \in Int, m \in Nat : y = Value(x) /\ m = M /\ 0 <= y /\ y < m
    BY <1>1, WideFacts
  <2>2. y % m = y
    BY <2>1
  <2> QED
    BY <2>1, <2>2
<1> QED
  BY <1>4, <1>5, <1>6 DEF f, WideValue

-----------------------------------------------------------------------------
\* Sums of congruent numbers are congruent.
LEMMA SumCongruent ==
  ASSUME NEW m, NEW f, NEW g, Summable(f, m), Summable(g, m),
         \A i \in 0 .. m - 1 : Congruent(f[i], g[i])
  PROVE  Congruent(SumTo(f, m), SumTo(g, m))
<1> DEFINE Good == {k \in 0 .. m : Congruent(SumTo(f, k), SumTo(g, k))}
<1>1. m \in Nat /\ \A i \in 0 .. m - 1 : f[i] \in Int /\ g[i] \in Int
  BY DEF Summable
<1>2. /\ SumTo(f, 0) = 0
      /\ \A k \in 0 .. m : SumTo(f, k) \in Int
      /\ \A k \in 0 .. m - 1 : SumTo(f, k + 1) = f[k] + SumTo(f, k)
  BY <1>1, PrefixSums
<1>3. /\ SumTo(g, 0) = 0
      /\ \A k \in 0 .. m : SumTo(g, k) \in Int
      /\ \A k \in 0 .. m - 1 : SumTo(g, k + 1) = g[k] + SumTo(g, k)
  BY <1>1, PrefixSums
<1>4. \A k \in 0 .. m : k \in Good
  <2>1. 0 \in Good
    <3>1. Congruent(SumTo(f, 0), SumTo(f, 0))
      <4>1. PICK z \in Int : z = 0
        OBVIOUS
      <4>2. z = z + z * p
        BY <4>1, Modulus
      <4> QED
        BY <1>2, <4>1, <4>2 DEF Congruent
    <3> QED
      BY <1>1, <1>2, <1>3, <3>1
  <2>2. ASSUME NEW k \in 0 .. m - 1, k \in Good PROVE k + 1 \in Good
    <3>1. k + 1 \in 0 .. m /\ k \in 0 .. m
      BY <1>1
    <3>2. Congruent(SumTo(f, k), SumTo(g, k)) /\ Congruent(f[k], g[k])
      BY <2>2
    <3>3. SumTo(f, k) \in Int /\ SumTo(g, k) \in Int /\ f[k] \in Int /\ g[k] \in Int
      BY <1>1, <1>2, <1>3, <3>1
    <3>4. Congruent(f[k] + SumTo(f, k), g[k] + SumTo(g, k))
      BY <3>2, <3>3, CongruentCombines
    <3> QED
      BY <1>2, <1>3, <3>1, <3>4
  <2> HIDE DEF Good
  <2> QED
    BY <1>1, <2>1, <2>2, UptoInduction
<1>5. m \in 0 .. m
  BY <1>1
<1> QED
  BY <1>4, <1>5

\* A position past the last limb continues at the first one.
LEMMA Wraps ==
  ASSUME NEW x \in 0 .. 2 * n - 1
  PROVE  x % n = (IF x < n THEN x ELSE x - n) /\ x % n \in 0 .. n - 1
<1>1. n \in Nat \ {0}
  BY WideFacts
<1>2. CASE x < n
  <2>1. PICK z \in Int : z = 0
    OBVIOUS
  <2>2. x \in Int /\ 0 <= x /\ x = n * z + x
    BY <1>1, <2>1
  <2>3. x % n = x
    BY <1>1, <1>2, <2>1, <2>2, DivisionIsUnique
  <2> QED
    BY <1>1, <1>2, <2>3
<1>3. CASE x >= n
  <2>1. PICK z \in Int, y \in Int : z = 1 /\ y = x - n
    BY <1>1
  <2>2. x \in Int /\ 0 <= y /\ y < n /\ x = n * z + y
    BY <1>1, <1>3, <2>1
  <2>3. x % n = y
    BY <1>1, <2>1, <2>2, DivisionIsUnique
  <2> QED
    BY <1>1, <1>3, <2>1, <2>2, <2>3
<1> QED
  BY <1>1, <1>2, <1>3

\* The limb whose product with limb i is counted in limb k.
Partner(k, i) == (k + n - i) % n

\* Each limb of a product takes one limb of the second factor for each limb of
\* the first, and every pair of limbs goes to one limb.
LEMMA Partners ==
  ASSUME NEW i \in 0 .. n - 1
  PROVE  /\ \A k \in 0 .. n - 1 : Partner(k, i) \in 0 .. n - 1 /\ (i + Partner(k, i)) % n = k
                                  /\ Partner(k, Partner(k, i)) = i
         /\ \A j \in 0 .. n - 1 : (i + j) % n \in 0 .. n - 1 /\ Partner((i + j) % n, i) = j
<1>1. n \in Nat /\ n > 2
  BY WideFacts
<1>2. ASSUME NEW k \in 0 .. n - 1
      PROVE  Partner(k, i) = (IF k < i THEN k + n - i ELSE k - i) /\ Partner(k, i) \in 0 .. n - 1
  <2>1. PICK x \in 0 .. 2 * n - 1 : x = k + n - i
    BY <1>1
  <2>2. x % n = (IF x < n THEN x ELSE x - n) /\ x % n \in 0 .. n - 1
    BY Wraps
  <2>3. Partner(k, i) = x % n
    BY <2>1 DEF Partner
  <2> QED
    BY <1>1, <2>1, <2>2, <2>3
<1>3. ASSUME NEW j \in 0 .. n - 1
      PROVE  (i + j) % n = (IF i + j < n THEN i + j ELSE i + j - n) /\ (i + j) % n \in 0 .. n - 1
  <2>1. PICK x \in 0 .. 2 * n - 1 : x = i + j
    BY <1>1
  <2>2. x % n = (IF x < n THEN x ELSE x - n) /\ x % n \in 0 .. n - 1
    BY Wraps
  <2>3. (i + j) % n = x % n
    BY <2>1
  <2>4. (IF x < n THEN x ELSE x - n) = (IF i + j < n THEN i + j ELSE i + j - n)
    BY <1>1, <2>1
  <2> QED
    BY <2>2, <2>3, <2>4
<1>4. ASSUME NEW k \in 0 .. n - 1 PROVE (i + Partner(k, i)) % n = k
  <2>1. PICK j \in 0 .. n - 1 : j = Partner(k, i) /\ j = IF k < i THEN k + n - i ELSE k - i
    BY <1>2
  <2>2. (i + j) % n = (IF i + j < n THEN i + j ELSE i + j - n)
    BY <1>3
  <2>3. (i + j) % n = k
    BY <1>1, <2>1, <2>2
  <2> QED
    BY <2>1, <2>3
<1>5. ASSUME NEW k \in 0 .. n - 1 PROVE Partner(k, Partner(k, i)) = i
  <2>1. PICK j \in 0 .. n - 1 : j = Partner(k, i) /\ j = IF k < i THEN k + n - i ELSE k - i
    BY <1>2
  <2>2. PICK x \in 0 .. 2 * n - 1 : x = k + n - j
    BY <1>1
  <2>3. x % n = IF x < n THEN x ELSE x - n
    BY Wraps
  <2>4. x % n = i
    BY <1>1, <2>1, <2>2, <2>3
  <2>5. Partner(k, j) = i
    BY <2>2, <2>4 DEF Partner
  <2> QED
    BY <2>1, <2>5
<1>6. ASSUME NEW j \in 0 .. n - 1 PROVE Partner((i + j) % n, i) = j
  <2>1. PICK k \in 0 .. n - 1 : k = (i + j) % n /\ k = IF i + j < n THEN i + j ELSE i + j - n
    BY <1>3
  <2>2. Partner(k, i) = (IF k < i THEN k + n - i ELSE k - i)
    BY <1>2
  <2>3. Partner(k, i) = j
    BY <1>1, <2>1, <2>2
  <2> QED
    BY <2>1, <2>3
<1> QED
  BY <1>2, <1>3, <1>4, <1>5, <1>6

\* What a product of two limbs counts is worth the product of their weights.
LEMMA Factors ==
  ASSUME NEW i \in 0 .. n - 1, NEW j \in 0 .. n - 1
  PROVE  /\ Factor(i, j) \in Nat
         /\ Factor(i, j) = Factor(j, i)
         /\ (i + j) % n \in 0 .. n - 1
         /\ Congruent(Factor(i, j) * WideWeight[(i + j) % n], WideWeight[i] * WideWeight[j])
<1>1. /\ n \in Nat /\ n > 2 /\ C \in Nat /\ M \in Nat /\ M > 0 /\ p \in Int /\ p = M - C
      /\ \A k \in 0 .. n : WideWeight[k] \in Nat /\ WideWeight[k] > 0
  BY WideFacts
<1>2. PICK u \in Nat, v \in Nat : u = WideWeight[i] /\ v = WideWeight[j]
  BY <1>1
<1>3. PICK x \in Nat : x = u * v
  OBVIOUS
<1>4. i + j \in 0 .. 2 * n - 1 /\ i + j = j + i
  BY <1>1
<1>5. PICK k \in 0 .. n - 1 : k = (i + j) % n /\ k = IF i + j < n THEN i + j ELSE i + j - n
  <2>1. PICK y \in 0 .. 2 * n - 1 : y = i + j
    BY <1>4
  <2>2. y % n = (IF y < n THEN y ELSE y - n) /\ y % n \in 0 .. n - 1
    BY Wraps
  <2>3. (i + j) % n = y % n
    BY <2>1
  <2>4. (IF y < n THEN y ELSE y - n) = (IF i + j < n THEN i + j ELSE i + j - n)
    BY <1>1, <2>1
  <2> QED
    BY <2>2, <2>3, <2>4
<1>6. PICK w \in Nat : w = WideWeight[k] /\ w > 0
  BY <1>1
<1>7. Factor(i, j) = Factor(j, i)
  <2>1. WideWeight[i] * WideWeight[j] = WideWeight[j] * WideWeight[i]
    BY <1>2
  <2>2. CASE i + j < n
    <3>1. Factor(i, j) = (WideWeight[i] * WideWeight[j]) \div WideWeight[i + j]
      BY <2>2 DEF Factor
    <3>2. Factor(j, i) = (WideWeight[j] * WideWeight[i]) \div WideWeight[j + i]
      BY <1>4, <2>2 DEF Factor
    <3> QED
      BY <1>4, <2>1, <3>1, <3>2
  <2>3. CASE ~(i + j < n)
    <3>1. Factor(i, j) = C * ((WideWeight[i] * WideWeight[j]) \div (M * WideWeight[i + j - n]))
      BY <2>3 DEF Factor
    <3>2. Factor(j, i) = C * ((WideWeight[j] * WideWeight[i]) \div (M * WideWeight[j + i - n]))
      BY <1>4, <2>3 DEF Factor
    <3>3. j + i - n = i + j - n
      BY <1>1
    <3> QED
      BY <2>1, <3>1, <3>2, <3>3, Zenon
  <2> QED
    BY <2>2, <2>3
<1>8. CASE i + j < n
  <2>1. x % w = 0
    <3>1. (WideWeight[i] * WideWeight[j])
            % (IF i + j < n THEN WideWeight[i + j] ELSE M * WideWeight[i + j - n]) = 0
      BY WideAssumption DEF Wide
    <3>2. i + j = k
      BY <1>5, <1>8
    <3> QED
      BY <1>2, <1>3, <1>6, <1>8, <3>1, <3>2
  <2>2. PICK y \in Int : y = x \div w /\ x = w * y
    <3>1. x \in Int /\ w \in Nat \ {0} /\ x % w = 0
      BY <1>3, <1>6, <2>1
    <3>2. PICK y \in Int, z \in Int : y = x \div w /\ z = x % w /\ x = w * y + z
      BY <3>1, Division
    <3>3. w * y \in Int
      BY <3>1, <3>2
    <3> QED
      BY <3>1, <3>2, <3>3
  <2>3. Factor(i, j) = y
    <3>1. Factor(i, j) = (WideWeight[i] * WideWeight[j]) \div WideWeight[i + j]
      BY <1>8 DEF Factor
    <3>2. i + j = k
      BY <1>5, <1>8
    <3> QED
      BY <1>2, <1>3, <1>6, <2>2, <3>1, <3>2
  <2>4. y \in Nat
    <3>1. SUFFICES ASSUME y <= -1 PROVE FALSE
      BY <2>2
    <3>2. w * y <= w * (-1)
      BY <1>6, <2>2, <3>1
    <3> QED
      BY <1>3, <1>6, <2>2, <3>2
  <2>5. Congruent(y * w, u * v)
    <3>1. PICK z \in Int : z = 0
      OBVIOUS
    <3>2. y * w = w * y /\ y * w \in Int /\ z * p = 0
      BY <1>1, <1>6, <2>2, <3>1
    <3>3. y * w = u * v + z * p
      BY <1>3, <2>2, <3>2
    <3> QED
      BY <3>1, <3>3 DEF Congruent
  <2> QED
    BY <1>2, <1>5, <1>6, <1>7, <2>3, <2>4, <2>5
<1>9. CASE ~(i + j < n)
  <2>1. PICK mw \in Nat \ {0} : mw = M * w
    BY <1>1, <1>6
  <2>2. x % mw = 0
    <3>1. (WideWeight[i] * WideWeight[j])
            % (IF i + j < n THEN WideWeight[i + j] ELSE M * WideWeight[i + j - n]) = 0
      BY WideAssumption DEF Wide
    <3>2. i + j - n = k
      BY <1>5, <1>9
    <3> QED
      BY <1>2, <1>3, <1>6, <1>9, <2>1, <3>1, <3>2
  <2>3. PICK y \in Int : y = x \div mw /\ x = mw * y
    <3>1. x \in Int /\ mw \in Nat \ {0} /\ x % mw = 0
      BY <1>3, <2>1, <2>2
    <3>2. PICK y \in Int, z \in Int : y = x \div mw /\ z = x % mw /\ x = mw * y + z
      BY <3>1, Division
    <3>3. mw * y \in Int
      BY <3>1, <3>2
    <3> QED
      BY <3>1, <3>2, <3>3
  <2>4. Factor(i, j) = C * y
    <3>1. Factor(i, j) = C * ((WideWeight[i] * WideWeight[j]) \div (M * WideWeight[i + j - n]))
      BY <1>9 DEF Factor
    <3>2. i + j - n = k
      BY <1>5, <1>9
    <3> QED
      BY <1>2, <1>3, <1>6, <2>1, <2>3, <3>1, <3>2
  <2>5. y \in Nat
    <3>1. SUFFICES ASSUME y <= -1 PROVE FALSE
      BY <2>3
    <3>2. mw * y <= mw * (-1)
      BY <2>1, <2>3, <3>1
    <3> QED
      BY <1>3, <2>1, <2>3, <3>2
  <2>6. C * y \in Nat
    BY <1>1, <2>5
  <2>7. Congruent((C * y) * w, u * v)
    <3>1. PICK e \in Int : e = y * w
      BY <1>6, <2>5
    <3>2. (C * y) * w = C * e
      BY <1>1, <1>6, <2>5, <3>1
    <3>3. mw * y = M * e
      <4>1. (M * w) * y = M * (y * w)
        BY <1>1, <1>6, <2>5
      <4> QED
        BY <2>1, <3>1, <4>1
    <3>4. C * e = M * e + (-e) * p
      <4>1. (-e) * (M - C) = C * e - M * e /\ C * e \in Int /\ M * e \in Int
        BY <1>1, <3>1
      <4> QED
        BY <1>1, <4>1
    <3>5. (C * y) * w = u * v + (-e) * p
      BY <1>3, <2>3, <3>2, <3>3, <3>4
    <3>6. -e \in Int
      BY <3>1
    <3> QED
      BY <3>5, <3>6 DEF Congruent
  <2> QED
    BY <1>2, <1>5, <1>6, <1>7, <2>4, <2>6, <2>7
<1> QED
  BY <1>8, <1>9

\* What limb i contributes to limb k of a product.
Part(f, g, k, i) == Factor(i, Partner(k, i)) * f[i] * g[Partner(k, i)]

\* Every limb of a product is the sum of its parts.
LEMMA ProductLimbs ==
  ASSUME NEW f, AreLimbs(f, n), NEW g, AreLimbs(g, n)
  PROVE  /\ AreLimbs(Product(f, g), n)
         /\ \A k, i \in 0 .. n - 1 : Part(f, g, k, i) \in Int
         /\ \A k \in 0 .. n - 1 : /\ Summable([i \in 0 .. n - 1 |-> Part(f, g, k, i)], n)
                                  /\ Product(f, g)[k] = SumTo([i \in 0 .. n - 1 |-> Part(f, g, k, i)], n)
<1>1. n \in Nat /\ n \in 0 .. n
  BY WideFacts
<1>2. ASSUME NEW k \in 0 .. n - 1, NEW i \in 0 .. n - 1 PROVE Part(f, g, k, i) \in Int
  <2>1. Partner(k, i) \in 0 .. n - 1
    BY Partners
  <2>2. Factor(i, Partner(k, i)) \in Int /\ f[i] \in Int /\ g[Partner(k, i)] \in Int
    <3>1. PICK j \in 0 .. n - 1 : j = Partner(k, i)
      BY <2>1
    <3>2. Factor(i, j) \in Nat
      BY Factors
    <3> QED
      BY <3>1, <3>2 DEF AreLimbs
  <2> QED
    BY <2>2 DEF Part
<1>3. ASSUME NEW k \in 0 .. n - 1
      PROVE  /\ Summable([i \in 0 .. n - 1 |-> Part(f, g, k, i)], n)
             /\ Product(f, g)[k] = SumTo([i \in 0 .. n - 1 |-> Part(f, g, k, i)], n)
             /\ Product(f, g)[k] \in Int
  <2> DEFINE t == [i \in 0 .. n - 1 |-> Part(f, g, k, i)]
  <2>1. Summable(t, n)
    BY <1>1, <1>2 DEF Summable
  <2>2. Product(f, g)[k] = SumFunction(t)
    BY DEF Product, Part, Partner, Wide
  <2>3. DOMAIN t = 0 .. n - 1 /\ \A i \in 0 .. n - 1 : t[i] \in Int
    BY <1>2
  <2> HIDE DEF t
  <2>4. SumFunction(t) = SumTo(t, n)
    BY <1>1, <2>3, SumOfFunction
  <2>5. SumTo(t, n) \in Int
    BY <1>1, <2>3, PrefixSums
  <2> QED
    BY <2>1, <2>2, <2>4, <2>5 DEF t
<1>4. AreLimbs(Product(f, g), n)
  BY <1>3 DEF AreLimbs
<1> QED
  BY <1>2, <1>3, <1>4

\* One limb of the first factor contributes that limb's share of the product.
LEMMA RowIsCongruent ==
  ASSUME NEW f, AreLimbs(f, n), NEW g, AreLimbs(g, n), NEW i \in 0 .. n - 1, NEW row,
         \A k \in 0 .. n - 1 : row[k] = Part(f, g, k, i) * WideWeight[k]
  PROVE  /\ Summable(row, n)
         /\ Congruent(SumTo(row, n), WideValue(g) * (f[i] * WideWeight[i]))
<1> DEFINE order == [j \in 0 .. n - 1 |-> (i + j) % n]
           moved == [j \in 0 .. n - 1 |-> row[order[j]]]
           share == [j \in 0 .. n - 1 |-> g[j] * WideWeight[j]]
           scaled == [j \in 0 .. n - 1 |-> (f[i] * WideWeight[i]) * share[j]]
<1>1. n \in Nat /\ n > 2 /\ n \in 0 .. n /\ \A k \in 0 .. n : WideWeight[k] \in Nat
  BY WideFacts
<1>2. PICK x \in Int, w \in Int : x = f[i] /\ w = WideWeight[i]
  BY <1>1 DEF AreLimbs
<1>3. Summable(row, n)
  <2>0. \A k \in 0 .. n - 1 : Part(f, g, k, i) \in Int
    BY ProductLimbs
  <2>1. \A k \in 0 .. n - 1 : Part(f, g, k, i) \in Int /\ WideWeight[k] \in Int
    BY <1>1, <2>0
  <2>2. \A k \in 0 .. n - 1 : row[k] \in Int
    BY <2>1
  <2> QED
    BY <1>1, <2>2 DEF Summable
<1>4. Reorders(order, n, row, moved)
  <2>1. \A j \in 0 .. n - 1 : (i + j) % n \in 0 .. n - 1 /\ Partner((i + j) % n, i) = j
    BY Partners
  <2>2. \A k \in 0 .. n - 1 : Partner(k, i) \in 0 .. n - 1 /\ (i + Partner(k, i)) % n = k
    BY Partners
  <2>3. order \in [0 .. n - 1 -> 0 .. n - 1]
    BY <2>1
  <2>4. ASSUME NEW j \in 0 .. n - 1, NEW k \in 0 .. n - 1, order[j] = order[k] PROVE j = k
    <3>1. Partner(order[j], i) = j /\ Partner(order[k], i) = k
      BY <2>1
    <3> QED
      BY <2>4, <3>1
  <2>5. ASSUME NEW k \in 0 .. n - 1 PROVE \E j \in 0 .. n - 1 : order[j] = k
    BY <2>2
  <2>6. \A j \in 0 .. n - 1 : moved[j] = row[order[j]]
    OBVIOUS
  <2> HIDE DEF order, moved
  <2> QED
    BY <2>3, <2>4, <2>5, <2>6 DEF Reorders
<1>5. ASSUME NEW j \in 0 .. n - 1
      PROVE  /\ moved[j] \in Int /\ scaled[j] \in Int /\ share[j] \in Int
             /\ scaled[j] = (f[i] * WideWeight[i]) * share[j]
             /\ Congruent(moved[j], scaled[j])
  <2>1. PICK k \in 0 .. n - 1 : k = (i + j) % n /\ Partner(k, i) = j
    BY Partners
  <2>2. PICK y \in Int, v \in Int, u \in Int, z \in Int :
          y = g[j] /\ v = WideWeight[j] /\ u = WideWeight[k] /\ z = Factor(i, j)
    <3>1. g[j] \in Int
      BY DEF AreLimbs
    <3>2. WideWeight[j] \in Int /\ WideWeight[k] \in Int
      BY <1>1
    <3>3. Factor(i, j) \in Int
      BY Factors
    <3> QED
      BY <3>1, <3>2, <3>3
  <2>3. Part(f, g, k, i) = (z * x) * y
    BY <1>2, <2>1, <2>2 DEF Part
  <2>4. moved[j] = ((z * x) * y) * u
    BY <2>1, <2>2, <2>3
  <2>5. scaled[j] = (x * w) * (y * v) /\ share[j] = y * v
    BY <1>2, <2>2
  <2>6. Congruent(z * u, w * v)
    BY <1>2, <2>1, <2>2, Factors
  <2>7. Congruent((z * u) * (x * y), (w * v) * (x * y))
    <3>1. PICK e \in Int : e = x * y
      BY <1>2, <2>2
    <3>2. Congruent(e, e)
      <4>1. PICK zero \in Int : zero = 0
        OBVIOUS
      <4>2. e = e + zero * p
        BY <3>1, <4>1, Modulus
      <4> QED
        BY <4>1, <4>2 DEF Congruent
    <3>3. z * u \in Int /\ w * v \in Int
      BY <1>2, <2>2
    <3>4. Congruent((z * u) * e, (w * v) * e)
      BY <2>6, <3>1, <3>2, <3>3, CongruentCombines
    <3> QED
      BY <3>1, <3>4
  <2>8. (z * u) * (x * y) = ((z * x) * y) * u /\ (w * v) * (x * y) = (x * w) * (y * v)
    BY <1>2, <2>2
  <2>9. ((z * x) * y) * u \in Int /\ (x * w) * (y * v) \in Int /\ y * v \in Int
    BY <1>2, <2>2
  <2>10. Congruent(moved[j], scaled[j])
    BY <2>4, <2>5, <2>7, <2>8
  <2>11. scaled[j] = (f[i] * WideWeight[i]) * share[j]
    OBVIOUS
  <2> HIDE DEF moved, scaled, share
  <2> QED
    BY <2>4, <2>5, <2>9, <2>10, <2>11
<1>6. Low(g, WideWeight, n, n) = SumTo(share, n)
  BY DEF Low
<1> HIDE DEF order, moved, share, scaled
<1>7. Summable(moved, n) /\ Summable(scaled, n) /\ Summable(share, n)
  BY <1>1, <1>5 DEF Summable
<1>8. SumTo(moved, n) = SumTo(row, n)
  BY <1>3, <1>4, SumReordered
<1>9. Congruent(SumTo(moved, n), SumTo(scaled, n))
  BY <1>5, <1>7, SumCongruent
<1>10. SumTo(scaled, n) = (f[i] * WideWeight[i]) * SumTo(share, n)
  <2>1. PICK c \in Int : c = f[i] * WideWeight[i]
    BY <1>2
  <2>2. IsScaled(scaled, c, share, n)
    BY <1>5, <1>7, <2>1 DEF IsScaled
  <2>3. SumTo(scaled, n) = c * SumTo(share, n)
    BY <1>1, <2>2, SumScale
  <2> QED
    BY <2>1, <2>3
<1>11. SumTo(scaled, n) = WideValue(g) * (f[i] * WideWeight[i])
  <2>1. WideValue(g) \in Int /\ f[i] * WideWeight[i] \in Int
    BY <1>2, WideValueIsNumber
  <2>2. PICK c \in Int, d \in Int : c = WideValue(g) /\ d = f[i] * WideWeight[i]
    BY <2>1
  <2>3. SumTo(scaled, n) = d * c
    BY <1>6, <1>10, <2>2 DEF WideValue
  <2>4. d * c = c * d
    BY <2>2
  <2> QED
    BY <2>2, <2>3, <2>4
<1> QED
  BY <1>3, <1>8, <1>9, <1>11

\* The limbs of a product are the product of the numbers, modulo p.
LEMMA ProductIsCongruent ==
  ASSUME NEW f, AreLimbs(f, n), NEW g, AreLimbs(g, n)
  PROVE  Congruent(WideValue(Product(f, g)), WideValue(f) * WideValue(g))
<1> DEFINE t == [z \in (0 .. n - 1) \X (0 .. n - 1) |-> Part(f, g, z[2], z[1]) * WideWeight[z[2]]]
           Row(i) == [k \in 0 .. n - 1 |-> t[<<i, k>>]]
           Column(k) == [i \in 0 .. n - 1 |-> t[<<i, k>>]]
           rows == [i \in 0 .. n - 1 |-> SumTo(Row(i), n)]
           columns == [k \in 0 .. n - 1 |-> SumTo(Column(k), n)]
           values == [k \in 0 .. n - 1 |-> Product(f, g)[k] * WideWeight[k]]
           share == [i \in 0 .. n - 1 |-> f[i] * WideWeight[i]]
           scaled == [i \in 0 .. n - 1 |-> WideValue(g) * share[i]]
<1>1. n \in Nat /\ n > 2 /\ n \in 0 .. n /\ \A k \in 0 .. n : WideWeight[k] \in Int
  BY WideFacts
<1>2. WideValue(f) \in Int /\ WideValue(g) \in Int
  BY WideValueIsNumber
<1>3. \A k, i \in 0 .. n - 1 : Part(f, g, k, i) \in Int
  BY ProductLimbs
<1>4. ASSUME NEW i \in 0 .. n - 1, NEW k \in 0 .. n - 1
      PROVE  t[<<i, k>>] \in Int /\ t[<<i, k>>] = Part(f, g, k, i) * WideWeight[k]
  <2>1. t[<<i, k>>] = Part(f, g, k, i) * WideWeight[k]
    OBVIOUS
  <2>2. Part(f, g, k, i) \in Int /\ WideWeight[k] \in Int
    BY <1>1, <1>3
  <2> HIDE DEF t
  <2> QED
    BY <2>1, <2>2
<1> HIDE DEF t
<1>5. Summable(rows, n) /\ Summable(columns, n) /\ SumTo(rows, n) = SumTo(columns, n)
  BY <1>1, <1>4, SumExchanged
<1>6. ASSUME NEW k \in 0 .. n - 1 PROVE columns[k] = values[k]
  <2> DEFINE parts == [i \in 0 .. n - 1 |-> Part(f, g, k, i)]
             column == Column(k)
  <2>1. Summable(parts, n) /\ Product(f, g)[k] = SumTo(parts, n)
    BY ProductLimbs
  <2>2. PICK w \in Int : w = WideWeight[k]
    BY <1>1
  <2>3. ASSUME NEW i \in 0 .. n - 1 PROVE column[i] = w * parts[i]
    <3>1. PICK x \in Int : x = Part(f, g, k, i)
      BY <1>3
    <3>2. column[i] = x * w /\ parts[i] = x
      BY <1>4, <2>2, <3>1
    <3> HIDE DEF column, parts
    <3> QED
      BY <2>2, <3>1, <3>2
  <2>4. columns[k] = SumTo(column, n) /\ values[k] = Product(f, g)[k] * WideWeight[k]
    OBVIOUS
  <2> HIDE DEF column, parts, columns, values
  <2>5. SumTo(column, n) = w * SumTo(parts, n)
    <3>1. IsScaled(column, w, parts, n)
      BY <2>1, <2>2, <2>3 DEF IsScaled
    <3> QED
      BY <1>1, <3>1, SumScale
  <2>6. SumTo(parts, n) \in Int
    BY <1>1, <2>1, PrefixSums DEF Summable
  <2> QED
    BY <2>1, <2>2, <2>4, <2>5, <2>6
<1>7. ASSUME NEW i \in 0 .. n - 1
      PROVE  /\ share[i] \in Int /\ scaled[i] = WideValue(g) * share[i] /\ scaled[i] \in Int
             /\ Congruent(rows[i], scaled[i])
  <2> DEFINE row == Row(i)
  <2>1. \A k \in 0 .. n - 1 : row[k] = Part(f, g, k, i) * WideWeight[k]
    BY <1>4
  <2>2. rows[i] = SumTo(row, n) /\ scaled[i] = WideValue(g) * share[i] /\ share[i] = f[i] * WideWeight[i]
    OBVIOUS
  <2> HIDE DEF row, rows, share, scaled
  <2>3. Congruent(SumTo(row, n), WideValue(g) * (f[i] * WideWeight[i]))
    BY <2>1, RowIsCongruent
  <2>4. f[i] * WideWeight[i] \in Int
    <3>1. f[i] \in Int /\ WideWeight[i] \in Int
      BY <1>1 DEF AreLimbs
    <3> QED
      BY <3>1
  <2>5. share[i] \in Int
    BY <2>2, <2>4
  <2>6. WideValue(g) * share[i] \in Int
    BY <1>2, <2>5
  <2> QED
    BY <2>2, <2>3, <2>5, <2>6
<1>8. WideValue(Product(f, g)) = SumTo(values, n) /\ WideValue(f) = SumTo(share, n)
  BY DEF WideValue, Low
<1> HIDE DEF rows, columns, values, share, scaled
<1>9. SumTo(values, n) = SumTo(columns, n)
  <2>1. \A k \in 0 .. n - 1 : values[k] = columns[k]
    BY <1>6
  <2>2. Summable(columns, n) /\ n \in 0 .. n
    BY <1>1, <1>5
  <2> QED
    BY <2>1, <2>2, SumEqual
<1>10. Summable(scaled, n) /\ Summable(share, n)
  BY <1>1, <1>7 DEF Summable
<1>11. Congruent(SumTo(rows, n), SumTo(scaled, n))
  BY <1>5, <1>7, <1>10, SumCongruent
<1>12. SumTo(scaled, n) = WideValue(g) * SumTo(share, n)
  <2>1. PICK c \in Int : c = WideValue(g)
    BY <1>2
  <2>2. IsScaled(scaled, c, share, n)
    BY <1>7, <1>10, <2>1 DEF IsScaled
  <2>3. SumTo(scaled, n) = c * SumTo(share, n)
    BY <1>1, <2>2, SumScale
  <2> QED
    BY <2>1, <2>3
<1>13. WideValue(g) * WideValue(f) = WideValue(f) * WideValue(g)
  <2>1. PICK c \in Int, d \in Int : c = WideValue(g) /\ d = WideValue(f)
    BY <1>2
  <2> QED
    BY <2>1
<1> QED
  BY <1>5, <1>8, <1>9, <1>11, <1>12, <1>13

\* What limb i contributes to limb k of a square, every pair taken once.
Once(f, k, i) ==
  LET j == (k + n - i) % n
  IN IF i > j THEN 0 ELSE (IF i = j THEN 1 ELSE 2) * Factor(i, j) * f[i] * f[j]

\* Taking every unordered pair once, the unequal ones twice, is the product of
\* an element with itself.
THEOREM SquareIsProduct ==
  ASSUME NEW f, AreLimbs(f, n)
  PROVE  SquareProduct(f) = Product(f, f)
<1>1. n \in Nat /\ n > 2 /\ n \in 0 .. n
  BY WideFacts
<1>2. ASSUME NEW k \in 0 .. n - 1
      PROVE  SquareProduct(f)[k] = Product(f, f)[k]
  <2> DEFINE once == [i \in 0 .. n - 1 |-> Once(f, k, i)]
             order == [i \in 0 .. n - 1 |-> Partner(k, i)]
             swapped == [i \in 0 .. n - 1 |-> once[order[i]]]
             parts == [i \in 0 .. n - 1 |-> Part(f, f, k, i)]
             both == [i \in 0 .. n - 1 |-> once[i] + swapped[i]]
  <2>1. \A i \in 0 .. n - 1 : Partner(k, i) \in 0 .. n - 1 /\ Partner(k, Partner(k, i)) = i
    BY Partners
  <2>2. ASSUME NEW i \in 0 .. n - 1
        PROVE  /\ Once(f, k, i) \in Int /\ Part(f, f, k, i) \in Int /\ Once(f, k, Partner(k, i)) \in Int
               /\ Once(f, k, i) + Once(f, k, Partner(k, i)) = 2 * Part(f, f, k, i)
    <3>1. PICK j \in 0 .. n - 1 : j = Partner(k, i) /\ Partner(k, j) = i
      BY <2>1
    <3>2. PICK x \in Int, y \in Int, z \in Int : x = f[i] /\ y = f[j] /\ z = Factor(i, j) /\ z = Factor(j, i)
      <4>1. f[i] \in Int /\ f[j] \in Int
        BY DEF AreLimbs
      <4>2. Factor(i, j) \in Nat /\ Factor(i, j) = Factor(j, i)
        BY Factors
      <4> QED
        BY <4>1, <4>2
    <3>3. Part(f, f, k, i) = (z * x) * y
      BY <3>1, <3>2 DEF Part
    <3>4. Once(f, k, i) = IF i > j THEN 0 ELSE ((IF i = j THEN 1 ELSE 2) * z * x) * y
      BY <3>1, <3>2 DEF Once, Partner
    <3>5. Once(f, k, j) = IF j > i THEN 0 ELSE ((IF j = i THEN 1 ELSE 2) * z * y) * x
      BY <3>1, <3>2 DEF Once, Partner
    <3>6. PICK e \in Int : e = (z * x) * y
      BY <3>2
    <3>7. (z * y) * x = e /\ ((2 * z) * x) * y = 2 * e /\ ((2 * z) * y) * x = 2 * e
          /\ ((1 * z) * x) * y = e /\ ((1 * z) * y) * x = e
      BY <3>2, <3>6
    <3>8. Once(f, k, i) = (IF i > j THEN 0 ELSE IF i = j THEN e ELSE 2 * e)
      BY <3>4, <3>7
    <3>9. Once(f, k, j) = (IF j > i THEN 0 ELSE IF j = i THEN e ELSE 2 * e)
      BY <3>5, <3>7
    <3>10. Once(f, k, i) \in Int /\ Once(f, k, j) \in Int /\ Once(f, k, i) + Once(f, k, j) = 2 * e
      BY <1>1, <3>6, <3>8, <3>9
    <3> QED
      BY <3>1, <3>3, <3>6, <3>10
  <2>3. ASSUME NEW i \in 0 .. n - 1
        PROVE  /\ once[i] \in Int /\ swapped[i] \in Int /\ parts[i] \in Int /\ both[i] = once[i] + swapped[i]
               /\ once[i] + swapped[i] = 2 * parts[i]
    <3>1. once[i] = Once(f, k, i) /\ parts[i] = Part(f, f, k, i) /\ both[i] = once[i] + swapped[i]
      OBVIOUS
    <3>2. swapped[i] = Once(f, k, Partner(k, i))
      BY <2>1
    <3> HIDE DEF once, swapped, parts, both
    <3> QED
      BY <2>2, <3>1, <3>2
  <2>4. Reorders(order, n, once, swapped)
    <3>1. order \in [0 .. n - 1 -> 0 .. n - 1]
      BY <2>1
    <3>2. ASSUME NEW i \in 0 .. n - 1, NEW j \in 0 .. n - 1, order[i] = order[j] PROVE i = j
      <4>1. Partner(k, order[i]) = i /\ Partner(k, order[j]) = j
        BY <2>1
      <4> QED
        BY <3>2, <4>1
    <3>3. ASSUME NEW j \in 0 .. n - 1 PROVE \E i \in 0 .. n - 1 : order[i] = j
      BY <2>1
    <3>4. \A i \in 0 .. n - 1 : swapped[i] = once[order[i]]
      OBVIOUS
    <3> HIDE DEF order, swapped, once
    <3> QED
      BY <3>1, <3>2, <3>3, <3>4 DEF Reorders
  <2>5. Product(f, f)[k] = SumTo(parts, n)
    BY ProductLimbs
  <2>6. SquareProduct(f)[k] = SumTo(once, n)
    <3>1. SquareProduct(f)[k] = SumFunction(once)
      BY DEF SquareProduct, Once, Wide
    <3>2. DOMAIN once = 0 .. n - 1
      OBVIOUS
    <3> HIDE DEF once
    <3> QED
      BY <1>1, <3>1, <3>2, SumOfFunction
  <2> HIDE DEF once, order, swapped, parts, both
  <2>7. Summable(once, n) /\ Summable(swapped, n) /\ Summable(parts, n)
    BY <1>1, <2>3 DEF Summable
  <2>8. SumTo(swapped, n) = SumTo(once, n)
    BY <2>4, <2>7, SumReordered
  <2>9. PICK c \in Int, d \in Int : c = 1 /\ d = 2
    OBVIOUS
  <2>10. Combines(both, c, once, c, swapped, n) /\ IsScaled(both, d, parts, n)
    BY <2>3, <2>7, <2>9 DEF Combines, IsScaled
  <2>11. SumTo(both, n) = c * SumTo(once, n) + c * SumTo(swapped, n)
    BY <1>1, <2>10, SumLinear
  <2>12. SumTo(both, n) = d * SumTo(parts, n)
    BY <1>1, <2>10, SumScale
  <2>13. SumTo(once, n) \in Int
    BY <1>1, <2>7, PrefixSums DEF Summable
  <2>14. SumTo(parts, n) \in Int
    BY <1>1, <2>7, PrefixSums DEF Summable
  <2>15. PICK x \in Int, y \in Int : x = SumTo(once, n) /\ y = SumTo(parts, n)
    BY <2>13, <2>14
  <2>16. c * x + c * x = d * y
    BY <2>8, <2>11, <2>12, <2>15
  <2>17. x = y
    BY <2>9, <2>15, <2>16
  <2> QED
    BY <2>5, <2>6, <2>15, <2>17
<1>3. SquareProduct(f) = [k \in 0 .. n - 1 |-> SquareProduct(f)[k]]
  BY DEF SquareProduct, Wide
<1>4. Product(f, f) = [k \in 0 .. n - 1 |-> Product(f, f)[k]]
  BY DEF Product, Wide
<1>5. [k \in 0 .. n - 1 |-> SquareProduct(f)[k]] = [k \in 0 .. n - 1 |-> Product(f, f)[k]]
  BY <1>2, Zenon
<1> QED
  BY <1>3, <1>4, <1>5, Zenon

-----------------------------------------------------------------------------
\* The largest digits.
LargestDigits == [i \in 0 .. n - 1 |-> Radix[i] - 1]

\* The product of digits is below the bound that was assumed to be small.
LEMMA ProductIsBounded ==
  ASSUME NEW f, AreDigits(f, Radix, n), NEW g, AreDigits(g, Radix, n)
  PROVE  /\ AreLimbs(f, n) /\ AreLimbs(g, n)
         /\ WideValue(Product(f, g)) \in Int /\ LargestProduct \in Int
         /\ 0 <= WideValue(Product(f, g)) /\ WideValue(Product(f, g)) <= LargestProduct
<1> DEFINE most == LargestDigits
<1>1. /\ n \in Nat /\ n > 2 /\ n \in 0 .. n /\ \A k \in 0 .. n : WideWeight[k] \in Nat
      /\ \A i \in 0 .. n - 1 : Radix[i] \in Nat /\ Radix[i] > 0
  BY WideFacts
<1>2. /\ \A i \in 0 .. n - 1 : f[i] \in Int /\ 0 <= f[i] /\ f[i] < Radix[i]
      /\ \A i \in 0 .. n - 1 : g[i] \in Int /\ 0 <= g[i] /\ g[i] < Radix[i]
  BY DEF AreDigits
<1>3. \A i \in 0 .. n - 1 : most[i] = Radix[i] - 1 /\ most[i] \in Int
  BY <1>1 DEF LargestDigits
<1> HIDE DEF most
<1>4. AreLimbs(f, n) /\ AreLimbs(g, n) /\ AreLimbs(most, n)
  BY <1>2, <1>3 DEF AreLimbs
<1>5. ASSUME NEW k \in 0 .. n - 1, NEW i \in 0 .. n - 1
      PROVE  /\ Part(f, g, k, i) \in Int /\ Part(most, most, k, i) \in Int
             /\ 0 <= Part(f, g, k, i) /\ Part(f, g, k, i) <= Part(most, most, k, i)
  <2>1. PICK j \in 0 .. n - 1 : j = Partner(k, i)
    BY Partners
  <2>2. PICK x \in Nat, y \in Nat, z \in Nat, a1 \in Nat, b1 \in Nat :
          /\ x = f[i] /\ y = g[j] /\ z = Factor(i, j) /\ a1 = most[i] /\ b1 = most[j]
          /\ x <= a1 /\ y <= b1
    <3>1. f[i] \in Nat /\ most[i] \in Nat /\ f[i] <= most[i]
      BY <1>1, <1>2, <1>3
    <3>2. g[j] \in Nat /\ most[j] \in Nat /\ g[j] <= most[j]
      BY <1>1, <1>2, <1>3
    <3>3. Factor(i, j) \in Nat
      BY Factors
    <3> QED
      BY <3>1, <3>2, <3>3
  <2>3. Part(f, g, k, i) = (z * x) * y /\ Part(most, most, k, i) = (z * a1) * b1
    BY <2>1, <2>2 DEF Part
  <2>4. z * x <= z * a1 /\ z * x \in Nat /\ z * a1 \in Nat
    BY <2>2
  <2>5. (z * x) * y <= (z * x) * b1
    BY <2>2, <2>4
  <2>6. (z * x) * b1 <= (z * a1) * b1
    BY <2>2, <2>4
  <2>7. (z * x) * y \in Nat /\ (z * x) * b1 \in Nat /\ (z * a1) * b1 \in Nat
    BY <2>2, <2>4
  <2> QED
    BY <2>3, <2>5, <2>6, <2>7
<1>6. ASSUME NEW k \in 0 .. n - 1
      PROVE  /\ Product(f, g)[k] \in Int /\ Product(most, most)[k] \in Int
             /\ 0 <= Product(f, g)[k] /\ Product(f, g)[k] <= Product(most, most)[k]
  <2> DEFINE parts == [i \in 0 .. n - 1 |-> Part(f, g, k, i)]
             above == [i \in 0 .. n - 1 |-> Part(most, most, k, i)]
             below == [i \in 0 .. n - 1 |-> 0]
  <2>1. Product(f, g)[k] = SumTo(parts, n) /\ Summable(parts, n)
    BY <1>4, ProductLimbs
  <2>2. Product(most, most)[k] = SumTo(above, n) /\ Summable(above, n)
    BY <1>4, ProductLimbs
  <2>3. Summable(below, n) /\ \A i \in 0 .. n - 1 : below[i] <= parts[i] /\ parts[i] <= above[i]
    BY <1>1, <1>5 DEF Summable
  <2>4. PICK z \in Int : z = 0
    OBVIOUS
  <2>5. IsScaled(below, z, below, n)
    BY <2>3, <2>4 DEF IsScaled
  <2> HIDE DEF parts, above, below
  <2>6. SumTo(below, n) = z * SumTo(below, n)
    BY <1>1, <2>5, SumScale
  <2>7. SumTo(below, n) \in Int
    BY <1>1, <2>3, PrefixSums DEF Summable
  <2>8. SumTo(below, n) = 0
    BY <2>4, <2>6, <2>7
  <2>9. SumTo(below, n) <= SumTo(parts, n)
    BY <1>1, <2>1, <2>3, SumMonotone
  <2>10. SumTo(parts, n) <= SumTo(above, n)
    BY <1>1, <2>1, <2>2, <2>3, SumMonotone
  <2>11. SumTo(parts, n) \in Int
    BY <1>1, <2>1, PrefixSums DEF Summable
  <2>12. SumTo(above, n) \in Int
    BY <1>1, <2>2, PrefixSums DEF Summable
  <2> QED
    BY <2>1, <2>2, <2>8, <2>9, <2>10, <2>11, <2>12
<1> DEFINE values == [k \in 0 .. n - 1 |-> Product(f, g)[k] * WideWeight[k]]
           bounds == [k \in 0 .. n - 1 |-> Product(most, most)[k] * WideWeight[k]]
           below == [i \in 0 .. n - 1 |-> 0]
<1>7. ASSUME NEW k \in 0 .. n - 1
      PROVE  /\ values[k] \in Int /\ bounds[k] \in Int /\ below[k] \in Int
             /\ below[k] <= values[k] /\ values[k] <= bounds[k] /\ below[k] = 0
  <2>1. PICK x \in Nat, y \in Nat, w \in Nat :
          x = Product(f, g)[k] /\ y = Product(most, most)[k] /\ w = WideWeight[k] /\ x <= y
    BY <1>1, <1>6
  <2>2. x * w <= y * w /\ x * w \in Nat /\ y * w \in Nat
    BY <2>1
  <2>3. values[k] = x * w /\ bounds[k] = y * w /\ below[k] = 0
    BY <2>1
  <2> HIDE DEF values, bounds, below
  <2> QED
    BY <2>2, <2>3
<1>8. WideValue(Product(f, g)) = SumTo(values, n)
  BY DEF WideValue, Low
<1>9. LargestProduct = SumTo(bounds, n)
  <2> DEFINE largest == [k \in 0 .. n - 1 |-> WideWeight[k] * Product(most, most)[k]]
  <2>1. LargestProduct = SumFunction(largest)
    <3>1. ASSUME NEW k \in 0 .. n - 1
          PROVE SumFunction([i \in 0 .. n - 1 |->
                   LET j == (k + n - i) % n IN Factor(i, j) * (Radix[i] - 1) * (Radix[j] - 1)])
                = Product(most, most)[k]
      <4>1. \A i \in 0 .. n - 1 : (k + n - i) % n \in 0 .. n - 1
        <5>1. \A i \in 0 .. n - 1 : Partner(k, i) \in 0 .. n - 1
          BY Partners
        <5> QED
          BY <5>1 DEF Partner
      <4>2. [i \in 0 .. n - 1 |->
                   LET j == (k + n - i) % n IN Factor(i, j) * (Radix[i] - 1) * (Radix[j] - 1)]
            = [i \in 0 .. n - 1 |->
                   LET j == (k + n - i) % n IN Factor(i, j) * most[i] * most[j]]
        BY <1>3, <4>1, Zenon
      <4> QED
        BY <4>2 DEF Product, Wide
    <3> QED
      BY <3>1 DEF LargestProduct, Wide
  <2>2. DOMAIN largest = 0 .. n - 1
    OBVIOUS
  <2>3. \A k \in 0 .. n - 1 : largest[k] = bounds[k]
    <3>1. ASSUME NEW k \in 0 .. n - 1 PROVE largest[k] = bounds[k]
      <4>1. PICK y \in Int, w \in Int : y = Product(most, most)[k] /\ w = WideWeight[k]
        BY <1>1, <1>6
      <4>2. largest[k] = w * y /\ bounds[k] = y * w
        BY <4>1
      <4> HIDE DEF largest, bounds
      <4> QED
        BY <4>1, <4>2
    <3> QED
      BY <3>1
  <2> HIDE DEF largest, bounds
  <2>4. SumFunction(largest) = SumTo(largest, n)
    BY <1>1, <2>2, SumOfFunction
  <2>5. Summable(bounds, n)
    BY <1>1, <1>7 DEF Summable
  <2>6. SumTo(largest, n) = SumTo(bounds, n)
    BY <1>1, <2>3, <2>5, SumEqual
  <2> QED
    BY <2>1, <2>4, <2>6
<1> HIDE DEF values, bounds, below
<1>10. Summable(values, n) /\ Summable(bounds, n) /\ Summable(below, n)
  BY <1>1, <1>7 DEF Summable
<1>11. SumTo(below, n) = 0
  <2>1. PICK z \in Int : z = 0
    OBVIOUS
  <2>2. IsScaled(below, z, below, n)
    BY <1>7, <1>10, <2>1 DEF IsScaled
  <2>3. SumTo(below, n) = z * SumTo(below, n)
    BY <1>1, <2>2, SumScale
  <2>4. SumTo(below, n) \in Int
    BY <1>1, <1>10, PrefixSums DEF Summable
  <2> QED
    BY <2>1, <2>3, <2>4
<1>12. SumTo(below, n) <= SumTo(values, n)
  BY <1>1, <1>7, <1>10, SumMonotone
<1>13. SumTo(values, n) <= SumTo(bounds, n)
  BY <1>1, <1>7, <1>10, SumMonotone
<1>14. SumTo(values, n) \in Int
  BY <1>1, <1>10, PrefixSums DEF Summable
<1>15. SumTo(bounds, n) \in Int
  BY <1>1, <1>10, PrefixSums DEF Summable
<1> QED
  BY <1>4, <1>8, <1>9, <1>11, <1>12, <1>13, <1>14, <1>15

\* Rounding a limb leaves a signed digit there and keeps the number, except
\* that what leaves the last limb comes back C times: a multiple of p.
LEMMA RoundingStep ==
  ASSUME NEW h, AreLimbs(h, n), NEW i \in 0 .. n - 1
  PROVE  \E c \in Int :
           LET g == RoundCarry(h, i) IN
           /\ g \in [0 .. n - 1 -> Int]
           /\ g[i] = h[i] - c * Radix[i]
           /\ 1 - Radix[i] <= g[i] /\ g[i] <= Radix[i] - 1
           /\ \A k \in 0 .. n - 1 : k # i /\ k # (i + 1) % n => g[k] = h[k]
           /\ i < n - 1 => WideValue(g) = WideValue(h)
           /\ i = n - 1 => WideValue(g) = WideValue(h) - c * p
<1> DEFINE g == RoundCarry(h, i)
<1>1. /\ n \in Nat /\ n > 2 /\ n \in 0 .. n /\ n - 1 \in 0 .. n - 1 /\ (n - 1) + 1 = n /\ 0 \in 0 .. n - 1
      /\ WideWeight[0] = 1 /\ WideWeight[n] = M /\ M \in Nat /\ p \in Nat /\ p = M - C /\ C \in Nat
      /\ \A k \in 0 .. n : WideWeight[k] \in Nat
      /\ \A k \in 0 .. n - 1 : WideWeight[k + 1] = Radix[k] * WideWeight[k]
  BY WideFacts
<1>2. PICK r \in Nat \ {0} : r = Radix[i] /\ r > 0
  BY WideFacts
<1>3. PICK x \in Int : x = h[i]
  BY DEF AreLimbs
<1>4. PICK half \in Int : half = r \div 2 /\ 0 <= half /\ half <= r - 1
  BY <1>2
<1>5. PICK c \in Int, s \in Int : c = (x + half) \div r /\ 0 <= s /\ s < r /\ x + half = r * c + s
  <2>1. x + half \in Int
    BY <1>3, <1>4
  <2> QED
    BY <1>2, <2>1, Division
<1>6. PICK d \in Int : d = c * r
  BY <1>2, <1>5
<1>7. PICK e \in Int : e = IF i = n - 1 THEN C * c ELSE c
  BY <1>1, <1>5
<1>8. PICK j \in 0 .. n - 1 : j = (i + 1) % n /\ j = IF i = n - 1 THEN 0 ELSE i + 1
  <2>1. PICK y \in 0 .. 2 * n - 1 : y = i + 1
    BY <1>1
  <2>2. y % n = (IF y < n THEN y ELSE y - n) /\ y % n \in 0 .. n - 1
    BY Wraps
  <2>3. (i + 1) % n = y % n
    BY <2>1
  <2>4. (IF y < n THEN y ELSE y - n) = IF i = n - 1 THEN 0 ELSE i + 1
    BY <1>1, <2>1
  <2> QED
    BY <2>2, <2>3, <2>4
<1>9. j # i
  BY <1>1, <1>8
<1>10. ASSUME NEW k \in 0 .. n - 1
       PROVE  g[k] = h[k] - (IF k = i THEN d ELSE 0) + (IF k = j THEN e ELSE 0)
  <2>1. (h[i] + Radix[i] \div 2) \div Radix[i] = c
    BY <1>2, <1>3, <1>4, <1>5
  <2>2. g[k] = h[k] - (IF k = i THEN c * Radix[i] ELSE 0)
                    + (IF k = (i + 1) % n THEN (IF i = n - 1 THEN C * c ELSE c) ELSE 0)
    BY <2>1 DEF RoundCarry, Wide
  <2> HIDE DEF g
  <2> QED
    BY <1>2, <1>6, <1>7, <1>8, <2>2
<1>11. g = [k \in 0 .. n - 1 |-> g[k]]
  BY DEF RoundCarry, Wide
<1> HIDE DEF g
<1> DEFINE mid == [k \in 0 .. n - 1 |-> IF k = i THEN h[k] + (-d) ELSE h[k]]
<1>12. \A k \in 0 .. n - 1 : h[k] \in Int
  BY DEF AreLimbs
<1>13. ASSUME NEW k \in 0 .. n - 1
       PROVE  /\ mid[k] \in Int /\ mid[k] = IF k = i THEN h[k] + (-d) ELSE h[k]
              /\ g[k] = (IF k = j THEN mid[k] + e ELSE mid[k]) /\ g[k] \in Int
  <2>1. h[k] \in Int
    BY <1>12
  <2>2. mid[k] = IF k = i THEN h[k] + (-d) ELSE h[k]
    OBVIOUS
  <2> HIDE DEF mid
  <2>3. CASE k = i
    BY <1>6, <1>7, <1>9, <1>10, <2>1, <2>2, <2>3
  <2>4. CASE k # i
    BY <1>6, <1>7, <1>10, <2>1, <2>2, <2>4
  <2> QED
    BY <2>3, <2>4
<1> HIDE DEF mid
<1>14. AreLimbs(mid, n) /\ AreLimbs(g, n) /\ g \in [0 .. n - 1 -> Int]
  <2>1. \A k \in 0 .. n - 1 : mid[k] \in Int /\ g[k] \in Int
    BY <1>13
  <2>2. g \in [0 .. n - 1 -> Int]
    BY <1>11, <2>1
  <2> QED
    BY <2>1, <2>2 DEF AreLimbs
<1>15. Low(mid, WideWeight, n, n) = Low(h, WideWeight, n, n) + (-d) * WideWeight[i]
  <2>1. PICK dd \in Int : dd = -d
    BY <1>6
  <2>2. \A k \in 0 .. n - 1 : mid[k] = IF k = i THEN h[k] + dd ELSE h[k]
    BY <1>13, <2>1
  <2>3. Low(mid, WideWeight, n, n) = Low(h, WideWeight, n, n) + dd * WideWeight[i]
    BY <1>14, <2>1, <2>2, WideWeightsAreWeights, LowAdds
  <2> QED
    BY <2>1, <2>3
<1>16. Low(g, WideWeight, n, n) = Low(mid, WideWeight, n, n) + e * WideWeight[j]
  <2>1. \A k \in 0 .. n - 1 : g[k] = IF k = j THEN mid[k] + e ELSE mid[k]
    BY <1>13
  <2>2. AreLimbs(mid, n) /\ AreLimbs(g, n) /\ e \in Int
    BY <1>7, <1>14
  <2> QED
    BY <2>1, <2>2, WideWeightsAreWeights, LowAdds
<1>17. PICK v \in Int, u \in Int, w \in Int, w1 \in Int, wj \in Int :
         /\ v = WideValue(h) /\ u = WideValue(g) /\ w = WideWeight[i] /\ w1 = WideWeight[i + 1] /\ w1 = r * w
         /\ wj = WideWeight[j]
  <2>1. WideValue(h) \in Int /\ WideValue(g) \in Int
    BY <1>14, WideValueIsNumber
  <2>2. i \in 0 .. n /\ i + 1 \in 0 .. n /\ j \in 0 .. n
    BY <1>1
  <2>3. WideWeight[i] \in Int /\ WideWeight[i + 1] \in Int /\ WideWeight[j] \in Int
    BY <1>1, <2>2
  <2> QED
    BY <1>1, <1>2, <2>1, <2>3
<1>18. u = v + (-d) * w + e * wj
  BY <1>15, <1>16, <1>17 DEF WideValue
<1>19. (-d) * w = - (c * w1)
  <2>1. (-(c * r)) * w = - (c * (r * w))
    BY <1>2, <1>5, <1>17
  <2> QED
    BY <1>6, <1>17, <2>1
<1>20. c * w1 \in Int
  BY <1>5, <1>17
<1>21. ASSUME i < n - 1 PROVE u = v
  <2>0. i # n - 1
    BY <1>1, <1>21
  <2>1. e = c /\ wj = w1
    BY <1>7, <1>8, <1>17, <2>0
  <2>2. u = v - c * w1 + c * w1
    BY <1>17, <1>18, <1>19, <1>20, <2>1
  <2> QED
    BY <1>17, <1>20, <2>2
<1>22. ASSUME i = n - 1 PROVE u = v - c * p
  <2>1. e = C * c /\ wj = 1 /\ w1 = M
    BY <1>1, <1>7, <1>8, <1>17, <1>22
  <2>2. C * c \in Int /\ c * M \in Int /\ c * p = c * M - C * c
    BY <1>1, <1>5
  <2>3. u = v - c * M + C * c
    BY <1>17, <1>18, <1>19, <2>1, <2>2
  <2> QED
    BY <1>17, <2>2, <2>3
<1>23. g[i] = h[i] - c * Radix[i] /\ 1 - Radix[i] <= g[i] /\ g[i] <= Radix[i] - 1
  <2>1. g[i] = x - d
    BY <1>3, <1>6, <1>9, <1>10
  <2>2. d = r * c
    BY <1>2, <1>5, <1>6
  <2>3. x = d + s - half
    <3>1. x + half = d + s
      BY <1>5, <2>2
    <3>2. x \in Int /\ half \in Int /\ d \in Int /\ s \in Int
      BY <1>3, <1>4, <1>5, <1>6
    <3> QED
      BY <3>1, <3>2
  <2>4. g[i] = s - half
    BY <1>4, <1>5, <1>6, <2>1, <2>3
  <2>5. 1 - r <= s - half /\ s - half <= r - 1
    BY <1>2, <1>4, <1>5
  <2> QED
    BY <1>2, <1>3, <1>6, <2>1, <2>4, <2>5
<1>24. \A k \in 0 .. n - 1 : k # i /\ k # (i + 1) % n => g[k] = h[k]
  <2>1. ASSUME NEW k \in 0 .. n - 1, k # i, k # j PROVE g[k] = h[k]
    BY <1>10, <1>12, <2>1
  <2> QED
    BY <1>8, <2>1
<1> QED
  BY <1>5, <1>14, <1>17, <1>21, <1>22, <1>23, <1>24 DEF g

\* Signed digits stand for a number below the weight of the next digit.
LEMMA SignedDigits ==
  ASSUME NEW m, NEW w, NEW radix, AreWeights(w, radix, m), NEW f, AreLimbs(f, m), NEW l \in 0 .. m,
         \A i \in 0 .. l - 1 : 1 - radix[i] <= f[i] /\ f[i] <= radix[i] - 1
  PROVE  1 - w[l] <= Low(f, w, m, l) /\ Low(f, w, m, l) <= w[l] - 1
<1> DEFINE Good == {k \in 0 .. l : 1 - w[k] <= Low(f, w, m, k) /\ Low(f, w, m, k) <= w[k] - 1}
<1>1. /\ m \in Nat /\ w[0] = 1 /\ \A i \in 0 .. m : w[i] \in Nat \ {0}
      /\ \A i \in 0 .. m - 1 : radix[i] \in Nat \ {0} /\ w[i + 1] = radix[i] * w[i]
  BY DEF AreWeights
<1>2. /\ Low(f, w, m, 0) = 0
      /\ \A k \in 0 .. m : Low(f, w, m, k) \in Int
      /\ \A k \in 0 .. m - 1 : Low(f, w, m, k + 1) = f[k] * w[k] + Low(f, w, m, k)
  BY LowSums
<1>3. \A k \in 0 .. l : k \in Good
  <2>1. 0 \in Good
    BY <1>1, <1>2
  <2>2. ASSUME NEW k \in 0 .. l - 1, k \in Good PROVE k + 1 \in Good
    <3>1. k + 1 \in 0 .. l /\ k \in 0 .. m /\ k \in 0 .. m - 1 /\ k \in 0 .. l - 1
      BY <1>1
    <3>2. PICK x \in Int, v \in Nat, r \in Nat, y \in Int, q \in Int :
            /\ x = f[k] /\ v = w[k] /\ r = radix[k] /\ y = Low(f, w, m, k)
            /\ q = Low(f, w, m, k + 1) /\ q = x * v + y /\ w[k + 1] = r * v
            /\ 1 - r <= x /\ x <= r - 1 /\ 1 - v <= y /\ y <= v - 1
      <4>1. f[k] \in Int /\ w[k] \in Nat /\ radix[k] \in Nat /\ w[k + 1] = radix[k] * w[k]
        BY <1>1, <3>1 DEF AreLimbs
      <4>2. k + 1 \in 0 .. m
        BY <1>1, <3>1
      <4>3. Low(f, w, m, k) \in Int /\ Low(f, w, m, k + 1) \in Int
            /\ Low(f, w, m, k + 1) = f[k] * w[k] + Low(f, w, m, k)
        BY <1>2, <3>1, <4>2
      <4>4. 1 - w[k] <= Low(f, w, m, k) /\ Low(f, w, m, k) <= w[k] - 1
        BY <2>2
      <4>5. 1 - radix[k] <= f[k] /\ f[k] <= radix[k] - 1
        BY <3>1
      <4> QED
        BY <4>1, <4>3, <4>4, <4>5
    <3>3. PICK b1 \in Int : b1 = r * v
      BY <3>2
    <3>4. x * v <= b1 - v
      <4>1. x * v <= (r - 1) * v
        <5>1. x \in Int /\ v \in Nat /\ r \in Nat /\ x <= r - 1
          BY <3>2
        <5>2. PICK r1 \in Int : r1 = r - 1 /\ x <= r1
          BY <5>1
        <5>3. x * v <= r1 * v
          BY <5>1, <5>2
        <5> QED
          BY <5>2, <5>3
      <4>2. (r - 1) * v = r * v - v
        BY <3>2
      <4> QED
        BY <3>3, <4>1, <4>2
    <3>5. v - b1 <= x * v
      <4>1. (1 - r) * v <= x * v
        <5>1. x \in Int /\ v \in Nat /\ r \in Nat /\ 1 - r <= x
          BY <3>2
        <5>2. PICK r1 \in Int : r1 = 1 - r /\ r1 <= x
          BY <5>1
        <5>3. r1 * v <= x * v
          BY <5>1, <5>2
        <5> QED
          BY <5>2, <5>3
      <4>2. (1 - r) * v = v - r * v
        BY <3>2
      <4> QED
        BY <3>3, <4>1, <4>2
    <3>6. PICK e \in Int : e = x * v
      BY <3>2
    <3>7. 1 - b1 <= q /\ q <= b1 - 1
      <4>1. q = e + y /\ e <= b1 - v /\ v - b1 <= e /\ 1 - v <= y /\ y <= v - 1
            /\ v \in Int /\ y \in Int /\ q \in Int
        BY <3>2, <3>4, <3>5, <3>6
      <4> QED
        BY <3>3, <3>6, <4>1
    <3> QED
      BY <3>1, <3>2, <3>3, <3>7
  <2>3. l \in Nat
    BY <1>1
  <2> HIDE DEF Good
  <2> QED
    BY <2>1, <2>2, <2>3, UptoInduction
<1>4. l \in 0 .. l
  BY <1>1
<1> QED
  BY <1>3, <1>4

\* The limbs after each of the carries.
LEMMA CarrySequence ==
  ASSUME NEW h \in [0 .. n - 1 -> Int]
  PROVE  \E after : /\ after \in [0 .. n + 2 -> [0 .. n - 1 -> Int]]
                    /\ after[0] = h
                    /\ \A k \in 0 .. n + 1 : after[k + 1] = RoundCarry(after[k], k % n)
                    /\ RoundCarries(h) = after[n + 2]
<1> DEFINE S == [0 .. n - 1 -> Int]
           step == [z \in (0 .. n + 2) \X S |-> RoundCarry(z[2], (z[1] - 1) % n)]
           Entry(f, k) == IF k = 0 THEN h ELSE RoundCarry(f[k - 1], (k - 1) % n)
           Next1(f) == [k \in 0 .. n + 2 |-> Entry(f, k)]
<1>1. n \in Nat /\ n > 2 /\ n \in Nat \ {0} /\ n + 2 \in Nat /\ h \in S
  BY WideFacts
<1>2. ASSUME NEW k \in 0 .. n + 2 PROVE (k - 1) % n \in 0 .. n - 1
  <2>1. PICK y \in Int : y = (k - 1) % n /\ 0 <= y /\ y < n
    <3>1. k - 1 \in Int
      OBVIOUS
    <3> QED
      BY <1>1, <3>1, Division
  <2> QED
    BY <1>1, <2>1
<1>3. ASSUME NEW g \in S, NEW i \in 0 .. n - 1 PROVE RoundCarry(g, i) \in S
  <2>1. AreLimbs(g, n)
    BY DEF AreLimbs
  <2> QED
    BY <2>1, RoundingStep
<1>4. step \in [(0 .. n + 2) \X S -> S]
  <2>1. ASSUME NEW z \in (0 .. n + 2) \X S PROVE RoundCarry(z[2], (z[1] - 1) % n) \in S
    <3>1. z[1] \in 0 .. n + 2 /\ z[2] \in S
      OBVIOUS
    <3>2. (z[1] - 1) % n \in 0 .. n - 1
      BY <1>2, <3>1
    <3> HIDE DEF S
    <3> QED
      BY <1>3, <3>1, <3>2
  <2> HIDE DEF S
  <2> QED
    BY <2>1
<1>5. PICK f : IsChain(f, n + 2, S, h, step)
  <2> HIDE DEF step, S
  <2> QED
    BY <1>1, <1>4, ChainExists, Zenon
<1>6. f \in [0 .. n + 2 -> S]
  BY <1>5 DEF IsChain
<1>7. ASSUME NEW k \in 0 .. n + 2 PROVE f[k] = Entry(f, k)
  <2>1. f[k] = IF k = 0 THEN h ELSE step[<<k, f[k - 1]>>]
    <3> HIDE DEF step, S
    <3> QED
      BY <1>5 DEF IsChain
  <2>2. CASE k = 0
    BY <2>1, <2>2
  <2>3. CASE k # 0
    <3>1. k - 1 \in 0 .. n + 2 /\ f[k - 1] \in S
      BY <1>1, <1>6, <2>3
    <3> HIDE DEF S
    <3>2. step[<<k, f[k - 1]>>] = RoundCarry(f[k - 1], (k - 1) % n)
      BY <3>1
    <3> HIDE DEF step
    <3> QED
      BY <2>1, <2>3, <3>2
  <2> QED
    BY <2>2, <2>3
<1>8. f = Next1(f)
  <2>1. f = [k \in 0 .. n + 2 |-> f[k]]
    BY <1>6
  <2>2. [k \in 0 .. n + 2 |-> f[k]] = Next1(f)
    <3> HIDE DEF Entry
    <3> QED
      BY <1>7
  <2> QED
    BY <2>1, <2>2
<1> DEFINE after == CHOOSE g : g = Next1(g)
<1>9. after = Next1(after)
  <2> HIDE DEF Next1
  <2> QED
    BY <1>8
<1>10. RoundCarries(h) = after[n + 2]
  BY DEF RoundCarries
<1> HIDE DEF after
<1>11. \A k \in 0 .. n + 2 : after[k] = Entry(after, k)
  <2>1. ASSUME NEW k \in 0 .. n + 2 PROVE Next1(after)[k] = Entry(after, k)
    <3> HIDE DEF Entry
    <3> QED
      OBVIOUS
  <2> HIDE DEF Next1, Entry
  <2> QED
    BY <1>9, <2>1
<1>12. after[0] = h
  BY <1>1, <1>11
<1>13. ASSUME NEW k \in 0 .. n + 1 PROVE after[k + 1] = RoundCarry(after[k], k % n)
  <2>1. k + 1 \in 0 .. n + 2 /\ k + 1 # 0 /\ (k + 1) - 1 = k
    BY <1>1
  <2>2. after[k + 1] = Entry(after, k + 1)
    BY <1>11, <2>1
  <2>3. Entry(after, k + 1) = RoundCarry(after[(k + 1) - 1], ((k + 1) - 1) % n)
    BY <2>1
  <2> QED
    BY <2>1, <2>2, <2>3
<1> DEFINE Good == {k \in 0 .. n + 2 : after[k] \in S}
<1>14. \A k \in 0 .. n + 2 : k \in Good
  <2> HIDE DEF S
  <2>1. 0 \in Good
    BY <1>1, <1>12
  <2>2. ASSUME NEW k \in 0 .. (n + 2) - 1, k \in Good PROVE k + 1 \in Good
    <3>1. k \in 0 .. n + 1 /\ k + 1 \in 0 .. n + 2 /\ (k + 1) - 1 = k
      BY <1>1
    <3>2. k % n \in 0 .. n - 1
      BY <1>2, <3>1
    <3>3. after[k] \in S
      BY <2>2
    <3>4. RoundCarry(after[k], k % n) \in S
      BY <1>3, <3>2, <3>3
    <3> QED
      BY <1>13, <3>1, <3>4
  <2> HIDE DEF Good
  <2> QED
    BY <1>1, <2>1, <2>2, UptoInduction
<1>15. after \in [0 .. n + 2 -> S]
  <2>1. after = [k \in 0 .. n + 2 |-> after[k]]
    <3> HIDE DEF Entry, S
    <3>1. DOMAIN after = 0 .. n + 2
      BY <1>9
    <3> QED
      BY <1>9
  <2> HIDE DEF S
  <2> QED
    BY <1>14, <2>1
<1> QED
  BY <1>10, <1>12, <1>13, <1>15

\* The n + 2 carries change the number by a multiple of p, the one that leaves
\* less than M.
LEMMA CarriesChangeByModulus ==
  ASSUME NEW h \in [0 .. n - 1 -> Int]
  PROVE  /\ AreLimbs(h, n) /\ AreLimbs(RoundCarries(h), n)
         /\ \E c \in Int : /\ WideValue(RoundCarries(h)) = WideValue(h) - c * p
                           /\ 1 - M <= WideValue(h) - c * M /\ WideValue(h) - c * M <= M - 1
<1>1. /\ n \in Nat /\ n > 2 /\ n \in 0 .. n /\ n - 1 \in 0 .. n - 1 /\ (n - 1) + 1 = n /\ 0 \in 0 .. n - 1
      /\ WideWeight[n] = M /\ M \in Nat
      /\ \A k \in 0 .. n : WideWeight[k] \in Nat
      /\ \A k \in 0 .. n - 1 : WideWeight[k + 1] = Radix[k] * WideWeight[k]
  BY WideFacts
<1>2. AreLimbs(h, n)
  BY DEF AreLimbs
<1>3. PICK after : /\ after \in [0 .. n + 2 -> [0 .. n - 1 -> Int]]
                   /\ after[0] = h
                   /\ \A k \in 0 .. n + 1 : after[k + 1] = RoundCarry(after[k], k % n)
                   /\ RoundCarries(h) = after[n + 2]
  BY CarrySequence
<1>4. ASSUME NEW k \in 0 .. n + 2 PROVE AreLimbs(after[k], n) /\ after[k] \in [0 .. n - 1 -> Int]
  <2>1. after[k] \in [0 .. n - 1 -> Int]
    BY <1>3
  <2> QED
    BY <2>1 DEF AreLimbs
<1>5. ASSUME NEW k \in 0 .. n + 1
      PROVE k % n = (IF k < n THEN k ELSE k - n) /\ k % n \in 0 .. n - 1
  <2>1. k \in 0 .. 2 * n - 1
    BY <1>1
  <2> QED
    BY <2>1, Wraps
<1> DEFINE Signed(k) == \A j \in 0 .. k - 1 : 1 - Radix[j] <= after[k][j] /\ after[k][j] <= Radix[j] - 1
           Good == {k \in 0 .. n - 1 : WideValue(after[k]) = WideValue(h) /\ Signed(k)}
<1>6. \A k \in 0 .. n - 1 : k \in Good
  <2>1. 0 \in Good
    BY <1>1, <1>3
  <2>2. ASSUME NEW k \in 0 .. (n - 1) - 1, k \in Good PROVE k + 1 \in Good
    <3>1. /\ k \in 0 .. n - 1 /\ k + 1 \in 0 .. n - 1 /\ k < n - 1 /\ k \in 0 .. n + 1 /\ k + 1 \in 0 .. n + 1
          /\ k \in 0 .. n + 2 /\ k < n /\ k + 1 < n
      BY <1>1
    <3>2. k % n = k /\ (k + 1) % n = k + 1
      BY <1>5, <3>1
    <3> DEFINE x == after[k]
               g == after[k + 1]
    <3>3. g = RoundCarry(x, k)
      BY <1>3, <3>1, <3>2
    <3>4. AreLimbs(x, n)
      BY <1>4, <3>1
    <3>a. WideValue(x) = WideValue(h) /\ Signed(k)
      BY <2>2
    <3>b. \A j \in 0 .. k - 1 : 1 - Radix[j] <= x[j] /\ x[j] <= Radix[j] - 1
      BY <3>a
    <3>c. g = after[k + 1]
      OBVIOUS
    <3> HIDE DEF x, g, Signed
    <3>5. /\ 1 - Radix[k] <= g[k] /\ g[k] <= Radix[k] - 1
          /\ \A j \in 0 .. n - 1 : j # k /\ j # (k + 1) % n => g[j] = x[j]
          /\ WideValue(g) = WideValue(x)
      BY <3>1, <3>3, <3>4, RoundingStep
    <3>6. ASSUME NEW j \in 0 .. (k + 1) - 1 PROVE 1 - Radix[j] <= g[j] /\ g[j] <= Radix[j] - 1
      <4>1. CASE j = k
        BY <3>5, <4>1
      <4>2. CASE j # k
        <5>1. j \in 0 .. k - 1 /\ j \in 0 .. n - 1 /\ j # k + 1
          BY <1>1, <4>2
        <5>2. g[j] = x[j]
          BY <3>2, <3>5, <4>2, <5>1
        <5> QED
          BY <3>b, <5>1, <5>2
      <4> QED
        BY <4>1, <4>2
    <3>7. Signed(k + 1)
      BY <3>6, <3>c DEF Signed
    <3> QED
      BY <3>1, <3>5, <3>7, <3>a, <3>c
  <2>3. n - 1 \in Nat
    BY <1>1
  <2> HIDE DEF Good
  <2> QED
    BY <2>1, <2>2, <2>3, UptoInduction
<1> DEFINE x == after[n - 1]
           g == after[n]
           g1 == after[n + 1]
           g2 == after[n + 2]
<1>7. /\ AreLimbs(x, n) /\ WideValue(x) = WideValue(h)
      /\ \A j \in 0 .. n - 2 : 1 - Radix[j] <= x[j] /\ x[j] <= Radix[j] - 1
  <2>1. n - 1 \in Good /\ n - 1 \in 0 .. n + 2 /\ (n - 1) - 1 = n - 2
    BY <1>1, <1>6
  <2> QED
    BY <1>4, <2>1
<1>8. AreLimbs(g, n) /\ AreLimbs(g1, n) /\ AreLimbs(g2, n)
  <2>1. n \in 0 .. n + 2 /\ n + 1 \in 0 .. n + 2 /\ n + 2 \in 0 .. n + 2
    BY <1>1
  <2> QED
    BY <1>4, <2>1
<1>9. g = RoundCarry(x, n - 1) /\ g1 = RoundCarry(g, 0) /\ g2 = RoundCarry(g1, 1)
  <2>1. n - 1 \in 0 .. n + 1 /\ n \in 0 .. n + 1 /\ n + 1 \in 0 .. n + 1
    BY <1>1
  <2>2. (n - 1) % n = n - 1 /\ n % n = 0 /\ (n + 1) % n = 1
    <3>1. n - 1 < n /\ ~(n < n) /\ n - n = 0 /\ ~(n + 1 < n) /\ (n + 1) - n = 1
      BY <1>1
    <3>2. (n - 1) % n = n - 1
      BY <1>5, <2>1, <3>1
    <3>3. n % n = 0
      BY <1>5, <2>1, <3>1
    <3>4. (n + 1) % n = (n + 1) - n
      BY <1>5, <2>1, <3>1
    <3> QED
      BY <3>1, <3>2, <3>3, <3>4
  <2>3. after[(n - 1) + 1] = RoundCarry(after[n - 1], (n - 1) % n)
    BY <1>3, <2>1
  <2>4. after[n + 1] = RoundCarry(after[n], n % n)
    BY <1>3, <2>1
  <2>5. after[(n + 1) + 1] = RoundCarry(after[n + 1], (n + 1) % n)
    BY <1>3, <2>1
  <2>6. (n - 1) + 1 = n /\ (n + 1) + 1 = n + 2
    BY <1>1
  <2> QED
    BY <2>2, <2>3, <2>4, <2>5, <2>6, Zenon
<1>10. RoundCarries(h) = g2
  BY <1>3
<1> HIDE DEF x, g, g1, g2
<1>11. WideValue(g1) = WideValue(g)
  <2>1. 0 \in 0 .. n - 1 /\ 0 < n - 1
    BY <1>1
  <2> QED
    BY <1>8, <1>9, <2>1, RoundingStep
<1>12. WideValue(g2) = WideValue(g1)
  <2>1. PICK i \in 0 .. n - 1 : i = 1 /\ i < n - 1
    BY <1>1
  <2> QED
    BY <1>8, <1>9, <2>1, RoundingStep
<1>13. PICK i \in 0 .. n - 1 : i = n - 1
  BY <1>1
<1>14. PICK c \in Int :
         /\ g[i] = x[i] - c * Radix[i]
         /\ 1 - Radix[i] <= g[i] /\ g[i] <= Radix[i] - 1
         /\ WideValue(g) = WideValue(x) - c * p
  BY <1>7, <1>9, <1>13, RoundingStep
<1>15. PICK r \in Nat, w \in Nat, z \in Int, v \in Int :
         r = Radix[i] /\ w = WideWeight[i] /\ z = x[i] /\ v = WideValue(h) /\ M = r * w
  <2>1. Radix[i] \in Nat
    BY WideFacts
  <2>2. WideWeight[i] \in Nat /\ M = Radix[i] * WideWeight[i]
    BY <1>1, <1>13
  <2>3. x[i] \in Int
    BY <1>7 DEF AreLimbs
  <2>4. WideValue(h) \in Int
    BY <1>2, WideValueIsNumber
  <2> QED
    BY <2>1, <2>2, <2>3, <2>4
<1>16. PICK d \in Int : d = - (c * r)
  BY <1>14, <1>15
<1> DEFINE mid == [k \in 0 .. n - 1 |-> IF k = i THEN x[k] + d ELSE x[k]]
<1>17. \A k \in 0 .. n - 1 : mid[k] = IF k = i THEN x[k] + d ELSE x[k]
  OBVIOUS
<1> HIDE DEF mid
<1>18. mid[i] = z + d /\ 1 - r <= z + d /\ z + d <= r - 1
  <2>1. PICK e \in Int : e = c * r
    BY <1>14, <1>15
  <2>2. d = -e /\ g[i] = z - e
    BY <1>14, <1>15, <1>16, <2>1
  <2>3. 1 - r <= z - e /\ z - e <= r - 1
    BY <1>14, <1>15, <2>2
  <2>4. z - e = z + d
    BY <1>15, <2>1, <2>2
  <2> QED
    BY <1>15, <1>17, <2>3, <2>4
<1>19. AreLimbs(mid, n)
  <2>1. ASSUME NEW k \in 0 .. n - 1 PROVE mid[k] \in Int
    <3>1. x[k] \in Int
      BY <1>7 DEF AreLimbs
    <3> QED
      BY <1>16, <1>17, <3>1
  <2> QED
    BY <2>1 DEF AreLimbs
<1>20. \A k \in 0 .. n - 1 : 1 - Radix[k] <= mid[k] /\ mid[k] <= Radix[k] - 1
  <2>1. ASSUME NEW k \in 0 .. n - 1 PROVE 1 - Radix[k] <= mid[k] /\ mid[k] <= Radix[k] - 1
    <3>1. CASE k = i
      BY <1>15, <1>18, <3>1
    <3>2. CASE k # i
      <4>1. k \in 0 .. n - 2
        BY <1>1, <1>13, <3>2
      <4>2. mid[k] = x[k]
        BY <1>17, <3>2
      <4> QED
        BY <1>7, <4>1, <4>2
    <3> QED
      BY <3>1, <3>2
  <2> QED
    BY <2>1
<1>21. 1 - M <= WideValue(mid) /\ WideValue(mid) <= M - 1
  <2>1. 1 - WideWeight[n] <= Low(mid, WideWeight, n, n) /\ Low(mid, WideWeight, n, n) <= WideWeight[n] - 1
    BY <1>1, <1>19, <1>20, WideWeightsAreWeights, SignedDigits
  <2> QED
    BY <1>1, <2>1 DEF WideValue
<1>22. WideValue(mid) = v - c * M
  <2>1. Low(mid, WideWeight, n, n) = Low(x, WideWeight, n, n) + d * WideWeight[i]
    BY <1>7, <1>16, <1>17, <1>19, WideWeightsAreWeights, LowAdds
  <2>2. WideValue(mid) = v + d * w
    BY <1>7, <1>15, <2>1 DEF WideValue
  <2>3. d * w = -(c * M)
    <3>0. c \in Int /\ r \in Int /\ w \in Int
      BY <1>14, <1>15
    <3>1. (-(c * r)) * w = -(c * (r * w))
      BY <3>0
    <3> QED
      BY <1>15, <1>16, <3>1
  <2>4. c * M \in Int
    BY <1>1, <1>14
  <2> QED
    BY <1>15, <2>2, <2>3, <2>4
<1>23. WideValue(RoundCarries(h)) = WideValue(h) - c * p
  BY <1>7, <1>10, <1>11, <1>12, <1>14
<1>24. AreLimbs(RoundCarries(h), n)
  BY <1>8, <1>10
<1>25. 1 - M <= WideValue(h) - c * M /\ WideValue(h) - c * M <= M - 1
  BY <1>15, <1>21, <1>22
<1> QED
  BY <1>2, <1>14, <1>23, <1>24, <1>25

\* Limb i of a chain before it is masked.
ChainLimb(f, t, i) == IF i = 0 THEN f[0] ELSE f[i] + (t[i - 1] \div Radix[i - 1])

\* A chain of contract_limbs is such a sequence of limbs, masked.
LEMMA ChainLimbs ==
  ASSUME NEW f, AreLimbs(f, n), NEW wrap
  PROVE  \E t : /\ AreCarried(t, f, Radix, n)
                /\ Chain(f, wrap) = [i \in 0 .. n - 1 |->
                     (t[i] % Radix[i]) + (IF i = 0 THEN wrap * (t[n - 1] \div Radix[n - 1]) ELSE 0)]
<1> DEFINE start == f[0]
           step == [z \in (0 .. n - 1) \X Int |-> IF z[1] = 0 THEN 0 ELSE f[z[1]] + (z[2] \div Radix[z[1] - 1])]
           Next1(t) == [i \in 0 .. n - 1 |-> ChainLimb(f, t, i)]
<1>1. /\ n \in Nat /\ n > 2 /\ n - 1 \in Nat /\ 0 \in 0 .. n - 1
      /\ \A i \in 0 .. n - 1 : Radix[i] \in Nat \ {0}
  BY Parameters
<1>2. \A i \in 0 .. n - 1 : f[i] \in Int
  BY DEF AreLimbs
<1>3. ASSUME NEW i \in 0 .. n - 1, i # 0, NEW x \in Int PROVE f[i] + (x \div Radix[i - 1]) \in Int
  <2>1. i - 1 \in 0 .. n - 1
    BY <1>1, <1>3
  <2>2. x \div Radix[i - 1] \in Int
    BY <1>1, <2>1, Division
  <2> QED
    BY <1>2, <2>2
<1>4. start \in Int /\ step \in [(0 .. n - 1) \X Int -> Int]
  <2>1. start \in Int
    BY <1>1, <1>2
  <2>2. ASSUME NEW z \in (0 .. n - 1) \X Int
        PROVE (IF z[1] = 0 THEN 0 ELSE f[z[1]] + (z[2] \div Radix[z[1] - 1])) \in Int
    <3>1. z[1] \in 0 .. n - 1 /\ z[2] \in Int
      OBVIOUS
    <3> QED
      BY <1>3, <3>1
  <2> QED
    BY <2>1, <2>2
<1>5. PICK g : IsChain(g, n - 1, Int, start, step)
  <2> HIDE DEF start, step
  <2> QED
    BY <1>1, <1>4, ChainExists, Zenon
<1>6. g \in [0 .. n - 1 -> Int]
  BY <1>5 DEF IsChain
<1>7. ASSUME NEW i \in 0 .. n - 1 PROVE g[i] = ChainLimb(f, g, i)
  <2>1. g[i] = IF i = 0 THEN start ELSE step[<<i, g[i - 1]>>]
    <3> HIDE DEF start, step
    <3> QED
      BY <1>5 DEF IsChain
  <2>2. CASE i = 0
    BY <2>1, <2>2 DEF ChainLimb
  <2>3. CASE i # 0
    <3>1. i - 1 \in 0 .. n - 1 /\ g[i - 1] \in Int
      BY <1>1, <1>6, <2>3
    <3>2. step[<<i, g[i - 1]>>] = f[i] + (g[i - 1] \div Radix[i - 1])
      BY <2>3, <3>1
    <3> HIDE DEF step, start
    <3> QED
      BY <2>1, <2>3, <3>2 DEF ChainLimb
  <2> QED
    BY <2>2, <2>3
<1>8. g = Next1(g)
  BY <1>6, <1>7
<1> DEFINE t == CHOOSE e : e = Next1(e)
<1>9. t = Next1(t)
  <2> HIDE DEF Next1
  <2> QED
    BY <1>8
<1>10. Chain(f, wrap) = [i \in 0 .. n - 1 |->
         (t[i] % Radix[i]) + (IF i = 0 THEN wrap * (t[n - 1] \div Radix[n - 1]) ELSE 0)]
  BY DEF Chain, Wide, ChainLimb
<1> HIDE DEF t
<1>11. \A i \in 0 .. n - 1 : t[i] = ChainLimb(f, t, i)
  <2>1. ASSUME NEW i \in 0 .. n - 1 PROVE Next1(t)[i] = ChainLimb(f, t, i)
    OBVIOUS
  <2> HIDE DEF Next1
  <2> QED
    BY <1>9, <2>1
<1> DEFINE Good == {i \in 0 .. n - 1 : t[i] \in Int}
<1>12. \A i \in 0 .. n - 1 : i \in Good
  <2>1. 0 \in Good
    BY <1>1, <1>2, <1>11 DEF ChainLimb
  <2>2. ASSUME NEW i \in 0 .. (n - 1) - 1, i \in Good PROVE i + 1 \in Good
    <3>1. i + 1 \in 0 .. n - 1 /\ (i + 1) - 1 = i /\ i + 1 # 0 /\ i \in 0 .. n - 1
      BY <1>1
    <3>2. t[i] \in Int
      BY <2>2
    <3>3. t[i] \div Radix[i] \in Int
      BY <1>1, <3>1, <3>2, Division
    <3>4. t[i + 1] = f[i + 1] + (t[i] \div Radix[i])
      BY <1>11, <3>1 DEF ChainLimb
    <3>5. t[i + 1] \in Int
      BY <1>2, <3>1, <3>3, <3>4
    <3> QED
      BY <3>1, <3>5
  <2> HIDE DEF Good
  <2> QED
    BY <1>1, <2>1, <2>2, UptoInduction
<1>13. AreCarried(t, f, Radix, n)
  <2>1. n \in Nat \ {0}
    BY <1>1
  <2>2. t[0] = f[0]
    BY <1>1, <1>11 DEF ChainLimb
  <2>3. ASSUME NEW i \in 1 .. n - 1 PROVE t[i] = f[i] + (t[i - 1] \div Radix[i - 1])
    <3>1. i \in 0 .. n - 1 /\ i # 0
      BY <1>1
    <3> QED
      BY <1>11, <3>1 DEF ChainLimb
  <2>4. \A i \in 0 .. n - 1 : t[i] \in Int
    BY <1>12
  <2> QED
    BY <2>1, <2>2, <2>3, <2>4 DEF AreCarried
<1> QED
  BY <1>10, <1>13

\* A chain divides by M and adds the quotient back, wrap times.
LEMMA ChainDivides ==
  ASSUME NEW f, AreLimbs(f, n), NEW wrap \in Int
  PROVE  /\ AreLimbs(Chain(f, wrap), n) /\ Chain(f, wrap) \in [0 .. n - 1 -> Int]
         /\ WideValue(Chain(f, wrap)) = (WideValue(f) % M) + wrap * (WideValue(f) \div M)
<1> DEFINE g == Chain(f, wrap)
<1>1. /\ n \in Nat /\ n > 2 /\ n \in 0 .. n /\ n - 1 \in 0 .. n - 1 /\ 0 \in 0 .. n - 1
      /\ WideWeight[n] = M /\ WideWeight[0] = 1 /\ M \in Nat \ {0}
  BY WideFacts
<1>2. PICK t : /\ AreCarried(t, f, Radix, n)
               /\ g = [i \in 0 .. n - 1 |->
                     (t[i] % Radix[i]) + (IF i = 0 THEN wrap * (t[n - 1] \div Radix[n - 1]) ELSE 0)]
  BY ChainLimbs
<1> HIDE DEF g
<1> DEFINE d == [i \in 0 .. n - 1 |-> t[i] % Radix[i]]
<1>3. \A i \in 0 .. n - 1 : d[i] = t[i] % Radix[i]
  OBVIOUS
<1> HIDE DEF d
<1>4. /\ AreDigits(d, Radix, n) /\ Low(f, WideWeight, n, n) \in Int
      /\ Low(d, WideWeight, n, n) = Low(f, WideWeight, n, n) % WideWeight[n]
      /\ t[n - 1] \div Radix[n - 1] = Low(f, WideWeight, n, n) \div WideWeight[n]
  BY <1>2, <1>3, WideWeightsAreWeights, CarriesDivide
<1>5. PICK q \in Int : q = WideValue(f) \div M /\ q = t[n - 1] \div Radix[n - 1]
  <2>1. WideValue(f) \div M \in Int
    BY <1>1, <1>4, Division DEF WideValue
  <2> QED
    BY <1>1, <1>4, <2>1 DEF WideValue
<1>6. PICK e \in Int : e = wrap * q
  OBVIOUS
<1>7. \A i \in 0 .. n - 1 : d[i] \in Int
  BY <1>4 DEF AreDigits
<1>8. ASSUME NEW i \in 0 .. n - 1 PROVE g[i] = (IF i = 0 THEN d[i] + e ELSE d[i]) /\ g[i] \in Int
  <2>1. g[i] = d[i] + (IF i = 0 THEN e ELSE 0)
    BY <1>2, <1>3, <1>5, <1>6
  <2>2. d[i] \in Int
    BY <1>7
  <2> QED
    BY <1>6, <2>1, <2>2
<1>9. AreLimbs(d, n) /\ AreLimbs(g, n) /\ g \in [0 .. n - 1 -> Int]
  <2>1. g = [i \in 0 .. n - 1 |-> g[i]]
    BY <1>2
  <2>2. g \in [0 .. n - 1 -> Int]
    BY <1>8, <2>1
  <2> QED
    BY <1>7, <1>8, <2>2 DEF AreLimbs
<1>10. Low(g, WideWeight, n, n) = Low(d, WideWeight, n, n) + e * WideWeight[0]
  <2>1. \A i \in 0 .. n - 1 : g[i] = IF i = 0 THEN d[i] + e ELSE d[i]
    BY <1>8
  <2>2. AreLimbs(d, n) /\ AreLimbs(g, n) /\ e \in Int /\ 0 \in 0 .. n - 1
    BY <1>1, <1>6, <1>9
  <2> QED
    BY <2>1, <2>2, WideWeightsAreWeights, LowAdds
<1>11. WideValue(g) = (WideValue(f) % M) + wrap * (WideValue(f) \div M)
  <2>1. Low(d, WideWeight, n, n) = WideValue(f) % M
    BY <1>1, <1>4 DEF WideValue
  <2> QED
    BY <1>1, <1>5, <1>6, <1>10, <2>1 DEF WideValue
<1> QED
  BY <1>9, <1>11 DEF g

\* The largest digits stand for M - 1.
LEMMA LargestValue ==
  AreLimbs(LargestDigits, n) /\ WideValue(LargestDigits) = M - 1
<1> DEFINE f == LargestDigits
           Good == {k \in 0 .. n : Low(f, WideWeight, n, k) = WideWeight[k] - 1}
<1>1. /\ n \in Nat /\ n \in 0 .. n
      /\ WideWeight[n] = M /\ WideWeight[0] = 1
      /\ \A k \in 0 .. n : WideWeight[k] \in Nat
      /\ \A k \in 0 .. n - 1 : WideWeight[k + 1] = Radix[k] * WideWeight[k]
      /\ \A k \in 0 .. n - 1 : Radix[k] \in Nat
  BY WideFacts
<1>2. \A i \in 0 .. n - 1 : f[i] = Radix[i] - 1
  BY DEF LargestDigits
<1> HIDE DEF f
<1>3. AreLimbs(f, n)
  BY <1>1, <1>2 DEF AreLimbs
<1>4. /\ Low(f, WideWeight, n, 0) = 0
      /\ \A k \in 0 .. n - 1 : Low(f, WideWeight, n, k + 1) = f[k] * WideWeight[k] + Low(f, WideWeight, n, k)
  BY <1>3, WideWeightsAreWeights, LowSums
<1>5. \A k \in 0 .. n : k \in Good
  <2>1. 0 \in Good
    BY <1>1, <1>4
  <2>2. ASSUME NEW k \in 0 .. n - 1, k \in Good PROVE k + 1 \in Good
    <3>1. k + 1 \in 0 .. n /\ k \in 0 .. n
      BY <1>1
    <3>2. PICK r \in Nat, w \in Nat : r = Radix[k] /\ w = WideWeight[k] /\ WideWeight[k + 1] = r * w
      BY <1>1, <3>1
    <3>3. Low(f, WideWeight, n, k + 1) = (r - 1) * w + (w - 1)
      BY <1>2, <1>4, <2>2, <3>2
    <3>4. (r - 1) * w + (w - 1) = r * w - 1
      <4>1. (r - 1) * w = r * w - w /\ r * w \in Int
        BY <3>2
      <4> QED
        BY <3>2, <4>1
    <3> QED
      BY <3>1, <3>2, <3>3, <3>4
  <2> HIDE DEF Good
  <2> QED
    BY <1>1, <2>1, <2>2, UptoInduction
<1> QED
  BY <1>1, <1>3, <1>5 DEF WideValue, f

\* Bytes of a number below M are a carried element of that value.
LEMMA BytesOfWide ==
  ASSUME NEW f, AreLimbs(f, n), 0 <= WideValue(f), WideValue(f) < M
  PROVE  Carried(FromWide(f)) /\ Value(FromWide(f)) = WideValue(f)
<1> DEFINE g == FromWide(f)
           terms == [i \in 0 .. n - 1 |-> f[i] * WideWeight[i]]
<1>1. n \in Nat /\ n \in 0 .. n
  BY WideFacts
<1>2. /\ N \in Nat /\ N \in 0 .. N /\ N - 1 \in 0 .. N - 1 /\ N - 1 \in 0 .. N
      /\ B \in Nat \ {0} /\ Top \in Nat /\ Top <= B
      /\ Weight[N - 1] \in Nat \ {0} /\ Weight[N] \in Nat \ {0} /\ M = Top * Weight[N - 1]
      /\ M <= Weight[N] /\ M \in Nat
  BY Parameters, Modulus, Weights
<1>3. PICK v \in Int : v = WideValue(f) /\ 0 <= v /\ v < M
  BY WideValueIsNumber
<1>4. SumFunction(terms) = v
  <2>1. DOMAIN terms = 0 .. n - 1
    OBVIOUS
  <2>2. Low(f, WideWeight, n, n) = SumTo(terms, n)
    BY DEF Low
  <2> HIDE DEF terms
  <2> QED
    BY <1>1, <1>3, <2>1, <2>2, SumOfFunction DEF WideValue
<1>5. g = [i \in 0 .. N - 1 |-> (v \div Weight[i]) % B]
  BY <1>4 DEF FromWide, Wide, Limb
<1> HIDE DEF g, terms
<1>6. \A i \in 0 .. N - 1 : g[i] = (v \div Weight[i]) % ByteRadix[i]
  BY <1>5 DEF ByteRadix
<1>7. AreDigits(g, ByteRadix, N) /\ \A k \in 0 .. N : Low(g, Weight, N, k) = v % Weight[k]
  BY <1>6, ByteWeights, DigitsOfNumber
<1>8. Value(g) = v
  <2>1. PICK w \in Nat \ {0} : w = Weight[N] /\ v < w
    BY <1>2, <1>3
  <2>2. v % w = v
    BY <1>3, <2>1
  <2>3. Low(g, Weight, N, N) = v % Weight[N]
    BY <1>2, <1>7
  <2> QED
    BY <2>1, <2>2, <2>3, ValueIsLow
<1>9. g \in [0 .. N - 1 -> 0 .. B - 1]
  <2>1. \A i \in 0 .. N - 1 : g[i] \in Int /\ 0 <= g[i] /\ g[i] < B
    BY <1>7 DEF AreDigits, ByteRadix
  <2>2. \A i \in 0 .. N - 1 : g[i] \in 0 .. B - 1
    BY <1>2, <2>1
  <2> QED
    BY <1>5, <2>2
<1>10. g[N - 1] < Top
  <2>1. PICK w \in Nat \ {0} : w = Weight[N - 1]
    BY <1>2
  <2>2. PICK q \in Int, s \in Int : q = v \div w /\ 0 <= s /\ s < w /\ v = w * q + s
    BY <2>1, <1>3, Division
  <2>3. 0 <= q
    <3>1. SUFFICES ASSUME q <= -1 PROVE FALSE
      BY <2>2
    <3>2. w * q <= w * (-1)
      BY <2>1, <2>2, <3>1
    <3> QED
      BY <1>3, <2>1, <2>2, <3>2
  <2>4. q < Top
    <3>1. SUFFICES ASSUME q >= Top PROVE FALSE
      BY <1>2, <2>2
    <3>2. w * q >= w * Top /\ w * Top = Top * w
      BY <1>2, <2>1, <2>2, <3>1
    <3>3. M = Top * w /\ Top * w \in Int
      BY <1>2, <2>1
    <3> QED
      BY <1>3, <2>1, <2>2, <3>2, <3>3
  <2>5. q % B = q
    BY <1>2, <2>2, <2>3, <2>4
  <2>6. g[N - 1] = q
    BY <1>2, <1>5, <2>1, <2>2, <2>5
  <2> QED
    BY <2>4, <2>6
<1>11. Carried(g)
  BY <1>9, <1>10 DEF Carried, Limb
<1> QED
  BY <1>3, <1>8, <1>11 DEF g

\* What dividing by M and adding the quotient C times does to small numbers.
LEMMA Fold ==
  ASSUME NEW x \in Int, NEW y \in Int, y = (x % M) + C * (x \div M)
  PROVE  /\ Congruent(y, x)
         /\ 1 - M <= x /\ x <= 2 * M - 1 => - C <= y /\ y <= M - 1 + C
         /\ - C <= x /\ x <= M - 1 + C => 0 <= y /\ y <= M - 1
         /\ C <= x /\ x <= M - 1 + C => C <= y /\ y <= M - 1
<1>1. C \in Nat /\ 0 < C /\ M \in Nat \ {0} /\ 4 * C <= M /\ p \in Nat /\ p = M - C
  BY WideFacts
<1>2. PICK q \in Int, s \in Int : q = x \div M /\ s = x % M /\ 0 <= s /\ s < M /\ x = M * q + s
  BY <1>1, Division
<1>3. y = s + C * q
  BY <1>2
<1>4. Congruent(y, x)
  <2>1. (-q) * p = C * q - M * q
    BY <1>1, <1>2
  <2>2. C * q \in Int /\ M * q \in Int
    BY <1>1, <1>2
  <2>3. y = x + (-q) * p
    BY <1>2, <1>3, <2>1, <2>2
  <2>4. -q \in Int
    BY <1>2
  <2> QED
    BY <2>3, <2>4 DEF Congruent
<1>5. ASSUME 1 - M <= x, x <= 2 * M - 1 PROVE q \in {-1, 0, 1}
  <2>1. ~(q >= 2)
    <3>1. SUFFICES ASSUME q >= 2 PROVE FALSE
      OBVIOUS
    <3>2. M * q >= M * 2
      BY <1>1, <1>2, <3>1
    <3> QED
      BY <1>1, <1>2, <1>5, <3>2
  <2>2. ~(q <= -2)
    <3>1. SUFFICES ASSUME q <= -2 PROVE FALSE
      OBVIOUS
    <3>2. M * q <= M * (-2)
      BY <1>1, <1>2, <3>1
    <3> QED
      BY <1>1, <1>2, <1>5, <3>2
  <2> QED
    BY <1>2, <2>1, <2>2
<1>6. ASSUME q \in {-1, 0, 1}
      PROVE  \/ x = s - M /\ y = s - C
             \/ x = s /\ y = s
             \/ x = s + M /\ y = s + C
  <2>1. CASE q = -1
    BY <1>1, <1>2, <1>3, <2>1
  <2>2. CASE q = 0
    BY <1>1, <1>2, <1>3, <2>2
  <2>3. CASE q = 1
    BY <1>1, <1>2, <1>3, <2>3
  <2> QED
    BY <1>6, <2>1, <2>2, <2>3
<1>7. ASSUME 1 - M <= x, x <= 2 * M - 1 PROVE - C <= y /\ y <= M - 1 + C
  BY <1>1, <1>2, <1>5, <1>6, <1>7
<1>8. ASSUME - C <= x, x <= M - 1 + C PROVE 0 <= y /\ y <= M - 1
  <2>1. 1 - M <= x /\ x <= 2 * M - 1
    BY <1>1, <1>8
  <2> QED
    BY <1>1, <1>2, <1>5, <1>6, <1>8, <2>1
<1>9. ASSUME C <= x, x <= M - 1 + C PROVE C <= y /\ y <= M - 1
  <2>1. 1 - M <= x /\ x <= 2 * M - 1
    BY <1>1, <1>9
  <2> QED
    BY <1>1, <1>2, <1>5, <1>6, <1>9, <2>1
<1> QED
  BY <1>4, <1>7, <1>8, <1>9

\* Four chains bring any number just beyond the range of M into it, as a
\* carried element of the same residue.
THEOREM ContractKeepsResidue ==
  ASSUME NEW h, AreLimbs(h, n), 1 - M <= WideValue(h), WideValue(h) <= 2 * M - 1
  PROVE  Carried(contract_limbs(h)) /\ Congruent(Value(contract_limbs(h)), WideValue(h))
<1> DEFINE f1 == Chain(h, C)
           f == Chain(f1, C)
           raised == [f EXCEPT ![0] = @ + C]
           u == Chain(raised, C)
           filled == [i \in 0 .. n - 1 |-> u[i] + Radix[i] - (IF i = 0 THEN C ELSE 1)]
           s == Chain(filled, 0)
<1>1. /\ n \in Nat /\ 0 \in 0 .. n - 1 /\ WideWeight[0] = 1
      /\ C \in Nat /\ C \in Int /\ 0 < C /\ M \in Nat \ {0} /\ 4 * C <= M /\ p \in Nat /\ p = M - C
      /\ \A i \in 0 .. n - 1 : Radix[i] \in Int
  BY WideFacts
<1>2. contract_limbs(h) = FromWide(s)
  BY DEF contract_limbs, Wide
<1>3. PICK v \in Int : v = WideValue(h) /\ 1 - M <= v /\ v <= 2 * M - 1
  BY WideValueIsNumber
<1>4. /\ AreLimbs(f1, n) /\ f1 \in [0 .. n - 1 -> Int]
      /\ WideValue(f1) = (WideValue(h) % M) + C * (WideValue(h) \div M)
  BY <1>1, ChainDivides
<1> HIDE DEF f1
<1>5. PICK v1 \in Int : v1 = WideValue(f1) /\ Congruent(v1, v) /\ - C <= v1 /\ v1 <= M - 1 + C
  <2>1. WideValue(f1) \in Int
    BY <1>4, WideValueIsNumber
  <2>2. WideValue(f1) = (v % M) + C * (v \div M)
    BY <1>3, <1>4
  <2>3. PICK v1 \in Int : v1 = WideValue(f1) /\ v1 = (v % M) + C * (v \div M)
    BY <2>1, <2>2
  <2> QED
    BY <1>3, <2>3, Fold
<1>6. /\ AreLimbs(f, n) /\ f \in [0 .. n - 1 -> Int]
      /\ WideValue(f) = (WideValue(f1) % M) + C * (WideValue(f1) \div M)
  BY <1>1, <1>4, ChainDivides
<1> HIDE DEF f
<1>7. PICK v2 \in Int : v2 = WideValue(f) /\ Congruent(v2, v1) /\ 0 <= v2 /\ v2 <= M - 1
  <2>1. WideValue(f) \in Int
    BY <1>6, WideValueIsNumber
  <2>2. WideValue(f) = (v1 % M) + C * (v1 \div M)
    BY <1>5, <1>6
  <2>3. PICK v2 \in Int : v2 = WideValue(f) /\ v2 = (v1 % M) + C * (v1 \div M)
    BY <2>1, <2>2
  <2> QED
    BY <1>5, <2>3, Fold
<1>8. /\ AreLimbs(raised, n) /\ WideValue(raised) = v2 + C
  <2>1. ASSUME NEW i \in 0 .. n - 1
        PROVE raised[i] = (IF i = 0 THEN f[i] + C ELSE f[i]) /\ raised[i] \in Int
    <3>1. f[i] \in Int
      BY <1>6
    <3>2. raised[i] = IF i = 0 THEN f[i] + C ELSE f[i]
      BY <1>1, <1>6
    <3> HIDE DEF raised
    <3> QED
      BY <1>1, <3>1, <3>2
  <2> HIDE DEF raised
  <2>2. AreLimbs(raised, n)
    BY <2>1 DEF AreLimbs
  <2>3. \A i \in 0 .. n - 1 : raised[i] = IF i = 0 THEN f[i] + C ELSE f[i]
    BY <2>1
  <2>4. Low(raised, WideWeight, n, n) = Low(f, WideWeight, n, n) + C * WideWeight[0]
    <3>1. PICK c \in Int : c = C
      BY <1>1
    <3>2. AreLimbs(raised, n) /\ AreLimbs(f, n) /\ 0 \in 0 .. n - 1
          /\ \A i \in 0 .. n - 1 : raised[i] = IF i = 0 THEN f[i] + c ELSE f[i]
      BY <1>1, <1>6, <2>2, <2>3, <3>1
    <3>3. Low(raised, WideWeight, n, n) = Low(f, WideWeight, n, n) + c * WideWeight[0]
      BY <3>1, <3>2, WideWeightsAreWeights, LowAdds
    <3> QED
      BY <3>1, <3>3
  <2> QED
    BY <1>1, <1>7, <2>2, <2>4 DEF WideValue
<1> HIDE DEF raised
<1>9. /\ AreLimbs(u, n) /\ u \in [0 .. n - 1 -> Int]
      /\ WideValue(u) = (WideValue(raised) % M) + C * (WideValue(raised) \div M)
  BY <1>1, <1>8, ChainDivides
<1> HIDE DEF u
<1>10. PICK x3 \in Int, v3 \in Int :
         /\ x3 = v2 + C /\ v3 = WideValue(u) /\ Congruent(v3, x3) /\ C <= v3 /\ v3 <= M - 1
  <2>1. WideValue(u) \in Int
    BY <1>9, WideValueIsNumber
  <2>2. PICK x3 \in Int : x3 = v2 + C /\ C <= x3 /\ x3 <= M - 1 + C
    BY <1>1, <1>7
  <2>3. WideValue(u) = (x3 % M) + C * (x3 \div M)
    BY <1>8, <1>9, <2>2
  <2>4. PICK v3 \in Int : v3 = WideValue(u) /\ v3 = (x3 % M) + C * (x3 \div M)
    BY <2>1, <2>3
  <2> QED
    BY <2>2, <2>4, Fold
<1>11. AreLimbs(filled, n) /\ WideValue(filled) = v3 + (M - C)
  <2> DEFINE full == [i \in 0 .. n - 1 |-> u[i] + LargestDigits[i]]
  <2>1. AreLimbs(LargestDigits, n) /\ WideValue(LargestDigits) = M - 1
    BY LargestValue
  <2>2. \A i \in 0 .. n - 1 : LargestDigits[i] = Radix[i] - 1
    BY DEF LargestDigits
  <2>3. PICK c \in Int, d \in Int : c = 1 /\ d = 1 - C
    BY <1>1
  <2>4. ASSUME NEW i \in 0 .. n - 1
        PROVE  /\ full[i] \in Int /\ filled[i] \in Int
               /\ full[i] = c * u[i] + c * LargestDigits[i]
               /\ filled[i] = IF i = 0 THEN full[i] + d ELSE full[i]
    <3>1. PICK x \in Int, r \in Int : x = u[i] /\ r = Radix[i]
      BY <1>1, <1>9
    <3>2. full[i] = x + (r - 1) /\ filled[i] = x + r - (IF i = 0 THEN C ELSE 1)
      BY <2>2, <3>1
    <3>3. c * u[i] + c * LargestDigits[i] = x + (r - 1)
      BY <2>2, <2>3, <3>1
    <3> HIDE DEF full, filled
    <3> QED
      BY <1>1, <2>3, <3>1, <3>2, <3>3
  <2> HIDE DEF full, filled
  <2>5. AreLimbs(full, n) /\ AreLimbs(filled, n) /\ AreCombined(full, c, u, c, LargestDigits, n)
    BY <1>9, <2>1, <2>3, <2>4 DEF AreLimbs, AreCombined
  <2>6. Low(full, WideWeight, n, n) = c * Low(u, WideWeight, n, n) + c * Low(LargestDigits, WideWeight, n, n)
    BY <2>5, WideWeightsAreWeights, LowLinear
  <2>7. Low(filled, WideWeight, n, n) = Low(full, WideWeight, n, n) + d * WideWeight[0]
    <3>1. \A i \in 0 .. n - 1 : filled[i] = IF i = 0 THEN full[i] + d ELSE full[i]
      BY <2>4
    <3> QED
      BY <1>1, <2>3, <2>5, <3>1, WideWeightsAreWeights, LowAdds
  <2>8. Low(full, WideWeight, n, n) = v3 + (M - 1)
    BY <1>1, <1>10, <2>1, <2>3, <2>6 DEF WideValue
  <2>9. WideValue(filled) = v3 + (M - C)
    BY <1>1, <1>10, <2>3, <2>7, <2>8 DEF WideValue
  <2> QED
    BY <2>5, <2>9
<1> HIDE DEF filled
<1>12. PICK z \in Int : z = 0
  OBVIOUS
<1>13. /\ AreLimbs(s, n)
       /\ WideValue(s) = (WideValue(filled) % M) + z * (WideValue(filled) \div M)
  <2>1. s = Chain(filled, z)
    BY <1>12
  <2> HIDE DEF s
  <2> QED
    BY <1>11, <1>12, <2>1, ChainDivides
<1> HIDE DEF s
<1>14. PICK v4 \in Int : v4 = v3 - C /\ 0 <= v4 /\ v4 <= M - 1 /\ WideValue(s) = v4
  <2>1. PICK v4 \in Int, x4 \in Int, one \in Int : v4 = v3 - C /\ x4 = v3 + (M - C) /\ one = 1
    BY <1>1, <1>10
  <2>2. 0 <= v4 /\ v4 < M /\ x4 = M * one + v4
    BY <1>1, <1>10, <2>1
  <2>3. x4 \div M = one /\ x4 % M = v4
    <3>1. PICK m \in Nat \ {0} : m = M
      BY <1>1
    <3>2. v4 \in Int /\ x4 \in Int /\ one \in Int /\ 0 <= v4 /\ v4 < m /\ x4 = m * one + v4
      BY <2>1, <2>2, <3>1
    <3>3. x4 \div m = one /\ x4 % m = v4
      BY <3>1, <3>2, DivisionIsUnique
    <3> QED
      BY <3>1, <3>3
  <2>4. WideValue(s) = v4 + z * one
    BY <1>11, <1>13, <2>1, <2>3
  <2>5. WideValue(s) = v4 /\ v4 <= M - 1
    BY <1>1, <1>12, <2>1, <2>2, <2>4
  <2> QED
    BY <2>1, <2>2, <2>5
<1>15. Carried(FromWide(s)) /\ Value(FromWide(s)) = v4
  <2>1. 0 <= WideValue(s) /\ WideValue(s) < M
    BY <1>1, <1>14
  <2> QED
    BY <1>13, <1>14, <2>1, BytesOfWide
<1>16. Congruent(v4, v)
  <2>1. PICK q1 \in Int, q2 \in Int, q3 \in Int : v1 = v + q1 * p /\ v2 = v1 + q2 * p /\ v3 = x3 + q3 * p
    BY <1>5, <1>7, <1>10 DEF Congruent
  <2>2. PICK e1 \in Int, e2 \in Int, e3 \in Int : e1 = q1 * p /\ e2 = q2 * p /\ e3 = q3 * p
    BY <1>1, <2>1
  <2>3. v4 = v + (e1 + e2 + e3)
    BY <1>1, <1>10, <1>14, <2>1, <2>2
  <2>4. (q1 + q2 + q3) * p = e1 + e2 + e3
    BY <1>1, <2>1, <2>2
  <2>5. q1 + q2 + q3 \in Int
    BY <2>1
  <2> QED
    BY <2>3, <2>4, <2>5 DEF Congruent
<1> QED
  BY <1>2, <1>3, <1>15, <1>16

\* From the limbs of a product to its bytes.
THEOREM ProductContracts ==
  ASSUME NEW f, AreDigits(f, Radix, n), NEW g, AreDigits(g, Radix, n)
  PROVE  LET r == contract_limbs(RoundCarries(Product(f, g)))
         IN  Carried(r) /\ Congruent(Value(r), WideValue(f) * WideValue(g))
<1> DEFINE h == Product(f, g)
           k == RoundCarries(h)
           r == contract_limbs(k)
<1>1. /\ AreLimbs(f, n) /\ AreLimbs(g, n)
      /\ WideValue(h) \in Int /\ LargestProduct \in Int
      /\ 0 <= WideValue(h) /\ WideValue(h) <= LargestProduct
  BY ProductIsBounded
<1>2. C \in Nat /\ 0 < C /\ M \in Nat \ {0} /\ 4 * C <= M /\ p \in Nat /\ p = M - C
  BY WideFacts
<1>3. h \in [0 .. n - 1 -> Int]
  <2>1. AreLimbs(h, n)
    BY <1>1, ProductLimbs
  <2>2. h = [i \in 0 .. n - 1 |-> h[i]]
    BY DEF Product, Wide
  <2> HIDE DEF h
  <2> QED
    BY <2>1, <2>2 DEF AreLimbs
<1>4. Congruent(WideValue(h), WideValue(f) * WideValue(g))
  BY <1>1, ProductIsCongruent
<1> HIDE DEF h
<1>5. PICK c \in Int, v \in Int :
         /\ AreLimbs(k, n) /\ v = WideValue(h) /\ WideValue(k) = v - c * p
         /\ 1 - M <= v - c * M /\ v - c * M <= M - 1
  BY <1>1, <1>3, CarriesChangeByModulus
<1> HIDE DEF k
<1>6. PICK l \in Int, q \in Int, s \in Int : l = LargestProduct /\ q = LargestProduct \div M
         /\ 0 <= s /\ s < M /\ l = M * q + s
  BY <1>1, <1>2, Division
<1>7. C * (q + 4) <= M
  BY <1>6, WideAssumption
<1>8. 0 <= c
  <2>1. SUFFICES ASSUME c <= -1 PROVE FALSE
    BY <1>5
  <2>2. c * M <= (-1) * M
    BY <1>2, <1>5, <2>1
  <2>3. 0 <= v
    BY <1>1, <1>5
  <2>4. c * M \in Int
    BY <1>2, <1>5
  <2> QED
    BY <1>2, <1>5, <2>2, <2>3, <2>4
<1>9. c <= q + 1
  <2>1. SUFFICES ASSUME c >= q + 2 PROVE FALSE
    BY <1>5, <1>6
  <2>2. c * M >= (q + 2) * M
    BY <1>2, <1>5, <1>6, <2>1
  <2>3. (q + 2) * M = M * q + 2 * M /\ M * q \in Int /\ c * M \in Int
    BY <1>2, <1>5, <1>6
  <2>4. v <= l
    BY <1>1, <1>5, <1>6
  <2>5. c * M <= v + M - 1
    BY <1>2, <1>5, <2>3
  <2> QED
    BY <1>2, <1>5, <1>6, <2>2, <2>3, <2>4, <2>5
<1>10. 0 <= C * c /\ C * c <= M /\ C * c \in Int
  <2>1. C * c <= C * (q + 4)
    BY <1>2, <1>5, <1>6, <1>9
  <2>2. 0 <= C * c /\ C * c \in Int
    BY <1>2, <1>5, <1>8
  <2>3. C * (q + 4) \in Int
    BY <1>2, <1>6
  <2> QED
    BY <1>2, <1>7, <2>1, <2>2, <2>3
<1>11. PICK w \in Int : w = WideValue(k) /\ 1 - M <= w /\ w <= 2 * M - 1
  <2>1. c * p = c * M - C * c /\ c * M \in Int /\ c * p \in Int
    BY <1>2, <1>5
  <2>2. PICK w \in Int : w = v - c * p
    BY <1>5, <2>1
  <2>3. w = (v - c * M) + C * c
    BY <1>5, <1>10, <2>1, <2>2
  <2>4. PICK e \in Int : e = v - c * M /\ 1 - M <= e /\ e <= M - 1
    BY <1>5, <2>1
  <2>5. 1 - M <= w /\ w <= 2 * M - 1
    BY <1>2, <1>10, <2>2, <2>3, <2>4
  <2> QED
    BY <1>5, <2>2, <2>5
<1>12. Carried(r) /\ Congruent(Value(r), w)
  BY <1>5, <1>11, ContractKeepsResidue
<1> HIDE DEF r
<1>13. Congruent(w, v)
  <2>1. w = v + (-c) * p
    <3>1. (-c) * p = -(c * p) /\ c * p \in Int
      BY <1>2, <1>5
    <3> QED
      BY <1>5, <1>11, <3>1
  <2>2. -c \in Int
    BY <1>5
  <2> QED
    BY <2>1, <2>2 DEF Congruent
<1>14. PICK x \in Int, y \in Int : x = Value(r) /\ y = WideValue(f) * WideValue(g)
  <2>1. WideValue(f) \in Int /\ WideValue(g) \in Int
    BY <1>1, WideValueIsNumber
  <2>2. Value(r) \in Int
    BY <1>12, CarriedLimbs
  <2>3. WideValue(f) * WideValue(g) \in Int
    BY <2>1
  <2> QED
    BY <2>2, <2>3
<1>15. Congruent(x, v)
  <2>1. Congruent(x, w)
    BY <1>12, <1>14
  <2> QED
    BY <1>5, <1>11, <1>13, <1>14, <2>1, CongruentTransitive
<1>16. Congruent(v, y)
  BY <1>4, <1>5, <1>14
<1>17. Congruent(x, y)
  BY <1>5, <1>14, <1>15, <1>16, CongruentTransitive
<1> QED
  BY <1>12, <1>14, <1>17 DEF r, k, h

\* A carried element and the residue it is.
Stands(r, v) == Carried(r) /\ Value(r) % p = v

\* The residue is a number congruent to the value.
LEMMA StandsFor ==
  ASSUME NEW r, NEW v, Stands(r, v)
  PROVE  /\ Carried(r) /\ Value(r) \in Int /\ v \in Int /\ 0 <= v /\ v < p
         /\ Congruent(Value(r), v)
<1>1. Carried(r) /\ Value(r) % p = v
  BY DEF Stands
<1>2. Value(r) \in Int
  BY <1>1, CarriedLimbs
<1> QED
  BY <1>1, <1>2, ResidueIsCongruent

\* An operation that is congruent to what it should be leaves an element that
\* stands for its residue.
LEMMA CongruentStands ==
  ASSUME NEW r, Carried(r), NEW v \in Int, NEW w \in Int,
         Congruent(Value(r), v), Congruent(v, w)
  PROVE  Stands(r, w % p)
<1>1. Value(r) \in Int
  BY CarriedLimbs
<1>2. Congruent(Value(r), w)
  BY <1>1, CongruentTransitive
<1>3. Value(r) % p = w % p
  BY <1>1, <1>2, CongruentResidue
<1> QED
  BY <1>3 DEF Stands

\* Sums and differences of elements stand for those of their residues.
LEMMA SumStands ==
  ASSUME NEW x, NEW u, Stands(x, u), NEW y, NEW v, Stands(y, v)
  PROVE  /\ Stands(fe25519_add(x, y), (u + v) % p)
         /\ Stands(fe25519_sub(x, y), (u - v) % p)
<1>1. /\ Carried(x) /\ Value(x) \in Int /\ u \in Int /\ Congruent(Value(x), u)
      /\ Carried(y) /\ Value(y) \in Int /\ v \in Int /\ Congruent(Value(y), v)
  BY StandsFor
<1>2. PICK s \in Int, d \in Int : s = Value(x) + Value(y) /\ d = Value(x) - Value(y)
  BY <1>1
<1>3. PICK su \in Int, du \in Int : su = u + v /\ du = u - v
  BY <1>1
<1>4. Congruent(s, su) /\ Congruent(d, du)
  BY <1>1, <1>2, <1>3, CongruentCombines
<1>5. Carried(fe25519_add(x, y)) /\ Congruent(Value(fe25519_add(x, y)), s)
  BY <1>1, <1>2, AddIsSum
<1>6. Carried(fe25519_sub(x, y)) /\ Congruent(Value(fe25519_sub(x, y)), d)
  BY <1>1, <1>2, SubIsDifference
<1>7. Stands(fe25519_add(x, y), su % p)
  BY <1>4, <1>5, CongruentStands
<1>8. Stands(fe25519_sub(x, y), du % p)
  BY <1>4, <1>6, CongruentStands
<1> QED
  BY <1>3, <1>7, <1>8

\* So do doubles, opposites and frozen elements.
LEMMA DoubleStands ==
  ASSUME NEW x, NEW u, Stands(x, u)
  PROVE  /\ Stands(fe25519_double(x), (2 * u) % p)
         /\ Stands(fe25519_neg(x), (- u) % p)
         /\ Stands(fe25519_freeze(x), u % p)
<1>1. Carried(x) /\ Value(x) \in Int /\ u \in Int /\ 0 <= u /\ u < p /\ Congruent(Value(x), u)
  BY StandsFor
<1>2. p \in Nat \ {0}
  BY Modulus
<1>3. PICK q \in Int : Value(x) = u + q * p
  BY <1>1 DEF Congruent
<1>4. PICK e \in Int : e = q * p
  BY <1>2, <1>3
<1>5. PICK d \in Int, du \in Int, m \in Int, mu \in Int :
        d = 2 * Value(x) /\ du = 2 * u /\ m = - Value(x) /\ mu = - u
  BY <1>1
<1>6. Congruent(d, du)
  <2>1. (2 * q) * p = 2 * e
    BY <1>2, <1>3, <1>4
  <2>2. d = du + (2 * q) * p
    BY <1>1, <1>3, <1>4, <1>5, <2>1
  <2>3. 2 * q \in Int
    BY <1>3
  <2> QED
    BY <2>2, <2>3 DEF Congruent
<1>7. Congruent(m, mu)
  <2>1. (-q) * p = - e
    BY <1>2, <1>3, <1>4
  <2>2. m = mu + (-q) * p
    BY <1>1, <1>3, <1>4, <1>5, <2>1
  <2>3. -q \in Int
    BY <1>3
  <2> QED
    BY <2>2, <2>3 DEF Congruent
<1>8. Carried(fe25519_double(x)) /\ Congruent(Value(fe25519_double(x)), d)
  BY <1>1, <1>5, DoubleIsTwice
<1>9. Carried(fe25519_neg(x)) /\ Congruent(Value(fe25519_neg(x)), m)
  BY <1>1, <1>5, NegIsOpposite
<1>10. Stands(fe25519_double(x), du % p)
  BY <1>5, <1>6, <1>8, CongruentStands
<1>11. Stands(fe25519_neg(x), mu % p)
  BY <1>5, <1>7, <1>9, CongruentStands
<1>12. Carried(fe25519_freeze(x)) /\ Value(fe25519_freeze(x)) = Value(x) % p
  BY <1>1, FreezeIsResidue
<1>13. Value(fe25519_freeze(x)) = u
  BY <1>12 DEF Stands
<1> QED
  BY <1>5, <1>10, <1>11, <1>12, <1>13 DEF Stands

\* So do products and squares.
LEMMA ProductStands ==
  ASSUME NEW x, NEW u, Stands(x, u), NEW y, NEW v, Stands(y, v)
  PROVE  /\ Stands(fe25519_mul(x, y), (u * v) % p)
         /\ Stands(fe25519_square(x), (u * u) % p)
<1>1. ASSUME NEW y1, NEW v1, Stands(y1, v1)
      PROVE  Stands(contract_limbs(RoundCarries(Product(Load(x), Load(y1)))), (u * v1) % p)
  <2> DEFINE r == contract_limbs(RoundCarries(Product(Load(x), Load(y1))))
  <2>1. /\ Carried(x) /\ Value(x) \in Int /\ u \in Int /\ Congruent(Value(x), u)
        /\ Carried(y1) /\ Value(y1) \in Int /\ v1 \in Int /\ Congruent(Value(y1), v1)
    BY <1>1, StandsFor
  <2>2. AreDigits(Load(x), Radix, n) /\ WideValue(Load(x)) = Value(x)
    BY <2>1, LoadKeepsValue
  <2>3. AreDigits(Load(y1), Radix, n) /\ WideValue(Load(y1)) = Value(y1)
    BY <2>1, LoadKeepsValue
  <2>4. Carried(r) /\ Congruent(Value(r), WideValue(Load(x)) * WideValue(Load(y1)))
    BY <2>2, <2>3, ProductContracts
  <2> HIDE DEF r
  <2>5. PICK s \in Int, su \in Int : s = Value(x) * Value(y1) /\ su = u * v1
    BY <2>1
  <2>6. Congruent(s, su)
    BY <2>1, <2>5, CongruentCombines
  <2>7. Congruent(Value(r), s)
    BY <2>2, <2>3, <2>4, <2>5
  <2>8. Stands(r, su % p)
    BY <2>4, <2>5, <2>6, <2>7, CongruentStands
  <2> QED
    BY <2>5, <2>8 DEF r
<1>2. Stands(fe25519_mul(x, y), (u * v) % p)
  BY <1>1 DEF fe25519_mul, fe25519_mul_core_s
<1>3. SquareProduct(Load(x)) = Product(Load(x), Load(x))
  <2>1. AreDigits(Load(x), Radix, n)
    BY LoadKeepsValue DEF Stands
  <2>2. AreLimbs(Load(x), n)
    BY <2>1 DEF AreDigits, AreLimbs
  <2> QED
    BY <2>2, SquareIsProduct
<1>4. Stands(fe25519_square(x), (u * u) % p)
  BY <1>1, <1>3 DEF fe25519_square, fe25519_square_core_s
<1> QED
  BY <1>2, <1>4

-----------------------------------------------------------------------------
\* Every element is carried and stands for its residue, for bytes, words, limbs
\* and a prime of any size that satisfy the assumptions.
THEOREM Fe25519FieldValue == Spec => []FieldValue
<1>1. Init => FieldValue
  <2> SUFFICES ASSUME Init PROVE FieldValue
    OBVIOUS
  <2>1. PICK x, y \in Start : a = fe25519_unpack(x) /\ b = fe25519_unpack(y)
    BY DEF Init
  <2>2. Carried(a) /\ Carried(b)
    BY <2>1, UnpackIsCarried
  <2> QED
    BY <2>2 DEF Init, FieldValue
<1>2. FieldValue /\ [Next]_vars => FieldValue'
  <2> SUFFICES ASSUME FieldValue, [Next]_vars PROVE FieldValue'
    OBVIOUS
  <2>1. Stands(a, va) /\ Stands(b, vb)
    BY DEF FieldValue, Stands
  <2>2. ASSUME NEW r, NEW v, Set(r, v), Stands(r, v % p) PROVE FieldValue'
    <3>1. a' = r /\ va' = v % p /\ b' = b /\ vb' = vb
      BY <2>2 DEF Set
    <3>2. Carried(r) /\ Value(r) % p = v % p /\ Carried(b) /\ Value(b) % p = vb
      BY <2>1, <2>2 DEF Stands
    <3> QED
      BY <3>1, <3>2 DEF FieldValue, Carried, Value
  <2>3. CASE Add
    BY <2>1, <2>2, <2>3, SumStands DEF Add
  <2>4. CASE Double
    BY <2>1, <2>2, <2>4, DoubleStands DEF Double
  <2>5. CASE Sub
    BY <2>1, <2>2, <2>5, SumStands DEF Sub
  <2>6. CASE Neg
    BY <2>1, <2>2, <2>6, DoubleStands DEF Neg
  <2>7. CASE Mul
    BY <2>1, <2>2, <2>7, ProductStands DEF Mul
  <2>8. CASE Square
    BY <2>1, <2>2, <2>8, ProductStands DEF Square
  <2>9. CASE Freeze
    BY <2>1, <2>2, <2>9, DoubleStands DEF Freeze
  <2>10. CASE Cmov
    <3>1. ASSUME NEW r, NEW v, Stands(r, v) PROVE Stands(r, v % p)
      <4>1. Carried(r) /\ Value(r) \in Int /\ v \in Int /\ Congruent(Value(r), v)
        BY <3>1, StandsFor
      <4>2. Value(r) % p = v % p
        BY <4>1, CongruentResidue
      <4> QED
        BY <4>1, <4>2 DEF Stands
    <3>2. PICK bit \in {0, 1} : Set(fe25519_cmov(a, b, bit), IF bit = 1 THEN vb ELSE va)
      BY <2>10 DEF Cmov
    <3>3. Stands(fe25519_cmov(a, b, bit), IF bit = 1 THEN vb ELSE va)
      BY <2>1 DEF fe25519_cmov
    <3>4. Stands(fe25519_cmov(a, b, bit), (IF bit = 1 THEN vb ELSE va) % p)
      BY <3>1, <3>3
    <3> QED
      BY <2>2, <3>2, <3>4
  <2>11. CASE fe25519_cswap
    BY <2>11 DEF fe25519_cswap, FieldValue, Carried, Value
  <2>12. CASE UNCHANGED vars
    BY <2>12 DEF vars, FieldValue, Carried, Value
  <2> QED
    BY <2>3, <2>4, <2>5, <2>6, <2>7, <2>8, <2>9, <2>10, <2>11, <2>12 DEF Next
<1> QED
  BY <1>1, <1>2, PTL DEF Spec

\* The packed bytes are those of the residue, whose parity they show, and two
\* elements have the same bytes exactly when they are the same residue.
THEOREM Fe25519PackIsCanonical == Spec => []PackIsCanonical
<1>1. FieldValue => PackIsCanonical
  <2> SUFFICES ASSUME FieldValue PROVE PackIsCanonical
    OBVIOUS
  <2>1. Carried(a) /\ Carried(b) /\ Value(a) % p = va /\ Value(b) % p = vb
    BY DEF FieldValue
  <2>2. Carried(fe25519_freeze(a)) /\ Value(fe25519_freeze(a)) = va
    BY <2>1, FreezeIsResidue
  <2>3. Value(fe25519_pack(a)) = va
    BY <2>1, <2>2, PackIsFrozen
  <2>4. fe25519_isnegative(a) = va % 2
    <3>1. AreLimbs(fe25519_freeze(a), N)
      BY <2>2, CarriedLimbs
    <3>2. Value(fe25519_freeze(a)) % 2 = fe25519_freeze(a)[0] % 2
      BY <3>1, ParityOfValue
    <3> QED
      BY <2>2, <3>2 DEF fe25519_isnegative
  <2>5. fe25519_iseq(a, b) <=> va = vb
    BY <2>1, SameFrozen
  <2> QED
    BY <2>3, <2>4, <2>5 DEF PackIsCanonical
<1> QED
  BY <1>1, Fe25519FieldValue, PTL
=============================================================================
