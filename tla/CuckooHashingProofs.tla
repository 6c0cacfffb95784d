------------------------- MODULE CuckooHashingProofs -------------------------
(***************************************************************************)
(* Facts about the arithmetic of partial-key cuckoo hashing, for all hash  *)
(* values and all hashpowers.                                              *)
(*                                                                         *)
(* Induction is done on sets of naturals: a set that holds 0 and with      *)
(* every natural the next one holds them all.                              *)
(***************************************************************************)
EXTENDS CuckooHashing, FiniteSetTheorems, WellFoundedInduction, TLAPS

-----------------------------------------------------------------------------
(***************************************************************************)
(* Induction.                                                              *)
(***************************************************************************)

\* A non-empty set of naturals has a smallest element.
LEMMA LeastElement ==
  ASSUME NEW S \in SUBSET Nat, S # {}
  PROVE  \E n \in S : \A m \in S : n <= m
<1> DEFINE R == OpToRel(<, Nat)
<1>1. \A x, y \in Nat : y < x => <<y, x>> \in R
  BY DEF OpToRel
<1>2. IsWellFoundedOn(R, Nat)
  BY NatLessThanWellFounded
<1> HIDE DEF R
<1>3. PICK x \in S : \A y \in S : ~ (<<y, x>> \in R)
  BY <1>2, WFMin
<1>4. ASSUME NEW y \in S
      PROVE  x <= y
  <2>1. ~ (<<y, x>> \in R)
    BY <1>3
  <2>2. ~ (y < x)
    BY <1>1, <2>1, Zenon
  <2> QED
    BY <2>2
<1>5. x \in S /\ \A y \in S : x <= y
  BY <1>3, <1>4
<1>6. QED
  BY <1>5

\* Induction over the naturals.
LEMMA SetInduction ==
  ASSUME NEW S, 0 \in S, \A n \in Nat : n \in S => n + 1 \in S
  PROVE  \A n \in Nat : n \in S
<1> SUFFICES ASSUME Nat \ S # {} PROVE FALSE
  OBVIOUS
<1> DEFINE T == Nat \ S
<1> HIDE DEF T
<1>1. PICK n \in T : \A m \in T : n <= m
  <2>1. T \in SUBSET Nat /\ T # {}
    BY DEF T
  <2> QED
    BY <2>1, LeastElement
<1>2. n \in Nat /\ n \notin S /\ n # 0
  BY DEF T
<1>3. n - 1 \in Nat /\ n - 1 \in S
  BY <1>1, <1>2 DEF T
<1> QED
  BY <1>2, <1>3
-----------------------------------------------------------------------------
(***************************************************************************)
(* Powers of two, from the number of subsets of a set.                     *)
(***************************************************************************)

\* The set 1 .. n has 2^n subsets.
LEMMA CountSubsets ==
  ASSUME NEW n \in Nat
  PROVE  IsFiniteSet(SUBSET (1 .. n)) /\ Cardinality(SUBSET (1 .. n)) = 2 ^ n
<1>1. IsFiniteSet(1 .. n) /\ Cardinality(1 .. n) = n
  BY FS_Interval
<1> QED
  BY <1>1, FS_SUBSET

\* One more bit doubles the power.
LEMMA PowerDoubles ==
  ASSUME NEW n \in Nat
  PROVE  2 ^ n \in Nat /\ 2 ^ (n + 1) = 2 * 2 ^ n
<1> DEFINE A == SUBSET (1 .. n)
           B == {s \union {n + 1} : s \in A}
           f == [s \in A |-> s \union {n + 1}]
<1>1. IsFiniteSet(A) /\ Cardinality(A) = 2 ^ n
  BY CountSubsets
<1>2. Cardinality(SUBSET (1 .. n + 1)) = 2 ^ (n + 1)
  BY CountSubsets
<1>3. f \in Bijection(A, B)
  <2>1. \A s \in A : n + 1 \notin s
    OBVIOUS
  <2>2. f \in [A -> B]
    OBVIOUS
  <2>3. ASSUME NEW s \in A, NEW u \in A, f[s] = f[u] PROVE s = u
    BY <2>1, <2>3
  <2>4. \A b \in B : \E s \in A : f[s] = b
    OBVIOUS
  <2> HIDE DEF A, B, f
  <2> QED
    BY <2>2, <2>3, <2>4 DEF Bijection, Injection, IsInjective, Surjection
<1>4. IsFiniteSet(B) /\ Cardinality(B) = 2 ^ n
  <2>1. ExistsBijection(A, B)
    BY <1>3 DEF ExistsBijection
  <2> HIDE DEF A, B
  <2> QED
    BY <1>1, <2>1, FS_Bijection
<1>5. SUBSET (1 .. n + 1) = A \union B
  <2>1. 1 .. n \subseteq 1 .. n + 1 /\ n + 1 \in 1 .. n + 1
    OBVIOUS
  <2>2. A \subseteq SUBSET (1 .. n + 1)
    BY <2>1
  <2>3. ASSUME NEW b \in B PROVE b \subseteq 1 .. n + 1
    BY <2>1
  <2>4. ASSUME NEW u \in SUBSET (1 .. n + 1) PROVE u \in A \union B
    <3>1. CASE n + 1 \notin u
      BY <3>1
    <3>2. CASE n + 1 \in u
      <4>1. u \ {n + 1} \in A
        OBVIOUS
      <4>2. u = (u \ {n + 1}) \union {n + 1}
        BY <3>2
      <4> QED
        BY <4>1, <4>2
    <3> QED
      BY <3>1, <3>2
  <2> QED
    BY <2>2, <2>3, <2>4
<1>6. A \intersect B = {}
  <2>1. \A s \in A : n + 1 \notin s
    OBVIOUS
  <2>2. \A b \in B : n + 1 \in b
    OBVIOUS
  <2> QED
    BY <2>1, <2>2
<1>7. Cardinality(A) \in Nat
  BY <1>1, FS_CardinalityType
<1>8. Cardinality(A \union B) = Cardinality(A) + Cardinality(B) - 0
  <2> HIDE DEF A, B
  <2> QED
    BY <1>1, <1>4, <1>6, FS_Union, FS_EmptySet
<1> DEFINE p == 2 ^ n
           q == 2 ^ (n + 1)
<1>9. /\ p = Cardinality(A) /\ p = Cardinality(B) /\ p \in Nat
      /\ q = Cardinality(A \union B)
  BY <1>1, <1>2, <1>4, <1>5, <1>7, Zenon
<1> HIDE DEF A, B, p, q
<1>10. p \in Nat /\ q = 2 * p
  BY <1>8, <1>9
<1> QED
  BY <1>10 DEF p, q

\* A table has at least one bucket.
LEMMA PowerPositive == \A n \in Nat : 2 ^ n \in Nat /\ 2 ^ n > 0
<1> DEFINE S == {n \in Nat : 2 ^ n > 0}
<1>1. 0 \in S
  <2>1. 2 ^ 0 = 1
    OBVIOUS
  <2> QED
    BY <2>1
<1>2. ASSUME NEW n \in Nat, n \in S PROVE n + 1 \in S
  BY <1>2, PowerDoubles
<1> HIDE DEF S
<1>3. \A n \in Nat : n \in S
  BY <1>1, <1>2, SetInduction
<1> QED
  BY <1>3, PowerDoubles DEF S
-----------------------------------------------------------------------------
(***************************************************************************)
(* Exclusive or.  That a function with the recursive equation of Xor       *)
(* exists is shown from functions that satisfy the equation up to some n.  *)
(***************************************************************************)

\* The body of the definition of Xor, with f for the recursive call.
XorBody(f, a, b) == IF a = 0 THEN b ELSE ((a + b) % 2) + 2 * f[a \div 2][b \div 2]

\* Function f satisfies the equation for all first arguments up to n.
XorUpTo(f, n) ==
  /\ f \in [Nat -> [Nat -> Nat]]
  /\ \A a \in 0 .. n : \A b \in Nat : f[a][b] = XorBody(f, a, b)

\* Half of a number, and the bit that halving drops.
LEMMA Halves ==
  ASSUME NEW a \in Nat
  PROVE  /\ a \div 2 \in Nat /\ a % 2 \in {0, 1}
         /\ a = 2 * (a \div 2) + (a % 2)
         /\ a > 0 => a \div 2 < a
OBVIOUS

\* Such functions exist.
LEMMA XorUpToExists == \A n \in Nat : \E f : XorUpTo(f, n)
<1> DEFINE S == {n \in Nat : \E f : XorUpTo(f, n)}
<1>1. 0 \in S
  <2> DEFINE f == [a \in Nat |-> [b \in Nat |-> b]]
  <2>1. XorUpTo(f, 0)
    BY DEF XorUpTo, XorBody
  <2> QED
    BY <2>1
<1>2. ASSUME NEW n \in Nat, n \in S PROVE n + 1 \in S
  <2>1. PICK f : XorUpTo(f, n)
    BY <1>2
  <2> DEFINE g == [a \in Nat |-> [b \in Nat |-> XorBody(f, a, b)]]
  <2>2. f \in [Nat -> [Nat -> Nat]]
    BY <2>1 DEF XorUpTo
  <2>3. ASSUME NEW a \in Nat, NEW b \in Nat PROVE XorBody(f, a, b) \in Nat
    <3>1. f[a \div 2][b \div 2] \in Nat
      BY <2>2, Halves
    <3> QED
      BY <3>1, Halves DEF XorBody
  <2>4. g \in [Nat -> [Nat -> Nat]]
    BY <2>3
  <2>5. ASSUME NEW a \in 0 .. n + 1, NEW b \in Nat
        PROVE  g[a][b] = XorBody(g, a, b)
    <3>1. g[a][b] = XorBody(f, a, b)
      OBVIOUS
    <3>2. CASE a = 0
      BY <3>1, <3>2 DEF XorBody
    <3>3. CASE a # 0
      <4> DEFINE h == a \div 2
                 k == b \div 2
      <4>1. h \in 0 .. n /\ k \in Nat
        BY <3>3, Halves
      <4> HIDE DEF h, k
      <4>2. f[h][k] = XorBody(f, h, k)
        BY <2>1, <4>1 DEF XorUpTo
      <4>3. g[h][k] = XorBody(f, h, k)
        BY <4>1
      <4> QED
        BY <3>1, <3>3, <4>2, <4>3 DEF XorBody, h, k
    <3> QED
      BY <3>2, <3>3
  <2>6. XorUpTo(g, n + 1)
    <3> HIDE DEF g
    <3> QED
      BY <2>4, <2>5 DEF XorUpTo
  <2> QED
    BY <2>6
<1> HIDE DEF S
<1>3. \A n \in Nat : n \in S
  BY <1>1, <1>2, SetInduction
<1> QED
  BY <1>3 DEF S

\* They agree as far as they satisfy the equation.
LEMMA XorUpToUnique ==
  ASSUME NEW f, NEW g, NEW m \in Nat, XorUpTo(f, m), NEW n \in Nat, XorUpTo(g, n)
  PROVE  \A a \in Nat : a <= m /\ a <= n => \A b \in Nat : f[a][b] = g[a][b]
<1> DEFINE Agree(a) == a <= m /\ a <= n => \A b \in Nat : f[a][b] = g[a][b]
           S == {u \in Nat : \A a \in 0 .. u : Agree(a)}
<1>1. 0 \in S
  BY DEF XorUpTo, XorBody
<1>2. ASSUME NEW u \in Nat, u \in S PROVE u + 1 \in S
  <2>1. ASSUME u + 1 <= m, u + 1 <= n, NEW b \in Nat
        PROVE  f[u + 1][b] = g[u + 1][b]
    <3> DEFINE h == (u + 1) \div 2
               k == b \div 2
    <3>1. h \in 0 .. u /\ k \in Nat
      BY Halves
    <3>2. u + 1 \in 0 .. m /\ u + 1 \in 0 .. n /\ u + 1 # 0
      BY <2>1
    <3>3. f[u + 1][b] = ((u + 1 + b) % 2) + 2 * f[h][k]
      BY <3>2 DEF XorUpTo, XorBody
    <3>4. g[u + 1][b] = ((u + 1 + b) % 2) + 2 * g[h][k]
      BY <3>2 DEF XorUpTo, XorBody
    <3> HIDE DEF h, k
    <3>5. Agree(h)
      BY <1>2, <3>1
    <3>6. f[h][k] = g[h][k]
      BY <2>1, <3>1, <3>5
    <3> QED
      BY <3>3, <3>4, <3>6
  <2>2. Agree(u + 1)
    BY <2>1
  <2>3. \A a \in 0 .. u : Agree(a)
    BY <1>2
  <2> HIDE DEF Agree
  <2>4. \A a \in 0 .. u + 1 : a \in 0 .. u \/ a = u + 1
    OBVIOUS
  <2>5. \A a \in 0 .. u + 1 : Agree(a)
    BY <2>2, <2>3, <2>4
  <2> QED
    BY <2>5
<1> HIDE DEF S
<1>3. \A u \in Nat : u \in S
  BY <1>1, <1>2, SetInduction
<1>4. \A u \in Nat : Agree(u)
  BY <1>3 DEF S
<1> QED
  BY <1>4

\* Xor is a function on the naturals that satisfies its equation.
LEMMA XorEquation ==
  /\ Xor \in [Nat -> [Nat -> Nat]]
  /\ \A a, b \in Nat : Xor[a][b] = XorBody(Xor, a, b)
<1> DEFINE best(n) == CHOOSE f : XorUpTo(f, n)
           F == [a \in Nat |-> [b \in Nat |-> best(a)[a][b]]]
           Solves(f) == f = [a \in Nat |-> [b \in Nat |-> XorBody(f, a, b)]]
<1>1. ASSUME NEW n \in Nat PROVE XorUpTo(best(n), n)
  BY XorUpToExists
<1> HIDE DEF best
<1>2. ASSUME NEW a \in Nat, NEW b \in Nat
      PROVE  best(a)[a][b] \in Nat /\ best(a)[a][b] = XorBody(best(a), a, b)
  <2>1. XorUpTo(best(a), a) /\ a \in 0 .. a
    BY <1>1
  <2> QED
    BY <2>1 DEF XorUpTo
<1>3. F \in [Nat -> [Nat -> Nat]]
  BY <1>2
<1>4. ASSUME NEW a \in Nat, NEW b \in Nat PROVE F[a][b] = XorBody(F, a, b)
  <2>1. F[a][b] = best(a)[a][b]
    OBVIOUS
  <2>2. best(a)[a][b] = XorBody(best(a), a, b)
    BY <1>2
  <2>3. CASE a = 0
    BY <2>1, <2>2, <2>3 DEF XorBody
  <2>4. CASE a # 0
    <3> DEFINE h == a \div 2
               k == b \div 2
    <3>1. h \in Nat /\ k \in Nat /\ h <= a
      BY <2>4, Halves
    <3> HIDE DEF h, k
    <3>2. best(a)[h][k] = best(h)[h][k]
      BY <1>1, <3>1, XorUpToUnique
    <3>3. F[h][k] = best(h)[h][k]
      BY <3>1
    <3> QED
      BY <2>1, <2>2, <2>4, <3>2, <3>3 DEF XorBody, h, k
  <2> QED
    BY <2>3, <2>4
<1> HIDE DEF F
<1>5. Solves(F)
  BY <1>3, <1>4
<1>6. Xor = CHOOSE f : Solves(f)
  BY DEF Xor, XorBody
<1> HIDE DEF Solves
<1>7. Solves(Xor)
  BY <1>5, <1>6
<1>8. /\ Xor = [a \in Nat |-> Xor[a]]
      /\ \A a \in Nat : Xor[a] = [b \in Nat |-> XorBody(Xor, a, b)]
  BY <1>7 DEF Solves
<1>9. \A a, b \in Nat : Xor[a][b] = XorBody(Xor, a, b)
  BY <1>8
<1> DEFINE S == {n \in Nat : \A a \in 0 .. n : \A b \in Nat : Xor[a][b] \in Nat}
<1>10. 0 \in S
  BY <1>9 DEF XorBody
<1>11. ASSUME NEW n \in Nat, n \in S PROVE n + 1 \in S
  <2> SUFFICES ASSUME NEW b \in Nat PROVE Xor[n + 1][b] \in Nat
    <3>1. \A a \in 0 .. n + 1 : a \in 0 .. n \/ a = n + 1
      OBVIOUS
    <3> QED
      BY <1>11, <3>1
  <2>1. Xor[n + 1][b] = ((n + 1 + b) % 2) + 2 * Xor[(n + 1) \div 2][b \div 2]
    BY <1>9 DEF XorBody
  <2>2. (n + 1) \div 2 \in 0 .. n /\ b \div 2 \in Nat /\ (n + 1 + b) % 2 \in Nat
    BY Halves
  <2>3. Xor[(n + 1) \div 2][b \div 2] \in Nat
    BY <1>11, <2>2
  <2> QED
    BY <2>1, <2>2, <2>3
<1> HIDE DEF S
<1>12. \A n \in Nat : n \in S
  BY <1>10, <1>11, SetInduction
<1>13. ASSUME NEW a \in Nat, NEW b \in Nat PROVE Xor[a][b] \in Nat
  <2>1. a \in S /\ a \in 0 .. a
    BY <1>12
  <2> QED
    BY <2>1 DEF S
<1> QED
  BY <1>8, <1>9, <1>13

\* Exclusive or works on each bit alone: here on the lowest one, and on the others.
LEMMA XorHalves ==
  ASSUME NEW a \in Nat, NEW b \in Nat
  PROVE  /\ Xor[a][b] \in Nat
         /\ Xor[a][b] \div 2 = Xor[a \div 2][b \div 2]
         /\ Xor[a][b] % 2 = (a + b) % 2
<1>1. Xor[a][b] = XorBody(Xor, a, b) /\ Xor[a][b] \in Nat
  BY XorEquation
<1>2. CASE a = 0
  <2>1. a \div 2 = 0 /\ b \div 2 \in Nat
    BY <1>2, Halves
  <2>2. Xor[a \div 2][b \div 2] = b \div 2
    BY <2>1, XorEquation DEF XorBody
  <2> QED
    BY <1>1, <1>2, <2>2 DEF XorBody
<1>3. CASE a # 0
  <2> DEFINE q == Xor[a \div 2][b \div 2]
  <2>1. q \in Nat
    BY Halves, XorEquation
  <2>2. Xor[a][b] = ((a + b) % 2) + 2 * q
    BY <1>1, <1>3 DEF XorBody
  <2> HIDE DEF q
  <2>3. (a + b) % 2 \in {0, 1}
    OBVIOUS
  <2>4. Xor[a][b] \div 2 = q /\ Xor[a][b] % 2 = (a + b) % 2
    BY <2>1, <2>2, <2>3
  <2> QED
    BY <1>1, <2>4 DEF q
<1> QED
  BY <1>2, <1>3

\* Exclusive or with the same number twice changes nothing.
LEMMA XorInvolution ==
  ASSUME NEW a \in Nat, NEW b \in Nat
  PROVE  Xor[Xor[a][b]][b] = a
<1> DEFINE S == {n \in Nat : \A x, y \in 0 .. n : Xor[Xor[x][y]][y] = x}
<1>1. 0 \in S
  <2>1. Xor[0][0] = 0
    BY XorEquation DEF XorBody
  <2>2. \A x \in 0 .. 0 : x = 0
    OBVIOUS
  <2> QED
    BY <2>1, <2>2
<1>2. ASSUME NEW n \in Nat, n \in S PROVE n + 1 \in S
  <2> SUFFICES ASSUME NEW x \in 0 .. n + 1, NEW y \in 0 .. n + 1
               PROVE  Xor[Xor[x][y]][y] = x
    OBVIOUS
  <2> DEFINE z == Xor[x][y]
             w == Xor[z][y]
  <2>1. x \in Nat /\ y \in Nat /\ x \div 2 \in 0 .. n /\ y \div 2 \in 0 .. n
    BY Halves
  <2>2. z \in Nat /\ z \div 2 = Xor[x \div 2][y \div 2] /\ z % 2 = (x + y) % 2
    BY <2>1, XorHalves
  <2>3. w \in Nat /\ w \div 2 = Xor[z \div 2][y \div 2] /\ w % 2 = (z + y) % 2
    BY <2>1, <2>2, XorHalves
  <2>4. w \div 2 = x \div 2
    BY <1>2, <2>1, <2>2, <2>3
  <2> HIDE DEF w, z
  <2>5. w % 2 = x % 2
    BY <2>1, <2>2, <2>3
  <2>6. w = x
    BY <2>1, <2>3, <2>4, <2>5, Halves
  <2> QED
    BY <2>6 DEF w, z
<1> HIDE DEF S
<1>3. \A n \in Nat : n \in S
  BY <1>1, <1>2, SetInduction
<1>4. a + b \in S /\ a \in 0 .. a + b /\ b \in 0 .. a + b
  BY <1>3
<1> QED
  BY <1>4 DEF S

\* On numbers of n bits it gives a number of n bits, and one more bit on top of
\* each of them changes the bit on top of the result and nothing else.
LEMMA XorBits ==
  ASSUME NEW n \in Nat
  PROVE  \A a, b \in 0 .. 2 ^ n - 1 :
           /\ Xor[a][b] \in 0 .. 2 ^ n - 1
           /\ Xor[a + 2 ^ n][b] = Xor[a][b] + 2 ^ n
           /\ Xor[a][b + 2 ^ n] = Xor[a][b] + 2 ^ n
           /\ Xor[a + 2 ^ n][b + 2 ^ n] = Xor[a][b]
<1> DEFINE Bits(m, a, b) == /\ Xor[a][b] \in 0 .. m - 1
                            /\ Xor[a + m][b] = Xor[a][b] + m
                            /\ Xor[a][b + m] = Xor[a][b] + m
                            /\ Xor[a + m][b + m] = Xor[a][b]
           S == {k \in Nat : \A a, b \in 0 .. 2 ^ k - 1 : Bits(2 ^ k, a, b)}
<1>1. 0 \in S
  <2>1. 2 ^ 0 = 1
    OBVIOUS
  <2>2. Bits(1, 0, 0)
    <3>1. Xor[0][0] = 0 /\ Xor[0][1] = 1
      BY XorEquation DEF XorBody
    <3>2. Xor[1][0] = XorBody(Xor, 1, 0) /\ Xor[1][1] = XorBody(Xor, 1, 1)
      BY XorEquation
    <3>3. 1 \div 2 = 0 /\ 0 \div 2 = 0
      OBVIOUS
    <3>4. /\ XorBody(Xor, 1, 0) = ((1 + 0) % 2) + 2 * Xor[0][0]
          /\ XorBody(Xor, 1, 1) = ((1 + 1) % 2) + 2 * Xor[0][0]
      BY <3>3 DEF XorBody
    <3> QED
      BY <3>1, <3>2, <3>4
  <2>3. \A a \in 0 .. 1 - 1 : a = 0
    OBVIOUS
  <2> QED
    BY <2>1, <2>2, <2>3
<1>2. ASSUME NEW k \in Nat, k \in S PROVE k + 1 \in S
  <2> DEFINE m == 2 ^ k
  <2>1. m \in Nat /\ m > 0 /\ 2 ^ (k + 1) = 2 * m
    BY PowerPositive, PowerDoubles
  <2>2. \A a, b \in 0 .. m - 1 : Bits(m, a, b)
    BY <1>2
  <2> HIDE DEF m
  <2>3. ASSUME NEW a \in 0 .. 2 * m - 1, NEW b \in 0 .. 2 * m - 1
        PROVE  Bits(2 * m, a, b)
    <3> DEFINE c == a \div 2
               d == b \div 2
               x == Xor[c][d]
    <3>1. c \in 0 .. m - 1 /\ d \in 0 .. m - 1 /\ a \in Nat /\ b \in Nat
      BY <2>1
    <3>2. (a + 2 * m) \div 2 = c + m /\ (b + 2 * m) \div 2 = d + m
      BY <2>1
    <3>3. /\ x \in 0 .. m - 1 /\ Xor[c + m][d] = x + m
          /\ Xor[c][d + m] = x + m /\ Xor[c + m][d + m] = x
      BY <2>2, <3>1
    <3>4. /\ Xor[a][b] \in Nat /\ Xor[a][b] \div 2 = x
          /\ Xor[a][b] % 2 = (a + b) % 2
      BY <3>1, XorHalves
    <3>5. /\ Xor[a + 2 * m][b] \in Nat /\ Xor[a + 2 * m][b] \div 2 = x + m
          /\ Xor[a + 2 * m][b] % 2 = (a + 2 * m + b) % 2
      <4>1. a + 2 * m \in Nat
        BY <2>1
      <4> QED
        BY <3>1, <3>2, <3>3, <4>1, XorHalves
    <3>6. /\ Xor[a][b + 2 * m] \in Nat /\ Xor[a][b + 2 * m] \div 2 = x + m
          /\ Xor[a][b + 2 * m] % 2 = (a + (b + 2 * m)) % 2
      <4> DEFINE e == b + 2 * m
      <4>1. e \in Nat /\ e \div 2 = d + m
        BY <2>1, <3>2
      <4> HIDE DEF e
      <4>2. /\ Xor[a][e] \in Nat /\ Xor[a][e] \div 2 = Xor[a \div 2][e \div 2]
            /\ Xor[a][e] % 2 = (a + e) % 2
        BY <3>1, <4>1, XorHalves
      <4>3. Xor[a \div 2][e \div 2] = x + m
        BY <3>3, <4>1, Zenon DEF c
      <4> QED
        BY <4>2, <4>3 DEF e
    <3>7. /\ Xor[a + 2 * m][b + 2 * m] \in Nat /\ Xor[a + 2 * m][b + 2 * m] \div 2 = x
          /\ Xor[a + 2 * m][b + 2 * m] % 2 = (a + 2 * m + (b + 2 * m)) % 2
      <4> DEFINE g == a + 2 * m
                 e == b + 2 * m
      <4>1. g \in Nat /\ e \in Nat /\ g \div 2 = c + m /\ e \div 2 = d + m
        BY <2>1, <3>2
      <4> HIDE DEF g, e
      <4>2. /\ Xor[g][e] \in Nat /\ Xor[g][e] \div 2 = Xor[g \div 2][e \div 2]
            /\ Xor[g][e] % 2 = (g + e) % 2
        BY <4>1, XorHalves
      <4>3. Xor[g \div 2][e \div 2] = x
        BY <3>3, <4>1, Zenon
      <4> QED
        BY <4>2, <4>3 DEF g, e
    <3> HIDE DEF c, d, x
    <3>8. Xor[a][b] \in 0 .. 2 * m - 1
      BY <2>1, <3>3, <3>4
    <3>9. Xor[a + 2 * m][b] = Xor[a][b] + 2 * m
      BY <2>1, <3>1, <3>3, <3>4, <3>5
    <3>10. Xor[a][b + 2 * m] = Xor[a][b] + 2 * m
      BY <2>1, <3>1, <3>3, <3>4, <3>6
    <3>11. Xor[a + 2 * m][b + 2 * m] = Xor[a][b]
      BY <2>1, <3>1, <3>3, <3>4, <3>7
    <3> QED
      BY <3>8, <3>9, <3>10, <3>11
  <2> HIDE DEF Bits
  <2> QED
    BY <2>1, <2>3
<1> HIDE DEF S
<1>3. n \in S
  BY <1>1, <1>2, SetInduction
<1> QED
  BY <1>3 DEF S
-----------------------------------------------------------------------------
(***************************************************************************)
(* The two buckets of a hash value.                                        *)
(***************************************************************************)

\* The remainder with a modulus twice as large has at most one more bit on top.
LEMMA RemainderDoubles ==
  ASSUME NEW a \in Nat, NEW m \in Nat, m > 0
  PROVE  a % (2 * m) \in {a % m, (a % m) + m} /\ a % m \in 0 .. m - 1
<1> DEFINE r == a % (2 * m)
           q == a \div (2 * m)
<1>1. r \in 0 .. 2 * m - 1 /\ q \in Nat /\ a = (2 * m) * q + r
  OBVIOUS
<1> HIDE DEF r, q
<1>2. CASE r < m
  <2>1. a = m * (2 * q) + r /\ 2 * q \in Nat
    BY <1>1
  <2>2. a % m = r
    BY <1>1, <1>2, <2>1
  <2> QED
    BY <1>1, <1>2, <2>2 DEF r
<1>3. CASE r >= m
  <2> DEFINE q2 == 2 * q + 1
             r2 == r - m
  <2>1. a = m * q2 + r2 /\ q2 \in Nat /\ r2 \in Nat /\ r2 < m /\ r = r2 + m
    BY <1>1, <1>3
  <2> HIDE DEF q2, r2
  <2>2. a % m = r2
    BY <2>1
  <2> QED
    BY <1>1, <1>3, <2>1, <2>2 DEF r
<1> QED
  BY <1>1, <1>2, <1>3

\* The number of buckets.
LEMMA HashsizeDoubles ==
  ASSUME NEW hp \in Nat
  PROVE  /\ hashsize(hp) \in Nat /\ hashsize(hp) > 0
         /\ hashsize(hp + 1) = 2 * hashsize(hp)
BY PowerPositive, PowerDoubles DEF hashsize

\* A partial key is a natural number.
LEMMA PartialKeyType ==
  ASSUME NEW hash \in Nat
  PROVE  partial_key(hash) \in Nat
<1> DEFINE h == Xor[hash % 65536][hash \div 65536]
<1>1. hash % 65536 \in Nat /\ hash \div 65536 \in Nat
  OBVIOUS
<1>2. h \in Nat
  BY <1>1, XorEquation
<1> HIDE DEF h
<1>3. h % 256 \in Nat /\ h \div 256 \in Nat
  BY <1>2
<1>4. Xor[h % 256][h \div 256] \in Nat
  BY <1>3, XorEquation
<1> QED
  BY <1>4 DEF h, partial_key

\* What alt_index combines with the index of a bucket.
Displacement(hp, partial) == ((partial + 1) * Multiplier) % hashsize(hp)

\* The displacement for a table twice as large.
LEMMA DisplacementDoubles ==
  ASSUME NEW hp \in Nat, NEW partial \in Nat
  PROVE  /\ Displacement(hp, partial) \in 0 .. hashsize(hp) - 1
         /\ Displacement(hp + 1, partial)
              \in {Displacement(hp, partial), Displacement(hp, partial) + hashsize(hp)}
<1> DEFINE a == (partial + 1) * Multiplier
<1>1. a \in Nat
  BY DEF Multiplier
<1> HIDE DEF a
<1> QED
  BY <1>1, RemainderDoubles, HashsizeDoubles DEF Displacement, a

\* alt_index gives a bucket of the table, and from there it leads back.
LEMMA AltIndexInvolution ==
  ASSUME NEW hp \in Nat, NEW partial \in Nat, NEW index \in 0 .. hashsize(hp) - 1
  PROVE  /\ alt_index(hp, partial, index) = Xor[index][Displacement(hp, partial)]
         /\ alt_index(hp, partial, index) \in 0 .. hashsize(hp) - 1
         /\ alt_index(hp, partial, alt_index(hp, partial, index)) = index
<1> DEFINE d == Displacement(hp, partial)
           m == hashsize(hp)
           other == Xor[index][d]
<1>1. m \in Nat /\ m > 0
  BY HashsizeDoubles
<1>2. d \in 0 .. m - 1
  BY DisplacementDoubles
<1>3. index \in 0 .. m - 1 /\ index \in Nat /\ d \in Nat
  BY <1>1, <1>2
<1>4. other \in 0 .. m - 1
  BY <1>2, <1>3, XorBits DEF hashsize
<1>5. \A i \in 0 .. m - 1 : i % m = i
  BY <1>1
<1>6. alt_index(hp, partial, index) = other
  BY <1>3, <1>5 DEF alt_index, Displacement
<1>7. alt_index(hp, partial, other) = Xor[other][d]
  BY <1>4, <1>5 DEF alt_index, Displacement
<1>8. Xor[other][d] = index
  BY <1>3, XorInvolution
<1> QED
  BY <1>4, <1>6, <1>7, <1>8

\* Both buckets of a hash value are buckets of the table, and each is the other one
\* of the other.
LEMMA TwoBucketsType ==
  ASSUME NEW hp \in Nat, NEW hash \in Nat,
         NEW i1, i1 = TwoBuckets(hp, hash)[1], NEW i2, i2 = TwoBuckets(hp, hash)[2]
  PROVE  /\ i1 = hash % hashsize(hp)
         /\ i1 \in 0 .. hashsize(hp) - 1 /\ i2 \in 0 .. hashsize(hp) - 1
         /\ i2 = Xor[i1][Displacement(hp, partial_key(hash))]
         /\ alt_index(hp, partial_key(hash), i1) = i2
         /\ alt_index(hp, partial_key(hash), i2) = i1
<1>1. i1 = hash % hashsize(hp) /\ i2 = alt_index(hp, partial_key(hash), i1)
  BY DEF TwoBuckets, index_hash
<1>2. i1 \in 0 .. hashsize(hp) - 1
  BY <1>1, HashsizeDoubles
<1> DEFINE p == partial_key(hash)
<1>3. p \in Nat
  BY PartialKeyType
<1> HIDE DEF p
<1>4. /\ alt_index(hp, p, i1) = Xor[i1][Displacement(hp, p)]
      /\ alt_index(hp, p, i1) \in 0 .. hashsize(hp) - 1
      /\ alt_index(hp, p, alt_index(hp, p, i1)) = i1
  BY <1>2, <1>3, AltIndexInvolution
<1> QED
  BY <1>1, <1>2, <1>4 DEF p

\* In a table twice as large each of the two buckets is where it was, or as many
\* buckets further as the old table had.
LEMMA BucketsAfterDoubling ==
  ASSUME NEW hp \in Nat, NEW hash \in Nat, NEW j \in {1, 2}
  PROVE  TwoBuckets(hp + 1, hash)[j]
           \in {TwoBuckets(hp, hash)[j], TwoBuckets(hp, hash)[j] + hashsize(hp)}
<1> DEFINE m == hashsize(hp)
           d == Displacement(hp, partial_key(hash))
           e == Displacement(hp + 1, partial_key(hash))
           i1 == TwoBuckets(hp, hash)[1]
           i2 == TwoBuckets(hp, hash)[2]
           n1 == TwoBuckets(hp + 1, hash)[1]
           n2 == TwoBuckets(hp + 1, hash)[2]
<1>1. m \in Nat /\ m > 0 /\ hashsize(hp + 1) = 2 * m /\ hp + 1 \in Nat
  BY HashsizeDoubles
<1>2. i1 = hash % m /\ i1 \in 0 .. m - 1 /\ i2 = Xor[i1][d]
  BY TwoBucketsType
<1>3. n1 = hash % (2 * m) /\ n2 = Xor[n1][e]
  BY <1>1, TwoBucketsType
<1>4. d \in 0 .. m - 1 /\ e \in {d, d + m}
  BY DisplacementDoubles, PartialKeyType
<1>5. /\ Xor[i1 + m][d] = Xor[i1][d] + m
      /\ Xor[i1][d + m] = Xor[i1][d] + m
      /\ Xor[i1 + m][d + m] = Xor[i1][d]
  BY <1>2, <1>4, XorBits DEF hashsize
<1>6. n1 \in {i1, i1 + m}
  BY <1>1, <1>2, <1>3, RemainderDoubles
<1> HIDE DEF m, d, e, i1, i2, n1, n2
<1>7. n2 \in {i2, i2 + m}
  BY <1>2, <1>3, <1>4, <1>5, <1>6
<1> QED
  BY <1>6, <1>7 DEF i1, i2, n1, n2, m

\* The test of move_buckets takes an item from one of its buckets in the old table
\* to one of its buckets in the table that is twice as large.
LEMMA MovesUpRight ==
  ASSUME NEW hp \in Nat, NEW hash \in Nat,
         NEW i \in {TwoBuckets(hp, hash)[1], TwoBuckets(hp, hash)[2]}
  PROVE  (IF MovesUp(hp, i, hash) THEN i + hashsize(hp) ELSE i)
           \in {TwoBuckets(hp + 1, hash)[1], TwoBuckets(hp + 1, hash)[2]}
<1> DEFINE m == hashsize(hp)
           i1 == TwoBuckets(hp, hash)[1]
           i2 == TwoBuckets(hp, hash)[2]
           n1 == TwoBuckets(hp + 1, hash)[1]
           n2 == TwoBuckets(hp + 1, hash)[2]
<1>1. n1 \in {i1, i1 + m} /\ n2 \in {i2, i2 + m}
  BY BucketsAfterDoubling
<1>2. MovesUp(hp, i, hash) <=> (i = i1 /\ n1 = i + m) \/ (i = i2 /\ n2 = i + m)
  BY DEF MovesUp
<1> HIDE DEF m, n1, n2
<1> QED
  BY <1>1, <1>2 DEF m, n1, n2
-----------------------------------------------------------------------------
(***************************************************************************)
(* reserve_calc.                                                           *)
(***************************************************************************)

\* There are tables with more than any number of buckets.
LEMMA HashsizeExceeds == \A n \in Nat : hashsize(n) > n
<1> DEFINE S == {n \in Nat : hashsize(n) > n}
<1>1. 0 \in S
  <2>1. 2 ^ 0 = 1
    OBVIOUS
  <2> QED
    BY <2>1 DEF hashsize
<1>2. ASSUME NEW n \in Nat, n \in S PROVE n + 1 \in S
  <2>1. hashsize(n) \in Nat /\ hashsize(n + 1) = 2 * hashsize(n)
    BY HashsizeDoubles
  <2> QED
    BY <1>2, <2>1
<1> HIDE DEF S
<1>3. \A n \in Nat : n \in S
  BY <1>1, <1>2, SetInduction
<1> QED
  BY <1>3 DEF S

\* h is where the loop of reserve_calc ends when it starts at hp.
LoopEnd(buckets, hp, h) ==
  /\ h >= hp /\ hashsize(h) >= buckets
  /\ \A k \in hp .. h - 1 : hashsize(k) < buckets

\* The body of blog2, with f for the recursive call.
BlogBody(f, buckets, hp) == IF hashsize(hp) < buckets THEN f[hp + 1] ELSE hp

\* The loop ends.
LEMMA LoopEndExists ==
  ASSUME NEW buckets \in Nat, NEW hp \in Nat
  PROVE  \E h \in Nat : LoopEnd(buckets, hp, h)
<1> DEFINE S == {h \in Nat : h >= hp /\ hashsize(h) >= buckets}
<1>1. S # {}
  <2> DEFINE n == hp + buckets
  <2>1. n \in Nat /\ n >= hp /\ n >= buckets
    OBVIOUS
  <2> HIDE DEF n
  <2>2. hashsize(n) \in Nat /\ hashsize(n) > n
    BY <2>1, HashsizeDoubles, HashsizeExceeds
  <2>3. n \in S
    BY <2>1, <2>2
  <2> QED
    BY <2>3
<1>2. PICK h \in S : \A k \in S : h <= k
  <2>1. S \in SUBSET Nat
    OBVIOUS
  <2> HIDE DEF S
  <2> QED
    BY <1>1, <2>1, LeastElement
<1>3. ASSUME NEW k \in hp .. h - 1 PROVE hashsize(k) < buckets
  <2>1. k \in Nat /\ k >= hp /\ ~ (h <= k) /\ hashsize(k) \in Nat
    BY HashsizeDoubles
  <2>2. k \notin S
    BY <1>2, <2>1
  <2> QED
    BY <2>1, <2>2
<1> QED
  BY <1>3 DEF LoopEnd

\* The loop that starts at hp ends where the one that starts at hp + 1 does, unless
\* it ends at once.
LEMMA LoopEndStep ==
  ASSUME NEW buckets \in Nat, NEW hp \in Nat, NEW h \in Nat, NEW k \in Nat,
         LoopEnd(buckets, hp, h), LoopEnd(buckets, hp + 1, k)
  PROVE  h = IF hashsize(hp) < buckets THEN k ELSE hp
<1>1. \A j \in Nat : hashsize(j) \in Nat
  BY HashsizeDoubles
<1>2. CASE hashsize(hp) < buckets
  <2>1. h >= hp + 1
    BY <1>1, <1>2 DEF LoopEnd
  <2>2. ~ (h < k)
    <3>1. SUFFICES ASSUME h < k PROVE FALSE
      OBVIOUS
    <3>2. h \in hp + 1 .. k - 1
      BY <2>1, <3>1
    <3> QED
      BY <1>1, <3>2 DEF LoopEnd
  <2>3. ~ (k < h)
    <3>1. SUFFICES ASSUME k < h PROVE FALSE
      OBVIOUS
    <3>2. k \in hp .. h - 1
      BY <3>1 DEF LoopEnd
    <3> QED
      BY <1>1, <3>2 DEF LoopEnd
  <2> QED
    BY <1>2, <2>2, <2>3
<1>3. CASE ~ (hashsize(hp) < buckets)
  <2>1. ~ (hp < h)
    BY <1>1, <1>3 DEF LoopEnd
  <2> QED
    BY <1>3, <2>1 DEF LoopEnd
<1> QED
  BY <1>2, <1>3

\* A function that satisfies the equation of blog2 gives the end of the loop.
LEMMA BlogIsLoopEnd ==
  ASSUME NEW buckets \in Nat, NEW hp \in Nat, NEW h \in Nat, LoopEnd(buckets, hp, h),
         NEW f, \A k \in Nat : f[k] = BlogBody(f, buckets, k)
  PROVE  f[hp] = h
<1> DEFINE S == {j \in Nat : j <= h - hp => f[h - j] = h}
<1>1. \A j \in Nat : hashsize(j) \in Nat
  BY HashsizeDoubles
<1>2. 0 \in S
  <2>1. f[h] = h
    BY <1>1 DEF BlogBody, LoopEnd
  <2>2. h - 0 = h
    OBVIOUS
  <2> QED
    BY <2>1, <2>2
<1>3. ASSUME NEW j \in Nat, j \in S PROVE j + 1 \in S
  <2>1. SUFFICES ASSUME j + 1 <= h - hp PROVE f[h - (j + 1)] = h
    OBVIOUS
  <2> DEFINE k == h - (j + 1)
  <2>2. k \in hp .. h - 1 /\ k \in Nat /\ k + 1 = h - j /\ j <= h - hp
    BY <2>1 DEF LoopEnd
  <2> HIDE DEF k
  <2>3. f[k + 1] = h
    BY <1>3, <2>2
  <2>4. hashsize(k) < buckets
    BY <2>2 DEF LoopEnd
  <2>5. f[k] = h
    BY <2>2, <2>3, <2>4 DEF BlogBody
  <2> QED
    BY <2>5 DEF k
<1> DEFINE i == h - hp
<1>4. i \in Nat /\ i <= h - hp /\ hp = h - i
  BY DEF LoopEnd
<1>5. i \in S
  <2> HIDE DEF S, i
  <2> QED
    BY <1>2, <1>3, <1>4, SetInduction
<1> HIDE DEF i
<1> QED
  BY <1>4, <1>5

\* reserve_calc gives the end of its loop.
LEMMA ReserveCalcLoop ==
  ASSUME NEW n \in Nat,
         NEW buckets \in Nat, buckets = (n + SLOT_PER_BUCKET - 1) \div SLOT_PER_BUCKET
  PROVE  reserve_calc(n) \in Nat /\ LoopEnd(buckets, 1, reserve_calc(n))
<1> DEFINE end(hp) == CHOOSE h \in Nat : LoopEnd(buckets, hp, h)
           F == [hp \in Nat |-> end(hp)]
           Solves(f) == f = [hp \in Nat |-> BlogBody(f, buckets, hp)]
           blog2 == CHOOSE f : Solves(f)
<1>1. ASSUME NEW hp \in Nat PROVE end(hp) \in Nat /\ LoopEnd(buckets, hp, end(hp))
  BY LoopEndExists
<1> HIDE DEF end
<1>2. ASSUME NEW hp \in Nat PROVE F[hp] = BlogBody(F, buckets, hp)
  <2>1. hp + 1 \in Nat /\ F[hp] = end(hp) /\ F[hp + 1] = end(hp + 1)
    OBVIOUS
  <2> DEFINE h == end(hp)
             k == end(hp + 1)
  <2>2. /\ h \in Nat /\ LoopEnd(buckets, hp, h)
        /\ k \in Nat /\ LoopEnd(buckets, hp + 1, k)
    BY <1>1, <2>1
  <2> HIDE DEF h, k
  <2>3. h = IF hashsize(hp) < buckets THEN k ELSE hp
    BY <2>2, LoopEndStep
  <2> HIDE DEF F
  <2> QED
    BY <2>1, <2>3 DEF BlogBody, h, k
<1>3. Solves(F)
  <2>1. F = [hp \in Nat |-> F[hp]]
    OBVIOUS
  <2> HIDE DEF F
  <2> QED
    BY <1>2, <2>1
<1>4. reserve_calc(n) = blog2[1]
  BY DEF reserve_calc, BlogBody
<1>5. Solves(blog2)
  <2> HIDE DEF Solves, F
  <2> QED
    BY <1>3
<1>6. \A k \in Nat : blog2[k] = BlogBody(blog2, buckets, k)
  <2> HIDE DEF blog2
  <2> QED
    BY <1>5
<1> HIDE DEF blog2
<1>7. blog2[1] = end(1)
  BY <1>1, <1>6, BlogIsLoopEnd
<1> QED
  BY <1>1, <1>4, <1>7

\* reserve_calc returns the smallest hashpower, other than 0, whose table has room
\* for n elements: the loop of the code ends at the right place for every n.
THEOREM ReserveCalcCorrect ==
  ASSUME NEW n \in Nat
  PROVE  /\ reserve_calc(n) \in Nat /\ reserve_calc(n) >= 1
         /\ n <= hashsize(reserve_calc(n)) * SLOT_PER_BUCKET
         /\ \A h \in 1 .. reserve_calc(n) - 1 : hashsize(h) * SLOT_PER_BUCKET < n
<1> DEFINE s == SLOT_PER_BUCKET
           b == (n + s - 1) \div s
           hpn == reserve_calc(n)
<1>1. s \in Nat /\ s > 0
  BY SlotAssumption
<1> HIDE DEF s
<1>2. b \in Nat /\ n <= b * s /\ (b - 1) * s < n
  <2> DEFINE r == (n + s - 1) % s
  <2>1. n + s - 1 \in Nat
    BY <1>1
  <2>2. b \in Nat /\ r \in 0 .. s - 1 /\ n + s - 1 = s * b + r
    BY <1>1, <2>1
  <2> HIDE DEF b, r
  <2>3. (b - 1) * s = s * b - s /\ b * s = s * b /\ s * b \in Nat
    BY <1>1, <2>2
  <2> QED
    BY <1>1, <2>2, <2>3
<1>3. hpn \in Nat /\ LoopEnd(b, 1, hpn)
  BY <1>2, ReserveCalcLoop DEF s
<1> HIDE DEF b, hpn
<1>4. \A h \in Nat : hashsize(h) \in Nat
  BY HashsizeDoubles
<1>5. \A x, y \in Int : x <= y => x * s <= y * s
  BY <1>1
<1>6. n <= hashsize(hpn) * s
  BY <1>1, <1>2, <1>3, <1>4, <1>5 DEF LoopEnd
<1>7. ASSUME NEW h \in 1 .. hpn - 1 PROVE hashsize(h) * s < n
  <2>1. hashsize(h) \in Nat /\ hashsize(h) <= b - 1 /\ b - 1 \in Int
    BY <1>2, <1>3, <1>4 DEF LoopEnd
  <2>2. hashsize(h) * s <= (b - 1) * s
    BY <1>5, <2>1
  <2> DEFINE x == hashsize(h) * s
             y == (b - 1) * s
  <2>3. x \in Int /\ y \in Int
    BY <1>1, <2>1
  <2> HIDE DEF x, y
  <2>4. x < n
    BY <1>2, <2>2, <2>3 DEF x, y
  <2> QED
    BY <2>4 DEF x
<1> QED
  BY <1>3, <1>6, <1>7 DEF s, hpn, LoopEnd
=============================================================================
