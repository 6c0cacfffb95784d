------------------------- MODULE LockedTableProofs -------------------------
(***************************************************************************)
(* Proofs about locked_table: the locks of a table are owned by one handle *)
(* at a time, iterators are valid exactly as long as the table is locked,  *)
(* and iteration visits every item once, in both directions.               *)
(***************************************************************************)
EXTENDS LockedTable, FiniteSetTheorems, WellFoundedInduction, TLAPS

-----------------------------------------------------------------------------
(***************************************************************************)
(* Positions in an array of buckets, and the loops of operator++ and       *)
(* operator--.  The recursive functions of After and Before are known by   *)
(* induction over the positions they pass.                                 *)
(***************************************************************************)

\* Induction over the naturals.
LEMMA CountingUp ==
  ASSUME NEW S, 0 \in S, \A n \in Nat : n \in S => n + 1 \in S
  PROVE  \A n \in Nat : n \in S
<1> SUFFICES ASSUME NEW k \in Nat, k \notin S PROVE FALSE
  OBVIOUS
<1> DEFINE R == OpToRel(<, Nat)
           T == Nat \ S
<1>1. \A x, y \in Nat : y < x => <<y, x>> \in R
  BY DEF OpToRel
<1>2. IsWellFoundedOn(R, Nat)
  BY NatLessThanWellFounded
<1> HIDE DEF R
<1>3. T \subseteq Nat /\ T # {}
  OBVIOUS
<1> HIDE DEF T
<1>4. PICK x \in T : \A y \in T : ~ (<<y, x>> \in R)
  BY <1>2, <1>3, WFMin
<1>5. x \in Nat /\ x # 0 /\ x \notin S
  BY DEF T
<1>6. x - 1 \in Nat /\ x - 1 \notin S
  BY <1>5
<1>7. x - 1 \in T /\ x - 1 < x
  BY <1>5, <1>6 DEF T
<1> QED
  BY <1>1, <1>4, <1>5, <1>6, <1>7

\* Induction against the direction of operator++: from the end position, slot by
\* slot and bucket by bucket.
LEMMA FromTheEnd ==
  ASSUME NEW n \in Nat, NEW m \in Nat, NEW G,
         \A s \in -1 .. m : <<n, s>> \in G,
         \A i \in 0 .. n - 1, s \in -1 .. m :
           /\ s + 1 >= m /\ <<i + 1, -1>> \in G => <<i, s>> \in G
           /\ s + 1 < m /\ <<i, s + 1>> \in G => <<i, s>> \in G
  PROVE  \A i \in 0 .. n, s \in -1 .. m : <<i, s>> \in G
<1> DEFINE A == {k \in Nat : \A i \in 0 .. n : n - i = k => \A s \in -1 .. m : <<i, s>> \in G}
<1>1. 0 \in A
  OBVIOUS
<1>2. ASSUME NEW k \in Nat, k \in A
      PROVE  k + 1 \in A
  <2> SUFFICES ASSUME NEW i \in 0 .. n, n - i = k + 1
               PROVE  \A s \in -1 .. m : <<i, s>> \in G
    OBVIOUS
  <2>1. i \in 0 .. n - 1 /\ i + 1 \in 0 .. n /\ n - (i + 1) = k
    OBVIOUS
  <2>2. <<i + 1, -1>> \in G
    BY <1>2, <2>1
  <2> DEFINE B == {j \in Nat : \A s \in -1 .. m : m - s = j => <<i, s>> \in G}
  <2>3. 0 \in B
    <3> SUFFICES ASSUME NEW s \in -1 .. m, m - s = 0
                 PROVE  <<i, s>> \in G
      OBVIOUS
    <3>1. s + 1 >= m
      OBVIOUS
    <3> QED
      BY <2>1, <2>2, <3>1
  <2>4. ASSUME NEW j \in Nat, j \in B
        PROVE  j + 1 \in B
    <3> SUFFICES ASSUME NEW s \in -1 .. m, m - s = j + 1
                 PROVE  <<i, s>> \in G
      OBVIOUS
    <3>1. s + 1 \in -1 .. m /\ m - (s + 1) = j
      OBVIOUS
    <3>2. <<i, s + 1>> \in G
      BY <2>4, <3>1
    <3> QED
      BY <2>1, <2>2, <3>1, <3>2
  <2> HIDE DEF B
  <2>5. \A j \in Nat : j \in B
    BY <2>3, <2>4, CountingUp
  <2> QED
    BY <2>5 DEF B
<1> HIDE DEF A
<1>3. \A k \in Nat : k \in A
  BY <1>1, <1>2, CountingUp
<1>4. ASSUME NEW i \in 0 .. n, NEW s \in -1 .. m
      PROVE  <<i, s>> \in G
  <2>1. n - i \in Nat
    OBVIOUS
  <2> QED
    BY <1>3, <2>1 DEF A
<1> QED
  BY <1>4

\* Induction against the direction of operator--: from before the first bucket.
LEMMA FromTheStart ==
  ASSUME NEW n \in Nat, NEW m \in Nat, NEW G,
         \A s \in -1 .. m : <<-1, s>> \in G,
         \A i \in 0 .. n, s \in -1 .. m :
           /\ s - 1 < 0 /\ <<i - 1, m>> \in G => <<i, s>> \in G
           /\ s - 1 >= 0 /\ <<i, s - 1>> \in G => <<i, s>> \in G
  PROVE  \A i \in -1 .. n, s \in -1 .. m : <<i, s>> \in G
<1> DEFINE A == {k \in Nat : \A i \in -1 .. n : i + 1 = k => \A s \in -1 .. m : <<i, s>> \in G}
<1>1. 0 \in A
  OBVIOUS
<1>2. ASSUME NEW k \in Nat, k \in A
      PROVE  k + 1 \in A
  <2> SUFFICES ASSUME NEW i \in -1 .. n, i + 1 = k + 1
               PROVE  \A s \in -1 .. m : <<i, s>> \in G
    OBVIOUS
  <2>1. i \in 0 .. n /\ i - 1 \in -1 .. n /\ (i - 1) + 1 = k
    OBVIOUS
  <2>2. <<i - 1, m>> \in G
    BY <1>2, <2>1
  <2> DEFINE B == {j \in Nat : \A s \in -1 .. m : s + 1 = j => <<i, s>> \in G}
  <2>3. 0 \in B
    <3> SUFFICES ASSUME NEW s \in -1 .. m, s + 1 = 0
                 PROVE  <<i, s>> \in G
      OBVIOUS
    <3>1. s - 1 < 0
      OBVIOUS
    <3> QED
      BY <2>1, <2>2, <3>1
  <2>4. ASSUME NEW j \in Nat, j \in B
        PROVE  j + 1 \in B
    <3> SUFFICES ASSUME NEW s \in -1 .. m, s + 1 = j + 1
                 PROVE  <<i, s>> \in G
      OBVIOUS
    <3>1. s - 1 \in -1 .. m /\ (s - 1) + 1 = j
      OBVIOUS
    <3>2. <<i, s - 1>> \in G
      BY <2>4, <3>1
    <3> QED
      BY <2>1, <2>2, <3>1, <3>2
  <2> HIDE DEF B
  <2>5. \A j \in Nat : j \in B
    BY <2>3, <2>4, CountingUp
  <2> QED
    BY <2>5 DEF B
<1> HIDE DEF A
<1>3. \A k \in Nat : k \in A
  BY <1>1, <1>2, CountingUp
<1>4. ASSUME NEW i \in -1 .. n, NEW s \in -1 .. m
      PROVE  <<i, s>> \in G
  <2>1. i + 1 \in Nat
    OBVIOUS
  <2> QED
    BY <1>3, <2>1 DEF A
<1> QED
  BY <1>4

\* The order in which the iterators visit positions.
Precedes(p, q) == p[1] < q[1] \/ (p[1] = q[1] /\ p[2] < q[2])

\* The items in the first n buckets, and those of them that are before a position.
ItemsBelow(bs, n) == {p \in (0 .. n - 1) \X Slots : bs[p[1]][p[2]] # Vacant}

\* r is the position of the first item after p, or the position <<n, 0>> if there
\* is none.
IsAfter(bs, n, p, r) ==
  /\ r = <<n, 0>> \/ (r \in ItemsBelow(bs, n) /\ Precedes(p, r))
  /\ \A q \in ItemsBelow(bs, n) : Precedes(p, q) => ~ Precedes(q, r)

\* r is the position of the last item before p in the first m buckets, or e if there
\* is none.
IsBefore(bs, m, e, p, r) ==
  \/ /\ r \in ItemsBelow(bs, m) /\ Precedes(r, p)
     /\ \A q \in ItemsBelow(bs, m) : Precedes(q, p) => ~ Precedes(r, q)
  \/ /\ r = e
     /\ \A q \in ItemsBelow(bs, m) : ~ Precedes(q, p)

\* What the elements of ItemsBelow are.
LEMMA ItemFacts ==
  ASSUME NEW bs, NEW n \in Nat, NEW p \in ItemsBelow(bs, n)
  PROVE  /\ p[1] \in 0 .. n - 1 /\ p[2] \in 0 .. SLOT_PER_BUCKET - 1
         /\ p = <<p[1], p[2]>> /\ bs[p[1]][p[2]] # Vacant
  BY SlotAssumption DEF ItemsBelow, Slots

\* A pair that is an item.
LEMMA ItemAt ==
  ASSUME NEW bs, NEW n \in Nat, NEW i \in 0 .. n - 1, NEW s \in 0 .. SLOT_PER_BUCKET - 1
  PROVE  <<i, s>> \in ItemsBelow(bs, n) <=> bs[i][s] # Vacant
  BY SlotAssumption DEF ItemsBelow, Slots

\* Positions, other than <<n, 0>>, that are in order both ways are the same.
LEMMA SamePosition ==
  ASSUME NEW bs, NEW n \in Nat, NEW p \in ItemsBelow(bs, n), NEW q \in ItemsBelow(bs, n),
         ~ Precedes(p, q), ~ Precedes(q, p)
  PROVE  p = q
  BY ItemFacts DEF Precedes

\* The first item after p is unique.
LEMMA AfterUnique ==
  ASSUME NEW bs, NEW n \in Nat, NEW p, NEW r, NEW t,
         IsAfter(bs, n, p, r), IsAfter(bs, n, p, t)
  PROVE  r = t
<1>1. \A q \in ItemsBelow(bs, n) : Precedes(q, <<n, 0>>)
  BY ItemFacts DEF Precedes
<1>2. CASE r \in ItemsBelow(bs, n) /\ t \in ItemsBelow(bs, n)
  BY <1>1, <1>2, SamePosition, ItemFacts DEF IsAfter, Precedes
<1>3. CASE r \notin ItemsBelow(bs, n) \/ t \notin ItemsBelow(bs, n)
  BY <1>1, <1>3 DEF IsAfter
<1> QED
  BY <1>2, <1>3

\* The last item before p is unique.
LEMMA BeforeUnique ==
  ASSUME NEW bs, NEW n \in Nat, NEW e, NEW p, NEW r, NEW t,
         IsBefore(bs, n, e, p, r), IsBefore(bs, n, e, p, t)
  PROVE  r = t
  BY SamePosition DEF IsBefore

\* The cases of one round of the loop of operator++ at slot s of bucket i.
LEMMA AdvanceRound ==
  ASSUME NEW bs, NEW n \in Nat, NEW i \in 0 .. n, NEW s \in -1 .. SLOT_PER_BUCKET, NEW r
  PROVE  /\ i = n => IsAfter(bs, n, <<i, s>>, <<n, 0>>)
         /\ i < n /\ s + 1 >= SLOT_PER_BUCKET /\ IsAfter(bs, n, <<i + 1, -1>>, r)
              => IsAfter(bs, n, <<i, s>>, r)
         /\ i < n /\ s + 1 < SLOT_PER_BUCKET /\ bs[i][s + 1] # Vacant
              => IsAfter(bs, n, <<i, s>>, <<i, s + 1>>)
         /\ i < n /\ s + 1 < SLOT_PER_BUCKET /\ bs[i][s + 1] = Vacant
              /\ IsAfter(bs, n, <<i, s + 1>>, r)
              => IsAfter(bs, n, <<i, s>>, r)
<1> DEFINE items == ItemsBelow(bs, n)
<1>0. SLOT_PER_BUCKET \in Nat /\ SLOT_PER_BUCKET > 0
  BY SlotAssumption
<1>f. \A q \in items : /\ q[1] \in 0 .. n - 1 /\ q[2] \in 0 .. SLOT_PER_BUCKET - 1
                       /\ q = <<q[1], q[2]>> /\ bs[q[1]][q[2]] # Vacant
  BY ItemFacts
<1> HIDE DEF items
<1>1. ASSUME i = n
      PROVE  IsAfter(bs, n, <<i, s>>, <<n, 0>>)
  BY <1>1, <1>f DEF IsAfter, Precedes, items
<1>2. ASSUME i < n, s + 1 >= SLOT_PER_BUCKET, IsAfter(bs, n, <<i + 1, -1>>, r)
      PROVE  IsAfter(bs, n, <<i, s>>, r)
  <2>1. ASSUME NEW q \in items
        PROVE  Precedes(<<i, s>>, q) <=> Precedes(<<i + 1, -1>>, q)
    BY <1>0, <1>2, <1>f DEF Precedes
  <2> QED
    BY <1>2, <2>1 DEF IsAfter, items
<1>3. ASSUME i < n, s + 1 < SLOT_PER_BUCKET, bs[i][s + 1] # Vacant
      PROVE  IsAfter(bs, n, <<i, s>>, <<i, s + 1>>)
  <2>1. <<i, s + 1>> \in items
    BY <1>0, <1>3, ItemAt DEF items
  <2>2. Precedes(<<i, s>>, <<i, s + 1>>)
    BY <1>3 DEF Precedes
  <2>3. ASSUME NEW q \in items, Precedes(<<i, s>>, q)
        PROVE  ~ Precedes(q, <<i, s + 1>>)
    BY <1>f, <2>3 DEF Precedes
  <2> QED
    BY <2>1, <2>2, <2>3 DEF IsAfter, items
<1>4. ASSUME i < n, s + 1 < SLOT_PER_BUCKET, bs[i][s + 1] = Vacant,
             IsAfter(bs, n, <<i, s + 1>>, r)
      PROVE  IsAfter(bs, n, <<i, s>>, r)
  <2>1. ASSUME NEW q \in items
        PROVE  Precedes(<<i, s>>, q) <=> Precedes(<<i, s + 1>>, q)
    BY <1>f, <1>4 DEF Precedes
  <2> QED
    BY <1>4, <2>1 DEF IsAfter, items
<1> QED
  BY <1>1, <1>2, <1>3, <1>4

\* The cases of one round of the loop of operator-- at slot s of bucket i.
LEMMA RetreatRound ==
  ASSUME NEW bs, NEW n \in Nat, NEW e, NEW i \in -1 .. n, NEW s \in -1 .. SLOT_PER_BUCKET,
         NEW r
  PROVE  /\ i < 0 => IsBefore(bs, n + 1, e, <<i, s>>, e)
         /\ i >= 0 /\ s - 1 < 0 /\ IsBefore(bs, n + 1, e, <<i - 1, SLOT_PER_BUCKET>>, r)
              => IsBefore(bs, n + 1, e, <<i, s>>, r)
         /\ i >= 0 /\ s - 1 >= 0 /\ bs[i][s - 1] # Vacant
              => IsBefore(bs, n + 1, e, <<i, s>>, <<i, s - 1>>)
         /\ i >= 0 /\ s - 1 >= 0 /\ bs[i][s - 1] = Vacant
              /\ IsBefore(bs, n + 1, e, <<i, s - 1>>, r)
              => IsBefore(bs, n + 1, e, <<i, s>>, r)
<1> DEFINE items == ItemsBelow(bs, n + 1)
<1>0. SLOT_PER_BUCKET \in Nat /\ SLOT_PER_BUCKET > 0
  BY SlotAssumption
<1>f. \A q \in items : /\ q[1] \in 0 .. n /\ q[2] \in 0 .. SLOT_PER_BUCKET - 1
                       /\ q = <<q[1], q[2]>> /\ bs[q[1]][q[2]] # Vacant
  BY ItemFacts
<1> HIDE DEF items
<1>1. ASSUME i < 0
      PROVE  IsBefore(bs, n + 1, e, <<i, s>>, e)
  BY <1>1, <1>f DEF IsBefore, Precedes, items
<1>2. ASSUME i >= 0, s - 1 < 0, IsBefore(bs, n + 1, e, <<i - 1, SLOT_PER_BUCKET>>, r)
      PROVE  IsBefore(bs, n + 1, e, <<i, s>>, r)
  <2>1. ASSUME NEW q \in items
        PROVE  Precedes(q, <<i, s>>) <=> Precedes(q, <<i - 1, SLOT_PER_BUCKET>>)
    BY <1>0, <1>2, <1>f DEF Precedes
  <2> QED
    BY <1>2, <2>1 DEF IsBefore, items
<1>3. ASSUME i >= 0, s - 1 >= 0, bs[i][s - 1] # Vacant
      PROVE  IsBefore(bs, n + 1, e, <<i, s>>, <<i, s - 1>>)
  <2>1. <<i, s - 1>> \in items
    <3>1. i \in 0 .. (n + 1) - 1 /\ s - 1 \in 0 .. SLOT_PER_BUCKET - 1
      BY <1>0, <1>3
    <3> QED
      BY <1>3, <3>1, ItemAt DEF items
  <2>2. Precedes(<<i, s - 1>>, <<i, s>>)
    BY <1>3 DEF Precedes
  <2>3. ASSUME NEW q \in items, Precedes(q, <<i, s>>)
        PROVE  ~ Precedes(<<i, s - 1>>, q)
    BY <1>f, <2>3 DEF Precedes
  <2> QED
    BY <2>1, <2>2, <2>3 DEF IsBefore, items
<1>4. ASSUME i >= 0, s - 1 >= 0, bs[i][s - 1] = Vacant, IsBefore(bs, n + 1, e, <<i, s - 1>>, r)
      PROVE  IsBefore(bs, n + 1, e, <<i, s>>, r)
  <2>1. ASSUME NEW q \in items
        PROVE  Precedes(q, <<i, s>>) <=> Precedes(q, <<i, s - 1>>)
    BY <1>f, <1>4 DEF Precedes
  <2> QED
    BY <1>4, <2>1 DEF IsBefore, items
<1> QED
  BY <1>1, <1>2, <1>3, <1>4

\* operator++ finds the next item or the end position.
LEMMA AfterFinds ==
  ASSUME NEW bs, IsFiniteSet(DOMAIN bs),
         NEW i \in 0 .. Cardinality(DOMAIN bs), NEW s \in -1 .. SLOT_PER_BUCKET
  PROVE  IsAfter(bs, Cardinality(DOMAIN bs), <<i, s>>, After(bs, <<i, s>>))
<1> DEFINE n == Cardinality(DOMAIN bs)
           Dom == (0 .. n) \X (-1 .. SLOT_PER_BUCKET)
           Round(f, q) ==
             IF q[1] = n THEN <<n, 0>>
             ELSE IF q[2] + 1 >= SLOT_PER_BUCKET THEN f[<<q[1] + 1, -1>>]
             ELSE IF bs[q[1]][q[2] + 1] # Vacant THEN <<q[1], q[2] + 1>>
             ELSE f[<<q[1], q[2] + 1>>]
           Loop(f) == f = [q \in Dom |-> Round(f, q)]
           found == [q \in Dom |-> CHOOSE r : IsAfter(bs, n, q, r)]
           advance == CHOOSE f : Loop(f)
<1>0. n \in Nat /\ SLOT_PER_BUCKET \in Nat /\ SLOT_PER_BUCKET > 0
  BY FS_CardinalityType, SlotAssumption
<1>1. After(bs, <<i, s>>) = advance[<<i, s>>]
  BY DEF After, end_pos
<1> HIDE DEF n
<1>2. ASSUME NEW j \in 0 .. n, NEW t \in -1 .. SLOT_PER_BUCKET
      PROVE  /\ <<j, t>> \in Dom
             /\ j # n => j \in 0 .. n - 1 /\ <<j + 1, -1>> \in Dom
             /\ t + 1 < SLOT_PER_BUCKET => <<j, t + 1>> \in Dom
  BY <1>0
<1>3. ASSUME NEW q \in Dom
      PROVE  q[1] \in 0 .. n /\ q[2] \in -1 .. SLOT_PER_BUCKET /\ q = <<q[1], q[2]>>
  OBVIOUS
<1>4. ASSUME NEW f, Loop(f), NEW j \in 0 .. n, NEW t \in -1 .. SLOT_PER_BUCKET
      PROVE  f[<<j, t>>] = Round(f, <<j, t>>)
  BY <1>2, <1>4
<1> HIDE DEF Dom, Loop
\* A function that satisfies the equation of the loop finds the items.
<1>5. ASSUME NEW f, Loop(f)
      PROVE  \A j \in 0 .. n, t \in -1 .. SLOT_PER_BUCKET : IsAfter(bs, n, <<j, t>>, f[<<j, t>>])
  <2> DEFINE G == {q \in Dom : IsAfter(bs, n, q, f[q])}
  <2>e. ASSUME NEW j \in 0 .. n, NEW t \in -1 .. SLOT_PER_BUCKET
        PROVE  f[<<j, t>>] = IF j = n THEN <<n, 0>>
                             ELSE IF t + 1 >= SLOT_PER_BUCKET THEN f[<<j + 1, -1>>]
                             ELSE IF bs[j][t + 1] # Vacant THEN <<j, t + 1>>
                             ELSE f[<<j, t + 1>>]
    <3>1. f[<<j, t>>] = Round(f, <<j, t>>)
      BY <1>4, <1>5
    <3> QED
      BY <3>1
  <2> HIDE DEF Round
  <2>1. ASSUME NEW t \in -1 .. SLOT_PER_BUCKET
        PROVE  <<n, t>> \in G
    <3>1. n \in 0 .. n
      BY <1>0
    <3>2. f[<<n, t>>] = <<n, 0>>
      BY <2>e, <3>1
    <3> QED
      BY <1>0, <1>2, <3>1, <3>2, AdvanceRound
  <2>2. ASSUME NEW j \in 0 .. n - 1, NEW t \in -1 .. SLOT_PER_BUCKET,
               t + 1 >= SLOT_PER_BUCKET => <<j + 1, -1>> \in G,
               t + 1 < SLOT_PER_BUCKET => <<j, t + 1>> \in G
        PROVE  <<j, t>> \in G
    <3>1. j \in 0 .. n /\ j < n /\ j # n
      BY <1>0
    <3>2. CASE t + 1 >= SLOT_PER_BUCKET
      <4>1. f[<<j, t>>] = f[<<j + 1, -1>>] /\ IsAfter(bs, n, <<j + 1, -1>>, f[<<j + 1, -1>>])
        BY <2>e, <2>2, <3>1, <3>2
      <4> QED
        BY <1>0, <1>2, <3>1, <3>2, <4>1, AdvanceRound
    <3>3. CASE t + 1 < SLOT_PER_BUCKET /\ bs[j][t + 1] # Vacant
      <4>0. ~ (t + 1 >= SLOT_PER_BUCKET)
        BY <1>0, <3>3
      <4>1. f[<<j, t>>] = <<j, t + 1>>
        BY <2>e, <3>1, <3>3, <4>0
      <4> QED
        BY <1>0, <1>2, <3>1, <3>3, <4>1, AdvanceRound
    <3>4. CASE t + 1 < SLOT_PER_BUCKET /\ bs[j][t + 1] = Vacant
      <4>1. f[<<j, t>>] = f[<<j, t + 1>>] /\ IsAfter(bs, n, <<j, t + 1>>, f[<<j, t + 1>>])
        BY <1>0, <2>e, <2>2, <3>1, <3>4
      <4> QED
        BY <1>0, <1>2, <3>1, <3>4, <4>1, AdvanceRound
    <3> QED
      BY <1>0, <3>2, <3>3, <3>4
  <2> HIDE DEF G
  <2>3. \A j \in 0 .. n, t \in -1 .. SLOT_PER_BUCKET : <<j, t>> \in G
    <3>1. \A j \in 0 .. n - 1, t \in -1 .. SLOT_PER_BUCKET :
            /\ t + 1 >= SLOT_PER_BUCKET /\ <<j + 1, -1>> \in G => <<j, t>> \in G
            /\ t + 1 < SLOT_PER_BUCKET /\ <<j, t + 1>> \in G => <<j, t>> \in G
      <4> SUFFICES ASSUME NEW j \in 0 .. n - 1, NEW t \in -1 .. SLOT_PER_BUCKET
                   PROVE  /\ t + 1 >= SLOT_PER_BUCKET /\ <<j + 1, -1>> \in G => <<j, t>> \in G
                          /\ t + 1 < SLOT_PER_BUCKET /\ <<j, t + 1>> \in G => <<j, t>> \in G
        OBVIOUS
      <4>1. t + 1 >= SLOT_PER_BUCKET <=> ~ (t + 1 < SLOT_PER_BUCKET)
        BY <1>0
      <4>2. ASSUME t + 1 >= SLOT_PER_BUCKET, <<j + 1, -1>> \in G
            PROVE  <<j, t>> \in G
        BY <2>2, <4>1, <4>2
      <4>3. ASSUME t + 1 < SLOT_PER_BUCKET, <<j, t + 1>> \in G
            PROVE  <<j, t>> \in G
        BY <2>2, <4>1, <4>3
      <4> QED
        BY <4>2, <4>3
    <3> QED
      BY <1>0, <2>1, <3>1, FromTheEnd
  <2> QED
    BY <2>3 DEF G
\* There is such a function.
<1>6. \A j \in 0 .. n, t \in -1 .. SLOT_PER_BUCKET : \E r : IsAfter(bs, n, <<j, t>>, r)
  <2> DEFINE G == {q \in Dom : \E r : IsAfter(bs, n, q, r)}
  <2>1. ASSUME NEW t \in -1 .. SLOT_PER_BUCKET
        PROVE  <<n, t>> \in G
    <3>1. n \in 0 .. n
      BY <1>0
    <3> QED
      BY <1>0, <1>2, <3>1, AdvanceRound
  <2>2. ASSUME NEW j \in 0 .. n - 1, NEW t \in -1 .. SLOT_PER_BUCKET,
               t + 1 >= SLOT_PER_BUCKET => <<j + 1, -1>> \in G,
               t + 1 < SLOT_PER_BUCKET => <<j, t + 1>> \in G
        PROVE  <<j, t>> \in G
    <3>1. j \in 0 .. n /\ j < n
      BY <1>0
    <3>2. CASE t + 1 >= SLOT_PER_BUCKET
      <4>1. PICK r : IsAfter(bs, n, <<j + 1, -1>>, r)
        BY <2>2, <3>2
      <4> QED
        BY <1>0, <1>2, <3>1, <3>2, <4>1, AdvanceRound
    <3>3. CASE t + 1 < SLOT_PER_BUCKET /\ bs[j][t + 1] # Vacant
      BY <1>0, <1>2, <3>1, <3>3, AdvanceRound
    <3>4. CASE t + 1 < SLOT_PER_BUCKET /\ bs[j][t + 1] = Vacant
      <4>1. PICK r : IsAfter(bs, n, <<j, t + 1>>, r)
        BY <1>0, <2>2, <3>4
      <4> QED
        BY <1>0, <1>2, <3>1, <3>4, <4>1, AdvanceRound
    <3> QED
      BY <1>0, <3>2, <3>3, <3>4
  <2> HIDE DEF G
  <2>3. \A j \in 0 .. n, t \in -1 .. SLOT_PER_BUCKET : <<j, t>> \in G
    <3>1. \A j \in 0 .. n - 1, t \in -1 .. SLOT_PER_BUCKET :
            /\ t + 1 >= SLOT_PER_BUCKET /\ <<j + 1, -1>> \in G => <<j, t>> \in G
            /\ t + 1 < SLOT_PER_BUCKET /\ <<j, t + 1>> \in G => <<j, t>> \in G
      <4> SUFFICES ASSUME NEW j \in 0 .. n - 1, NEW t \in -1 .. SLOT_PER_BUCKET
                   PROVE  /\ t + 1 >= SLOT_PER_BUCKET /\ <<j + 1, -1>> \in G => <<j, t>> \in G
                          /\ t + 1 < SLOT_PER_BUCKET /\ <<j, t + 1>> \in G => <<j, t>> \in G
        OBVIOUS
      <4>1. t + 1 >= SLOT_PER_BUCKET <=> ~ (t + 1 < SLOT_PER_BUCKET)
        BY <1>0
      <4>2. ASSUME t + 1 >= SLOT_PER_BUCKET, <<j + 1, -1>> \in G
            PROVE  <<j, t>> \in G
        BY <2>2, <4>1, <4>2
      <4>3. ASSUME t + 1 < SLOT_PER_BUCKET, <<j, t + 1>> \in G
            PROVE  <<j, t>> \in G
        BY <2>2, <4>1, <4>3
      <4> QED
        BY <4>2, <4>3
    <3> QED
      BY <1>0, <2>1, <3>1, FromTheEnd
  <2> QED
    BY <2>3 DEF G
<1>7. ASSUME NEW q \in Dom
      PROVE  IsAfter(bs, n, q, found[q])
  <2>1. \E r : IsAfter(bs, n, q, r)
    BY <1>3, <1>6
  <2>2. found[q] = CHOOSE r : IsAfter(bs, n, q, r)
    OBVIOUS
  <2> HIDE DEF found
  <2> QED
    BY <2>1, <2>2
<1>8. ASSUME NEW q \in Dom
      PROVE  found[q] = Round(found, q)
  <2> DEFINE j == q[1]
             t == q[2]
  <2>1. j \in 0 .. n /\ t \in -1 .. SLOT_PER_BUCKET /\ q = <<j, t>>
    BY <1>3
  <2> HIDE DEF j, t
  <2>2. <<j, t>> \in Dom /\ IsAfter(bs, n, <<j, t>>, found[<<j, t>>])
    BY <1>2, <1>7, <2>1
  <2>3. /\ j # n => <<j + 1, -1>> \in Dom
        /\ t + 1 < SLOT_PER_BUCKET => <<j, t + 1>> \in Dom
    BY <1>2, <2>1
  <2>4. /\ j # n => IsAfter(bs, n, <<j + 1, -1>>, found[<<j + 1, -1>>])
        /\ t + 1 < SLOT_PER_BUCKET => IsAfter(bs, n, <<j, t + 1>>, found[<<j, t + 1>>])
    BY <1>7, <2>3
  <2> HIDE DEF found
  <2>5. IsAfter(bs, n, <<j, t>>, Round(found, <<j, t>>))
    <3>1. CASE j = n
      BY <1>0, <2>1, <3>1, AdvanceRound
    <3>2. CASE j # n /\ t + 1 >= SLOT_PER_BUCKET
      <4>1. Round(found, <<j, t>>) = found[<<j + 1, -1>>]
        BY <3>2
      <4> HIDE DEF Round
      <4>2. j < n /\ IsAfter(bs, n, <<j + 1, -1>>, found[<<j + 1, -1>>])
        BY <1>0, <2>1, <2>4, <3>2
      <4>3. IsAfter(bs, n, <<j, t>>, found[<<j + 1, -1>>])
        BY <1>0, <2>1, <3>2, <4>2, AdvanceRound
      <4> QED
        BY <4>1, <4>3
    <3>3. CASE j # n /\ t + 1 < SLOT_PER_BUCKET /\ bs[j][t + 1] # Vacant
      <4>1. ~ (t + 1 >= SLOT_PER_BUCKET)
        BY <1>0, <2>1, <3>3
      <4>2. Round(found, <<j, t>>) = <<j, t + 1>>
        BY <3>3, <4>1
      <4> HIDE DEF Round
      <4>3. j < n
        BY <1>0, <2>1, <3>3
      <4>4. IsAfter(bs, n, <<j, t>>, <<j, t + 1>>)
        BY <1>0, <2>1, <3>3, <4>3, AdvanceRound
      <4> QED
        BY <4>2, <4>4
    <3>4. CASE j # n /\ t + 1 < SLOT_PER_BUCKET /\ bs[j][t + 1] = Vacant
      <4>1. ~ (t + 1 >= SLOT_PER_BUCKET)
        BY <1>0, <2>1, <3>4
      <4>2. Round(found, <<j, t>>) = found[<<j, t + 1>>]
        BY <3>4, <4>1
      <4> HIDE DEF Round
      <4>3. j < n /\ IsAfter(bs, n, <<j, t + 1>>, found[<<j, t + 1>>])
        BY <1>0, <2>1, <2>4, <3>4
      <4>4. IsAfter(bs, n, <<j, t>>, found[<<j, t + 1>>])
        BY <1>0, <2>1, <3>4, <4>3, AdvanceRound
      <4> QED
        BY <4>2, <4>4
    <3> QED
      BY <1>0, <2>1, <3>1, <3>2, <3>3, <3>4
  <2> HIDE DEF Round
  <2>6. found[<<j, t>>] = Round(found, <<j, t>>)
    BY <1>0, <2>2, <2>5, AfterUnique
  <2> QED
    BY <2>1, <2>6
<1>9. Loop(found)
  <2> USE DEF Loop
  <2> HIDE DEF Round
  <2>1. \A q \in Dom : found[q] = Round(found, q)
    BY <1>8
  <2>2. found = [q \in Dom |-> found[q]]
    OBVIOUS
  <2> HIDE DEF found
  <2> QED
    BY <2>1, <2>2
<1> HIDE DEF Loop, found
<1>10. Loop(advance)
  BY <1>9
<1> HIDE DEF advance
<1>11. i \in 0 .. n /\ s \in -1 .. SLOT_PER_BUCKET
  BY DEF n
<1>12. IsAfter(bs, n, <<i, s>>, advance[<<i, s>>])
  BY <1>5, <1>10, <1>11
<1> QED
  BY <1>1, <1>12 DEF n

\* operator-- finds the previous item or, if there is none, the end position.  (At the end
\* position n the loop could only look at a bucket n if it began at a slot above 0.)
LEMMA BeforeFinds ==
  ASSUME NEW bs, IsFiniteSet(DOMAIN bs),
         NEW i \in -1 .. Cardinality(DOMAIN bs), NEW s \in -1 .. SLOT_PER_BUCKET
  PROVE  IsBefore(bs, Cardinality(DOMAIN bs) + 1, end_pos(bs), <<i, s>>, Before(bs, <<i, s>>))
<1> DEFINE n == Cardinality(DOMAIN bs)
           Dom == (-1 .. n) \X (-1 .. SLOT_PER_BUCKET)
           Round(f, q) ==
             IF q[1] < 0 THEN <<n, 0>>
             ELSE IF q[2] - 1 < 0 THEN f[<<q[1] - 1, SLOT_PER_BUCKET>>]
             ELSE IF bs[q[1]][q[2] - 1] # Vacant THEN <<q[1], q[2] - 1>>
             ELSE f[<<q[1], q[2] - 1>>]
           Loop(f) == f = [q \in Dom |-> Round(f, q)]
           found == [q \in Dom |-> CHOOSE r : IsBefore(bs, n + 1, <<n, 0>>, q, r)]
           retreat == CHOOSE f : Loop(f)
<1>0. n \in Nat /\ SLOT_PER_BUCKET \in Nat /\ SLOT_PER_BUCKET > 0
  BY FS_CardinalityType, SlotAssumption
<1>1. Before(bs, <<i, s>>) = retreat[<<i, s>>]
  BY DEF Before, end_pos
<1> HIDE DEF n
<1>2. ASSUME NEW j \in -1 .. n, NEW t \in -1 .. SLOT_PER_BUCKET
      PROVE  /\ <<j, t>> \in Dom
             /\ j >= 0 => j \in 0 .. n /\ <<j - 1, SLOT_PER_BUCKET>> \in Dom
             /\ t - 1 >= 0 => <<j, t - 1>> \in Dom
  BY <1>0
<1>3. ASSUME NEW q \in Dom
      PROVE  q[1] \in -1 .. n /\ q[2] \in -1 .. SLOT_PER_BUCKET /\ q = <<q[1], q[2]>>
  OBVIOUS
<1>4. ASSUME NEW f, Loop(f), NEW j \in -1 .. n, NEW t \in -1 .. SLOT_PER_BUCKET
      PROVE  f[<<j, t>>] = Round(f, <<j, t>>)
  BY <1>2, <1>4
<1> HIDE DEF Dom, Loop
\* A function that satisfies the equation of the loop finds the items.
<1>5. ASSUME NEW f, Loop(f)
      PROVE  \A j \in -1 .. n, t \in -1 .. SLOT_PER_BUCKET :
               IsBefore(bs, n + 1, <<n, 0>>, <<j, t>>, f[<<j, t>>])
  <2> DEFINE G == {q \in Dom : IsBefore(bs, n + 1, <<n, 0>>, q, f[q])}
  <2>e. ASSUME NEW j \in -1 .. n, NEW t \in -1 .. SLOT_PER_BUCKET
        PROVE  f[<<j, t>>] = IF j < 0 THEN <<n, 0>>
                             ELSE IF t - 1 < 0 THEN f[<<j - 1, SLOT_PER_BUCKET>>]
                             ELSE IF bs[j][t - 1] # Vacant THEN <<j, t - 1>>
                             ELSE f[<<j, t - 1>>]
    <3>1. f[<<j, t>>] = Round(f, <<j, t>>)
      BY <1>4, <1>5
    <3> QED
      BY <3>1
  <2> HIDE DEF Round
  <2>1. ASSUME NEW t \in -1 .. SLOT_PER_BUCKET
        PROVE  <<-1, t>> \in G
    <3>1. PICK j \in -1 .. n : j = -1
      BY <1>0
    <3>2. j < 0
      BY <3>1
    <3>3. f[<<j, t>>] = <<n, 0>>
      BY <2>e, <3>2
    <3>4. <<j, t>> \in Dom
      BY <1>2
    <3>5. IsBefore(bs, n + 1, <<n, 0>>, <<j, t>>, <<n, 0>>)
      BY <1>0, <3>2, RetreatRound
    <3> QED
      BY <3>1, <3>3, <3>4, <3>5
  <2>2. ASSUME NEW j \in 0 .. n, NEW t \in -1 .. SLOT_PER_BUCKET,
               t - 1 < 0 => <<j - 1, SLOT_PER_BUCKET>> \in G,
               t - 1 >= 0 => <<j, t - 1>> \in G
        PROVE  <<j, t>> \in G
    <3>1. j \in -1 .. n /\ j >= 0 /\ ~ (j < 0)
      BY <1>0
    <3>2. CASE t - 1 < 0
      <4>1. /\ f[<<j, t>>] = f[<<j - 1, SLOT_PER_BUCKET>>]
            /\ IsBefore(bs, n + 1, <<n, 0>>, <<j - 1, SLOT_PER_BUCKET>>,
                        f[<<j - 1, SLOT_PER_BUCKET>>])
        BY <2>e, <2>2, <3>1, <3>2
      <4> QED
        BY <1>0, <1>2, <3>1, <3>2, <4>1, RetreatRound
    <3>3. CASE t - 1 >= 0 /\ bs[j][t - 1] # Vacant
      <4>0. ~ (t - 1 < 0)
        BY <1>0, <3>3
      <4>1. f[<<j, t>>] = <<j, t - 1>>
        BY <2>e, <3>1, <3>3, <4>0
      <4> QED
        BY <1>0, <1>2, <3>1, <3>3, <4>1, RetreatRound
    <3>4. CASE t - 1 >= 0 /\ bs[j][t - 1] = Vacant
      <4>0. ~ (t - 1 < 0)
        BY <3>4
      <4>1. /\ f[<<j, t>>] = f[<<j, t - 1>>]
            /\ IsBefore(bs, n + 1, <<n, 0>>, <<j, t - 1>>, f[<<j, t - 1>>])
        BY <2>e, <2>2, <3>1, <3>4, <4>0
      <4> QED
        BY <1>0, <1>2, <3>1, <3>4, <4>1, RetreatRound
    <3> QED
      BY <1>0, <3>2, <3>3, <3>4
  <2> HIDE DEF G
  <2>3. \A j \in -1 .. n, t \in -1 .. SLOT_PER_BUCKET : <<j, t>> \in G
    <3>1. \A j \in 0 .. n, t \in -1 .. SLOT_PER_BUCKET :
            /\ t - 1 < 0 /\ <<j - 1, SLOT_PER_BUCKET>> \in G => <<j, t>> \in G
            /\ t - 1 >= 0 /\ <<j, t - 1>> \in G => <<j, t>> \in G
      <4> SUFFICES ASSUME NEW j \in 0 .. n, NEW t \in -1 .. SLOT_PER_BUCKET
                   PROVE  /\ t - 1 < 0 /\ <<j - 1, SLOT_PER_BUCKET>> \in G => <<j, t>> \in G
                          /\ t - 1 >= 0 /\ <<j, t - 1>> \in G => <<j, t>> \in G
        OBVIOUS
      <4>1. t - 1 < 0 <=> ~ (t - 1 >= 0)
        BY <1>0
      <4>2. ASSUME t - 1 < 0, <<j - 1, SLOT_PER_BUCKET>> \in G
            PROVE  <<j, t>> \in G
        BY <2>2, <4>1, <4>2
      <4>3. ASSUME t - 1 >= 0, <<j, t - 1>> \in G
            PROVE  <<j, t>> \in G
        BY <2>2, <4>1, <4>3
      <4> QED
        BY <4>2, <4>3
    <3> QED
      BY <1>0, <2>1, <3>1, FromTheStart
  <2> QED
    BY <2>3 DEF G
\* There is such a function.
<1>6. \A j \in -1 .. n, t \in -1 .. SLOT_PER_BUCKET :
        \E r : IsBefore(bs, n + 1, <<n, 0>>, <<j, t>>, r)
  <2> DEFINE G == {q \in Dom : \E r : IsBefore(bs, n + 1, <<n, 0>>, q, r)}
  <2>1. ASSUME NEW t \in -1 .. SLOT_PER_BUCKET
        PROVE  <<-1, t>> \in G
    <3>1. PICK j \in -1 .. n : j = -1
      BY <1>0
    <3>2. j < 0
      BY <3>1
    <3>3. <<j, t>> \in Dom
      BY <1>2
    <3>4. IsBefore(bs, n + 1, <<n, 0>>, <<j, t>>, <<n, 0>>)
      BY <1>0, <3>2, RetreatRound
    <3> QED
      BY <3>1, <3>3, <3>4
  <2>2. ASSUME NEW j \in 0 .. n, NEW t \in -1 .. SLOT_PER_BUCKET,
               t - 1 < 0 => <<j - 1, SLOT_PER_BUCKET>> \in G,
               t - 1 >= 0 => <<j, t - 1>> \in G
        PROVE  <<j, t>> \in G
    <3>1. j \in -1 .. n /\ j >= 0 /\ ~ (j < 0)
      BY <1>0
    <3>2. CASE t - 1 < 0
      <4>1. PICK r : IsBefore(bs, n + 1, <<n, 0>>, <<j - 1, SLOT_PER_BUCKET>>, r)
        BY <2>2, <3>2
      <4> QED
        BY <1>0, <1>2, <3>1, <3>2, <4>1, RetreatRound
    <3>3. CASE t - 1 >= 0 /\ bs[j][t - 1] # Vacant
      BY <1>0, <1>2, <3>1, <3>3, RetreatRound
    <3>4. CASE t - 1 >= 0 /\ bs[j][t - 1] = Vacant
      <4>1. PICK r : IsBefore(bs, n + 1, <<n, 0>>, <<j, t - 1>>, r)
        BY <1>0, <2>2, <3>4
      <4> QED
        BY <1>0, <1>2, <3>1, <3>4, <4>1, RetreatRound
    <3> QED
      BY <1>0, <3>2, <3>3, <3>4
  <2> HIDE DEF G
  <2>3. \A j \in -1 .. n, t \in -1 .. SLOT_PER_BUCKET : <<j, t>> \in G
    <3>1. \A j \in 0 .. n, t \in -1 .. SLOT_PER_BUCKET :
            /\ t - 1 < 0 /\ <<j - 1, SLOT_PER_BUCKET>> \in G => <<j, t>> \in G
            /\ t - 1 >= 0 /\ <<j, t - 1>> \in G => <<j, t>> \in G
      <4> SUFFICES ASSUME NEW j \in 0 .. n, NEW t \in -1 .. SLOT_PER_BUCKET
                   PROVE  /\ t - 1 < 0 /\ <<j - 1, SLOT_PER_BUCKET>> \in G => <<j, t>> \in G
                          /\ t - 1 >= 0 /\ <<j, t - 1>> \in G => <<j, t>> \in G
        OBVIOUS
      <4>1. t - 1 < 0 <=> ~ (t - 1 >= 0)
        BY <1>0
      <4>2. ASSUME t - 1 < 0, <<j - 1, SLOT_PER_BUCKET>> \in G
            PROVE  <<j, t>> \in G
        BY <2>2, <4>1, <4>2
      <4>3. ASSUME t - 1 >= 0, <<j, t - 1>> \in G
            PROVE  <<j, t>> \in G
        BY <2>2, <4>1, <4>3
      <4> QED
        BY <4>2, <4>3
    <3> QED
      BY <1>0, <2>1, <3>1, FromTheStart
  <2> QED
    BY <2>3 DEF G
<1>7. ASSUME NEW q \in Dom
      PROVE  IsBefore(bs, n + 1, <<n, 0>>, q, found[q])
  <2>1. \E r : IsBefore(bs, n + 1, <<n, 0>>, q, r)
    BY <1>3, <1>6
  <2>2. found[q] = CHOOSE r : IsBefore(bs, n + 1, <<n, 0>>, q, r)
    OBVIOUS
  <2> HIDE DEF found
  <2> QED
    BY <2>1, <2>2
<1>8. ASSUME NEW q \in Dom
      PROVE  found[q] = Round(found, q)
  <2> DEFINE j == q[1]
             t == q[2]
  <2>1. j \in -1 .. n /\ t \in -1 .. SLOT_PER_BUCKET /\ q = <<j, t>>
    BY <1>3
  <2> HIDE DEF j, t
  <2>2. <<j, t>> \in Dom /\ IsBefore(bs, n + 1, <<n, 0>>, <<j, t>>, found[<<j, t>>])
    BY <1>2, <1>7, <2>1
  <2>3. /\ j >= 0 => <<j - 1, SLOT_PER_BUCKET>> \in Dom
        /\ t - 1 >= 0 => <<j, t - 1>> \in Dom
    BY <1>2, <2>1
  <2>4. /\ j >= 0 => IsBefore(bs, n + 1, <<n, 0>>, <<j - 1, SLOT_PER_BUCKET>>,
                                found[<<j - 1, SLOT_PER_BUCKET>>])
        /\ t - 1 >= 0 => IsBefore(bs, n + 1, <<n, 0>>, <<j, t - 1>>, found[<<j, t - 1>>])
    BY <1>7, <2>3
  <2> HIDE DEF found
  <2>5. IsBefore(bs, n + 1, <<n, 0>>, <<j, t>>, Round(found, <<j, t>>))
    <3>1. CASE j < 0
      BY <1>0, <2>1, <3>1, RetreatRound
    <3>2. CASE j >= 0 /\ t - 1 < 0
      <4>1. Round(found, <<j, t>>) = found[<<j - 1, SLOT_PER_BUCKET>>]
        <5>1. ~ (j < 0)
          BY <2>1, <3>2
        <5> QED
          BY <3>2, <5>1
      <4> HIDE DEF Round
      <4>2. /\ j >= 0
            /\ IsBefore(bs, n + 1, <<n, 0>>, <<j - 1, SLOT_PER_BUCKET>>,
                        found[<<j - 1, SLOT_PER_BUCKET>>])
        BY <1>0, <2>1, <2>4, <3>2
      <4>3. IsBefore(bs, n + 1, <<n, 0>>, <<j, t>>, found[<<j - 1, SLOT_PER_BUCKET>>])
        BY <1>0, <2>1, <3>2, <4>2, RetreatRound
      <4> QED
        BY <4>1, <4>3
    <3>3. CASE j >= 0 /\ t - 1 >= 0 /\ bs[j][t - 1] # Vacant
      <4>1. ~ (j < 0) /\ ~ (t - 1 < 0)
        BY <1>0, <2>1, <3>3
      <4>2. Round(found, <<j, t>>) = <<j, t - 1>>
        BY <3>3, <4>1
      <4> HIDE DEF Round
      <4>3. j >= 0
        BY <1>0, <2>1, <3>3
      <4>4. IsBefore(bs, n + 1, <<n, 0>>, <<j, t>>, <<j, t - 1>>)
        BY <1>0, <2>1, <3>3, <4>3, RetreatRound
      <4> QED
        BY <4>2, <4>4
    <3>4. CASE j >= 0 /\ t - 1 >= 0 /\ bs[j][t - 1] = Vacant
      <4>1. ~ (j < 0) /\ ~ (t - 1 < 0)
        BY <1>0, <2>1, <3>4
      <4>2. Round(found, <<j, t>>) = found[<<j, t - 1>>]
        BY <3>4, <4>1
      <4> HIDE DEF Round
      <4>3. j >= 0 /\ IsBefore(bs, n + 1, <<n, 0>>, <<j, t - 1>>, found[<<j, t - 1>>])
        BY <1>0, <2>1, <2>4, <3>4
      <4>4. IsBefore(bs, n + 1, <<n, 0>>, <<j, t>>, found[<<j, t - 1>>])
        BY <1>0, <2>1, <3>4, <4>3, RetreatRound
      <4> QED
        BY <4>2, <4>4
    <3> QED
      BY <1>0, <2>1, <3>1, <3>2, <3>3, <3>4
  <2> HIDE DEF Round
  <2>6. found[<<j, t>>] = Round(found, <<j, t>>)
    BY <1>0, <2>2, <2>5, BeforeUnique
  <2> QED
    BY <2>1, <2>6
<1>9. Loop(found)
  <2> USE DEF Loop
  <2> HIDE DEF Round
  <2>1. \A q \in Dom : found[q] = Round(found, q)
    BY <1>8
  <2>2. found = [q \in Dom |-> found[q]]
    OBVIOUS
  <2> HIDE DEF found
  <2> QED
    BY <2>1, <2>2
<1> HIDE DEF Loop, found
<1>10. Loop(retreat)
  BY <1>9
<1> HIDE DEF retreat
<1>11. i \in -1 .. n /\ s \in -1 .. SLOT_PER_BUCKET
  BY DEF n
<1>12. IsBefore(bs, n + 1, <<n, 0>>, <<i, s>>, retreat[<<i, s>>])
  BY <1>5, <1>10, <1>11
<1> QED
  BY <1>1, <1>12 DEF n, end_pos

-----------------------------------------------------------------------------
(***************************************************************************)
(* The inductive invariant.                                                *)
(***************************************************************************)

\* The members of a handle, and of an iterator.
HandleObjects == [unlocker : Tables \union {None}, table : Tables, flag : Flags \union {None}]
IteratorObjects == [table : Tables, flag : Flags, index : Nat, slot : Slots]

\* What the variables hold.
TableTypes ==
  /\ DOMAIN buckets = Tables /\ \A b \in Tables : IsBuckets(buckets[b])
  /\ locked \in [Tables -> {0, 1}]
  /\ flag \in [Flags -> BOOLEAN]
  /\ handle \in [Handles -> HandleObjects \union {None}]
  /\ it \in [Iterators -> IteratorObjects \union {None}]
  /\ era \in [Tables -> Nat] /\ born \in [Iterators -> Nat] /\ steps \in [Iterators -> Nat]

\* The handles that own their table.
Holds(h) == Alive(h) /\ HasTableLock(h)

\* No two of them share a boolean.
FlagsApart ==
  \A h, k \in Handles : Holds(h) /\ Holds(k) /\ handle[h].flag = handle[k].flag => h = k

\* No two of them have the same table.
OwnersApart ==
  \A h, k \in Handles : Holds(h) /\ Holds(k) /\ handle[h].table = handle[k].table => h = k

\* A table is locked exactly if one of them has it.
LockedByOwner ==
  \A b \in Tables : locked[b] = 1 <=> \E h \in Handles : Holds(h) /\ handle[h].table = b

\* The boolean of a usable iterator is that of the handle that has its table.
Backed ==
  \A i \in Iterators : Usable(i) =>
    \E h \in Handles : /\ Holds(h) /\ handle[h].flag = it[i].flag
                       /\ handle[h].table = it[i].table

\* No iterator was made after the last time its table was locked.
BornBefore == \A i \in Iterators : it[i] # None => born[i] <= era[it[i].table]

\* The items of an array, and those of them that are before a position.
Items(bs) == ItemsBelow(bs, Cardinality(DOMAIN bs))
Passed(bs, p) == {q \in Items(bs) : Precedes(q, p)}

\* p is an item of the array or its end, with n items before it.
At(bs, p, n) == p \in Items(bs) \union {end_pos(bs)} /\ Cardinality(Passed(bs, p)) = n

\* A usable iterator has as many items before it as it has made steps.
InPlace == \A i \in Iterators : Usable(i) => At(Array(i), Position(i), steps[i])

\* The handles and the iterators of a table belong together.
Ownership ==
  OwnerKnown /\ FlagsApart /\ OwnersApart /\ LockedByOwner /\ Backed /\ BornBefore
    /\ ValidWhileLocked

\* The inductive invariant.
TableInv == TableTypes /\ Ownership /\ InPlace

\* It holds before any table is locked.
LEMMA LockedInitInv == LockedInit => TableInv
<1> SUFFICES ASSUME LockedInit PROVE TableInv
  OBVIOUS
<1>1. TableTypes
  BY ArraysAssumption DEF LockedInit, TableTypes
<1>2. (\A h \in Handles : ~ Alive(h)) /\ (\A i \in Iterators : it[i] = None)
  BY DEF LockedInit, Alive
<1>3. Ownership
  BY <1>2 DEF LockedInit, Ownership, OwnerKnown, FlagsApart, OwnersApart, LockedByOwner,
     Backed, BornBefore, ValidWhileLocked, Usable, Holds
<1>4. InPlace
  BY <1>2 DEF InPlace, Usable
<1> QED
  BY <1>1, <1>3, <1>4 DEF TableInv

-----------------------------------------------------------------------------
(***************************************************************************)
(* The handles.                                                            *)
(***************************************************************************)

\* The members of a handle.
LEMMA HandleFacts ==
  ASSUME TableTypes, NEW h \in Handles, Alive(h)
  PROVE  /\ handle[h] \in HandleObjects
         /\ handle[h].unlocker \in Tables \union {None} /\ handle[h].table \in Tables
         /\ handle[h].flag \in Flags \union {None}
         /\ HasTableLock(h) => handle[h].flag \in Flags
         /\ HasTableLock(h) \in BOOLEAN
<1>1. handle[h] \in HandleObjects
  BY DEF TableTypes, Alive
<1>2. /\ handle[h].unlocker \in Tables \union {None} /\ handle[h].table \in Tables
      /\ handle[h].flag \in Flags \union {None}
  BY <1>1 DEF HandleObjects
<1> QED
  BY <1>1, <1>2 DEF HasTableLock, TableTypes

\* There is a heap cell that nobody points to.
LEMMA NewFlagUnused ==
  ASSUME TableTypes
  PROVE  NewFlag \in Flags /\ Unused(NewFlag)
<1> DEFINE ofHandles == {handle[h].flag : h \in Handles}
           ofIterators == {it[i].flag : i \in Iterators}
           free == {f \in Flags : Unused(f)}
<1>1. IsFiniteSet(ofHandles) /\ Cardinality(ofHandles) <= Cardinality(Handles)
  <2> DEFINE s == [h \in Handles |-> handle[h].flag]
  <2>1. s \in Surjection(Handles, ofHandles)
    BY DEF Surjection
  <2> HIDE DEF s, ofHandles
  <2> QED
    BY <2>1, FlagsAssumption, FS_Surjection
<1>2. IsFiniteSet(ofIterators) /\ Cardinality(ofIterators) <= Cardinality(Iterators)
  <2> DEFINE s == [i \in Iterators |-> it[i].flag]
  <2>1. s \in Surjection(Iterators, ofIterators)
    BY DEF Surjection
  <2> HIDE DEF s, ofIterators
  <2> QED
    BY <2>1, FlagsAssumption, FS_Surjection
<1>3. Flags \ (ofHandles \union ofIterators) \subseteq free
  BY DEF Unused
<1>4. free # {}
  <2> HIDE DEF free, ofHandles, ofIterators
  <2> SUFFICES ASSUME Flags \subseteq ofHandles \union ofIterators PROVE FALSE
    BY <1>3
  <2> DEFINE used == ofHandles \union ofIterators
  <2>1. /\ IsFiniteSet(used)
        /\ Cardinality(used)
             = Cardinality(ofHandles) + Cardinality(ofIterators)
                 - Cardinality(ofHandles \cap ofIterators)
    BY <1>1, <1>2, FS_Union
  <2>2. IsFiniteSet(ofHandles \cap ofIterators)
    BY <1>1, FS_Intersection
  <2>3. Cardinality(Flags) <= Cardinality(used)
    BY <2>1, FS_Subset
  <2>4. /\ Cardinality(ofHandles) \in Nat /\ Cardinality(ofIterators) \in Nat
        /\ Cardinality(ofHandles \cap ofIterators) \in Nat /\ Cardinality(used) \in Nat
        /\ Cardinality(Flags) \in Nat /\ Cardinality(Handles) \in Nat
        /\ Cardinality(Iterators) \in Nat
    BY <1>1, <1>2, <2>1, <2>2, FlagsAssumption, FS_CardinalityType
  <2> HIDE DEF used
  <2> QED
    BY <1>1, <1>2, <2>1, <2>3, <2>4, FlagsAssumption
<1>5. PICK f \in free : \A g \in free : f <= g
  <2> DEFINE R == OpToRel(<, Nat)
  <2>1. \A x, y \in Nat : y < x => <<y, x>> \in R
    BY DEF OpToRel
  <2>2. IsWellFoundedOn(R, Nat)
    BY NatLessThanWellFounded
  <2>3. free \subseteq Nat
    BY FlagsAssumption
  <2> HIDE DEF R, free
  <2>4. PICK f \in free : \A g \in free : ~ (<<g, f>> \in R)
    BY <1>4, <2>2, <2>3, WFMin
  <2>5. ASSUME NEW g \in free
        PROVE  f <= g
    <3>1. f \in Nat /\ g \in Nat /\ ~ (<<g, f>> \in R)
      BY <2>3, <2>4
    <3>2. ~ (g < f)
      BY <2>1, <3>1, Zenon
    <3> QED
      BY <3>1, <3>2
  <2> QED
    BY <2>4, <2>5
<1>6. f \in Flags /\ Unused(f) /\ \A g \in Flags : Unused(g) => f <= g
  BY <1>5
<1> HIDE DEF free, ofHandles, ofIterators
<1> QED
  BY <1>6, Zenon DEF NewFlag

\* Iterators stay where they are when only handles change.
LEMMA StaysInPlace ==
  ASSUME InPlace, UNCHANGED <<buckets, it, steps>>,
         \A i \in Iterators : Usable(i)' => Usable(i)
  PROVE  InPlace'
<1> SUFFICES ASSUME NEW i \in Iterators, Usable(i)
             PROVE  At(Array(i), Position(i), steps[i])'
  BY DEF InPlace
<1>1. Array(i)' = Array(i) /\ Position(i)' = Position(i) /\ steps' = steps
  BY DEF Array, Position
<1>2. At(Array(i)', Position(i)', steps'[i])
  BY <1>1 DEF InPlace
<1> QED
  BY <1>2

\* lock_table makes a handle with a boolean of its own, for a table that nobody has.
LEMMA LockTableInv ==
  ASSUME TableInv, NEW h \in Handles, NEW b \in Tables, LockTable(h, b)
  PROVE  TableInv'
<1> DEFINE f == NewFlag
           m == Members(b, b, f)
<1>0. TableTypes /\ Ownership /\ InPlace
  BY DEF TableInv
<1>1. /\ ~ Alive(h) /\ locked[b] = 0
      /\ locked' = [locked EXCEPT ![b] = 1] /\ flag' = [flag EXCEPT ![f] = TRUE]
      /\ handle' = [handle EXCEPT ![h] = m] /\ era' = [era EXCEPT ![b] = @ + 1]
      /\ UNCHANGED <<buckets, it, born, steps>>
  BY DEF LockTable, history
<1>2. f \in Flags /\ Unused(f)
  BY <1>0, NewFlagUnused
<1> HIDE DEF f
<1>3. /\ m \in HandleObjects /\ m # None
      /\ m.unlocker = b /\ m.table = b /\ m.flag = f /\ b # None /\ f # None
  BY <1>2, NoneAssumption DEF Members, HandleObjects
<1> HIDE DEF m
<1>4. TableTypes'
  BY <1>0, <1>1, <1>2, <1>3 DEF TableTypes
<1>5. /\ \A k \in Handles : handle'[k] = IF k = h THEN m ELSE handle[k]
      /\ \A c \in Tables : locked'[c] = IF c = b THEN 1 ELSE locked[c]
      /\ \A g \in Flags : flag'[g] = IF g = f THEN TRUE ELSE flag[g]
      /\ \A c \in Tables : era'[c] = IF c = b THEN era[b] + 1 ELSE era[c]
  BY <1>0, <1>1 DEF TableTypes
<1>6. ASSUME NEW k \in Handles
      PROVE  /\ Alive(k)' <=> k = h \/ Alive(k)
             /\ Holds(k)' <=> k = h \/ Holds(k)
             /\ Alive(k) => k # h /\ handle[k].flag # f
  <2>1. /\ Alive(k)' <=> k = h \/ Alive(k)
        /\ Alive(k) => k # h /\ handle[k].flag # f
    BY <1>1, <1>2, <1>3, <1>5 DEF Alive, Unused
  <2>2. CASE k = h
    BY <1>2, <1>3, <1>5, <2>1, <2>2 DEF HasTableLock, Holds
  <2>3. CASE k # h
    <3>1. ASSUME Alive(k)
          PROVE  HasTableLock(k)' <=> HasTableLock(k)
      <4>1. handle'[k] = handle[k] /\ handle[k].flag # f
        BY <1>5, <2>1, <2>3, <3>1
      <4>2. handle[k].flag # None => flag'[handle[k].flag] = flag[handle[k].flag]
        BY <1>0, <1>5, <3>1, <4>1, HandleFacts
      <4> QED
        BY <4>1, <4>2 DEF HasTableLock
    <3> QED
      BY <2>1, <2>3, <3>1 DEF Holds
  <2> QED
    BY <2>1, <2>2, <2>3
<1>7. \A i \in Iterators : it[i] # None => it[i].flag # f /\ it[i].flag \in Flags
                                             /\ it[i].table \in Tables
  BY <1>0, <1>2 DEF Unused, TableTypes, IteratorObjects
<1>8. \A i \in Iterators : /\ Usable(i)' <=> Usable(i)
                           /\ Usable(i) => it[i].table # b
  <2>1. \A i \in Iterators : Usable(i)' <=> Usable(i)
    BY <1>1, <1>5, <1>7 DEF Usable
  <2>2. \A i \in Iterators : Usable(i) => locked[it[i].table] = 1
    BY <1>0 DEF Ownership, ValidWhileLocked, Usable
  <2> QED
    BY <1>1, <2>1, <2>2
<1>9. \A k \in Handles : Holds(k) => handle[k].table # b
  BY <1>0, <1>1 DEF Ownership, LockedByOwner
<1>10. Ownership'
  <2>1. OwnerKnown'
    <3> SUFFICES ASSUME NEW k \in Handles, Alive(k)'
                 PROVE  handle'[k].unlocker = IF HasTableLock(k)' THEN handle'[k].table ELSE None
      BY DEF OwnerKnown
    <3>1. CASE k = h
      BY <1>3, <1>5, <1>6, <3>1 DEF Holds
    <3>2. CASE k # h
      BY <1>0, <1>5, <1>6, <3>2 DEF Ownership, OwnerKnown, Holds
    <3> QED
      BY <3>1, <3>2
  <2>2. FlagsApart'
    BY <1>0, <1>3, <1>5, <1>6 DEF Ownership, FlagsApart, Holds
  <2>3. OwnersApart'
    BY <1>0, <1>3, <1>5, <1>6, <1>9 DEF Ownership, OwnersApart
  <2>4. LockedByOwner'
    <3> SUFFICES ASSUME NEW c \in Tables
                 PROVE  locked'[c] = 1
                          <=> \E k \in Handles : Holds(k)' /\ handle'[k].table = c
      BY DEF LockedByOwner
    <3>1. CASE c = b
      BY <1>3, <1>5, <1>6, <3>1
    <3>2. CASE c # b
      <4>1. locked'[c] = locked[c]
        BY <1>5, <3>2
      <4>2. ASSUME NEW k \in Handles
            PROVE  Holds(k)' /\ handle'[k].table = c <=> Holds(k) /\ handle[k].table = c
        BY <1>1, <1>3, <1>5, <1>6, <3>2 DEF Holds
      <4> QED
        BY <1>0, <4>1, <4>2 DEF Ownership, LockedByOwner
    <3> QED
      BY <3>1, <3>2
  <2>5. Backed'
    BY <1>0, <1>1, <1>5, <1>6, <1>8 DEF Ownership, Backed, Holds
  <2>6. BornBefore'
    BY <1>0, <1>1, <1>5, <1>7 DEF Ownership, BornBefore, TableTypes
  <2>7. ValidWhileLocked'
    <3> SUFFICES ASSUME NEW i \in Iterators, it'[i] # None
                 PROVE  Usable(i)' <=> /\ locked'[it'[i].table] = 1
                                       /\ era'[it'[i].table] = born'[i]
      BY DEF ValidWhileLocked
    <3>1. it[i] # None /\ it'[i] = it[i] /\ born'[i] = born[i] /\ it[i].table \in Tables
      BY <1>1, <1>7
    <3>2. CASE it[i].table = b
      BY <1>0, <1>5, <1>8, <3>1, <3>2 DEF Ownership, BornBefore, TableTypes
    <3>3. CASE it[i].table # b
      BY <1>0, <1>5, <1>8, <3>1, <3>3 DEF Ownership, ValidWhileLocked
    <3> QED
      BY <3>2, <3>3
  <2> QED
    BY <2>1, <2>2, <2>3, <2>4, <2>5, <2>6, <2>7 DEF Ownership
<1>11. InPlace'
  BY <1>0, <1>1, <1>8, StaysInPlace
<1> QED
  BY <1>4, <1>10, <1>11 DEF TableInv

\* The handles in gone give back their tables, and tell their iterators.
GivenBack(gone) ==
  /\ \A c \in Tables :
       locked'[c] = IF \E g \in gone : Holds(g) /\ handle[g].table = c THEN 0 ELSE locked[c]
  /\ \A f \in Flags :
       flag'[f] = IF \E g \in gone : Holds(g) /\ handle[g].flag = f THEN FALSE ELSE flag[f]

\* Every other handle's table is afterwards that of one handle k, who has it from m[k].
Handed(gone, m) ==
  /\ \A k \in Handles : Holds(k)' => /\ Holds(m[k]) /\ m[k] \notin gone
                                     /\ handle'[k] = handle[m[k]]
  /\ \A j \in Handles : Holds(j) /\ j \notin gone
                           => \E k \in Handles : m[k] = j /\ Holds(k)'
  /\ \A k, l \in Handles : Holds(k)' /\ Holds(l)' /\ m[k] = m[l] => k = l

\* When tables are given back and handed over, ownership stays in order.
LEMMA HandedOver ==
  ASSUME TableTypes, Ownership, OwnerKnown', UNCHANGED <<it, era, born>>,
         NEW gone \in SUBSET Handles, NEW m \in [Handles -> Handles],
         GivenBack(gone), Handed(gone, m)
  PROVE  Ownership' /\ \A i \in Iterators : Usable(i)' => Usable(i)
<1> USE DEF GivenBack, Handed
<1>1. FlagsApart'
  BY DEF Ownership, FlagsApart
<1>2. OwnersApart'
  BY DEF Ownership, OwnersApart
<1>3. LockedByOwner'
  <2> SUFFICES ASSUME NEW c \in Tables
               PROVE  locked'[c] = 1 <=> \E k \in Handles : Holds(k)' /\ handle'[k].table = c
    BY DEF LockedByOwner
  <2>1. ASSUME locked'[c] = 1
        PROVE  \E k \in Handles : Holds(k)' /\ handle'[k].table = c
    <3>1. locked[c] = 1 /\ ~ \E g \in gone : Holds(g) /\ handle[g].table = c
      BY <2>1
    <3>2. PICK j \in Handles : Holds(j) /\ handle[j].table = c
      BY <3>1 DEF Ownership, LockedByOwner
    <3> QED
      BY <3>1, <3>2
  <2>2. ASSUME NEW k \in Handles, Holds(k)', handle'[k].table = c
        PROVE  locked'[c] = 1
    <3>1. Holds(m[k]) /\ m[k] \notin gone /\ handle[m[k]].table = c
      BY <2>2
    <3>2. locked[c] = 1
      BY <3>1 DEF Ownership, LockedByOwner
    <3>3. ASSUME NEW g \in gone, Holds(g), handle[g].table = c
          PROVE  FALSE
      BY <3>1, <3>3 DEF Ownership, OwnersApart
    <3> QED
      BY <3>2, <3>3
  <2> QED
    BY <2>1, <2>2
<1>4. ASSUME NEW i \in Iterators, it[i] # None
      PROVE  /\ it[i].flag \in Flags /\ it[i].table \in Tables
             /\ Usable(i) <=> flag[it[i].flag]
             /\ Usable(i)' <=> flag'[it[i].flag]
             /\ Usable(i)' <=> /\ Usable(i)
                               /\ ~ \E g \in gone : Holds(g) /\ handle[g].flag = it[i].flag
  <2>1. it[i].flag \in Flags /\ it[i].table \in Tables
    BY <1>4 DEF TableTypes, IteratorObjects
  <2>2. (Usable(i) <=> flag[it[i].flag]) /\ (Usable(i)' <=> flag'[it[i].flag])
    BY <1>4 DEF Usable
  <2> QED
    BY <2>1, <2>2
<1>5. \A i \in Iterators : Usable(i)' => Usable(i)
  <2>1. ASSUME NEW i \in Iterators, Usable(i)'
        PROVE  it[i] # None
    BY <2>1 DEF Usable
  <2> QED
    BY <1>4, <2>1
<1>6. Backed'
  <2> SUFFICES ASSUME NEW i \in Iterators, Usable(i)'
               PROVE  \E k \in Handles : /\ Holds(k)' /\ handle'[k].flag = it[i].flag
                                         /\ handle'[k].table = it[i].table
    BY DEF Backed
  <2>1. Usable(i) /\ it[i] # None
    BY <1>5 DEF Usable
  <2>2. PICK j \in Handles : /\ Holds(j) /\ handle[j].flag = it[i].flag
                             /\ handle[j].table = it[i].table
    BY <2>1 DEF Ownership, Backed
  <2>3. j \notin gone
    BY <1>4, <2>1, <2>2
  <2> QED
    BY <2>2, <2>3
<1>7. BornBefore'
  BY DEF Ownership, BornBefore
<1>8. ValidWhileLocked'
  <2> SUFFICES ASSUME NEW i \in Iterators, it[i] # None
               PROVE  Usable(i)' <=> locked'[it[i].table] = 1 /\ era[it[i].table] = born[i]
    BY DEF ValidWhileLocked
  <2>1. Usable(i) <=> locked[it[i].table] = 1 /\ era[it[i].table] = born[i]
    BY DEF Ownership, ValidWhileLocked
  <2>2. it[i].table \in Tables
    BY <1>4
  <2>3. CASE ~ Usable(i)
    BY <1>4, <2>1, <2>2, <2>3
  <2>4. CASE Usable(i)
    <3>1. PICK j \in Handles : /\ Holds(j) /\ handle[j].flag = it[i].flag
                               /\ handle[j].table = it[i].table
      BY <2>4 DEF Ownership, Backed
    <3>2. Usable(i)' <=> j \notin gone
      BY <1>4, <2>4, <3>1 DEF Ownership, FlagsApart
    <3>3. locked'[it[i].table] = 1 <=> j \notin gone
      BY <2>1, <2>2, <2>4, <3>1 DEF Ownership, OwnersApart
    <3> QED
      BY <2>1, <2>4, <3>2, <3>3
  <2> QED
    BY <2>3, <2>4
<1> QED
  BY <1>1, <1>2, <1>3, <1>5, <1>6, <1>7, <1>8 DEF Ownership

\* What a release does to the locks, the booleans and the handle.
LEMMA ReleaseFacts ==
  ASSUME TableTypes, Ownership, NEW h \in Handles, Alive(h)
  PROVE  /\ \A c \in Tables : locked[c] - LocksGivenBack(h, c)
                                = IF Holds(h) /\ handle[h].table = c THEN 0 ELSE locked[c]
         /\ Invalidated(h) \in [Flags -> BOOLEAN]
         /\ \A f \in Flags : Invalidated(h)[f]
                               = IF Holds(h) /\ handle[h].flag = f THEN FALSE ELSE flag[f]
         /\ AfterRelease(h) \in HandleObjects
         /\ AfterRelease(h).unlocker = None
         /\ AfterRelease(h).flag = handle[h].flag
<1>1. /\ handle[h] \in HandleObjects
      /\ handle[h].unlocker = IF HasTableLock(h) THEN handle[h].table ELSE None
      /\ handle[h].table \in Tables /\ handle[h].table # None
      /\ HasTableLock(h) => handle[h].flag \in Flags
  BY HandleFacts, NoneAssumption DEF Ownership, OwnerKnown
<1>2. Holds(h) <=> HasTableLock(h)
  BY DEF Holds
<1>3. ASSUME NEW c \in Tables
      PROVE  locked[c] - LocksGivenBack(h, c)
               = IF Holds(h) /\ handle[h].table = c THEN 0 ELSE locked[c]
  <2>1. locked[c] \in {0, 1}
    BY DEF TableTypes
  <2>2. CASE Holds(h) /\ handle[h].table = c
    <3>1. locked[c] = 1
      BY <2>2 DEF Ownership, LockedByOwner
    <3> QED
      BY <1>1, <1>2, <2>2, <3>1 DEF LocksGivenBack
  <2>3. CASE ~ (Holds(h) /\ handle[h].table = c)
    BY <1>1, <1>2, <2>1, <2>3 DEF LocksGivenBack
  <2> QED
    BY <2>2, <2>3
<1>4. /\ Invalidated(h) \in [Flags -> BOOLEAN]
      /\ \A f \in Flags : Invalidated(h)[f]
                            = IF Holds(h) /\ handle[h].flag = f THEN FALSE ELSE flag[f]
  BY <1>1, <1>2 DEF Invalidated, TableTypes
<1>5. /\ AfterRelease(h) \in HandleObjects
      /\ AfterRelease(h).unlocker = None
      /\ AfterRelease(h).flag = handle[h].flag
  BY <1>1 DEF AfterRelease, HandleObjects
<1> QED
  BY <1>3, <1>4, <1>5

\* A moved-from handle is an object, without an unlocker and without a boolean.
LEMMA MovedFromFacts ==
  ASSUME NEW v \in HandleObjects
  PROVE  /\ MovedFrom(v) \in HandleObjects /\ v # None /\ MovedFrom(v) # None
         /\ MovedFrom(v).unlocker = None /\ MovedFrom(v).flag = None
<1>1. MovedFrom(v) \in HandleObjects /\ MovedFrom(v).unlocker = None /\ MovedFrom(v).flag = None
  BY DEF MovedFrom, HandleObjects
<1> QED
  BY <1>1, NoneAssumption DEF HandleObjects

\* A handle gives back its table, if it has it, and stays as an object v without one.
LEMMA GiveBackInv ==
  ASSUME TableInv, NEW h \in Handles, Alive(h),
         NEW v \in HandleObjects, v.unlocker = None, v.flag \in {None, handle[h].flag},
         locked' = [b \in Tables |-> locked[b] - LocksGivenBack(h, b)],
         flag' = Invalidated(h), handle' = [handle EXCEPT ![h] = v],
         UNCHANGED <<buckets, it, era, born, steps>>
  PROVE  TableInv'
<1> DEFINE m == [k \in Handles |-> k]
<1>0. TableTypes /\ Ownership /\ InPlace
  BY DEF TableInv
<1>2. /\ \A c \in Tables :
           locked'[c] = IF Holds(h) /\ handle[h].table = c THEN 0 ELSE locked[c]
      /\ flag' \in [Flags -> BOOLEAN]
      /\ \A f \in Flags :
           flag'[f] = IF Holds(h) /\ handle[h].flag = f THEN FALSE ELSE flag[f]
  BY <1>0, ReleaseFacts
<1>3. /\ handle'[h] \in HandleObjects /\ handle'[h] # None /\ handle'[h].unlocker = None
      /\ handle'[h].flag \in {None, handle[h].flag}
      /\ \A k \in Handles : k # h => handle'[k] = handle[k]
  BY <1>0, MovedFromFacts DEF TableTypes
<1>4. TableTypes'
  <2>1. locked' \in [Tables -> {0, 1}]
    BY <1>0, <1>2 DEF TableTypes
  <2> QED
    BY <1>0, <1>2, <2>1 DEF TableTypes
<1>5. ASSUME NEW k \in Handles
      PROVE  /\ Holds(k)' <=> Holds(k) /\ k # h
             /\ k # h => (Alive(k)' <=> Alive(k))
  <2>1. CASE k = h
    <3>1. Alive(h) /\ Alive(h)'
      BY <1>3 DEF Alive
    <3>2. ~ HasTableLock(h)'
      BY <1>0, <1>2, <1>3, HandleFacts DEF HasTableLock, Holds
    <3> QED
      BY <2>1, <3>1, <3>2 DEF Holds
  <2>2. CASE k # h
    <3>1. handle'[k] = handle[k] /\ (Alive(k)' <=> Alive(k))
      BY <1>3, <2>2 DEF Alive
    <3>2. ASSUME Alive(k), handle[k].flag # None
          PROVE  flag'[handle[k].flag] <=> flag[handle[k].flag]
      <4>1. handle[k].flag \in Flags
        BY <1>0, <3>2, HandleFacts
      <4>2. CASE flag[handle[k].flag]
        <5>1. Holds(k)
          BY <3>2, <4>2 DEF Holds, HasTableLock
        <5>2. ~ (Holds(h) /\ handle[h].flag = handle[k].flag)
          BY <1>0, <2>2, <5>1 DEF Ownership, FlagsApart
        <5> QED
          BY <1>2, <4>1, <5>2
      <4>3. CASE ~ flag[handle[k].flag]
        BY <1>2, <4>1, <4>3
      <4> QED
        BY <4>2, <4>3
    <3>3. Alive(k) => (HasTableLock(k)' <=> HasTableLock(k))
      BY <3>1, <3>2 DEF HasTableLock
    <3> QED
      BY <2>2, <3>1, <3>3 DEF Holds
  <2> QED
    BY <2>1, <2>2
<1>6. OwnerKnown'
  BY <1>0, <1>3, <1>5 DEF OwnerKnown, Ownership, Holds
<1>7. Ownership' /\ \A i \in Iterators : Usable(i)' => Usable(i)
  <2>1. {h} \in SUBSET Handles /\ m \in [Handles -> Handles]
    OBVIOUS
  <2>2. \A k \in Handles : m[k] = k
    OBVIOUS
  <2> HIDE DEF m
  <2>3. Handed({h}, m)
    BY <1>3, <1>5, <2>2 DEF Handed
  <2>4. GivenBack({h})
    BY <1>2 DEF GivenBack
  <2>5. TableTypes /\ Ownership /\ UNCHANGED <<it, era, born>>
    BY <1>0
  <2> QED
    BY <1>6, <2>1, <2>3, <2>4, <2>5, HandedOver
<1>8. InPlace'
  BY <1>0, <1>7, StaysInPlace
<1> QED
  BY <1>4, <1>7, <1>8 DEF TableInv

\* The destructor gives back the table, if the handle has it, and nothing twice.
LEMMA DestroyInv ==
  ASSUME TableInv, NEW h \in Handles, Destroy(h)
  PROVE  TableInv'
<1> DEFINE m == [k \in Handles |-> k]
<1>0. TableTypes /\ Ownership /\ InPlace
  BY DEF TableInv
<1>1. /\ Alive(h)
      /\ flag' = Invalidated(h)
      /\ handle' = [handle EXCEPT ![h] = None]
      /\ UNCHANGED <<buckets, it, era, born, steps>>
  BY DEF Destroy, history
<1>2. /\ \A c \in Tables :
           locked[c] - LocksGivenBack(h, c)
             = IF Holds(h) /\ handle[h].table = c THEN 0 ELSE locked[c]
      /\ flag' \in [Flags -> BOOLEAN]
      /\ \A f \in Flags :
           flag'[f] = IF Holds(h) /\ handle[h].flag = f THEN FALSE ELSE flag[f]
      /\ AfterRelease(h).unlocker = None
  BY <1>0, <1>1, ReleaseFacts
<1>3. /\ locked' \in [Tables -> {0, 1}]
      /\ \A c \in Tables :
           locked'[c] = IF Holds(h) /\ handle[h].table = c THEN 0 ELSE locked[c]
  <2> DEFINE left(b) == IF AfterRelease(h).unlocker = b THEN 1 ELSE 0
  <2>1. locked' = [b \in Tables |-> locked[b] - LocksGivenBack(h, b) - left(b)]
    BY DEF Destroy
  <2>2. \A c \in Tables : left(c) = 0
    BY <1>2, NoneAssumption
  <2> HIDE DEF left
  <2>3. ASSUME NEW c \in Tables
        PROVE  locked'[c] = IF Holds(h) /\ handle[h].table = c THEN 0 ELSE locked[c]
    <3>1. locked[c] \in {0, 1}
      BY <1>0 DEF TableTypes
    <3>2. locked'[c] = locked[c] - LocksGivenBack(h, c) - 0
      BY <2>1, <2>2
    <3> QED
      BY <1>2, <3>1, <3>2
  <2> QED
    BY <1>0, <2>1, <2>3 DEF TableTypes
<1>4. handle'[h] = None /\ \A k \in Handles : k # h => handle'[k] = handle[k]
  BY <1>0, <1>1 DEF TableTypes
<1>5. TableTypes'
  BY <1>0, <1>1, <1>2, <1>3 DEF TableTypes
<1>6. ASSUME NEW k \in Handles
      PROVE  /\ Holds(k)' <=> Holds(k) /\ k # h
             /\ Alive(k)' <=> Alive(k) /\ k # h
  <2>1. Alive(k)' <=> Alive(k) /\ k # h
    BY <1>4 DEF Alive
  <2>2. ASSUME k # h, Alive(k)
        PROVE  HasTableLock(k)' <=> HasTableLock(k)
    <3>1. ASSUME handle[k].flag # None
          PROVE  flag'[handle[k].flag] <=> flag[handle[k].flag]
      <4>1. handle[k].flag \in Flags
        BY <1>0, <2>2, <3>1, HandleFacts
      <4>2. CASE flag[handle[k].flag]
        <5>1. Holds(k)
          BY <2>2, <3>1, <4>2 DEF Holds, HasTableLock
        <5>2. ~ (Holds(h) /\ handle[h].flag = handle[k].flag)
          BY <1>0, <2>2, <5>1 DEF Ownership, FlagsApart
        <5> QED
          BY <1>2, <4>1, <5>2
      <4>3. CASE ~ flag[handle[k].flag]
        BY <1>2, <4>1, <4>3
      <4> QED
        BY <4>2, <4>3
    <3> QED
      BY <1>4, <2>2, <3>1 DEF HasTableLock
  <2> QED
    BY <2>1, <2>2 DEF Holds
<1>7. OwnerKnown'
  BY <1>0, <1>4, <1>6 DEF OwnerKnown, Ownership, Holds
<1>8. Ownership' /\ \A i \in Iterators : Usable(i)' => Usable(i)
  <2>1. {h} \in SUBSET Handles /\ m \in [Handles -> Handles]
    OBVIOUS
  <2>2. \A k \in Handles : m[k] = k
    OBVIOUS
  <2> HIDE DEF m
  <2>3. Handed({h}, m)
    BY <1>4, <1>6, <2>2 DEF Handed
  <2>4. GivenBack({h})
    BY <1>2, <1>3 DEF GivenBack
  <2>5. TableTypes /\ Ownership /\ UNCHANGED <<it, era, born>>
    BY <1>0, <1>1
  <2> QED
    BY <1>7, <2>1, <2>3, <2>4, <2>5, HandedOver
<1>9. InPlace'
  BY <1>0, <1>1, <1>8, StaysInPlace
<1> QED
  BY <1>5, <1>8, <1>9 DEF TableInv

\* A handle h takes over what src has, after those in gone have given back their tables.
LEMMA TakeOverInv ==
  ASSUME TableInv, NEW h \in Handles, NEW src \in Handles, h # src, Alive(src),
         handle' = [handle EXCEPT ![h] = handle[src], ![src] = MovedFrom(handle[src])],
         UNCHANGED <<buckets, it, era, born, steps>>,
         locked' \in [Tables -> {0, 1}], flag' \in [Flags -> BOOLEAN],
         GivenBack({k \in {h} : Alive(k)})
  PROVE  TableInv'
<1> DEFINE gone == {k \in {h} : Alive(k)}
           m == [k \in Handles |-> IF k = h THEN src ELSE k]
<1>0. TableTypes /\ Ownership /\ InPlace
  BY DEF TableInv
<1>1. handle[src] \in HandleObjects /\ (Holds(src) => handle[src].flag # None)
  BY <1>0, HandleFacts DEF Holds, HasTableLock
<1>2. /\ handle'[h] = handle[src] /\ handle'[src] = MovedFrom(handle[src])
      /\ \A k \in Handles : k # h /\ k # src => handle'[k] = handle[k]
  BY <1>0 DEF TableTypes
<1>3. /\ MovedFrom(handle[src]) \in HandleObjects /\ handle[src] # None
      /\ handle'[src] # None /\ handle'[src].unlocker = None /\ handle'[src].flag = None
  BY <1>1, <1>2, MovedFromFacts
<1>4. TableTypes'
  BY <1>0, <1>1, <1>3 DEF TableTypes
<1>5. \A k \in Handles : m[k] = IF k = h THEN src ELSE k
  OBVIOUS
<1>6. m \in [Handles -> Handles] /\ gone \in SUBSET Handles
  OBVIOUS
<1>7. \A k \in Handles : k \in gone <=> k = h /\ Alive(h)
  OBVIOUS
<1> HIDE DEF m, gone
\* A flag keeps its value unless it is that of the handle that is gone.
<1>8. ASSUME NEW j \in Handles, Alive(j), j # h, handle[j].flag # None
      PROVE  flag'[handle[j].flag] <=> flag[handle[j].flag]
  <2>1. handle[j].flag \in Flags
    BY <1>0, <1>8, HandleFacts
  <2>2. CASE flag[handle[j].flag]
    <3>1. Holds(j)
      BY <1>8, <2>2 DEF Holds, HasTableLock
    <3>2. ASSUME NEW g \in gone, Holds(g), handle[g].flag = handle[j].flag
          PROVE  FALSE
      BY <1>0, <1>6, <1>7, <1>8, <3>1, <3>2 DEF Ownership, FlagsApart
    <3> QED
      BY <2>1, <3>2 DEF GivenBack, gone
  <2>3. CASE ~ flag[handle[j].flag]
    BY <2>1, <2>3 DEF GivenBack
  <2> QED
    BY <2>2, <2>3
<1>9. ASSUME NEW k \in Handles
      PROVE  /\ k = src => Alive(k)' /\ ~ Holds(k)'
             /\ k # src => /\ Alive(k)' <=> Alive(m[k])
                           /\ Holds(k)' <=> Holds(m[k])
                           /\ handle'[k] = handle[m[k]]
  <2>1. CASE k = src
    BY <1>3, <2>1 DEF Alive, Holds, HasTableLock
  <2>2. CASE k # src
    <3>1. m[k] \in Handles /\ m[k] # h /\ handle'[k] = handle[m[k]]
      BY <1>2, <1>5, <2>2
    <3>2. Alive(k)' <=> Alive(m[k])
      BY <3>1 DEF Alive
    <3>3. Alive(m[k]) => (HasTableLock(k)' <=> HasTableLock(m[k]))
      <4>1. ASSUME Alive(m[k]), handle[m[k]].flag # None
            PROVE  flag'[handle[m[k]].flag] <=> flag[handle[m[k]].flag]
        BY <1>8, <3>1, <4>1
      <4> QED
        BY <3>1, <4>1 DEF HasTableLock
    <3> QED
      BY <2>2, <3>1, <3>2, <3>3 DEF Holds
  <2> QED
    BY <2>1, <2>2
<1>10. OwnerKnown'
  <2> SUFFICES ASSUME NEW k \in Handles, Alive(k)'
               PROVE  handle'[k].unlocker = IF HasTableLock(k)' THEN handle'[k].table ELSE None
    BY DEF OwnerKnown
  <2>1. CASE k = src
    BY <1>3, <1>9, <2>1 DEF Holds
  <2>2. CASE k # src
    <3>1. /\ m[k] \in Handles /\ Alive(m[k]) /\ handle'[k] = handle[m[k]]
          /\ Holds(k)' <=> Holds(m[k])
      BY <1>5, <1>9, <2>2
    <3>2. HasTableLock(k)' <=> HasTableLock(m[k])
      BY <3>1 DEF Holds
    <3>3. handle[m[k]].unlocker = IF HasTableLock(m[k]) THEN handle[m[k]].table ELSE None
      BY <1>0, <3>1 DEF Ownership, OwnerKnown
    <3> QED
      BY <3>1, <3>2, <3>3
  <2> QED
    BY <2>1, <2>2
<1>11. Handed(gone, m)
  <2>1. \A k \in Handles : Holds(k)' => /\ Holds(m[k]) /\ m[k] \notin gone
                                        /\ handle'[k] = handle[m[k]]
    BY <1>5, <1>7, <1>9
  <2>2. ASSUME NEW j \in Handles, Holds(j), j \notin gone
        PROVE  \E k \in Handles : m[k] = j /\ Holds(k)'
    <3>1. j # h
      BY <1>7, <2>2 DEF Holds
    <3>2. CASE j = src
      BY <1>5, <1>9, <2>2, <3>2
    <3>3. CASE j # src
      BY <1>5, <1>9, <2>2, <3>1, <3>3
    <3> QED
      BY <3>2, <3>3
  <2>3. \A k, l \in Handles : Holds(k)' /\ Holds(l)' /\ m[k] = m[l] => k = l
    BY <1>5, <1>9
  <2> QED
    BY <2>1, <2>2, <2>3 DEF Handed
<1>12. Ownership' /\ \A i \in Iterators : Usable(i)' => Usable(i)
  <2>1. GivenBack(gone)
    BY DEF gone
  <2> QED
    BY <1>0, <1>6, <1>10, <1>11, <2>1, HandedOver
<1>13. InPlace'
  BY <1>0, <1>12, StaysInPlace
<1> QED
  BY <1>4, <1>12, <1>13 DEF TableInv

\* release gives back the table, if the handle has it.
LEMMA ReleaseInv ==
  ASSUME TableInv, NEW h \in Handles, Release(h)
  PROVE  TableInv'
<1>1. /\ Alive(h)
      /\ locked' = [b \in Tables |-> locked[b] - LocksGivenBack(h, b)]
      /\ flag' = Invalidated(h)
      /\ handle' = [handle EXCEPT ![h] = AfterRelease(h)]
      /\ UNCHANGED <<buckets, it, era, born, steps>>
  BY DEF Release, history
<1>2. /\ AfterRelease(h) \in HandleObjects /\ AfterRelease(h).unlocker = None
      /\ AfterRelease(h).flag \in {None, handle[h].flag}
  BY <1>1, ReleaseFacts DEF TableInv
<1> QED
  BY <1>1, <1>2, GiveBackInv

\* The move constructor takes over the table.
LEMMA MoveConstructInv ==
  ASSUME TableInv, NEW h \in Handles, NEW src \in Handles, MoveConstruct(h, src)
  PROVE  TableInv'
<1>1. /\ ~ Alive(h) /\ Alive(src) /\ h # src
      /\ handle' = [handle EXCEPT ![h] = handle[src], ![src] = MovedFrom(handle[src])]
      /\ UNCHANGED <<buckets, it, era, born, steps>>
      /\ locked' = locked /\ flag' = flag
  BY DEF MoveConstruct, history
<1>2. locked' \in [Tables -> {0, 1}] /\ flag' \in [Flags -> BOOLEAN]
  BY <1>1 DEF TableInv, TableTypes
<1>3. GivenBack({k \in {h} : Alive(k)})
  BY <1>1 DEF GivenBack
<1> QED
  BY <1>1, <1>2, <1>3, TakeOverInv

\* The move assignment releases the target first, also when it is the source.
LEMMA MoveAssignInv ==
  ASSUME TableInv, NEW h \in Handles, NEW src \in Handles, MoveAssign(h, src)
  PROVE  TableInv'
<1>1. /\ Alive(h) /\ Alive(src)
      /\ locked' = [b \in Tables |-> locked[b] - LocksGivenBack(h, b)]
      /\ flag' = Invalidated(h)
      /\ UNCHANGED <<buckets, it, era, born, steps>>
  BY DEF MoveAssign, history
<1>2. CASE h = src
  <2>1. handle' = [handle EXCEPT ![h] = MovedFrom(AfterRelease(h))]
    BY <1>2 DEF MoveAssign
  <2>2. AfterRelease(h) \in HandleObjects
    BY <1>1, ReleaseFacts DEF TableInv
  <2>3. /\ MovedFrom(AfterRelease(h)) \in HandleObjects
        /\ MovedFrom(AfterRelease(h)).unlocker = None
        /\ MovedFrom(AfterRelease(h)).flag \in {None, handle[h].flag}
    BY <2>2, MovedFromFacts
  <2> QED
    BY <1>1, <2>1, <2>3, GiveBackInv
<1>3. CASE h # src
  <2>1. handle' = [handle EXCEPT ![h] = handle[src], ![src] = MovedFrom(handle[src])]
    BY <1>3 DEF MoveAssign
  <2>2. TableTypes /\ Ownership
    BY DEF TableInv
  <2>3. /\ \A c \in Tables : locked[c] - LocksGivenBack(h, c)
                              = IF Holds(h) /\ handle[h].table = c THEN 0 ELSE locked[c]
        /\ flag' \in [Flags -> BOOLEAN]
        /\ \A f \in Flags : flag'[f] = IF Holds(h) /\ handle[h].flag = f THEN FALSE ELSE flag[f]
    BY <1>1, <2>2, ReleaseFacts
  <2>4. \A c \in Tables :
          locked'[c] = IF Holds(h) /\ handle[h].table = c THEN 0 ELSE locked[c]
    BY <1>1, <2>3
  <2>5. locked' \in [Tables -> {0, 1}]
    BY <1>1, <2>2, <2>4 DEF TableTypes
  <2>6. GivenBack({k \in {h} : Alive(k)})
    BY <2>3, <2>4 DEF GivenBack, Holds
  <2> QED
    BY <1>1, <1>3, <2>1, <2>3, <2>5, <2>6, TakeOverInv
<1> QED
  BY <1>2, <1>3

-----------------------------------------------------------------------------
(***************************************************************************)
(* The iterators.                                                          *)
(***************************************************************************)

\* The items of a vector of buckets.
LEMMA BucketFacts ==
  ASSUME NEW bs, IsBuckets(bs), NEW n, n = Cardinality(DOMAIN bs)
  PROVE  /\ n \in Nat /\ DOMAIN bs = 0 .. n - 1 /\ end_pos(bs) = <<n, 0>>
         /\ Items(bs) = ItemsOf(bs) /\ Items(bs) = ItemsBelow(bs, n)
         /\ IsFiniteSet(Items(bs))
<1>1. n \in Nat /\ DOMAIN bs = 0 .. n - 1
  BY FS_CardinalityType DEF IsBuckets
<1>2. Items(bs) = ItemsOf(bs) /\ Items(bs) = ItemsBelow(bs, n)
  BY <1>1 DEF Items, ItemsBelow, ItemsOf
<1>3. IsFiniteSet(DOMAIN bs) /\ IsFiniteSet(Slots)
  BY SlotAssumption, FS_Interval DEF IsBuckets, Slots
<1>4. IsFiniteSet((DOMAIN bs) \X Slots)
  BY <1>3, FS_Product
<1>5. ItemsOf(bs) \in SUBSET ((DOMAIN bs) \X Slots)
  BY DEF ItemsOf
<1>6. IsFiniteSet(Items(bs))
  BY <1>2, <1>4, <1>5, FS_Subset
<1> QED
  BY <1>1, <1>2, <1>6 DEF end_pos

\* The places where an iterator may be.
LEMMA PlaceFacts ==
  ASSUME NEW bs, IsBuckets(bs), NEW n, n = Cardinality(DOMAIN bs),
         NEW p \in Items(bs) \union {end_pos(bs)}
  PROVE  /\ p = <<p[1], p[2]>> /\ p[1] \in 0 .. n /\ p[2] \in Slots
         /\ p[2] \in -1 .. SLOT_PER_BUCKET
         /\ p # end_pos(bs) => p[1] \in 0 .. n - 1 /\ bs[p[1]][p[2]] # Vacant
         /\ p = end_pos(bs) => \A q \in Items(bs) : Precedes(q, p)
<1>0. SLOT_PER_BUCKET \in Nat /\ SLOT_PER_BUCKET > 0
  BY SlotAssumption
<1>1. n \in Nat /\ end_pos(bs) = <<n, 0>> /\ Items(bs) = ItemsBelow(bs, n)
  BY BucketFacts
<1>2. CASE p = end_pos(bs)
  BY <1>0, <1>1, <1>2, ItemFacts DEF Precedes, Slots
<1>3. CASE p # end_pos(bs)
  BY <1>0, <1>1, <1>3, ItemFacts DEF Slots
<1> QED
  BY <1>2, <1>3

\* Items are in order.
LEMMA InOrder ==
  ASSUME NEW bs, IsBuckets(bs), NEW p \in Items(bs), NEW q \in Items(bs)
  PROVE  p = q \/ Precedes(p, q) \/ Precedes(q, p)
<1> DEFINE n == Cardinality(DOMAIN bs)
<1>1. n \in Nat /\ Items(bs) = ItemsBelow(bs, n)
  BY BucketFacts
<1> HIDE DEF n
<1> QED
  BY <1>1, SamePosition

\* begin: no items are before the first.
LEMMA AtBegin ==
  ASSUME NEW bs, IsBuckets(bs)
  PROVE  At(bs, Settle(bs, <<0, 0>>), 0)
<1> DEFINE n == Cardinality(DOMAIN bs)
           r == Settle(bs, <<0, 0>>)
<1>0. SLOT_PER_BUCKET \in Nat /\ SLOT_PER_BUCKET > 0
  BY SlotAssumption
<1>1. n \in Nat /\ end_pos(bs) = <<n, 0>> /\ Items(bs) = ItemsBelow(bs, n)
  BY BucketFacts
<1>f. IsFiniteSet(DOMAIN bs)
  BY DEF IsBuckets
<1>2. n # 0 /\ bs[0][0] = Vacant => IsAfter(bs, n, <<0, 0>>, r)
  <2>1. n # 0 /\ bs[0][0] = Vacant => r = After(bs, <<0, 0>>)
    BY <1>1 DEF Settle
  <2>2. 0 \in 0 .. n /\ 0 \in -1 .. SLOT_PER_BUCKET
    BY <1>0, <1>1
  <2>3. IsAfter(bs, n, <<0, 0>>, After(bs, <<0, 0>>))
    BY <1>f, <2>2, AfterFinds
  <2> QED
    BY <2>1, <2>3
<1>3. ~ (n # 0 /\ bs[0][0] = Vacant) => r = <<0, 0>>
  BY <1>1 DEF Settle
<1> HIDE DEF n, r
<1>4. \A q \in Items(bs) : q[1] \in 0 .. n - 1 /\ q[2] \in 0 .. SLOT_PER_BUCKET - 1
                           /\ q = <<q[1], q[2]>> /\ bs[q[1]][q[2]] # Vacant
  BY <1>1, ItemFacts
<1>5. r \in Items(bs) \union {end_pos(bs)} /\ \A q \in Items(bs) : ~ Precedes(q, r)
  <2>1. CASE n = 0
    BY <1>1, <1>3, <1>4, <2>1
  <2>2. CASE n # 0 /\ bs[0][0] = Vacant
    <3>1. ASSUME NEW q \in Items(bs)
          PROVE  Precedes(<<0, 0>>, q)
      BY <1>4, <2>2 DEF Precedes
    <3> QED
      BY <1>1, <1>2, <2>2, <3>1 DEF IsAfter
  <2>3. CASE n # 0 /\ bs[0][0] # Vacant
    <3>1. 0 \in 0 .. n - 1 /\ 0 \in 0 .. SLOT_PER_BUCKET - 1
      BY <1>0, <1>1, <2>3
    <3>2. <<0, 0>> \in Items(bs)
      BY <1>1, <2>3, <3>1, ItemAt
    <3> QED
      BY <1>3, <1>4, <2>3, <3>2 DEF Precedes
  <2> QED
    BY <2>1, <2>2, <2>3
<1>6. Passed(bs, r) = {}
  BY <1>5 DEF Passed
<1> QED
  BY <1>5, <1>6, FS_EmptySet DEF At, r

\* end: all items are before it.
LEMMA AtTheEnd ==
  ASSUME NEW bs, IsBuckets(bs)
  PROVE  /\ Settle(bs, end_pos(bs)) = end_pos(bs)
         /\ At(bs, end_pos(bs), Cardinality(ItemsOf(bs)))
<1>1. Passed(bs, end_pos(bs)) = Items(bs)
  BY PlaceFacts DEF Passed
<1> QED
  BY <1>1, BucketFacts DEF Settle, At

\* operator++ passes one item, and stays at the end.
LEMMA StepForward ==
  ASSUME NEW bs, IsBuckets(bs), NEW p, NEW k, At(bs, p, k)
  PROVE  At(bs, After(bs, p), IF p = end_pos(bs) THEN k ELSE k + 1)
<1> DEFINE n == Cardinality(DOMAIN bs)
           r == After(bs, p)
<1>1. /\ n \in Nat /\ end_pos(bs) = <<n, 0>> /\ Items(bs) = ItemsBelow(bs, n)
      /\ IsFiniteSet(Items(bs))
  BY BucketFacts
<1>2. /\ p \in Items(bs) \union {end_pos(bs)} /\ p = <<p[1], p[2]>>
      /\ p[1] \in 0 .. n /\ p[2] \in -1 .. SLOT_PER_BUCKET
  BY PlaceFacts DEF At
<1>3. IsAfter(bs, n, p, r)
  <2>1. IsFiniteSet(DOMAIN bs)
    BY DEF IsBuckets
  <2>2. IsAfter(bs, n, <<p[1], p[2]>>, After(bs, <<p[1], p[2]>>))
    BY <1>2, <2>1, AfterFinds
  <2> QED
    BY <1>2, <2>2
<1> HIDE DEF n, r
<1>4. r \in Items(bs) \union {end_pos(bs)}
  BY <1>1, <1>3 DEF IsAfter
<1>5. CASE p = end_pos(bs)
  <2>1. \A q \in Items(bs) : ~ Precedes(p, q)
    <3>1. ASSUME NEW q \in Items(bs)
          PROVE  q[1] \in 0 .. n - 1
      BY <1>1, ItemFacts
    <3> QED
      BY <1>1, <1>5, <3>1 DEF Precedes
  <2>2. r = p
    BY <1>1, <1>3, <1>5, <2>1 DEF IsAfter
  <2> QED
    BY <1>5, <2>2 DEF r
<1>6. CASE p # end_pos(bs)
  <2>1. p \in Items(bs)
    BY <1>2, <1>6
  <2>2. Precedes(p, r)
    BY <1>1, <1>3, <2>1, PlaceFacts DEF IsAfter
  <2>3. ~ Precedes(p, p)
    BY <1>2 DEF Precedes
  <2>4. ASSUME NEW q \in Items(bs)
        PROVE  Precedes(q, r) <=> Precedes(q, p) \/ q = p
    <3>1. Precedes(p, q) => ~ Precedes(q, r)
      BY <1>1, <1>3 DEF IsAfter
    <3>2. Precedes(q, p) => Precedes(q, r)
      <4>1. /\ q[1] \in Int /\ q[2] \in Int /\ p[1] \in Int /\ p[2] \in Int
            /\ r[1] \in Int /\ r[2] \in Int
        BY <1>4, <2>1, PlaceFacts DEF Slots
      <4> QED
        BY <2>2, <4>1 DEF Precedes
    <3> QED
      BY <2>1, <2>2, <3>1, <3>2, InOrder
  <2>5. Passed(bs, r) = Passed(bs, p) \union {p}
    BY <2>1, <2>4 DEF Passed
  <2>6. p \notin Passed(bs, p)
    BY <2>3 DEF Passed
  <2>7. IsFiniteSet(Passed(bs, p))
    <3>1. Passed(bs, p) \in SUBSET Items(bs)
      BY DEF Passed
    <3> QED
      BY <1>1, <3>1, FS_Subset
  <2>8. Cardinality(Passed(bs, r)) = Cardinality(Passed(bs, p)) + 1
    BY <2>5, <2>6, <2>7, FS_AddElement
  <2> QED
    BY <1>4, <1>6, <2>8 DEF At, r
<1> QED
  BY <1>5, <1>6

\* operator-- goes back over one item, and from the first item, or when there is none,
\* to the end.
LEMMA StepBackward ==
  ASSUME NEW bs, IsBuckets(bs), NEW p, NEW k, At(bs, p, k)
  PROVE  At(bs, Before(bs, p), IF k = 0 THEN Cardinality(ItemsOf(bs)) ELSE k - 1)
<1> DEFINE n == Cardinality(DOMAIN bs)
           r == Before(bs, p)
<1>0. SLOT_PER_BUCKET \in Nat /\ SLOT_PER_BUCKET > 0
  BY SlotAssumption
<1>1. /\ n \in Nat /\ end_pos(bs) = <<n, 0>> /\ Items(bs) = ItemsBelow(bs, n)
      /\ IsFiniteSet(Items(bs))
  BY BucketFacts
<1>2. /\ p \in Items(bs) \union {end_pos(bs)} /\ p = <<p[1], p[2]>>
      /\ p[1] \in 0 .. n /\ p[2] \in -1 .. SLOT_PER_BUCKET /\ p[2] \in Slots
      /\ p = end_pos(bs) \/ p[1] \in 0 .. n - 1
  BY PlaceFacts DEF At
<1>3. IsBefore(bs, n + 1, end_pos(bs), p, r)
  <2>1. IsFiniteSet(DOMAIN bs)
    BY DEF IsBuckets
  <2>2. p[1] \in -1 .. n
    BY <1>1, <1>2
  <2>3. IsBefore(bs, n + 1, end_pos(bs), <<p[1], p[2]>>, Before(bs, <<p[1], p[2]>>))
    BY <1>2, <2>1, <2>2, BeforeFinds
  <2> QED
    BY <1>2, <2>3
<1> HIDE DEF n, r
\* Only items of the array are before a place of the array.
<1>4. ASSUME NEW q
      PROVE  q \in ItemsBelow(bs, n + 1) /\ Precedes(q, p) <=> q \in Passed(bs, p)
  <2>1. ASSUME q \in ItemsBelow(bs, n + 1), Precedes(q, p)
        PROVE  q \in Items(bs)
    <3>1. /\ q[1] \in 0 .. n /\ q[2] \in 0 .. SLOT_PER_BUCKET - 1
          /\ q = <<q[1], q[2]>> /\ bs[q[1]][q[2]] # Vacant
      BY <1>1, <2>1, ItemFacts
    <3>2. q[1] # n
      BY <1>1, <1>2, <2>1, <3>1 DEF Precedes
    <3>3. q[1] \in 0 .. n - 1
      BY <1>1, <3>1, <3>2
    <3> QED
      BY <1>1, <3>1, <3>3, ItemAt
  <2>2. ASSUME q \in Items(bs)
        PROVE  q \in ItemsBelow(bs, n + 1)
    <3>1. /\ q[1] \in 0 .. n - 1 /\ q[2] \in 0 .. SLOT_PER_BUCKET - 1
          /\ q = <<q[1], q[2]>> /\ bs[q[1]][q[2]] # Vacant
      BY <1>1, <2>2, ItemFacts
    <3>2. q[1] \in 0 .. (n + 1) - 1 /\ n + 1 \in Nat
      BY <1>1, <3>1
    <3> QED
      BY <3>1, <3>2, ItemAt
  <2> QED
    BY <2>1, <2>2 DEF Passed
<1>5. IsFiniteSet(Passed(bs, p)) /\ Cardinality(Passed(bs, p)) = k
  <2>1. Passed(bs, p) \in SUBSET Items(bs)
    BY DEF Passed
  <2> QED
    BY <1>1, <2>1, FS_Subset DEF At
<1>6. CASE k = 0
  <2>1. Passed(bs, p) = {}
    BY <1>5, <1>6, FS_EmptySet
  <2>2. r = end_pos(bs)
    BY <1>3, <1>4, <2>1 DEF IsBefore
  <2> QED
    BY <1>6, <2>2, AtTheEnd DEF r
<1>7. CASE k # 0
  <2>1. PICK q0 : q0 \in Passed(bs, p)
    BY <1>5, <1>7, FS_EmptySet
  <2>2. /\ r \in Passed(bs, p)
        /\ \A q \in Passed(bs, p) : ~ Precedes(r, q)
    BY <1>3, <1>4, <2>1 DEF IsBefore
  <2>3. r \in Items(bs) /\ Precedes(r, p)
    BY <2>2 DEF Passed
  <2>4. ASSUME NEW q \in Items(bs)
        PROVE  Precedes(q, r) <=> Precedes(q, p) /\ q # r
    <3>1. /\ q[1] \in Int /\ q[2] \in Int /\ p[1] \in Int /\ p[2] \in Int
          /\ r[1] \in Int /\ r[2] \in Int
      BY <1>2, <2>3, PlaceFacts DEF Slots
    <3>2. Precedes(q, r) => Precedes(q, p) /\ q # r
      BY <2>3, <3>1 DEF Precedes
    <3>3. Precedes(q, p) => ~ Precedes(r, q)
      BY <2>2 DEF Passed
    <3> QED
      BY <2>3, <3>2, <3>3, InOrder
  <2>5. Passed(bs, r) = Passed(bs, p) \ {r}
    BY <2>4 DEF Passed
  <2>6. Cardinality(Passed(bs, r)) = k - 1
    BY <1>5, <2>2, <2>5, FS_RemoveElement
  <2> QED
    BY <1>7, <2>3, <2>6 DEF At, r
<1> QED
  BY <1>6, <1>7

\* Two places with as many items before them are the same.
LEMMA SamePlace ==
  ASSUME NEW bs, IsBuckets(bs), NEW p, NEW q, NEW k, At(bs, p, k), At(bs, q, k)
  PROVE  p = q
<1>0. IsFiniteSet(Items(bs))
  BY BucketFacts
<1>1. ASSUME NEW x, NEW y, x \in Items(bs), y \in Items(bs) \union {end_pos(bs)},
             Precedes(x, y)
      PROVE  Cardinality(Passed(bs, x)) # Cardinality(Passed(bs, y))
  <2>1. x \in Passed(bs, y)
    BY <1>1 DEF Passed
  <2>2. /\ x[1] \in Int /\ x[2] \in Int /\ y[1] \in Int /\ y[2] \in Int
        /\ \A z \in Items(bs) : z[1] \in Int /\ z[2] \in Int
    BY <1>1, PlaceFacts DEF Slots
  <2>3. x \notin Passed(bs, x) /\ Passed(bs, x) \in SUBSET Passed(bs, y)
    BY <1>1, <2>2 DEF Passed, Precedes
  <2>4. IsFiniteSet(Passed(bs, y))
    <3>1. Passed(bs, y) \in SUBSET Items(bs)
      BY DEF Passed
    <3> QED
      BY <1>0, <3>1, FS_Subset
  <2> QED
    BY <2>1, <2>3, <2>4, FS_Subset
<1>2. /\ p \in Items(bs) \union {end_pos(bs)} /\ q \in Items(bs) \union {end_pos(bs)}
      /\ Cardinality(Passed(bs, p)) = Cardinality(Passed(bs, q))
  BY DEF At
<1>3. CASE p \in Items(bs) /\ q \in Items(bs)
  BY <1>1, <1>2, <1>3, InOrder
<1>4. CASE p = end_pos(bs) /\ q = end_pos(bs)
  BY <1>4
<1>5. CASE p \in Items(bs) /\ q = end_pos(bs)
  <2>1. Precedes(p, q)
    BY <1>5, PlaceFacts
  <2> QED
    BY <1>1, <1>2, <1>5, <2>1
<1>6. CASE q \in Items(bs) /\ p = end_pos(bs)
  <2>1. Precedes(q, p)
    BY <1>6, PlaceFacts
  <2> QED
    BY <1>1, <1>2, <1>6, <2>1
<1> QED
  BY <1>2, <1>3, <1>4, <1>5, <1>6

\* A value stored through an iterator changes no item's place.
LEMMA Overwritten ==
  ASSUME NEW bs, IsBuckets(bs), NEW p \in Items(bs), NEW v \in Vals,
         NEW w, w = [bs EXCEPT ![p[1]][p[2]] = v]
  PROVE  /\ IsBuckets(w) /\ end_pos(w) = end_pos(bs) /\ Items(w) = Items(bs)
<1> DEFINE n == Cardinality(DOMAIN bs)
<1>1. n \in Nat /\ DOMAIN bs = 0 .. n - 1 /\ Items(bs) = ItemsBelow(bs, n)
  BY BucketFacts
<1>2. bs \in [0 .. n - 1 -> [Slots -> Vals \union {Vacant}]]
  BY DEF IsBuckets
<1>3. p[1] \in 0 .. n - 1 /\ p[2] \in Slots /\ bs[p[1]][p[2]] # Vacant
  BY <1>1, ItemFacts DEF Slots
<1>4. DOMAIN w = DOMAIN bs
  OBVIOUS
<1> HIDE DEF n
<1>5. w \in [0 .. n - 1 -> [Slots -> Vals \union {Vacant}]]
  BY <1>1, <1>2, <1>3
<1>6. \A i \in 0 .. n - 1, s \in Slots :
        w[i][s] = IF i = p[1] /\ s = p[2] THEN v ELSE bs[i][s]
  BY <1>1, <1>2, <1>3
<1>7. \A q \in (0 .. n - 1) \X Slots : w[q[1]][q[2]] # Vacant <=> bs[q[1]][q[2]] # Vacant
  BY <1>3, <1>6, ArraysAssumption
<1>8. ItemsBelow(w, n) = ItemsBelow(bs, n)
  BY <1>7 DEF ItemsBelow
<1> QED
  BY <1>1, <1>4, <1>5, <1>8 DEF IsBuckets, end_pos, Items, n

\* What is known of the handles stays when they and the locks are left alone.
LEMMA HandlesStay ==
  ASSUME Ownership, UNCHANGED <<handle, flag, locked>>
  PROVE  (OwnerKnown /\ FlagsApart /\ OwnersApart /\ LockedByOwner)'
BY DEF Ownership, OwnerKnown, FlagsApart, OwnersApart, LockedByOwner, Holds, Alive,
   HasTableLock

\* An iterator i gets the members m, of a table of which n items are before its place.
LEMMA IteratorStep ==
  ASSUME TableInv, UNCHANGED <<buckets, locked, flag, handle, era>>,
         NEW i \in Iterators, NEW m \in IteratorObjects, NEW e \in Nat, NEW n \in Nat,
         it' = [it EXCEPT ![i] = m], born' = [born EXCEPT ![i] = e],
         steps' = [steps EXCEPT ![i] = n],
         e <= era[m.table],
         flag[m.flag] => \E h \in Handles : /\ Holds(h) /\ handle[h].flag = m.flag
                                            /\ handle[h].table = m.table,
         flag[m.flag] <=> locked[m.table] = 1 /\ era[m.table] = e,
         flag[m.flag] => At(buckets[m.table], <<m.index, m.slot>>, n)
  PROVE  TableInv'
<1>0. TableTypes /\ Ownership /\ InPlace
  BY DEF TableInv
<1>1. /\ it'[i] = m /\ born'[i] = e /\ steps'[i] = n
      /\ \A j \in Iterators : j # i => it'[j] = it[j] /\ born'[j] = born[j] /\ steps'[j] = steps[j]
  BY <1>0 DEF TableTypes
<1>2. TableTypes'
  BY <1>0 DEF TableTypes
<1>3. (OwnerKnown /\ FlagsApart /\ OwnersApart /\ LockedByOwner)'
  BY <1>0, HandlesStay
<1>4. \A h \in Handles : Holds(h)' <=> Holds(h)
  BY DEF Holds, Alive, HasTableLock
<1>5. \A j \in Iterators : j # i => (Usable(j)' <=> Usable(j))
  BY <1>1 DEF Usable
<1>6. Usable(i)' => flag[m.flag]
  BY <1>1 DEF Usable
<1>7. Backed'
  <2> SUFFICES ASSUME NEW j \in Iterators, Usable(j)'
               PROVE  \E h \in Handles : /\ Holds(h)' /\ handle'[h].flag = it'[j].flag
                                         /\ handle'[h].table = it'[j].table
    BY DEF Backed
  <2>1. CASE j = i
    BY <1>1, <1>4, <1>6, <2>1
  <2>2. CASE j # i
    BY <1>0, <1>1, <1>4, <1>5, <2>2 DEF Ownership, Backed
  <2> QED
    BY <2>1, <2>2
<1>8. BornBefore'
  BY <1>0, <1>1 DEF Ownership, BornBefore
<1>9. ValidWhileLocked'
  <2> SUFFICES ASSUME NEW j \in Iterators, it'[j] # None
               PROVE  Usable(j)' <=> locked'[it'[j].table] = 1 /\ era'[it'[j].table] = born'[j]
    BY DEF ValidWhileLocked
  <2>1. CASE j = i
    BY <1>1, <2>1 DEF Usable
  <2>2. CASE j # i
    BY <1>0, <1>1, <1>5, <2>2 DEF Ownership, ValidWhileLocked
  <2> QED
    BY <2>1, <2>2
<1>10. InPlace'
  <2> SUFFICES ASSUME NEW j \in Iterators, Usable(j)'
               PROVE  At(Array(j), Position(j), steps[j])'
    BY DEF InPlace
  <2>1. CASE j = i
    <3>1. Array(j)' = buckets[m.table] /\ Position(j)' = <<m.index, m.slot>>
      BY <1>1, <2>1 DEF Array, Position
    <3>2. At(Array(j)', Position(j)', steps'[j])
      BY <1>1, <1>6, <2>1, <3>1
    <3> QED
      BY <3>2
  <2>2. CASE j # i
    <3>1. Usable(j) /\ Array(j)' = Array(j) /\ Position(j)' = Position(j) /\ steps'[j] = steps[j]
      BY <1>1, <1>5, <2>2 DEF Array, Position
    <3>2. At(Array(j)', Position(j)', steps'[j])
      BY <1>0, <3>1 DEF InPlace
    <3> QED
      BY <3>2
  <2> QED
    BY <2>1, <2>2
<1> QED
  BY <1>2, <1>3, <1>7, <1>8, <1>9, <1>10 DEF TableInv, Ownership

\* A step that changes nothing.
LEMMA NothingChanges ==
  ASSUME TableInv, UNCHANGED tableVars
  PROVE  TableInv'
<1>0. TableTypes /\ Ownership /\ InPlace
  BY DEF TableInv
<1>1. UNCHANGED <<buckets, locked, flag, handle, it, era, born, steps>>
  BY DEF tableVars
<1>2. TableTypes'
  BY <1>0, <1>1 DEF TableTypes
<1>3. \A i \in Iterators : Usable(i)' <=> Usable(i)
  BY <1>1 DEF Usable
<1>4. Ownership'
  <2>1. (OwnerKnown /\ FlagsApart /\ OwnersApart /\ LockedByOwner)'
    BY <1>0, <1>1, HandlesStay
  <2>2. \A h \in Handles : Holds(h)' <=> Holds(h)
    BY <1>1 DEF Holds, Alive, HasTableLock
  <2> QED
    BY <1>0, <1>1, <1>3, <2>1, <2>2 DEF Ownership, Backed, BornBefore, ValidWhileLocked
<1>5. InPlace'
  BY <1>0, <1>1, <1>3, StaysInPlace
<1> QED
  BY <1>2, <1>4, <1>5 DEF TableInv

\* The members of a new iterator.
LEMMA IteratorFacts ==
  ASSUME NEW b \in Tables, NEW f \in Flags, NEW p, p[1] \in Nat, p[2] \in Slots
  PROVE  /\ IteratorAt(b, f, p) \in IteratorObjects
         /\ IteratorAt(b, f, p).table = b /\ IteratorAt(b, f, p).flag = f
         /\ IteratorAt(b, f, p).index = p[1] /\ IteratorAt(b, f, p).slot = p[2]
BY DEF IteratorAt, IteratorObjects

\* begin and end make an iterator with the boolean of the handle.
LEMMA MakeIteratorInv ==
  ASSUME TableInv, NEW h \in Handles, NEW i \in Iterators, Holds(h), NEW p, NEW n \in Nat,
         MakeIterator(h, i, p, n), UNCHANGED <<buckets, locked, flag, handle, era>>,
         At(buckets[handle[h].table], Settle(buckets[handle[h].table], p), n)
  PROVE  TableInv'
<1> DEFINE b == handle[h].table
           f == handle[h].flag
           r == Settle(buckets[b], p)
           m == IteratorAt(b, f, r)
<1>0. TableTypes /\ Ownership
  BY DEF TableInv
<1>1. b \in Tables /\ f \in Flags /\ flag[f]
  BY <1>0, HandleFacts DEF Holds, HasTableLock
<1>2. IsBuckets(buckets[b]) /\ era[b] \in Nat /\ b # None
  BY <1>0, <1>1, NoneAssumption DEF TableTypes
<1>3. /\ it' = [it EXCEPT ![i] = m] /\ born' = [born EXCEPT ![i] = era[b]]
      /\ steps' = [steps EXCEPT ![i] = n]
  BY DEF MakeIterator
<1>4. locked[b] = 1
  BY <1>0, <1>1 DEF Ownership, LockedByOwner
<1>5. At(buckets[b], r, n)
  OBVIOUS
<1> HIDE DEF r
<1>6. r = <<r[1], r[2]>> /\ r[1] \in Nat /\ r[2] \in Slots
  <2>1. r \in Items(buckets[b]) \union {end_pos(buckets[b])}
    BY <1>5 DEF At
  <2> QED
    BY <1>2, <2>1, PlaceFacts, BucketFacts
<1>7. m \in IteratorObjects /\ m.table = b /\ m.flag = f /\ <<m.index, m.slot>> = r
  BY <1>1, <1>6, IteratorFacts
<1>8. Holds(h) /\ handle[h].flag = f /\ handle[h].table = b
  OBVIOUS
<1> HIDE DEF m, b, f
<1>9. m \in IteratorObjects /\ era[b] \in Nat /\ era[b] <= era[m.table]
  BY <1>2, <1>7
<1>10. /\ flag[m.flag] => \E g \in Handles : /\ Holds(g) /\ handle[g].flag = m.flag
                                             /\ handle[g].table = m.table
       /\ flag[m.flag] <=> locked[m.table] = 1 /\ era[m.table] = era[b]
       /\ flag[m.flag] => At(buckets[m.table], <<m.index, m.slot>>, n)
  BY <1>1, <1>4, <1>5, <1>7, <1>8
<1> QED
  BY <1>3, <1>9, <1>10, IteratorStep

\* begin.
LEMMA BeginInv ==
  ASSUME TableInv, NEW h \in Handles, NEW i \in Iterators, Begin(h, i)
  PROVE  TableInv'
<1>1. CASE HasTableLock(h)
  <2>1. Holds(h) /\ MakeIterator(h, i, <<0, 0>>, 0)
        /\ UNCHANGED <<buckets, locked, flag, handle, era>>
    BY <1>1 DEF Begin, Holds
  <2>2. IsBuckets(buckets[handle[h].table])
    BY <2>1, HandleFacts DEF TableInv, TableTypes, Holds
  <2>3. At(buckets[handle[h].table], Settle(buckets[handle[h].table], <<0, 0>>), 0)
    BY <2>2, AtBegin
  <2> QED
    BY <2>1, <2>3, MakeIteratorInv
<1>2. CASE ~ HasTableLock(h)
  BY <1>2, NothingChanges DEF Begin, tableVars, history
<1> QED
  BY <1>1, <1>2

\* end.
LEMMA EndInv ==
  ASSUME TableInv, NEW h \in Handles, NEW i \in Iterators, End(h, i)
  PROVE  TableInv'
<1>1. CASE HasTableLock(h)
  <2> DEFINE bs == buckets[handle[h].table]
  <2>1. Holds(h) /\ MakeIterator(h, i, end_pos(bs), Cardinality(ItemsOf(bs)))
        /\ UNCHANGED <<buckets, locked, flag, handle, era>>
    BY <1>1 DEF End, Holds
  <2>2. IsBuckets(bs)
    BY <2>1, HandleFacts DEF TableInv, TableTypes, Holds
  <2>3. Cardinality(ItemsOf(bs)) \in Nat
    BY <2>2, BucketFacts, FS_CardinalityType
  <2>4. At(bs, Settle(bs, end_pos(bs)), Cardinality(ItemsOf(bs)))
    BY <2>2, AtTheEnd
  <2> QED
    BY <2>1, <2>3, <2>4, MakeIteratorInv
<1>2. CASE ~ HasTableLock(h)
  BY <1>2, NothingChanges DEF End, tableVars, history
<1> QED
  BY <1>1, <1>2

\* A usable iterator that is moved to another place of its table.
LEMMA MoveToInv ==
  ASSUME TableInv, NEW i \in Iterators, Usable(i), NEW p, NEW n \in Nat, MoveTo(i, p),
         steps' = [steps EXCEPT ![i] = n],
         UNCHANGED <<buckets, locked, flag, handle, era, born>>,
         At(Array(i), p, n)
  PROVE  TableInv'
<1> DEFINE b == it[i].table
           f == it[i].flag
           m == IteratorAt(b, f, p)
           e == born[i]
<1>0. TableTypes /\ Ownership
  BY DEF TableInv
<1>1. it[i] # None /\ b \in Tables /\ f \in Flags /\ flag[f] /\ e \in Nat
  BY <1>0 DEF TableTypes, IteratorObjects, Usable
<1>2. IsBuckets(buckets[b]) /\ At(buckets[b], p, n)
  BY <1>0, <1>1 DEF TableTypes, Array
<1>3. p = <<p[1], p[2]>> /\ p[1] \in Nat /\ p[2] \in Slots
  <2>1. p \in Items(buckets[b]) \union {end_pos(buckets[b])}
    BY <1>2 DEF At
  <2> QED
    BY <1>2, <2>1, PlaceFacts, BucketFacts
<1>4. m \in IteratorObjects /\ m.table = b /\ m.flag = f /\ <<m.index, m.slot>> = p
  BY <1>1, <1>3, IteratorFacts
<1>5. it' = [it EXCEPT ![i] = m] /\ born' = [born EXCEPT ![i] = e]
  BY <1>0 DEF MoveTo, TableTypes
<1>6. /\ e <= era[b]
      /\ \E h \in Handles : Holds(h) /\ handle[h].flag = f /\ handle[h].table = b
      /\ locked[b] = 1 /\ era[b] = e
  BY <1>0, <1>1 DEF Ownership, BornBefore, Backed, ValidWhileLocked
<1> HIDE DEF m, b, f, e
<1>7. /\ e <= era[m.table]
      /\ flag[m.flag] => \E g \in Handles : /\ Holds(g) /\ handle[g].flag = m.flag
                                            /\ handle[g].table = m.table
      /\ flag[m.flag] <=> locked[m.table] = 1 /\ era[m.table] = e
      /\ flag[m.flag] => At(buckets[m.table], <<m.index, m.slot>>, n)
  BY <1>1, <1>2, <1>4, <1>6
<1> QED
  BY <1>1, <1>4, <1>5, <1>7, IteratorStep

\* operator++.
LEMMA IncrementInv ==
  ASSUME TableInv, NEW i \in Iterators, Increment(i)
  PROVE  TableInv'
<1>1. CASE Usable(i)
  <2> DEFINE k == steps[i]
             n == IF AtEnd(i) THEN k ELSE k + 1
  <2>1. /\ MoveTo(i, After(Array(i), Position(i)))
        /\ steps' = [steps EXCEPT ![i] = n]
        /\ UNCHANGED <<buckets, locked, flag, handle, era, born>>
    BY <1>1 DEF Increment, TableInv, TableTypes
  <2>2. At(Array(i), Position(i), k) /\ k \in Nat
    BY <1>1 DEF TableInv, InPlace, TableTypes
  <2>3. IsBuckets(Array(i))
    BY <1>1 DEF TableInv, TableTypes, IteratorObjects, Usable, Array
  <2>4. At(Array(i), After(Array(i), Position(i)), n)
    BY <2>2, <2>3, StepForward DEF AtEnd
  <2>5. n \in Nat
    BY <2>2
  <2> HIDE DEF n
  <2> QED
    BY <1>1, <2>1, <2>4, <2>5, MoveToInv
<1>2. CASE ~ Usable(i)
  BY <1>2, NothingChanges DEF Increment, tableVars, history
<1> QED
  BY <1>1, <1>2

\* operator--.
LEMMA DecrementInv ==
  ASSUME TableInv, NEW i \in Iterators, Decrement(i)
  PROVE  TableInv'
<1>1. CASE Usable(i)
  <2> DEFINE k == steps[i]
             n == IF k = 0 THEN Cardinality(ItemsOf(Array(i))) ELSE k - 1
  <2>1. /\ MoveTo(i, Before(Array(i), Position(i)))
        /\ steps' = [steps EXCEPT ![i] = n]
        /\ UNCHANGED <<buckets, locked, flag, handle, era, born>>
    BY <1>1 DEF Decrement, TableInv, TableTypes
  <2>2. At(Array(i), Position(i), k) /\ k \in Nat
    BY <1>1 DEF TableInv, InPlace, TableTypes
  <2>3. IsBuckets(Array(i))
    BY <1>1 DEF TableInv, TableTypes, IteratorObjects, Usable, Array
  <2>4. At(Array(i), Before(Array(i), Position(i)), n)
    BY <2>2, <2>3, StepBackward
  <2>5. n \in Nat
    BY <2>2, <2>3, BucketFacts, FS_CardinalityType
  <2> HIDE DEF n
  <2> QED
    BY <1>1, <2>1, <2>4, <2>5, MoveToInv
<1>2. CASE ~ Usable(i)
  BY <1>2, NothingChanges DEF Decrement, tableVars, history
<1> QED
  BY <1>1, <1>2

\* Iterators stay valid, and where they are, when what is stored in tables changes but
\* not for the tables of usable iterators.
LEMMA ArraysChange ==
  ASSUME TableInv, UNCHANGED <<locked, flag, handle, it, era, born, steps>>,
         DOMAIN buckets' = Tables, \A b \in Tables : IsBuckets(buckets'[b]),
         \A i \in Iterators : Usable(i) =>
           /\ Items(Array(i))' = Items(Array(i)) /\ end_pos(Array(i))' = end_pos(Array(i))
  PROVE  TableInv'
<1>0. TableTypes /\ Ownership /\ InPlace
  BY DEF TableInv
<1>1. TableTypes'
  BY <1>0 DEF TableTypes
<1>2. \A i \in Iterators : Usable(i)' <=> Usable(i)
  BY DEF Usable
<1>3. Ownership'
  <2>1. (OwnerKnown /\ FlagsApart /\ OwnersApart /\ LockedByOwner)'
    BY <1>0, HandlesStay
  <2>2. \A h \in Handles : Holds(h)' <=> Holds(h)
    BY DEF Holds, Alive, HasTableLock
  <2> QED
    BY <1>0, <1>2, <2>1, <2>2 DEF Ownership, Backed, BornBefore, ValidWhileLocked
<1>4. InPlace'
  <2> SUFFICES ASSUME NEW i \in Iterators, Usable(i)
               PROVE  At(Array(i), Position(i), steps[i])'
    BY <1>2 DEF InPlace
  <2>1. At(Array(i), Position(i), steps[i])
    BY <1>0 DEF InPlace
  <2>2. Position(i)' = Position(i) /\ steps'[i] = steps[i]
    BY DEF Position
  <2>3. /\ Items(Array(i)') = Items(Array(i)) /\ end_pos(Array(i)') = end_pos(Array(i))
    OBVIOUS
  <2>4. Passed(Array(i)', Position(i)) = Passed(Array(i), Position(i))
    BY <2>3 DEF Passed
  <2>5. At(Array(i)', Position(i), steps[i])
    BY <2>1, <2>3, <2>4 DEF At
  <2> QED
    BY <2>2, <2>5
<1> QED
  BY <1>1, <1>3, <1>4 DEF TableInv

\* Storing a value.
LEMMA WriteInv ==
  ASSUME TableInv, NEW i \in Iterators, NEW v \in Vals, Write(i, v)
  PROVE  TableInv'
<1>0. TableTypes /\ InPlace
  BY DEF TableInv
<1>1. CASE Usable(i)
  <2> DEFINE b == it[i].table
             p == Position(i)
             w == [buckets[b] EXCEPT ![p[1]][p[2]] = v]
  <2>1. buckets' = [buckets EXCEPT ![b] = w]
    BY <1>1 DEF Write, Position
  <2>2. b \in Tables /\ IsBuckets(buckets[b])
    BY <1>0, <1>1 DEF TableTypes, IteratorObjects, Usable
  <2>3. p \in Items(buckets[b])
    BY <1>0, <1>1 DEF Write, AtEnd, Array, InPlace, At
  <2>4. UNCHANGED <<locked, flag, handle, it, era, born, steps>>
    BY DEF Write, history
  <2> HIDE DEF p
  <2>5. IsBuckets(w) /\ end_pos(w) = end_pos(buckets[b]) /\ Items(w) = Items(buckets[b])
    BY <2>2, <2>3, Overwritten
  <2> HIDE DEF b, w
  <2>6. /\ DOMAIN buckets' = Tables /\ buckets'[b] = w
        /\ \A c \in Tables : c # b => buckets'[c] = buckets[c]
    BY <1>0, <2>1, <2>2 DEF TableTypes
  <2>7. \A c \in Tables : IsBuckets(buckets'[c])
    BY <1>0, <2>5, <2>6 DEF TableTypes
  <2>8. ASSUME NEW j \in Iterators, Usable(j)
        PROVE  Items(Array(j))' = Items(Array(j)) /\ end_pos(Array(j))' = end_pos(Array(j))
    <3>1. it[j].table \in Tables
      BY <1>0, <2>8 DEF TableTypes, IteratorObjects, Usable
    <3>2. Array(j)' = buckets'[it[j].table] /\ Array(j) = buckets[it[j].table]
      BY <2>4 DEF Array
    <3>3. /\ Items(Array(j)') = Items(Array(j)) /\ end_pos(Array(j)') = end_pos(Array(j))
      BY <2>5, <2>6, <3>1, <3>2
    <3> QED
      BY <3>3
  <2> QED
    BY <2>4, <2>6, <2>7, <2>8, ArraysChange
<1>2. CASE ~ Usable(i)
  BY <1>2, NothingChanges DEF Write, tableVars, history
<1> QED
  BY <1>1, <1>2

\* Other threads change only tables that no usable iterator is in.
LEMMA OthersChangeInv ==
  ASSUME TableInv, NEW b \in Tables, OthersChange(b)
  PROVE  TableInv'
<1>0. TableTypes /\ Ownership
  BY DEF TableInv
<1>1. PICK bs \in BucketArrays : buckets' = [buckets EXCEPT ![b] = bs]
  BY DEF OthersChange
<1>2. locked[b] = 0 /\ UNCHANGED <<locked, flag, handle, it, era, born, steps>>
  BY DEF OthersChange, history
<1>3. /\ DOMAIN buckets' = Tables /\ \A c \in Tables : c # b => buckets'[c] = buckets[c]
      /\ \A c \in Tables : IsBuckets(buckets'[c])
  BY <1>0, <1>1, ArraysAssumption DEF TableTypes
<1>4. ASSUME NEW j \in Iterators, Usable(j)
      PROVE  Items(Array(j))' = Items(Array(j)) /\ end_pos(Array(j))' = end_pos(Array(j))
  <2>1. it[j].table \in Tables
    BY <1>0, <1>4 DEF TableTypes, IteratorObjects, Usable
  <2>2. it[j].table # b
    BY <1>0, <1>2, <1>4 DEF Ownership, ValidWhileLocked, Usable
  <2>3. Array(j)' = Array(j)
    BY <1>2, <1>3, <2>1, <2>2 DEF Array
  <2>4. Items(Array(j)') = Items(Array(j)) /\ end_pos(Array(j)') = end_pos(Array(j))
    BY <2>3
  <2> QED
    BY <2>4
<1> QED
  BY <1>2, <1>3, <1>4, ArraysChange

\* A copy of an iterator.
LEMMA CopyInv ==
  ASSUME TableInv, NEW i \in Iterators, NEW j \in Iterators, Copy(i, j)
  PROVE  TableInv'
<1> DEFINE m == it[j]
           e == born[j]
           n == steps[j]
<1>0. TableTypes /\ Ownership /\ InPlace
  BY DEF TableInv
<1>1. /\ m # None /\ it' = [it EXCEPT ![i] = m] /\ born' = [born EXCEPT ![i] = e]
      /\ steps' = [steps EXCEPT ![i] = n]
      /\ UNCHANGED <<buckets, locked, flag, handle, era>>
  BY DEF Copy
<1>2. m \in IteratorObjects /\ e \in Nat /\ n \in Nat
  BY <1>0, <1>1 DEF TableTypes
<1>3. Usable(j) <=> flag[m.flag]
  BY <1>1 DEF Usable
<1>4. /\ e <= era[m.table]
      /\ flag[m.flag] => \E g \in Handles : /\ Holds(g) /\ handle[g].flag = m.flag
                                            /\ handle[g].table = m.table
      /\ flag[m.flag] <=> locked[m.table] = 1 /\ era[m.table] = e
  BY <1>0, <1>1, <1>3 DEF Ownership, BornBefore, Backed, ValidWhileLocked
<1>5. flag[m.flag] => At(buckets[m.table], <<m.index, m.slot>>, n)
  BY <1>0, <1>3 DEF InPlace, Array, Position
<1> HIDE DEF m, e, n
<1> QED
  BY <1>1, <1>2, <1>4, <1>5, IteratorStep

-----------------------------------------------------------------------------
(***************************************************************************)
(* The theorems.                                                           *)
(***************************************************************************)

\* Every step preserves the invariant.
LEMMA LockedNextInv == TableInv /\ [LockedNext]_tableVars => TableInv'
<1> SUFFICES ASSUME TableInv, [LockedNext]_tableVars PROVE TableInv'
  OBVIOUS
<1>1. CASE UNCHANGED tableVars
  BY <1>1, NothingChanges
<1>2. CASE LockedNext
  <2>1. ASSUME NEW h \in Handles, NEW b \in Tables, LockTable(h, b) PROVE TableInv'
    BY <2>1, LockTableInv
  <2>2. ASSUME NEW h \in Handles, Release(h) \/ Destroy(h) PROVE TableInv'
    BY <2>2, ReleaseInv, DestroyInv
  <2>3. ASSUME NEW h \in Handles, NEW src \in Handles,
               MoveConstruct(h, src) \/ MoveAssign(h, src)
        PROVE  TableInv'
    BY <2>3, MoveConstructInv, MoveAssignInv
  <2>4. ASSUME NEW h \in Handles, NEW i \in Iterators, Begin(h, i) \/ End(h, i)
        PROVE  TableInv'
    BY <2>4, BeginInv, EndInv
  <2>5. ASSUME NEW i \in Iterators,
               Increment(i) \/ Decrement(i) \/ \E v \in Vals : Write(i, v)
        PROVE  TableInv'
    BY <2>5, IncrementInv, DecrementInv, WriteInv
  <2>6. ASSUME NEW i \in Iterators, NEW j \in Iterators, Copy(i, j) PROVE TableInv'
    BY <2>6, CopyInv
  <2>7. ASSUME NEW b \in Tables, OthersChange(b) PROVE TableInv'
    BY <2>7, OthersChangeInv
  <2> QED
    BY <1>2, <2>1, <2>2, <2>3, <2>4, <2>5, <2>6, <2>7 DEF LockedNext
<1> QED
  BY <1>1, <1>2

\* The inductive invariant of locked_table and its iterators: who owns which table,
\* whose booleans the iterators share, and where the iterators are.
THEOREM TableInvariant == LockedSpec => []TableInv
<1>1. LockedInit => TableInv
  BY LockedInitInv
<1>2. TableInv /\ [LockedNext]_tableVars => TableInv'
  BY LockedNextInv
<1> QED
  BY <1>1, <1>2, PTL DEF LockedSpec

\* The type invariant of locked_table: also an iterator that is no longer usable has
\* an index and a slot that a table may have.
THEOREM LockedTypeCorrect == LockedSpec => []LockedTypeOK
<1>1. TableInv => LockedTypeOK
  BY DEF TableInv, TableTypes, LockedTypeOK, Alive, HandleObjects, IteratorObjects
<1> QED
  BY <1>1, TableInvariant, PTL

\* However handles are moved, assigned, released and destroyed, the locks of a table
\* are given back by exactly one handle, once.
THEOREM OwnedOnceHolds == LockedSpec => []OwnedOnce
<1>1. ASSUME TableInv
      PROVE  OwnedOnce
  <2> SUFFICES ASSUME NEW b \in Tables
               PROVE  locked[b] = Cardinality({h \in Handles : Alive(h) /\ handle[h].unlocker = b})
    BY DEF OwnedOnce
  <2>0. TableTypes /\ Ownership
    BY <1>1 DEF TableInv
  <2> DEFINE owners == {h \in Handles : Alive(h) /\ handle[h].unlocker = b}
  <2>1. \A h \in Handles : h \in owners <=> Holds(h) /\ handle[h].table = b
    BY <2>0, NoneAssumption DEF Ownership, OwnerKnown, Holds
  <2>2. locked[b] \in {0, 1}
    BY <2>0 DEF TableTypes
  <2>3. CASE locked[b] = 0
    <3>1. owners = {}
      BY <2>0, <2>1, <2>3 DEF Ownership, LockedByOwner
    <3> QED
      BY <2>3, <3>1, FS_EmptySet
  <2>4. CASE locked[b] = 1
    <3>1. PICK h \in Handles : Holds(h) /\ handle[h].table = b
      BY <2>0, <2>4 DEF Ownership, LockedByOwner
    <3>2. owners = {h}
      BY <2>0, <2>1, <3>1 DEF Ownership, OwnersApart
    <3> QED
      BY <2>4, <3>2, FS_Singleton
  <2> QED
    BY <2>2, <2>3, <2>4
<1> QED
  BY <1>1, TableInvariant, PTL

\* A handle says that it has the table exactly if it will give back its locks.
THEOREM OwnerKnownHolds == LockedSpec => []OwnerKnown
<1>1. TableInv => OwnerKnown
  BY DEF TableInv, Ownership
<1> QED
  BY <1>1, TableInvariant, PTL

\* check_iterator lets an iterator through exactly as long as the lock_table call it
\* stems from holds the table.
THEOREM ValidWhileLockedHolds == LockedSpec => []ValidWhileLocked
<1>1. TableInv => ValidWhileLocked
  BY DEF TableInv, Ownership
<1> QED
  BY <1>1, TableInvariant, PTL

\* operator++ and operator-- visit every item once, in order, and reach the end.
THEOREM VisitsEachOnceHolds == LockedSpec => []VisitsEachOnce
<1>1. ASSUME TableInv
      PROVE  VisitsEachOnce
  <2> SUFFICES ASSUME NEW i \in Iterators, Usable(i)
               PROVE  LET items == ItemsOf(Array(i))
                          passed == {p \in items : \/ p[1] < it[i].index
                                                   \/ p[1] = it[i].index /\ p[2] < it[i].slot}
                      IN  /\ Cardinality(passed) = steps[i]
                          /\ Position(i) \in items \union {end_pos(Array(i))}
    BY DEF VisitsEachOnce
  <2>1. IsBuckets(Array(i)) /\ At(Array(i), Position(i), steps[i])
    BY <1>1 DEF TableInv, TableTypes, InPlace, IteratorObjects, Usable, Array
  <2>2. Items(Array(i)) = ItemsOf(Array(i))
    BY <2>1, BucketFacts
  <2>3. Passed(Array(i), Position(i))
          = {p \in ItemsOf(Array(i)) : \/ p[1] < it[i].index
                                       \/ p[1] = it[i].index /\ p[2] < it[i].slot}
    BY <2>2 DEF Passed, Precedes, Position
  <2> QED
    BY <2>1, <2>2, <2>3 DEF At
<1> QED
  BY <1>1, TableInvariant, PTL

\* A loop from begin to end stops at the right place: iterators of a table are equal
\* exactly if they have as many items before them.
THEOREM EqualAtSameItemHolds == LockedSpec => []EqualAtSameItem
<1>1. ASSUME TableInv
      PROVE  EqualAtSameItem
  <2> SUFFICES ASSUME NEW i \in Iterators, NEW j \in Iterators, Usable(i), Usable(j)
               PROVE  Equal(i, j) <=> it[i].table = it[j].table /\ steps[i] = steps[j]
    BY DEF EqualAtSameItem
  <2>1. /\ IsBuckets(Array(i)) /\ At(Array(i), Position(i), steps[i])
        /\ At(Array(j), Position(j), steps[j])
    BY <1>1 DEF TableInv, TableTypes, InPlace, IteratorObjects, Usable, Array
  <2>2. ASSUME it[i].table = it[j].table
        PROVE  Position(i) = Position(j) <=> steps[i] = steps[j]
    <3> DEFINE bs == Array(i)
               p == Position(i)
               q == Position(j)
    <3>1. Array(j) = bs
      BY <2>2 DEF Array
    <3>2. At(bs, p, steps[i]) /\ At(bs, q, steps[j]) /\ IsBuckets(bs)
      BY <2>1, <3>1
    <3> HIDE DEF bs, p, q
    <3>3. p = q => steps[i] = steps[j]
      BY <3>2 DEF At
    <3>4. steps[i] = steps[j] => p = q
      BY <3>2, SamePlace
    <3> QED
      BY <3>3, <3>4 DEF p, q
  <2> QED
    BY <2>2 DEF Equal
<1> QED
  BY <1>1, TableInvariant, PTL
=============================================================================
