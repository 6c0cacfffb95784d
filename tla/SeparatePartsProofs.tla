------------------------- MODULE SeparatePartsProofs -------------------------
(***************************************************************************)
(* The parts that are specified on their own: where an item may be, the    *)
(* arrays of the aligned allocator, and b_queue.                           *)
(***************************************************************************)
EXTENDS ItemPlacement, AlignedAllocator, BQueue, CuckooHashingProofs, SequenceTheorems

-----------------------------------------------------------------------------
(***************************************************************************)
(* ItemPlacement: an item stays in one of its two buckets, for every set   *)
(* of hash values and any number of displacements and doublings.           *)
(***************************************************************************)

\* The inductive invariant: the property, and the types it needs.
PlacementInv ==
  /\ hp \in Nat /\ hash \in Nat
  /\ InOneOfItsBuckets

\* The invariant holds at the start.
LEMMA PlacementInitInv == PlacementInit => PlacementInv
BY PlacementAssumption DEF PlacementInit, PlacementInv, InOneOfItsBuckets

\* A displacement takes the item to its other bucket: from either of the two, the
\* exclusive or with the same number leads to the other.
LEMMA DisplaceInv == PlacementInv /\ Displace => PlacementInv'
<1> SUFFICES ASSUME PlacementInv, Displace PROVE PlacementInv'
  OBVIOUS
<1> DEFINE i1 == TwoBuckets(hp, hash)[1]
           i2 == TwoBuckets(hp, hash)[2]
<1>1. hp \in Nat /\ hash \in Nat /\ bucket \in {i1, i2}
  BY DEF PlacementInv, InOneOfItsBuckets
<1>2. /\ alt_index(hp, partial_key(hash), i1) = i2
      /\ alt_index(hp, partial_key(hash), i2) = i1
  BY <1>1, TwoBucketsType
<1>3. bucket' \in {i1, i2} /\ hp' = hp /\ hash' = hash
  BY <1>1, <1>2 DEF Displace
<1> QED
  BY <1>1, <1>3 DEF PlacementInv, InOneOfItsBuckets

\* A doubling leaves the item in a bucket that the new hashpower gives it.
LEMMA DoubleInv == PlacementInv /\ Double => PlacementInv'
<1> SUFFICES ASSUME PlacementInv, Double PROVE PlacementInv'
  OBVIOUS
<1>1. /\ hp \in Nat /\ hash \in Nat
      /\ bucket \in {TwoBuckets(hp, hash)[1], TwoBuckets(hp, hash)[2]}
  BY DEF PlacementInv, InOneOfItsBuckets
<1>2. (IF MovesUp(hp, bucket, hash) THEN bucket + hashsize(hp) ELSE bucket)
        \in {TwoBuckets(hp + 1, hash)[1], TwoBuckets(hp + 1, hash)[2]}
  BY <1>1, MovesUpRight
<1>3. bucket' \in {TwoBuckets(hp', hash')[1], TwoBuckets(hp', hash')[2]}
  BY <1>2 DEF Double
<1>4. hp' \in Nat /\ hash' \in Nat
  BY <1>1 DEF Double
<1> QED
  BY <1>3, <1>4 DEF PlacementInv, InOneOfItsBuckets

\* However often it is displaced by cuckoopath_move and moved by move_buckets, an
\* item stays in one of the two buckets where a lookup of its key searches.
THEOREM StaysInItsBuckets == PlacementSpec => []InOneOfItsBuckets
<1>1. PlacementInv /\ [PlacementNext]_placementVars => PlacementInv'
  <2>1. CASE UNCHANGED placementVars
    BY <2>1 DEF placementVars, PlacementInv, InOneOfItsBuckets
  <2> QED
    BY <2>1, DisplaceInv, DoubleInv DEF PlacementNext
<1>2. PlacementInv => InOneOfItsBuckets
  BY DEF PlacementInv
<1> QED
  BY PlacementInitInv, <1>1, <1>2, PTL DEF PlacementSpec

\* reserve_calc is right for every number of elements, whatever the state.
THEOREM ReserveCalcAlways == PlacementSpec => []ReserveCalcSmallest
<1>1. ReserveCalcSmallest
  <2> SUFFICES ASSUME NEW n \in 0 .. MaxElements, NEW hpn, hpn = reserve_calc(n)
               PROVE  /\ hpn >= 1 /\ n <= hashsize(hpn) * SLOT_PER_BUCKET
                      /\ \A h \in 1 .. hpn - 1 : hashsize(h) * SLOT_PER_BUCKET < n
    BY DEF ReserveCalcSmallest
  <2>1. n \in Nat
    BY PlacementAssumption
  <2> QED
    BY <2>1, ReserveCalcCorrect
<1> QED
  BY <1>1, PTL
-----------------------------------------------------------------------------
(***************************************************************************)
(* AlignedAllocator: the arrays are aligned and deallocate gives back what *)
(* allocate got, for every size of a pointer and of a value, every set of  *)
(* alignments and every order of calls.                                    *)
(***************************************************************************)

\* The address kept in front of an array.
Base(r) == bytes[r.p - PtrSize]

\* The length of the block of an array.
BlockLen(n, a) == PtrSize + n * ValueSize + a - 1

\* The array and its header lie in the block whose address the header holds.
InItsBlock(r) ==
  /\ r.p % r.a = 0
  /\ [base |-> Base(r), len |-> BlockLen(r.n, r.a)] \in blocks
  /\ Base(r) + PtrSize <= r.p
  /\ r.p + r.n * ValueSize <= Base(r) + BlockLen(r.n, r.a)
  /\ \A x \in HeaderAt(r.p) : bytes[x] = Base(r)

\* Blocks b and c do not overlap.
Apart(b, c) == b.base + b.len <= c.base \/ c.base + c.len <= b.base

\* The inductive invariant.
AllocInv ==
  /\ blocks \subseteq [base : Nat, len : Nat]
  /\ \A b \in blocks : b.len > 0 /\ b.base + b.len <= HeapSize
  /\ \A b, c \in blocks : b # c => Apart(b, c)
  /\ arrays \subseteq [p : Nat, n : Nat, a : Alignments]
  /\ bytes \in [Heap -> Heap \union {Junk}]
  /\ \A r \in arrays : InItsBlock(r)
  /\ \A r, s \in arrays : r # s => Base(r) # Base(s)
-----------------------------------------------------------------------------
(***************************************************************************)
(* Arithmetic.                                                             *)
(***************************************************************************)

\* Among a successive addresses one is a multiple of a.
LEMMA MultipleExists ==
  ASSUME NEW a \in Nat \ {0}, NEW p \in Nat
  PROVE  \E q \in Span(p, a) : q % a = 0
<1> DEFINE r == p % a
           d == p \div a
<1>1. r \in 0 .. a - 1 /\ d \in Nat /\ p = a * d + r
  OBVIOUS
<1> HIDE DEF r, d
<1>2. CASE r = 0
  <2>1. p % a = 0
    BY <1>1, <1>2 DEF r
  <2>2. p \in Span(p, a)
    BY DEF Span
  <2> QED
    BY <2>1, <2>2
<1>3. CASE r # 0
  <2> DEFINE q == p + (a - r)
             e == d + 1
  <2>1. q \in p .. p + a - 1 /\ q \in Nat /\ e \in Nat /\ q = a * e + 0
    BY <1>1, <1>3
  <2> HIDE DEF q, e
  <2>2. q % a = 0
    BY <2>1
  <2> QED
    BY <2>1, <2>2 DEF Span
<1> QED
  BY <1>2, <1>3

\* With the padding the aligned address always fits, so align moves p up to it.
LEMMA AlignFits ==
  ASSUME NEW a \in Nat \ {0}, NEW size \in Nat, NEW p \in Nat
  PROVE  LET q == align(a, size, p, size + a - 1)
         IN  q \in Nat /\ p <= q /\ q <= p + a - 1 /\ q % a = 0
<1> DEFINE up == CHOOSE q \in Span(p, a) : q % a = 0
           space == size + a - 1
<1>1. up \in Span(p, a) /\ up % a = 0
  BY MultipleExists
<1>2. align(a, size, p, space) = IF size <= space - (up - p) THEN up ELSE p
  BY DEF align
<1> HIDE DEF up
<1>3. up \in Nat /\ p <= up /\ up <= p + a - 1
  BY <1>1 DEF Span
<1>4. align(a, size, p, space) = up
  BY <1>2, <1>3
<1> QED
  BY <1>1, <1>3, <1>4

\* Intervals with no common element lie one before the other.
LEMMA SpansApart ==
  ASSUME NEW p \in Nat, NEW m \in Nat \ {0}, NEW q \in Nat, NEW n \in Nat \ {0},
         Span(p, m) \intersect Span(q, n) = {}
  PROVE  p + m <= q \/ q + n <= p
<1> SUFFICES ASSUME q < p + m, p < q + n PROVE FALSE
  OBVIOUS
<1>1. CASE p <= q
  <2>1. q \in Span(p, m) /\ q \in Span(q, n)
    BY <1>1 DEF Span
  <2> QED
    BY <2>1
<1>2. CASE q < p
  <2>1. p \in Span(p, m) /\ p \in Span(q, n)
    BY <1>2 DEF Span
  <2> QED
    BY <2>1
<1> QED
  BY <1>1, <1>2

\* What is known of the sizes of an array.
LEMMA ArraySizes ==
  ASSUME NEW n \in Nat, NEW a \in Alignments
  PROVE  /\ n * ValueSize \in Nat /\ a \in Nat /\ a > 0
         /\ PtrSize \in Nat /\ PtrSize > 0
         /\ BlockLen(n, a) = PtrSize + PaddedSize(n, a)
         /\ BlockLen(n, a) = PtrSize + n * ValueSize + a - 1
         /\ BlockLen(n, a) \in Nat /\ BlockLen(n, a) > 0
<1>1. n * ValueSize \in Nat
  BY SizesAssumption
<1> QED
  BY <1>1, SizesAssumption DEF BlockLen, PaddedSize
-----------------------------------------------------------------------------
\* The numbers that describe one array, under the invariant.
LEMMA ArrayFacts ==
  ASSUME AllocInv, NEW r \in arrays
  PROVE  /\ r.p \in Nat /\ r.n \in Nat /\ r.a \in Alignments
         /\ r = [p |-> r.p, n |-> r.n, a |-> r.a]
         /\ Base(r) \in Nat
         /\ r.p - PtrSize \in Heap
         /\ Base(r) + BlockLen(r.n, r.a) <= HeapSize
         /\ GivenBack(r) = [base |-> Base(r), len |-> BlockLen(r.n, r.a)]
<1>1. r.p \in Nat /\ r.n \in Nat /\ r.a \in Alignments /\ r = [p |-> r.p, n |-> r.n, a |-> r.a]
  BY DEF AllocInv
<1>2. [base |-> Base(r), len |-> BlockLen(r.n, r.a)] \in blocks
  BY DEF AllocInv, InItsBlock
<1>3. Base(r) \in Nat /\ Base(r) + BlockLen(r.n, r.a) <= HeapSize
  BY <1>2 DEF AllocInv
<1>4. Base(r) + PtrSize <= r.p /\ r.p + r.n * ValueSize <= Base(r) + BlockLen(r.n, r.a)
  BY DEF AllocInv, InItsBlock
<1> DEFINE w == r.n * ValueSize
           l == BlockLen(r.n, r.a)
<1>5. w \in Nat /\ PtrSize \in Nat /\ PtrSize > 0 /\ l \in Nat /\ HeapSize \in Nat
  BY <1>1, ArraySizes, SizesAssumption
<1> HIDE DEF w, l
<1>6. r.p - PtrSize \in 0 .. HeapSize - 1
  BY <1>1, <1>3, <1>4, <1>5 DEF w, l
<1> QED
  BY <1>1, <1>3, <1>6 DEF GivenBack, Base, BlockLen, Heap

\* The blocks of two arrays do not overlap.
LEMMA ArraysApart ==
  ASSUME AllocInv, NEW r \in arrays, NEW s \in arrays, r # s
  PROVE  \/ Base(r) + BlockLen(r.n, r.a) <= Base(s)
         \/ Base(s) + BlockLen(s.n, s.a) <= Base(r)
<1> DEFINE b == [base |-> Base(r), len |-> BlockLen(r.n, r.a)]
           c == [base |-> Base(s), len |-> BlockLen(s.n, s.a)]
<1>1. b \in blocks /\ c \in blocks
  BY DEF AllocInv, InItsBlock
<1>2. b # c
  BY DEF AllocInv
<1>3. Apart(b, c)
  BY <1>1, <1>2 DEF AllocInv
<1> QED
  BY <1>3 DEF Apart

\* The header of an array is in the heap, and apart from the arrays and from the
\* headers of the others.
LEMMA HeaderApart ==
  ASSUME AllocInv, NEW r \in arrays, NEW s \in arrays
  PROVE  /\ HeaderAt(s.p) \subseteq Heap
         /\ \A x \in HeaderAt(s.p) : x \notin Span(r.p, r.n * ValueSize)
         /\ s # r => \A x \in HeaderAt(s.p) : x \notin HeaderAt(r.p)
<1> DEFINE l == BlockLen(r.n, r.a)
           v == r.n * ValueSize
           k == BlockLen(s.n, s.a)
           w == s.n * ValueSize
<1>1. /\ Base(r) \in Nat /\ r.p \in Nat /\ l \in Nat /\ v \in Nat
      /\ Base(s) \in Nat /\ s.p \in Nat /\ k \in Nat /\ w \in Nat
      /\ PtrSize \in Nat /\ PtrSize > 0 /\ HeapSize \in Nat
  BY ArrayFacts, ArraySizes, SizesAssumption
<1>2. /\ Base(r) + PtrSize <= r.p /\ r.p + v <= Base(r) + l
      /\ Base(s) + PtrSize <= s.p /\ s.p + w <= Base(s) + k
  BY DEF AllocInv, InItsBlock
<1>3. Base(s) + k <= HeapSize
  BY ArrayFacts
<1>4. r # s => Base(r) + l <= Base(s) \/ Base(s) + k <= Base(r)
  BY ArraysApart
<1> HIDE DEF l, v, k, w
<1>5. HeaderAt(s.p) \subseteq Heap
  BY <1>1, <1>2, <1>3 DEF HeaderAt, Span, Heap
<1>6. \A x \in HeaderAt(s.p) : x \notin Span(r.p, v)
  BY <1>1, <1>2, <1>4 DEF HeaderAt, Span
<1>7. s # r => \A x \in HeaderAt(s.p) : x \notin HeaderAt(r.p)
  BY <1>1, <1>2, <1>4 DEF HeaderAt, Span
<1> QED
  BY <1>5, <1>6, <1>7 DEF v

\* Both checked properties follow from the invariant.
LEMMA AllocInvImplies == AllocInv => ArraysAligned /\ BlocksComeBack
<1> SUFFICES ASSUME AllocInv, NEW r \in arrays
             PROVE  /\ r.p % r.a = 0
                    /\ \E b \in blocks :
                         /\ Span(r.p - PtrSize, PtrSize + r.n * ValueSize) \subseteq Span(b.base, b.len)
                         /\ \A s \in arrays \ {r} : s.p \notin b.base + PtrSize .. b.base + b.len
                    /\ GivenBack(r) \in blocks
                    /\ \A x \in HeaderAt(r.p) : bytes[x] = bytes[r.p - PtrSize]
  BY DEF ArraysAligned, BlocksComeBack
<1> DEFINE b == [base |-> Base(r), len |-> BlockLen(r.n, r.a)]
           w == r.n * ValueSize
<1>1. b = GivenBack(r) /\ Base(r) \in Nat /\ r.p \in Nat
  BY ArrayFacts
<1>2. InItsBlock(r)
  BY DEF AllocInv
<1>3. /\ PtrSize \in Nat /\ PtrSize > 0 /\ w \in Nat
      /\ BlockLen(r.n, r.a) \in Nat
  BY ArrayFacts, ArraySizes
<1>4. Base(r) + PtrSize <= r.p /\ r.p + w <= Base(r) + BlockLen(r.n, r.a)
  BY <1>2 DEF InItsBlock
<1>5. Span(r.p - PtrSize, PtrSize + w) \subseteq Span(Base(r), BlockLen(r.n, r.a))
  <2> HIDE DEF w
  <2> QED
    BY <1>1, <1>3, <1>4 DEF Span
<1>6. ASSUME NEW s \in arrays, s # r
      PROVE  s.p \notin Base(r) + PtrSize .. Base(r) + BlockLen(r.n, r.a)
  <2> DEFINE v == s.n * ValueSize
             l == BlockLen(r.n, r.a)
             k == BlockLen(s.n, s.a)
  <2>1. Base(s) \in Nat /\ s.p \in Nat
    BY ArrayFacts
  <2>2. v \in Nat /\ k \in Nat /\ k = PtrSize + v + s.a - 1 /\ s.a \in Nat
    BY ArrayFacts, ArraySizes
  <2>3. Base(s) + PtrSize <= s.p /\ s.p + v <= Base(s) + k
    BY DEF AllocInv, InItsBlock
  <2>4. Base(r) + l <= Base(s) \/ Base(s) + k <= Base(r)
    BY <1>6, ArraysApart
  <2>5. l \in Nat
    BY <1>3
  <2> HIDE DEF v, l, k
  <2>6. s.p \notin Base(r) + PtrSize .. Base(r) + l
    BY <1>1, <1>3, <2>1, <2>2, <2>3, <2>4, <2>5
  <2> QED
    BY <2>6 DEF l
<1>7. b \in blocks /\ b.base = Base(r) /\ b.len = BlockLen(r.n, r.a)
  BY <1>2 DEF InItsBlock
<1> HIDE DEF b
<1>8. /\ Span(r.p - PtrSize, PtrSize + w) \subseteq Span(b.base, b.len)
      /\ \A s \in arrays \ {r} : s.p \notin b.base + PtrSize .. b.base + b.len
  BY <1>5, <1>6, <1>7
<1> QED
  BY <1>1, <1>2, <1>7, <1>8 DEF InItsBlock, Base

\* The invariant holds at the start.
LEMMA AllocInitInv == AllocInit => AllocInv
BY DEF AllocInit, AllocInv

\* Arrays whose headers a step leaves alone, and whose blocks stay, are as before.
LEMMA ArrayKept ==
  ASSUME AllocInv, NEW r \in arrays,
         \A x \in HeaderAt(r.p) : bytes'[x] = bytes[x],
         GivenBack(r) \in blocks'
  PROVE  InItsBlock(r)' /\ Base(r)' = Base(r)
<1>1. InItsBlock(r)
  BY DEF AllocInv
<1>2. r.p - PtrSize \in HeaderAt(r.p)
  BY ArrayFacts, ArraySizes DEF HeaderAt, Span
<1>3. Base(r)' = Base(r)
  BY <1>2 DEF Base
<1>4. GivenBack(r) = [base |-> Base(r), len |-> BlockLen(r.n, r.a)]
  BY ArrayFacts
<1> QED
  BY <1>1, <1>3, <1>4 DEF InItsBlock

\* allocate gets a new block for a new array.
LEMMA AllocateInv ==
  ASSUME AllocInv, NEW n \in 0 .. MaxCount, NEW a \in Alignments, allocate(n, a)
  PROVE  AllocInv'
<1> DEFINE w == n * ValueSize
           len == BlockLen(n, a)
<1>1. n \in Nat /\ a \in Nat \ {0} /\ HeapSize \in Nat
  BY SizesAssumption
<1>2. /\ w \in Nat /\ PtrSize \in Nat /\ PtrSize > 0 /\ len \in Nat /\ len > 0
      /\ len = PtrSize + w + a - 1 /\ len = PtrSize + PaddedSize(n, a)
      /\ PaddedSize(n, a) = w + a - 1
  BY <1>1, ArraySizes DEF PaddedSize
<1>3. PICK base \in Heap :
        LET p == align(a, w, base + PtrSize, PaddedSize(n, a))
        IN  /\ Span(base, len) \subseteq Heap
            /\ \A b \in blocks : Span(base, len) \intersect Span(b.base, b.len) = {}
            /\ blocks' = blocks \union {[base |-> base, len |-> len]}
            /\ arrays' = arrays \union {[p |-> p, n |-> n, a |-> a]}
            /\ bytes' = [x \in Heap |-> IF x \in HeaderAt(p) THEN base ELSE bytes[x]]
  BY <1>2 DEF allocate
<1> DEFINE p == align(a, w, base + PtrSize, PaddedSize(n, a))
           new == [p |-> p, n |-> n, a |-> a]
           block == [base |-> base, len |-> len]
<1>4. base \in Nat
  BY <1>1 DEF Heap
<1>5. p \in Nat /\ base + PtrSize <= p /\ p + w <= base + len /\ p % a = 0
  <2> DEFINE start == base + PtrSize
  <2>1. start \in Nat
    BY <1>2, <1>4
  <2> HIDE DEF w, start, len
  <2>2. LET q == align(a, w, start, w + a - 1)
        IN  q \in Nat /\ start <= q /\ q <= start + a - 1 /\ q % a = 0
    BY <1>1, <1>2, <2>1, AlignFits
  <2>3. p \in Nat /\ start <= p /\ p <= start + a - 1 /\ p % a = 0
    BY <1>2, <2>2 DEF start
  <2> HIDE DEF p
  <2> QED
    BY <1>1, <1>2, <1>4, <2>3 DEF start
<1>6. base + len <= HeapSize
  <2>1. base + len - 1 \in Span(base, len)
    BY <1>2, <1>4 DEF Span
  <2>2. base + len - 1 \in Heap
    BY <1>3, <2>1
  <2> QED
    BY <1>1, <1>2, <1>4, <2>2 DEF Heap
<1>7. /\ blocks' = blocks \union {block}
      /\ arrays' = arrays \union {new}
      /\ bytes' = [x \in Heap |-> IF x \in HeaderAt(p) THEN base ELSE bytes[x]]
  BY <1>3
<1>8. ASSUME NEW b \in blocks PROVE b.base + b.len <= base \/ base + len <= b.base
  <2>1. Span(base, len) \intersect Span(b.base, b.len) = {}
    BY <1>3
  <2>2. b.base \in Nat /\ b.len \in Nat \ {0}
    BY DEF AllocInv
  <2> HIDE DEF len
  <2> QED
    BY <1>2, <1>4, <2>1, <2>2, SpansApart
<1> HIDE DEF p, len, w
<1>9. HeaderAt(p) \subseteq Heap /\ p - PtrSize \in HeaderAt(p)
  BY <1>1, <1>2, <1>4, <1>5, <1>6 DEF HeaderAt, Span, Heap
<1>10. ASSUME NEW r \in arrays
       PROVE  InItsBlock(r)' /\ Base(r)' = Base(r) /\ Base(r) # base /\ r # new
  <2> DEFINE l == BlockLen(r.n, r.a)
             v == r.n * ValueSize
  <2>1. GivenBack(r) = [base |-> Base(r), len |-> l] /\ GivenBack(r) \in blocks
    BY ArrayFacts DEF AllocInv, InItsBlock
  <2>2. Base(r) + l <= base \/ base + len <= Base(r)
    BY <1>8, <2>1
  <2>3. /\ Base(r) \in Nat /\ r.p \in Nat /\ l \in Nat /\ l > 0 /\ v \in Nat
    BY ArrayFacts, ArraySizes
  <2>4. Base(r) + PtrSize <= r.p /\ r.p + v <= Base(r) + l
    BY DEF AllocInv, InItsBlock
  <2>5. HeaderAt(r.p) \subseteq Heap
    <3>1. Base(r) + l <= HeapSize
      BY ArrayFacts
    <3> HIDE DEF l, v
    <3> QED
      BY <1>1, <1>2, <2>3, <2>4, <3>1 DEF HeaderAt, Span, Heap
  <2> HIDE DEF l, v
  <2>6. \A x \in HeaderAt(r.p) : x \notin HeaderAt(p)
    BY <1>2, <1>4, <1>5, <2>2, <2>3, <2>4 DEF HeaderAt, Span
  <2>7. \A x \in HeaderAt(r.p) : bytes'[x] = bytes[x]
    BY <1>7, <2>5, <2>6
  <2>8. InItsBlock(r)' /\ Base(r)' = Base(r)
    BY <1>7, <2>1, <2>7, ArrayKept
  <2>9. Base(r) # base
    BY <1>2, <1>4, <2>2, <2>3
  <2>10. r.p # p
    BY <1>9, <2>6
  <2> QED
    BY <2>8, <2>9, <2>10
<1>11. Base(new)' = base /\ InItsBlock(new)'
  <2>1. new.p = p /\ new.n = n /\ new.a = a
    OBVIOUS
  <2>2. \A x \in HeaderAt(p) : bytes'[x] = base
    BY <1>7, <1>9
  <2>3. Base(new)' = base
    BY <1>9, <2>1, <2>2 DEF Base
  <2> QED
    BY <1>5, <1>7, <2>1, <2>2, <2>3 DEF InItsBlock, len, w
<1>12. blocks' \subseteq [base : Nat, len : Nat]
  BY <1>2, <1>4, <1>7 DEF AllocInv
<1>13. \A b \in blocks' : b.len > 0 /\ b.base + b.len <= HeapSize
  BY <1>2, <1>6, <1>7 DEF AllocInv
<1>14. \A b, c \in blocks' : b # c => Apart(b, c)
  BY <1>7, <1>8 DEF AllocInv, Apart
<1>15. arrays' \subseteq [p : Nat, n : Nat, a : Alignments]
  BY <1>1, <1>5, <1>7 DEF AllocInv
<1>16. bytes' \in [Heap -> Heap \union {Junk}]
  BY <1>7 DEF AllocInv
<1>17. \A r \in arrays' : InItsBlock(r)'
  BY <1>7, <1>10, <1>11
<1>18. \A r, s \in arrays' : r # s => Base(r)' # Base(s)'
  BY <1>7, <1>10, <1>11 DEF AllocInv
<1> QED
  BY <1>12, <1>13, <1>14, <1>15, <1>16, <1>17, <1>18 DEF AllocInv

\* Writing to an array touches no header.
LEMMA FillInv ==
  ASSUME AllocInv, NEW r \in arrays, Fill(r)
  PROVE  AllocInv'
<1> DEFINE w == r.n * ValueSize
<1>1. /\ blocks' = blocks /\ arrays' = arrays
      /\ bytes' = [x \in Heap |-> IF x \in Span(r.p, w) THEN Junk ELSE bytes[x]]
  BY DEF Fill
<1>2. ASSUME NEW s \in arrays PROVE InItsBlock(s)' /\ Base(s)' = Base(s)
  <2>1. HeaderAt(s.p) \subseteq Heap /\ \A x \in HeaderAt(s.p) : x \notin Span(r.p, w)
    BY HeaderApart
  <2>2. \A x \in HeaderAt(s.p) : bytes'[x] = bytes[x]
    BY <1>1, <2>1
  <2>3. GivenBack(s) \in blocks'
    BY <1>1, ArrayFacts DEF AllocInv, InItsBlock
  <2> QED
    BY <2>2, <2>3, ArrayKept
<1>3. bytes' \in [Heap -> Heap \union {Junk}]
  BY <1>1 DEF AllocInv
<1> QED
  BY <1>1, <1>2, <1>3 DEF AllocInv

\* deallocate gives back the block of the array, which no other array uses.
LEMMA DeallocateInv ==
  ASSUME AllocInv, NEW r \in arrays, deallocate(r)
  PROVE  AllocInv'
<1>1. /\ blocks' = blocks \ {GivenBack(r)} /\ arrays' = arrays \ {r}
      /\ bytes' = [x \in Heap |-> IF x \in HeaderAt(r.p) THEN Junk ELSE bytes[x]]
  BY DEF deallocate
<1>2. ASSUME NEW s \in arrays, s # r PROVE InItsBlock(s)' /\ Base(s)' = Base(s)
  <2>1. HeaderAt(s.p) \subseteq Heap /\ \A x \in HeaderAt(s.p) : x \notin HeaderAt(r.p)
    BY <1>2, HeaderApart
  <2>2. \A x \in HeaderAt(s.p) : bytes'[x] = bytes[x]
    BY <1>1, <2>1
  <2>3. GivenBack(s) \in blocks /\ GivenBack(s) # GivenBack(r)
    BY <1>2, ArrayFacts DEF AllocInv, InItsBlock
  <2> QED
    BY <1>1, <2>2, <2>3, ArrayKept
<1>3. bytes' \in [Heap -> Heap \union {Junk}]
  BY <1>1 DEF AllocInv
<1> QED
  BY <1>1, <1>2, <1>3 DEF AllocInv

\* The invariant holds in every state of the allocator.
THEOREM AllocatorInvariant == AllocSpec => []AllocInv
<1>1. AllocInv /\ [AllocNext]_allocVars => AllocInv'
  <2> SUFFICES ASSUME AllocInv, [AllocNext]_allocVars PROVE AllocInv'
    OBVIOUS
  <2>1. CASE UNCHANGED allocVars
    BY <2>1 DEF allocVars, AllocInv, InItsBlock, Base
  <2> QED
    BY <2>1, AllocateInv, FillInv, DeallocateInv DEF AllocNext
<1> QED
  BY AllocInitInv, <1>1, PTL DEF AllocSpec

\* allocate returns aligned arrays that lie, with the pointer stored before them, in
\* blocks of their own.
THEOREM ArraysAlignedHolds == AllocSpec => []ArraysAligned
BY AllocatorInvariant, AllocInvImplies, PTL

\* deallocate finds the block of an array, whatever was written to the arrays.
THEOREM BlocksComeBackHolds == AllocSpec => []BlocksComeBack
BY AllocatorInvariant, AllocInvImplies, PTL
-----------------------------------------------------------------------------
(***************************************************************************)
(* BQueue: b_queue is a bounded first-in, first-out queue, for any size of *)
(* the array and any items.                                                *)
(***************************************************************************)

\* The two indices are places of the array, and every place holds a b_slot.
BTypeOK == slots \in [Index -> Items] /\ first \in Index /\ last \in Index

\* The number of items from place f up to place l, and the c items from place f on.
Distance(f, l) == (l + MAX_CUCKOO_COUNT - f) % MAX_CUCKOO_COUNT
ItemsFrom(s, f, c) == [n \in 1 .. c |-> s[(f + n - 1) % MAX_CUCKOO_COUNT]]

\* The size of the array is all that the proofs use of it.
LEMMA ArraySize == MAX_CUCKOO_COUNT \in Nat /\ MAX_CUCKOO_COUNT > 1
BY CountAssumption

USE ArraySize

\* Indices below twice the size of the array are brought back into it by one
\* subtraction.
LEMMA WrapAround ==
  ASSUME NEW n \in 0 .. 2 * MAX_CUCKOO_COUNT - 1
  PROVE  n % MAX_CUCKOO_COUNT = IF n < MAX_CUCKOO_COUNT THEN n ELSE n - MAX_CUCKOO_COUNT
OBVIOUS

\* What increment, the masked addition of b_queue, computes.
LEMMA IncrementWraps ==
  ASSUME NEW ind \in Index
  PROVE  /\ increment(ind) = IF ind = MAX_CUCKOO_COUNT - 1 THEN 0 ELSE ind + 1
         /\ increment(ind) \in Index
<1>1. ind + 1 \in 0 .. 2 * MAX_CUCKOO_COUNT - 1
  BY DEF Index
<1>2. (ind + 1) % MAX_CUCKOO_COUNT
        = IF ind + 1 < MAX_CUCKOO_COUNT THEN ind + 1 ELSE ind + 1 - MAX_CUCKOO_COUNT
  BY <1>1, WrapAround DEF Index
<1> QED
  BY <1>2 DEF increment, Index

\* The distance of two places, without the remainder; the tests of empty and full.
LEMMA DistanceCases ==
  ASSUME NEW f \in Index, NEW l \in Index
  PROVE  /\ Distance(f, l) = IF f <= l THEN l - f ELSE l + MAX_CUCKOO_COUNT - f
         /\ Distance(f, l) \in 0 .. MAX_CUCKOO_COUNT - 1
         /\ f = l <=> Distance(f, l) = 0
         /\ increment(l) = f <=> Distance(f, l) = MAX_CUCKOO_COUNT - 1
<1>1. l + MAX_CUCKOO_COUNT - f \in 0 .. 2 * MAX_CUCKOO_COUNT - 1
  BY DEF Index
<1>2. Distance(f, l) = IF f <= l THEN l - f ELSE l + MAX_CUCKOO_COUNT - f
  BY <1>1, WrapAround DEF Distance, Index
<1>3. increment(l) = IF l = MAX_CUCKOO_COUNT - 1 THEN 0 ELSE l + 1
  BY IncrementWraps
<1> QED
  BY <1>2, <1>3 DEF Index

\* The item number n of the queue is in a place of the array.
LEMMA PlaceCases ==
  ASSUME NEW f \in Index, NEW n \in 1 .. MAX_CUCKOO_COUNT
  PROVE  /\ (f + n - 1) % MAX_CUCKOO_COUNT
              = IF f + n - 1 < MAX_CUCKOO_COUNT THEN f + n - 1
                                                ELSE f + n - 1 - MAX_CUCKOO_COUNT
         /\ (f + n - 1) % MAX_CUCKOO_COUNT \in Index
<1>1. f + n - 1 \in 0 .. 2 * MAX_CUCKOO_COUNT - 1
  BY DEF Index
<1>2. (f + n - 1) % MAX_CUCKOO_COUNT
        = IF f + n - 1 < MAX_CUCKOO_COUNT THEN f + n - 1
                                          ELSE f + n - 1 - MAX_CUCKOO_COUNT
  BY <1>1, WrapAround DEF Index
<1> QED
  BY <1>2 DEF Index

\* What the array holds from place f on is a sequence of items.
LEMMA ItemsFromSequence ==
  ASSUME NEW s \in [Index -> Items], NEW f \in Index,
         NEW c \in 0 .. MAX_CUCKOO_COUNT - 1
  PROVE  ItemsFrom(s, f, c) \in Seq(Items) /\ Len(ItemsFrom(s, f, c)) = c
<1>1. ASSUME NEW n \in 1 .. c
      PROVE  s[(f + n - 1) % MAX_CUCKOO_COUNT] \in Items
  <2>1. n \in 1 .. MAX_CUCKOO_COUNT
    OBVIOUS
  <2>2. (f + n - 1) % MAX_CUCKOO_COUNT \in Index
    BY <2>1, PlaceCases
  <2> QED
    BY <2>2
<1>2. ItemsFrom(s, f, c) \in [1 .. c -> Items]
  BY <1>1 DEF ItemsFrom
<1> QED
  BY <1>2, c \in Nat

\* The queue and its length in these terms.
LEMMA QueuedItems ==
  /\ Count = Distance(first, last) /\ Queued = ItemsFrom(slots, first, Count)
  /\ Count' = Distance(first', last') /\ Queued' = ItemsFrom(slots', first', Count')
BY DEF Count, Queued, Distance, ItemsFrom

\* b_queue starts with its two indices at the first place.
LEMMA BInitType == BInit => BTypeOK
BY DEF BInit, BTypeOK, Index

\* enqueue and dequeue keep the indices inside the array.
LEMMA BNextType == BTypeOK /\ [BNext]_queueVars => BTypeOK'
<1> SUFFICES ASSUME BTypeOK, [BNext]_queueVars PROVE BTypeOK'
  OBVIOUS
<1>1. increment(first) \in Index /\ increment(last) \in Index
  BY IncrementWraps DEF BTypeOK
<1>2. ASSUME NEW x \in Items, enqueue(x) PROVE BTypeOK'
  BY <1>1, <1>2 DEF enqueue, BTypeOK
<1>3. ASSUME dequeue PROVE BTypeOK'
  BY <1>1, <1>3 DEF dequeue, BTypeOK
<1>4. ASSUME UNCHANGED queueVars PROVE BTypeOK'
  BY <1>4 DEF queueVars, BTypeOK
<1> QED
  BY <1>2, <1>3, <1>4 DEF BNext

\* An empty array is an empty queue.
LEMMA BInitImplements == BInit => Bounded!QueueInit
<1> SUFFICES ASSUME BInit PROVE Bounded!QueueInit
  OBVIOUS
<1>1. BTypeOK
  BY BInitType
<1>2. Count = 0
  BY <1>1, DistanceCases, QueuedItems DEF BInit, BTypeOK
<1>3. Queued = <<>>
  BY <1>2 DEF Queued
<1> QED
  BY <1>3 DEF Bounded!QueueInit, BInit

\* enqueue puts its item behind the last one, and overwrites none of the queued
\* items, also where the queue goes around the end of the array.
LEMMA EnqueueImplements ==
  ASSUME BTypeOK, NEW x \in Items, enqueue(x)
  PROVE  Bounded!Put(x)
<1> DEFINE N == MAX_CUCKOO_COUNT
<1>1. /\ slots \in [Index -> Items] /\ first \in Index /\ last \in Index
      /\ slots' \in [Index -> Items] /\ first' = first /\ last' \in Index
      /\ last' = IF last = N - 1 THEN 0 ELSE last + 1
      /\ slots' = [slots EXCEPT ![last] = x]
  BY IncrementWraps DEF BTypeOK, enqueue
<1>2. /\ Count = IF first <= last THEN last - first ELSE last + N - first
      /\ Count \in 0 .. N - 1 /\ Count # N - 1
  BY <1>1, DistanceCases, QueuedItems DEF full, enqueue
<1>3. Count' = IF first <= last' THEN last' - first ELSE last' + N - first
  BY <1>1, DistanceCases, QueuedItems
<1>4. Count' = Count + 1 /\ Count' \in 0 .. N - 1 /\ Count \in Nat
  BY <1>1, <1>2, <1>3 DEF Index
<1>5. /\ Queued \in Seq(Items) /\ Len(Queued) = Count
      /\ Queued' \in Seq(Items) /\ Len(Queued') = Count + 1
  <2>1. ItemsFrom(slots, first, Count) \in Seq(Items) /\ Len(ItemsFrom(slots, first, Count)) = Count
    BY <1>1, <1>2, ItemsFromSequence
  <2>2. /\ ItemsFrom(slots', first', Count') \in Seq(Items)
        /\ Len(ItemsFrom(slots', first', Count')) = Count'
    BY <1>1, <1>4, ItemsFromSequence
  <2> QED
    BY <1>4, <2>1, <2>2, QueuedItems
<1>6. ASSUME NEW n \in 1 .. Count + 1
      PROVE  Queued'[n] = IF n <= Count THEN Queued[n] ELSE x
  <2> DEFINE p == (first + n - 1) % N
  <2>1. n \in 1 .. N
    BY <1>2
  <2>2. p \in Index /\ p = IF first + n - 1 < N THEN first + n - 1 ELSE first + n - 1 - N
    BY <1>1, <2>1, PlaceCases
  <2>3. p = last <=> n = Count + 1
    BY <1>1, <1>2, <2>2 DEF Index
  <2>4. Queued'[n] = slots'[p]
    BY <1>1, <1>4 DEF Queued
  <2>5. n <= Count => Queued[n] = slots[p]
    BY <1>4 DEF Queued
  <2>6. slots'[p] = IF p = last THEN x ELSE slots[p]
    BY <1>1, <2>2
  <2> QED
    BY <1>4, <2>3, <2>4, <2>5, <2>6
<1>7. Queued' = Append(Queued, x)
  <2>1. Append(Queued, x) \in Seq(Items) /\ Len(Append(Queued, x)) = Count + 1
    BY <1>5
  <2>2. ASSUME NEW n \in 1 .. Count + 1
        PROVE  Append(Queued, x)[n] = IF n <= Count THEN Queued[n] ELSE x
    BY <1>4, <1>5
  <2> QED
    BY <1>5, <1>6, <2>1, <2>2, SeqEqual
<1> QED
  BY <1>2, <1>5, <1>7 DEF Bounded!Put, enqueue

\* dequeue takes the oldest item out, and the others stay in their order.
LEMMA DequeueImplements ==
  ASSUME BTypeOK, dequeue
  PROVE  Bounded!Take
<1> DEFINE N == MAX_CUCKOO_COUNT
<1>1. /\ slots \in [Index -> Items] /\ first \in Index /\ last \in Index
      /\ slots' = slots /\ last' = last /\ first' \in Index
      /\ first' = IF first = N - 1 THEN 0 ELSE first + 1
  BY IncrementWraps DEF BTypeOK, dequeue
<1>2. /\ Count = IF first <= last THEN last - first ELSE last + N - first
      /\ Count \in 0 .. N - 1 /\ Count # 0
  BY <1>1, DistanceCases, QueuedItems DEF empty, dequeue
<1>3. Count' = IF first' <= last THEN last - first' ELSE last + N - first'
  BY <1>1, DistanceCases, QueuedItems
<1>4. Count' = Count - 1 /\ Count' \in 0 .. N - 1 /\ Count \in Nat
  BY <1>1, <1>2, <1>3 DEF Index
<1>5. /\ Queued \in Seq(Items) /\ Len(Queued) = Count
      /\ Queued' \in Seq(Items) /\ Len(Queued') = Count - 1
  <2>1. ItemsFrom(slots, first, Count) \in Seq(Items) /\ Len(ItemsFrom(slots, first, Count)) = Count
    BY <1>1, <1>2, ItemsFromSequence
  <2>2. /\ ItemsFrom(slots', first', Count') \in Seq(Items)
        /\ Len(ItemsFrom(slots', first', Count')) = Count'
    BY <1>1, <1>4, ItemsFromSequence
  <2> QED
    BY <1>4, <2>1, <2>2, QueuedItems
<1>6. ASSUME NEW n \in 1 .. Count - 1
      PROVE  Queued'[n] = Queued[n + 1]
  <2>1. n \in 1 .. N /\ n + 1 \in 1 .. N
    BY <1>2
  <2>2. (first' + n - 1) % N = IF first' + n - 1 < N THEN first' + n - 1
                                                     ELSE first' + n - 1 - N
    BY <1>1, <2>1, PlaceCases
  <2>3. (first + (n + 1) - 1) % N = IF first + (n + 1) - 1 < N THEN first + (n + 1) - 1
                                                     ELSE first + (n + 1) - 1 - N
    BY <1>1, <2>1, PlaceCases
  <2>4. (first' + n - 1) % N = (first + (n + 1) - 1) % N
    BY <1>1, <2>1, <2>2, <2>3 DEF Index
  <2>5. Queued'[n] = slots[(first' + n - 1) % N]
    BY <1>1, <1>4 DEF Queued
  <2>6. Queued[n + 1] = slots[(first + (n + 1) - 1) % N]
    BY <1>4 DEF Queued
  <2> QED
    BY <2>4, <2>5, <2>6
<1>7. Queued' = Tail(Queued)
  <2>1. /\ Tail(Queued) \in Seq(Items) /\ Len(Tail(Queued)) = Count - 1
        /\ \A n \in 1 .. Count - 1 : Tail(Queued)[n] = Queued[n + 1]
    BY <1>2, <1>5
  <2> QED
    BY <1>5, <1>6, <2>1, SeqEqual
<1>8. Head(Queued) = slots[first]
  <2>1. (first + 1 - 1) % N = first
    BY <1>1, PlaceCases DEF Index
  <2>2. Queued[1] = slots[(first + 1 - 1) % N]
    BY <1>2 DEF Queued
  <2> QED
    BY <1>2, <1>5, <2>1, <2>2
<1>9. Queued # <<>>
  BY <1>2, <1>5
<1> QED
  BY <1>7, <1>8, <1>9 DEF Bounded!Take, dequeue

\* However often the indices have gone around the array, b_queue is a queue for one
\* item less than the array has places: nothing is lost, doubled, overwritten or
\* put out of order.  This is shown for every size of the array.
THEOREM QueueIsBounded == BSpec => IsBoundedQueue
<1>1. BInit => BTypeOK /\ Bounded!QueueInit
  BY BInitType, BInitImplements
<1>2. BTypeOK /\ [BNext]_queueVars => BTypeOK'
  BY BNextType
<1>3. BTypeOK /\ [BNext]_queueVars
        => [(\E x \in Items : Bounded!Put(x)) \/ Bounded!Take]_<<Queued, out>>
  <2> SUFFICES ASSUME BTypeOK, [BNext]_queueVars
               PROVE  [(\E x \in Items : Bounded!Put(x)) \/ Bounded!Take]_<<Queued, out>>
    OBVIOUS
  <2>1. CASE \E x \in Items : enqueue(x)
    BY <2>1, EnqueueImplements
  <2>2. CASE dequeue
    BY <2>2, DequeueImplements
  <2>3. CASE UNCHANGED queueVars
    BY <2>3 DEF queueVars, Queued, Count
  <2> QED
    BY <2>1, <2>2, <2>3 DEF BNext
<1> QED
  BY <1>1, <1>2, <1>3, PTL DEF BSpec, IsBoundedQueue, Bounded!QueueSpec
=============================================================================
