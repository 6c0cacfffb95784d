------------------------- MODULE LinearizableProofs -------------------------
(***************************************************************************)
(* The table is a linearizable map: it implements ConcurrentMap, in which  *)
(* every call takes effect at one instant, with and without exceptions of  *)
(* user code.  And the counters of its locks count the items in it.        *)
(***************************************************************************)
EXTENDS CuckooMapProofs

-----------------------------------------------------------------------------
(***************************************************************************)
(* The map that a table holds.                                             *)
(***************************************************************************)

\* The places of the table bs that hold an item.
OccupiedIn(bs) == {p \in (DOMAIN bs) \X Slots : bs[p[1]][p[2]] # Vacant}

\* The map that the table bs holds.
ContentsOf(bs) ==
  [k \in Keys |->
     IF \E p \in OccupiedIn(bs) : bs[p[1]][p[2]].key = k
       THEN LET p == CHOOSE p \in OccupiedIn(bs) : bs[p[1]][p[2]].key = k
            IN  bs[p[1]][p[2]].val
       ELSE NoVal]

\* Item w is in the table bs.
Holds(bs, w) == \E i \in DOMAIN bs, s \in Slots : bs[i][s] # Vacant /\ bs[i][s] = w

\* Contents is the map that buckets holds.
LEMMA ContentsDef == Contents = ContentsOf(buckets) /\ Contents' = ContentsOf(buckets')
<1>1. Contents = ContentsOf(buckets)
  BY DEF Contents, ContentsOf, Occupied, OccupiedIn, Places
<1>2. Contents' = ContentsOf(buckets')
  BY DEF Contents, ContentsOf, Occupied, OccupiedIn, Places
<1> QED
  BY <1>1, <1>2

\* The value of a key is that of its item, and a key without an item has none.
LEMMA ContentsFacts ==
  ASSUME NEW hp, NEW bs \in Tables(hp), UniqueInv(bs)
  PROVE  /\ ContentsOf(bs) \in [Keys -> Vals \union {NoVal}]
         /\ \A i \in InTable(hp), s \in Slots :
              bs[i][s] # Vacant => ContentsOf(bs)[bs[i][s].key] = bs[i][s].val
         /\ \A k \in Keys :
              (\A i \in InTable(hp), s \in Slots : bs[i][s] # Vacant => bs[i][s].key # k)
                => ContentsOf(bs)[k] = NoVal
<1> DEFINE P(k, p) == bs[p[1]][p[2]].key = k
           val(k) == IF \E p \in OccupiedIn(bs) : P(k, p)
                       THEN LET p == CHOOSE p \in OccupiedIn(bs) : P(k, p)
                            IN  bs[p[1]][p[2]].val
                       ELSE NoVal
<1>0. DOMAIN bs = InTable(hp)
  BY DEF Tables
<1>1. DOMAIN bs = InTable(hp) /\ ContentsOf(bs) = [k \in Keys |-> val(k)]
  BY DEF Tables, ContentsOf
<1>2. \A i \in InTable(hp), s \in Slots : bs[i][s] \in AnyItem \union {Vacant}
  BY DEF Tables
<1>3. ASSUME NEW p \in OccupiedIn(bs)
      PROVE  /\ p[1] \in InTable(hp) /\ p[2] \in Slots /\ bs[p[1]][p[2]] # Vacant
             /\ bs[p[1]][p[2]] \in AnyItem
  BY <1>1, <1>2 DEF OccupiedIn
<1>4. ASSUME NEW k \in Keys, NEW i \in InTable(hp), NEW s \in Slots, bs[i][s] # Vacant,
             bs[i][s].key = k
      PROVE  val(k) = bs[i][s].val
  <2> DEFINE q == <<i, s>>
             p == CHOOSE p \in OccupiedIn(bs) : P(k, p)
  <2>1. q \in OccupiedIn(bs) /\ P(k, q)
    BY <1>1, <1>4 DEF OccupiedIn
  <2>2. p \in OccupiedIn(bs) /\ P(k, p)
    BY <2>1
  <2>3. val(k) = bs[p[1]][p[2]].val
    BY <2>1
  <2> HIDE DEF p
  <2>4. p[1] = i /\ p[2] = s
    <3> DEFINE j == p[1]
               r == p[2]
    <3>1. /\ j \in InTable(hp) /\ r \in Slots /\ bs[j][r] # Vacant
          /\ bs[j][r].key = bs[i][s].key
      BY <1>3, <1>4, <2>2
    <3> HIDE DEF j, r
    <3>2. j = i /\ r = s
      BY <1>0, <1>4, <3>1 DEF UniqueInv
    <3> QED
      BY <3>2 DEF j, r
  <2> QED
    BY <2>3, <2>4
<1>5. ASSUME NEW k \in Keys PROVE val(k) \in Vals \union {NoVal}
  <2>1. CASE \E p \in OccupiedIn(bs) : P(k, p)
    <3> DEFINE p == CHOOSE p \in OccupiedIn(bs) : P(k, p)
    <3>1. p \in OccupiedIn(bs) /\ val(k) = bs[p[1]][p[2]].val
      BY <2>1
    <3> HIDE DEF p, val
    <3> QED
      BY <1>3, <3>1, ItemFacts
  <2>2. CASE ~ \E p \in OccupiedIn(bs) : P(k, p)
    BY <2>2
  <2> QED
    BY <2>1, <2>2
<1>6. ASSUME NEW k \in Keys,
             \A i \in InTable(hp), s \in Slots : bs[i][s] # Vacant => bs[i][s].key # k
      PROVE  val(k) = NoVal
  <2>1. ~ \E p \in OccupiedIn(bs) : P(k, p)
    BY <1>3, <1>6
  <2> QED
    BY <2>1
<1>7. \A i \in InTable(hp), s \in Slots : bs[i][s] # Vacant => bs[i][s].key \in Keys
  BY <1>2, ItemFacts
<1> HIDE DEF val
<1>8. ContentsOf(bs) \in [Keys -> Vals \union {NoVal}]
  BY <1>1, <1>5
<1>9. ASSUME NEW i \in InTable(hp), NEW s \in Slots, bs[i][s] # Vacant
      PROVE  ContentsOf(bs)[bs[i][s].key] = bs[i][s].val
  BY <1>1, <1>4, <1>7, <1>9
<1>10. ASSUME NEW k \in Keys,
              \A i \in InTable(hp), s \in Slots : bs[i][s] # Vacant => bs[i][s].key # k
       PROVE  ContentsOf(bs)[k] = NoVal
  BY <1>1, <1>6, <1>10
<1> QED
  BY <1>8, <1>9, <1>10

\* The keys whose items are the same in both tables have the same values.
LEMMA SameItems ==
  ASSUME NEW h1, NEW h2, NEW bs \in Tables(h1), NEW new \in Tables(h2),
         UniqueInv(bs), UniqueInv(new), NEW k \in Keys,
         \A w \in AnyItem : w.key = k => (Holds(bs, w) <=> Holds(new, w))
  PROVE  ContentsOf(new)[k] = ContentsOf(bs)[k]
<1>1. /\ DOMAIN bs = InTable(h1) /\ DOMAIN new = InTable(h2)
      /\ \A i \in InTable(h1), s \in Slots : bs[i][s] \in AnyItem \union {Vacant}
      /\ \A i \in InTable(h2), s \in Slots : new[i][s] \in AnyItem \union {Vacant}
  BY DEF Tables
<1>2. CASE \E w \in AnyItem : w.key = k /\ Holds(bs, w)
  <2>1. PICK w \in AnyItem : w.key = k /\ Holds(bs, w) /\ Holds(new, w)
    BY <1>2
  <2>2. PICK i \in InTable(h1), s \in Slots : bs[i][s] # Vacant /\ bs[i][s] = w
    BY <1>1, <2>1 DEF Holds
  <2>3. PICK j \in InTable(h2), r \in Slots : new[j][r] # Vacant /\ new[j][r] = w
    BY <1>1, <2>1 DEF Holds
  <2>4. ContentsOf(bs)[w.key] = w.val
    BY <2>2, ContentsFacts
  <2>5. ContentsOf(new)[w.key] = w.val
    BY <2>3, ContentsFacts
  <2> QED
    BY <2>1, <2>4, <2>5
<1>3. CASE ~ \E w \in AnyItem : w.key = k /\ Holds(bs, w)
  <2>1. \A i \in InTable(h1), s \in Slots : bs[i][s] # Vacant => bs[i][s].key # k
    BY <1>1, <1>3 DEF Holds
  <2>2. \A i \in InTable(h2), s \in Slots : new[i][s] # Vacant => new[i][s].key # k
    BY <1>1, <1>3 DEF Holds
  <2>3. ContentsOf(bs)[k] = NoVal
    BY <2>1, ContentsFacts
  <2>4. ContentsOf(new)[k] = NoVal
    BY <2>2, ContentsFacts
  <2> QED
    BY <2>3, <2>4
<1> QED
  BY <1>2, <1>3

\* Two tables with the same items hold the same map.
LEMMA SameMap ==
  ASSUME NEW h1, NEW h2, NEW bs \in Tables(h1), NEW new \in Tables(h2),
         UniqueInv(bs), UniqueInv(new), \A w \in AnyItem : Holds(bs, w) <=> Holds(new, w)
  PROVE  ContentsOf(new) = ContentsOf(bs)
<1>1. \A k \in Keys : ContentsOf(new)[k] = ContentsOf(bs)[k]
  BY SameItems
<1>2. /\ ContentsOf(new) \in [Keys -> Vals \union {NoVal}]
      /\ ContentsOf(bs) \in [Keys -> Vals \union {NoVal}]
  BY ContentsFacts
<1> QED
  BY <1>1, <1>2

\* Vacating the slot of an item takes its key out of the map.
LEMMA VacateSlot ==
  ASSUME NEW hp \in Nat, NEW bs \in Tables(hp), UniqueInv(bs), NEW i \in InTable(hp),
         NEW s \in Slots, bs[i][s] # Vacant, NEW new, new = SetSlot(bs, i, s, Vacant),
         UniqueInv(new)
  PROVE  ContentsOf(new) = [ContentsOf(bs) EXCEPT ![bs[i][s].key] = NoVal]
<1> DEFINE k == bs[i][s].key
<1>1. /\ DOMAIN bs = InTable(hp) /\ new \in Tables(hp) /\ DOMAIN new = InTable(hp)
      /\ new[i][s] = Vacant
      /\ \A j \in InTable(hp), r \in Slots : (j # i \/ r # s) => new[j][r] = bs[j][r]
  BY SlotChanged DEF Tables
<1>2. k \in Keys
  <2>1. bs[i][s] \in AnyItem
    BY DEF Tables
  <2> QED
    BY <2>1, ItemFacts
<1>3. \A j \in InTable(hp), r \in Slots : new[j][r] # Vacant => new[j][r].key # k
  BY <1>1 DEF UniqueInv
<1>4. ContentsOf(new)[k] = NoVal
  BY <1>1, <1>2, <1>3, ContentsFacts
<1>5. ASSUME NEW j \in Keys, j # k PROVE ContentsOf(new)[j] = ContentsOf(bs)[j]
  <2>1. \A w \in AnyItem : w.key = j => (Holds(bs, w) <=> Holds(new, w))
    BY <1>1, <1>5 DEF Holds
  <2> QED
    BY <1>1, <2>1, SameItems
<1>6. /\ ContentsOf(new) \in [Keys -> Vals \union {NoVal}]
      /\ ContentsOf(bs) \in [Keys -> Vals \union {NoVal}]
  BY <1>1, ContentsFacts
<1> HIDE DEF k
<1>7. ContentsOf(new) = [ContentsOf(bs) EXCEPT ![k] = NoVal]
  BY <1>4, <1>5, <1>6
<1> QED
  BY <1>7 DEF k

\* Putting an item into a vacant slot, or into the slot of the same key, puts it into
\* the map.
LEMMA FillSlot ==
  ASSUME NEW hp \in Nat, NEW bs \in Tables(hp), UniqueInv(bs), NEW i \in InTable(hp),
         NEW s \in Slots, NEW w \in AnyItem, w # Vacant,
         bs[i][s] = Vacant \/ bs[i][s].key = w.key,
         NEW new, new = SetSlot(bs, i, s, w), UniqueInv(new)
  PROVE  ContentsOf(new) = [ContentsOf(bs) EXCEPT ![w.key] = w.val]
<1> DEFINE k == w.key
<1>1. /\ DOMAIN bs = InTable(hp) /\ new \in Tables(hp) /\ DOMAIN new = InTable(hp)
      /\ new[i][s] = w
      /\ \A j \in InTable(hp), r \in Slots : (j # i \/ r # s) => new[j][r] = bs[j][r]
  BY SlotChanged DEF Tables
<1>2. k \in Keys
  BY ItemFacts
<1>3. ContentsOf(new)[new[i][s].key] = new[i][s].val
  BY <1>1, ContentsFacts
<1>4. ASSUME NEW j \in Keys, j # k PROVE ContentsOf(new)[j] = ContentsOf(bs)[j]
  <2>1. \A x \in AnyItem : x.key = j => (Holds(bs, x) <=> Holds(new, x))
    BY <1>1, <1>4 DEF Holds
  <2> QED
    BY <1>1, <2>1, SameItems
<1>5. /\ ContentsOf(new) \in [Keys -> Vals \union {NoVal}]
      /\ ContentsOf(bs) \in [Keys -> Vals \union {NoVal}]
  BY <1>1, ContentsFacts
<1>6. ContentsOf(new)[k] = w.val
  BY <1>1, <1>3
<1> HIDE DEF k
<1>7. ContentsOf(new) = [ContentsOf(bs) EXCEPT ![k] = w.val]
  BY <1>4, <1>5, <1>6
<1> QED
  BY <1>7 DEF k

\* What a thread that has locked the two buckets of a key finds there is the value of the
\* key.
LEMMA LocatedValue ==
  ASSUME MapInv, NEW t \in Threads, \A j : ~ InTodo(t, j), NEW bs, Edits(t, bs),
         NEW k \in Keys, NEW b, Both(hashpower, k) = {b[1], b[2]},
         b[1] \in InTable(hashpower), b[2] \in InTable(hashpower), hashpower \in Nat,
         \A j \in {b[1], b[2]} : lock_ind(j) \in Held(t)
  PROVE  LET p == Locate(bs, b, k)
         IN  /\ p[2] # NoSlot => /\ ContentsOf(bs)[k] = bs[p[1]][p[2]].val
                                 /\ ContentsOf(bs)[k] \in Vals
             /\ p[2] = NoSlot => ContentsOf(bs)[k] = NoVal
<1> DEFINE p == Locate(bs, b, k)
           i == p[1]
           s == p[2]
<1>1. bs \in Tables(hashpower) /\ UniqueInv(bs)
  BY DEF Edits
<1>2. /\ i \in {b[1], b[2]} /\ i \in InTable(hashpower)
      /\ s # NoSlot => /\ s \in Slots /\ bs[i][s] \in AnyItem
                       /\ bs[i][s] # Vacant /\ bs[i][s].key = k
      /\ s = NoSlot => \A j \in {b[1], b[2]}, r \in Slots : bs[j][r] # Vacant => bs[j][r].key # k
  BY <1>1, LocateFacts
<1> HIDE DEF i, s
<1>3. ASSUME s # NoSlot PROVE ContentsOf(bs)[k] = bs[i][s].val /\ ContentsOf(bs)[k] \in Vals
  <2>1. ContentsOf(bs)[bs[i][s].key] = bs[i][s].val
    BY <1>1, <1>2, <1>3, ContentsFacts
  <2>2. bs[i][s].val \in Vals
    BY <1>2, <1>3, ItemFacts
  <2> QED
    BY <1>2, <1>3, <2>1, <2>2
<1>4. ASSUME s = NoSlot PROVE ContentsOf(bs)[k] = NoVal
  <2>1. \A j \in InTable(hashpower), r \in Slots : bs[j][r] # Vacant => bs[j][r].key # k
    <3> SUFFICES ASSUME NEW j \in InTable(hashpower), NEW r \in Slots, bs[j][r] # Vacant,
                        bs[j][r].key = k
                 PROVE  FALSE
      OBVIOUS
    <3>1. j \in Both(hashpower, k)
      BY KeyIsStillHere
    <3> QED
      BY <1>2, <1>4, <3>1
  <2> QED
    BY <1>1, <2>1, ContentsFacts
<1> QED
  BY <1>3, <1>4 DEF i, s

\* The same for the call of a thread that has the locks of its buckets.
LEMMA FoundValue ==
  ASSUME MapInv, NEW t \in Threads, HasBuckets(t), call[t].op \in KeyOps
  PROVE  /\ Found(t) => /\ Contents[call[t].key] = ItemAt(Place(t)).val
                        /\ Contents[call[t].key] # NoVal
         /\ ~ Found(t) => Contents[call[t].key] = NoVal
<1> DEFINE k == call[t].key
           b == th[t].b
           p == Locate(buckets, b, k)
<1>1. /\ k \in Keys /\ hashpower \in Nat
      /\ Both(hashpower, k) = {b[1], b[2]}
      /\ b[1] \in InTable(hashpower) /\ b[2] \in InTable(hashpower)
      /\ \A j \in {b[1], b[2]} : lock_ind(j) \in Held(t)
      /\ \A i : ~ InTodo(t, i)
  BY LockedBuckets
<1>2. Edits(t, buckets)
  BY NoEdit
<1>3. p = Place(t) /\ (Found(t) <=> p[2] # NoSlot) /\ Contents = ContentsOf(buckets)
  BY ContentsDef DEF Place, Found, FoundIn, Key
<1> HIDE DEF k, b
<1>4. /\ p[2] # NoSlot => /\ ContentsOf(buckets)[k] = buckets[p[1]][p[2]].val
                          /\ ContentsOf(buckets)[k] \in Vals
      /\ p[2] = NoSlot => ContentsOf(buckets)[k] = NoVal
  BY <1>1, <1>2, LocatedValue
<1> HIDE DEF p
<1> QED
  BY <1>3, <1>4, ValsAssumption DEF ItemAt, k

-----------------------------------------------------------------------------
(***************************************************************************)
(* A call takes effect when it returns.                                    *)
(***************************************************************************)

\* ret has an entry for every thread.
RetInv == DOMAIN ret = Threads

\* The effects of a call do not depend on the exceptions that user code may throw.
LEMMA SameEffect ==
  ASSUME NEW c, NEW r
  PROVE  Abstract!Effect(c, r) <=> Throwing!Effect(c, r)
BY Zenon DEF Abstract!Effect, Throwing!Effect, Abstract!Keeps, Throwing!Keeps,
   Abstract!Sets, Throwing!Sets, Abstract!Present, Throwing!Present, Abstract!Outcome,
   Throwing!Outcome, Abstract!Absent, Throwing!Absent, Abstract!Thrown, Throwing!Thrown

\* The call of thread t ends, and returns r.
Ends(t, r) == call[t] # NoCall /\ Return(t, r)

\* A call that ends and returns what its effect calls for is complete.
LEMMA EndsComplete ==
  ASSUME RetInv, NEW t \in Threads, NEW r, Ends(t, r), Abstract!Effect(call[t], r)
  PROVE  Abstract!Complete(t) /\ Throwing!Complete(t)
<1>1. /\ call[t] # NoCall /\ ret' = [ret EXCEPT ![t] = r] /\ ret'[t] = r
      /\ call' = [call EXCEPT ![t] = NoCall]
  BY DEF Ends, Return, RetInv
<1>2. Throwing!Effect(call[t], r)
  BY SameEffect
<1> QED
  BY <1>1, <1>2 DEF Abstract!Complete, Throwing!Complete

\* A call that ends with an exception and has left the map alone is complete.
LEMMA EndsAborted ==
  ASSUME RetInv, NEW t \in Threads, Ends(t, Result(exception, NoVal)), Contents' = Contents
  PROVE  Throwing!Complete(t)
<1> DEFINE r == Result(exception, NoVal)
<1>1. /\ call[t] # NoCall /\ ret' = [ret EXCEPT ![t] = r] /\ ret'[t] = r
      /\ call' = [call EXCEPT ![t] = NoCall]
  BY DEF Ends, Return, RetInv
<1>2. Throwing!Aborts(r)
  BY DEF Throwing!Aborts, Throwing!Keeps, Throwing!Outcome, Result
<1> HIDE DEF r
<1> QED
  BY <1>1, <1>2 DEF Throwing!Complete

\* A thread that is anywhere in its call is in a call.
LEMMA InCall ==
  ASSUME MapInv, NEW t \in Threads, th[t].pc # "idle"
  PROVE  call[t] # NoCall
BY ThreadFacts DEF MapInv, CallOK

\* find and contains.
LEMMA LookupEffect ==
  ASSUME MapInv, NEW t \in Threads, Lookup(t)
  PROVE  \E r : Ends(t, r) /\ Abstract!Effect(call[t], r)
<1> DEFINE c == call[t]
           r == IF ~ Found(t) THEN NotFound
                ELSE Result("ok", IF Op(t) = "find" THEN ItemAt(Place(t)).val ELSE NoVal)
<1>1. HasBuckets(t) /\ c.op \in {"find", "contains"} /\ c.op \in KeyOps /\ th[t].pc # "idle"
  BY DEF Lookup, Op, KeyOps, HasBuckets, At
<1>2. Return(t, r) /\ buckets' = buckets
  BY DEF Lookup, table
<1>3. Ends(t, r)
  BY <1>1, <1>2, InCall DEF Ends
<1>4. Contents' = Contents
  BY <1>2, ContentsDef
<1>5. /\ Found(t) => Contents[c.key] = ItemAt(Place(t)).val /\ Contents[c.key] # NoVal
      /\ ~ Found(t) => Contents[c.key] = NoVal
  BY <1>1, FoundValue
<1>6. CASE c.op = "find"
  <2>1. r = IF Contents[c.key] # NoVal THEN Result("ok", Contents[c.key]) ELSE NotFound
    BY <1>5, <1>6 DEF Op
  <2> HIDE DEF r, c
  <2>2. Abstract!Effect(c, r)
    BY <1>4, <1>6, <2>1, Zenon
       DEF Abstract!Effect, Abstract!Keeps, Abstract!Present, Abstract!Outcome,
           Abstract!Absent, Result, NotFound
  <2> QED
    BY <1>3, <2>2 DEF c
<1>7. CASE c.op = "contains"
  <2>1. r = IF Contents[c.key] # NoVal THEN Result("ok", NoVal) ELSE NotFound
    BY <1>5, <1>7 DEF Op
  <2> HIDE DEF r, c
  <2>2. Abstract!Effect(c, r)
    BY <1>4, <1>7, <2>1, Zenon
       DEF Abstract!Effect, Abstract!Keeps, Abstract!Present, Abstract!Outcome,
           Abstract!Absent, Result, NotFound
  <2> QED
    BY <1>3, <2>2 DEF c
<1> QED
  BY <1>1, <1>6, <1>7

\* erase takes the key that it finds out of the map.
LEMMA ErasedValue ==
  ASSUME MapInv, NEW t \in Threads, Erase(t), Found(t)
  PROVE  /\ Place(t)[1] \in InTable(hashpower) /\ call[t].key \in Keys
         /\ Contents[call[t].key] # NoVal
         /\ Contents' = [Contents EXCEPT ![call[t].key] = NoVal]
<1> DEFINE c == call[t]
           p == Place(t)
           i == p[1]
           s == p[2]
           new == SetSlot(buckets, i, s, Vacant)
<1>1. HasBuckets(t) /\ c.op \in KeyOps
  BY DEF Erase, Op, KeyOps
<1>2. Contents[c.key] # NoVal
  BY <1>1, FoundValue
<1>3. buckets' = new
  BY DEF Erase, SetSlot
<1>4. /\ i \in InTable(hashpower) /\ s \in Slots /\ Edits(t, new)
      /\ buckets[i][s] # Vacant /\ buckets[i][s].key = c.key
  BY <1>1, FoundSlot
<1>5. hashpower \in Nat /\ buckets \in Tables(hashpower) /\ UniqueInv(buckets) /\ c.key \in Keys
  BY <1>1, LockedBuckets
<1> HIDE DEF i, s, c
<1>6. ContentsOf(new) = [ContentsOf(buckets) EXCEPT ![buckets[i][s].key] = NoVal]
  <2>1. UniqueInv(new)
    BY <1>4 DEF Edits
  <2> QED
    BY <1>4, <1>5, <2>1, VacateSlot
<1>7. Contents' = [Contents EXCEPT ![c.key] = NoVal]
  BY <1>3, <1>4, <1>6, ContentsDef
<1> QED
  BY <1>2, <1>4, <1>5, <1>7 DEF c, i

\* erase.
LEMMA EraseEffect ==
  ASSUME MapInv, NEW t \in Threads, Erase(t)
  PROVE  \E r : Ends(t, r) /\ Abstract!Effect(call[t], r)
<1> DEFINE c == call[t]
           r == IF Found(t) THEN Result("ok", NoVal) ELSE NotFound
<1>1. HasBuckets(t) /\ c.op = "erase" /\ c.op \in KeyOps /\ th[t].pc # "idle"
  BY DEF Erase, Op, KeyOps, HasBuckets, At
<1>2. Ends(t, r)
  BY <1>1, InCall DEF Erase, Ends
<1>3. CASE Found(t)
  <2>1. Contents[c.key] # NoVal /\ Contents' = [Contents EXCEPT ![c.key] = NoVal]
    BY <1>3, ErasedValue
  <2> HIDE DEF c
  <2>2. Abstract!Effect(c, Result("ok", NoVal))
    BY <1>1, <2>1, Zenon
       DEF Abstract!Effect, Abstract!Sets, Abstract!Present, Abstract!Outcome, Result
  <2> QED
    BY <1>2, <1>3, <2>2 DEF c
<1>4. CASE ~ Found(t)
  <2>1. Contents' = Contents /\ Contents[c.key] = NoVal
    BY <1>1, <1>4, FoundValue, ContentsDef DEF Erase, table
  <2> HIDE DEF c
  <2>2. Abstract!Effect(c, NotFound)
    BY <1>1, <2>1, Zenon
       DEF Abstract!Effect, Abstract!Keeps, Abstract!Present, Abstract!Outcome,
           Abstract!Absent, Result, NotFound
  <2> QED
    BY <1>2, <1>4, <2>2 DEF c
<1> QED
  BY <1>3, <1>4

\* The value that update, update_fn, upsert or an assignment gives to a key it finds.
UpdatedTo(c) ==
  IF c.op \in {"update", "assign"} THEN c.val ELSE Fn[Contents[c.key]]

\* An update changes the value of its key.
LEMMA UpdatedValue ==
  ASSUME MapInv, NEW t \in Threads, Update(t), Found(t)
  PROVE  /\ call[t].key \in Keys /\ Contents[call[t].key] # NoVal
         /\ UpdatedTo(call[t]) \in Vals
         /\ Contents' = [Contents EXCEPT ![call[t].key] = UpdatedTo(call[t])]
<1> DEFINE c == call[t]
<1>1. HasBuckets(t) /\ c.op \in KeyOps
  BY DEF Update, Op, Upserts, KeyOps, InsertOps
<1>2. Contents[c.key] = ItemAt(Place(t)).val /\ Contents[c.key] # NoVal
  BY <1>1, FoundValue
<1> DEFINE p == Place(t)
           i == p[1]
           s == p[2]
           item == buckets[i][s]
           val == IF Op(t) \in {"update", "assign"} THEN call[t].val ELSE Fn[item.val]
           w == [item EXCEPT !.val = val]
           new == SetSlot(buckets, i, s, w)
<1>3. buckets' = new
  <2>1. buckets' = [buckets EXCEPT ![p[1]][p[2]].val =
                     IF Op(t) \in {"update", "assign"} THEN call[t].val ELSE Fn[@]]
    BY DEF Update
  <2>2. i \in DOMAIN buckets /\ s \in DOMAIN buckets[i]
    <3>1. i \in InTable(hashpower) /\ s \in Slots /\ buckets \in Tables(hashpower)
      BY <1>1, FoundSlot, LockedBuckets
    <3> QED
      BY <3>1 DEF Tables
  <2> QED
    BY <2>1, <2>2 DEF SetSlot
<1>4. /\ i \in InTable(hashpower) /\ s \in Slots /\ item \in AnyItem
      /\ item # Vacant /\ item.key = c.key
      /\ \A v \in AnyItem \union {Vacant} : v = Vacant \/ v.key = c.key =>
           Edits(t, SetSlot(buckets, i, s, v))
  BY <1>1, FoundSlot
<1>5. /\ hashpower \in Nat /\ buckets \in Tables(hashpower) /\ UniqueInv(buckets)
      /\ c.val \in Vals /\ c.key \in Keys
  BY <1>1, LockedBuckets
<1>6. val = UpdatedTo(c)
  BY <1>2 DEF Op, ItemAt, UpdatedTo
<1>7. val \in Vals
  BY <1>4, <1>5, ItemFacts, ValsAssumption
<1> HIDE DEF val, i, s, c
<1>8. w \in AnyItem /\ w.key = c.key /\ w.val = val /\ w # Vacant
  <2>1. PICK k \in Keys, v \in Vals : item = Item(k, v)
    BY <1>4 DEF AnyItem
  <2>2. w = Item(k, val)
    BY <2>1 DEF Item
  <2>3. w.key = k /\ item.key = k /\ w.val = val
    BY <2>1, <2>2 DEF Item
  <2> QED
    BY <1>4, <1>7, <2>2, <2>3, VacantAssumption DEF AnyItem
<1> HIDE DEF w
<1>9. Edits(t, new)
  BY <1>4, <1>8
<1>10. ContentsOf(new) = [ContentsOf(buckets) EXCEPT ![w.key] = w.val]
  <2>1. UniqueInv(new)
    BY <1>9 DEF Edits
  <2> QED
    BY <1>4, <1>5, <1>8, <2>1, FillSlot
<1>11. Contents' = [Contents EXCEPT ![c.key] = val]
  BY <1>3, <1>8, <1>10, ContentsDef
<1> QED
  BY <1>2, <1>5, <1>6, <1>7, <1>11 DEF c

\* update, update_fn and the first try of upsert.
LEMMA UpdateEffect ==
  ASSUME MapInv, NEW t \in Threads, Update(t)
  PROVE  \E r : Ends(t, r) /\ Abstract!Effect(call[t], r)
<1> DEFINE c == call[t]
           r == IF Found(t) THEN Result("ok", NoVal) ELSE NotFound
<1>1. /\ HasBuckets(t) /\ c.op \in KeyOps /\ th[t].pc # "idle"
      /\ c.op \in {"update", "update_fn"} \/ (c.op \in {"upsert", "assign"} /\ Found(t))
  BY DEF Update, Op, Upserts, KeyOps, InsertOps, HasBuckets, At
<1>2. Ends(t, r)
  BY <1>1, InCall DEF Update, Ends
<1>3. /\ Found(t) => Contents[c.key] = ItemAt(Place(t)).val /\ Contents[c.key] # NoVal
      /\ ~ Found(t) => Contents[c.key] = NoVal
  BY <1>1, FoundValue
<1>4. CASE Found(t)
  <2> DEFINE val == UpdatedTo(c)
  <2>1. Contents' = [Contents EXCEPT ![c.key] = val]
    BY <1>4, UpdatedValue
  <2>2. val = IF c.op \in {"update", "assign"} THEN c.val ELSE Fn[Contents[c.key]]
    BY DEF UpdatedTo
  <2> HIDE DEF val, c
  <2>3. Abstract!Effect(c, Result("ok", NoVal))
    <3>1. CASE c.op = "update"
      <4>1. val = c.val
        BY <2>2, <3>1
      <4> QED
        BY <1>3, <1>4, <2>1, <3>1, <4>1, Zenon
           DEF Abstract!Effect, Abstract!Sets, Abstract!Present, Abstract!Outcome, Result
    <3>2. CASE c.op = "update_fn"
      <4>1. val = Fn[Contents[c.key]]
        BY <2>2, <3>2
      <4> QED
        BY <1>3, <1>4, <2>1, <3>2, <4>1, Zenon
           DEF Abstract!Effect, Abstract!Sets, Abstract!Present, Abstract!Outcome, Result
    <3>3. CASE c.op = "upsert"
      <4>1. val = Fn[Contents[c.key]]
        BY <2>2, <3>3
      <4> QED
        BY <1>3, <1>4, <2>1, <3>3, <4>1, Zenon
           DEF Abstract!Effect, Abstract!Sets, Abstract!Present, Abstract!Outcome, Result
    <3>4. CASE c.op = "assign"
      <4>1. val = c.val
        BY <2>2, <3>4
      <4> QED
        BY <2>1, <3>4, <4>1, Zenon
           DEF Abstract!Effect, Abstract!Sets, Abstract!Present, Abstract!Outcome, Result
    <3> QED
      BY <1>1, <3>1, <3>2, <3>3, <3>4
  <2> QED
    BY <1>2, <1>4, <2>3 DEF c
<1>5. CASE ~ Found(t)
  <2>1. Contents' = Contents
    BY <1>5, ContentsDef DEF Update
  <2> HIDE DEF c
  <2>2. Abstract!Effect(c, NotFound)
    <3>1. CASE c.op = "update"
      BY <1>3, <1>5, <2>1, <3>1, Zenon
         DEF Abstract!Effect, Abstract!Keeps, Abstract!Present, Abstract!Outcome,
             Abstract!Absent, Result, NotFound
    <3>2. CASE c.op = "update_fn"
      BY <1>3, <1>5, <2>1, <3>2, Zenon
         DEF Abstract!Effect, Abstract!Keeps, Abstract!Present, Abstract!Outcome,
             Abstract!Absent, Result, NotFound
    <3> QED
      BY <1>1, <1>5, <3>1, <3>2
  <2> QED
    BY <1>2, <1>5, <2>2 DEF c
<1> QED
  BY <1>4, <1>5

\* An insertion whose key was not there takes effect when the item is added.
LEMMA InsertedEffect ==
  ASSUME NEW c, c.op \in InsertOps, Contents[c.key] = NoVal,
         Contents' = [Contents EXCEPT ![c.key] = c.val]
  PROVE  Abstract!Effect(c, Result("ok", NoVal))
<1>1. CASE c.op = "insert"
  BY <1>1, Zenon
     DEF Abstract!Effect, Abstract!Sets, Abstract!Present, Abstract!Outcome, Result
<1>2. CASE c.op = "upsert"
  BY <1>2, Zenon
     DEF Abstract!Effect, Abstract!Sets, Abstract!Present, Abstract!Outcome, Result
<1>3. CASE c.op = "assign"
  BY <1>3, Zenon
     DEF Abstract!Effect, Abstract!Sets, Abstract!Present, Abstract!Outcome, Result
<1> QED
  BY <1>1, <1>2, <1>3 DEF InsertOps

\* A key that is nowhere is put into a vacant slot of one of its buckets.
LEMMA AddedValue ==
  ASSUME MapInv, NEW t \in Threads, \A j : ~ InTodo(t, j), NEW bs, Edits(t, bs),
         NEW k \in Keys, NEW v \in Vals, NEW b, Both(hashpower, k) = {b[1], b[2]},
         b[1] \in InTable(hashpower), b[2] \in InTable(hashpower), hashpower \in Nat,
         \A j \in {b[1], b[2]} : lock_ind(j) \in Held(t),
         Locate(bs, b, k)[2] = NoSlot, NEW i \in {b[1], b[2]}, NEW s \in Slots,
         bs[i][s] = Vacant, NEW new, new = SetSlot(bs, i, s, Item(k, v))
  PROVE  /\ ContentsOf(bs)[k] = NoVal
         /\ ContentsOf(new) = [ContentsOf(bs) EXCEPT ![k] = v]
<1> DEFINE w == Item(k, v)
<1>1. ContentsOf(bs)[k] = NoVal
  BY LocatedValue
<1>2. Edits(t, new)
  BY AddEdit
<1>3. w \in AnyItem /\ w.key = k /\ w.val = v /\ w # Vacant
  BY VacantAssumption DEF AnyItem, Item
<1>4. new = SetSlot(bs, i, s, w) /\ i \in InTable(hashpower)
  OBVIOUS
<1> HIDE DEF w
<1>5. bs \in Tables(hashpower) /\ UniqueInv(bs) /\ UniqueInv(new)
  BY <1>2 DEF Edits
<1>6. ContentsOf(new) = [ContentsOf(bs) EXCEPT ![w.key] = w.val]
  BY <1>3, <1>4, <1>5, FillSlot
<1> QED
  BY <1>1, <1>3, <1>6

\* The bucket with a vacant slot that add_to_bucket is called for.
FreeBucket(t) ==
  IF VacantSlot(th[t].b[1]) # NoSlot THEN th[t].b[1] ELSE th[t].b[2]

\* An insertion that finds a vacant slot puts its key into the map.
LEMMA InsertedValue ==
  ASSUME MapInv, NEW t \in Threads, InsertIntoBucket(t)
  PROVE  /\ FreeBucket(t) \in InTable(hashpower)
         /\ call[t].key \in Keys /\ call[t].val \in Vals /\ call[t].op \in InsertOps
         /\ Contents[call[t].key] = NoVal
         /\ Contents' = [Contents EXCEPT ![call[t].key] = call[t].val]
<1> DEFINE c == call[t]
           k == call[t].key
           v == call[t].val
           b == th[t].b
           i == FreeBucket(t)
           s == VacantSlot(i)
           new == SetSlot(buckets, i, s, Item(k, v))
<1>0. ControlInv /\ Inserting(t)
  BY DEF MapInv, InsertIntoBucket
<1>1. HasBuckets(t) /\ call[t].op \in KeyOps /\ c.op \in InsertOps /\ th[t].pc # "idle"
  BY <1>0, InsertingFacts DEF HasBuckets, At, Inserting, Op, Upserts, InsertOps
<1>3. buckets' = new /\ s # NoSlot
  BY DEF InsertIntoBucket, AddToBucket, SetSlot, Key, FreeBucket
<1>4. /\ k \in Keys /\ v \in Vals /\ hashpower \in Nat
      /\ Both(hashpower, k) = {b[1], b[2]}
      /\ b[1] \in InTable(hashpower) /\ b[2] \in InTable(hashpower)
      /\ \A j \in {b[1], b[2]} : lock_ind(j) \in Held(t)
      /\ \A j : ~ InTodo(t, j)
  BY <1>1, LockedBuckets
<1>5. Locate(buckets, b, k)[2] = NoSlot
  BY DEF InsertIntoBucket, Found, FoundIn, Key
<1>6. i \in {b[1], b[2]}
  BY DEF FreeBucket
<1> HIDE DEF k, v, b, i
<1>7. s \in Slots /\ buckets[i][s] = Vacant
  BY <1>3, VacantSlotFacts
<1> HIDE DEF s, new
<1>8. /\ ContentsOf(buckets)[k] = NoVal
      /\ ContentsOf(new) = [ContentsOf(buckets) EXCEPT ![k] = v]
  <2>1. new = SetSlot(buckets, i, s, Item(k, v)) /\ Edits(t, buckets)
    BY NoEdit DEF new
  <2> QED
    BY <1>4, <1>5, <1>6, <1>7, <2>1, AddedValue
<1>9. Contents[c.key] = NoVal /\ Contents' = [Contents EXCEPT ![c.key] = c.val]
  BY <1>3, <1>8, ContentsDef DEF k, v
<1> QED
  BY <1>1, <1>4, <1>6, <1>9 DEF k, v, i

\* An insertion that finds a vacant slot.
LEMMA InsertEffect ==
  ASSUME MapInv, NEW t \in Threads, InsertIntoBucket(t)
  PROVE  \E r : Ends(t, r) /\ Abstract!Effect(call[t], r)
<1>1. th[t].pc # "idle"
  BY DEF InsertIntoBucket, Inserting, HasBuckets, At
<1>2. Ends(t, Result("ok", NoVal))
  BY <1>1, InCall DEF InsertIntoBucket, Ends
<1>3. Abstract!Effect(call[t], Result("ok", NoVal))
  BY InsertedValue, InsertedEffect
<1> QED
  BY <1>2, <1>3

\* insert finds its key in the map, which it leaves as it is.
LEMMA DuplicateEffect ==
  ASSUME MapInv, NEW t \in Threads, Duplicated(t), th[t].pc # "idle",
         call[t].op \in InsertOps, Contents' = Contents, Contents[call[t].key] # NoVal
  PROVE  \/ \E r : Ends(t, r) /\ Abstract!Effect(call[t], r)
         \/ UNCHANGED <<Contents, call, ret>>
<1> DEFINE c == call[t]
           r == Result("failure_key_duplicated", NoVal)
<1>1. CASE c.op = "insert"
  <2>1. Ends(t, r)
    BY <1>1, InCall DEF Duplicated, Ends, Op
  <2> HIDE DEF c
  <2>2. Abstract!Effect(c, r)
    BY <1>1, Zenon
       DEF c, Abstract!Effect, Abstract!Keeps, Abstract!Present, Abstract!Outcome, Result
  <2> QED
    BY <2>1, <2>2 DEF c
<1>2. CASE c.op # "insert"
  BY <1>2 DEF Duplicated, Op, Restart, interface
<1> QED
  BY <1>1, <1>2

\* An insertion whose key is found in the first place.
LEMMA InsertDuplicateEffect ==
  ASSUME MapInv, NEW t \in Threads, InsertDuplicate(t)
  PROVE  \/ \E r : Ends(t, r) /\ Abstract!Effect(call[t], r)
         \/ UNCHANGED <<Contents, call, ret>>
<1>1. ControlInv /\ Inserting(t) /\ Duplicated(t) /\ Found(t)
  BY DEF MapInv, InsertDuplicate
<1>2. /\ HasBuckets(t) /\ call[t].op \in KeyOps /\ call[t].op \in InsertOps
      /\ th[t].pc # "idle"
  BY <1>1, InsertingFacts DEF HasBuckets, At, Inserting, Op, Upserts, InsertOps
<1>3. Contents' = Contents
  BY ContentsDef DEF InsertDuplicate, table
<1>4. Contents[call[t].key] # NoVal
  BY <1>1, <1>2, FoundValue
<1> QED
  BY <1>1, <1>2, <1>3, <1>4, DuplicateEffect

\* The two ends of a move along the path.
LEMMA MoveEnds ==
  ASSUME MapInv, NEW t \in Threads, HasMoveLocks(t), th[t].depth # 0
  PROVE  LET from == th[t].path[th[t].depth]
             to == th[t].path[th[t].depth + 1]
         IN  /\ from.bucket \in InTable(hashpower) /\ to.bucket \in InTable(hashpower)
             /\ from.slot \in Slots /\ to.slot \in Slots
<1> DEFINE d == th[t].depth
           path == th[t].path
<1>1. /\ d \in Nat /\ d < Len(path) /\ PathOK(hashpower, th[t].b, path)
      /\ th[t].pc = "moving" /\ ControlInv
  BY HasMoveLocksFacts DEF MapInv
<1>2. path \in Seq(Records)
  BY <1>1, MoveBucketsType
<1>3. d \in 1 .. Len(path) /\ d + 1 \in 1 .. Len(path)
  BY <1>1, <1>2
<1>4. path[d] \in Records /\ path[d + 1] \in Records
  BY <1>2, <1>3
<1> QED
  BY <1>1, <1>3, <1>4 DEF PathOK, Records

\* A move leaves the map as it is.
LEMMA MovedSame ==
  ASSUME MapInv, NEW t \in Threads, HasMoveLocks(t), MoveValid(t)
  PROVE  ContentsOf(Moved(t)) = ContentsOf(buckets)
<1> DEFINE new == Moved(t)
           d == th[t].depth
<1>1. /\ buckets \in Tables(hashpower) /\ UniqueInv(buckets)
      /\ new \in Tables(hashpower) /\ UniqueInv(new) /\ hashpower \in Nat
  BY MovedEdits, HashPowersAssumption
     DEF Edits, MapInv, TableOK, DataInv, ControlInv, LocksInv, LocksTypeOK
<1>2. CASE d = 0
  BY <1>2 DEF Moved
<1>3. CASE d # 0
  <2> DEFINE from == th[t].path[d]
             to == th[t].path[d + 1]
             i == from.bucket
             s == from.slot
             j == to.bucket
             r == to.slot
             item == buckets[i][s]
  <2>1. /\ i \in InTable(hashpower) /\ j \in InTable(hashpower)
        /\ s \in Slots /\ r \in Slots
    BY <1>3, MoveEnds
  <2>2. buckets[j][r] = Vacant /\ item # Vacant
    <3>1. d > 0
      BY <1>3, HasMoveLocksFacts DEF MapInv
    <3> QED
      BY <3>1, Zenon DEF MoveValid
  <2>3. new = SetSlots(buckets, j, r, item, i, s, Vacant)
    BY <1>3 DEF Moved, SetSlots
  <2> HIDE DEF i, j, r, s, new
  <2>4. i # j \/ s # r
    BY <2>2
  <2> DEFINE mid == SetSlot(buckets, i, s, Vacant)
  <2>5. new = SetSlot(mid, j, r, item)
    BY <1>1, <2>1, <2>3, <2>4, SlotsCommute
  <2> HIDE DEF mid
  <2>6. /\ mid \in Tables(hashpower) /\ mid[i][s] = Vacant
        /\ \A n \in InTable(hashpower), q \in Slots :
              (n # i \/ q # s) => mid[n][q] = buckets[n][q]
    BY <1>1, <2>1, SlotChanged DEF mid
  <2> HIDE DEF item
  <2>7. item \in AnyItem \union {Vacant}
    BY <1>1, <2>1 DEF item, Tables
  <2>8. /\ new[j][r] = item
        /\ \A n \in InTable(hashpower), q \in Slots :
              (n # j \/ q # r) => new[n][q] = mid[n][q]
    <3>1. /\ mid \in Tables(hashpower) /\ hashpower \in Nat
          /\ j \in InTable(hashpower) /\ r \in Slots
          /\ item \in AnyItem \union {Vacant}
      BY <1>1, <2>1, <2>6, <2>7
    <3>2. new = SetSlot(mid, j, r, item)
      BY <2>5
    <3> QED
      BY <3>1, <3>2, SlotChanged
  <2>9. DOMAIN buckets = InTable(hashpower) /\ DOMAIN new = InTable(hashpower)
    BY <1>1 DEF Tables
  <2>10. item = buckets[i][s]
    BY DEF item
  <2>11. ASSUME NEW w \in AnyItem, Holds(buckets, w) PROVE Holds(new, w)
    <3>1. PICK n \in InTable(hashpower), q \in Slots : buckets[n][q] # Vacant /\ buckets[n][q] = w
      BY <2>9, <2>11 DEF Holds
    <3>2. CASE n = i /\ q = s
      BY <2>1, <2>2, <2>8, <2>9, <2>10, <3>1, <3>2 DEF Holds
    <3>3. CASE n # i \/ q # s
      <4>1. n # j \/ q # r
        BY <2>2, <3>1
      <4>2. new[n][q] = buckets[n][q]
        BY <2>6, <2>8, <3>3, <4>1
      <4> QED
        BY <2>9, <3>1, <4>2 DEF Holds
    <3> QED
      BY <3>2, <3>3
  <2>12. ASSUME NEW w \in AnyItem, Holds(new, w) PROVE Holds(buckets, w)
    <3>1. PICK n \in InTable(hashpower), q \in Slots : new[n][q] # Vacant /\ new[n][q] = w
      BY <2>9, <2>12 DEF Holds
    <3>2. CASE n = j /\ q = r
      BY <2>1, <2>2, <2>8, <2>9, <2>10, <3>1, <3>2 DEF Holds
    <3>3. CASE n # j \/ q # r
      <4>1. new[n][q] = mid[n][q]
        BY <2>8, <3>3
      <4>2. n # i \/ q # s
        BY <2>6, <3>1, <4>1
      <4>3. new[n][q] = buckets[n][q]
        BY <2>6, <4>1, <4>2
      <4> QED
        BY <2>9, <3>1, <4>3 DEF Holds
    <3> QED
      BY <3>2, <3>3
  <2>13. ContentsOf(new) = ContentsOf(buckets)
    BY <1>1, <2>11, <2>12, SameMap
  <2> QED
    BY <2>13 DEF new
<1> QED
  BY <1>2, <1>3

\* The slot that the last move frees, or that was found vacant, is vacant.
LEMMA FreedSlot ==
  ASSUME MapInv, NEW t \in Threads, HasMoveLocks(t), MoveValid(t), th[t].depth \in {0, 1}
  PROVE  Moved(t)[th[t].path[1].bucket][th[t].path[1].slot] = Vacant
<1> DEFINE path == th[t].path
<1>1. buckets \in Tables(hashpower)
  BY DEF MapInv, TableOK
<1>2. CASE th[t].depth = 0
  <2>1. buckets[path[0 + 1].bucket][path[0 + 1].slot] = Vacant
    BY <1>2, Zenon DEF MoveValid
  <2> QED
    BY <1>2, <2>1 DEF Moved
<1>3. CASE th[t].depth = 1
  <2> DEFINE i == path[1].bucket
             s == path[1].slot
             j == path[2].bucket
             r == path[2].slot
             item == buckets[i][s]
  <2>1. /\ i \in InTable(hashpower) /\ j \in InTable(hashpower)
        /\ s \in Slots /\ r \in Slots
    BY <1>3, MoveEnds
  <2>2. Moved(t) = [buckets EXCEPT ![j][r] = item, ![i][s] = Vacant]
    BY <1>3 DEF Moved
  <2>3. buckets \in [InTable(hashpower) -> [Slots -> AnyItem \union {Vacant}]]
    BY <1>1 DEF Tables
  <2> HIDE DEF i, s, j, r, item
  <2>4. Moved(t)[i][s] = Vacant
    BY <2>1, <2>2, <2>3
  <2> QED
    BY <2>4 DEF i, s
<1> QED
  BY <1>2, <1>3

\* The last move of a path puts the key of the insertion into the map, unless another
\* insertion has done so meanwhile.
LEMMA FinishedValue ==
  ASSUME MapInv, NEW t \in Threads, FinishInsert(t)
  PROVE  /\ th[t].path[1].bucket \in InTable(hashpower)
         /\ call[t].key \in Keys /\ call[t].val \in Vals /\ call[t].op \in InsertOps
         /\ FoundIn(Moved(t), t) => Contents[call[t].key] # NoVal /\ Contents' = Contents
         /\ ~ FoundIn(Moved(t), t) =>
              /\ Contents[call[t].key] = NoVal
              /\ Contents' = [Contents EXCEPT ![call[t].key] = call[t].val]
<1> DEFINE bs == Moved(t)
           b == th[t].b
           c == call[t]
           k == call[t].key
           v == call[t].val
<1>0. HasMoveLocks(t) /\ ControlInv /\ MoveValid(t)
  BY DEF FinishInsert, MapInv
<1>1. Edits(t, bs) /\ \A i : ~ InTodo(t, i)
  BY MovedEdits DEF FinishInsert
<1>2. /\ th[t].pc = "moving" /\ k \in Keys /\ v \in Vals
      /\ b = TwoBuckets(hashpower, Hash[k])
      /\ \A i \in BucketsOfMove(th[t]) : lock_ind(i) \in Held(t)
      /\ PathOK(hashpower, b, th[t].path)
      /\ th[t].depth \in Nat /\ th[t].depth < Len(th[t].path)
  BY <1>0, HasMoveLocksFacts
<1>3. hashpower \in Nat /\ th[t].path \in Seq(Records) /\ th[t].depth \in {0, 1}
  <2>1. hashpower \in Nat /\ th[t].path \in Seq(Records)
    <3>1. th[t].pc = "moving" /\ th[t].hp = hashpower
      BY <1>0, HasMoveLocksFacts
    <3> QED
      BY <1>0, <3>1, MoveBucketsType
  <2>2. th[t].depth <= 1
    BY DEF FinishInsert
  <2> QED
    BY <1>2, <2>1, <2>2
<1>4. c.op \in InsertOps /\ th[t].pc # "idle"
  BY <1>0, <1>2, ThreadFacts DEF CallOK, OpsAt
<1>5. /\ Both(hashpower, k) = {b[1], b[2]}
      /\ b[1] \in InTable(hashpower) /\ b[2] \in InTable(hashpower)
  <2> HIDE DEF k, b
  <2> QED
    BY <1>2, <1>3, BucketsType DEF Both
<1>6. \A j \in {b[1], b[2]} : lock_ind(j) \in Held(t)
  BY <1>2, <1>3 DEF BucketsOfMove
<1>7. ContentsOf(bs) = ContentsOf(buckets)
  BY <1>0, MovedSame
<1>8. ASSUME FoundIn(bs, t)
      PROVE  Contents[call[t].key] # NoVal /\ Contents' = Contents
  <2>1. buckets' = bs
    BY <1>8 DEF FinishInsert
  <2>2. Contents' = Contents
    BY <1>7, <2>1, ContentsDef
  <2>3. Locate(bs, b, k)[2] # NoSlot
    BY <1>8 DEF FoundIn, Key
  <2> HIDE DEF bs, b, k
  <2>4. ContentsOf(bs)[k] \in Vals
    BY <1>1, <1>2, <1>3, <1>5, <1>6, <2>3, LocatedValue
  <2>5. Contents[call[t].key] # NoVal
    BY <1>7, <2>4, ContentsDef, ValsAssumption DEF k
  <2> QED
    BY <2>2, <2>5
<1>9. ASSUME ~ FoundIn(bs, t)
      PROVE  /\ Contents[call[t].key] = NoVal
             /\ Contents' = [Contents EXCEPT ![call[t].key] = call[t].val]
  <2> DEFINE i == th[t].path[1].bucket
             s == th[t].path[1].slot
             new == SetSlot(bs, i, s, Item(k, v))
  <2>1. buckets' = new
    BY <1>9 DEF FinishInsert, AddToBucket, SetSlot, Key
  <2>3. i \in {b[1], b[2]} /\ s \in Slots
    <3>1. th[t].path[1] \in Records /\ th[t].path # <<>>
      BY <1>2, <1>3
    <3> QED
      BY <1>2, <3>1 DEF PathOK, Records
  <2>4. Locate(bs, b, k)[2] = NoSlot
    BY <1>9 DEF FoundIn, Key
  <2>5. bs[i][s] = Vacant
    BY <1>0, <1>3, FreedSlot
  <2> HIDE DEF i, s, new, k, v, b, bs
  <2>6. /\ ContentsOf(bs)[k] = NoVal
        /\ ContentsOf(new) = [ContentsOf(bs) EXCEPT ![k] = v]
    <3>1. new = SetSlot(bs, i, s, Item(k, v))
      BY DEF new
    <3> QED
      BY <1>1, <1>2, <1>3, <1>5, <1>6, <2>3, <2>4, <2>5, <3>1, AddedValue
  <2>7. Contents[c.key] = NoVal /\ Contents' = [Contents EXCEPT ![c.key] = c.val]
    BY <1>7, <2>1, <2>6, ContentsDef DEF k, v
  <2> QED
    BY <2>7
<1>10. th[t].path[1].bucket \in InTable(hashpower)
  <2>1. th[t].path # <<>>
    BY <1>2, <1>3
  <2> QED
    BY <1>2, <1>5, <2>1 DEF PathOK
<1> QED
  BY <1>2, <1>4, <1>8, <1>9, <1>10

\* The last move and the insertion.
LEMMA FinishInsertEffect ==
  ASSUME MapInv, NEW t \in Threads, FinishInsert(t)
  PROVE  \/ \E r : Ends(t, r) /\ Abstract!Effect(call[t], r)
         \/ UNCHANGED <<Contents, call, ret>>
<1>1. th[t].pc # "idle"
  BY DEF FinishInsert, HasMoveLocks, At
<1>2. CASE FoundIn(Moved(t), t)
  <2>1. Duplicated(t)
    BY <1>2 DEF FinishInsert
  <2> QED
    BY <1>1, <1>2, <2>1, FinishedValue, DuplicateEffect
<1>3. CASE ~ FoundIn(Moved(t), t)
  <2>1. Ends(t, Result("ok", NoVal))
    BY <1>1, <1>3, InCall DEF FinishInsert, Ends
  <2>2. Abstract!Effect(call[t], Result("ok", NoVal))
    BY <1>3, FinishedValue, InsertedEffect
  <2> QED
    BY <2>1, <2>2
<1> QED
  BY <1>2, <1>3

\* clear empties the map.
LEMMA ClearedValue ==
  ASSUME NEW t \in Threads, Clear(t)
  PROVE  Contents' = [k \in Keys |-> NoVal]
<1> DEFINE new == [i \in DOMAIN buckets |-> EmptyBucket]
<1>1. buckets' = new
  BY DEF Clear
<1>2. \A i \in DOMAIN new, s \in Slots : new[i][s] = Vacant
  BY DEF EmptyBucket
<1> HIDE DEF new
<1>3. OccupiedIn(new) = {}
  BY <1>2 DEF OccupiedIn
<1>4. ContentsOf(new) = [k \in Keys |-> NoVal]
  BY <1>3, Zenon DEF ContentsOf
<1> QED
  BY <1>1, <1>4, ContentsDef

\* clear.
LEMMA ClearEffect ==
  ASSUME MapInv, NEW t \in Threads, Clear(t)
  PROVE  \E r : Ends(t, r) /\ Abstract!Effect(call[t], r)
<1> DEFINE c == call[t]
<1>1. th[t].pc # "idle" /\ c.op = "clear"
  BY DEF Clear, HasBuckets, At, Op
<1>2. Ends(t, Result("ok", NoVal))
  BY <1>1, InCall DEF Clear, Ends
<1>3. Contents' = [k \in Keys |-> NoVal]
  BY ClearedValue
<1> HIDE DEF c
<1>4. Abstract!Effect(c, Result("ok", NoVal))
  BY <1>1, <1>3, Zenon DEF Abstract!Effect, Abstract!Outcome, Result
<1> QED
  BY <1>2, <1>4 DEF c
-----------------------------------------------------------------------------
(***************************************************************************)
(* Resizing keeps the map.                                                 *)
(***************************************************************************)

\* Both tables of a step hold each key once.
LEMMA TablesOfStep ==
  ASSUME MapInv, MapInv'
  PROVE  /\ buckets \in Tables(hashpower) /\ UniqueInv(buckets)
         /\ buckets' \in Tables(hashpower') /\ UniqueInv(buckets')
         /\ DOMAIN buckets = InTable(hashpower) /\ DOMAIN buckets' = InTable(hashpower')
<1>1. /\ buckets \in Tables(hashpower) /\ UniqueInv(buckets)
      /\ buckets' \in Tables(hashpower') /\ UniqueInv(buckets')
  BY DEF MapInv, TableOK, DataInv
<1> QED
  BY <1>1 DEF Tables

\* A step after which the table has the same items has not changed the map.
LEMMA SameContents ==
  ASSUME MapInv, MapInv',
         \A i \in InTable(hashpower), s \in Slots : buckets[i][s] # Vacant =>
           \E j \in InTable(hashpower'), r \in Slots : buckets'[j][r] = buckets[i][s],
         \A j \in InTable(hashpower'), r \in Slots : buckets'[j][r] # Vacant =>
           \E i \in InTable(hashpower), s \in Slots : buckets[i][s] = buckets'[j][r]
  PROVE  Contents' = Contents
<1> DEFINE old == buckets
           new == buckets'
           h1 == hashpower
           h2 == hashpower'
<1>1. /\ old \in Tables(h1) /\ UniqueInv(old) /\ new \in Tables(h2) /\ UniqueInv(new)
      /\ DOMAIN old = InTable(h1) /\ DOMAIN new = InTable(h2)
  BY TablesOfStep
<1>2. /\ \A i \in InTable(h1), s \in Slots : old[i][s] # Vacant =>
           \E j \in InTable(h2), r \in Slots : new[j][r] = old[i][s]
      /\ \A j \in InTable(h2), r \in Slots : new[j][r] # Vacant =>
           \E i \in InTable(h1), s \in Slots : old[i][s] = new[j][r]
  OBVIOUS
<1>3. Contents = ContentsOf(old) /\ Contents' = ContentsOf(new)
  BY ContentsDef
<1> HIDE DEF old, new, h1, h2
<1>4. ASSUME NEW w \in AnyItem
      PROVE  Holds(old, w) <=> Holds(new, w)
  <2>1. ASSUME Holds(old, w) PROVE Holds(new, w)
    BY <1>1, <1>2, <2>1 DEF Holds
  <2>2. ASSUME Holds(new, w) PROVE Holds(old, w)
    BY <1>1, <1>2, <2>2 DEF Holds
  <2> QED
    BY <2>1, <2>2
<1>5. ContentsOf(new) = ContentsOf(old)
  BY <1>1, <1>4, SameMap
<1> QED
  BY <1>3, <1>5

\* The buckets_ vector is doubled.
LEMMA ResizeSame ==
  ASSUME HashPowers = Nat, MapInv, MapInv', NEW t \in Threads, Resize(t)
  PROVE  Contents' = Contents
<1> DEFINE hp == hashpower
           n == hashsize(hp)
<1>1. hashpower' = hp + 1 /\ hp \in Nat /\ DOMAIN buckets = InTable(hp)
  <2>1. ControlInv /\ hp \in Nat
    BY HashPowersAssumption DEF MapInv, ControlInv, LocksInv, LocksTypeOK
  <2>2. hashpower' = hp + 1
    BY <2>1, ResizeControl
  <2> QED
    BY <2>1, <2>2, TablesOfStep
<1>2. /\ n \in Nat /\ n > 0 /\ Cardinality(InTable(hp)) = n /\ hashsize(hp + 1) = 2 * n
  <2> HIDE DEF hp
  <2> QED
    BY <1>1, TableSize
<1>3. buckets' = [i \in 0 .. 2 * n - 1 |-> IF i < n THEN buckets[i] ELSE EmptyBucket]
  BY <1>1, <1>2 DEF Resize
<1>4. InTable(hp + 1) = 0 .. 2 * n - 1 /\ InTable(hp) = 0 .. n - 1
  BY <1>2 DEF InTable
<1> HIDE DEF n
<1>5. /\ \A i \in InTable(hp) : i \in InTable(hp + 1) /\ buckets'[i] = buckets[i]
      /\ \A i \in InTable(hp + 1) : i \in InTable(hp) \/ buckets'[i] = EmptyBucket
  BY <1>2, <1>3, <1>4
<1>6. \A s \in Slots : EmptyBucket[s] = Vacant
  BY DEF EmptyBucket
<1>7. ASSUME NEW i \in InTable(hashpower), NEW s \in Slots
      PROVE  \E j \in InTable(hashpower'), r \in Slots : buckets'[j][r] = buckets[i][s]
  BY <1>1, <1>5
<1>8. ASSUME NEW j \in InTable(hashpower'), NEW r \in Slots, buckets'[j][r] # Vacant
      PROVE  \E i \in InTable(hashpower), s \in Slots : buckets[i][s] = buckets'[j][r]
  BY <1>1, <1>5, <1>6, <1>8
<1> QED
  BY <1>7, <1>8, SameContents

\* The items that move up take different slots of the new bucket.
LEMMA RanksDiffer ==
  ASSUME NEW S \in SUBSET Slots, NEW m \in S
  PROVE  /\ Cardinality({q \in S : q < m}) \in Slots
         /\ \A k \in S : Cardinality({q \in S : q < k}) = Cardinality({q \in S : q < m})
                           => k = m
<1> DEFINE below(x) == {q \in S : q < x}
<1>1. IsFiniteSet(Slots)
  BY SlotsFinite
<1>2. IsFiniteSet(S) /\ \A x \in S : x \in Nat
  <2>1. IsFiniteSet(S)
    BY <1>1, FS_Subset
  <2> QED
    BY <2>1 DEF Slots
<1>3. ASSUME NEW x PROVE IsFiniteSet(below(x)) /\ Cardinality(below(x)) \in Nat
  <2> DEFINE B == below(x)
  <2>1. B \in SUBSET S
    OBVIOUS
  <2> HIDE DEF B
  <2>2. IsFiniteSet(B) /\ Cardinality(B) \in Nat
    BY <1>2, <2>1, FS_Subset, FS_CardinalityType
  <2> QED
    BY <2>2 DEF B
<1>4. Cardinality(below(m)) \in Slots
  <2> DEFINE B == below(m)
             I == 0 .. m - 1
  <2>1. m \in Nat /\ m <= SLOT_PER_BUCKET - 1
    BY <1>2, SlotAssumption DEF Slots
  <2>2. IsFiniteSet(I) /\ Cardinality(I) = m
    <3> DEFINE e == m - 1
    <3>1. e \in Int
      BY <2>1
    <3> HIDE DEF e
    <3>2. IsFiniteSet(0 .. e) /\ Cardinality(0 .. e) = IF 0 > e THEN 0 ELSE e - 0 + 1
      BY <3>1, FS_Interval
    <3>3. Cardinality(0 .. e) = m
      BY <2>1, <3>2 DEF e
    <3> QED
      BY <3>2, <3>3 DEF e
  <2>3. B \in SUBSET I
    <3> SUFFICES ASSUME NEW q \in S, q < m PROVE q \in I
      OBVIOUS
    <3>1. q \in Nat
      BY <1>2
    <3> QED
      BY <2>1, <3>1
  <2> HIDE DEF B, I
  <2>4. Cardinality(B) <= Cardinality(I)
    BY <2>2, <2>3, FS_Subset
  <2>5. Cardinality(B) \in Nat
    BY <1>3 DEF B
  <2>6. Cardinality(B) \in Slots
    BY <2>1, <2>2, <2>4, <2>5, SlotAssumption DEF Slots
  <2> QED
    BY <2>6 DEF B
<1>5. ASSUME NEW x \in S, NEW y \in S, x < y
      PROVE  Cardinality(below(x)) # Cardinality(below(y))
  <2> DEFINE A == below(x)
             B == below(y)
  <2>1. A \in SUBSET B /\ x \in B /\ x \notin A
    BY <1>2, <1>5
  <2>2. IsFiniteSet(B)
    BY <1>3
  <2> HIDE DEF A, B
  <2>3. Cardinality(B) = Cardinality(A) => B = A
    BY <2>1, <2>2, FS_Subset
  <2>4. Cardinality(A) # Cardinality(B)
    BY <2>1, <2>3
  <2> QED
    BY <2>4 DEF A, B
<1>6. ASSUME NEW k \in S, Cardinality(below(k)) = Cardinality(below(m))
      PROVE  k = m
  <2>1. k \in Nat /\ m \in Nat
    BY <1>2
  <2>2. ~ k < m /\ ~ m < k
    BY <1>5, <1>6
  <2> QED
    BY <2>1, <2>2
<1> QED
  BY <1>4, <1>6

\* move_buckets takes the items of one lock to their new buckets.
LEMMA MoveBucketsSame ==
  ASSUME MapInv, MapInv', NEW t \in Threads, NEW l \in Locks, MoveBuckets(t, l)
  PROVE  Contents' = Contents
<1> DEFINE hp == th[t].hp
           n == hashsize(hp)
           old == OldBuckets(hp, l)
           new == AfterMove(hp, l)
<1>1. ControlInv /\ TableOK /\ DataInv /\ At(t, "drain") /\ l \in th[t].todo
  BY DEF MapInv, MoveBuckets
<1>2. hashpower' = hashpower /\ hashpower = hp + 1
  BY <1>1, MoveBucketsControl
<1>3. hp \in Nat
  BY <1>1, ThreadFacts DEF Locals
<1>4. /\ n \in Nat /\ n > 0 /\ InTable(hp) = 0 .. n - 1 /\ InTable(hashpower) = 0 .. 2 * n - 1
  <2>1. n \in Nat /\ n > 0 /\ hashsize(hp + 1) = 2 * n
    <3> HIDE DEF hp
    <3> QED
      BY <1>3, TableSize
  <2> QED
    BY <1>2, <2>1 DEF InTable
<1>5. DOMAIN buckets = InTable(hashpower)
  BY <1>1 DEF TableOK, Tables
<1>6. buckets' = new
  BY DEF MoveBuckets, AfterMove
<1>7. \A i \in old : i \in InTable(hp) /\ i \in InTable(hashpower) /\ i + n \in InTable(hashpower)
                     /\ InTodo(t, i)
  BY <1>1, <1>4 DEF InTodo, OldBuckets, At
<1>8. \A i \in old, s \in Slots : buckets[i + n][s] = Vacant
  BY <1>1, <1>5, <1>7 DEF DataInv, UpperVacant
<1>9. \A i \in InTable(hashpower), s \in Slots : new[i][s] # Vacant =>
        \E j \in InTable(hashpower), r \in Slots : new[i][s] = buckets[j][r]
  <2> HIDE DEF hp
  <2>1. \A i \in InTable(hashpower), s \in Slots : new[i][s] # Vacant =>
          \E j \in InTable(hashpower), r \in Slots :
            CameFrom(hp, l, i, s, j, r) /\ new[i][s] = buckets[j][r]
    BY <1>1, <1>2, <1>3, <1>8, MoveOrigin
  <2> QED
    BY <2>1
<1>10. ASSUME NEW j \in InTable(hashpower), NEW r \in Slots, buckets[j][r] # Vacant
       PROVE  \E i \in InTable(hashpower), s \in Slots : new[i][s] = buckets[j][r]
  <2>1. CASE j \in old /\ r \notin MovingSlots(hp, j)
    <3>1. new[j] = LeftBehind(hp, j)
      <4>1. j - n \notin old
        <5>1. j \in 0 .. n - 1 /\ \A i \in old : i \in 0 .. n - 1
          BY <1>4, <1>7, <2>1
        <5> QED
          BY <1>4, <5>1
      <4> HIDE DEF n, old
      <4> QED
        BY <1>5, <2>1, <4>1 DEF AfterMove, n, old
    <3>2. new[j][r] = buckets[j][r]
      BY <2>1, <3>1 DEF LeftBehind
    <3> QED
      BY <3>2
  <2>2. CASE j \in old /\ r \in MovingSlots(hp, j)
    <3> DEFINE moving == MovingSlots(hp, j)
               rank(q) == Cardinality({x \in moving : x < q})
               s == rank(r)
               m == CHOOSE q \in moving : rank(q) = s
    <3>1. moving \in SUBSET Slots /\ r \in moving
      BY <2>2 DEF MovingSlots
    <3>2. s \in Slots /\ \A q \in moving : rank(q) = s => q = r
      <4> HIDE DEF moving
      <4> QED
        BY <3>1, RanksDiffer
    <3>3. \E q \in moving : rank(q) = s
      BY <3>1
    <3>4. m \in moving /\ rank(m) = s
      BY <3>3
    <3>5. m = r
      BY <3>2, <3>4
    <3>6. MovedUp(hp, j)[s] = buckets[j][m]
      BY <3>2, <3>3 DEF MovedUp
    <3>7. new[j + n] = MovedUp(hp, j)
      <4>1. j + n \in DOMAIN buckets /\ j + n \notin old /\ (j + n) - n = j
        <5>1. j \in 0 .. n - 1 /\ \A i \in old : i \in 0 .. n - 1
          BY <1>4, <1>7, <2>2
        <5>2. j + n \notin old
          BY <1>4, <5>1
        <5> QED
          BY <1>4, <1>5, <1>7, <2>2, <5>1, <5>2
      <4> HIDE DEF n, old
      <4> QED
        BY <2>2, <4>1 DEF AfterMove, n, old
    <3> HIDE DEF new, m, s
    <3>8. new[j + n][s] = buckets[j][r]
      BY <3>5, <3>6, <3>7
    <3> QED
      BY <1>7, <2>2, <3>2, <3>8
  <2>3. CASE j \notin old /\ j - n \notin old
    <3>1. new[j] = buckets[j]
      BY <1>5, <2>3 DEF AfterMove
    <3> HIDE DEF new
    <3> QED
      BY <3>1
  <2>4. CASE j \notin old /\ j - n \in old
    <3>1. (j - n) + n = j
      BY <1>4
    <3> HIDE DEF n, old
    <3>2. buckets[j][r] = Vacant
      BY <1>8, <2>4, <3>1
    <3> QED
      BY <1>10, <3>2
  <2> QED
    BY <2>1, <2>2, <2>3, <2>4
<1> HIDE DEF new
<1> QED
  BY <1>2, <1>6, <1>9, <1>10, SameContents

\* A layout of a map holds the items of the map, and no others.
LEMMA LayoutHolds ==
  ASSUME NEW h \in Nat, NEW map, DOMAIN map \subseteq Keys,
         \A k \in DOMAIN map : map[k] \in Vals, NEW bs \in Layouts(h, map)
  PROVE  /\ \A k \in DOMAIN map : \E i \in InTable(h), s \in Slots : bs[i][s] = Item(k, map[k])
         /\ \A i \in InTable(h), s \in Slots : bs[i][s] # Vacant => bs[i][s].key \in DOMAIN map
<1> DEFINE place(f, k) == <<TwoBuckets(h, Hash[k])[f[k][1]], f[k][2]>>
           injective(f) == \A j, k \in DOMAIN map : place(f, j) = place(f, k) => j = k
           layout(f) ==
             [i \in InTable(h) |-> [s \in Slots |->
                IF \E k \in DOMAIN map : place(f, k) = <<i, s>>
                  THEN LET k == CHOOSE k \in DOMAIN map : place(f, k) = <<i, s>>
                       IN  Item(k, map[k])
                  ELSE Vacant]]
<1>1. PICK f \in [DOMAIN map -> {1, 2} \X Slots] : bs = layout(f) /\ injective(f)
  BY DEF Layouts, InTable
<1>2. ASSUME NEW i \in InTable(h), NEW s \in Slots, bs[i][s] # Vacant
      PROVE  bs[i][s].key \in DOMAIN map
  <2>1. \E k \in DOMAIN map : place(f, k) = <<i, s>>
    BY <1>1, <1>2
  <2> DEFINE k == CHOOSE k \in DOMAIN map : place(f, k) = <<i, s>>
  <2>2. k \in DOMAIN map /\ bs[i][s] = Item(k, map[k])
    BY <1>1, <2>1
  <2> HIDE DEF k
  <2> QED
    BY <2>2 DEF Item
<1>3. ASSUME NEW k \in DOMAIN map
      PROVE  \E i \in InTable(h), s \in Slots : bs[i][s] = Item(k, map[k])
  <2> DEFINE hash == Hash[k]
             i == TwoBuckets(h, hash)[f[k][1]]
             s == f[k][2]
  <2>1. hash \in Nat /\ f[k] \in {1, 2} \X Slots
    BY HashAssumption
  <2>2. i \in InTable(h) /\ s \in Slots
    <3>1. f[k][1] \in {1, 2} /\ s \in Slots
      BY <2>1
    <3>2. TwoBuckets(h, hash)[1] \in InTable(h) /\ TwoBuckets(h, hash)[2] \in InTable(h)
      <4> HIDE DEF hash
      <4> QED
        BY <2>1, TwoBucketsType DEF InTable
    <3> QED
      BY <3>1, <3>2
  <2>3. place(f, k) = <<i, s>>
    OBVIOUS
  <2> HIDE DEF i, s
  <2> DEFINE m == CHOOSE j \in DOMAIN map : place(f, j) = <<i, s>>
  <2>4. m \in DOMAIN map /\ place(f, m) = <<i, s>> /\ bs[i][s] = Item(m, map[m])
    BY <1>1, <2>2, <2>3
  <2>5. m = k
    BY <1>1, <2>3, <2>4
  <2> HIDE DEF m
  <2> QED
    BY <2>2, <2>4, <2>5
<1> QED
  BY <1>2, <1>3

\* cuckoo_expand_simple puts every item into the new table.
LEMMA ExpandSimpleSame ==
  ASSUME HashPowers = Nat, MapInv, MapInv', NEW t \in Threads, ExpandSimple(t)
  PROVE  Contents' = Contents
<1> DEFINE bs == buckets'
           map == Items
<1>1. PICK h \in Nat : bs \in Layouts(h, map) /\ hashpower' = h
  BY DEF ExpandSimple, set_hashpower
<1>2. DOMAIN map \subseteq Keys /\ \A k \in DOMAIN map : map[k] \in Vals
  BY ItemsFacts DEF MapInv
<1>3. bs \in Tables(h) /\ UniqueInv(bs)
  BY <1>1, TablesOfStep
<1>4. /\ Contents = ContentsOf(buckets) /\ Contents' = ContentsOf(bs)
      /\ ContentsOf(buckets) \in [Keys -> Vals \union {NoVal}]
  BY TablesOfStep, ContentsDef, ContentsFacts
<1>5. /\ \A k \in Keys : k \in DOMAIN map <=> Contents[k] # NoVal
      /\ \A k \in DOMAIN map : map[k] = Contents[k]
  BY DEF Items
<1> HIDE DEF bs, map
<1>6. /\ \A k \in DOMAIN map : \E i \in InTable(h), s \in Slots : bs[i][s] = Item(k, map[k])
      /\ \A i \in InTable(h), s \in Slots : bs[i][s] # Vacant => bs[i][s].key \in DOMAIN map
  BY <1>1, <1>2, LayoutHolds
<1>7. ASSUME NEW k \in Keys PROVE ContentsOf(bs)[k] = Contents[k]
  <2>1. CASE k \in DOMAIN map
    <3>1. PICK i \in InTable(h), s \in Slots : bs[i][s] = Item(k, map[k])
      BY <1>6, <2>1
    <3>2. bs[i][s] # Vacant /\ bs[i][s].key = k /\ bs[i][s].val = map[k]
      BY <1>2, <2>1, <3>1, VacantAssumption DEF Item
    <3>3. ContentsOf(bs)[bs[i][s].key] = bs[i][s].val
      BY <1>1, <1>3, <3>2, ContentsFacts
    <3> QED
      BY <1>5, <2>1, <3>2, <3>3
  <2>2. CASE k \notin DOMAIN map
    <3>1. \A i \in InTable(h), s \in Slots : bs[i][s] # Vacant => bs[i][s].key # k
      BY <1>6, <2>2
    <3>2. ContentsOf(bs)[k] = NoVal
      BY <1>1, <1>3, <3>1, ContentsFacts
    <3> QED
      BY <1>5, <2>2, <3>2
  <2> QED
    BY <2>1, <2>2
<1>8. ContentsOf(bs) \in [Keys -> Vals \union {NoVal}]
  BY <1>3, ContentsFacts
<1>9. ContentsOf(bs) = ContentsOf(buckets)
  BY <1>4, <1>7, <1>8
<1> QED
  BY <1>4, <1>9

-----------------------------------------------------------------------------
(***************************************************************************)
(* The steps that leave the table alone.                                   *)
(***************************************************************************)

\* The call of thread t takes effect and returns, or nothing that its caller can see
\* happens.
TakesEffect(t) ==
  \/ \E r : Ends(t, r) /\ Abstract!Effect(call[t], r)
  \/ UNCHANGED <<Contents, call, ret>>

\* The map is what is in the table.
LEMMA SameTable == ASSUME UNCHANGED table PROVE Contents' = Contents
BY ContentsDef DEF table

\* A call that may only be in certain operations at the place where its thread is.
LEMMA OpsHere ==
  ASSUME MapInv, NEW t \in Threads, th[t].pc # "idle"
  PROVE  call[t] # NoCall /\ call[t].op \in OpsAt(th[t].pc)
BY ThreadFacts DEF MapInv, CallOK

\* A call that the table refuses, or that resizes it, returns without an effect.
LEMMA ResizingEffect ==
  ASSUME NEW c, Contents' = Contents, NEW st,
         \/ /\ c.op \in InsertOps \union {"rehash", "reserve"}
            /\ st \in {"load_factor_too_low", "maximum_hashpower_exceeded"}
         \/ c.op \in {"rehash", "reserve"} /\ st \in {"ok", "failure"}
  PROVE  Abstract!Effect(c, Result(st, NoVal))
<1> DEFINE r == Result(st, NoVal)
<1>1. CASE c.op \in {"rehash", "reserve"}
  <2>1. r \in Abstract!Thrown \union {Abstract!Outcome("ok", NoVal),
                                      Abstract!Outcome("failure", NoVal)}
    <3>1. st \in {"load_factor_too_low", "maximum_hashpower_exceeded", "ok", "failure"}
      OBVIOUS
    <3> QED
      BY <3>1 DEF Abstract!Thrown, Abstract!Outcome, Result
  <2> HIDE DEF r
  <2>2. CASE c.op = "rehash"
    BY <2>1, <2>2, Zenon DEF r, Abstract!Effect, Abstract!Keeps
  <2>3. CASE c.op = "reserve"
    BY <2>1, <2>3, Zenon DEF r, Abstract!Effect, Abstract!Keeps
  <2> QED
    BY <1>1, <2>2, <2>3
<1>2. CASE c.op \in InsertOps
  <2>1. r \in Abstract!Thrown
    <3>1. st \in {"load_factor_too_low", "maximum_hashpower_exceeded"}
      BY <1>2 DEF InsertOps
    <3> QED
      BY <3>1 DEF Abstract!Thrown, Abstract!Outcome, Result
  <2> HIDE DEF r
  <2>2. CASE c.op = "insert"
    BY <2>1, <2>2, Zenon DEF r, Abstract!Effect, Abstract!Keeps
  <2>3. CASE c.op = "upsert"
    BY <2>1, <2>3, Zenon DEF r, Abstract!Effect, Abstract!Keeps
  <2>4. CASE c.op = "assign"
    BY <2>1, <2>4, Zenon DEF r, Abstract!Effect, Abstract!Keeps
  <2> QED
    BY <1>2, <2>2, <2>3, <2>4 DEF InsertOps
<1> QED
  BY <1>1, <1>2

\* The two limits, and lock_table.
LEMMA LimitEffect ==
  ASSUME NEW c, Contents' = Contents, NEW st,
         \/ /\ c.op = "minimum_load_factor"
            /\ st = IF c.n \in 0 .. 100 THEN "ok" ELSE "invalid_argument"
         \/ c.op \in {"maximum_hashpower", "lock_table"} /\ st = "ok"
  PROVE  Abstract!Effect(c, Result(st, NoVal))
<1>1. CASE c.op = "minimum_load_factor"
  <2>1. st = IF c.n \in 0 .. 100 THEN "ok" ELSE "invalid_argument"
    BY <1>1
  <2> QED
    BY <1>1, <2>1, Zenon DEF Abstract!Effect, Abstract!Keeps, Abstract!Outcome, Result
<1>2. CASE c.op = "maximum_hashpower"
  <2>1. st = "ok"
    BY <1>2
  <2> QED
    BY <1>2, <2>1, Zenon DEF Abstract!Effect, Abstract!Keeps, Abstract!Outcome, Result
<1>3. CASE c.op = "lock_table"
  <2>1. st = "ok"
    BY <1>3
  <2> QED
    BY <1>3, <2>1, Zenon DEF Abstract!Effect, Abstract!Keeps, Abstract!Outcome, Result
<1> QED
  BY <1>1, <1>2, <1>3

\* Steps that neither touch the table nor end a call.
LEMMA SilentSteps ==
  ASSUME NEW t \in Threads,
         \/ SnapshotAndLockTwo(t) \/ LockStep(t) \/ LockFailed(t) \/ RunCuckoo(t)
         \/ PeekFailed(t) \/ SearchOn(t) \/ SearchFailed(t) \/ SearchFound(t)
         \/ FollowPath(t) \/ StartMove(t) \/ MoveFailed(t) \/ ReadCounter(t)
         \/ TakeExpansionLock(t) \/ FinishDouble(t) \/ ExpandLockAll(t) \/ StartLockAll(t)
  PROVE  TakesEffect(t)
<1>1. UNCHANGED <<table, interface>>
  BY DEF SnapshotAndLockTwo, LockStep, LockFailed, RunCuckoo, PeekFailed, SearchOn,
         SearchFailed, SearchFound, FollowPath, StartMove, MoveFailed, ReadCounter,
         TakeExpansionLock, FinishDouble, ExpandLockAll, StartLockAll, Peek, Restart,
         Expanded
<1>2. Contents' = Contents
  BY <1>1, SameTable
<1> QED
  BY <1>1, <1>2 DEF TakesEffect, interface

\* size, and the load factor that an insertion compares.
LEMMA SummedEffect ==
  ASSUME MapInv, NEW t \in Threads, SizeReturns(t) \/ CheckLoadFactor(t)
  PROVE  TakesEffect(t)
<1> DEFINE c == call[t]
<1>1. /\ th[t].pc = "sum" /\ c # NoCall /\ c.op \in InsertOps \union {"size"}
  <2>1. th[t].pc = "sum"
    BY DEF SizeReturns, CheckLoadFactor, Summed, At
  <2> QED
    BY <2>1, OpsHere DEF OpsAt
<1>2. Contents' = Contents
  BY SameTable DEF SizeReturns, CheckLoadFactor
<1>3. CASE SizeReturns(t)
  <2> DEFINE r == Result("ok", th[t].acc)
  <2>1. Ends(t, r) /\ c.op = "size"
    BY <1>1, <1>3 DEF SizeReturns, Ends, Op
  <2>2. th[t].acc \in Nat
    BY ThreadFacts DEF MapInv, Locals
  <2>3. r.st = "ok" /\ r.val \in Nat
    BY <2>2 DEF Result
  <2> HIDE DEF r, c
  <2>4. Abstract!Effect(c, r)
    BY <1>2, <2>1, <2>3, Zenon DEF Abstract!Effect
  <2> QED
    BY <2>1, <2>4 DEF TakesEffect, c
<1>4. CASE CheckLoadFactor(t)
  <2>1. c.op \in InsertOps
    BY <1>1, <1>4 DEF CheckLoadFactor, Op
  <2>2. CASE Return(t, Result("load_factor_too_low", NoVal))
    <3>1. Ends(t, Result("load_factor_too_low", NoVal))
      BY <1>1, <2>2 DEF Ends
    <3>2. Abstract!Effect(c, Result("load_factor_too_low", NoVal))
      BY <1>2, <2>1, ResizingEffect
    <3> QED
      BY <3>1, <3>2 DEF TakesEffect
  <2>3. CASE UNCHANGED interface
    BY <1>2, <2>3 DEF TakesEffect, interface
  <2> QED
    BY <1>4, <2>2, <2>3 DEF CheckLoadFactor
<1> QED
  BY <1>3, <1>4

\* The ways in which an expansion ends the call, or does not.
LEMMA ExpandingEffect ==
  ASSUME MapInv, NEW t \in Threads,
         \/ FastDouble(t) \/ Rehash(t) \/ ExpandTooLarge(t) \/ ExpandOvertaken(t)
         \/ ExpandUnlock(t)
  PROVE  TakesEffect(t)
<1> DEFINE c == call[t]
           R(st) == Result(st, NoVal)
<1>1. /\ th[t].pc \in {"double", "rehash", "expand", "rebuild", "rebuilt"}
      /\ FastDouble(t) => th[t].pc = "double"
      /\ Rehash(t) => th[t].pc = "rehash"
  BY DEF FastDouble, Rehash, ExpandTooLarge, ExpandOvertaken, ExpandUnlock, At
<1>2. c # NoCall /\ c.op \in InsertOps \union {"rehash", "reserve"}
  BY <1>1, OpsHere DEF OpsAt
<1>3. Rehash(t) => c.op \in {"rehash", "reserve"}
  BY <1>1, OpsHere DEF OpsAt
<1>4. Contents' = Contents
  BY SameTable DEF FastDouble, Rehash, ExpandTooLarge, ExpandOvertaken, ExpandUnlock
<1>5. \/ UNCHANGED interface
      \/ Return(t, R("maximum_hashpower_exceeded"))
      \/ c.op \in {"rehash", "reserve"} /\ Return(t, R("failure"))
      \/ c.op \in {"rehash", "reserve"} /\ Return(t, R("ok"))
  BY <1>3 DEF FastDouble, Rehash, ExpandTooLarge, ExpandOvertaken, ExpandUnlock,
              ThrowTooLarge, ExpandReturns, Expanded, Restart, Op
<1>6. CASE UNCHANGED interface
  BY <1>4, <1>6 DEF TakesEffect, interface
<1>7. ASSUME NEW st \in {"maximum_hashpower_exceeded", "failure", "ok"}, Return(t, R(st)),
             st # "maximum_hashpower_exceeded" => c.op \in {"rehash", "reserve"}
      PROVE  TakesEffect(t)
  <2>1. Ends(t, R(st))
    BY <1>2, <1>7 DEF Ends
  <2>2. Abstract!Effect(c, R(st))
    <3> HIDE DEF c
    <3> QED
      BY <1>2, <1>4, <1>7, ResizingEffect
  <2> QED
    BY <2>1, <2>2 DEF TakesEffect
<1> QED
  BY <1>5, <1>6, <1>7

\* locked_table is released, or a limit is set.
LEMMA LimitsEffect ==
  ASSUME MapInv, NEW t \in Threads, ReleaseLockedTable(t) \/ SetLimit(t)
  PROVE  TakesEffect(t)
<1> DEFINE c == call[t]
           R(st) == Result(st, NoVal)
<1>1. th[t].pc \in {"locked", "op"} /\ (ReleaseLockedTable(t) => th[t].pc = "locked")
  BY DEF ReleaseLockedTable, SetLimit, At
<1>2. c # NoCall /\ (ReleaseLockedTable(t) => c.op = "lock_table")
  BY <1>1, OpsHere DEF OpsAt
<1>3. Contents' = Contents
  BY SameTable DEF ReleaseLockedTable, SetLimit
<1>4. \E st : /\ Return(t, R(st))
              /\ \/ /\ c.op = "minimum_load_factor"
                    /\ st = IF c.n \in 0 .. 100 THEN "ok" ELSE "invalid_argument"
                 \/ c.op \in {"maximum_hashpower", "lock_table"} /\ st = "ok"
  <2>1. CASE ReleaseLockedTable(t)
    BY <1>2, <2>1 DEF ReleaseLockedTable
  <2>2. CASE SetLimit(t) /\ c.op = "minimum_load_factor"
    BY <2>2 DEF SetLimit, ValidLoadFactor, Op
  <2>3. CASE SetLimit(t) /\ c.op # "minimum_load_factor"
    BY <2>3 DEF SetLimit, Op
  <2> QED
    BY <2>1, <2>2, <2>3
<1>5. PICK st : /\ Return(t, R(st))
                /\ \/ /\ c.op = "minimum_load_factor"
                      /\ st = IF c.n \in 0 .. 100 THEN "ok" ELSE "invalid_argument"
                   \/ c.op \in {"maximum_hashpower", "lock_table"} /\ st = "ok"
  BY <1>4
<1>6. Ends(t, R(st))
  BY <1>2, <1>5 DEF Ends
<1> HIDE DEF c
<1>7. Abstract!Effect(c, R(st))
  BY <1>3, <1>5, LimitEffect
<1> QED
  BY <1>6, <1>7 DEF TakesEffect, c

-----------------------------------------------------------------------------
(***************************************************************************)
(* The table implements the abstract map.                                  *)
(***************************************************************************)

\* Every step of a call takes effect, or is not seen by the caller.
LEMMA EffectOfStep ==
  ASSUME HashPowers = Nat, MapInv, MapInv', NEW t \in Threads, Step(t)
  PROVE  TakesEffect(t)
<1>1. CASE Lookup(t) \/ Erase(t) \/ Update(t) \/ InsertIntoBucket(t) \/ Clear(t)
  BY <1>1, LookupEffect, EraseEffect, UpdateEffect, InsertEffect, ClearEffect
     DEF TakesEffect
<1>2. CASE InsertDuplicate(t) \/ FinishInsert(t)
  BY <1>2, InsertDuplicateEffect, FinishInsertEffect DEF TakesEffect
<1>3. CASE SizeReturns(t) \/ CheckLoadFactor(t)
  BY <1>3, SummedEffect
<1>4. CASE FastDouble(t) \/ Rehash(t) \/ ExpandTooLarge(t) \/ ExpandOvertaken(t)
           \/ ExpandUnlock(t)
  BY <1>4, ExpandingEffect
<1>5. CASE ReleaseLockedTable(t) \/ SetLimit(t)
  BY <1>5, LimitsEffect
<1>6. CASE MoveOn(t)
  <2>1. Contents' = Contents
    BY <1>6, MovedSame, ContentsDef DEF MoveOn
  <2> QED
    BY <1>6, <2>1 DEF TakesEffect, MoveOn, interface
<1>7. CASE Resize(t)
  <2>1. Contents' = Contents
    BY <1>7, ResizeSame
  <2> QED
    BY <1>7, <2>1 DEF TakesEffect, Resize, interface
<1>8. CASE \E l \in Locks : MoveBuckets(t, l)
  <2>1. PICK l \in Locks : MoveBuckets(t, l)
    BY <1>8
  <2>2. Contents' = Contents
    BY <2>1, MoveBucketsSame
  <2> QED
    BY <2>1, <2>2 DEF TakesEffect, MoveBuckets, interface
<1>9. CASE ExpandSimple(t)
  <2>1. Contents' = Contents
    BY <1>9, ExpandSimpleSame
  <2> QED
    BY <1>9, <2>1 DEF TakesEffect, ExpandSimple, interface
<1>10. CASE SnapshotAndLockTwo(t) \/ LockStep(t) \/ LockFailed(t) \/ RunCuckoo(t)
         \/ PeekFailed(t) \/ SearchOn(t) \/ SearchFailed(t) \/ SearchFound(t)
         \/ FollowPath(t) \/ StartMove(t) \/ MoveFailed(t) \/ ReadCounter(t)
         \/ TakeExpansionLock(t) \/ FinishDouble(t) \/ ExpandLockAll(t) \/ StartLockAll(t)
  BY <1>10, SilentSteps
<1> QED
  BY <1>1, <1>2, <1>3, <1>4, <1>5, <1>6, <1>7, <1>8, <1>9, <1>10 DEF Step

\* A step without exceptions is a step of the abstract map, whether or not that one knows
\* exceptions.
LEMMA LinearStep ==
  ASSUME HashPowers = Nat, MapInv, MapInv', RetInv, [MapNext]_mapVars
  PROVE  /\ [Abstract!AbstractNext]_(Abstract!abstractVars)
         /\ [Throwing!AbstractNext]_(Throwing!abstractVars)
<1>1. ASSUME NEW t \in Threads, Step(t)
      PROVE  \/ Abstract!Complete(t) /\ Throwing!Complete(t)
             \/ UNCHANGED <<Contents, call, ret>>
  BY <1>1, EffectOfStep, EndsComplete DEF TakesEffect
<1>2. ASSUME NEW t \in Threads, NEW c \in Calls, Call(t, c)
      PROVE  Abstract!Start(t, c) /\ Throwing!Start(t, c)
  <2>1. Contents' = Contents
    BY <1>2, SameTable DEF Call
  <2> QED
    BY <1>2, <2>1 DEF Call, Abstract!Start, Throwing!Start
<1>3. CASE UNCHANGED mapVars
  <2>1. UNCHANGED <<table, interface>>
    BY <1>3 DEF mapVars
  <2>2. UNCHANGED <<Contents, call, ret>>
    BY <2>1, SameTable DEF interface
  <2> QED
    BY <2>2 DEF Abstract!abstractVars, Throwing!abstractVars
<1>4. CASE MapNext /\ ~ UNCHANGED mapVars
  <2>1. PICK t \in Threads : Step(t) \/ \E c \in Calls : Call(t, c)
    BY <1>4 DEF MapNext, Finished
  <2>2. CASE Step(t)
    BY <1>1, <2>2 DEF Abstract!AbstractNext, Throwing!AbstractNext,
                      Abstract!abstractVars, Throwing!abstractVars
  <2>3. CASE \E c \in Calls : Call(t, c)
    BY <1>2, <2>3 DEF Abstract!AbstractNext, Throwing!AbstractNext
  <2> QED
    BY <2>1, <2>2, <2>3
<1> QED
  BY <1>3, <1>4

\* A call that ends with an exception has left the map alone.
LEMMA ThrowsAbort ==
  ASSUME MapInv, RetInv, NEW t \in Threads,
         \/ EqualThrows(t) \/ EqualThrowsAfterMove(t) \/ ValueThrows(t)
         \/ HashThrowsOnPath(t) \/ HashThrowsInMove(t)
  PROVE  Throwing!Complete(t)
<1>1. th[t].pc # "idle" /\ Return(t, Result(exception, NoVal))
  BY DEF EqualThrows, EqualThrowsAfterMove, ValueThrows, HashThrowsOnPath, HashThrowsInMove,
         HasBuckets, HasMoveLocks, At, Abandon
<1>2. Ends(t, Result(exception, NoVal))
  BY <1>1, InCall DEF Ends
<1>3. CASE EqualThrowsAfterMove(t)
  <2>1. Contents' = Contents
    BY <1>3, MovedSame, ContentsDef DEF EqualThrowsAfterMove
  <2> QED
    BY <1>2, <2>1, EndsAborted
<1>4. CASE ~ EqualThrowsAfterMove(t)
  <2>1. Contents' = Contents
    BY <1>4, SameTable DEF EqualThrows, ValueThrows, HashThrowsOnPath, HashThrowsInMove
  <2> QED
    BY <1>2, <2>1, EndsAborted
<1> QED
  BY <1>3, <1>4

\* Every step of the table, with or without exceptions, is a step of the abstract map that
\* knows exceptions.
LEMMA ThrowingStep ==
  ASSUME HashPowers = Nat, MapInv, MapInv', RetInv, [UserNext]_mapVars
  PROVE  [Throwing!AbstractNext]_(Throwing!abstractVars)
<1>1. CASE [MapNext]_mapVars
  BY <1>1, LinearStep
<1>2. CASE \E t \in Threads :
             \/ EqualThrows(t) \/ EqualThrowsAfterMove(t) \/ ValueThrows(t)
             \/ HashThrowsOnPath(t) \/ HashThrowsInMove(t)
  BY <1>2, ThrowsAbort DEF Throwing!AbstractNext
<1> QED
  BY <1>1, <1>2 DEF UserNext

\* The table starts with a map, and with all threads outside of a call.
LEMMA LinearInit ==
  ASSUME MapInit
  PROVE  Abstract!AbstractInit /\ Throwing!AbstractInit /\ RetInv
<1>1. buckets \in Tables(hashpower) /\ UniqueInv(buckets)
  BY MapInvInit DEF MapInv, TableOK, DataInv
<1>2. ContentsOf(buckets) \in [Keys -> Vals \union {NoVal}]
  BY <1>1, ContentsFacts
<1>3. Contents \in [Keys -> Vals \union {NoVal}]
  BY <1>2, ContentsDef
<1>4. call = [t \in Threads |-> NoCall] /\ ret = [t \in Threads |-> Result("ok", NoVal)]
  BY DEF MapInit
<1> QED
  BY <1>3, <1>4
     DEF Abstract!AbstractInit, Throwing!AbstractInit, RetInv, Result,
         Abstract!Outcome, Throwing!Outcome

\* ret keeps an entry for every thread.
LEMMA RetStep ==
  ASSUME HashPowers = Nat, MapInv, MapInv', RetInv, [UserNext]_mapVars
  PROVE  RetInv'
<1>1. ret' = ret \/ \E t \in Threads : \E r : Return(t, r)
  <2>1. CASE UNCHANGED mapVars
    BY <2>1 DEF mapVars, interface
  <2>2. ASSUME NEW t \in Threads, NEW c \in Calls, Call(t, c) PROVE ret' = ret
    BY <2>2 DEF Call
  <2>3. ASSUME NEW t \in Threads,
               \/ EqualThrows(t) \/ EqualThrowsAfterMove(t) \/ ValueThrows(t)
               \/ HashThrowsOnPath(t) \/ HashThrowsInMove(t)
        PROVE  \E r : Return(t, r)
    BY <2>3 DEF EqualThrows, EqualThrowsAfterMove, ValueThrows, HashThrowsOnPath,
                HashThrowsInMove, Abandon
  <2>4. ASSUME NEW t \in Threads, Step(t) PROVE ret' = ret \/ \E r : Return(t, r)
    BY <2>4, EffectOfStep DEF TakesEffect, Ends
  <2> QED
    BY <2>1, <2>2, <2>3, <2>4 DEF UserNext, MapNext, Finished
<1> QED
  BY <1>1 DEF RetInv, Return

\* The invariants on which the implementation proof rests.
LinearInv == MapInv /\ RetInv

\* LinearInv is kept by every step, with or without exceptions.
LEMMA LinearInvStep ==
  ASSUME HashPowers = Nat, RebuildsOrDoubles, LinearInv, [UserNext]_mapVars
  PROVE  LinearInv'
<1>1. MapInv'
  BY MapInvStep DEF LinearInv
<1> QED
  BY <1>1, RetStep DEF LinearInv

\* The table is a linearizable map: every call takes effect at one instant and returns what
\* that instant calls for, whatever displacements, doublings or rebuilds go on.
THEOREM LinearizableHolds ==
  ASSUME HashPowers = Nat, RebuildsOrDoubles
  PROVE  MapSpec => Linearizable
<1>1. MapInit => LinearInv /\ Abstract!AbstractInit
  BY MapInvInit, LinearInit DEF LinearInv
<1>2. LinearInv /\ [MapNext]_mapVars => LinearInv'
  BY LinearInvStep DEF UserNext
<1>3. LinearInv /\ LinearInv' /\ [MapNext]_mapVars
        => [Abstract!AbstractNext]_(Abstract!abstractVars)
  BY LinearStep DEF LinearInv
<1> QED
  BY <1>1, <1>2, <1>3, PTL DEF MapSpec, Linearizable, Abstract!AbstractSpec

\* It stays one when user code throws: a call that ends with an exception of the hash
\* function, of the equality predicate or of a copied value has had no effect, even if it
\* had already displaced other items.
THEOREM LinearizableWithExceptionsHolds ==
  ASSUME HashPowers = Nat, RebuildsOrDoubles
  PROVE  UserSpec => LinearizableWithExceptions
<1>1. MapInit => LinearInv /\ Throwing!AbstractInit
  BY MapInvInit, LinearInit DEF LinearInv
<1>2. LinearInv /\ [UserNext]_mapVars => LinearInv'
  BY LinearInvStep
<1>3. LinearInv /\ LinearInv' /\ [UserNext]_mapVars
        => [Throwing!AbstractNext]_(Throwing!abstractVars)
  BY ThrowingStep DEF LinearInv
<1> QED
  BY <1>1, <1>2, <1>3, PTL DEF UserSpec, LinearizableWithExceptions, Throwing!AbstractSpec
-----------------------------------------------------------------------------
(***************************************************************************)
(* The counters.                                                           *)
(***************************************************************************)

\* Division with remainder.
LEMMA RemainderFacts ==
  ASSUME NEW a \in Int, NEW m \in Nat, m > 0, NEW q, q = a \div m, NEW r, r = a % m
  PROVE  q \in Int /\ r \in 0 .. m - 1 /\ a = m * q + r
OBVIOUS

\* Remainders are equal if the numbers differ by a multiple.
LEMMA SameRemainder ==
  ASSUME NEW a \in Int, NEW b \in Int, NEW m \in Nat, m > 0
  PROVE  a % m = b % m <=> \E j \in Int : a = b + j * m
<1> DEFINE q == a \div m
           p == b \div m
           r == a % m
           s == b % m
<1>1. /\ q \in Int /\ r \in 0 .. m - 1 /\ a = m * q + r
      /\ p \in Int /\ s \in 0 .. m - 1 /\ b = m * p + s
  BY RemainderFacts
<1> HIDE DEF q, p, r, s
<1>2. ASSUME r = s PROVE \E j \in Int : a = b + j * m
  <2>1. a = b + (q - p) * m /\ q - p \in Int
    BY <1>1, <1>2
  <2> QED
    BY <2>1
<1>3. ASSUME NEW j \in Int, a = b + j * m PROVE r = s
  <2> DEFINE d == q - p - j
  <2>1. d \in Int /\ s - r = m * d
    BY <1>1, <1>3
  <2> HIDE DEF d
  <2>2. d = 0
    <3>1. CASE d >= 1
      <4>1. m * d >= m
        BY <2>1, <3>1
      <4> QED
        BY <1>1, <2>1, <4>1
    <3>2. CASE d <= -1
      <4>1. m * d <= -m
        BY <2>1, <3>2
      <4> QED
        BY <1>1, <2>1, <4>1
    <3> QED
      BY <2>1, <3>1, <3>2
  <2> QED
    BY <1>1, <2>1, <2>2
<1> QED
  BY <1>2, <1>3 DEF r, s

\* There are finitely many locks.
LEMMA LocksFinite == IsFiniteSet(Locks)
<1>1. kNumLocks - 1 \in Int
  BY kNumLocksAssumption
<1> QED
  BY <1>1, FS_Interval DEF Locks

\* f with another value for m.
With(f, m, v) == [f EXCEPT ![m] = v]

\* One value of a sum is changed.
LEMMA SumChanged ==
  ASSUME NEW f \in [Locks -> Int], NEW m \in Locks, NEW v \in Int
  PROVE  /\ SumFunction(f) \in Int
         /\ SumFunction(With(f, m, v)) = SumFunction(f) - f[m] + v
<1> DEFINE g == With(f, m, v)
           rest == Locks \ {m}
<1>1. IsFiniteSet(Locks) /\ IsFiniteSet(rest)
  BY LocksFinite, FS_RemoveElement
<1>2. /\ SumFunction(f) = SumFunctionOnSet(f, Locks)
      /\ SumFunction(g) = SumFunctionOnSet(g, Locks)
  BY DEF SumFunction, With
<1>3. g \in [Locks -> Int] /\ g[m] = v /\ \A l \in rest : g[l] = f[l]
  BY DEF With
<1>4. SumFunctionOnSet(f, Locks) = f[m] + SumFunctionOnSet(f, rest)
  BY <1>1, SumRemove
<1> HIDE DEF g
<1>5. SumFunctionOnSet(g, Locks) = v + SumFunctionOnSet(g, rest)
  <2>1. \A l \in Locks : g[l] \in Int
    BY <1>3
  <2> QED
    BY <1>1, <1>3, <2>1, SumRemove
<1> HIDE DEF rest
<1>6. SumFunctionOnSet(g, rest) = SumFunctionOnSet(f, rest)
  BY <1>1, <1>3, SumSame
<1>7. SumFunctionOnSet(f, rest) \in Int /\ f[m] \in Int /\ SumFunctionOnSet(f, Locks) \in Int
  <2>1. \A l \in rest : f[l] \in Int
    BY DEF rest
  <2>2. SumFunctionOnSet(f, rest) \in Int
    BY <1>1, <2>1, SumType
  <2> QED
    BY <1>4, <2>2
<1> QED
  BY <1>2, <1>3, <1>4, <1>5, <1>6, <1>7 DEF g

\* The keys that are in the map.
Present == {k \in Keys : Contents[k] # NoVal}

\* The counters add up to the number of keys, modulo the size of a counter.
CountInv ==
  \E j \in Int : SumFunction(elems) = Cardinality(Present) + j * SizeMod

\* The counters f with d added to that of lock m.
Plus(f, m, d) == With(f, m, (f[m] + d) % SizeMod)

\* What adding d to the counter of lock m does to the sum of the counters.
LEMMA CounterChanged ==
  ASSUME NEW f \in [Locks -> 0 .. SizeMod - 1], NEW m \in Locks, NEW d \in Int
  PROVE  /\ SumFunction(f) \in Int
         /\ Plus(f, m, d) \in [Locks -> 0 .. SizeMod - 1]
         /\ \E j \in Int :
              SumFunction(Plus(f, m, d))
                = SumFunction(f) + d + j * SizeMod
<1> DEFINE a == f[m] + d
           v == a % SizeMod
           q == a \div SizeMod
<1>1. f \in [Locks -> Int] /\ f[m] \in Int /\ a \in Int /\ SizeMod \in Nat /\ SizeMod > 0
  BY SizeAssumption
<1>2. v \in 0 .. SizeMod - 1 /\ q \in Int /\ a = SizeMod * q + v
  <2> HIDE DEF a
  <2> QED
    BY <1>1
<1>3. a - d = f[m]
  BY <1>1
<1>4. Plus(f, m, d) = With(f, m, v)
  BY DEF Plus
<1> HIDE DEF a, v, q
<1>5. /\ SumFunction(f) \in Int
      /\ SumFunction(With(f, m, v)) = SumFunction(f) - f[m] + v
  <2>1. v \in Int /\ f \in [Locks -> Int]
    BY <1>1, <1>2
  <2> QED
    BY <2>1, SumChanged
<1>6. With(f, m, v) \in [Locks -> 0 .. SizeMod - 1]
  BY <1>2 DEF With
<1>7. SumFunction(f) - f[m] + v = SumFunction(f) + d + (-q) * SizeMod /\ -q \in Int
  <2>1. v = f[m] + d - SizeMod * q
    BY <1>1, <1>2, <1>3
  <2> QED
    BY <1>1, <1>2, <1>5, <2>1
<1> QED
  BY <1>4, <1>5, <1>6, <1>7

\* The keys of a map that gains or loses one.
LEMMA PresentChanged ==
  ASSUME MapInv, IsFiniteSet(Present), NEW k \in Keys, NEW v,
         Contents' = [Contents EXCEPT ![k] = v]
  PROVE  /\ Cardinality(Present) \in Nat
         /\ IsFiniteSet(Present')
         /\ Contents[k] = NoVal /\ v # NoVal =>
              Cardinality(Present') = Cardinality(Present) + 1
         /\ Contents[k] # NoVal /\ v = NoVal =>
              Cardinality(Present') = Cardinality(Present) - 1
<1>1. DOMAIN Contents = Keys
  BY DEF Contents
<1>2. /\ Contents[k] = NoVal /\ v # NoVal => Present' = Present \union {k} /\ k \notin Present
      /\ Contents[k] # NoVal /\ v = NoVal => Present' = Present \ {k} /\ k \in Present
      /\ Present' \subseteq Present \union {k}
  <2> DEFINE C == Contents
  <2>1. Contents' = [C EXCEPT ![k] = v] /\ DOMAIN C = Keys
    BY <1>1
  <2> HIDE DEF C
  <2>2. Present = {j \in Keys : C[j] # NoVal} /\ Present' = {j \in Keys : Contents'[j] # NoVal}
    BY DEF Present, C
  <2>3. \A j \in Keys : Contents'[j] = IF j = k THEN v ELSE C[j]
    BY <2>1
  <2> QED
    BY <2>2, <2>3 DEF C
<1>3. IsFiniteSet(Present \union {k})
  BY FS_AddElement
<1>4. IsFiniteSet(Present')
  BY <1>2, <1>3, FS_Subset
<1>5. Cardinality(Present) \in Nat
  BY FS_CardinalityType
<1> QED
  BY <1>2, <1>4, <1>5, FS_AddElement, FS_RemoveElement

\* There are as many items in the table as keys in the map.
LEMMA PresentCounted ==
  ASSUME MapInv
  PROVE  IsFiniteSet(Present) /\ Cardinality(Occupied) = Cardinality(Present)
<1> DEFINE f == [p \in Occupied |-> ItemAt(p).key]
<1>1. /\ hashpower \in Nat /\ buckets \in Tables(hashpower) /\ UniqueInv(buckets)
      /\ DOMAIN buckets = InTable(hashpower)
  BY HashPowersAssumption
     DEF MapInv, TableOK, DataInv, ControlInv, LocksInv, LocksTypeOK, Tables
<1>2. Occupied = {p \in InTable(hashpower) \X Slots : buckets[p[1]][p[2]] # Vacant}
  BY <1>1 DEF Occupied, Places
<1>3. IsFiniteSet(Occupied)
  <2>1. IsFiniteSet(InTable(hashpower))
    BY <1>1, TableSize
  <2>2. IsFiniteSet(InTable(hashpower) \X Slots)
    BY <2>1, SlotsFinite, FS_Product
  <2> QED
    BY <1>2, <2>2, FS_Subset
<1>4. /\ \A i \in InTable(hashpower), s \in Slots :
           buckets[i][s] # Vacant => Contents[buckets[i][s].key] = buckets[i][s].val
      /\ \A k \in Keys :
           (\A i \in InTable(hashpower), s \in Slots :
              buckets[i][s] # Vacant => buckets[i][s].key # k) => Contents[k] = NoVal
  BY <1>1, ContentsFacts, ContentsDef
<1>5. ASSUME NEW p \in Occupied
      PROVE  f[p] \in Present
  <2>1. p[1] \in InTable(hashpower) /\ p[2] \in Slots /\ buckets[p[1]][p[2]] # Vacant
    BY <1>2
  <2>2. buckets[p[1]][p[2]] \in AnyItem
    BY <1>1, <2>1 DEF Tables
  <2>3. ItemAt(p).key \in Keys /\ ItemAt(p).val \in Vals
    BY <2>2, ItemFacts DEF ItemAt
  <2>4. Contents[ItemAt(p).key] = ItemAt(p).val
    BY <1>4, <2>1 DEF ItemAt
  <2> QED
    BY <2>3, <2>4, ValsAssumption DEF Present
<1>6. \A p, r \in Occupied : f[p] = f[r] => p = r
  BY <1>1, <1>2 DEF UniqueInv, ItemAt
<1>7. ASSUME NEW k \in Present
      PROVE  \E p \in Occupied : f[p] = k
  <2>1. k \in Keys /\ Contents[k] # NoVal
    BY DEF Present
  <2>2. PICK i \in InTable(hashpower), s \in Slots :
          buckets[i][s] # Vacant /\ buckets[i][s].key = k
    BY <1>4, <2>1
  <2>3. <<i, s>> \in Occupied /\ f[<<i, s>>] = k
    BY <1>2, <2>2 DEF ItemAt
  <2> QED
    BY <2>3
<1> HIDE DEF f
<1>8. f \in Bijection(Occupied, Present)
  <2>1. f \in [Occupied -> Present]
    BY <1>5 DEF f
  <2> QED
    BY <1>6, <1>7, <2>1 DEF Bijection, Injection, IsInjective, Surjection
<1>9. ExistsBijection(Occupied, Present)
  BY <1>8 DEF ExistsBijection
<1> QED
  BY <1>3, <1>9, FS_Bijection

\* A step that changes neither the counters nor the keys that are in the map.
LEMMA CountSame ==
  ASSUME CountInv, UNCHANGED <<elems, Present>>
  PROVE  CountInv'
BY DEF CountInv

\* A key is added, and counted.
LEMMA CountUp ==
  ASSUME MapInv, CountInv, NEW m \in Locks, NEW k \in Keys, NEW v \in Vals,
         Contents[k] = NoVal, Contents' = [Contents EXCEPT ![k] = v],
         elems' = Plus(elems, m, 1)
  PROVE  CountInv'
<1>1. IsFiniteSet(Present) /\ elems \in [Locks -> 0 .. SizeMod - 1]
  BY PresentCounted DEF MapInv, TableOK
<1>2. Cardinality(Present) \in Nat /\ Cardinality(Present') = Cardinality(Present) + 1
  BY <1>1, PresentChanged, ValsAssumption
<1>3. PICK j \in Int :
        SumFunction(Plus(elems, m, 1))
          = SumFunction(elems) + 1 + j * SizeMod
  BY <1>1, CounterChanged
<1>4. PICK i \in Int : SumFunction(elems) = Cardinality(Present) + i * SizeMod
  BY DEF CountInv
<1>5. SumFunction(elems') = SumFunction(elems) + 1 + j * SizeMod
  BY <1>3
<1>6. SumFunction(elems') = Cardinality(Present') + (i + j) * SizeMod /\ i + j \in Int
  BY <1>2, <1>4, <1>5, SizeAssumption
<1> QED
  BY <1>6 DEF CountInv

\* A key is removed, and its count.
LEMMA CountDown ==
  ASSUME MapInv, CountInv, NEW m \in Locks, NEW k \in Keys,
         Contents[k] # NoVal, Contents' = [Contents EXCEPT ![k] = NoVal],
         elems' = Plus(elems, m, -1)
  PROVE  CountInv'
<1>1. IsFiniteSet(Present) /\ elems \in [Locks -> 0 .. SizeMod - 1]
  BY PresentCounted DEF MapInv, TableOK
<1>2. Cardinality(Present) \in Nat /\ Cardinality(Present') = Cardinality(Present) - 1
  BY <1>1, PresentChanged
<1>3. PICK j \in Int :
        SumFunction(Plus(elems, m, -1))
          = SumFunction(elems) + (-1) + j * SizeMod
  BY <1>1, CounterChanged
<1>4. PICK i \in Int : SumFunction(elems) = Cardinality(Present) + i * SizeMod
  BY DEF CountInv
<1>5. SumFunction(elems') = SumFunction(elems) + (-1) + j * SizeMod
  BY <1>3
<1>6. SumFunction(elems') = Cardinality(Present') + (i + j) * SizeMod /\ i + j \in Int
  BY <1>2, <1>4, <1>5, SizeAssumption
<1> QED
  BY <1>6 DEF CountInv

\* move_buckets takes from one counter what it gives to another.
LEMMA CountMoved ==
  ASSUME MapInv, CountInv, NEW t \in Threads, NEW l \in Locks, MoveBuckets(t, l),
         Contents' = Contents
  PROVE  CountInv'
<1> DEFINE hp == th[t].hp
           n == hashsize(hp)
           a == lock_ind(l + n)
           moved == MovedFrom(hp, l)
<1>1. elems \in [Locks -> 0 .. SizeMod - 1] /\ SizeMod \in Nat /\ SizeMod > 0
  BY SizeAssumption DEF MapInv, TableOK
<1>2. hp \in Nat
  BY ThreadFacts DEF MapInv, Locals
<1>3. a \in Locks
  <2>1. l + n \in Nat
    BY <1>2, HashsizeDoubles, kNumLocksAssumption DEF Locks
  <2> QED
    BY <2>1, LockIndType
<1>4. moved \in Int
  BY <1>2, MovedFromType
<1>5. Present' = Present
  BY DEF Present
<1>6. elems' = [m \in Locks |->
        (elems[m] + ((IF m = a THEN moved ELSE 0) - (IF m = l THEN moved ELSE 0))) % SizeMod]
  BY DEF MoveBuckets, CountChange
<1> HIDE DEF a, moved, hp
<1>7. \A x \in 0 .. SizeMod - 1 : x \in Int /\ x % SizeMod = x
  BY <1>1
<1>8. CASE a = l
  <2>1. \A m \in Locks : elems'[m] = elems[m]
    <3> SUFFICES ASSUME NEW m \in Locks PROVE elems'[m] = elems[m]
      OBVIOUS
    <3>1. elems[m] \in 0 .. SizeMod - 1 /\ elems[m] \in Int
      BY <1>1, <1>7
    <3>2. elems[m] + ((IF m = a THEN moved ELSE 0) - (IF m = l THEN moved ELSE 0)) = elems[m]
      BY <1>4, <1>8, <3>1
    <3> QED
      BY <1>6, <1>7, <3>1, <3>2
  <2>2. elems' = elems
    BY <1>1, <1>6, <2>1
  <2> QED
    BY <1>5, <2>2, CountSame
<1>9. CASE a # l
  <2> DEFINE f == Plus(elems, a, moved)
             g == Plus(f, l, -moved)
  <2>1. -moved \in Int
    BY <1>4
  <2>2. /\ f \in [Locks -> 0 .. SizeMod - 1] /\ SumFunction(elems) \in Int
        /\ \E j \in Int : SumFunction(f) = SumFunction(elems) + moved + j * SizeMod
    BY <1>1, <1>3, <1>4, CounterChanged
  <2> HIDE DEF f
  <2>3. /\ g \in [Locks -> 0 .. SizeMod - 1] /\ SumFunction(f) \in Int
        /\ \E j \in Int : SumFunction(g) = SumFunction(f) + (-moved) + j * SizeMod
    BY <2>1, <2>2, CounterChanged
  <2>4. elems' = g
    <3>1. ASSUME NEW m \in Locks PROVE elems'[m] = g[m]
      <4>1. elems[m] \in 0 .. SizeMod - 1 /\ elems[m] \in Int
        BY <1>1, <1>7
      <4>2. CASE m = l
        <5>1. g[m] = (elems[l] + (-moved)) % SizeMod
          BY <1>1, <1>9, <2>2, <4>2 DEF f, Plus, With
        <5>2. elems[m] + ((IF m = a THEN moved ELSE 0) - (IF m = l THEN moved ELSE 0))
                = elems[l] + (-moved)
          BY <1>4, <1>9, <4>1, <4>2
        <5> QED
          BY <1>6, <5>1, <5>2
      <4>3. CASE m = a
        <5>1. g[m] = (elems[a] + moved) % SizeMod
          BY <1>1, <1>9, <2>2, <4>3 DEF f, Plus, With
        <5>2. elems[m] + ((IF m = a THEN moved ELSE 0) - (IF m = l THEN moved ELSE 0))
                = elems[a] + moved
          BY <1>4, <1>9, <4>1, <4>3
        <5> QED
          BY <1>6, <5>1, <5>2
      <4>4. CASE m # l /\ m # a
        <5>1. g[m] = elems[m]
          BY <1>1, <2>2, <4>4 DEF f, Plus, With
        <5>2. elems[m] + ((IF m = a THEN moved ELSE 0) - (IF m = l THEN moved ELSE 0))
                = elems[m]
          BY <4>1, <4>4
        <5> QED
          BY <1>6, <1>7, <4>1, <5>1, <5>2
      <4> QED
        BY <4>2, <4>3, <4>4
    <3>2. DOMAIN elems' = Locks
      BY <1>6
    <3> HIDE DEF g
    <3>3. elems' = [m \in Locks |-> elems'[m]]
      BY <1>6
    <3>4. g = [m \in Locks |-> g[m]]
      BY <2>3
    <3> QED
      BY <3>1, <3>3, <3>4
  <2> HIDE DEF g
  <2>5. PICK i \in Int : SumFunction(f) = SumFunction(elems) + moved + i * SizeMod
    BY <2>2
  <2>6. PICK j \in Int : SumFunction(g) = SumFunction(f) + (-moved) + j * SizeMod
    BY <2>3
  <2>7. PICK k \in Int : SumFunction(elems) = Cardinality(Present) + k * SizeMod
    BY DEF CountInv
  <2>8. Cardinality(Present) \in Nat
    BY PresentCounted, FS_CardinalityType
  <2>9. SumFunction(g) = Cardinality(Present) + (i + j + k) * SizeMod /\ i + j + k \in Int
    BY <1>1, <1>4, <2>2, <2>3, <2>5, <2>6, <2>7, <2>8
  <2>10. SumFunction(elems') = Cardinality(Present') + (i + j + k) * SizeMod
    BY <1>5, <2>4, <2>9
  <2> QED
    BY <2>9, <2>10 DEF CountInv
<1> QED
  BY <1>8, <1>9

\* clear empties the map and resets the counters.
LEMMA CountCleared ==
  ASSUME MapInv, Contents' = [k \in Keys |-> NoVal], elems' = [l \in Locks |-> 0]
  PROVE  CountInv'
<1>1. Present' = {}
  BY DEF Present
<1>2. Cardinality(Present') = 0
  BY <1>1, FS_EmptySet
<1>3. SumFunction(elems') = 0
  <2> DEFINE f == elems'
             G == {T \in SUBSET Locks : SumFunctionOnSet(f, T) = 0}
  <2>1. \A l \in Locks : f[l] = 0
    OBVIOUS
  <2>2. DOMAIN f = Locks
    OBVIOUS
  <2> HIDE DEF f
  <2>3. {} \in G
    BY SumEmpty
  <2>4. ASSUME NEW T \in SUBSET Locks, T # {}, \A x \in T : T \ {x} \in G
        PROVE  T \in G
    <3> DEFINE x == CHOOSE x \in T : TRUE
               r == T \ {x}
    <3>1. IsFiniteSet(T) /\ x \in T
      BY <2>4, LocksFinite, FS_Subset
    <3>2. SumFunctionOnSet(f, T) = f[x] + SumFunctionOnSet(f, r)
      BY <2>4, <3>1, SumFirst
    <3>3. r \in G /\ f[x] = 0
      BY <2>1, <2>4, <3>1
    <3> HIDE DEF x, r
    <3> QED
      BY <3>2, <3>3
  <2> HIDE DEF G
  <2>5. \A T \in SUBSET Locks : T \in G
    BY <2>3, <2>4, LocksFinite, SubsetInduction
  <2>6. Locks \in G
    BY <2>5
  <2> QED
    BY <2>2, <2>6 DEF G, SumFunction, f
<1>4. 0 = 0 + 0 * SizeMod
  BY SizeAssumption
<1> QED
  BY <1>2, <1>3, <1>4 DEF CountInv

\* The counters of the first table are those of its items.
LEMMA CountStarts ==
  ASSUME MapInit
  PROVE  CountInv
<1> DEFINE Behind(T) == {p \in Occupied : lock_ind(p[1]) \in T}
           Counted(T) == \E j \in Int :
                 SumFunctionOnSet(elems, T) = Cardinality(Behind(T)) + j * SizeMod
           G == {T \in SUBSET Locks : Counted(T)}
<1>1. /\ MapInv /\ elems = [l \in Locks |-> Guarded(l) % SizeMod]
      /\ SizeMod \in Nat /\ SizeMod > 0
  BY MapInvInit, SizeAssumption DEF MapInit
<1>2. IsFiniteSet(Occupied)
  <2>1. /\ hashpower \in Nat /\ DOMAIN buckets = InTable(hashpower)
    BY <1>1, HashPowersAssumption
       DEF MapInv, TableOK, ControlInv, LocksInv, LocksTypeOK, Tables
  <2>2. IsFiniteSet(InTable(hashpower))
    BY <2>1, TableSize
  <2>3. IsFiniteSet(InTable(hashpower) \X Slots)
    BY <2>2, SlotsFinite, FS_Product
  <2>4. Occupied \subseteq InTable(hashpower) \X Slots
    BY <2>1 DEF Occupied, Places
  <2> QED
    BY <2>3, <2>4, FS_Subset
<1>3. \A T : IsFiniteSet(Behind(T)) /\ Cardinality(Behind(T)) \in Nat
  BY <1>2, FS_Subset, FS_CardinalityType
<1>4. Counted({})
  <2>1. Behind({}) = {}
    OBVIOUS
  <2> HIDE DEF Behind
  <2>2. Cardinality(Behind({})) = 0 /\ SumFunctionOnSet(elems, {}) = 0
    BY <2>1, FS_EmptySet, SumEmpty
  <2>3. 0 \in Int /\ 0 = 0 + 0 * SizeMod
    BY <1>1
  <2> QED
    BY <2>2, <2>3
<1>5. ASSUME NEW T \in SUBSET Locks, NEW x \in T, Counted(T \ {x})
      PROVE  Counted(T)
  <2> DEFINE r == T \ {x}
             e == elems[x]
             q == Cardinality(Behind({x})) \div SizeMod
  <2>1. /\ e \in 0 .. SizeMod - 1 /\ q \in Int
        /\ Cardinality(Behind({x})) = SizeMod * q + e
    <3> DEFINE c == Cardinality(Behind({x}))
    <3>1. e = c % SizeMod
      BY <1>1 DEF Guarded
    <3> HIDE DEF Behind
    <3>2. c \in Nat
      BY <1>3
    <3> HIDE DEF c
    <3>3. q = c \div SizeMod /\ SizeMod \in Nat /\ SizeMod > 0
      BY SizeAssumption DEF c
    <3> HIDE DEF e, q
    <3>4. q \in Int /\ e \in 0 .. SizeMod - 1 /\ c = SizeMod * q + e
      BY <3>1, <3>2, <3>3, RemainderFacts
    <3> QED
      BY <3>4 DEF c
  <2>2. SumFunctionOnSet(elems, T) = e + SumFunctionOnSet(elems, r)
    <3>1. IsFiniteSet(T) /\ \A y \in T : elems[y] \in Int
      <4>1. elems \in [Locks -> 0 .. SizeMod - 1]
        BY <1>1 DEF MapInv, TableOK
      <4> QED
        BY <1>1, <4>1, LocksFinite, FS_Subset
    <3> QED
      BY <3>1, SumRemove
  <2>3. Behind(T) = Behind(r) \union Behind({x}) /\ Behind(r) \cap Behind({x}) = {}
    OBVIOUS
  <2> HIDE DEF Behind, r, e, q
  <2>4. Cardinality(Behind(T)) = Cardinality(Behind(r)) + Cardinality(Behind({x}))
    <3>1. /\ IsFiniteSet(Behind(r)) /\ IsFiniteSet(Behind({x}))
          /\ Cardinality(Behind(r)) \in Nat /\ Cardinality(Behind({x})) \in Nat
      BY <1>3
    <3>2. Cardinality(Behind(r) \union Behind({x}))
            = Cardinality(Behind(r)) + Cardinality(Behind({x}))
                - Cardinality(Behind(r) \cap Behind({x}))
      BY <3>1, FS_Union
    <3>3. Cardinality(Behind(r) \cap Behind({x})) = 0
      BY <2>3, FS_EmptySet
    <3> QED
      BY <2>3, <3>1, <3>2, <3>3
  <2>5. PICK j \in Int :
          SumFunctionOnSet(elems, r) = Cardinality(Behind(r)) + j * SizeMod
    BY <1>5 DEF r
  <2>6. /\ SumFunctionOnSet(elems, T) = Cardinality(Behind(T)) + (j - q) * SizeMod
        /\ j - q \in Int
    <3>1. Cardinality(Behind(r)) \in Nat /\ Cardinality(Behind({x})) \in Nat
      BY <1>3
    <3> QED
      BY <1>1, <2>1, <2>2, <2>4, <2>5, <3>1
  <2> QED
    BY <2>6
<1>6. /\ {} \in G
      /\ \A T \in SUBSET Locks : T # {} /\ (\A x \in T : T \ {x} \in G) => T \in G
  <2> HIDE DEF Counted
  <2>1. {} \in G
    BY <1>4
  <2>2. ASSUME NEW T \in SUBSET Locks, T # {}, \A x \in T : T \ {x} \in G
        PROVE  T \in G
    <3>1. PICK x \in T : Counted(T \ {x})
      BY <2>2
    <3> QED
      BY <1>5, <3>1
  <2> QED
    BY <2>1, <2>2
<1> HIDE DEF G
<1>7. Locks \in G
  <2>1. \A T \in SUBSET Locks : T \in G
    BY <1>6, LocksFinite, SubsetInduction
  <2> QED
    BY <2>1
<1>8. Counted(Locks)
  BY <1>7 DEF G
<1>9. Behind(Locks) = Occupied
  <2>1. ASSUME NEW p \in Occupied PROVE lock_ind(p[1]) \in Locks
    <3>1. hashpower \in Nat /\ DOMAIN buckets = InTable(hashpower)
      BY <1>1, HashPowersAssumption
         DEF MapInv, TableOK, ControlInv, LocksInv, LocksTypeOK, Tables
    <3>2. p[1] \in InTable(hashpower)
      BY <3>1 DEF Occupied, Places
    <3>3. p[1] \in Nat
      BY <3>2 DEF InTable
    <3> QED
      BY <3>3, LockIndType
  <2> QED
    BY <2>1
<1>10. SumFunction(elems) = SumFunctionOnSet(elems, Locks)
  BY <1>1 DEF SumFunction
<1>11. Cardinality(Occupied) = Cardinality(Present)
  BY <1>1, PresentCounted
<1> HIDE DEF Behind
<1> QED
  BY <1>8, <1>9, <1>10, <1>11 DEF CountInv

\* A step that leaves the table alone, or moves items in it without counting them.
LEMMA QuietCount ==
  ASSUME CountInv, \/ UNCHANGED table
                   \/ elems' = elems /\ Contents' = Contents
  PROVE  CountInv'
<1>1. Contents' = Contents /\ elems' = elems
  BY SameTable DEF table
<1>2. Present' = Present
  BY <1>1 DEF Present
<1> QED
  BY <1>1, <1>2, CountSame

\* An operation on a key counts what it does.
LEMMA OperationCount ==
  ASSUME MapInv, CountInv, NEW t \in Threads,
         Erase(t) \/ Update(t) \/ InsertIntoBucket(t) \/ FinishInsert(t) \/ Clear(t)
  PROVE  CountInv'
<1>1. elems \in [Locks -> 0 .. SizeMod - 1] /\ \A i \in InTable(hashpower) : lock_ind(i) \in Locks
  BY LockIndType DEF MapInv, TableOK, InTable
<1>2. CASE Erase(t)
  <2>1. CASE Found(t)
    <3> DEFINE m == lock_ind(Place(t)[1])
    <3>1. /\ m \in Locks /\ call[t].key \in Keys /\ Contents[call[t].key] # NoVal
          /\ Contents' = [Contents EXCEPT ![call[t].key] = NoVal]
      BY <1>1, <1>2, <2>1, ErasedValue
    <3>2. elems' = [elems EXCEPT ![m] = (@ - 1) % SizeMod]
      BY <1>2, <2>1 DEF Erase
    <3> HIDE DEF m
    <3>3. elems' = Plus(elems, m, -1)
      <4>1. elems[m] - 1 = elems[m] + (-1)
        BY <1>1, <3>1, SizeAssumption
      <4> QED
        BY <3>2, <4>1 DEF Plus, With
    <3> QED
      BY <3>1, <3>3, CountDown
  <2>2. CASE ~ Found(t)
    BY <1>2, <2>2, QuietCount DEF Erase
  <2> QED
    BY <2>1, <2>2
<1>3. CASE Update(t)
  <2>1. elems' = elems
    BY <1>3 DEF Update
  <2>2. CASE Found(t)
    <3>1. /\ call[t].key \in Keys /\ Contents[call[t].key] # NoVal
          /\ UpdatedTo(call[t]) \in Vals
          /\ Contents' = [Contents EXCEPT ![call[t].key] = UpdatedTo(call[t])]
      BY <1>3, <2>2, UpdatedValue
    <3>2. DOMAIN Contents = Keys /\ UpdatedTo(call[t]) # NoVal
      BY <3>1, ValsAssumption DEF Contents
    <3>3. \A k \in Keys : Contents'[k] # NoVal <=> Contents[k] # NoVal
      BY <3>1, <3>2
    <3>4. Present' = Present
      BY <3>3 DEF Present
    <3> QED
      BY <2>1, <3>4, CountSame
  <2>3. CASE ~ Found(t)
    <3>1. Contents' = Contents
      BY <1>3, <2>3, ContentsDef DEF Update
    <3> QED
      BY <2>1, <3>1, QuietCount
  <2> QED
    BY <2>2, <2>3
<1>4. CASE InsertIntoBucket(t)
  <2> DEFINE m == lock_ind(FreeBucket(t))
  <2>1. /\ m \in Locks /\ call[t].key \in Keys /\ call[t].val \in Vals
        /\ Contents[call[t].key] = NoVal
        /\ Contents' = [Contents EXCEPT ![call[t].key] = call[t].val]
    BY <1>1, <1>4, InsertedValue
  <2>2. elems' = Plus(elems, m, 1)
    BY <1>4 DEF InsertIntoBucket, AddToBucket, FreeBucket, Plus, With
  <2> HIDE DEF m
  <2> QED
    BY <2>1, <2>2, CountUp
<1>5. CASE FinishInsert(t)
  <2>1. CASE FoundIn(Moved(t), t)
    BY <1>5, <2>1, FinishedValue, QuietCount DEF FinishInsert
  <2>2. CASE ~ FoundIn(Moved(t), t)
    <3> DEFINE m == lock_ind(th[t].path[1].bucket)
    <3>1. /\ m \in Locks /\ call[t].key \in Keys /\ call[t].val \in Vals
          /\ Contents[call[t].key] = NoVal
          /\ Contents' = [Contents EXCEPT ![call[t].key] = call[t].val]
      BY <1>1, <1>5, <2>2, FinishedValue
    <3>2. elems' = Plus(elems, m, 1)
      BY <1>5, <2>2 DEF FinishInsert, AddToBucket, Plus, With
    <3> HIDE DEF m
    <3> QED
      BY <3>1, <3>2, CountUp
  <2> QED
    BY <2>1, <2>2
<1>6. CASE Clear(t)
  <2>1. elems' = [l \in Locks |-> 0] /\ buckets' = [i \in DOMAIN buckets |-> EmptyBucket]
    BY <1>6 DEF Clear
  <2>2. Contents' = [k \in Keys |-> NoVal]
    BY <1>6, ClearedValue
  <2> QED
    BY <2>1, <2>2, CountCleared
<1> QED
  BY <1>2, <1>3, <1>4, <1>5, <1>6

\* CountInv is kept by every step, with or without exceptions.
LEMMA CountStep ==
  ASSUME HashPowers = Nat, MapInv, MapInv', CountInv, [UserNext]_mapVars
  PROVE  CountInv'
<1>1. ASSUME NEW t \in Threads, Step(t) PROVE CountInv'
  <2>1. CASE Erase(t) \/ Update(t) \/ InsertIntoBucket(t) \/ FinishInsert(t) \/ Clear(t)
    BY <2>1, OperationCount
  <2>2. CASE MoveOn(t)
    <3>1. Contents' = Contents
      BY <2>2, MovedSame, ContentsDef DEF MoveOn
    <3> QED
      BY <2>2, <3>1, QuietCount DEF MoveOn
  <2>3. CASE Resize(t)
    <3>1. Contents' = Contents
      BY <2>3, ResizeSame
    <3> QED
      BY <2>3, <3>1, QuietCount DEF Resize
  <2>4. CASE \E l \in Locks : MoveBuckets(t, l)
    <3>1. PICK l \in Locks : MoveBuckets(t, l)
      BY <2>4
    <3>2. Contents' = Contents
      BY <3>1, MoveBucketsSame
    <3> QED
      BY <3>1, <3>2, CountMoved
  <2>5. CASE ExpandSimple(t)
    <3>1. Contents' = Contents
      BY <2>5, ExpandSimpleSame
    <3> QED
      BY <2>5, <3>1, QuietCount DEF ExpandSimple
  <2>6. CASE SnapshotAndLockTwo(t) \/ LockStep(t) \/ LockFailed(t) \/ RunCuckoo(t)
             \/ PeekFailed(t) \/ SearchOn(t) \/ SearchFailed(t) \/ SearchFound(t)
             \/ FollowPath(t) \/ StartMove(t) \/ MoveFailed(t) \/ ReadCounter(t)
             \/ TakeExpansionLock(t) \/ FinishDouble(t) \/ ExpandLockAll(t) \/ StartLockAll(t)
    <3>1. UNCHANGED table
      BY <2>6 DEF SnapshotAndLockTwo, LockStep, LockFailed, RunCuckoo, PeekFailed, SearchOn,
                  SearchFailed, SearchFound, FollowPath, StartMove, MoveFailed, ReadCounter,
                  TakeExpansionLock, FinishDouble, ExpandLockAll, StartLockAll, Peek
    <3> QED
      BY <3>1, QuietCount
  <2>7. CASE Lookup(t) \/ InsertDuplicate(t) \/ SizeReturns(t) \/ CheckLoadFactor(t)
             \/ FastDouble(t) \/ Rehash(t) \/ ExpandTooLarge(t) \/ ExpandOvertaken(t)
             \/ ExpandUnlock(t) \/ ReleaseLockedTable(t) \/ SetLimit(t)
    <3>1. UNCHANGED table
      BY <2>7 DEF Lookup, InsertDuplicate, SizeReturns, CheckLoadFactor, FastDouble, Rehash,
                  ExpandTooLarge, ExpandOvertaken, ExpandUnlock, ReleaseLockedTable, SetLimit
    <3> QED
      BY <3>1, QuietCount
  <2> QED
    BY <1>1, <2>1, <2>2, <2>3, <2>4, <2>5, <2>6, <2>7 DEF Step
<1>2. ASSUME NEW t \in Threads,
             \/ EqualThrows(t) \/ EqualThrowsAfterMove(t) \/ ValueThrows(t)
             \/ HashThrowsOnPath(t) \/ HashThrowsInMove(t)
      PROVE  CountInv'
  <2>1. CASE EqualThrowsAfterMove(t)
    <3>1. Contents' = Contents
      BY <2>1, MovedSame, ContentsDef DEF EqualThrowsAfterMove
    <3> QED
      BY <2>1, <3>1, QuietCount DEF EqualThrowsAfterMove
  <2>2. CASE ~ EqualThrowsAfterMove(t)
    <3>1. UNCHANGED table
      BY <1>2, <2>2 DEF EqualThrows, ValueThrows, HashThrowsOnPath, HashThrowsInMove
    <3> QED
      BY <3>1, QuietCount
  <2> QED
    BY <2>1, <2>2
<1>3. ASSUME UNCHANGED mapVars \/ \E t \in Threads, c \in Calls : Call(t, c)
      PROVE  CountInv'
  <2>1. UNCHANGED table
    BY <1>3 DEF mapVars, Call
  <2> QED
    BY <2>1, QuietCount
<1> QED
  BY <1>1, <1>2, <1>3 DEF UserNext, MapNext, Finished

\* The counters of the locks add up to the number of items, modulo the size of a counter,
\* in every state: also while items are displaced, the table doubles lock by lock, or user
\* code throws.
THEOREM CountExactHolds ==
  ASSUME HashPowers = Nat, RebuildsOrDoubles
  PROVE  UserSpec => []CountExact
<1>1. MapInit => MapInv /\ CountInv
  BY MapInvInit, CountStarts
<1>2. MapInv /\ CountInv /\ [UserNext]_mapVars => MapInv' /\ CountInv'
  BY MapInvStep, CountStep
<1>3. MapInv /\ CountInv => CountExact
  <2> SUFFICES ASSUME MapInv, CountInv PROVE CountExact
    OBVIOUS
  <2> DEFINE s == SumFunction(elems)
             n == Cardinality(Present)
  <2>1. n \in Nat /\ Cardinality(Occupied) = n /\ SizeMod \in Nat /\ SizeMod > 0
    BY PresentCounted, FS_CardinalityType, SizeAssumption
  <2>2. PICK j \in Int : s = n + j * SizeMod
    BY DEF CountInv
  <2> HIDE DEF s, n
  <2>3. s \in Int
    BY <2>1, <2>2
  <2>4. s % SizeMod = n % SizeMod
    BY <2>1, <2>2, <2>3, SameRemainder
  <2> QED
    BY <2>1, <2>4 DEF CountExact, s
<1> QED
  BY <1>1, <1>2, <1>3, PTL DEF UserSpec
=============================================================================
