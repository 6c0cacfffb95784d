----------------------------- MODULE LockedTable -----------------------------
(***************************************************************************)
(* locked_table: handles that own all the locks of a table, and the        *)
(* iterators made from them.                                               *)
(*                                                                         *)
(* A handle holds an AllUnlocker, a reference to the buckets, and a        *)
(* pointer to a heap-allocated boolean that it shares with its iterators   *)
(* and that says whether the table is still locked.  Handles can be moved  *)
(* from one object to another, released and destroyed in any order while   *)
(* iterators are around; when a table is not locked, other threads change  *)
(* it.  Calls on different objects may come from different threads.        *)
(*                                                                         *)
(* The code documents ++ at the end and -- at the beginning as undefined.  *)
(* Both are modelled, as the code behaves: they go to the end position.    *)
(***************************************************************************)
EXTENDS CuckooHashing, FiniteSetsExt

CONSTANTS
  Tables,             \* the tables that are locked
  Handles,            \* the locked_table objects
  Iterators,          \* the iterator objects
  Flags,              \* the heap cells for the shared booleans: 1 .. n
  Vals, Vacant,       \* what an occupied slot holds, and an empty one
  BucketArrays,       \* the contents that a table's buckets_ may have
  None,               \* a null pointer, and an object that does not exist
  MaxLocks            \* bound on the number of lock_table calls

Slots == 0 .. SLOT_PER_BUCKET - 1

\* What buckets_ is: a vector of buckets with SLOT_PER_BUCKET slots each.
IsBuckets(bs) ==
  /\ IsFiniteSet(DOMAIN bs)
  /\ bs \in [0 .. Cardinality(DOMAIN bs) - 1 -> [Slots -> Vals \union {Vacant}]]

ASSUME ArraysAssumption == Vacant \notin Vals /\ \A bs \in BucketArrays : IsBuckets(bs)
ASSUME FlagsAssumption ==
  /\ Flags \subseteq Nat /\ IsFiniteSet(Flags)
  /\ IsFiniteSet(Handles) /\ IsFiniteSet(Iterators)
  /\ Cardinality(Flags) > Cardinality(Handles) + Cardinality(Iterators)
ASSUME NoneAssumption ==
  /\ None \notin Tables \union Flags
  /\ None \notin [unlocker : Tables \union {None}, table : Tables, flag : Flags \union {None}]

VARIABLES
  buckets,    \* buckets[b]: buckets_ of table b
  locked,     \* locked[b]: how often all the locks of b are taken
  flag,       \* flag[f]: the boolean in heap cell f
  handle,     \* handle[h]: the members of locked_table object h, or None
  it,         \* it[i]: the members of iterator object i, or None
  era,        \* history: era[b] counts the lock_table calls on b
  born,       \* history: born[i] is the era of the table when i was made
  steps       \* history: how many items of the table are before i

tableVars == <<buckets, locked, flag, handle, it, era, born, steps>>
history == <<born, steps>>

ItemsOf(bs) == {p \in (DOMAIN bs) \X Slots : bs[p[1]][p[2]] # Vacant}
end_pos(bs) == <<Cardinality(DOMAIN bs), 0>>

Members(unlocker, b, f) == [unlocker |-> unlocker, table |-> b, flag |-> f]
IteratorAt(b, f, p) == [table |-> b, flag |-> f, index |-> p[1], slot |-> p[2]]
Position(i) == <<it[i].index, it[i].slot>>

LockedInit ==
  /\ buckets \in [Tables -> BucketArrays]
  /\ locked = [b \in Tables |-> 0]
  /\ flag = [f \in Flags |-> FALSE]
  /\ handle = [h \in Handles |-> None]
  /\ it = [i \in Iterators |-> None]
  /\ era = [b \in Tables |-> 0]
  /\ born = [i \in Iterators |-> 0]
  /\ steps = [i \in Iterators |-> 0]
-----------------------------------------------------------------------------
(***************************************************************************)
(* The handles.                                                            *)
(***************************************************************************)
Alive(h) == handle[h] # None

\* has_table_lock: the handle has a boolean, and it is true.
HasTableLock(h) == handle[h].flag # None /\ flag[handle[h].flag]

\* A heap cell that no handle and no iterator points to.
Unused(f) ==
  /\ \A h \in Handles : Alive(h) => handle[h].flag # f
  /\ \A i \in Iterators : it[i] # None => it[i].flag # f
NewFlag == CHOOSE f \in Flags : Unused(f) /\ \A g \in Flags : Unused(g) => f <= g

\* lock_table waits for all the locks.
LockTable(h, b) ==
  /\ ~ Alive(h) /\ locked[b] = 0
  /\ MapThenSumSet(LAMBDA c : era[c], Tables) < MaxLocks
  /\ locked' = [locked EXCEPT ![b] = 1]
  /\ flag' = [flag EXCEPT ![NewFlag] = TRUE]
  /\ handle' = [handle EXCEPT ![h] = Members(b, b, NewFlag)]
  /\ era' = [era EXCEPT ![b] = @ + 1]
  /\ UNCHANGED <<buckets, it, history>>

\* How often release unlocks table b: once if the handle has it.
LocksGivenBack(h, b) == IF HasTableLock(h) /\ handle[h].unlocker = b THEN 1 ELSE 0

\* Mutant of Invalidated: the boolean is left alone.
InvalidatedNever(h) == flag

\* release tells the iterators, through the shared boolean.
Invalidated(h) ==
  IF HasTableLock(h) THEN [flag EXCEPT ![handle[h].flag] = FALSE] ELSE flag

\* Mutant of AfterRelease: AllUnlocker::release does not deactivate itself.
AfterReleaseActive(h) == handle[h]

\* The members of a handle after its release.
AfterRelease(h) ==
  IF HasTableLock(h) THEN [handle[h] EXCEPT !.unlocker = None] ELSE handle[h]

\* release: a handle that has the table gives back its locks.  It is idempotent.
Release(h) ==
  /\ Alive(h)
  /\ locked' = [b \in Tables |-> locked[b] - LocksGivenBack(h, b)]
  /\ flag' = Invalidated(h)
  /\ handle' = [handle EXCEPT ![h] = AfterRelease(h)]
  /\ UNCHANGED <<buckets, it, era, history>>

\* The destructor releases the table, and the destructor of its AllUnlocker gives
\* back the locks that it still has then.
Destroy(h) ==
  /\ Alive(h)
  /\ LET left(b) == IF AfterRelease(h).unlocker = b THEN 1 ELSE 0
     IN  locked' = [b \in Tables |-> locked[b] - LocksGivenBack(h, b) - left(b)]
  /\ flag' = Invalidated(h)
  /\ handle' = [handle EXCEPT ![h] = None]
  /\ UNCHANGED <<buckets, it, era, history>>

\* Mutant of MovedFrom: has_table_lock_ is not reset.
MovedFromKeepsFlag(m) == [m EXCEPT !.unlocker = None]

\* What a move leaves in its source.
MovedFrom(m) == [m EXCEPT !.unlocker = None, !.flag = None]

MoveConstruct(h, src) ==
  /\ ~ Alive(h) /\ Alive(src)
  /\ handle' = [handle EXCEPT ![h] = handle[src], ![src] = MovedFrom(handle[src])]
  /\ UNCHANGED <<buckets, locked, flag, it, era, history>>

\* Mutant of MoveAssign: the target is not released first.
MoveAssignOver(h, src) ==
  /\ Alive(h) /\ Alive(src)
  /\ handle' = IF h = src
                 THEN [handle EXCEPT ![h] = MovedFrom(handle[h])]
                 ELSE [handle EXCEPT ![h] = handle[src], ![src] = MovedFrom(handle[src])]
  /\ UNCHANGED <<buckets, locked, flag, it, era, history>>

\* The target is released first, also when it is assigned to itself.
MoveAssign(h, src) ==
  /\ Alive(h) /\ Alive(src)
  /\ locked' = [b \in Tables |-> locked[b] - LocksGivenBack(h, b)]
  /\ flag' = Invalidated(h)
  /\ handle' = IF h = src
                 THEN [handle EXCEPT ![h] = MovedFrom(AfterRelease(h))]
                 ELSE [handle EXCEPT ![h] = handle[src], ![src] = MovedFrom(handle[src])]
  /\ UNCHANGED <<buckets, it, era, history>>
-----------------------------------------------------------------------------
(***************************************************************************)
(* The iterators.                                                          *)
(***************************************************************************)

\* Mutant of After: a new bucket is entered at its second slot.
AfterSkippingSlot(bs, p) ==
  LET n == Cardinality(DOMAIN bs)
      advance[q \in (0 .. n) \X (-1 .. SLOT_PER_BUCKET)] ==
        LET i == q[1]  s == q[2]
        IN  IF i = n THEN end_pos(bs)
            ELSE IF s + 1 >= SLOT_PER_BUCKET THEN advance[<<i + 1, 0>>]
            ELSE IF bs[i][s + 1] # Vacant THEN <<i, s + 1>>
            ELSE advance[<<i, s + 1>>]
  IN  advance[p]

\* The loop of operator++: the next occupied slot, or the end position.
After(bs, p) ==
  LET n == Cardinality(DOMAIN bs)
      advance[q \in (0 .. n) \X (-1 .. SLOT_PER_BUCKET)] ==
        LET i == q[1]  s == q[2]
        IN  IF i = n THEN end_pos(bs)
            ELSE IF s + 1 >= SLOT_PER_BUCKET THEN advance[<<i + 1, -1>>]
            ELSE IF bs[i][s + 1] # Vacant THEN <<i, s + 1>>
            ELSE advance[<<i, s + 1>>]
  IN  advance[p]

\* The loop of operator--: the previous occupied slot, or the end position.
Before(bs, p) ==
  LET n == Cardinality(DOMAIN bs)
      retreat[q \in (-1 .. n) \X (-1 .. SLOT_PER_BUCKET)] ==
        LET i == q[1]  s == q[2]
        IN  IF i < 0 THEN end_pos(bs)
            ELSE IF s - 1 < 0 THEN retreat[<<i - 1, SLOT_PER_BUCKET>>]
            ELSE IF bs[i][s - 1] # Vacant THEN <<i, s - 1>>
            ELSE retreat[<<i, s - 1>>]
  IN  retreat[p]

\* The constructor steps forward from a slot that is not occupied.
Settle(bs, p) ==
  IF p # end_pos(bs) /\ bs[p[1]][p[2]] = Vacant THEN After(bs, p) ELSE p

\* begin and end; check_table throws if the handle does not have the table.
MakeIterator(h, i, p, n) ==
  LET b == handle[h].table
  IN  /\ it' = [it EXCEPT ![i] = IteratorAt(b, handle[h].flag, Settle(buckets[b], p))]
      /\ born' = [born EXCEPT ![i] = era[b]]
      /\ steps' = [steps EXCEPT ![i] = n]

Begin(h, i) ==
  /\ Alive(h)
  /\ IF HasTableLock(h) THEN MakeIterator(h, i, <<0, 0>>, 0)
                        ELSE UNCHANGED <<it, history>>
  /\ UNCHANGED <<buckets, locked, flag, handle, era>>

End(h, i) ==
  /\ Alive(h)
  /\ LET bs == buckets[handle[h].table]
     IN  IF HasTableLock(h) THEN MakeIterator(h, i, end_pos(bs), Cardinality(ItemsOf(bs)))
                            ELSE UNCHANGED <<it, history>>
  /\ UNCHANGED <<buckets, locked, flag, handle, era>>

\* check_iterator lets the call through.
Usable(i) == it[i] # None /\ flag[it[i].flag]
Array(i) == buckets[it[i].table]
AtEnd(i) == Position(i) = end_pos(Array(i))

MoveTo(i, p) == it' = [it EXCEPT ![i] = IteratorAt(it[i].table, it[i].flag, p)]

Increment(i) ==
  /\ it[i] # None
  /\ IF Usable(i)
       THEN /\ MoveTo(i, After(Array(i), Position(i)))
            /\ steps' = [steps EXCEPT ![i] = IF AtEnd(i) THEN @ ELSE @ + 1]
       ELSE UNCHANGED <<it, steps>>
  /\ UNCHANGED <<buckets, locked, flag, handle, era, born>>

Decrement(i) ==
  /\ it[i] # None
  /\ IF Usable(i)
       THEN /\ MoveTo(i, Before(Array(i), Position(i)))
            /\ steps' = [steps EXCEPT ![i] =
                           IF @ = 0 THEN Cardinality(ItemsOf(Array(i))) ELSE @ - 1]
       ELSE UNCHANGED <<it, steps>>
  /\ UNCHANGED <<buckets, locked, flag, handle, era, born>>

\* Storing through operator* or operator->; at the end this is undefined.
Write(i, v) ==
  /\ it[i] # None /\ (Usable(i) => ~ AtEnd(i))
  /\ buckets' = IF Usable(i)
                  THEN [buckets EXCEPT ![it[i].table][it[i].index][it[i].slot] = v]
                  ELSE buckets
  /\ UNCHANGED <<locked, flag, handle, it, era, history>>

\* Iterators are copied; the postfix operators return a copy made before.
Copy(i, j) ==
  /\ it[j] # None
  /\ it' = [it EXCEPT ![i] = it[j]]
  /\ born' = [born EXCEPT ![i] = born[j]]
  /\ steps' = [steps EXCEPT ![i] = steps[j]]
  /\ UNCHANGED <<buckets, locked, flag, handle, era>>

\* Mutant of Equal: the slots are not compared.
EqualBuckets(i, j) ==
  Usable(i) /\ Usable(j) /\ it[i].table = it[j].table /\ it[i].index = it[j].index

\* operator==.
Equal(i, j) ==
  Usable(i) /\ Usable(j) /\ it[i].table = it[j].table /\ Position(i) = Position(j)
-----------------------------------------------------------------------------
\* Other threads change a table whose locks they can get.
OthersChange(b) ==
  /\ locked[b] = 0
  /\ \E bs \in BucketArrays : buckets' = [buckets EXCEPT ![b] = bs]
  /\ UNCHANGED <<locked, flag, handle, it, era, history>>

LockedNext ==
  \/ \E h \in Handles, b \in Tables : LockTable(h, b)
  \/ \E h \in Handles : Release(h) \/ Destroy(h)
  \/ \E h, src \in Handles : MoveConstruct(h, src) \/ MoveAssign(h, src)
  \/ \E h \in Handles, i \in Iterators : Begin(h, i) \/ End(h, i)
  \/ \E i \in Iterators : Increment(i) \/ Decrement(i) \/ \E v \in Vals : Write(i, v)
  \/ \E i, j \in Iterators : Copy(i, j)
  \/ \E b \in Tables : OthersChange(b)

LockedSpec == LockedInit /\ [][LockedNext]_tableVars
-----------------------------------------------------------------------------
\* The type invariant.
LockedTypeOK ==
  /\ locked \in [Tables -> {0, 1}]
  /\ flag \in [Flags -> BOOLEAN]
  /\ \A h \in Handles :
       Alive(h) => handle[h] \in [unlocker : Tables \union {None}, table : Tables,
                                  flag : Flags \union {None}]
  /\ \A i \in Iterators :
       it[i] # None => it[i] \in [table : Tables, flag : Flags, index : Nat, slot : Slots]

\* "The locked_table has unique ownership of the table": however handles are
\* moved, assigned, released and destroyed, the locks of a table are taken once
\* if one handle will give them back, and not at all if none will.
OwnedOnce ==
  \A b \in Tables :
    locked[b] = Cardinality({h \in Handles : Alive(h) /\ handle[h].unlocker = b})

\* A handle that says it has the table (has_table_lock) is the one that will
\* give back the locks of the table it refers to, and no other says so.
OwnerKnown ==
  \A h \in Handles : Alive(h) =>
    handle[h].unlocker = IF HasTableLock(h) THEN handle[h].table ELSE None

\* An iterator passes check_iterator exactly as long as the lock_table call that
\* it stems from holds the table, through whatever handles the lock is moved,
\* and also if the table was released and locked again meanwhile.
ValidWhileLocked ==
  \A i \in Iterators : it[i] # None =>
    (Usable(i) <=> locked[it[i].table] = 1 /\ era[it[i].table] = born[i])

\* Iteration visits the items in the order of buckets and slots, each one once:
\* after begin and n steps forward, less the steps back, exactly n items are
\* before the iterator, and it is at an item, or at the end if there are n items.
VisitsEachOnce ==
  \A i \in Iterators : Usable(i) =>
    LET items == ItemsOf(Array(i))
        passed == {p \in items : \/ p[1] < it[i].index
                                 \/ p[1] = it[i].index /\ p[2] < it[i].slot}
    IN  /\ Cardinality(passed) = steps[i]
        /\ Position(i) \in items \union {end_pos(Array(i))}

\* Two usable iterators of a table compare equal exactly if the same number of
\* items is before them, so that a loop up to end() stops at the right place.
EqualAtSameItem ==
  \A i, j \in Iterators : Usable(i) /\ Usable(j) =>
    (Equal(i, j) <=> it[i].table = it[j].table /\ steps[i] = steps[j])
=============================================================================
