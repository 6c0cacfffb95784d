------------------------- MODULE SimpleRebuildProofs -------------------------
(***************************************************************************)
(* Proofs about cuckoo_expand_simple, for any number of workers, any old   *)
(* table and any hash function: every item gets from the old table to the  *)
(* new one, once and with its value.                                       *)
(***************************************************************************)
EXTENDS SimpleRebuild, LinearizableProofs

\* The buckets of the old table, and the items that it had.
OldTable == InTable(OldHashpower)
OldItems == {Item(k, OldMap[k]) : k \in DOMAIN OldMap}

\* Slot s of bucket i still has its item.
Unmoved(i, s) == old[i][s] \notin {Vacant, Hollowed}

\* The old table: every item is there at most once.
OldInv ==
  /\ old \in [OldTable -> [Slots -> OldItems \union {Vacant, Hollowed}]]
  /\ \A i, j \in OldTable, s, r \in Slots :
       Unmoved(i, s) /\ Unmoved(j, r) /\ old[i][s].key = old[j][r].key => i = j /\ s = r

\* The insertion of an item.
Insertion(item) == [op |-> "insert", key |-> item.key, val |-> item.val]

\* Worker w is at an item, and has not yet been further on in its bucket.
TaskOK(w) ==
  /\ task[w] \in OldTable \X Slots
  /\ task[w][1] \notin pending
  /\ Unmoved(task[w][1], task[w][2])
  /\ \A r \in Slots : r > task[w][2] => old[task[w][1]][r] # Hollowed

\* The workers: no two are in the same bucket, and they insert the items they are at.
WorkersInv ==
  /\ pending \subseteq OldTable
  /\ \A i \in pending, s \in Slots : old[i][s] # Hollowed
  /\ DOMAIN task = Threads
  /\ \A w \in Threads : task[w] # NoTask => TaskOK(w)
  /\ \A v, w \in Threads :
       v # w /\ task[v] # NoTask /\ task[w] # NoTask => task[v][1] # task[w][1]
  /\ \A w \in Threads : call[w] # NoCall =>
       task[w] # NoTask /\ call[w] = Insertion(old[task[w][1]][task[w][2]])

\* Unless user code has thrown, some worker is on the way to every item that is left.
WorkLeft ==
  /\ phase \in {"moving", "swapped"} =>
       \A i \in OldTable, s \in Slots : Unmoved(i, s) =>
         \/ i \in pending
         \/ \E w \in Threads : task[w] # NoTask /\ task[w][1] = i /\ task[w][2] <= s
  /\ phase = "swapped" => AllDone

\* The new table never shrinks below its first size, and has no limits.
NewInv ==
  /\ hashpower >= InitialHashpower
  /\ minimum_load_factor = 0 /\ maximum_hashpower = NO_MAXIMUM_HASHPOWER
  /\ \A w \in Threads : th[w].pc \in {"expand", "rebuild"} => th[w].grow

\* The new table has the items that were moved, with their values.
MovedInv ==
  \A k \in Keys :
    Contents[k] = IF k \in DOMAIN OldMap /\ k \notin InOld THEN OldMap[k] ELSE NoVal

\* The inductive invariant.
RebuildInv ==
  LinearInv /\ NewInv /\ OldInv /\ WorkersInv /\ WorkLeft /\ MovedInv

-----------------------------------------------------------------------------
(***************************************************************************)
(* The workers' steps are steps of the new table.                          *)
(***************************************************************************)

\* The workers call insert, and nothing else.
LEMMA WorkersCall ==
  \A c \in Calls : /\ c.op = "insert" /\ c.key \in DOMAIN OldMap /\ c.val = OldMap[c.key]
                   /\ c.key \in Keys
BY WorkerCallsAssumption, OldTableAssumption

\* So the new table is not rebuilt from outside while it doubles.
LEMMA WorkersOnlyInsert == RebuildsOrDoubles
BY WorkersCall DEF RebuildsOrDoubles

\* A step is one of a worker in new_map, the start of an insertion, or nothing to the new
\* table.
LEMMA StepsInNewMap ==
  ASSUME [ThrowingNext]_rebuildVars
  PROVE  \/ \E w \in Threads : InsertStep(w)
         \/ \E w \in Threads : InsertItem(w)
         \/ UNCHANGED mapVars
BY DEF ThrowingNext, RebuildNext, Worker, TakeBucket, Swap, Over, InsertThrows, Rethrow,
       rebuildVars

\* An insertion that worker w starts is one of Calls.
LEMMA InsertItemCalls ==
  ASSUME OldInv, WorkersInv, NEW w \in Threads, InsertItem(w)
  PROVE  /\ call' = [call EXCEPT ![w] = Insertion(old[task[w][1]][task[w][2]])]
         /\ \E c \in Calls : Call(w, c)
<1> DEFINE item == old[task[w][1]][task[w][2]]
<1>1. TaskOK(w) /\ Call(w, Insertion(item))
  BY DEF InsertItem, WorkersInv, Insertion
<1>2. item \in OldItems
  BY <1>1 DEF TaskOK, Unmoved, OldInv
<1>3. PICK k \in DOMAIN OldMap : item = Item(k, OldMap[k])
  BY <1>2 DEF OldItems
<1> HIDE DEF item
<1>4. Insertion(item) = [op |-> "insert", key |-> k, val |-> OldMap[k]]
  BY <1>3 DEF Insertion, Item
<1>5. Insertion(item) \in Calls
  BY <1>4, WorkerCallsAssumption
<1> QED
  BY <1>1, <1>5 DEF Call, item

\* The new table does not see more than its own steps.
LEMMA NewMapSteps ==
  ASSUME OldInv, WorkersInv, [ThrowingNext]_rebuildVars
  PROVE  [UserNext]_mapVars
<1>1. ASSUME NEW w \in Threads, InsertStep(w) PROVE UserNext
  BY <1>1 DEF InsertStep, UserNext, MapNext
<1>2. ASSUME NEW w \in Threads, InsertItem(w) PROVE UserNext
  BY <1>2, InsertItemCalls DEF UserNext, MapNext
<1> QED
  BY <1>1, <1>2, StepsInNewMap

\* The invariants of the table hold of new_map.
LEMMA LinearInvKept ==
  ASSUME HashPowers = Nat, LinearInv, OldInv, WorkersInv, [ThrowingNext]_rebuildVars
  PROVE  LinearInv'
BY NewMapSteps, WorkersOnlyInsert, LinearInvStep

-----------------------------------------------------------------------------
(***************************************************************************)
(* The insertions into a table without limits, and its size.               *)
(***************************************************************************)

\* The call of a worker that is not idle.
LEMMA InsertingHere ==
  ASSUME MapInv, NEW w \in Threads
  PROVE  /\ th[w].pc # "idle" => Op(w) = "insert" /\ "insert" \in OpsAt(th[w].pc)
         /\ th[w].pc \notin {"rehash", "all", "locked"}
<1>1. th[w].pc # "idle" => Op(w) = "insert" /\ "insert" \in OpsAt(th[w].pc)
  <2> SUFFICES ASSUME th[w].pc # "idle"
               PROVE  Op(w) = "insert" /\ "insert" \in OpsAt(th[w].pc)
    OBVIOUS
  <2>1. call[w] # NoCall /\ call[w].op \in OpsAt(th[w].pc)
    BY OpsHere
  <2>2. call[w] \in Calls
    BY <2>1, ThreadFacts DEF MapInv
  <2> QED
    BY <2>1, <2>2, WorkersCall DEF Op
<1> QED
  BY <1>1 DEF OpsAt

\* The steps that end no call, without a look at the table.
SilentHere(w) ==
  \/ SnapshotAndLockTwo(w) \/ LockStep(w) \/ LockFailed(w) \/ RunCuckoo(w)
  \/ PeekFailed(w) \/ SearchOn(w) \/ SearchFailed(w) \/ SearchFound(w) \/ FollowPath(w)
  \/ StartMove(w) \/ MoveFailed(w) \/ MoveOn(w) \/ ReadCounter(w)
  \/ \E l \in Locks : MoveBuckets(w, l)

\* The steps of a worker.
LEMMA WorkerSteps ==
  ASSUME MapInv, NEW w \in Threads, Step(w)
  PROVE  \/ SilentHere(w)
         \/ InsertDuplicate(w) \/ InsertIntoBucket(w) \/ FinishInsert(w)
         \/ CheckLoadFactor(w) \/ FastDouble(w) \/ TakeExpansionLock(w) \/ Resize(w)
         \/ FinishDouble(w) \/ ExpandTooLarge(w) \/ ExpandLockAll(w) \/ ExpandOvertaken(w)
         \/ ExpandSimple(w) \/ ExpandUnlock(w)
<1>1. th[w].pc # "idle" => Op(w) = "insert"
  BY InsertingHere
<1>2. ~ Lookup(w) /\ ~ Erase(w) /\ ~ Update(w) /\ ~ Clear(w)
  BY <1>1 DEF Lookup, Erase, Update, Clear, HasBuckets, At, Upserts
<1>3. ~ SizeReturns(w) /\ ~ SetLimit(w)
  BY <1>1 DEF SizeReturns, SetLimit, Summed, At
<1>4. ~ Rehash(w) /\ ~ StartLockAll(w) /\ ~ ReleaseLockedTable(w)
  BY InsertingHere DEF Rehash, StartLockAll, ReleaseLockedTable, At
<1> QED
  BY <1>2, <1>3, <1>4 DEF Step, SilentHere

\* An insertion ends with the item added, or with a key that was there before: without
\* limits it does not throw.
LEMMA InsertionResult ==
  ASSUME MapInv, NewInv, NEW w \in Threads, Step(w)
  PROVE  /\ UNCHANGED limits
         /\ \/ UNCHANGED interface
            \/ Return(w, Result("ok", NoVal))
            \/ Return(w, Result("failure_key_duplicated", NoVal))
<1>1. th[w].pc # "idle" => Op(w) = "insert"
  BY InsertingHere
<1>2. CASE SilentHere(w)
  BY <1>2 DEF SilentHere, SnapshotAndLockTwo, LockStep, LockFailed, RunCuckoo, PeekFailed,
     SearchOn, SearchFailed, SearchFound, FollowPath, StartMove, MoveFailed, MoveOn,
     ReadCounter, MoveBuckets, Peek, Restart
<1>3. CASE InsertDuplicate(w) \/ InsertIntoBucket(w) \/ FinishInsert(w)
  <2>1. Op(w) = "insert"
    BY <1>1, <1>3 DEF InsertDuplicate, InsertIntoBucket, FinishInsert, Inserting, HasBuckets,
                      HasMoveLocks, At
  <2> QED
    BY <1>3, <2>1 DEF InsertDuplicate, InsertIntoBucket, FinishInsert, Duplicated
<1>4. CASE CheckLoadFactor(w)
  <2>1. th[w].acc \in Nat /\ th[w].hp \in Nat
    BY ThreadFacts DEF MapInv, Locals
  <2>2. hashsize(th[w].hp) \in Nat /\ SLOT_PER_BUCKET \in Nat
    BY <2>1, TableSize, SlotAssumption
  <2>3. ~ TooLow(th[w].acc, th[w].hp)
    <3> DEFINE n == SLOT_PER_BUCKET
               m == hashsize(th[w].hp)
    <3>1. 0 * n * m = 0
      BY <2>2
    <3> HIDE DEF n, m
    <3>2. ~ (th[w].acc * 100 < 0 * n * m)
      BY <2>1, <3>1
    <3> QED
      BY <3>2 DEF TooLow, NewInv, n, m
  <2> QED
    BY <1>4, <2>3 DEF CheckLoadFactor
<1>5. CASE FastDouble(w) \/ ExpandTooLarge(w)
  BY <1>5 DEF FastDouble, ExpandTooLarge, TooLarge, NewInv
<1>6. CASE \/ TakeExpansionLock(w) \/ Resize(w) \/ FinishDouble(w) \/ ExpandLockAll(w)
           \/ ExpandSimple(w)
  BY <1>6 DEF TakeExpansionLock, Resize, FinishDouble, ExpandLockAll, ExpandSimple, Expanded,
              Restart
<1>7. CASE ExpandOvertaken(w) \/ ExpandUnlock(w)
  <2>1. Op(w) = "insert"
    BY <1>1, <1>7 DEF ExpandOvertaken, ExpandUnlock, At
  <2> QED
    BY <1>7, <2>1 DEF ExpandOvertaken, ExpandUnlock, ExpandReturns, Expanded, Restart
<1> QED
  BY <1>2, <1>3, <1>4, <1>5, <1>6, <1>7, WorkerSteps

\* A greater table has a greater hashpower.
LEMMA SizesOrdered ==
  ASSUME NEW h \in Nat, NEW n \in Nat, hashsize(h) <= hashsize(n)
  PROVE  h <= n
<1> DEFINE S == {d \in Nat : hashsize(n + d) >= hashsize(n)}
<1>1. 0 \in S
  <2>1. n + 0 = n
    OBVIOUS
  <2> QED
    BY <2>1, TableSize
<1>2. \A d \in S : d + 1 \in S
  <2> SUFFICES ASSUME NEW d \in S PROVE d + 1 \in S
    OBVIOUS
  <2> DEFINE m == n + d
  <2>1. m \in Nat /\ n + (d + 1) = m + 1
    OBVIOUS
  <2>2. hashsize(n) \in Nat /\ hashsize(m) \in Nat /\ hashsize(m) >= hashsize(n)
    BY TableSize
  <2>3. hashsize(m + 1) = 2 * hashsize(m)
    BY <2>1, TableSize
  <2> HIDE DEF m
  <2>4. hashsize(m + 1) >= hashsize(n)
    BY <2>2, <2>3
  <2> QED
    BY <2>1, <2>4
<1>3. S = Nat
  <2>1. S \subseteq Nat
    OBVIOUS
  <2> HIDE DEF S
  <2> QED
    BY <1>1, <1>2, <2>1, SetInduction
<1>4. CASE h > n
  <2> DEFINE d == h - 1 - n
  <2>1. d \in Nat /\ n + d = h - 1 /\ h - 1 \in Nat /\ (h - 1) + 1 = h
    BY <1>4
  <2>2. hashsize(h - 1) >= hashsize(n)
    <3>1. d \in S
      BY <1>3, <2>1
    <3> QED
      BY <2>1, <3>1
  <2> HIDE DEF d
  <2>3. hashsize(h) = 2 * hashsize(h - 1) /\ hashsize(h - 1) \in Nat /\ hashsize(h - 1) > 0
    BY <2>1, TableSize
  <2>4. hashsize(n) \in Nat
    BY TableSize
  <2> QED
    BY <2>2, <2>3, <2>4
<1> QED
  BY <1>4

\* reserve_calc gives at least the hashpower of a table that is just large enough.
LEMMA ReserveForTable ==
  ASSUME NEW n \in Nat
  PROVE  /\ reserve_calc(hashsize(n) * SLOT_PER_BUCKET) \in Nat
         /\ reserve_calc(hashsize(n) * SLOT_PER_BUCKET) >= n
<1> DEFINE s == SLOT_PER_BUCKET
           m == hashsize(n) * s
           h == reserve_calc(m)
<1>1. s \in Nat /\ s > 0 /\ hashsize(n) \in Nat
  BY SlotAssumption, TableSize
<1> HIDE DEF s
<1>2. m \in Nat
  BY <1>1
<1>3. h \in Nat /\ m <= hashsize(h) * SLOT_PER_BUCKET
  <2> HIDE DEF m
  <2> QED
    BY <1>2, ReserveCalcCorrect
<1> HIDE DEF h
<1>4. hashsize(n) * s <= hashsize(h) * s
  BY <1>3 DEF s
<1>5. hashsize(h) \in Nat
  BY <1>3, TableSize
<1>6. hashsize(n) <= hashsize(h)
  <2> SUFFICES ASSUME NEW a \in Nat, NEW b \in Nat, a * s <= b * s PROVE a <= b
    BY <1>1, <1>4, <1>5
  <2>1. CASE a > b
    <3> DEFINE d == a - b
    <3>1. d \in Nat /\ d >= 1 /\ a = b + d
      BY <2>1
    <3> HIDE DEF d
    <3>2. d * s >= s
      BY <1>1, <3>1
    <3>3. a * s = b * s + d * s
      BY <1>1, <3>1
    <3> QED
      BY <1>1, <3>2, <3>3
  <2> QED
    BY <2>1
<1>7. n <= h
  BY <1>3, <1>6, SizesOrdered
<1> QED
  BY <1>3, <1>7 DEF h, m, s

\* new_map never shrinks while items are inserted.
LEMMA HashpowerGrows ==
  ASSUME HashPowers = Nat, MapInv, NewInv, NEW w \in Threads, Step(w)
  PROVE  hashpower' \in Nat /\ hashpower' >= hashpower
<1>1. hashpower \in Nat /\ th[w] \in Locals /\ ExpansionOK(w)
  BY ThreadFacts DEF MapInv, LocksInv, LocksTypeOK
<1>2. CASE SilentHere(w)
  <2>1. CASE LockStep(w) \/ LockFailed(w)
    BY <1>1, <2>1 DEF LockStep, LockFailed, TakeLock, HashpowerUnchanged, HashpowerChanged
  <2>2. CASE SnapshotAndLockTwo(w) \/ StartMove(w)
    BY <1>1, <2>2 DEF SnapshotAndLockTwo, StartMove, LockBuckets
  <2>3. CASE RunCuckoo(w) \/ MoveFailed(w) \/ MoveOn(w)
    BY <1>1, <2>3, UnlockKeepsHashpower DEF RunCuckoo, MoveFailed, MoveOn
  <2>4. CASE \/ PeekFailed(w) \/ SearchOn(w) \/ SearchFailed(w) \/ SearchFound(w)
             \/ FollowPath(w) \/ ReadCounter(w)
    <3>1. UNCHANGED locksVars
      BY <2>4 DEF PeekFailed, SearchOn, SearchFailed, SearchFound, FollowPath, ReadCounter,
                  Peek
    <3> QED
      BY <1>1, <3>1 DEF locksVars
  <2>5. CASE \E l \in Locks : MoveBuckets(w, l)
    BY <1>1, <2>5 DEF MoveBuckets, Unlock
  <2> QED
    BY <1>2, <2>1, <2>2, <2>3, <2>4, <2>5 DEF SilentHere
<1>3. CASE \/ InsertDuplicate(w) \/ InsertIntoBucket(w) \/ FinishInsert(w)
           \/ CheckLoadFactor(w) \/ FastDouble(w) \/ TakeExpansionLock(w)
           \/ FinishDouble(w) \/ ExpandTooLarge(w) \/ ExpandLockAll(w) \/ ExpandOvertaken(w)
           \/ ExpandUnlock(w)
  BY <1>1, <1>3, UnlockKeepsHashpower
     DEF InsertDuplicate, InsertIntoBucket, FinishInsert, CheckLoadFactor, FastDouble,
         TakeExpansionLock, FinishDouble, ExpandTooLarge, ExpandLockAll, ExpandOvertaken,
         ExpandUnlock, LockAll, locksVars
<1>4. CASE Resize(w)
  BY <1>1, <1>4 DEF Resize, At, ExpansionOK, set_hashpower
<1>5. CASE ExpandSimple(w)
  <2> DEFINE n == th[w].new_hp
             r == reserve_calc(hashsize(n) * SLOT_PER_BUCKET)
  <2>1. PICK h \in Nat : h >= r /\ hashpower' = h
    BY <1>5 DEF ExpandSimple, set_hashpower
  <2>2. th[w].grow
    BY <1>5 DEF ExpandSimple, At, NewInv
  <2>3. n \in Nat /\ n > hashpower
    BY <1>1, <1>5, <2>2 DEF ExpandSimple, Overtaken, Locals
  <2> HIDE DEF n
  <2>4. r \in Nat /\ r >= n
    BY <2>3, ReserveForTable
  <2> HIDE DEF r
  <2> QED
    BY <1>1, <2>1, <2>3, <2>4
<1> QED
  BY <1>2, <1>3, <1>4, <1>5, WorkerSteps

\* An insertion that rebuilds new_map does so because it is full.
LEMMA GrowsKept ==
  ASSUME MapInv, NewInv, NEW w \in Threads, Step(w), NEW u \in Threads,
         th'[u].pc \in {"expand", "rebuild"}
  PROVE  th'[u].grow
<1>1. /\ th \in [Threads -> Locals] /\ th[w] \in Locals
      /\ th[u].pc \in {"expand", "rebuild"} => th[u].grow
  BY DEF MapInv, ControlInv, NewInv
<1>2. CASE th'[u] = th[u]
  BY <1>1, <1>2
<1>3. CASE LockStep(w)
  BY <1>1, <1>3 DEF LockStep
<1>4. CASE \/ \E r : Return(w, r)
           \/ \E n : Restart(w, n)
  <2>1. th'[u] = th[u] \/ th'[u].pc \in {"idle", "snapshot"}
    BY <1>1, <1>4 DEF Return, Restart, Goto, Local
  <2> QED
    BY <1>2, <2>1
<1>5. CASE \/ SnapshotAndLockTwo(w) \/ RunCuckoo(w) \/ MoveFailed(w) \/ SearchFailed(w)
           \/ SearchFound(w)
  <2>1. th'[u] = th[u] \/ th'[u].pc \in {"op", "search", "sum", "double", "path"}
    <3>1. CASE SnapshotAndLockTwo(w)
      BY <1>1, <3>1 DEF SnapshotAndLockTwo, Goto, Local
    <3>2. CASE RunCuckoo(w) \/ MoveFailed(w)
      BY <1>1, <3>2 DEF RunCuckoo, MoveFailed, SlotSearch, Goto, Local
    <3>3. CASE SearchFailed(w)
      BY <1>1, <3>3 DEF SearchFailed, Goto, Local
    <3>4. CASE SearchFound(w)
      BY <1>1, <3>4 DEF SearchFound, Goto, Local
    <3> QED
      BY <1>5, <3>1, <3>2, <3>3, <3>4
  <2> QED
    BY <1>2, <2>1
<1>6. CASE \/ SearchOn(w) \/ StartMove(w) \/ MoveOn(w) \/ ReadCounter(w)
  <2>1. th'[u] = th[u] \/ th'[u].pc \in {"search", "moving", "move", "sum"}
    <3>1. CASE SearchOn(w)
      <4>1. /\ \/ \E q, i : Goto(w, [th[w] EXCEPT !.i = i, !.q = q])
               \/ \E q, x : Goto(w, [th[w] EXCEPT !.x = x, !.q = q, !.i = 0])
            /\ th[w].pc = "search"
        <5> DEFINE q == SearchQueue(w)
        <5>1. \/ Goto(w, [th[w] EXCEPT !.i = @ + 1, !.q = q])
              \/ Goto(w, [th[w] EXCEPT !.x = Head(q), !.q = Tail(q), !.i = 0])
          BY <3>1 DEF SearchOn
        <5> HIDE DEF q
        <5> QED
          BY <3>1, <5>1 DEF SearchOn, At
      <4> QED
        <5>1. ASSUME NEW q, NEW i, Goto(w, [th[w] EXCEPT !.i = i, !.q = q])
              PROVE  th'[u] = th[u] \/ th'[u].pc = th[w].pc
          BY <1>1, <5>1 DEF Goto, Locals
        <5>2. ASSUME NEW q, NEW x, Goto(w, [th[w] EXCEPT !.x = x, !.q = q, !.i = 0])
              PROVE  th'[u] = th[u] \/ th'[u].pc = th[w].pc
          BY <1>1, <5>2 DEF Goto, Locals
        <5> QED
          BY <4>1, <5>1, <5>2
    <3>2. CASE StartMove(w)
      BY <1>1, <3>2 DEF StartMove, Goto, Locals, At
    <3>3. CASE MoveOn(w)
      BY <1>1, <3>3 DEF MoveOn, Goto, Locals, At
    <3>4. CASE ReadCounter(w)
      BY <1>1, <3>4 DEF ReadCounter, Goto, Locals, At
    <3> QED
      BY <1>6, <3>1, <3>2, <3>3, <3>4
  <2> QED
    BY <1>2, <2>1
<1>7. CASE FollowPath(w)
  <2>1. th'[u] = th[u] \/ th'[u].pc \in {"path", "move"}
    BY <1>1, <1>7 DEF FollowPath, Goto, Local, Locals, At
  <2> QED
    BY <1>2, <2>1
<1>8. CASE \/ \E l \in Locks : MoveBuckets(w, l)
           \/ TakeExpansionLock(w) /\ ~ \E n : Restart(w, n)
           \/ Resize(w) \/ ExpandSimple(w)
  <2>1. th'[u] = th[u] \/ th'[u].pc \in {"drain", "resize", "rebuilt"}
    <3>1. CASE \E l \in Locks : MoveBuckets(w, l)
      BY <1>1, <3>1 DEF MoveBuckets, Goto, Locals, At
    <3>2. CASE TakeExpansionLock(w) /\ ~ \E n : Restart(w, n)
      BY <1>1, <3>2 DEF TakeExpansionLock, Expanded, Goto, Locals, At
    <3>3. CASE Resize(w)
      BY <1>1, <3>3 DEF Resize, Goto, Locals, At
    <3>4. CASE ExpandSimple(w)
      BY <1>1, <3>4 DEF ExpandSimple, Goto, Locals, At
    <3> QED
      BY <1>8, <3>1, <3>2, <3>3, <3>4
  <2> QED
    BY <1>2, <2>1
<1>9. CASE CheckLoadFactor(w) /\ ~ \E r : Return(w, r)
  <2>1. th'[u] = th[u] \/ th'[u].pc = "double"
    BY <1>1, <1>9 DEF CheckLoadFactor, Goto, Local
  <2> QED
    BY <1>2, <2>1
<1>10. CASE FastDouble(w) /\ ~ \E r : Return(w, r)
  <2>1. th'[u] = th[u] \/ th'[u].pc = "explock" \/ th'[u].grow = TRUE
    <3>1. \/ Goto(w, [th[w] EXCEPT !.pc = "explock"])
          \/ \E hp : Goto(w, [th[w] EXCEPT !.pc = "expand", !.new_hp = hp, !.grow = TRUE])
      BY <1>10 DEF FastDouble, ThrowTooLarge
    <3> QED
      BY <1>1, <3>1 DEF Goto, Locals
  <2> QED
    BY <1>2, <2>1
<1>11. CASE ExpandLockAll(w)
  <2>1. th'[u] = th[u] \/ (th'[u].grow = th[w].grow /\ th[w].pc = "expand")
    BY <1>1, <1>11 DEF ExpandLockAll, Goto, Locals, At
  <2> QED
    BY <1>2, <2>1 DEF NewInv
<1>12. Op(w) = "insert" \/ th[w].pc = "idle"
  BY InsertingHere
<1>13. CASE \/ InsertDuplicate(w) \/ InsertIntoBucket(w) \/ FinishInsert(w)
            \/ ExpandTooLarge(w)
  BY <1>4, <1>13 DEF InsertDuplicate, InsertIntoBucket, FinishInsert, Duplicated,
     ExpandTooLarge, ThrowTooLarge
<1>14. CASE \/ ExpandOvertaken(w) \/ ExpandUnlock(w) \/ FinishDouble(w) \/ LockFailed(w)
            \/ PeekFailed(w)
  BY <1>4, <1>14 DEF ExpandOvertaken, ExpandUnlock, ExpandReturns, FinishDouble, Expanded,
     LockFailed, PeekFailed
<1> QED
  BY <1>3, <1>4, <1>5, <1>6, <1>7, <1>8, <1>9, <1>10, <1>11, <1>13, <1>14, WorkerSteps
     DEF SilentHere

\* The facts about new_map are kept.
LEMMA NewInvKept ==
  ASSUME HashPowers = Nat, LinearInv, NewInv, OldInv, WorkersInv, [ThrowingNext]_rebuildVars
  PROVE  NewInv'
<1>1. MapInv
  BY DEF LinearInv
<1>2. ASSUME NEW w \in Threads, InsertStep(w) PROVE NewInv'
  <2>1. Step(w)
    BY <1>2 DEF InsertStep
  <2>2. UNCHANGED limits
    BY <1>1, <2>1, InsertionResult
  <2>3. hashpower \in Nat /\ InitialHashpower \in Nat
    BY <1>1, InitialAssumption DEF MapInv, ControlInv, LocksInv, LocksTypeOK
  <2>4. hashpower' >= InitialHashpower
    BY <1>1, <2>1, <2>3, HashpowerGrows DEF NewInv
  <2>5. \A u \in Threads : th'[u].pc \in {"expand", "rebuild"} => th'[u].grow
    BY <1>1, <2>1, GrowsKept
  <2> QED
    BY <2>2, <2>4, <2>5 DEF NewInv, limits
<1>3. ASSUME NEW w \in Threads, InsertItem(w) PROVE NewInv'
  <2>1. PICK c \in Calls : Call(w, c)
    BY <1>3, InsertItemCalls
  <2>2. UNCHANGED <<hashpower, limits>>
    BY <2>1 DEF Call, locksVars
  <2>3. th' = [th EXCEPT ![w] = Local("snapshot")]
    BY <2>1, WorkersCall DEF Call, Goto
  <2>4. \A u \in Threads : th'[u] = th[u] \/ th'[u].pc = "snapshot"
    BY <1>1, <2>3 DEF Local, MapInv, ControlInv
  <2> QED
    BY <2>2, <2>4 DEF NewInv, limits
<1>4. CASE UNCHANGED mapVars
  BY <1>4 DEF mapVars, NewInv, limits, locksVars
<1> QED
  BY <1>2, <1>3, <1>4, StepsInNewMap

-----------------------------------------------------------------------------
(***************************************************************************)
(* The workers and the old table.                                          *)
(***************************************************************************)

\* The items of the old table.
LEMMA OldItemFacts ==
  ASSUME OldInv, NEW i \in OldTable, NEW s \in Slots
  PROVE  /\ Unmoved(i, s) =>
              /\ old[i][s].key \in DOMAIN OldMap /\ old[i][s].key \in Keys
              /\ old[i][s].val = OldMap[old[i][s].key]
         /\ \A k : Unmoved(i, s) /\ old[i][s].key = k => k \in InOld
<1>1. DOMAIN old = OldTable
  BY DEF OldInv
<1>2. ASSUME Unmoved(i, s)
      PROVE  /\ old[i][s].key \in DOMAIN OldMap /\ old[i][s].key \in Keys
             /\ old[i][s].val = OldMap[old[i][s].key]
  <2>1. old[i][s] \in OldItems
    BY <1>2 DEF OldInv, Unmoved
  <2>2. PICK k \in DOMAIN OldMap : old[i][s] = Item(k, OldMap[k])
    BY <2>1 DEF OldItems
  <2> QED
    BY <2>2, OldTableAssumption DEF Item
<1> QED
  BY <1>1, <1>2 DEF InOld, Unmoved

\* Whose items are still there.
LEMMA InOldMeans ==
  ASSUME OldInv
  PROVE  \A k : k \in InOld <=>
           \E i \in OldTable, s \in Slots : Unmoved(i, s) /\ old[i][s].key = k
<1>1. DOMAIN old = OldTable
  BY DEF OldInv
<1> QED
  BY <1>1, OldItemFacts DEF InOld, Unmoved

\* Task gives the next item that is left in a bucket.
LEMMA TaskFacts ==
  ASSUME NEW i \in OldTable, NEW s \in Nat, \A r \in Slots : r >= s => old[i][r] # Hollowed
  PROVE  \/ Task(i, s) = NoTask /\ \A r \in Slots : r >= s => ~ Unmoved(i, r)
         \/ \E r \in Slots : /\ Task(i, s) = <<i, r>> /\ Task(i, s) # NoTask /\ r >= s
                             /\ Unmoved(i, r)
                             /\ \A q \in Slots : q >= s /\ q < r => ~ Unmoved(i, q)
<1> DEFINE S == {r \in Slots : r >= s /\ old[i][r] # Vacant}
<1>0. Slots \subseteq Nat
  BY SlotAssumption DEF Slots
<1>1. Task(i, s) = IF S = {} THEN NoTask ELSE <<i, Min(S)>>
  BY DEF Task
<1>2. CASE S = {}
  BY <1>1, <1>2 DEF Unmoved
<1>3. CASE S # {}
  <2> DEFINE m == Min(S)
  <2>1. S \in SUBSET Nat
    BY <1>0
  <2>2. m \in S /\ \A q \in S : m <= q
    <3> HIDE DEF S
    <3>1. \E n \in S : \A q \in S : n <= q
      BY <1>3, <2>1, LeastElement
    <3> QED
      BY <3>1 DEF Min
  <2>3. Task(i, s) = <<i, m>>
    BY <1>1, <1>3
  <2> HIDE DEF m
  <2>4. m \in Slots /\ m >= s /\ Unmoved(i, m)
    BY <2>2 DEF Unmoved
  <2>5. \A q \in Slots : q >= s /\ q < m => ~ Unmoved(i, q)
    BY <1>0, <2>2 DEF Unmoved
  <2>6. <<i, m>> # NoTask
    BY <2>4, HollowedAssumption DEF OldTable, InTable
  <2> QED
    BY <2>3, <2>4, <2>5, <2>6
<1> QED
  BY <1>2, <1>3

\* A worker that takes a bucket, or goes on after its item, is at the next item of its
\* bucket, if there is one.
LEMMA NextTask ==
  ASSUME OldInv, WorkersInv, NEW w \in Threads, NEW i \in OldTable, NEW s \in Nat,
         \A r \in Slots : r >= s => old[i][r] # Hollowed,
         task' = [task EXCEPT ![w] = Task(i, s)],
         pending' \subseteq pending, i \notin pending',
         \A v \in Threads : v # w /\ task[v] # NoTask => task[v][1] # i,
         old' \in [OldTable -> [Slots -> OldItems \union {Vacant, Hollowed}]],
         \A j \in OldTable, r \in Slots : j # i \/ r >= s => old'[j][r] = old[j][r],
         \A v \in Threads : call'[v] # NoCall => v # w /\ call'[v] = call[v]
  PROVE  WorkersInv'
<1>0. Slots \subseteq Nat
  BY SlotAssumption DEF Slots
<1>1. \A v \in Threads : task'[v] = IF v = w THEN Task(i, s) ELSE task[v]
  BY DEF WorkersInv
<1>2. DOMAIN task' = Threads
  BY DEF WorkersInv
<1>3. \/ task'[w] = NoTask
      \/ \E r \in Slots : task'[w] = <<i, r>> /\ r >= s /\ Unmoved(i, r)
  BY <1>1, TaskFacts
<1>4. pending' \subseteq OldTable /\ \A j \in pending', r \in Slots : old'[j][r] # Hollowed
  BY DEF WorkersInv
<1>5. ASSUME task'[w] # NoTask PROVE TaskOK(w)'
  <2>1. PICK r \in Slots : task'[w] = <<i, r>> /\ r >= s /\ Unmoved(i, r)
    BY <1>3, <1>5
  <2>2. old'[i][r] = old[i][r]
    BY <2>1
  <2>3. \A q \in Slots : q > r => old'[i][q] # Hollowed
    <3> SUFFICES ASSUME NEW q \in Slots, q > r PROVE old'[i][q] # Hollowed
      OBVIOUS
    <3>1. q >= s
      BY <1>0, <2>1
    <3> QED
      BY <3>1
  <2> DEFINE p == task'[w]
  <2>p. p = <<i, r>>
    BY <2>1
  <2> HIDE DEF p
  <2>4. p \in OldTable \X Slots /\ p[1] = i /\ p[2] = r
    BY <2>p
  <2>5. p[1] \notin pending' /\ old'[p[1]][p[2]] \notin {Vacant, Hollowed}
    BY <2>1, <2>2, <2>4 DEF Unmoved
  <2>6. \A q \in Slots : q > p[2] => old'[p[1]][q] # Hollowed
    BY <2>3, <2>4
  <2> QED
    BY <2>4, <2>5, <2>6 DEF TaskOK, Unmoved, p
<1>6. ASSUME NEW v \in Threads, v # w, task'[v] # NoTask
      PROVE  TaskOK(v)' /\ task'[v][1] # i /\ old'[task'[v][1]] = old[task'[v][1]]
  <2>1. task'[v] = task[v] /\ TaskOK(v) /\ task[v][1] # i
    BY <1>1, <1>6 DEF WorkersInv
  <2> DEFINE j == task[v][1]
  <2>2. j \in OldTable /\ task[v][2] \in Slots
    BY <2>1 DEF TaskOK
  <2> HIDE DEF j
  <2>3. old'[j] = old[j]
    <3>1. \A r \in Slots : old'[j][r] = old[j][r]
      BY <2>1, <2>2 DEF j
    <3>2. old'[j] \in [Slots -> OldItems \union {Vacant, Hollowed}]
      BY <2>2
    <3>3. old[j] \in [Slots -> OldItems \union {Vacant, Hollowed}]
      BY <2>2 DEF OldInv
    <3> QED
      BY <3>1, <3>2, <3>3
  <2> QED
    BY <2>1, <2>2, <2>3 DEF TaskOK, Unmoved, j
<1>7. ASSUME NEW u \in Threads, NEW v \in Threads, u # v, task'[u] # NoTask,
             task'[v] # NoTask
      PROVE  task'[u][1] # task'[v][1]
  <2>1. ASSUME NEW x \in Threads, x # w, task'[x] # NoTask, task'[w] # NoTask
        PROVE  task'[x][1] # task'[w][1]
    <3>1. task'[w][1] = i
      BY <1>3, <2>1
    <3> QED
      BY <1>6, <2>1, <3>1
  <2>2. CASE u = w \/ v = w
    BY <1>7, <2>1, <2>2
  <2>3. CASE u # w /\ v # w
    BY <1>1, <1>7, <2>3 DEF WorkersInv
  <2> QED
    BY <2>2, <2>3
<1>8. ASSUME NEW v \in Threads, call'[v] # NoCall
      PROVE  task'[v] # NoTask /\ call'[v] = Insertion(old'[task'[v][1]][task'[v][2]])
  <2>1. v # w /\ call'[v] = call[v] /\ task'[v] = task[v]
    BY <1>1, <1>8
  <2>2. task[v] # NoTask /\ call[v] = Insertion(old[task[v][1]][task[v][2]])
    BY <1>8, <2>1 DEF WorkersInv
  <2> QED
    BY <1>6, <2>1, <2>2
<1> QED
  BY <1>2, <1>4, <1>5, <1>6, <1>7, <1>8 DEF WorkersInv

\* A step in which no worker goes on leaves the workers where they are.
LEMMA SameTasks ==
  ASSUME WorkersInv, UNCHANGED <<old, pending, task>>,
         \A v \in Threads :
           \/ call'[v] = call[v]
           \/ task[v] # NoTask /\ call'[v] = Insertion(old[task[v][1]][task[v][2]])
  PROVE  WorkersInv'
<1>1. \A v \in Threads : task[v] # NoTask => TaskOK(v)'
  BY DEF WorkersInv, TaskOK, Unmoved
<1> QED
  BY <1>1 DEF WorkersInv

\* What is left to do stays so while no worker goes on.
LEMMA SameWork ==
  ASSUME WorkLeft, UNCHANGED <<old, pending, task, phase>>
  PROVE  WorkLeft'
BY DEF WorkLeft, Unmoved, AllDone

\* The items that are left are those of old.
LEMMA SameOld ==
  ASSUME UNCHANGED old
  PROVE  InOld' = InOld /\ (OldInv => OldInv')
BY DEF InOld, OldInv, Unmoved

\* A worker takes a bucket.
LEMMA TakeBucketInv ==
  ASSUME OldInv, WorkersInv, WorkLeft, NEW w \in Threads, TakeBucket(w)
  PROVE  WorkersInv' /\ WorkLeft'
<1>1. PICK i \in pending : /\ pending' = pending \ {i} /\ task' = [task EXCEPT ![w] = Task(i, 0)]
                          /\ task[w] = NoTask /\ UNCHANGED <<mapVars, old, phase>>
  BY DEF TakeBucket
<1>2. i \in OldTable /\ \A r \in Slots : old[i][r] # Hollowed
  BY <1>1 DEF WorkersInv
<1>3. \A v \in Threads : v # w /\ task[v] # NoTask => task[v][1] # i
  BY <1>1 DEF WorkersInv, TaskOK
<1>4. \A v \in Threads : call'[v] # NoCall => v # w /\ call'[v] = call[v]
  BY <1>1 DEF WorkersInv, mapVars, interface
<1>5. old' = old /\ old \in [OldTable -> [Slots -> OldItems \union {Vacant, Hollowed}]]
  BY <1>1 DEF OldInv
<1>6. WorkersInv'
  BY <1>1, <1>2, <1>3, <1>4, <1>5, NextTask
<1>7. \A v \in Threads : task'[v] = IF v = w THEN Task(i, 0) ELSE task[v]
  BY <1>1 DEF WorkersInv
<1>8. Slots \subseteq Nat
  BY SlotAssumption DEF Slots
<1>9. ASSUME NEW j \in OldTable, NEW s \in Slots, Unmoved(j, s)',
             phase \in {"moving", "swapped"}
      PROVE  \/ j \in pending'
             \/ \E v \in Threads : task'[v] # NoTask /\ task'[v][1] = j /\ task'[v][2] <= s
  <2>1. Unmoved(j, s)
    BY <1>5, <1>9 DEF Unmoved
  <2>2. CASE j = i
    <3>0. Unmoved(i, s) /\ \A q \in Slots : q >= 0
      BY <1>8, <2>1, <2>2
    <3>1. PICK r \in Slots : /\ Task(i, 0) = <<i, r>> /\ Task(i, 0) # NoTask
                             /\ \A q \in Slots : q >= 0 /\ q < r => ~ Unmoved(i, q)
      BY <1>2, <3>0, TaskFacts
    <3>2. r <= s
      <4>1. Unmoved(i, s)
        BY <2>1, <2>2
      <4> QED
        BY <1>8, <3>1, <4>1
    <3>3. task'[w] = <<i, r>> /\ task'[w] # NoTask
      BY <1>7, <3>1
    <3> QED
      BY <2>2, <3>2, <3>3
  <2>3. CASE j # i
    <3>1. \/ j \in pending
          \/ \E v \in Threads : task[v] # NoTask /\ task[v][1] = j /\ task[v][2] <= s
      BY <1>9, <2>1 DEF WorkLeft
    <3>2. CASE j \in pending
      BY <1>1, <2>3, <3>2
    <3>3. ASSUME NEW v \in Threads, task[v] # NoTask, task[v][1] = j, task[v][2] <= s
          PROVE  task'[v] # NoTask /\ task'[v][1] = j /\ task'[v][2] <= s
      <4>1. v # w
        BY <1>1, <3>3
      <4> QED
        BY <1>7, <3>3, <4>1
    <3> QED
      BY <3>1, <3>2, <3>3
  <2> QED
    BY <2>2, <2>3
<1>10. phase # "swapped"
  BY <1>1 DEF WorkLeft, AllDone
<1>11. WorkLeft'
  BY <1>1, <1>9, <1>10 DEF WorkLeft
<1> QED
  BY <1>6, <1>11


-----------------------------------------------------------------------------
(***************************************************************************)
(* An insertion takes effect in the step in which it returns.              *)
(***************************************************************************)

\* A thread that makes a step is in a call, whose key is that of an old item.
LEMMA SteppingThread ==
  ASSUME MapInv, NEW w \in Threads, Step(w)
  PROVE  call[w] # NoCall /\ call[w] \in Calls
<1>1. th[w].pc # "idle"
  <2>1. th[w].pc = "idle" => req[w].stage = "none"
    BY ThreadFacts DEF MapInv, RequestOK
  <2>2. CASE LockStep(w) \/ LockFailed(w)
    BY <2>1, <2>2 DEF LockStep, LockFailed, TakeLock, HashpowerUnchanged, HashpowerChanged
  <2>3. CASE SilentHere(w) /\ ~ LockStep(w) /\ ~ LockFailed(w)
    BY <2>3 DEF SilentHere, SnapshotAndLockTwo, RunCuckoo, PeekFailed, SearchOn, SearchFailed,
       SearchFound, FollowPath, StartMove, MoveFailed, MoveOn, ReadCounter, MoveBuckets,
       Peek, HasBuckets, HasMoveLocks, Inserting, At
  <2>4. CASE InsertDuplicate(w) \/ InsertIntoBucket(w) \/ FinishInsert(w)
    BY <2>4 DEF InsertDuplicate, InsertIntoBucket, FinishInsert, Inserting, HasBuckets,
                HasMoveLocks, At
  <2>5. CASE CheckLoadFactor(w) \/ FastDouble(w) \/ TakeExpansionLock(w) \/ Resize(w)
    BY <2>5 DEF CheckLoadFactor, FastDouble, TakeExpansionLock, Resize, Summed, At
  <2>6. CASE FinishDouble(w) \/ ExpandTooLarge(w) \/ ExpandLockAll(w) \/ ExpandOvertaken(w)
             \/ ExpandSimple(w) \/ ExpandUnlock(w)
    BY <2>6 DEF FinishDouble, ExpandTooLarge, ExpandLockAll, ExpandOvertaken, ExpandSimple,
                ExpandUnlock, At
  <2> QED
    BY <2>2, <2>3, <2>4, <2>5, <2>6, WorkerSteps
<1> QED
  BY <1>1, ThreadFacts DEF MapInv, CallOK

\* The insertion of a key that the table does not have adds it when it returns, and is not
\* seen before.
LEMMA InsertionEffect ==
  ASSUME HashPowers = Nat, LinearInv, LinearInv', NewInv, NEW w \in Threads, Step(w),
         NEW c, call[w] = c, Contents[c.key] = NoVal
  PROVE  \/ UNCHANGED <<Contents, call, ret>>
         \/ /\ Contents' = [Contents EXCEPT ![c.key] = c.val]
            /\ call' = [call EXCEPT ![w] = NoCall]
            /\ ret' = [ret EXCEPT ![w] = Result("ok", NoVal)]
<1>1. MapInv /\ MapInv'
  BY DEF LinearInv
<1>2. c # NoCall /\ c.op = "insert"
  BY <1>1, SteppingThread, WorkersCall
<1>3. TakesEffect(w)
  BY <1>1, EffectOfStep
<1>4. ASSUME NEW r, Ends(w, r), Abstract!Effect(c, r)
      PROVE  \/ UNCHANGED <<Contents, call, ret>>
             \/ /\ Contents' = [Contents EXCEPT ![c.key] = c.val]
                /\ call' = [call EXCEPT ![w] = NoCall]
                /\ ret' = [ret EXCEPT ![w] = Result("ok", NoVal)]
  <2>1. call' = [call EXCEPT ![w] = NoCall] /\ ret' = [ret EXCEPT ![w] = r]
    BY <1>4 DEF Ends, Return
  <2>2. call'[w] # call[w]
    BY <1>1, <1>2, <2>1 DEF MapInv, ControlInv
  <2>3. \/ ret' = [ret EXCEPT ![w] = Result("ok", NoVal)]
        \/ ret' = [ret EXCEPT ![w] = Result("failure_key_duplicated", NoVal)]
    BY <1>1, <2>2, InsertionResult DEF Return, interface
  <2>4. DOMAIN ret = Threads
    BY DEF LinearInv, RetInv
  <2>5. r.st \in {"ok", "failure_key_duplicated"}
    <3>1. ret'[w] = r
      BY <2>1, <2>4
    <3>2. ret'[w] \in {Result("ok", NoVal), Result("failure_key_duplicated", NoVal)}
      BY <2>3, <2>4
    <3> QED
      BY <3>1, <3>2 DEF Result
  <2>6. Abstract!Sets(c, c.val, "ok", r)
    BY <1>2, <1>4, <2>5 DEF Abstract!Effect, Abstract!Keeps, Abstract!Present, Abstract!Thrown,
                            Abstract!Outcome
  <2> QED
    BY <2>1, <2>6 DEF Abstract!Sets, Abstract!Outcome, Result
<1> QED
  BY <1>3, <1>4 DEF TakesEffect

-----------------------------------------------------------------------------
(***************************************************************************)
(* What the steps of the workers do to the two tables.                     *)
(***************************************************************************)

\* The item a worker inserts is not in the new table yet.
LEMMA InsertsLeftItem ==
  ASSUME OldInv, WorkersInv, MovedInv, NEW w \in Threads, call[w] # NoCall
  PROVE  \E i \in OldTable, s \in Slots :
           /\ task[w] = <<i, s>> /\ task[w] # NoTask /\ TaskOK(w) /\ Unmoved(i, s)
           /\ call[w] = Insertion(old[i][s])
           /\ old[i][s].key \in DOMAIN OldMap /\ old[i][s].key \in Keys
           /\ old[i][s].key \in InOld /\ old[i][s].val = OldMap[old[i][s].key]
           /\ Contents[old[i][s].key] = NoVal
<1>1. /\ task[w] # NoTask /\ TaskOK(w)
      /\ call[w] = Insertion(old[task[w][1]][task[w][2]])
  BY DEF WorkersInv
<1>2. PICK i \in OldTable, s \in Slots : task[w] = <<i, s>>
  BY <1>1 DEF TaskOK
<1>3. Unmoved(i, s) /\ call[w] = Insertion(old[i][s])
  BY <1>1, <1>2 DEF TaskOK
<1>4. /\ old[i][s].key \in DOMAIN OldMap /\ old[i][s].key \in Keys
      /\ old[i][s].val = OldMap[old[i][s].key] /\ old[i][s].key \in InOld
  BY <1>3, OldItemFacts
<1>5. Contents[old[i][s].key] = NoVal
  BY <1>4 DEF MovedInv
<1> QED
  BY <1>1, <1>2, <1>3, <1>4, <1>5

\* A worker starts to insert the item it is at.
LEMMA InsertItemInv ==
  ASSUME OldInv, WorkersInv, WorkLeft, MovedInv, DOMAIN call = Threads,
         NEW w \in Threads, InsertItem(w)
  PROVE  OldInv' /\ WorkersInv' /\ WorkLeft' /\ MovedInv'
<1>1. UNCHANGED <<old, pending, task, phase>> /\ task[w] # NoTask
  BY DEF InsertItem
<1>2. PICK c \in Calls : Call(w, c)
  BY InsertItemCalls
<1>3. Contents' = Contents
  BY <1>2, SameTable DEF Call
<1>4. call' = [call EXCEPT ![w] = Insertion(old[task[w][1]][task[w][2]])]
  BY InsertItemCalls
<1>5. WorkersInv'
  <2>1. \A v \in Threads :
          \/ call'[v] = call[v]
          \/ task[v] # NoTask /\ call'[v] = Insertion(old[task[v][1]][task[v][2]])
    <3> DEFINE m == Insertion(old[task[w][1]][task[w][2]])
    <3>1. call' = [call EXCEPT ![w] = m]
      BY <1>4
    <3> HIDE DEF m
    <3>2. call'[w] = m /\ \A v \in Threads : v # w => call'[v] = call[v]
      BY <3>1
    <3>3. ASSUME NEW v \in Threads
          PROVE  \/ call'[v] = call[v]
                 \/ task[v] # NoTask /\ call'[v] = Insertion(old[task[v][1]][task[v][2]])
      <4>1. CASE v = w
        BY <1>1, <3>2, <4>1 DEF m
      <4>2. CASE v # w
        BY <3>2, <4>2
      <4> QED
        BY <4>1, <4>2
    <3> QED
      BY <3>3
  <2> QED
    BY <1>1, <2>1, SameTasks
<1>6. OldInv' /\ InOld' = InOld
  BY <1>1, SameOld
<1>7. MovedInv'
  BY <1>3, <1>6 DEF MovedInv
<1> QED
  BY <1>1, <1>5, <1>6, <1>7, SameWork

\* An insertion that goes on is not seen.
LEMMA InsertGoesOn ==
  ASSUME OldInv, WorkersInv, WorkLeft, MovedInv, UNCHANGED <<Contents, call>>,
         UNCHANGED <<old, pending, task, phase>>
  PROVE  OldInv' /\ WorkersInv' /\ WorkLeft' /\ MovedInv'
<1>1. OldInv' /\ InOld' = InOld
  BY SameOld
<1>2. UNCHANGED <<old, pending, task>> /\ call' = call /\ Contents' = Contents
  OBVIOUS
<1>3. WorkersInv'
  <2>1. \A v \in Threads : call'[v] = call[v]
    BY <1>2
  <2> QED
    BY <1>2, <2>1, SameTasks
<1>4. WorkLeft'
  BY SameWork
<1>5. MovedInv'
  BY <1>1, <1>2 DEF MovedInv
<1> QED
  BY <1>1, <1>3, <1>4, <1>5

\* An item that was moved leaves the old table, and no other one does.
LEMMA ItemLeaves ==
  ASSUME OldInv, NEW i \in OldTable, NEW s \in Slots, Unmoved(i, s),
         old' = [old EXCEPT ![i][s] = Hollowed]
  PROVE  /\ OldInv' /\ InOld' = InOld \ {old[i][s].key}
         /\ \A j \in OldTable, r \in Slots :
              IF j = i /\ r = s THEN ~ Unmoved(j, r)' ELSE old'[j][r] = old[j][r]
<1> DEFINE AnyOld == OldItems \union {Vacant, Hollowed}
           k == old[i][s].key
<1>1. old \in [OldTable -> [Slots -> AnyOld]]
  BY DEF OldInv
<1>2. Hollowed \in AnyOld
  OBVIOUS
<1> HIDE DEF AnyOld
<1>3. old' \in [OldTable -> [Slots -> AnyOld]]
  BY <1>1, <1>2
<1>4. \A j \in OldTable, r \in Slots :
        old'[j][r] = IF j = i /\ r = s THEN Hollowed ELSE old[j][r]
  BY <1>1
<1>5. \A j \in OldTable, r \in Slots :
        IF j = i /\ r = s THEN ~ Unmoved(j, r)' ELSE old'[j][r] = old[j][r]
  BY <1>4 DEF Unmoved
<1>6. \A j \in OldTable, r \in Slots :
        Unmoved(j, r)' => Unmoved(j, r) /\ old'[j][r] = old[j][r] /\ (j # i \/ r # s)
  BY <1>5 DEF Unmoved
<1>7. OldInv'
  <2>1. ASSUME NEW j \in OldTable, NEW q \in OldTable, NEW r \in Slots, NEW p \in Slots,
               Unmoved(j, r)', Unmoved(q, p)', old'[j][r].key = old'[q][p].key
        PROVE  j = q /\ r = p
    BY <1>6, <2>1 DEF OldInv
  <2>2. old' \in [OldTable -> [Slots -> OldItems \union {Vacant, Hollowed}]]
    BY <1>3 DEF AnyOld
  <2> QED
    BY <2>1, <2>2 DEF OldInv
<1>8. \A m : m \in InOld' <=>
           \E j \in OldTable, r \in Slots : Unmoved(j, r)' /\ old'[j][r].key = m
  <2>1. DOMAIN old' = OldTable
    BY <1>3
  <2>2. \A j \in OldTable, r \in Slots : Unmoved(j, r)' => old'[j][r].key \in Keys
    BY <1>6, OldItemFacts
  <2> QED
    BY <2>1, <2>2 DEF InOld, Unmoved
<1>9. ASSUME NEW m PROVE m \in InOld' <=> m \in InOld /\ m # k
  <2>1. ASSUME m \in InOld' PROVE m \in InOld /\ m # k
    <3>1. PICK j \in OldTable, r \in Slots : Unmoved(j, r)' /\ old'[j][r].key = m
      BY <1>8, <2>1
    <3>2. Unmoved(j, r) /\ old[j][r].key = m /\ (j # i \/ r # s)
      BY <1>6, <3>1
    <3> QED
      BY <3>2, InOldMeans DEF OldInv
  <2>2. ASSUME m \in InOld, m # k PROVE m \in InOld'
    <3>1. PICK j \in OldTable, r \in Slots : Unmoved(j, r) /\ old[j][r].key = m
      BY <2>2, InOldMeans
    <3>2. old'[j][r] = old[j][r]
      BY <1>5, <2>2, <3>1
    <3> QED
      BY <1>8, <3>1, <3>2 DEF Unmoved
  <2> QED
    BY <2>1, <2>2
<1> QED
  BY <1>5, <1>7, <1>9

\* An insertion ends: the item is in the new table and no longer in the old one, and its
\* worker goes on to the next one.
LEMMA InsertEnds ==
  ASSUME OldInv, WorkersInv, WorkLeft, MovedInv, NEW w \in Threads,
         NEW i \in OldTable, NEW s \in Slots,
         task[w] = <<i, s>>, task[w] # NoTask, TaskOK(w), Unmoved(i, s),
         old[i][s].key \in DOMAIN OldMap, old[i][s].val = OldMap[old[i][s].key],
         Contents' = [Contents EXCEPT ![old[i][s].key] = old[i][s].val],
         DOMAIN Contents = Keys, DOMAIN call = Threads,
         call' = [call EXCEPT ![w] = NoCall],
         old' = [old EXCEPT ![i][s] = Hollowed],
         task' = [task EXCEPT ![w] = Task(i, s + 1)],
         UNCHANGED <<pending, phase>>
  PROVE  OldInv' /\ WorkersInv' /\ WorkLeft' /\ MovedInv'
<1>0. Slots \subseteq Nat /\ s \in Nat /\ s + 1 \in Nat
  BY SlotAssumption DEF Slots
<1>1. /\ OldInv' /\ InOld' = InOld \ {old[i][s].key}
      /\ \A j \in OldTable, r \in Slots :
           IF j = i /\ r = s THEN ~ Unmoved(j, r)' ELSE old'[j][r] = old[j][r]
  BY ItemLeaves
<1>2. MovedInv'
  <2> DEFINE k == old[i][s].key
  <2>1. k \in DOMAIN OldMap /\ InOld' = InOld \ {k}
        /\ Contents' = [Contents EXCEPT ![k] = OldMap[k]]
    BY <1>1
  <2> HIDE DEF k
  <2> QED
    BY <2>1 DEF MovedInv
<1>3. i \notin pending /\ \A r \in Slots : r >= s + 1 => old[i][r] # Hollowed
  <2>1. task[w][1] = i /\ task[w][2] = s
    OBVIOUS
  <2>2. i \notin pending /\ \A r \in Slots : r > s => old[i][r] # Hollowed
    BY <2>1 DEF TaskOK
  <2> QED
    BY <1>0, <2>2
<1>4. \A v \in Threads : v # w /\ task[v] # NoTask => task[v][1] # i
  <2>1. task[w][1] = i
    OBVIOUS
  <2> QED
    BY <2>1 DEF WorkersInv
<1>5. \A v \in Threads : task'[v] = IF v = w THEN Task(i, s + 1) ELSE task[v]
  BY DEF WorkersInv
<1>6. WorkersInv'
  <2>1. \A j \in OldTable, r \in Slots : j # i \/ r >= s + 1 => old'[j][r] = old[j][r]
    BY <1>0, <1>1
  <2>2. \A v \in Threads : call'[v] # NoCall => v # w /\ call'[v] = call[v]
    OBVIOUS
  <2>3. old' \in [OldTable -> [Slots -> OldItems \union {Vacant, Hollowed}]]
    BY <1>1 DEF OldInv
  <2> QED
    BY <1>0, <1>3, <1>4, <2>1, <2>2, <2>3, NextTask
<1>7. ASSUME NEW j \in OldTable, NEW r \in Slots, Unmoved(j, r)',
             phase \in {"moving", "swapped"}
      PROVE  \/ j \in pending'
             \/ \E v \in Threads : task'[v] # NoTask /\ task'[v][1] = j /\ task'[v][2] <= r
  <2>1. Unmoved(j, r) /\ (j # i \/ r # s)
    BY <1>1, <1>7 DEF Unmoved
  <2>2. \/ j \in pending
        \/ \E v \in Threads : task[v] # NoTask /\ task[v][1] = j /\ task[v][2] <= r
    BY <1>7, <2>1 DEF WorkLeft
  <2>3. CASE j # i
    <3>1. ASSUME NEW v \in Threads, task[v] # NoTask, task[v][1] = j, task[v][2] <= r
          PROVE  task'[v] # NoTask /\ task'[v][1] = j /\ task'[v][2] <= r
      <4>1. v # w
        BY <2>3, <3>1
      <4> QED
        BY <1>5, <3>1, <4>1
    <3> QED
      BY <2>2, <3>1
  <2>4. CASE j = i
    <3>1. PICK v \in Threads : task[v] # NoTask /\ task[v][1] = i /\ task[v][2] <= r
      BY <1>3, <2>2, <2>4
    <3>2. v = w
      BY <1>4, <3>1
    <3>3. r >= s + 1 /\ Unmoved(i, r)
      BY <1>0, <2>1, <2>4, <3>1, <3>2
    <3>4. PICK q \in Slots : /\ Task(i, s + 1) = <<i, q>> /\ Task(i, s + 1) # NoTask
                             /\ \A p \in Slots : p >= s + 1 /\ p < q => ~ Unmoved(i, p)
      BY <1>0, <1>3, <3>3, TaskFacts
    <3>5. q <= r
      BY <1>0, <3>3, <3>4
    <3>6. task'[w] = <<i, q>> /\ task'[w] # NoTask
      BY <1>5, <3>4
    <3> QED
      BY <2>4, <3>5, <3>6
  <2> QED
    BY <2>3, <2>4
<1>8. phase # "swapped"
  BY DEF WorkLeft, AllDone
<1>9. WorkLeft'
  BY <1>7, <1>8 DEF WorkLeft
<1> QED
  BY <1>1, <1>2, <1>6, <1>9

\* The step of an insertion.
LEMMA InsertStepInv ==
  ASSUME HashPowers = Nat, RebuildInv, LinearInv', NEW w \in Threads, InsertStep(w)
  PROVE  OldInv' /\ WorkersInv' /\ WorkLeft' /\ MovedInv'
<1>1. /\ LinearInv /\ NewInv /\ OldInv /\ WorkersInv /\ WorkLeft /\ MovedInv /\ MapInv
      /\ Step(w)
  BY DEF RebuildInv, LinearInv, InsertStep
<1>2. call[w] # NoCall
  BY <1>1, SteppingThread
<1>3. PICK i \in OldTable, s \in Slots :
        /\ task[w] = <<i, s>> /\ task[w] # NoTask /\ TaskOK(w) /\ Unmoved(i, s)
        /\ call[w] = Insertion(old[i][s])
        /\ old[i][s].key \in DOMAIN OldMap /\ old[i][s].key \in Keys
        /\ old[i][s].key \in InOld /\ old[i][s].val = OldMap[old[i][s].key]
        /\ Contents[old[i][s].key] = NoVal
  BY <1>1, <1>2, InsertsLeftItem
<1>4. /\ DOMAIN call = Threads /\ DOMAIN Contents = Keys /\ DOMAIN ret = Threads
      /\ \A t \in Threads : call[t] # NoCall => call[t] \in Calls
  BY <1>1 DEF MapInv, ControlInv, Contents, LinearInv, RetInv
<1> DEFINE c == Insertion(old[i][s])
<1>5. c.key = old[i][s].key /\ c.val = old[i][s].val
  BY DEF Insertion
<1>6. call[w] = c /\ Contents[c.key] = NoVal
  BY <1>3, <1>5
<1> HIDE DEF c
<1>7. \/ UNCHANGED <<Contents, call, ret>>
      \/ /\ Contents' = [Contents EXCEPT ![c.key] = c.val]
         /\ call' = [call EXCEPT ![w] = NoCall]
         /\ ret' = [ret EXCEPT ![w] = Result("ok", NoVal)]
  BY <1>1, <1>6, InsertionEffect
<1>8. CASE UNCHANGED <<Contents, call, ret>>
  <2>1. UNCHANGED <<old, pending, task, phase>>
    BY <1>2, <1>8 DEF InsertStep
  <2> QED
    BY <1>1, <1>8, <2>1, InsertGoesOn
<1>9. CASE /\ Contents' = [Contents EXCEPT ![c.key] = c.val]
           /\ call' = [call EXCEPT ![w] = NoCall]
           /\ ret' = [ret EXCEPT ![w] = Result("ok", NoVal)]
  <2>1. call'[w] = NoCall
    BY <1>4, <1>9
  <2>2. ret'[w].st = "ok"
    <3>1. ret'[w] = Result("ok", NoVal)
      BY <1>4, <1>9
    <3> QED
      BY <3>1 DEF Result
  <2>3. task[w][1] = i /\ task[w][2] = s
    BY <1>3
  <2>4. /\ old' = [old EXCEPT ![i][s] = Hollowed]
        /\ task' = [task EXCEPT ![w] = Task(i, s + 1)]
        /\ UNCHANGED <<pending, phase>>
    BY <2>1, <2>2, <2>3 DEF InsertStep
  <2>5. Contents' = [Contents EXCEPT ![old[i][s].key] = old[i][s].val]
    BY <1>5, <1>9
  <2> QED
    BY <1>1, <1>3, <1>4, <1>9, <2>4, <2>5, InsertEnds
<1> QED
  BY <1>7, <1>8, <1>9

\* A step in which no worker inserts anything.
LEMMA OutsideStepInv ==
  ASSUME RebuildInv,
         \/ \E w \in Threads : TakeBucket(w) \/ InsertThrows(w)
         \/ Swap \/ Over \/ Rethrow \/ UNCHANGED rebuildVars
  PROVE  OldInv' /\ WorkersInv' /\ WorkLeft' /\ MovedInv'
<1>1. OldInv /\ WorkersInv /\ WorkLeft /\ MovedInv
  BY DEF RebuildInv
<1>2. UNCHANGED <<old, table, call>>
  BY DEF TakeBucket, Swap, Over, InsertThrows, Rethrow, rebuildVars, mapVars, interface
<1>3. Contents' = Contents
  BY <1>2, SameTable
<1>4. OldInv' /\ InOld' = InOld
  BY <1>1, <1>2, SameOld
<1>5. MovedInv'
  BY <1>1, <1>3, <1>4 DEF MovedInv
<1>6. ASSUME NEW w \in Threads, TakeBucket(w) PROVE WorkersInv' /\ WorkLeft'
  BY <1>1, <1>4, <1>5, <1>6, TakeBucketInv
<1>7. ASSUME Swap \/ Over \/ Rethrow \/ UNCHANGED rebuildVars
      PROVE  WorkersInv' /\ WorkLeft'
  <2>1. UNCHANGED <<old, pending, task, call>>
    BY <1>2, <1>7 DEF Swap, Over, Rethrow, rebuildVars
  <2>2. \A v \in Threads : call'[v] = call[v]
    BY <2>1
  <2>3. WorkersInv'
    BY <1>1, <2>1, <2>2, SameTasks
  <2>4. UNCHANGED phase \/ (phase' = "swapped" /\ phase = "moving" /\ AllDone)
        \/ phase' = "thrown"
    BY <1>7 DEF Swap, Over, Rethrow, rebuildVars
  <2>5. WorkLeft'
    BY <1>1, <2>1, <2>4 DEF WorkLeft, Unmoved, AllDone
  <2> QED
    BY <2>3, <2>5
<1>8. ASSUME NEW w \in Threads, InsertThrows(w) PROVE WorkersInv' /\ WorkLeft'
  <2>1. /\ task' = [task EXCEPT ![w] = NoTask] /\ pending' = {} /\ phase' = "failing"
        /\ call' = call /\ old' = old /\ call[w] = NoCall
    BY <1>2, <1>8 DEF InsertThrows
  <2>2. WorkLeft'
    BY <2>1 DEF WorkLeft
  <2>3. DOMAIN task' = Threads
        /\ \A v \in Threads : task'[v] = IF v = w THEN NoTask ELSE task[v]
    BY <1>1, <2>1 DEF WorkersInv
  <2>4. \A v \in Threads : task'[v] # NoTask =>
          v # w /\ task'[v] = task[v] /\ TaskOK(v) /\ TaskOK(v)'
    BY <1>1, <2>1, <2>3 DEF WorkersInv, TaskOK, Unmoved
  <2>5. \A v \in Threads : call'[v] # NoCall => v # w /\ call'[v] = call[v] /\ task'[v] = task[v]
    BY <2>1, <2>3
  <2>6. WorkersInv'
    BY <1>1, <2>1, <2>3, <2>4, <2>5 DEF WorkersInv
  <2> QED
    BY <2>2, <2>6
<1> QED
  BY <1>4, <1>5, <1>6, <1>7, <1>8

\* RebuildInv is kept by every step, with or without exceptions of user code.
LEMMA RebuildInvStep ==
  ASSUME HashPowers = Nat, RebuildInv, [ThrowingNext]_rebuildVars
  PROVE  RebuildInv'
<1>1. LinearInv' /\ NewInv'
  BY LinearInvKept, NewInvKept DEF RebuildInv
<1>2. \/ \E w \in Threads : \/ InsertStep(w) \/ InsertItem(w) \/ TakeBucket(w)
                            \/ InsertThrows(w)
      \/ Swap \/ Over \/ Rethrow \/ UNCHANGED rebuildVars
  BY DEF ThrowingNext, RebuildNext, Worker
<1>3. OldInv' /\ WorkersInv' /\ WorkLeft' /\ MovedInv'
  <2>1. ASSUME NEW w \in Threads, InsertStep(w)
        PROVE  OldInv' /\ WorkersInv' /\ WorkLeft' /\ MovedInv'
    BY <1>1, <2>1, InsertStepInv
  <2>2. ASSUME NEW w \in Threads, InsertItem(w)
        PROVE  OldInv' /\ WorkersInv' /\ WorkLeft' /\ MovedInv'
    <3>1. DOMAIN call = Threads
      BY DEF RebuildInv, LinearInv, MapInv, ControlInv
    <3> QED
      BY <2>2, <3>1, InsertItemInv DEF RebuildInv
  <2> QED
    BY <1>2, <2>1, <2>2, OutsideStepInv
<1> QED
  BY <1>1, <1>3 DEF RebuildInv

-----------------------------------------------------------------------------
(***************************************************************************)
(* The beginning and the end.                                              *)
(***************************************************************************)

\* At the start all the items are in the old table.
LEMMA OldTableInit ==
  ASSUME RebuildInit
  PROVE  /\ OldInv /\ DOMAIN old = OldTable
         /\ \A i \in OldTable, s \in Slots : old[i][s] # Hollowed
         /\ \A k \in DOMAIN OldMap : k \in InOld
<1> DEFINE h == OldHashpower
<1>1. /\ h \in Nat /\ old \in Layouts(h, OldMap)
      /\ DOMAIN OldMap \subseteq Keys /\ \A k \in DOMAIN OldMap : OldMap[k] \in Vals
  BY OldTableAssumption DEF RebuildInit
<1> HIDE DEF h
<1>2. /\ old \in Tables(h) /\ UniqueInv(old)
      /\ \A k \in DOMAIN OldMap : \E i \in InTable(h), s \in Slots : old[i][s] = Item(k, OldMap[k])
      /\ \A i \in InTable(h), s \in Slots : old[i][s] # Vacant => old[i][s].key \in DOMAIN OldMap
  <2>1. old \in Tables(h) /\ UniqueInv(old)
    BY <1>1, LayoutFacts
  <2>2. /\ \A k \in DOMAIN OldMap :
             \E i \in InTable(h), s \in Slots : old[i][s] = Item(k, OldMap[k])
        /\ \A i \in InTable(h), s \in Slots :
             old[i][s] # Vacant => old[i][s].key \in DOMAIN OldMap
    BY <1>1, LayoutHolds
  <2> QED
    BY <2>1, <2>2
<1>3. OldTable = InTable(h) /\ DOMAIN old = InTable(h)
  BY <1>2 DEF OldTable, h, Tables
<1>4. \A k \in DOMAIN OldMap : /\ Item(k, OldMap[k]).key = k
                               /\ Item(k, OldMap[k]) \notin {Vacant, Hollowed}
  <2>1. \A k \in DOMAIN OldMap : Item(k, OldMap[k]) \notin {Vacant, Hollowed}
    BY <1>1, VacantAssumption, HollowedAssumption
  <2> QED
    BY <2>1 DEF Item
<1>5. ASSUME NEW i \in OldTable, NEW s \in Slots, old[i][s] # Vacant
      PROVE  old[i][s] \in OldItems /\ old[i][s] # Hollowed
  <2> DEFINE k == old[i][s].key
  <2>1. k \in DOMAIN OldMap
    BY <1>2, <1>3, <1>5
  <2>2. PICK j \in InTable(h), r \in Slots : old[j][r] = Item(k, OldMap[k])
    BY <1>2, <2>1
  <2>3. old[j][r] # Vacant /\ old[j][r].key = k
    BY <1>4, <2>1, <2>2
  <2>4. j = i /\ r = s
    BY <1>2, <1>3, <1>5, <2>3 DEF UniqueInv
  <2>5. old[i][s] = Item(k, OldMap[k])
    BY <2>2, <2>4
  <2> HIDE DEF k
  <2> QED
    BY <1>4, <2>1, <2>5 DEF OldItems
<1>6. \A i \in OldTable, s \in Slots : old[i][s] # Hollowed
  BY <1>5, HollowedAssumption
<1>7. OldInv
  <2>1. \A i \in OldTable, s \in Slots : old[i][s] \in OldItems \union {Vacant, Hollowed}
    BY <1>5
  <2>2. old \in [OldTable -> [Slots -> OldItems \union {Vacant, Hollowed}]]
    BY <1>2, <1>3, <2>1 DEF Tables
  <2>3. \A i, j \in OldTable, s, r \in Slots :
          Unmoved(i, s) /\ Unmoved(j, r) /\ old[i][s].key = old[j][r].key => i = j /\ s = r
    BY <1>2, <1>3 DEF UniqueInv, Unmoved
  <2> QED
    BY <2>2, <2>3 DEF OldInv
<1>8. ASSUME NEW k \in DOMAIN OldMap PROVE k \in InOld
  <2>1. PICK i \in InTable(h), s \in Slots : old[i][s] = Item(k, OldMap[k])
    BY <1>2
  <2>2. Unmoved(i, s) /\ old[i][s].key = k
    BY <1>4, <2>1 DEF Unmoved
  <2> QED
    BY <1>3, <1>7, <2>2, InOldMeans
<1> QED
  BY <1>3, <1>6, <1>7, <1>8

\* And the new one is empty.
LEMMA NewTableInit ==
  ASSUME RebuildInit
  PROVE  NewInv /\ \A k \in Keys : Contents[k] = NoVal
<1>1. MapInit
  BY DEF RebuildInit
<1> DEFINE h == InitialHashpower
<1>2. /\ h \in Nat /\ DOMAIN InitialMap = {} /\ hashpower = h
      /\ buckets \in Layouts(h, InitialMap)
      /\ minimum_load_factor = 0 /\ maximum_hashpower = NO_MAXIMUM_HASHPOWER
  BY <1>1, NewMapAssumption, InitialAssumption, HashPowersAssumption DEF MapInit
<1>3. \A w \in Threads : th[w].pc = "idle"
  <2>1. th = [t \in Threads |-> Local("idle")]
    BY <1>1 DEF MapInit
  <2> QED
    BY <2>1 DEF Local
<1>4. NewInv
  BY <1>2, <1>3 DEF NewInv
<1> HIDE DEF h
<1>5. \A i \in InTable(h), s \in Slots : buckets[i][s] = Vacant
  BY <1>2, LayoutHolds
<1>6. buckets \in Tables(h) /\ UniqueInv(buckets)
  BY <1>2, LayoutFacts
<1>7. \A k \in Keys : ContentsOf(buckets)[k] = NoVal
  BY <1>5, <1>6, ContentsFacts
<1> QED
  BY <1>4, <1>7, ContentsDef

\* RebuildInv holds initially.
LEMMA RebuildInvInit ==
  ASSUME RebuildInit
  PROVE  RebuildInv
<1>1. LinearInv
  BY MapInvInit, LinearInit DEF RebuildInit, LinearInv
<1>2. NewInv /\ OldInv /\ MovedInv
  BY OldTableInit, NewTableInit DEF MovedInv
<1>3. /\ DOMAIN old = OldTable /\ pending = OldTable /\ task = [w \in Threads |-> NoTask]
      /\ phase = "moving" /\ call = [w \in Threads |-> NoCall]
      /\ \A i \in OldTable, s \in Slots : old[i][s] # Hollowed
  BY OldTableInit DEF RebuildInit, MapInit
<1>4. WorkersInv
  BY <1>3 DEF WorkersInv
<1>5. WorkLeft
  BY <1>3 DEF WorkLeft
<1> QED
  BY <1>1, <1>2, <1>4, <1>5 DEF RebuildInv

\* A table that holds a map, every item once and in one of its two buckets, is one of the
\* layouts of the map.
LEMMA LayoutOf ==
  ASSUME NEW h \in Nat, NEW map, DOMAIN map \subseteq Keys,
         NEW bs \in Tables(h), UniqueInv(bs),
         \A i \in InTable(h), s \in Slots : bs[i][s] # Vacant =>
           /\ bs[i][s].key \in DOMAIN map /\ bs[i][s] = Item(bs[i][s].key, map[bs[i][s].key])
           /\ i \in Both(h, bs[i][s].key),
         \A k \in DOMAIN map : \E i \in InTable(h), s \in Slots :
           bs[i][s] # Vacant /\ bs[i][s].key = k
  PROVE  bs \in Layouts(h, map)
<1> DEFINE place(f, k) == <<TwoBuckets(h, Hash[k])[f[k][1]], f[k][2]>>
           injective(f) == \A j, k \in DOMAIN map : place(f, j) = place(f, k) => j = k
           layout(f) ==
             [i \in InTable(h) |-> [s \in Slots |->
                IF \E k \in DOMAIN map : place(f, k) = <<i, s>>
                  THEN LET k == CHOOSE k \in DOMAIN map : place(f, k) = <<i, s>>
                       IN  Item(k, map[k])
                  ELSE Vacant]]
           At2(k, g) == /\ TwoBuckets(h, Hash[k])[g[1]] \in InTable(h)
                        /\ bs[TwoBuckets(h, Hash[k])[g[1]]][g[2]] # Vacant
                        /\ bs[TwoBuckets(h, Hash[k])[g[1]]][g[2]].key = k
           pick(k) == CHOOSE g \in {1, 2} \X Slots : At2(k, g)
           f == [k \in DOMAIN map |-> pick(k)]
<1>1. ASSUME NEW k \in DOMAIN map PROVE \E g \in {1, 2} \X Slots : At2(k, g)
  <2>1. PICK i \in InTable(h), s \in Slots : bs[i][s] # Vacant /\ bs[i][s].key = k
    OBVIOUS
  <2>2. i \in Both(h, k)
    BY <2>1
  <2>3. PICK n \in {1, 2} : i = TwoBuckets(h, Hash[k])[n]
    BY <2>2 DEF Both
  <2> DEFINE g == <<n, s>>
  <2>4. g \in {1, 2} \X Slots /\ g[1] = n /\ g[2] = s
    OBVIOUS
  <2> HIDE DEF g
  <2>5. At2(k, g)
    BY <2>1, <2>3, <2>4
  <2> QED
    BY <2>4, <2>5
<1>2. \A k \in DOMAIN map : pick(k) \in {1, 2} \X Slots /\ At2(k, pick(k))
  <2> HIDE DEF At2
  <2> QED
    BY <1>1
<1> HIDE DEF pick
<1>3. f \in [DOMAIN map -> {1, 2} \X Slots] /\ \A k \in DOMAIN map : At2(k, f[k])
  <2> HIDE DEF At2
  <2> QED
    BY <1>2
<1> HIDE DEF f
<1>4. ASSUME NEW k \in DOMAIN map, NEW i, NEW s, place(f, k) = <<i, s>>
      PROVE  i \in InTable(h) /\ s \in Slots /\ bs[i][s] # Vacant /\ bs[i][s].key = k
  BY <1>3, <1>4
<1>5. injective(f)
  BY <1>4
<1>6. ASSUME NEW i \in InTable(h), NEW s \in Slots PROVE bs[i][s] = layout(f)[i][s]
  <2>1. CASE \E k \in DOMAIN map : place(f, k) = <<i, s>>
    <3> DEFINE k == CHOOSE k \in DOMAIN map : place(f, k) = <<i, s>>
    <3>1. layout(f)[i][s] = Item(k, map[k]) /\ k \in DOMAIN map /\ place(f, k) = <<i, s>>
      BY <2>1
    <3> HIDE DEF k, layout
    <3>2. bs[i][s] # Vacant /\ bs[i][s].key = k
      BY <1>4, <3>1
    <3> QED
      BY <3>1, <3>2
  <2>2. CASE ~ \E k \in DOMAIN map : place(f, k) = <<i, s>>
    <3>1. layout(f)[i][s] = Vacant
      BY <2>2
    <3>2. bs[i][s] = Vacant
      <4> SUFFICES ASSUME bs[i][s] # Vacant PROVE FALSE
        OBVIOUS
      <4> DEFINE k == bs[i][s].key
      <4>1. k \in DOMAIN map
        OBVIOUS
      <4> DEFINE j == TwoBuckets(h, Hash[k])[f[k][1]]
                 r == f[k][2]
      <4>2. place(f, k) = <<j, r>>
        OBVIOUS
      <4> HIDE DEF j, r
      <4>3. j \in InTable(h) /\ r \in Slots /\ bs[j][r] # Vacant /\ bs[j][r].key = k
        BY <1>4, <4>1, <4>2
      <4>4. j = i /\ r = s
        <5>1. DOMAIN bs = InTable(h)
          BY DEF Tables
        <5> QED
          BY <4>3, <5>1 DEF UniqueInv
      <4> QED
        BY <2>2, <4>1, <4>2, <4>4
    <3> QED
      BY <3>1, <3>2
  <2> QED
    BY <2>1, <2>2
<1>7. bs = layout(f)
  <2>1. bs = [i \in InTable(h) |-> [s \in Slots |-> bs[i][s]]]
    BY DEF Tables
  <2>2. layout(f) = [i \in InTable(h) |-> [s \in Slots |-> layout(f)[i][s]]]
    OBVIOUS
  <2> HIDE DEF layout
  <2> QED
    BY <1>6, <2>1, <2>2
<1> QED
  <2> DEFINE S == {layout(g) : g \in {x \in [DOMAIN map -> {1, 2} \X Slots] : injective(x)}}
  <2>1. Layouts(h, map) = S
    BY DEF Layouts, InTable
  <2> HIDE DEF layout, injective
  <2>2. bs \in S
    BY <1>3, <1>5, <1>7
  <2> HIDE DEF S
  <2> QED
    BY <2>1, <2>2

-----------------------------------------------------------------------------
(***************************************************************************)
(* What cuckoo_expand_simple guarantees.                                   *)
(***************************************************************************)

\* Once the buckets are swapped, all items are in the new table.
LEMMA AllMoved ==
  ASSUME RebuildInv, phase = "swapped"
  PROVE  /\ \A k \in Keys : Contents[k] = IF k \in DOMAIN OldMap THEN OldMap[k] ELSE NoVal
         /\ \A w \in Threads : th[w].pc # "drain"
<1>1. AllDone /\ OldInv /\ WorkersInv /\ WorkLeft /\ MovedInv /\ ControlInv
  BY DEF RebuildInv, WorkLeft, LinearInv, MapInv
<1>2. \A i \in OldTable, s \in Slots : ~ Unmoved(i, s)
  BY <1>1 DEF WorkLeft, AllDone
<1>3. \A k : k \notin InOld
  BY <1>1, <1>2, InOldMeans
<1>4. \A k \in Keys : Contents[k] = IF k \in DOMAIN OldMap THEN OldMap[k] ELSE NoVal
  BY <1>1, <1>3 DEF MovedInv
<1>5. ASSUME NEW w \in Threads PROVE th[w].pc # "drain"
  <2>1. call[w] = NoCall
    BY <1>1 DEF WorkersInv, AllDone
  <2>2. th[w].pc = "idle"
    BY <1>1, <2>1, ThreadFacts DEF CallOK
  <2> QED
    BY <2>2
<1> QED
  BY <1>4, <1>5

\* And they make it a table of the old map.
LEMMA SwappedTable ==
  ASSUME RebuildInv, phase = "swapped"
  PROVE  buckets \in Layouts(hashpower, OldMap)
<1> DEFINE h == hashpower
<1>1. /\ h \in Nat /\ buckets \in Tables(h) /\ UniqueInv(buckets) /\ PlacedInv /\ TableOK
      /\ DOMAIN OldMap \subseteq Keys /\ \A k \in DOMAIN OldMap : OldMap[k] \in Vals
  <2>1. ControlInv /\ TableOK /\ DataInv
    BY DEF RebuildInv, LinearInv, MapInv
  <2>2. h \in Nat
    BY <2>1, HashPowersAssumption DEF ControlInv, LocksInv, LocksTypeOK
  <2>3. buckets \in Tables(h) /\ UniqueInv(buckets) /\ PlacedInv
    BY <2>1 DEF TableOK, DataInv
  <2> QED
    BY <2>1, <2>2, <2>3, OldTableAssumption
<1>2. /\ \A k \in Keys :
           ContentsOf(buckets)[k] = IF k \in DOMAIN OldMap THEN OldMap[k] ELSE NoVal
      /\ \A w \in Threads : th[w].pc # "drain"
  BY AllMoved, ContentsDef
<1>3. \A i \in InTable(h), s \in Slots :
        buckets[i][s] # Vacant => i \in Both(h, buckets[i][s].key)
  BY <1>1, <1>2 DEF PlacedInv, InTodo, At, Tables
<1>4. ASSUME NEW i \in InTable(h), NEW s \in Slots, buckets[i][s] # Vacant
      PROVE  /\ buckets[i][s].key \in DOMAIN OldMap
             /\ buckets[i][s] = Item(buckets[i][s].key, OldMap[buckets[i][s].key])
  <2>1. PICK k \in Keys, v \in Vals : buckets[i][s] = Item(k, v)
    BY <1>1, <1>4, SlotContents DEF AnyItem
  <2>2. buckets[i][s].key = k /\ buckets[i][s].val = v
    BY <2>1 DEF Item
  <2> HIDE DEF h
  <2>3. ContentsOf(buckets)[k] = v
    BY <1>1, <1>4, <2>2, ContentsFacts
  <2>4. k \in DOMAIN OldMap /\ OldMap[k] = v
    BY <1>2, <2>3, ValsAssumption
  <2> QED
    BY <2>1, <2>2, <2>4
<1>5. ASSUME NEW k \in DOMAIN OldMap
      PROVE  \E i \in InTable(h), s \in Slots : buckets[i][s] # Vacant /\ buckets[i][s].key = k
  <2>1. k \in Keys /\ ContentsOf(buckets)[k] # NoVal
    BY <1>1, <1>2, ValsAssumption
  <2> HIDE DEF h
  <2>2. (\A i \in InTable(h), s \in Slots : buckets[i][s] # Vacant => buckets[i][s].key # k)
          => ContentsOf(buckets)[k] = NoVal
    BY <1>1, <2>1, ContentsFacts
  <2> QED
    BY <2>1, <2>2
<1> HIDE DEF h
<1>6. buckets \in Layouts(h, OldMap)
  BY <1>1, <1>3, <1>4, <1>5, LayoutOf
<1> QED
  BY <1>6 DEF h

\* Without exceptions or with them, cuckoo_expand_simple makes steps of ThrowingNext.
LEMMA WithoutThrows == RebuildSpec => ThrowingSpec
<1>1. [RebuildNext]_rebuildVars => [ThrowingNext]_rebuildVars
  BY DEF ThrowingNext
<1> QED
  BY <1>1, PTL DEF RebuildSpec, ThrowingSpec

\* The inductive invariant of cuckoo_expand_simple.
THEOREM RebuildInvariant ==
  ASSUME HashPowers = Nat
  PROVE  ThrowingSpec => []RebuildInv
<1>1. RebuildInit => RebuildInv
  BY RebuildInvInit
<1>2. RebuildInv /\ [ThrowingNext]_rebuildVars => RebuildInv'
  BY RebuildInvStep
<1> QED
  BY <1>1, <1>2, PTL DEF ThrowingSpec

\* Every item is in one of the two tables at every moment, and with its value, also when
\* user code throws in a worker and the others go on.  (When the exception then leaves
\* cuckoo_expand_simple, the new table is destroyed with what it has by then.)
THEOREM EachItemOnceHolds ==
  ASSUME HashPowers = Nat
  PROVE  ThrowingSpec => []EachItemOnce
<1>1. RebuildInv => EachItemOnce
  BY OldTableAssumption DEF RebuildInv, MovedInv, EachItemOnce
<1> QED
  BY <1>1, RebuildInvariant, PTL

\* The table whose buckets are swapped in is one of the old map, at a hashpower not below
\* the one new_map started with.
THEOREM RebuiltTableHolds ==
  ASSUME HashPowers = Nat
  PROVE  /\ ThrowingSpec => []RebuiltTable
         /\ RebuildSpec => [](EachItemOnce /\ RebuiltTable)
<1>1. RebuildInv => RebuiltTable
  BY SwappedTable DEF RebuildInv, NewInv, RebuiltTable
<1>2. ThrowingSpec => []RebuiltTable
  BY <1>1, RebuildInvariant, PTL
<1>3. RebuildSpec => [](EachItemOnce /\ RebuiltTable)
  BY <1>2, WithoutThrows, EachItemOnceHolds, PTL
<1> QED
  BY <1>2, <1>3
=============================================================================
