------------------------------ MODULE CuckooMap ------------------------------
(***************************************************************************)
(* cuckoohash_map: a hash table of buckets that threads search and change  *)
(* under the bucket locks, that makes room by moving items along cuckoo    *)
(* paths, and that doubles or is rebuilt when that fails.                  *)
(*                                                                         *)
(* Each thread runs one call at a time.  Every action that locks or        *)
(* unlocks is an action of BucketLocks with the change to the table added. *)
(* What a thread does between taking the last lock of a call and releasing *)
(* them is one step, and so is each of the short critical sections under   *)
(* lock_one in which a search looks at one slot: nobody else can see into  *)
(* either.  A call returns in the step that releases its last lock.        *)
(***************************************************************************)
EXTENDS BucketLocks, CuckooHashing, Sequences, FiniteSetsExt, Functions

CONSTANTS
  Keys, Vals,         \* the keys and the mapped values
  NoVal,              \* no value
  Vacant,             \* the contents of a slot that is not occupied
  Hash,               \* Hash[k]: the hash of key k
  Fn,                 \* Fn[v]: what the function of update_fn and upsert does
  IsSimple,           \* is_simple: lookups do not compare partial keys
  NothrowMove,        \* key and value are nothrow-move-constructible
  MAX_BFS_PATH_LEN,   \* bound on the length of a cuckoo path (5 in the code)
  MAX_CUCKOO_COUNT,   \* size of the BFS queue (512 in the code)
  SizeMod,            \* size_t counts modulo this (2^64 in the code)
  NO_MAXIMUM_HASHPOWER,
  InitialHashpower, InitialMap, InitialMlf, InitialMhp,
                      \* the table, with its limits, when the threads start
  NoCall,             \* a thread that is not in a call
  Calls,              \* the calls the threads may make
  MaxCalls            \* bound on the number of calls made

ASSUME ValsAssumption == NoVal \notin Vals /\ Fn \in [Vals -> Vals]
ASSUME HashAssumption == Hash \in [Keys -> Nat]
ASSUME PathAssumption == MAX_BFS_PATH_LEN \in Nat \ {0}
ASSUME QueueAssumption == MAX_CUCKOO_COUNT \in Nat /\ MAX_CUCKOO_COUNT >= 4
ASSUME SizeAssumption == SizeMod \in Nat \ {0}
ASSUME LocksPowerAssumption == \E n \in 0 .. kNumLocks : kNumLocks = 2 ^ n
ASSUME InitialAssumption ==
  /\ InitialHashpower \in HashPowers
  /\ DOMAIN InitialMap \subseteq Keys
  /\ \A k \in DOMAIN InitialMap : InitialMap[k] \in Vals
  /\ InitialMlf \in 0 .. 100 /\ InitialMhp \in Nat /\ MaxCalls \in Nat

\* The calls for one key, those that may insert it, and the others.
InsertOps == {"insert", "upsert", "assign"}
KeyOps == {"find", "contains", "erase", "update", "update_fn"} \union InsertOps
TableOps ==
  {"rehash", "reserve", "clear", "lock_table", "size", "minimum_load_factor",
   "maximum_hashpower"}

ASSUME CallsAssumption ==
  /\ Calls \subseteq [op : KeyOps, key : Keys, val : Vals] \union [op : TableOps, n : Nat]
  /\ NoCall \notin Calls

VARIABLES
  buckets,               \* buckets_
  elems,                 \* elems[l]: elems_in_buckets of lock l
  expansion_lock,        \* the thread that holds expansion_lock_
  minimum_load_factor,   \* minimum_load_factor_, in percent
  maximum_hashpower,     \* maximum_hashpower_
  call,                  \* call[t]: the call thread t is in
  ret,                   \* ret[t]: what the last call of thread t returned
  th,                    \* th[t]: where thread t is in its call
  callsLeft              \* calls that may still be made

table == <<buckets, elems>>
limits == <<minimum_load_factor, maximum_hashpower>>
interface == <<call, ret, callsLeft>>
mapVars == <<locksVars, table, expansion_lock, limits, interface, th>>

Slots == 0 .. SLOT_PER_BUCKET - 1
NoSlot == -1

(***************************************************************************)
(* The local state of a thread.  pc says what the thread does next:        *)
(*   "idle"      nothing                                                   *)
(*   "snapshot"  compute the key's buckets and start to lock them          *)
(*   "op"        the body of the operation, once the locks are granted     *)
(*   "search"    slot_search: look at the next slot                        *)
(*   "path"      cuckoopath_search: look at the next item of the path      *)
(*   "move"      cuckoopath_move: start to lock for the next move          *)
(*   "moving"    cuckoopath_move: check and make the move                  *)
(*   "sum"       cuckoo_size: read the next counter                        *)
(*   "double"    enter cuckoo_fast_double                                  *)
(*   "explock"   take the expansion lock                                   *)
(*   "resize"    cuckoo_fast_double, once it has all the locks             *)
(*   "drain"     move_buckets and unlock, lock by lock                     *)
(*   "rehash"    rehash and reserve: compare the hashpower                 *)
(*   "expand"    enter cuckoo_expand_simple                                *)
(*   "rebuild"   cuckoo_expand_simple, once it has all the locks           *)
(*   "rebuilt"   cuckoo_expand_simple: release all the locks               *)
(*   "all"       clear and lock_table: start to lock everything            *)
(*   "locked"    a locked_table exists                                     *)
(* hp is the hashpower the call works with, b its two buckets, nested says *)
(* that an upsert is in the insert loop it enters after an expansion.      *)
(* x, q, i are slot_search's current b_slot, queue and slot counter; slots *)
(* and path the path being built, depth the move being made; acc and i the *)
(* sum of counters; todo the locks still to be processed by move_buckets;  *)
(* new_hp and grow the arguments of cuckoo_expand_simple.                  *)
(***************************************************************************)
NoBSlot == [bucket |-> 0, pathcode |-> 0, depth |-> -1]

Local(pc) ==
  [pc |-> pc, hp |-> 0, b |-> <<0, 0>>, nested |-> FALSE,
   x |-> NoBSlot, q |-> <<>>, i |-> 0,
   slots |-> <<>>, path |-> <<>>, depth |-> 0,
   acc |-> 0, todo |-> {}, new_hp |-> 0, grow |-> FALSE]

Result(st, val) == [st |-> st, val |-> val]

b_slot(bucket, pathcode, depth) ==
  [bucket |-> bucket, pathcode |-> pathcode, depth |-> depth]

Item(k, v) == [key |-> k, val |-> v, partial |-> partial_key(Hash[k])]

ASSUME VacantAssumption == \A k \in Keys, v \in Vals : Item(k, v) # Vacant

EmptyBucket == [s \in Slots |-> Vacant]
-----------------------------------------------------------------------------
(***************************************************************************)
(* What is in the table.                                                   *)
(***************************************************************************)

\* Every place of the table, and the ones that hold an item.
Places == (DOMAIN buckets) \X Slots
Occupied == {p \in Places : buckets[p[1]][p[2]] # Vacant}

\* Contents[k]: the value of key k, or NoVal.
Contents ==
  [k \in Keys |->
     IF \E p \in Occupied : buckets[p[1]][p[2]].key = k
       THEN LET p == CHOOSE p \in Occupied : buckets[p[1]][p[2]].key = k
            IN  buckets[p[1]][p[2]].val
       ELSE NoVal]

\* The part of the map that is there: keys with their values.
Items == [k \in {j \in Keys : Contents[j] # NoVal} |-> Contents[k]]

\* The tables of hashpower h that hold the given map, with every item in one of
\* its two buckets.
Layouts(h, map) ==
  LET place(f, k) == <<TwoBuckets(h, Hash[k])[f[k][1]], f[k][2]>>
      injective(f) == \A j, k \in DOMAIN map : place(f, j) = place(f, k) => j = k
      layout(f) ==
        [i \in 0 .. hashsize(h) - 1 |-> [s \in Slots |->
           IF \E k \in DOMAIN map : place(f, k) = <<i, s>>
             THEN LET k == CHOOSE k \in DOMAIN map : place(f, k) = <<i, s>>
                  IN  Item(k, map[k])
             ELSE Vacant]]
  IN  {layout(f) : f \in {g \in [DOMAIN map -> {1, 2} \X Slots] : injective(g)}}

\* Items guarded by lock l.
Guarded(l) == Cardinality({p \in Occupied : lock_ind(p[1]) = l})

MapInit ==
  /\ LocksInit /\ hashpower = InitialHashpower
  /\ buckets \in Layouts(InitialHashpower, InitialMap)
  /\ elems = [l \in Locks |-> Guarded(l) % SizeMod]
  /\ expansion_lock = NoThread
  /\ minimum_load_factor = InitialMlf
  /\ maximum_hashpower = InitialMhp
  /\ call = [t \in Threads |-> NoCall]
  /\ ret = [t \in Threads |-> Result("ok", NoVal)]
  /\ th = [t \in Threads |-> Local("idle")]
  /\ callsLeft = MaxCalls
-----------------------------------------------------------------------------
(***************************************************************************)
(* Calls and returns, and the ways back into the locking code.             *)
(***************************************************************************)
At(t, pc) == th[t].pc = pc
Op(t) == call[t].op
Key(t) == call[t].key

\* Assigning to a reference obtained from operator[] is an upsert whose function
\* stores the value.
Upserts(t) == Op(t) \in {"upsert", "assign"}

Goto(t, local) == th' = [th EXCEPT ![t] = local]

\* A thread calls one of the public functions of the table.
Call(t, c) ==
  /\ call[t] = NoCall /\ callsLeft > 0
  /\ call' = [call EXCEPT ![t] = c]
  /\ callsLeft' = callsLeft - 1
  /\ Goto(t, Local(CASE c.op \in {"rehash", "reserve"} -> "rehash"
                     [] c.op \in {"clear", "lock_table"} -> "all"
                     [] c.op = "size" -> "sum"
                     [] c.op \in {"minimum_load_factor", "maximum_hashpower"} -> "op"
                     [] OTHER -> "snapshot"))
  /\ UNCHANGED <<locksVars, table, expansion_lock, limits, ret>>

Return(t, result) ==
  /\ call' = [call EXCEPT ![t] = NoCall]
  /\ ret' = [ret EXCEPT ![t] = result]
  /\ Goto(t, Local("idle"))
  /\ UNCHANGED callsLeft

\* Start the operation over: snapshot_and_lock_two is called again.
Restart(t, nested) ==
  /\ Goto(t, [Local("snapshot") EXCEPT !.nested = nested])
  /\ UNCHANGED interface

\* snapshot_and_lock_two and snapshot_and_lock_two_shared: compute the buckets
\* from the hashpower read without a lock, and start to lock them.
SnapshotAndLockTwo(t) ==
  /\ At(t, "snapshot")
  /\ LET b == TwoBuckets(hashpower, Hash[Key(t)])
     IN  /\ LockBuckets(t, hashpower, {lock_ind(b[1]), lock_ind(b[2])},
                        Op(t) \in {"find", "contains"})
         /\ Goto(t, [Local("op") EXCEPT !.b = b, !.nested = th[t].nested])
  /\ UNCHANGED <<table, expansion_lock, limits, interface>>

\* A lock call makes progress.
LockStep(t) ==
  /\ TakeLock(t) \/ HashpowerUnchanged(t)
  /\ UNCHANGED <<table, expansion_lock, limits, interface, th>>

\* Mutant of LockFailed: check_hashpower throws with the lock still held.
LockFailedLeavesLock(t) ==
  /\ req[t].stage = "check" /\ hashpower # req[t].hp
  /\ req' = [req EXCEPT ![t] = NoRequest]
  /\ Restart(t, th[t].nested)
  /\ UNCHANGED <<hashpower, writer, readers, table, expansion_lock, limits>>

\* A lock call throws hashpower_changed.  snapshot_and_lock_two catches it and
\* tries again; in run_cuckoo it becomes failure_under_expansion, on which the
\* insert and upsert loops try again.
LockFailed(t) ==
  /\ HashpowerChanged(t)
  /\ Restart(t, th[t].nested)
  /\ UNCHANGED <<table, expansion_lock, limits>>

\* The operation has the locks of its two buckets.
HasBuckets(t) == At(t, "op") /\ LocksGranted(t)

UnlockAll(t) == Unlock(t, Held(t))
-----------------------------------------------------------------------------
(***************************************************************************)
(* Operations on the two buckets of a key.                                 *)
(***************************************************************************)
Lowest(S) == IF S = {} THEN NoSlot ELSE Min(S)

\* The slot of bucket i of the table bs in which key k is found.
SlotOfKey(bs, i, k) ==
  Lowest({s \in Slots : /\ bs[i][s] # Vacant
                        /\ IsSimple \/ bs[i][s].partial = partial_key(Hash[k])
                        /\ bs[i][s].key = k})

VacantSlot(i) == Lowest({s \in Slots : buckets[i][s] = Vacant})

\* Where key k is found in the buckets b, the first one first.
Locate(bs, b, k) ==
  IF SlotOfKey(bs, b[1], k) # NoSlot THEN <<b[1], SlotOfKey(bs, b[1], k)>>
                                     ELSE <<b[2], SlotOfKey(bs, b[2], k)>>

FoundIn(bs, t) == Locate(bs, th[t].b, Key(t))[2] # NoSlot
Found(t) == FoundIn(buckets, t)
Place(t) == Locate(buckets, th[t].b, Key(t))
ItemAt(p) == buckets[p[1]][p[2]]

NotFound == Result("failure_key_not_found", NoVal)

\* find and contains.
Lookup(t) ==
  /\ HasBuckets(t) /\ Op(t) \in {"find", "contains"}
  /\ Return(t, IF ~ Found(t) THEN NotFound
               ELSE Result("ok", IF Op(t) = "find" THEN ItemAt(Place(t)).val ELSE NoVal))
  /\ UnlockAll(t)
  /\ UNCHANGED <<table, expansion_lock, limits>>

\* add_to_bucket: the new item and the count of its lock.
AddToBucket(bs, i, s, k, v) ==
  /\ buckets' = [bs EXCEPT ![i][s] = Item(k, v)]
  /\ elems' = [elems EXCEPT ![lock_ind(i)] = (@ + 1) % SizeMod]

\* Mutant of Erase: the count is not decremented.
EraseWithoutCount(t) ==
  /\ HasBuckets(t) /\ Op(t) = "erase"
  /\ IF Found(t)
       THEN LET p == Place(t)
            IN  /\ buckets' = [buckets EXCEPT ![p[1]][p[2]] = Vacant]
                /\ Return(t, Result("ok", NoVal))
       ELSE UNCHANGED buckets /\ Return(t, NotFound)
  /\ UnlockAll(t)
  /\ UNCHANGED <<elems, expansion_lock, limits>>

\* erase.
Erase(t) ==
  /\ HasBuckets(t) /\ Op(t) = "erase"
  /\ IF Found(t)
       THEN LET p == Place(t)
            IN  /\ buckets' = [buckets EXCEPT ![p[1]][p[2]] = Vacant]
                /\ elems' = [elems EXCEPT ![lock_ind(p[1])] = (@ - 1) % SizeMod]
                /\ Return(t, Result("ok", NoVal))
       ELSE UNCHANGED table /\ Return(t, NotFound)
  /\ UnlockAll(t)
  /\ UNCHANGED <<expansion_lock, limits>>

\* update, update_fn, and the update that upsert tries first.
Update(t) ==
  /\ HasBuckets(t)
  /\ Op(t) \in {"update", "update_fn"} \/ (Upserts(t) /\ ~ th[t].nested /\ Found(t))
  /\ IF Found(t)
       THEN LET p == Place(t)
            IN  /\ buckets' = [buckets EXCEPT ![p[1]][p[2]].val =
                                 IF Op(t) \in {"update", "assign"} THEN call[t].val
                                 ELSE Fn[@]]
                /\ Return(t, Result("ok", NoVal))
       ELSE UNCHANGED buckets /\ Return(t, NotFound)
  /\ UnlockAll(t)
  /\ UNCHANGED <<elems, expansion_lock, limits>>
-----------------------------------------------------------------------------
(***************************************************************************)
(* cuckoo_insert, called from cuckoo_insert_loop and upsert.               *)
(***************************************************************************)
Inserting(t) ==
  /\ HasBuckets(t)
  /\ \/ Op(t) = "insert"
     \/ Upserts(t) /\ (th[t].nested \/ ~ Found(t))

\* Mutant of Duplicated: upsert stays in its insert loop.
DuplicatedStaysNested(t) ==
  IF Op(t) = "insert" THEN Return(t, Result("failure_key_duplicated", NoVal))
                      ELSE Restart(t, th[t].nested)

\* failure_key_duplicated: insert returns false, upsert starts over.
Duplicated(t) ==
  IF Op(t) = "insert" THEN Return(t, Result("failure_key_duplicated", NoVal))
                      ELSE Restart(t, FALSE)

InsertDuplicate(t) ==
  /\ Inserting(t) /\ Found(t)
  /\ Duplicated(t)
  /\ UnlockAll(t)
  /\ UNCHANGED <<table, expansion_lock, limits>>

\* The key goes into the first vacant slot of its first bucket, or if there is
\* none, of its second bucket.
InsertIntoBucket(t) ==
  /\ Inserting(t) /\ ~ Found(t)
  /\ LET b == th[t].b
         i == IF VacantSlot(b[1]) # NoSlot THEN b[1] ELSE b[2]
     IN  /\ VacantSlot(i) # NoSlot
         /\ AddToBucket(buckets, i, VacantSlot(i), Key(t), call[t].val)
  /\ Return(t, Result("ok", NoVal))
  /\ UnlockAll(t)
  /\ UNCHANGED <<expansion_lock, limits>>

\* slot_search starts with both buckets queued, the first one already taken out.
SlotSearch(hp, b, nested) ==
  [Local("search") EXCEPT !.hp = hp, !.b = b, !.nested = nested,
                          !.x = b_slot(b[1], 0, 0), !.q = <<b_slot(b[2], 1, 0)>>]

\* Both buckets are full: run_cuckoo notes the hashpower and unlocks them.
RunCuckoo(t) ==
  /\ Inserting(t) /\ ~ Found(t)
  /\ \A j \in {1, 2} : VacantSlot(th[t].b[j]) = NoSlot
  /\ Goto(t, SlotSearch(hashpower, th[t].b, th[t].nested))
  /\ UnlockAll(t)
  /\ UNCHANGED <<table, expansion_lock, limits, interface>>
-----------------------------------------------------------------------------
(***************************************************************************)
(* slot_search and cuckoopath_search.  Each step looks at one slot under   *)
(* lock_one, which needs the lock to be free for an instant.               *)
(***************************************************************************)
Full(q) == Len(q) = MAX_CUCKOO_COUNT - 1

\* The bucket a search looks at next: that of the current b_slot, the one the
\* path starts in, or the other bucket of the previous item of the path.
PeekBucket(t) ==
  IF th[t].path = <<>> THEN th[t].x.bucket
  ELSE LET prev == th[t].path[Len(th[t].path)]
       IN  alt_index(th[t].hp, partial_key(prev.hash), prev.bucket)

\* lock_one succeeds.
Peek(t) ==
  /\ Available(lock_ind(PeekBucket(t)), FALSE)
  /\ hashpower = th[t].hp
  /\ UNCHANGED <<locksVars, table, expansion_lock, limits, interface>>

\* Mutant of PeekFailed: the search starts over with the old hashpower.
PeekFailedSearchesAgain(t) ==
  /\ At(t, "search") \/ At(t, "path")
  /\ Available(lock_ind(PeekBucket(t)), FALSE)
  /\ hashpower # th[t].hp
  /\ Goto(t, SlotSearch(th[t].hp, th[t].b, th[t].nested))
  /\ UNCHANGED <<locksVars, table, expansion_lock, limits, interface>>

\* lock_one throws hashpower_changed.
PeekFailed(t) ==
  /\ At(t, "search") \/ At(t, "path")
  /\ Available(lock_ind(PeekBucket(t)), FALSE)
  /\ hashpower # th[t].hp
  /\ Restart(t, th[t].nested)
  /\ UNCHANGED <<locksVars, table, expansion_lock, limits>>

SearchSlot(t) == (th[t].x.pathcode + th[t].i) % SLOT_PER_BUCKET
SearchItem(t) == buckets[th[t].x.bucket][SearchSlot(t)]
SearchCode(t) == th[t].x.pathcode * SLOT_PER_BUCKET + SearchSlot(t)

\* Mutant of SearchQueue: the path may be one item too long.
SearchQueueTooDeep(t) ==
  LET x == th[t].x
  IN  IF x.depth <= MAX_BFS_PATH_LEN - 1
        THEN Append(th[t].q, b_slot(alt_index(th[t].hp, SearchItem(t).partial, x.bucket),
                                    SearchCode(t), x.depth + 1))
        ELSE th[t].q

\* The queue after the occupied slot was looked at.
SearchQueue(t) ==
  LET x == th[t].x
  IN  IF x.depth < MAX_BFS_PATH_LEN - 1
        THEN Append(th[t].q, b_slot(alt_index(th[t].hp, SearchItem(t).partial, x.bucket),
                                    SearchCode(t), x.depth + 1))
        ELSE th[t].q

\* The inner loop of slot_search has another slot of this bucket to look at.
MoreSlots(t) == th[t].i + 1 < SLOT_PER_BUCKET /\ ~ Full(SearchQueue(t))

\* An occupied slot: on to the next slot, or to the next bucket in the queue.
SearchOn(t) ==
  /\ At(t, "search") /\ Peek(t) /\ SearchItem(t) # Vacant
  /\ LET q == SearchQueue(t)
     IN  IF MoreSlots(t)
           THEN Goto(t, [th[t] EXCEPT !.i = @ + 1, !.q = q])
           ELSE /\ ~ Full(q) /\ q # <<>>
                /\ Goto(t, [th[t] EXCEPT !.x = Head(q), !.q = Tail(q), !.i = 0])

\* The queue is full or exhausted: failure_table_full.  insert, and the insert
\* loop inside upsert, look at the load factor before they expand the table.
SearchFailed(t) ==
  /\ At(t, "search") /\ Peek(t) /\ SearchItem(t) # Vacant
  /\ ~ MoreSlots(t) /\ (Full(SearchQueue(t)) \/ SearchQueue(t) = <<>>)
  /\ LET pc == IF Op(t) = "insert" \/ th[t].nested THEN "sum" ELSE "double"
     IN  Goto(t, [Local(pc) EXCEPT !.hp = th[t].hp, !.nested = th[t].nested])

\* What is left of a pathcode of len slots when its last slots are taken off.
PathcodeRest(code, len) ==
  LET rest[n \in 0 .. len] == IF n = 0 THEN code ELSE rest[n - 1] \div SLOT_PER_BUCKET
  IN  rest

\* A vacant slot ends slot_search, and cuckoopath_search decodes the pathcode:
\* the slots of the path in base SLOT_PER_BUCKET, and above them its first bucket.
SearchFound(t) ==
  /\ At(t, "search") /\ Peek(t) /\ SearchItem(t) = Vacant
  /\ LET len == th[t].x.depth + 1
         b == th[t].b
         rest == PathcodeRest(SearchCode(t), len)
         first == IF rest[len] = 0 THEN b[1] ELSE b[2]
     IN  Goto(t, [Local("path") EXCEPT !.hp = th[t].hp, !.b = b, !.nested = th[t].nested,
                    !.x = b_slot(first, 0, len - 1),
                    !.slots = [n \in 1 .. len |-> rest[len - n] % SLOT_PER_BUCKET]])

\* cuckoopath_search records the next item of the path; a vacant slot ends it.
FollowPath(t) ==
  /\ At(t, "path") /\ Peek(t)
  /\ LET n == Len(th[t].path) + 1
         slot == th[t].slots[n]
         item == buckets[PeekBucket(t)][slot]
         record == [bucket |-> PeekBucket(t), slot |-> slot,
                    hash |-> IF item = Vacant THEN -1 ELSE Hash[item.key]]
         done == item = Vacant \/ n = Len(th[t].slots)
     IN  Goto(t, IF done
                   THEN [Local("move") EXCEPT !.hp = th[t].hp, !.b = th[t].b,
                           !.nested = th[t].nested, !.depth = n - 1,
                           !.path = Append(th[t].path, record)]
                   ELSE [th[t] EXCEPT !.path = Append(@, record)])
-----------------------------------------------------------------------------
(***************************************************************************)
(* cuckoopath_move, from the end of the path to its beginning.             *)
(***************************************************************************)

\* Mutant of StartMove: the hashpower is read again instead of the one that the
\* path was computed with.
StartMoveFreshHashpower(t) ==
  /\ At(t, "move")
  /\ LET b == th[t].b
         path == th[t].path
         d == th[t].depth
         inds == CASE d = 0 -> {b[1], b[2]}
                   [] d = 1 -> {b[1], b[2], path[2].bucket}
                   [] OTHER -> {path[d].bucket, path[d + 1].bucket}
     IN  LockBuckets(t, hashpower, {lock_ind(i) : i \in inds}, FALSE)
  /\ Goto(t, [th[t] EXCEPT !.pc = "moving"])
  /\ UNCHANGED <<table, expansion_lock, limits, interface>>

\* Lock both ends of the move, and with the last one both buckets of the key.
StartMove(t) ==
  /\ At(t, "move")
  /\ LET b == th[t].b
         path == th[t].path
         d == th[t].depth
         inds == CASE d = 0 -> {b[1], b[2]}
                   [] d = 1 -> {b[1], b[2], path[2].bucket}
                   [] OTHER -> {path[d].bucket, path[d + 1].bucket}
     IN  LockBuckets(t, th[t].hp, {lock_ind(i) : i \in inds}, FALSE)
  /\ Goto(t, [th[t] EXCEPT !.pc = "moving"])
  /\ UNCHANGED <<table, expansion_lock, limits, interface>>

HasMoveLocks(t) == At(t, "moving") /\ LocksGranted(t)

\* Mutant of MoveValid: any item in the slot is taken along.
MoveValidAnyItem(t) ==
  LET d == th[t].depth
      to == th[t].path[d + 1]
  IN  /\ buckets[to.bucket][to.slot] = Vacant
      /\ d > 0 => buckets[th[t].path[d].bucket][th[t].path[d].slot] # Vacant

\* Mutant of MoveValid: the slot to fill is not looked at again.
MoveValidOverwrites(t) ==
  LET d == th[t].depth
      from == th[t].path[d]
      item == buckets[from.bucket][from.slot]
  IN  d > 0 => item # Vacant /\ Hash[item.key] = from.hash

\* The path still describes the table: the slot to fill is vacant, and the slot
\* to empty holds an item with the recorded hash, though maybe another key.
MoveValid(t) ==
  LET d == th[t].depth
      to == th[t].path[d + 1]
  IN  /\ buckets[to.bucket][to.slot] = Vacant
      /\ d > 0 =>
           LET from == th[t].path[d]
               item == buckets[from.bucket][from.slot]
           IN  item # Vacant /\ Hash[item.key] = from.hash

\* The table after the move.
Moved(t) ==
  LET d == th[t].depth
      to == th[t].path[d + 1]
      from == th[t].path[d]
  IN  IF d = 0 THEN buckets
      ELSE [buckets EXCEPT ![to.bucket][to.slot] = buckets[from.bucket][from.slot],
                           ![from.bucket][from.slot] = Vacant]

\* The table has changed under the path: search again.
MoveFailed(t) ==
  /\ HasMoveLocks(t) /\ ~ MoveValid(t)
  /\ Goto(t, SlotSearch(th[t].hp, th[t].b, th[t].nested))
  /\ UnlockAll(t)
  /\ UNCHANGED <<table, expansion_lock, limits, interface>>

\* A move further down the path.  The counts of the locks stay as they are.
MoveOn(t) ==
  /\ HasMoveLocks(t) /\ MoveValid(t) /\ th[t].depth > 1
  /\ buckets' = Moved(t)
  /\ Goto(t, [th[t] EXCEPT !.pc = "move", !.depth = @ - 1])
  /\ UnlockAll(t)
  /\ UNCHANGED <<elems, expansion_lock, limits, interface>>

\* Mutant of FinishInsert: the key is not looked for again.
FinishInsertUnchecked(t) ==
  /\ HasMoveLocks(t) /\ MoveValid(t) /\ th[t].depth <= 1
  /\ LET insert == th[t].path[1]
     IN  AddToBucket(Moved(t), insert.bucket, insert.slot, Key(t), call[t].val)
  /\ Return(t, Result("ok", NoVal))
  /\ UnlockAll(t)
  /\ UNCHANGED <<expansion_lock, limits>>

\* The last move has freed a slot in a bucket of the key, and both buckets are
\* locked.  Another thread may have inserted the key meanwhile.
FinishInsert(t) ==
  /\ HasMoveLocks(t) /\ MoveValid(t) /\ th[t].depth <= 1
  /\ IF FoundIn(Moved(t), t)
       THEN /\ buckets' = Moved(t)
            /\ UNCHANGED elems
            /\ Duplicated(t)
       ELSE LET insert == th[t].path[1]
            IN  /\ AddToBucket(Moved(t), insert.bucket, insert.slot, Key(t), call[t].val)
                /\ Return(t, Result("ok", NoVal))
  /\ UnlockAll(t)
  /\ UNCHANGED <<expansion_lock, limits>>
-----------------------------------------------------------------------------
(***************************************************************************)
(* cuckoo_size, in size and in cuckoo_loadfactor.  It takes no lock.       *)
(***************************************************************************)
ReadCounter(t) ==
  /\ At(t, "sum") /\ th[t].i < kNumLocks
  /\ Goto(t, [th[t] EXCEPT !.acc = (@ + elems[th[t].i]) % SizeMod, !.i = @ + 1])
  /\ UNCHANGED <<locksVars, table, expansion_lock, limits, interface>>

Summed(t) == At(t, "sum") /\ th[t].i = kNumLocks

SizeReturns(t) ==
  /\ Summed(t) /\ Op(t) = "size"
  /\ Return(t, Result("ok", th[t].acc))
  /\ UNCHANGED <<locksVars, table, expansion_lock, limits>>

\* cuckoo_loadfactor(hp) < minimum_load_factor(), for n elements.
TooLow(n, hp) == n * 100 < minimum_load_factor * SLOT_PER_BUCKET * hashsize(hp)

\* The insert loop throws, or goes on to expand the table.
CheckLoadFactor(t) ==
  /\ Summed(t) /\ Op(t) # "size"
  /\ IF TooLow(th[t].acc, th[t].hp)
       THEN Return(t, Result("load_factor_too_low", NoVal))
       ELSE /\ Goto(t, [Local("double") EXCEPT !.hp = th[t].hp, !.nested = th[t].nested])
            /\ UNCHANGED interface
  /\ UNCHANGED <<locksVars, table, expansion_lock, limits>>
-----------------------------------------------------------------------------
(***************************************************************************)
(* cuckoo_fast_double.                                                     *)
(***************************************************************************)

\* The expansion is over, one way or another: insert again.  upsert does so in
\* the insert loop.
Expanded(t) == Restart(t, Upserts(t))

TooLarge(hp) ==
  maximum_hashpower # NO_MAXIMUM_HASHPOWER /\ hp > maximum_hashpower

ThrowTooLarge(t) == Return(t, Result("maximum_hashpower_exceeded", NoVal))

FastDouble(t) ==
  /\ At(t, "double")
  /\ \/ /\ ~ NothrowMove
        /\ Goto(t, [th[t] EXCEPT !.pc = "expand", !.new_hp = th[t].hp + 1, !.grow = TRUE])
        /\ UNCHANGED interface
     \/ NothrowMove /\ TooLarge(th[t].hp + 1) /\ ThrowTooLarge(t)
     \/ /\ NothrowMove /\ ~ TooLarge(th[t].hp + 1)
        /\ Goto(t, [th[t] EXCEPT !.pc = "explock"])
        /\ UNCHANGED interface
  /\ UNCHANGED <<locksVars, table, expansion_lock, limits>>

\* Mutant of TakeExpansionLock: the hashpower is not compared again.
TakeExpansionLockUnchecked(t) ==
  /\ At(t, "explock") /\ expansion_lock = NoThread
  /\ expansion_lock' = t
  /\ LockAll(t)
  /\ Goto(t, [th[t] EXCEPT !.pc = "resize"])
  /\ UNCHANGED <<table, limits, interface>>

\* Under the expansion lock: if the table has another hashpower already, there
\* is nothing to do; otherwise lock the whole table.
TakeExpansionLock(t) ==
  /\ At(t, "explock") /\ expansion_lock = NoThread
  /\ IF hashpower # th[t].hp
       THEN Expanded(t) /\ UNCHANGED <<locksVars, expansion_lock>>
       ELSE /\ expansion_lock' = t
            /\ LockAll(t)
            /\ Goto(t, [th[t] EXCEPT !.pc = "resize"])
            /\ UNCHANGED interface
  /\ UNCHANGED <<table, limits>>

\* The buckets_ vector is doubled and the new hashpower stored.
Resize(t) ==
  /\ At(t, "resize") /\ LocksGranted(t)
  /\ LET n == Cardinality(DOMAIN buckets)
     IN  buckets' = [i \in 0 .. 2 * n - 1 |-> IF i < n THEN buckets[i] ELSE EmptyBucket]
  /\ set_hashpower(t, th[t].hp + 1)
  /\ Goto(t, [th[t] EXCEPT !.pc = "drain",
                           !.todo = {l \in Locks : l < hashsize(th[t].hp)}])
  /\ UNCHANGED <<elems, expansion_lock, limits, interface>>

\* The slots of bucket i whose items move_buckets takes to bucket i + hashsize(hp).
MovingSlots(hp, i) ==
  {s \in Slots : buckets[i][s] # Vacant /\ MovesUp(hp, i, Hash[buckets[i][s].key])}

\* Mutant of MovedUp: new_bucket_slot is not incremented.
MovedUpToSlotZero(hp, i) ==
  LET moving == MovingSlots(hp, i)
  IN  [s \in Slots |-> IF s = 0 /\ moving # {} THEN buckets[i][Max(moving)]
                       ELSE buckets[i + hashsize(hp)][s]]

\* They fill the new bucket from slot 0 on.
MovedUp(hp, i) ==
  LET moving == MovingSlots(hp, i)
      rank(s) == Cardinality({r \in moving : r < s})
  IN  [s \in Slots |-> IF \E m \in moving : rank(m) = s
                         THEN buckets[i][CHOOSE m \in moving : rank(m) = s]
                         ELSE buckets[i + hashsize(hp)][s]]

\* The items that move_buckets takes out of the buckets behind lock l.
OldBuckets(hp, l) == {i \in 0 .. hashsize(hp) - 1 : lock_ind(i) = l}
MovedFrom(hp, l) ==
  SumFunction([i \in OldBuckets(hp, l) |-> Cardinality(MovingSlots(hp, i))])

\* Mutant of CountChange: only the decrement.
CountChangeDecrement(hp, l, m) == IF m = l THEN - MovedFrom(hp, l) ELSE 0

\* What moving them changes in the count of lock m.  The buckets of the new half
\* that they go to are all behind lock_ind(l + hashsize(hp)).
CountChange(hp, l, m) ==
  (IF m = lock_ind(l + hashsize(hp)) THEN MovedFrom(hp, l) ELSE 0)
    - (IF m = l THEN MovedFrom(hp, l) ELSE 0)

\* What move_buckets leaves in bucket i of the old table.
LeftBehind(hp, i) ==
  [s \in Slots |-> IF s \in MovingSlots(hp, i) THEN Vacant ELSE buckets[i][s]]

\* move_buckets for one lock: all the buckets of the old table behind it, their
\* items' counts, and then the lock itself.  The locks are done in any order,
\* by the threads of parallel_exec.
MoveBuckets(t, l) ==
  /\ At(t, "drain") /\ l \in th[t].todo
  /\ LET hp == th[t].hp
         old == OldBuckets(hp, l)
     IN  /\ buckets' = [i \in DOMAIN buckets |->
              CASE i \in old -> LeftBehind(hp, i)
                [] i - hashsize(hp) \in old -> MovedUp(hp, i - hashsize(hp))
                [] OTHER -> buckets[i]]
         /\ elems' = [m \in Locks |-> (elems[m] + CountChange(hp, l, m)) % SizeMod]
  /\ Unlock(t, {l})
  /\ Goto(t, [th[t] EXCEPT !.todo = @ \ {l}])
  /\ UNCHANGED <<expansion_lock, limits, interface>>

\* The locks the old table did not use are given back last.
FinishDouble(t) ==
  /\ At(t, "drain") /\ th[t].todo = {}
  /\ IF Held(t) # {} THEN UnlockAll(t) ELSE UNCHANGED locksVars
  /\ expansion_lock' = NoThread
  /\ Expanded(t)
  /\ UNCHANGED <<table, limits>>
-----------------------------------------------------------------------------
(***************************************************************************)
(* rehash and reserve, and cuckoo_expand_simple.                           *)
(***************************************************************************)

\* rehash and reserve read the hashpower without a lock.
Rehash(t) ==
  /\ At(t, "rehash")
  /\ LET new_hp == IF Op(t) = "rehash" THEN call[t].n ELSE reserve_calc(call[t].n)
     IN  IF new_hp = hashpower
           THEN Return(t, Result("failure", NoVal))
           ELSE /\ Goto(t, [Local("expand") EXCEPT !.new_hp = new_hp,
                                                   !.grow = new_hp > hashpower])
                /\ UNCHANGED interface
  /\ UNCHANGED <<locksVars, table, expansion_lock, limits>>

\* cuckoo_expand_simple returns st, to rehash or reserve or to an insertion.
ExpandReturns(t, st) ==
  IF Op(t) \in {"rehash", "reserve"} THEN Return(t, Result(st, NoVal)) ELSE Expanded(t)

ExpandTooLarge(t) ==
  /\ At(t, "expand") /\ TooLarge(th[t].new_hp)
  /\ ThrowTooLarge(t)
  /\ UNCHANGED <<locksVars, table, expansion_lock, limits>>

ExpandLockAll(t) ==
  /\ At(t, "expand") /\ ~ TooLarge(th[t].new_hp)
  /\ LockAll(t)
  /\ Goto(t, [th[t] EXCEPT !.pc = "rebuild"])
  /\ UNCHANGED <<table, expansion_lock, limits, interface>>

\* Another resize came first: failure_under_expansion.
Overtaken(t) ==
  IF th[t].grow THEN th[t].new_hp <= hashpower ELSE th[t].new_hp >= hashpower

ExpandOvertaken(t) ==
  /\ At(t, "rebuild") /\ LocksGranted(t) /\ Overtaken(t)
  /\ ExpandReturns(t, "failure")
  /\ UnlockAll(t)
  /\ UNCHANGED <<table, expansion_lock, limits>>

\* Mutant of ExpandSimple: the hashpower that was asked for is stored, and not
\* the one the new table has.
ExpandSimpleStoresRequest(t) ==
  /\ At(t, "rebuild") /\ LocksGranted(t) /\ ~ Overtaken(t)
  /\ \E h \in HashPowers :
       /\ h >= reserve_calc(hashsize(th[t].new_hp) * SLOT_PER_BUCKET)
       /\ buckets' \in Layouts(h, Items)
  /\ set_hashpower(t, th[t].new_hp)
  /\ Goto(t, [th[t] EXCEPT !.pc = "rebuilt"])
  /\ UNCHANGED <<elems, expansion_lock, limits, interface>>

\* Mutant of ExpandSimple: only as many old buckets as the new table has are
\* gone through.
ExpandSimpleNewRange(t) ==
  /\ At(t, "rebuild") /\ LocksGranted(t) /\ ~ Overtaken(t)
  /\ LET kept == {k \in DOMAIN Items : \E p \in Occupied :
                    p[1] < hashsize(th[t].new_hp) /\ buckets[p[1]][p[2]].key = k}
     IN  \E h \in HashPowers :
           /\ h >= reserve_calc(hashsize(th[t].new_hp) * SLOT_PER_BUCKET)
           /\ buckets' \in Layouts(h, [k \in kept |-> Items[k]])
           /\ set_hashpower(t, h)
  /\ Goto(t, [th[t] EXCEPT !.pc = "rebuilt"])
  /\ UNCHANGED <<elems, expansion_lock, limits, interface>>

\* All items are inserted into a new table, whose buckets are swapped in.  The
\* new table starts at the hashpower that reserve_calc gives and may have grown;
\* where its insertions put the items is left open.  The counts stay.
ExpandSimple(t) ==
  /\ At(t, "rebuild") /\ LocksGranted(t) /\ ~ Overtaken(t)
  /\ \E h \in HashPowers :
       /\ h >= reserve_calc(hashsize(th[t].new_hp) * SLOT_PER_BUCKET)
       /\ buckets' \in Layouts(h, Items)
       /\ set_hashpower(t, h)
  /\ Goto(t, [th[t] EXCEPT !.pc = "rebuilt"])
  /\ UNCHANGED <<elems, expansion_lock, limits, interface>>

ExpandUnlock(t) ==
  /\ At(t, "rebuilt")
  /\ ExpandReturns(t, "ok")
  /\ UnlockAll(t)
  /\ UNCHANGED <<table, expansion_lock, limits>>
-----------------------------------------------------------------------------
(***************************************************************************)
(* clear and lock_table, and the two limits.                               *)
(***************************************************************************)
StartLockAll(t) ==
  /\ At(t, "all")
  /\ LockAll(t)
  /\ Goto(t, Local(IF Op(t) = "clear" THEN "op" ELSE "locked"))
  /\ UNCHANGED <<table, expansion_lock, limits, interface>>

Clear(t) ==
  /\ HasBuckets(t) /\ Op(t) = "clear"
  /\ buckets' = [i \in DOMAIN buckets |-> EmptyBucket]
  /\ elems' = [l \in Locks |-> 0]
  /\ Return(t, Result("ok", NoVal))
  /\ UnlockAll(t)
  /\ UNCHANGED <<expansion_lock, limits>>

\* release or destruction of the locked_table.
ReleaseLockedTable(t) ==
  /\ At(t, "locked") /\ LocksGranted(t)
  /\ Return(t, Result("ok", NoVal))
  /\ UnlockAll(t)
  /\ UNCHANGED <<table, expansion_lock, limits>>

\* A load factor, in percent.
ValidLoadFactor(mlf) == mlf \in 0 .. 100

SetLimit(t) ==
  /\ At(t, "op")
  /\ \/ /\ Op(t) = "minimum_load_factor" /\ ~ ValidLoadFactor(call[t].n)
        /\ Return(t, Result("invalid_argument", NoVal))
        /\ UNCHANGED limits
     \/ /\ Op(t) = "minimum_load_factor" /\ ValidLoadFactor(call[t].n)
        /\ minimum_load_factor' = call[t].n
        /\ Return(t, Result("ok", NoVal))
        /\ UNCHANGED maximum_hashpower
     \/ /\ Op(t) = "maximum_hashpower"
        /\ maximum_hashpower' = call[t].n
        /\ Return(t, Result("ok", NoVal))
        /\ UNCHANGED minimum_load_factor
  /\ UNCHANGED <<locksVars, table, expansion_lock>>
-----------------------------------------------------------------------------
\* A step of thread t in its call.
Step(t) ==
  \/ SnapshotAndLockTwo(t) \/ LockStep(t) \/ LockFailed(t)
  \/ Lookup(t) \/ Erase(t) \/ Update(t)
  \/ InsertDuplicate(t) \/ InsertIntoBucket(t) \/ RunCuckoo(t)
  \/ PeekFailed(t) \/ SearchOn(t) \/ SearchFailed(t) \/ SearchFound(t) \/ FollowPath(t)
  \/ StartMove(t) \/ MoveFailed(t) \/ MoveOn(t) \/ FinishInsert(t)
  \/ ReadCounter(t) \/ SizeReturns(t) \/ CheckLoadFactor(t)
  \/ FastDouble(t) \/ TakeExpansionLock(t) \/ Resize(t)
  \/ \E l \in Locks : MoveBuckets(t, l)
  \/ FinishDouble(t)
  \/ Rehash(t) \/ ExpandTooLarge(t) \/ ExpandLockAll(t)
  \/ ExpandOvertaken(t) \/ ExpandSimple(t) \/ ExpandUnlock(t)
  \/ StartLockAll(t) \/ Clear(t) \/ ReleaseLockedTable(t) \/ SetLimit(t)

\* All the calls have been made and have returned.
Finished ==
  /\ callsLeft = 0 /\ \A t \in Threads : call[t] = NoCall
  /\ UNCHANGED mapVars

MapNext ==
  \/ \E t \in Threads : Step(t) \/ \E c \in Calls : Call(t, c)
  \/ Finished

MapSpec == MapInit /\ [][MapNext]_mapVars
-----------------------------------------------------------------------------
\* The type invariant of the table and of the threads' local state.
MapTypeOK ==
  /\ LocksTypeOK
  /\ \A i \in DOMAIN buckets, s \in Slots :
       \/ buckets[i][s] = Vacant
       \/ \E k \in Keys, v \in Vals : buckets[i][s] = Item(k, v)
  /\ elems \in [Locks -> 0 .. SizeMod - 1]
  /\ expansion_lock \in Threads \union {NoThread}
  /\ minimum_load_factor \in 0 .. 100 /\ maximum_hashpower \in Nat
  /\ \A t \in Threads :
       /\ call[t] \in Calls \union {NoCall}
       /\ call[t] = NoCall <=> th[t].pc = "idle"
       /\ Len(th[t].q) < MAX_CUCKOO_COUNT /\ th[t].x.depth < MAX_BFS_PATH_LEN
       /\ \A n \in 1 .. Len(th[t].q) : th[t].q[n].depth < MAX_BFS_PATH_LEN
       /\ Len(th[t].path) <= MAX_BFS_PATH_LEN
  /\ callsLeft \in 0 .. MaxCalls

\* "2**hashpower is the number of buckets", whenever anybody can look.
BucketCount == DOMAIN buckets = 0 .. hashsize(hashpower) - 1

\* Lookups can find every item: it is in one of its key's two buckets for the
\* current hashpower, except behind the locks that a doubling has not given
\* back yet.
Placed ==
  \A p \in Occupied :
    LET b == TwoBuckets(hashpower, Hash[ItemAt(p).key])
        w == writer[lock_ind(p[1])]
    IN  p[1] \in {b[1], b[2]} \/ (w # NoThread /\ th[w].pc = "drain")

\* No key is in the table twice, although an insertion unlocks its buckets
\* while it makes room, and a displaced item is in another bucket afterwards.
UniqueKeys ==
  \A p, r \in Occupied : ItemAt(p).key = ItemAt(r).key => p = r

\* The counters add up to the number of items, although displacements and
\* cuckoo_expand_simple leave them with locks the items are no longer behind.
CountExact == SumFunction(elems) % SizeMod = Cardinality(Occupied) % SizeMod

\* Whenever an operation has the locks to touch its two buckets, at first or
\* after it made room, these are the key's buckets for the current hashpower,
\* as asserted in cuckoo_insert.
BucketsCurrent ==
  \A t \in Threads :
    /\ req[t].stage = "rest" /\ LocksGranted(t)
    /\ At(t, "op") \/ (At(t, "moving") /\ th[t].depth <= 1)
    => /\ th[t].b = TwoBuckets(hashpower, Hash[Key(t)])
       /\ At(t, "moving") => th[t].path[1].bucket \in {th[t].b[1], th[t].b[2]}

\* While a locked_table has the locks, nothing in the table changes.
LockedTableFrozen ==
  [][\A t \in Threads :
       At(t, "locked") /\ LocksGranted(t) => UNCHANGED <<table, hashpower>>]_mapVars

\* The table does not double while its load factor is below
\* minimum_load_factor: the insertion throws load_factor_too_low instead.
LoadFactorRespected ==
  [][\A t \in Threads :
       At(t, "resize") /\ th'[t].pc = "drain"
         => ~ TooLow(Cardinality(Occupied), hashpower)]_mapVars

\* The abstract map is what is in the buckets.
Abstract == INSTANCE ConcurrentMap WITH map <- Contents, Exceptions <- {}

\* The table is a linearizable map: every call takes effect at one instant.
Linearizable == Abstract!AbstractSpec

\* A thread that can go on is scheduled again.  No fairness is assumed of the
\* locks, and none of the threads' decision to make a call.
FairMapSpec == MapSpec /\ \A t \in Threads : WF_mapVars(Step(t))

\* Every call returns: the retries of run_cuckoo, of the insert and upsert loops
\* and of snapshot_and_lock_two come to an end, and nobody waits for ever for a
\* bucket lock or for the expansion lock.
EveryCallReturns == \A t \in Threads : call[t] # NoCall ~> call[t] = NoCall
=============================================================================
