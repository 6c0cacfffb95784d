--------------------------- MODULE CuckooMapProofs ---------------------------
(***************************************************************************)
(* Proofs about the table, for any number of threads, keys, slots and      *)
(* locks, any hash function and any sequence of calls, with and without    *)
(* exceptions of user code.                                                *)
(***************************************************************************)
EXTENDS UserExceptions, BucketLocksProofs, CuckooHashingProofs

\* The table may be rebuilt by cuckoo_expand_simple, or doubled in place, but not
\* both: a rehash or reserve between two steps of cuckoo_fast_double makes it store
\* a wrong hashpower.
RebuildsOrDoubles ==
  NothrowMove => \A c \in Calls : c.op \notin {"rehash", "reserve"}

\* The buckets of a table of hashpower hp, and the two of key k.
InTable(hp) == 0 .. hashsize(hp) - 1
Both(hp, k) == {TwoBuckets(hp, Hash[k])[1], TwoBuckets(hp, Hash[k])[2]}

-----------------------------------------------------------------------------
(***************************************************************************)
(* The local state of a thread.                                            *)
(***************************************************************************)
PCs == {"idle", "snapshot", "op", "search", "path", "move", "moving", "sum", "double",
        "explock", "resize", "drain", "rehash", "expand", "rebuild", "rebuilt", "all",
        "locked"}

\* What may be in the queue and on the path of a search.
BSlots == [bucket : Nat, pathcode : Nat, depth : Int]
Records == [bucket : Nat, slot : Slots, hash : Int]

\* The type of a thread's local state.
Locals ==
  [pc : PCs, hp : Nat, b : Nat \X Nat, nested : BOOLEAN,
   x : BSlots, q : Seq(BSlots), i : Nat,
   slots : Seq(Slots), path : Seq(Records), depth : Nat,
   acc : Nat, todo : SUBSET Locks, new_hp : Nat, grow : BOOLEAN]

\* The calls in which a thread may be at pc.
OpsAt(pc) ==
  CASE pc = "snapshot" -> KeyOps
    [] pc = "op" -> KeyOps \union {"clear", "minimum_load_factor", "maximum_hashpower"}
    [] pc \in {"search", "path", "move", "moving", "double", "explock", "resize", "drain"}
         -> InsertOps
    [] pc = "sum" -> InsertOps \union {"size"}
    [] pc = "rehash" -> {"rehash", "reserve"}
    [] pc \in {"expand", "rebuild", "rebuilt"} -> InsertOps \union {"rehash", "reserve"}
    [] pc = "all" -> {"clear", "lock_table"}
    [] pc = "locked" -> {"lock_table"}
    [] OTHER -> {}

\* Where a thread is fits its call, and the kind of table: only tables whose items may
\* throw when moved are rebuilt, the others are doubled.
CallOK(l, c) ==
  /\ c \in Calls \union {NoCall}
  /\ c = NoCall <=> l.pc = "idle"
  /\ c # NoCall => c.op \in OpsAt(l.pc)
  /\ l.pc \in {"explock", "resize", "drain"} => NothrowMove
  /\ l.pc \in {"rehash", "expand", "rebuild", "rebuilt"} => ~ NothrowMove

\* A path starts in one of the two buckets b and goes from each bucket to the other
\* one of the item it found there.
PathOK(hp, b, path) ==
  /\ path # <<>> => path[1].bucket \in {b[1], b[2]}
  /\ \A n \in 1 .. Len(path) : path[n].bucket \in InTable(hp)
  /\ \A n \in 1 .. Len(path) - 1 :
       /\ path[n].hash \in Nat
       /\ path[n + 1].bucket = alt_index(hp, partial_key(path[n].hash), path[n].bucket)

\* A queue entry is about a bucket of the table, at a depth a path may have.
BSlotOK(hp, x) == x.bucket \in InTable(hp) /\ x.depth \in 0 .. MAX_BFS_PATH_LEN - 1

\* The state of a search for a path, and the path that it leads to.
SearchOK(l, c) ==
  /\ l.pc \in {"search", "path", "move", "moving"} => l.b = TwoBuckets(l.hp, Hash[c.key])
  /\ l.pc = "search" =>
       /\ BSlotOK(l.hp, l.x) /\ \A n \in 1 .. Len(l.q) : BSlotOK(l.hp, l.q[n])
       /\ Len(l.q) < MAX_CUCKOO_COUNT - 1
  /\ l.pc = "path" =>
       /\ l.x.bucket \in {l.b[1], l.b[2]} /\ l.x.depth \in 0 .. MAX_BFS_PATH_LEN - 1
       /\ Len(l.slots) = l.x.depth + 1 /\ Len(l.path) < Len(l.slots)
       /\ PathOK(l.hp, l.b, l.path) /\ \A n \in 1 .. Len(l.path) : l.path[n].hash \in Nat
  /\ l.pc \in {"move", "moving"} =>
       /\ l.depth < Len(l.path) /\ Len(l.path) <= MAX_BFS_PATH_LEN
       /\ PathOK(l.hp, l.b, l.path)
  /\ l.pc \notin {"search", "path"} => l.x = NoBSlot
  /\ l.pc # "search" => l.q = <<>>
  /\ l.pc \notin {"path", "move", "moving"} => l.path = <<>>

\* The local state of thread t by itself.
ThreadOK(t) == th[t] \in Locals /\ CallOK(th[t], call[t]) /\ SearchOK(th[t], call[t])

-----------------------------------------------------------------------------
(***************************************************************************)
(* Which locks a thread has or is about to take.                           *)
(***************************************************************************)

\* Thread t has asked for the locks of the buckets s.
Asked(t, s) == \A i \in s : lock_ind(i) \in req[t].want \union Held(t)

\* The buckets of the next move.
BucketsOfMove(l) ==
  CASE l.depth = 0 -> {l.b[1], l.b[2]}
    [] l.depth = 1 -> {l.b[1], l.b[2], l.path[2].bucket}
    [] OTHER -> {l.path[l.depth].bucket, l.path[l.depth + 1].bucket}

\* The lock call thread t is in, or the locks it holds, are those for what it does next.
RequestOK(t) ==
  LET l == th[t]
      r == req[t]
  IN  /\ l.pc \in {"idle", "snapshot", "search", "path", "move", "sum", "double", "explock",
                   "rehash", "expand", "all"} => r.stage = "none"
      /\ l.pc = "op" /\ call[t].op \in KeyOps =>
           /\ r.stage \in {"first", "check", "rest"}
           /\ l.b = TwoBuckets(r.hp, Hash[call[t].key])
           /\ Asked(t, {l.b[1], l.b[2]})
      /\ l.pc = "op" /\ call[t].op = "clear" => r.stage = "all"
      /\ l.pc = "op" /\ call[t].op \notin KeyOps \union {"clear"} => r.stage = "none"
      /\ l.pc = "moving" =>
           /\ r.stage \in {"first", "check", "rest"}
           /\ r.hp = l.hp
           /\ Asked(t, BucketsOfMove(l))
      /\ l.pc \in {"resize", "rebuild", "locked"} => r.stage = "all"
      /\ l.pc = "rebuilt" => r.stage = "drain"
      /\ l.pc = "drain" =>
           /\ r.stage \in {"drain", "none"}
           /\ \A m \in l.todo : m < hashsize(l.hp)
           /\ \A m \in Locks : m \in l.todo \/ m >= hashsize(l.hp) => writer[m] = t
      /\ r.stage = "drain" => Held(t) # {}

\* The expansion lock is held from taking all the locks to the end of the doubling, and
\* meanwhile the hashpower is what the thread knows.
ExpansionOK(t) ==
  /\ expansion_lock = t <=> th[t].pc \in {"resize", "drain"}
  /\ th[t].pc = "resize" => hashpower = th[t].hp
  /\ th[t].pc = "drain" => hashpower = th[t].hp + 1

\* Where the threads are, and the locks that they hold.
ControlInv ==
  /\ LocksInv
  /\ th \in [Threads -> Locals]
  /\ call \in [Threads -> Calls \union {NoCall}]
  /\ expansion_lock \in Threads \union {NoThread}
  /\ \A t \in Threads : ThreadOK(t) /\ RequestOK(t) /\ ExpansionOK(t)

-----------------------------------------------------------------------------
(***************************************************************************)
(* The contents of the table.                                              *)
(***************************************************************************)
\* The items there may be, and the tables of hashpower hp.
AnyItem == {Item(k, v) : k \in Keys, v \in Vals}
Tables(hp) == [InTable(hp) -> [Slots -> AnyItem \union {Vacant}]]

\* The table has as many buckets as the hashpower says, and they hold items.
TableOK ==
  buckets \in Tables(hashpower) /\ elems \in [Locks -> 0 .. SizeMod - 1]

\* Bucket i is yet to be moved by thread t.
InTodo(t, i) == At(t, "drain") /\ i \in InTable(th[t].hp) /\ lock_ind(i) \in th[t].todo

\* An item is in one of its two buckets; in a bucket yet to be moved, for the old
\* hashpower.
PlacedInv ==
  \A i \in DOMAIN buckets, s \in Slots : buckets[i][s] # Vacant =>
    \/ i \in Both(hashpower, buckets[i][s].key)
    \/ \E t \in Threads : InTodo(t, i) /\ i \in Both(th[t].hp, buckets[i][s].key)

\* The bucket of the new half that such a bucket is moved to is vacant.
UpperVacant ==
  \A t \in Threads, i \in DOMAIN buckets : InTodo(t, i) =>
    \A s \in Slots : buckets[i + hashsize(th[t].hp)][s] = Vacant

\* No key is twice in the table bs.
UniqueInv(bs) ==
  \A i, j \in DOMAIN bs, s, r \in Slots :
    bs[i][s] # Vacant /\ bs[j][r] # Vacant /\ bs[i][s].key = bs[j][r].key
      => i = j /\ s = r

\* Where the items are.
DataInv == PlacedInv /\ UpperVacant /\ UniqueInv(buckets)

\* The inductive invariant.
MapInv == ControlInv /\ TableOK /\ DataInv
-----------------------------------------------------------------------------
(***************************************************************************)
(* What a step of the locking layer does to its thread and to the others.  *)
(***************************************************************************)

\* The locks and the lock calls of all threads but t are as before.
OthersKept(t) ==
  \A u \in Threads \ {t} :
    /\ req'[u] = req[u] /\ Held(u)' = Held(u)
    /\ \A m \in Locks : writer[m] = u => writer'[m] = u

\* Thread t has no locks and is in no lock call, and the hashpower is as before.
Released(t) ==
  LocksInv' /\ OthersKept(t) /\ hashpower' = hashpower /\ req'[t].stage = "none"

\* A step without the locks.
LEMMA LocksRest ==
  ASSUME LocksInv, NEW t \in Threads, UNCHANGED locksVars
  PROVE  LocksInv' /\ OthersKept(t) /\ \A u \in Threads : Held(u)' = Held(u)
<1>1. LocksInv'
  BY LocksNextInv
<1>2. \A u \in Threads : Held(u)' = Held(u)
  BY DEF locksVars, Held
<1> QED
  BY <1>1, <1>2 DEF OthersKept, locksVars

\* The start of lock_one, lock_two or lock_three.
LEMMA LockBucketsStep ==
  ASSUME LocksInv, NEW t \in Threads, NEW hp \in HashPowers, NEW ls \in SUBSET Locks,
         NEW shared \in BOOLEAN, LockBuckets(t, hp, ls, shared)
  PROVE  /\ LocksInv' /\ OthersKept(t) /\ hashpower' = hashpower
         /\ req'[t].stage = "first" /\ req'[t].hp = hp /\ req'[t].want = ls
         /\ Held(t)' = {}
<1>1. LocksInv'
  BY LockBucketsInv
<1>2. \A u \in Threads : Held(u)' = Held(u)
  BY DEF LockBuckets, Held
<1>3. Held(t) = {}
  BY DEF LocksInv, StageHolds, LockBuckets
<1> QED
  BY <1>1, <1>2, <1>3 DEF OthersKept, LockBuckets, LocksInv, LocksTypeOK

\* The start of snapshot_and_lock_all.
LEMMA LockAllStep ==
  ASSUME LocksInv, NEW t \in Threads, LockAll(t)
  PROVE  /\ LocksInv' /\ OthersKept(t) /\ hashpower' = hashpower
         /\ req'[t].stage = "all" /\ Held(t)' = {}
<1>1. LocksInv'
  BY LockAllInv
<1>2. \A u \in Threads : Held(u)' = Held(u)
  BY DEF LockAll, Held
<1>3. Held(t) = {}
  BY DEF LocksInv, StageHolds, LockAll
<1> QED
  BY <1>1, <1>2, <1>3 DEF OthersKept, LockAll, LocksInv, LocksTypeOK

\* Taking a lock, or finding the hashpower unchanged.
LEMMA LockProgress ==
  ASSUME LocksInv, NEW t \in Threads, TakeLock(t) \/ HashpowerUnchanged(t)
  PROVE  /\ LocksInv' /\ OthersKept(t) /\ hashpower' = hashpower
         /\ req'[t].hp = req[t].hp
         /\ req'[t].want \union Held(t)' = req[t].want \union Held(t)
         /\ req[t].stage \in {"first", "check", "rest", "all"}
         /\ req[t].stage = "all" => req'[t].stage = "all"
         /\ req[t].stage # "all" => req'[t].stage \in {"check", "rest"}
<1>1. LocksInv'
  BY TakeLockInv, HashpowerUnchangedInv
<1>2. LocksTypeOK /\ req \in [Threads -> Requests]
  BY DEF LocksInv, LocksTypeOK
<1>3. CASE TakeLock(t)
  <2>1. PICK l \in req[t].want :
          /\ Acquire(t, l, req[t].shared)
          /\ req' = [req EXCEPT ![t].stage = IF @ = "first" THEN "check" ELSE @,
                                ![t].want = @ \ {l}]
    BY <1>3 DEF TakeLock
  <2>2. req[t].stage \in {"first", "rest", "all"} /\ hashpower' = hashpower
    BY <1>3 DEF TakeLock
  <2> DEFINE shared == req[t].shared
  <2>3. l \in Locks /\ shared \in BOOLEAN /\ Acquire(t, l, shared)
    BY <1>2, <2>1 DEF Requests
  <2> HIDE DEF shared
  <2>4. /\ Held(t)' = Held(t) \union {l}
        /\ \A u \in Threads \ {t} : Held(u)' = Held(u)
        /\ \A m \in Locks, u \in Threads : writer[m] = u => writer'[m] = u
    BY <1>2, <2>3, AcquireHeld
  <2>5. /\ req'[t].stage = IF req[t].stage = "first" THEN "check" ELSE req[t].stage
        /\ req'[t].want = req[t].want \ {l}
        /\ req'[t].hp = req[t].hp
        /\ \A u \in Threads \ {t} : req'[u] = req[u]
    BY <1>2, <2>1 DEF Requests
  <2>6. OthersKept(t)
    BY <2>4, <2>5 DEF OthersKept
  <2>7. req'[t].want \union Held(t)' = req[t].want \union Held(t)
    BY <2>1, <2>4, <2>5
  <2> QED
    BY <1>1, <2>2, <2>5, <2>6, <2>7
<1>4. CASE HashpowerUnchanged(t)
  <2>1. \A u \in Threads : Held(u)' = Held(u)
    BY <1>4 DEF HashpowerUnchanged, Held
  <2>2. /\ req[t].stage = "check" /\ req'[t].stage = "rest"
        /\ req'[t].want = req[t].want /\ req'[t].hp = req[t].hp
        /\ \A u \in Threads \ {t} : req'[u] = req[u]
        /\ writer' = writer /\ hashpower' = hashpower
    BY <1>2, <1>4 DEF HashpowerUnchanged, Requests
  <2> QED
    BY <1>1, <2>1, <2>2 DEF OthersKept
<1> QED
  BY <1>3, <1>4

\* check_hashpower throws.
LEMMA HashpowerChangedStep ==
  ASSUME LocksInv, NEW t \in Threads, HashpowerChanged(t)
  PROVE  Released(t)
<1>1. LocksInv'
  BY HashpowerChangedInv
<1> DEFINE ls == Held(t)
<1>2. ls \in SUBSET Locks /\ LocksTypeOK /\ ReleaseLocks(t, ls)
  BY DEF HashpowerChanged, LocksInv, Held
<1> HIDE DEF ls
<1>3. /\ \A u \in Threads \ {t} : Held(u)' = Held(u)
      /\ \A l \in Locks, u \in Threads \ {t} : writer[l] = u => writer'[l] = u
  BY <1>2, ReleaseLocksHeld
<1>4. /\ hashpower' = hashpower /\ req'[t] = NoRequest
      /\ \A u \in Threads \ {t} : req'[u] = req[u]
  BY <1>2 DEF HashpowerChanged, LocksTypeOK
<1> QED
  BY <1>1, <1>3, <1>4 DEF Released, OthersKept, NoRequest

\* Some of the locks are given back.
LEMMA UnlockStep ==
  ASSUME LocksInv, NEW t \in Threads, NEW ls \in SUBSET Locks, Unlock(t, ls)
  PROVE  /\ LocksInv' /\ OthersKept(t) /\ hashpower' = hashpower
         /\ Held(t)' = Held(t) \ ls /\ ls \subseteq Held(t) /\ ls # {}
         /\ \A m \in Locks \ ls : writer[m] = t => writer'[m] = t
         /\ ls = Held(t) => req'[t] = NoRequest
         /\ ls # Held(t) => req'[t].stage = IF req[t].stage = "all" THEN "drain"
                                            ELSE req[t].stage
<1>1. LocksInv'
  BY UnlockInv
<1>2. LocksTypeOK /\ ReleaseLocks(t, ls)
  BY DEF LocksInv, Unlock
<1>3. /\ Held(t)' = Held(t) \ ls
      /\ \A u \in Threads \ {t} : Held(u)' = Held(u)
      /\ \A l \in Locks, u \in Threads \ {t} : writer[l] = u => writer'[l] = u
  BY <1>2, ReleaseLocksHeld
<1>4. /\ hashpower' = hashpower /\ ls \subseteq Held(t) /\ ls # {}
      /\ \A u \in Threads \ {t} : req'[u] = req[u]
      /\ ls = Held(t) => req'[t] = NoRequest
  BY <1>2 DEF Unlock, LocksTypeOK
<1>5. ls # Held(t) => req'[t].stage = IF req[t].stage = "all" THEN "drain" ELSE req[t].stage
  BY <1>2 DEF Unlock, LocksTypeOK, Requests
<1>6. \A m \in Locks \ ls : writer[m] = t => writer'[m] = t
  BY <1>2 DEF ReleaseLocks
<1> QED
  BY <1>1, <1>3, <1>4, <1>5, <1>6 DEF OthersKept

\* All the locks are given back.
LEMMA UnlockAllStep ==
  ASSUME LocksInv, NEW t \in Threads, UnlockAll(t)
  PROVE  Released(t) /\ Held(t)' = {} /\ Held(t) # {}
<1> DEFINE ls == Held(t)
<1>1. ls \in SUBSET Locks /\ Unlock(t, ls)
  BY DEF UnlockAll, Held
<1> HIDE DEF ls
<1>2. /\ LocksInv' /\ OthersKept(t) /\ hashpower' = hashpower
      /\ Held(t)' = Held(t) \ ls /\ ls # {} /\ (ls = Held(t) => req'[t] = NoRequest)
  BY <1>1, UnlockStep
<1> QED
  BY <1>2 DEF ls, Released, NoRequest

\* A thread that has every lock is the only one that has any.
LEMMA AllLocksOwned ==
  ASSUME LocksInv, NEW t \in Threads, req[t].stage = "all", req[t].want = {}
  PROVE  /\ \A m \in Locks : writer[m] = t
         /\ Held(t) = Locks
         /\ \A u \in Threads \ {t} : Held(u) = {}
<1>1. \A m \in Locks : writer[m] = t
  BY DEF LocksInv, StageHolds
<1>2. \A m \in Locks : readers[m] = {}
  BY <1>1, NoThreadAssumption DEF LocksInv, Exclusion
<1> QED
  BY <1>1, <1>2 DEF Held

\* A new hashpower is stored.
LEMMA SetHashpowerStep ==
  ASSUME LocksInv, NEW t \in Threads, NEW hp \in HashPowers, set_hashpower(t, hp)
  PROVE  /\ LocksInv' /\ OthersKept(t) /\ hashpower' = hp
         /\ req[t].stage = "all" /\ req[t].want = {}
         /\ req'[t].stage = "drain"
         /\ \A m \in Locks : writer'[m] = t
         /\ Held(t)' = Locks /\ Locks # {}
<1>1. LocksInv'
  BY SetHashpowerInv
<1>2. \A u \in Threads : Held(u)' = Held(u)
  BY DEF set_hashpower, Held
<1>3. req[t].stage = "all" /\ req[t].want = {}
  BY DEF set_hashpower
<1>4. (\A m \in Locks : writer[m] = t) /\ Held(t) = Locks
  BY <1>3, AllLocksOwned
<1>5. Locks # {}
  BY kNumLocksAssumption DEF Locks
<1>6. /\ writer' = writer /\ hashpower' = hp /\ req'[t].stage = "drain"
      /\ \A u \in Threads \ {t} : req'[u] = req[u]
  BY DEF set_hashpower, LocksInv, LocksTypeOK, Requests
<1> QED
  BY <1>1, <1>2, <1>3, <1>4, <1>5, <1>6 DEF OthersKept
-----------------------------------------------------------------------------
(***************************************************************************)
(* ControlInv: the parts that all steps share.                             *)
(***************************************************************************)

\* A thread at the beginning of something.
LEMMA LocalFields ==
  ASSUME NEW pc
  PROVE  /\ Local(pc).pc = pc /\ Local(pc).hp = 0 /\ Local(pc).b = <<0, 0>>
         /\ Local(pc).nested = FALSE /\ Local(pc).x = NoBSlot /\ Local(pc).q = <<>>
         /\ Local(pc).i = 0 /\ Local(pc).slots = <<>> /\ Local(pc).path = <<>>
         /\ Local(pc).depth = 0 /\ Local(pc).acc = 0 /\ Local(pc).todo = {}
         /\ Local(pc).new_hp = 0 /\ Local(pc).grow = FALSE
BY DEF Local

\* Such a state has its type.
LEMMA LocalType ==
  ASSUME NEW pc \in PCs
  PROVE  Local(pc) \in Locals
<1>1. <<>> \in Seq(BSlots) /\ <<>> \in Seq(Slots) /\ <<>> \in Seq(Records)
  OBVIOUS
<1>2. NoBSlot \in BSlots
  BY DEF NoBSlot, BSlots
<1>3. {} \in SUBSET Locks
  OBVIOUS
<1> QED
  BY <1>1, <1>2, <1>3 DEF Local, Locals

\* Thread u does not notice a step of thread t.
LEMMA OthersOK ==
  ASSUME ControlInv, NEW t \in Threads, NEW u \in Threads, u # t,
         th'[u] = th[u], call'[u] = call[u], OthersKept(t),
         \/ expansion_lock' = expansion_lock
         \/ expansion_lock' = NoThread /\ expansion_lock = t
         \/ expansion_lock' = t /\ expansion_lock = NoThread,
         hashpower' = hashpower \/ expansion_lock = t \/ ~ NothrowMove
  PROVE  ThreadOK(u)' /\ RequestOK(u)' /\ ExpansionOK(u)'
<1>1. ThreadOK(u) /\ RequestOK(u) /\ ExpansionOK(u)
  BY DEF ControlInv
<1>2. req'[u] = req[u] /\ Held(u)' = Held(u) /\ \A m \in Locks : writer[m] = u => writer'[m] = u
  BY DEF OthersKept
<1>3. ThreadOK(u)'
  BY <1>1 DEF ThreadOK
<1>4. RequestOK(u)'
  BY <1>1, <1>2 DEF RequestOK, Asked
<1>5. ExpansionOK(u)'
  <2>1. th[u].pc \in {"resize", "drain"} => NothrowMove
    BY <1>1 DEF ThreadOK, CallOK
  <2> QED
    BY <1>1, <2>1, NoThreadAssumption DEF ExpansionOK
<1> QED
  BY <1>3, <1>4, <1>5

\* A step of thread t keeps the invariant if t itself is in order afterwards.
LEMMA ControlStep ==
  ASSUME ControlInv, NEW t \in Threads, NEW l, NEW c,
         th' = [th EXCEPT ![t] = l], call' = [call EXCEPT ![t] = c],
         LocksInv', OthersKept(t),
         l \in Locals, CallOK(l, c), SearchOK(l, c), RequestOK(t)', ExpansionOK(t)',
         \/ expansion_lock' = expansion_lock
         \/ expansion_lock' = NoThread /\ expansion_lock = t
         \/ expansion_lock' = t /\ expansion_lock = NoThread,
         hashpower' = hashpower \/ expansion_lock = t \/ ~ NothrowMove
  PROVE  ControlInv'
<1>1. /\ th \in [Threads -> Locals] /\ call \in [Threads -> Calls \union {NoCall}]
      /\ expansion_lock \in Threads \union {NoThread}
  BY DEF ControlInv
<1>2. c \in Calls \union {NoCall}
  BY DEF CallOK
<1>3. th' \in [Threads -> Locals] /\ call' \in [Threads -> Calls \union {NoCall}]
  BY <1>1, <1>2
<1>4. th'[t] = l /\ call'[t] = c
  BY <1>1
<1>5. ThreadOK(t)'
  BY <1>4 DEF ThreadOK
<1>6. ASSUME NEW u \in Threads, u # t
      PROVE  ThreadOK(u)' /\ RequestOK(u)' /\ ExpansionOK(u)'
  <2>1. th'[u] = th[u] /\ call'[u] = call[u]
    BY <1>1, <1>6
  <2> QED
    BY <1>6, <2>1, OthersOK
<1>7. \A u \in Threads : ThreadOK(u)' /\ RequestOK(u)' /\ ExpansionOK(u)'
  BY <1>5, <1>6
<1>8. expansion_lock' \in Threads \union {NoThread}
  BY <1>1
<1> QED
  BY <1>3, <1>7, <1>8 DEF ControlInv

\* The same for a step that goes on with the call.
LEMMA ControlGoto ==
  ASSUME ControlInv, NEW t \in Threads, NEW l,
         Goto(t, l), UNCHANGED interface,
         LocksInv', OthersKept(t),
         l \in Locals, CallOK(l, call[t]), SearchOK(l, call[t]),
         RequestOK(t)', ExpansionOK(t)',
         \/ expansion_lock' = expansion_lock
         \/ expansion_lock' = NoThread /\ expansion_lock = t
         \/ expansion_lock' = t /\ expansion_lock = NoThread,
         hashpower' = hashpower \/ expansion_lock = t \/ ~ NothrowMove
  PROVE  ControlInv'
<1>1. call' = [call EXCEPT ![t] = call[t]] /\ th' = [th EXCEPT ![t] = l]
  BY DEF interface, Goto, ControlInv
<1> QED
  BY <1>1, ControlStep

\* What is known of the thread that takes a step.
LEMMA ThreadFacts ==
  ASSUME ControlInv, NEW t \in Threads
  PROVE  /\ LocksInv
         /\ th[t] \in Locals /\ CallOK(th[t], call[t]) /\ SearchOK(th[t], call[t])
         /\ RequestOK(t) /\ ExpansionOK(t)
         /\ call[t] \in Calls \union {NoCall}
         /\ \A l : Goto(t, l) => th'[t] = l
BY DEF ControlInv, ThreadOK, Goto

\* A thread that was released and is in neither resize nor drain.
LEMMA ReleasedOK ==
  ASSUME ControlInv, NEW t \in Threads, Released(t),
         th'[t].pc \in {"idle", "snapshot", "search", "path", "move", "sum", "double",
                        "explock", "rehash", "expand", "all"}
  PROVE  RequestOK(t)'
BY DEF RequestOK, Released

\* A call returns.
LEMMA ReturnControl ==
  ASSUME ControlInv, NEW t \in Threads, NEW result, Return(t, result), Released(t),
         expansion_lock' = expansion_lock, expansion_lock # t
  PROVE  ControlInv'
<1> DEFINE l == Local("idle")
<1>1. th' = [th EXCEPT ![t] = l] /\ call' = [call EXCEPT ![t] = NoCall]
  BY DEF Return, Goto
<1>2. th'[t] = l
  BY <1>1 DEF ControlInv
<1>3. l \in Locals /\ l.pc = "idle" /\ l.x = NoBSlot /\ l.q = <<>> /\ l.path = <<>>
  BY LocalType, LocalFields DEF PCs
<1> HIDE DEF l
<1>4. CallOK(l, NoCall) /\ SearchOK(l, NoCall)
  BY <1>3 DEF CallOK, SearchOK
<1>5. RequestOK(t)'
  BY <1>2, <1>3, ReleasedOK
<1>6. ExpansionOK(t)'
  BY <1>2, <1>3 DEF ExpansionOK
<1> QED
  BY <1>1, <1>3, <1>4, <1>5, <1>6, ControlStep DEF Released

\* A call starts over.
LEMMA RestartControl ==
  ASSUME ControlInv, NEW t \in Threads, NEW nested \in BOOLEAN,
         Restart(t, nested), Released(t),
         call[t] # NoCall, call[t].op \in KeyOps,
         \/ expansion_lock' = expansion_lock /\ expansion_lock # t
         \/ expansion_lock' = NoThread /\ expansion_lock = t
  PROVE  ControlInv'
<1> DEFINE l == [Local("snapshot") EXCEPT !.nested = nested]
<1>1. Goto(t, l) /\ UNCHANGED interface
  BY DEF Restart
<1>2. l \in Locals /\ l.pc = "snapshot" /\ l.x = NoBSlot /\ l.q = <<>> /\ l.path = <<>>
  <2>1. Local("snapshot") \in Locals
    BY LocalType DEF PCs
  <2>2. l \in Locals
    BY <2>1 DEF Locals
  <2> QED
    BY <2>2 DEF Local
<1> HIDE DEF l
<1>3. th'[t] = l /\ call[t] \in Calls \union {NoCall}
  BY <1>1, ThreadFacts
<1>4. CallOK(l, call[t]) /\ SearchOK(l, call[t])
  BY <1>2, <1>3 DEF CallOK, SearchOK, OpsAt
<1>5. RequestOK(t)'
  BY <1>2, <1>3, ReleasedOK
<1>6. ExpansionOK(t)'
  BY <1>2, <1>3, NoThreadAssumption DEF ExpansionOK
<1> QED
  BY <1>1, <1>2, <1>4, <1>5, <1>6, ControlGoto DEF Released

\* A thread that is in no lock call is released by a step without the locks.
LEMMA RestReleased ==
  ASSUME LocksInv, NEW t \in Threads, req[t].stage = "none", UNCHANGED locksVars
  PROVE  Released(t)
BY LocksRest DEF Released, locksVars
\* Thread t gives back its locks and returns.
LEMMA UnlockAndReturn ==
  ASSUME ControlInv, NEW t \in Threads, NEW result, Return(t, result), UnlockAll(t),
         expansion_lock' = expansion_lock, th[t].pc \notin {"resize", "drain"}
  PROVE  ControlInv'
<1>1. expansion_lock # t /\ LocksInv
  BY ThreadFacts DEF ExpansionOK
<1> QED
  BY <1>1, UnlockAllStep, ReturnControl

\* Thread t, which has no locks, returns.
LEMMA RestAndReturn ==
  ASSUME ControlInv, NEW t \in Threads, NEW result, Return(t, result), UNCHANGED locksVars,
         req[t].stage = "none",
         expansion_lock' = expansion_lock, th[t].pc \notin {"resize", "drain"}
  PROVE  ControlInv'
<1>1. expansion_lock # t /\ LocksInv
  BY ThreadFacts DEF ExpansionOK
<1> QED
  BY <1>1, RestReleased, ReturnControl

\* Thread t gives back its locks and starts over.
LEMMA UnlockAndRestart ==
  ASSUME ControlInv, NEW t \in Threads, NEW nested \in BOOLEAN, Restart(t, nested),
         UnlockAll(t), call[t] # NoCall, call[t].op \in KeyOps,
         expansion_lock' = expansion_lock, th[t].pc \notin {"resize", "drain"}
  PROVE  ControlInv'
<1>1. expansion_lock # t /\ LocksInv
  BY ThreadFacts DEF ExpansionOK
<1> QED
  BY <1>1, UnlockAllStep, RestartControl

\* Thread t, which has no locks, starts over.
LEMMA RestAndRestart ==
  ASSUME ControlInv, NEW t \in Threads, NEW nested \in BOOLEAN, Restart(t, nested),
         UNCHANGED locksVars, req[t].stage = "none", call[t] # NoCall, call[t].op \in KeyOps,
         expansion_lock' = expansion_lock, th[t].pc \notin {"resize", "drain"}
  PROVE  ControlInv'
<1>1. expansion_lock # t /\ LocksInv
  BY ThreadFacts DEF ExpansionOK
<1> QED
  BY <1>1, RestReleased, RestartControl

\* Thread t, which has no locks, goes on to something that needs none yet.
LEMMA RestAndGoto ==
  ASSUME ControlInv, NEW t \in Threads, NEW l, Goto(t, l), UNCHANGED interface,
         UNCHANGED locksVars, req[t].stage = "none",
         expansion_lock' = expansion_lock, th[t].pc \notin {"resize", "drain"},
         l \in Locals, CallOK(l, call[t]), SearchOK(l, call[t]),
         l.pc \in {"idle", "snapshot", "search", "path", "move", "sum", "double",
                   "explock", "rehash", "expand", "all"}
  PROVE  ControlInv'
<1>1. expansion_lock # t /\ LocksInv /\ th'[t] = l
  BY ThreadFacts DEF ExpansionOK
<1>2. Released(t)
  BY <1>1, RestReleased
<1>3. RequestOK(t)'
  BY <1>1, <1>2, ReleasedOK
<1>4. ExpansionOK(t)'
  BY <1>1 DEF ExpansionOK
<1> QED
  BY <1>2, <1>3, <1>4, ControlGoto DEF Released

\* Thread t gives back its locks and goes on to something that needs none yet.
LEMMA UnlockAndGoto ==
  ASSUME ControlInv, NEW t \in Threads, NEW l, Goto(t, l), UNCHANGED interface, UnlockAll(t),
         expansion_lock' = expansion_lock, th[t].pc \notin {"resize", "drain"},
         l \in Locals, CallOK(l, call[t]), SearchOK(l, call[t]),
         l.pc \in {"idle", "snapshot", "search", "path", "move", "sum", "double",
                   "explock", "rehash", "expand", "all"}
  PROVE  ControlInv'
<1>1. expansion_lock # t /\ LocksInv /\ th'[t] = l
  BY ThreadFacts DEF ExpansionOK
<1>2. Released(t)
  BY <1>1, UnlockAllStep
<1>3. RequestOK(t)'
  BY <1>1, <1>2, ReleasedOK
<1>4. ExpansionOK(t)'
  BY <1>1 DEF ExpansionOK
<1> QED
  BY <1>2, <1>3, <1>4, ControlGoto DEF Released

\* A thread that has the locks of its buckets works on the key of its call.
LEMMA HasBucketsFacts ==
  ASSUME ControlInv, NEW t \in Threads, HasBuckets(t)
  PROVE  /\ th[t].pc = "op" /\ call[t] # NoCall
         /\ call[t].op \in KeyOps \union {"clear"}
         /\ call[t].op \in KeyOps =>
              /\ req[t].stage = "rest" /\ req[t].hp = hashpower
              /\ call[t].key \in Keys /\ call[t].val \in Vals
              /\ th[t].b = TwoBuckets(hashpower, Hash[call[t].key])
              /\ lock_ind(th[t].b[1]) \in Held(t) /\ lock_ind(th[t].b[2]) \in Held(t)
<1>1. th[t].pc = "op" /\ req[t].stage \in {"rest", "all"} /\ req[t].want = {}
  BY DEF HasBuckets, At, LocksGranted
<1>2. call[t] # NoCall /\ call[t] \in Calls /\ call[t].op \in OpsAt("op")
  BY <1>1, ThreadFacts DEF CallOK
<1>3. call[t].op \in KeyOps \union {"clear", "minimum_load_factor", "maximum_hashpower"}
  BY <1>2 DEF OpsAt
<1>4. RequestOK(t) /\ LocksInv
  BY ThreadFacts
<1>5. CASE call[t].op \in KeyOps
  <2>1. /\ req[t].stage \in {"first", "check", "rest"}
        /\ th[t].b = TwoBuckets(req[t].hp, Hash[call[t].key])
        /\ Asked(t, {th[t].b[1], th[t].b[2]})
    BY <1>1, <1>4, <1>5 DEF RequestOK
  <2>2. req[t].hp = hashpower
    BY <1>1, <1>4, <2>1 DEF LocksInv, SnapshotValid
  <2>3. call[t].key \in Keys /\ call[t].val \in Vals
    BY <1>2, <1>5, CallsAssumption DEF KeyOps, InsertOps, TableOps
  <2> QED
    BY <1>1, <1>2, <1>5, <2>1, <2>2, <2>3 DEF Asked
<1>6. CASE call[t].op \notin KeyOps
  <2>1. call[t].op = "clear"
    <3>1. call[t].op # "clear" => req[t].stage = "none"
      BY <1>1, <1>4, <1>6 DEF RequestOK
    <3> QED
      BY <1>1, <3>1
  <2> QED
    BY <1>1, <1>2, <1>6, <2>1
<1> QED
  BY <1>5, <1>6

\* A thread that has the locks for a move.
LEMMA HasMoveLocksFacts ==
  ASSUME ControlInv, NEW t \in Threads, HasMoveLocks(t)
  PROVE  /\ th[t].pc = "moving" /\ call[t] # NoCall /\ call[t].op \in InsertOps
         /\ call[t].key \in Keys /\ call[t].val \in Vals
         /\ req[t].stage = "rest" /\ th[t].hp = hashpower
         /\ th[t].b = TwoBuckets(hashpower, Hash[call[t].key])
         /\ \A i \in BucketsOfMove(th[t]) : lock_ind(i) \in Held(t)
         /\ PathOK(hashpower, th[t].b, th[t].path)
         /\ th[t].depth \in Nat /\ th[t].depth < Len(th[t].path)
<1>1. th[t].pc = "moving" /\ req[t].stage \in {"rest", "all"} /\ req[t].want = {}
  BY DEF HasMoveLocks, At, LocksGranted
<1>2. call[t] # NoCall /\ call[t] \in Calls /\ call[t].op \in OpsAt("moving")
  BY <1>1, ThreadFacts DEF CallOK
<1>3. call[t].op \in InsertOps
  BY <1>2 DEF OpsAt
<1>4. call[t].key \in Keys /\ call[t].val \in Vals
  BY <1>2, <1>3, CallsAssumption DEF InsertOps, TableOps
<1>5. /\ req[t].stage \in {"first", "check", "rest"} /\ req[t].hp = th[t].hp
      /\ Asked(t, BucketsOfMove(th[t]))
  BY <1>1, ThreadFacts DEF RequestOK
<1>6. req[t].hp = hashpower
  BY <1>1, <1>5, ThreadFacts DEF LocksInv, SnapshotValid
<1>7. SearchOK(th[t], call[t]) /\ th[t] \in Locals
  BY ThreadFacts
<1>8. /\ th[t].b = TwoBuckets(th[t].hp, Hash[call[t].key])
      /\ PathOK(th[t].hp, th[t].b, th[t].path) /\ th[t].depth < Len(th[t].path)
  BY <1>1, <1>7 DEF SearchOK
<1>9. th[t].depth \in Nat
  BY <1>7 DEF Locals
<1> QED
  BY <1>1, <1>2, <1>3, <1>4, <1>5, <1>6, <1>8, <1>9 DEF Asked

-----------------------------------------------------------------------------
(***************************************************************************)
(* ControlInv: the steps of the operations on two buckets.                 *)
(***************************************************************************)

\* The two buckets of a key, and their locks.
LEMMA BucketsType ==
  ASSUME NEW hp \in Nat, NEW k \in Keys
  PROVE  LET b == TwoBuckets(hp, Hash[k])
         IN  /\ b \in Nat \X Nat
             /\ b[1] \in InTable(hp) /\ b[2] \in InTable(hp)
             /\ hashsize(hp) \in Nat /\ hashsize(hp) > 0
             /\ Hash[k] \in Nat
<1> DEFINE hash == Hash[k]
           i1 == TwoBuckets(hp, hash)[1]
           i2 == TwoBuckets(hp, hash)[2]
<1>1. hash \in Nat
  BY HashAssumption
<1>2. hashsize(hp) \in Nat /\ hashsize(hp) > 0
  BY HashsizeDoubles
<1>3. i1 \in 0 .. hashsize(hp) - 1 /\ i2 \in 0 .. hashsize(hp) - 1
  <2> HIDE DEF hash
  <2> QED
    BY <1>1, TwoBucketsType
<1>4. TwoBuckets(hp, hash) = <<i1, i2>>
  BY DEF TwoBuckets
<1>5. i1 \in Nat /\ i2 \in Nat
  BY <1>2, <1>3
<1> HIDE DEF i1, i2
<1>6. TwoBuckets(hp, hash) \in Nat \X Nat
  BY <1>4, <1>5
<1> QED
  BY <1>1, <1>2, <1>3, <1>6 DEF i1, i2, InTable

\* The lock of a bucket is a lock.
LEMMA LockIndType == \A i \in Nat : lock_ind(i) \in Locks
BY kNumLocksAssumption DEF lock_ind, Locks

\* A thread in a call for a key.
LEMMA KeyCallFacts ==
  ASSUME NEW c \in Calls, c.op \in KeyOps
  PROVE  c.key \in Keys /\ c.val \in Vals
BY CallsAssumption DEF KeyOps, InsertOps, TableOps

\* ControlInv is kept by computing the buckets of the key.
LEMMA SnapshotControl ==
  ASSUME ControlInv, NEW t \in Threads, SnapshotAndLockTwo(t)
  PROVE  ControlInv'
<1> DEFINE c == call[t]
           b == TwoBuckets(hashpower, Hash[c.key])
           ls == {lock_ind(b[1]), lock_ind(b[2])}
           shared == c.op \in {"find", "contains"}
           l == [Local("op") EXCEPT !.b = b, !.nested = th[t].nested]
<1>1. /\ th[t].pc = "snapshot" /\ LockBuckets(t, hashpower, ls, shared)
      /\ Goto(t, l) /\ UNCHANGED interface /\ expansion_lock' = expansion_lock
  BY DEF SnapshotAndLockTwo, At, Op, Key
<1>2. c # NoCall /\ c \in Calls /\ c.op \in KeyOps
  BY <1>1, ThreadFacts DEF CallOK, OpsAt
<1>3. c.key \in Keys
  BY <1>2, KeyCallFacts
<1>4. hashpower \in HashPowers /\ hashpower \in Nat /\ LocksInv
  BY ThreadFacts, HashPowersAssumption DEF LocksInv, LocksTypeOK
<1>5. b \in Nat \X Nat /\ b[1] \in Nat /\ b[2] \in Nat
  <2> HIDE DEF c
  <2> QED
    BY <1>3, <1>4, BucketsType
<1>6. ls \in SUBSET Locks
  <2> HIDE DEF b
  <2> QED
    BY <1>5, LockIndType
<1>7. shared \in BOOLEAN
  OBVIOUS
<1>8. /\ LocksInv' /\ OthersKept(t) /\ hashpower' = hashpower
      /\ req'[t].stage = "first" /\ req'[t].hp = hashpower /\ req'[t].want = ls
  <2> HIDE DEF ls, shared
  <2> QED
    BY <1>1, <1>4, <1>6, <1>7, LockBucketsStep
<1>9. /\ l \in Locals /\ l.pc = "op" /\ l.b = b
      /\ l.x = NoBSlot /\ l.q = <<>> /\ l.path = <<>>
  <2> HIDE DEF b, c
  <2>1. Local("op") \in Locals
    BY LocalType DEF PCs
  <2>2. th[t].nested \in BOOLEAN
    BY ThreadFacts DEF Locals
  <2>3. l \in Locals
    BY <1>5, <2>1, <2>2 DEF Locals
  <2> QED
    BY <2>3 DEF Local
<1>10. th'[t] = l /\ call'[t] = c
  BY <1>1, ThreadFacts DEF interface
<1> HIDE DEF l, b
<1>11. CallOK(l, c) /\ SearchOK(l, c)
  BY <1>2, <1>9 DEF CallOK, SearchOK, OpsAt
<1>12. RequestOK(t)'
  <2>1. \A i \in {b[1], b[2]} : lock_ind(i) \in req'[t].want \union Held(t)'
    BY <1>8
  <2>2. "clear" \notin KeyOps
    BY DEF KeyOps, InsertOps
  <2> QED
    BY <1>2, <1>8, <1>9, <1>10, <2>1, <2>2 DEF RequestOK, Asked, b
<1>13. ExpansionOK(t)'
  BY <1>1, <1>9, <1>10, ThreadFacts DEF ExpansionOK
<1> QED
  BY <1>1, <1>8, <1>9, <1>11, <1>12, <1>13, ControlGoto

\* ControlInv is kept by a lock call that makes progress.
LEMMA LockStepControl ==
  ASSUME ControlInv, NEW t \in Threads, LockStep(t)
  PROVE  ControlInv'
<1>1. /\ TakeLock(t) \/ HashpowerUnchanged(t)
      /\ expansion_lock' = expansion_lock /\ UNCHANGED interface /\ th' = th
  BY DEF LockStep
<1>2. Goto(t, th[t]) /\ th'[t] = th[t] /\ call'[t] = call[t]
  BY <1>1 DEF Goto, ControlInv, interface
<1>3. /\ LocksInv' /\ OthersKept(t) /\ hashpower' = hashpower
      /\ req'[t].hp = req[t].hp
      /\ req'[t].want \union Held(t)' = req[t].want \union Held(t)
      /\ req[t].stage \in {"first", "check", "rest", "all"}
      /\ req[t].stage = "all" => req'[t].stage = "all"
      /\ req[t].stage # "all" => req'[t].stage \in {"check", "rest"}
  BY <1>1, LockProgress, ThreadFacts
<1>4. RequestOK(t) /\ ExpansionOK(t)
  BY ThreadFacts
<1>5. RequestOK(t)'
  BY <1>2, <1>3, <1>4 DEF RequestOK, Asked
<1>6. ExpansionOK(t)'
  BY <1>1, <1>2, <1>3, <1>4 DEF ExpansionOK
<1> QED
  BY <1>1, <1>2, <1>3, <1>5, <1>6, ControlGoto, ThreadFacts

\* ControlInv is kept by a lock call that throws hashpower_changed.
LEMMA LockFailedControl ==
  ASSUME ControlInv, NEW t \in Threads, LockFailed(t)
  PROVE  ControlInv'
<1>1. /\ HashpowerChanged(t) /\ Restart(t, th[t].nested)
      /\ expansion_lock' = expansion_lock
  BY DEF LockFailed
<1>2. req[t].stage = "check" /\ Released(t)
  BY <1>1, HashpowerChangedStep, ThreadFacts DEF HashpowerChanged
<1>3. /\ th[t] \in Locals /\ CallOK(th[t], call[t]) /\ RequestOK(t) /\ ExpansionOK(t)
  BY ThreadFacts
<1>4. th[t].pc \in {"op", "moving"}
  BY <1>2, <1>3 DEF RequestOK, Locals, PCs
<1>5. call[t] # NoCall /\ call[t].op \in KeyOps
  <2>1. call[t] # NoCall /\ call[t].op \in OpsAt(th[t].pc)
    BY <1>3, <1>4 DEF CallOK
  <2>2. CASE th[t].pc = "op"
    BY <1>2, <1>3, <2>1, <2>2 DEF RequestOK
  <2>3. CASE th[t].pc = "moving"
    BY <2>1, <2>3 DEF OpsAt, KeyOps
  <2> QED
    BY <1>4, <2>1, <2>2, <2>3
<1>6. expansion_lock # t /\ th[t].nested \in BOOLEAN
  BY <1>3, <1>4 DEF ExpansionOK, Locals
<1> DEFINE nested == th[t].nested
<1> HIDE DEF nested
<1> QED
  BY <1>1, <1>2, <1>5, <1>6, RestartControl DEF nested

\* Lookup, Erase, Update and InsertIntoBucket give back the locks and return.
LEMMA OperationControl ==
  ASSUME ControlInv, NEW t \in Threads,
         Lookup(t) \/ Erase(t) \/ Update(t) \/ InsertIntoBucket(t) \/ Clear(t)
  PROVE  ControlInv'
<1>1. HasBuckets(t) /\ UnlockAll(t) /\ expansion_lock' = expansion_lock
  BY DEF Lookup, Erase, Update, InsertIntoBucket, Clear, Inserting
<1>2. \E result : Return(t, result)
  <2>1. CASE Lookup(t)
    BY <2>1 DEF Lookup
  <2>2. CASE Erase(t)
    BY <2>2 DEF Erase
  <2>3. CASE Update(t)
    BY <2>3 DEF Update
  <2>4. CASE InsertIntoBucket(t)
    BY <2>4 DEF InsertIntoBucket
  <2>5. CASE Clear(t)
    BY <2>5 DEF Clear
  <2> QED
    BY <2>1, <2>2, <2>3, <2>4, <2>5
<1>3. PICK result : Return(t, result)
  BY <1>2
<1>4. th[t].pc = "op"
  BY <1>1 DEF HasBuckets, At
<1> QED
  BY <1>1, <1>3, <1>4, UnlockAndReturn

\* What Inserting says.
LEMMA InsertingFacts ==
  ASSUME ControlInv, NEW t \in Threads, Inserting(t)
  PROVE  /\ HasBuckets(t) /\ th[t].pc = "op" /\ call[t] # NoCall /\ call[t] \in Calls
         /\ call[t].op \in InsertOps /\ call[t].op \in KeyOps
         /\ call[t].key \in Keys /\ call[t].val \in Vals
         /\ th[t].b = TwoBuckets(hashpower, Hash[call[t].key])
         /\ lock_ind(th[t].b[1]) \in Held(t) /\ lock_ind(th[t].b[2]) \in Held(t)
         /\ hashpower \in Nat
<1>1. HasBuckets(t) /\ call[t].op \in InsertOps
  BY DEF Inserting, Upserts, Op, InsertOps
<1>2. call[t].op \in KeyOps
  BY <1>1 DEF KeyOps
<1>3. call[t] \in Calls \union {NoCall} /\ hashpower \in Nat
  BY ThreadFacts, HashPowersAssumption DEF LocksInv, LocksTypeOK
<1> QED
  BY <1>1, <1>2, <1>3, HasBucketsFacts

\* failure_key_duplicated, after the locks were given back.
LEMMA DuplicatedControl ==
  ASSUME ControlInv, NEW t \in Threads, Duplicated(t), UnlockAll(t),
         call[t] # NoCall, call[t].op \in KeyOps,
         expansion_lock' = expansion_lock, th[t].pc \notin {"resize", "drain"}
  PROVE  ControlInv'
<1>1. CASE Op(t) = "insert"
  <2>1. \E result : Return(t, result)
    BY <1>1 DEF Duplicated
  <2>2. PICK result : Return(t, result)
    BY <2>1
  <2> QED
    BY <2>2, UnlockAndReturn
<1>2. CASE Op(t) # "insert"
  <2>1. Restart(t, FALSE)
    BY <1>2 DEF Duplicated
  <2> QED
    BY <2>1, UnlockAndRestart
<1> QED
  BY <1>1, <1>2

\* ControlInv is kept by an insertion that finds its key.
LEMMA InsertDuplicateControl ==
  ASSUME ControlInv, NEW t \in Threads, InsertDuplicate(t)
  PROVE  ControlInv'
<1>1. Inserting(t) /\ Duplicated(t) /\ UnlockAll(t) /\ expansion_lock' = expansion_lock
  BY DEF InsertDuplicate
<1> QED
  BY <1>1, InsertingFacts, DuplicatedControl

\* The beginning of a search.
LEMMA SlotSearchOK ==
  ASSUME NEW hp \in Nat, NEW c \in Calls, c # NoCall, c.op \in InsertOps,
         NEW b, b = TwoBuckets(hp, Hash[c.key]), NEW nested \in BOOLEAN,
         NEW l, l = SlotSearch(hp, b, nested)
  PROVE  /\ l \in Locals /\ l.pc = "search"
         /\ CallOK(l, c) /\ SearchOK(l, c)
<1>1. c.key \in Keys
  BY KeyCallFacts DEF KeyOps
<1>2. /\ b \in Nat \X Nat /\ b[1] \in InTable(hp) /\ b[2] \in InTable(hp)
      /\ b[1] \in Nat /\ b[2] \in Nat
  BY <1>1, BucketsType DEF InTable
<1> DEFINE x == b_slot(b[1], 0, 0)
           y == b_slot(b[2], 1, 0)
<1>3. /\ x \in BSlots /\ y \in BSlots /\ BSlotOK(hp, x) /\ BSlotOK(hp, y)
  BY <1>2, PathAssumption DEF b_slot, BSlots, BSlotOK
<1>4. l = [Local("search") EXCEPT !.hp = hp, !.b = b, !.nested = nested,
                                  !.x = x, !.q = <<y>>]
  BY DEF SlotSearch
<1> HIDE DEF x, y
<1>5. Local("search") \in Locals
  BY LocalType DEF PCs
<1>6. <<y>> \in Seq(BSlots) /\ Len(<<y>>) = 1 /\ <<y>>[1] = y
  BY <1>3
<1>7. l \in Locals
  <2> HIDE DEF BSlots
  <2> QED
    BY <1>2, <1>3, <1>4, <1>5, <1>6 DEF Locals
<1>8. /\ l.pc = "search" /\ l.hp = hp /\ l.b = b /\ l.x = x /\ l.q = <<y>> /\ l.path = <<>>
  BY <1>4 DEF Local
<1>9. CallOK(l, c)
  BY <1>8 DEF CallOK, OpsAt
<1>10. SearchOK(l, c)
  BY <1>3, <1>6, <1>8, QueueAssumption DEF SearchOK
<1> QED
  BY <1>7, <1>8, <1>9, <1>10

\* ControlInv is kept by the start of the search for a path.
LEMMA RunCuckooControl ==
  ASSUME ControlInv, NEW t \in Threads, RunCuckoo(t)
  PROVE  ControlInv'
<1> DEFINE nested == th[t].nested
           b == th[t].b
           c == call[t]
           l == SlotSearch(hashpower, b, nested)
<1>1. /\ Inserting(t) /\ Goto(t, l) /\ UnlockAll(t)
      /\ UNCHANGED interface /\ expansion_lock' = expansion_lock
  BY DEF RunCuckoo
<1>2. /\ c \in Calls /\ c # NoCall /\ c.op \in InsertOps /\ hashpower \in Nat
      /\ b = TwoBuckets(hashpower, Hash[c.key]) /\ th[t].pc = "op"
  BY <1>1, InsertingFacts
<1>3. nested \in BOOLEAN
  BY ThreadFacts DEF Locals
<1> HIDE DEF nested, b, c
<1>4. l \in Locals /\ l.pc = "search" /\ CallOK(l, c) /\ SearchOK(l, c)
  BY <1>2, <1>3, SlotSearchOK
<1> HIDE DEF l
<1> QED
  BY <1>1, <1>2, <1>4, UnlockAndGoto DEF c

-----------------------------------------------------------------------------
(***************************************************************************)
(* ControlInv: the search for a path, and the moves along it.              *)
(***************************************************************************)

\* What an item that was found in a slot is.
LEMMA ItemFacts ==
  ASSUME NEW item \in AnyItem
  PROVE  /\ item.key \in Keys /\ item.val \in Vals
         /\ item.partial = partial_key(Hash[item.key])
         /\ Hash[item.key] \in Nat /\ item.partial \in Nat
<1>1. PICK k \in Keys, v \in Vals : item = Item(k, v)
  BY DEF AnyItem
<1>2. item.key = k /\ item.val = v /\ item.partial = partial_key(Hash[k])
  BY <1>1 DEF Item
<1>3. Hash[k] \in Nat
  BY HashAssumption
<1>4. partial_key(Hash[k]) \in Nat
  BY <1>3, PartialKeyType
<1> QED
  BY <1>2, <1>3, <1>4

\* What a slot of the table holds.
LEMMA SlotContents ==
  ASSUME TableOK, NEW i \in InTable(hashpower), NEW s \in Slots
  PROVE  buckets[i][s] \in AnyItem \union {Vacant}
BY DEF TableOK, Tables

\* The other bucket of an item is in the table.
LEMMA OtherBucket ==
  ASSUME NEW hp \in Nat, NEW partial \in Nat, NEW i \in InTable(hp)
  PROVE  alt_index(hp, partial, i) \in InTable(hp)
BY AltIndexInvolution DEF InTable

\* What a thread that searches knows.
LEMMA SearchingFacts ==
  ASSUME ControlInv, NEW t \in Threads, th[t].pc \in {"search", "path", "move"}
  PROVE  /\ call[t] # NoCall /\ call[t] \in Calls /\ call[t].op \in InsertOps
         /\ call[t].op \in KeyOps /\ call[t].key \in Keys
         /\ req[t].stage = "none" /\ th[t].hp \in Nat /\ th[t].nested \in BOOLEAN
         /\ th[t].b = TwoBuckets(th[t].hp, Hash[call[t].key])
<1>1. /\ th[t] \in Locals /\ CallOK(th[t], call[t]) /\ SearchOK(th[t], call[t])
      /\ RequestOK(t)
  BY ThreadFacts
<1>2. call[t] # NoCall /\ call[t] \in Calls /\ call[t].op \in OpsAt(th[t].pc)
  BY <1>1 DEF CallOK
<1>3. call[t].op \in InsertOps /\ call[t].op \in KeyOps
  BY <1>2 DEF OpsAt, KeyOps
<1>4. call[t].key \in Keys
  BY <1>2, <1>3, KeyCallFacts
<1>5. req[t].stage = "none"
  BY <1>1 DEF RequestOK
<1>6. th[t].b = TwoBuckets(th[t].hp, Hash[call[t].key])
  BY <1>1 DEF SearchOK
<1>7. th[t].hp \in Nat /\ th[t].nested \in BOOLEAN
  BY <1>1 DEF Locals
<1> QED
  BY <1>2, <1>3, <1>4, <1>5, <1>6, <1>7

\* ControlInv is kept by lock_one throwing hashpower_changed.
LEMMA PeekFailedControl ==
  ASSUME ControlInv, NEW t \in Threads, PeekFailed(t)
  PROVE  ControlInv'
<1> DEFINE nested == th[t].nested
<1>1. /\ th[t].pc \in {"search", "path"} /\ Restart(t, nested)
      /\ UNCHANGED locksVars /\ expansion_lock' = expansion_lock
  BY DEF PeekFailed, At
<1>2. /\ call[t] # NoCall /\ call[t].op \in KeyOps /\ req[t].stage = "none"
      /\ nested \in BOOLEAN
  BY <1>1, SearchingFacts
<1> HIDE DEF nested
<1> QED
  BY <1>1, <1>2, RestAndRestart

\* The slot that slot_search looks at.
LEMMA SearchSlotType ==
  ASSUME ControlInv, NEW t \in Threads, At(t, "search")
  PROVE  /\ SearchSlot(t) \in Slots /\ SearchCode(t) \in Nat
         /\ th[t].x \in BSlots /\ BSlotOK(th[t].hp, th[t].x)
         /\ th[t].q \in Seq(BSlots) /\ Len(th[t].q) < MAX_CUCKOO_COUNT - 1
         /\ \A n \in 1 .. Len(th[t].q) : BSlotOK(th[t].hp, th[t].q[n])
<1>1. th[t] \in Locals /\ SearchOK(th[t], call[t])
  BY ThreadFacts
<1> DEFINE x == th[t].x
           i == th[t].i
           code == x.pathcode
           slot == SearchSlot(t)
<1>2. x \in BSlots /\ i \in Nat /\ th[t].q \in Seq(BSlots)
  BY <1>1 DEF Locals
<1>3. code \in Nat
  BY <1>2 DEF BSlots
<1>4. SLOT_PER_BUCKET \in Nat /\ SLOT_PER_BUCKET > 0
  BY SlotAssumption
<1>5. slot \in Slots /\ slot \in Nat
  <2> HIDE DEF i, code
  <2>1. (code + i) % SLOT_PER_BUCKET \in 0 .. SLOT_PER_BUCKET - 1
    BY <1>2, <1>3, <1>4
  <2> QED
    BY <1>4, <2>1 DEF SearchSlot, Slots, i, code
<1>6. SearchCode(t) \in Nat
  <2> HIDE DEF slot, code
  <2>1. code * SLOT_PER_BUCKET + slot \in Nat
    BY <1>3, <1>4, <1>5
  <2> QED
    BY <2>1 DEF SearchCode, slot, code
<1> QED
  BY <1>1, <1>2, <1>5, <1>6 DEF SearchOK, At

\* An occupied slot: the queue it leads to, and the item in it.
LEMMA SearchQueueOK ==
  ASSUME ControlInv, TableOK, NEW t \in Threads, At(t, "search"), hashpower = th[t].hp,
         SearchItem(t) # Vacant
  PROVE  /\ SearchQueue(t) \in Seq(BSlots)
         /\ Len(SearchQueue(t)) < MAX_CUCKOO_COUNT
         /\ \A n \in 1 .. Len(SearchQueue(t)) : BSlotOK(th[t].hp, SearchQueue(t)[n])
<1> DEFINE x == th[t].x
           q == th[t].q
           hp == th[t].hp
           item == SearchItem(t)
           slot == SearchSlot(t)
           code == SearchCode(t)
<1>1. /\ slot \in Slots /\ code \in Nat /\ x \in BSlots /\ BSlotOK(hp, x)
      /\ q \in Seq(BSlots) /\ Len(q) < MAX_CUCKOO_COUNT - 1
      /\ \A n \in 1 .. Len(q) : BSlotOK(hp, q[n])
  BY SearchSlotType
<1>2. hp \in Nat
  BY SearchingFacts DEF At
<1> DEFINE i == x.bucket
<1>3. i \in InTable(hp) /\ x.depth \in Nat
  BY <1>1 DEF BSlotOK
<1>4. item \in AnyItem
  <2>1. item = buckets[i][slot]
    BY DEF SearchItem
  <2>2. i \in InTable(hashpower)
    BY <1>3
  <2> HIDE DEF item, i, slot, hp
  <2> QED
    BY <1>1, <2>1, <2>2, SlotContents DEF item
<1> DEFINE partial == item.partial
           j == alt_index(hp, partial, i)
           y == b_slot(j, code, x.depth + 1)
<1>5. partial \in Nat
  BY <1>4, ItemFacts
<1>6. j \in InTable(hp)
  <2> HIDE DEF partial, i, hp
  <2> QED
    BY <1>2, <1>3, <1>5, OtherBucket
<1>7. hashsize(hp) \in Nat
  BY <1>2, HashsizeDoubles
<1>8. SearchQueue(t) = IF x.depth < MAX_BFS_PATH_LEN - 1 THEN Append(q, y) ELSE q
  BY DEF SearchQueue
<1> DEFINE d == x.depth
<1> HIDE DEF j, code, q, hp, d
<1>9. d < MAX_BFS_PATH_LEN - 1 => y \in BSlots /\ BSlotOK(hp, y)
  BY <1>1, <1>3, <1>6, <1>7, PathAssumption DEF b_slot, BSlots, BSlotOK, InTable, d
<1> HIDE DEF y
<1>10. CASE d < MAX_BFS_PATH_LEN - 1
  <2>1. SearchQueue(t) = Append(q, y)
    BY <1>8, <1>10 DEF d
  <2>2. Append(q, y) \in Seq(BSlots) /\ Len(Append(q, y)) = Len(q) + 1
    BY <1>1, <1>9, <1>10
  <2>3. \A n \in 1 .. Len(q) + 1 : BSlotOK(hp, Append(q, y)[n])
    BY <1>1, <1>9, <1>10
  <2> QED
    BY <1>1, <2>1, <2>2, <2>3, QueueAssumption DEF hp
<1>11. CASE ~ (d < MAX_BFS_PATH_LEN - 1)
  BY <1>1, <1>8, <1>11, QueueAssumption DEF d, hp
<1> QED
  BY <1>10, <1>11

\* slot_search goes on.
LEMMA SearchOnControl ==
  ASSUME ControlInv, TableOK, NEW t \in Threads, SearchOn(t)
  PROVE  ControlInv'
<1> DEFINE q == SearchQueue(t)
           c == call[t]
           l1 == [th[t] EXCEPT !.i = @ + 1, !.q = q]
           l2 == [th[t] EXCEPT !.x = Head(q), !.q = Tail(q), !.i = 0]
<1>1. /\ th[t].pc = "search" /\ Peek(t) /\ SearchItem(t) # Vacant /\ At(t, "search")
      /\ hashpower = th[t].hp
      /\ UNCHANGED locksVars /\ UNCHANGED interface /\ expansion_lock' = expansion_lock
  BY DEF SearchOn, At, Peek
<1>2. /\ q \in Seq(BSlots) /\ Len(q) < MAX_CUCKOO_COUNT
      /\ \A n \in 1 .. Len(q) : BSlotOK(th[t].hp, q[n])
  BY <1>1, SearchQueueOK
<1>3. /\ req[t].stage = "none" /\ c \in Calls /\ c # NoCall /\ c.op \in InsertOps
  BY <1>1, SearchingFacts
<1>4. \/ Goto(t, l1) /\ ~ Full(q)
      \/ Goto(t, l2) /\ ~ Full(q) /\ q # <<>>
  BY DEF SearchOn, MoreSlots
<1>5. /\ th[t] \in Locals /\ SearchOK(th[t], c) /\ CallOK(th[t], c) /\ BSlotOK(th[t].hp, th[t].x)
  BY <1>1, ThreadFacts, SearchSlotType
<1> HIDE DEF q, c
<1>6. Len(q) \in Nat
  BY <1>2
<1>7. CASE Goto(t, l1) /\ ~ Full(q)
  <2>1. Len(q) < MAX_CUCKOO_COUNT - 1
    BY <1>2, <1>6, <1>7, QueueAssumption DEF Full
  <2>2. l1 \in Locals
    <3> DEFINE i1 == th[t].i + 1
    <3>1. i1 \in Nat /\ l1 = [th[t] EXCEPT !.i = i1, !.q = q]
      BY <1>5 DEF Locals
    <3> HIDE DEF i1, l1
    <3> QED
      BY <1>2, <1>5, <3>1 DEF Locals
  <2>3. /\ l1.pc = "search" /\ l1.hp = th[t].hp /\ l1.b = th[t].b /\ l1.x = th[t].x
        /\ l1.q = q /\ l1.path = th[t].path
    BY <1>1, <1>5 DEF Locals
  <2> HIDE DEF l1
  <2>4. CallOK(l1, c)
    BY <1>1, <1>5, <2>3 DEF CallOK
  <2>5. SearchOK(l1, c)
    BY <1>1, <1>2, <1>5, <2>1, <2>3 DEF SearchOK
  <2> QED
    BY <1>1, <1>3, <1>7, <2>2, <2>3, <2>4, <2>5, RestAndGoto DEF c
<1>8. CASE Goto(t, l2) /\ ~ Full(q) /\ q # <<>>
  <2>1. Len(q) < MAX_CUCKOO_COUNT - 1
    BY <1>2, <1>6, <1>8, QueueAssumption DEF Full
  <2>2. /\ Head(q) = q[1] /\ 1 \in 1 .. Len(q) /\ q[1] \in BSlots
        /\ Tail(q) \in Seq(BSlots) /\ Len(Tail(q)) = Len(q) - 1
        /\ \A n \in 1 .. Len(q) - 1 : Tail(q)[n] = q[n + 1]
    BY <1>2, <1>8
  <2>3. \A n \in 1 .. Len(Tail(q)) : BSlotOK(th[t].hp, Tail(q)[n])
    BY <1>2, <1>6, <2>2
  <2>4. l2 \in Locals
    <3> HIDE DEF BSlots
    <3> QED
      BY <1>5, <2>2 DEF Locals
  <2>5. /\ l2.pc = "search" /\ l2.hp = th[t].hp /\ l2.b = th[t].b /\ l2.x = q[1]
        /\ l2.q = Tail(q) /\ l2.path = th[t].path
    BY <1>1, <1>5, <2>2 DEF Locals
  <2> HIDE DEF l2
  <2>6. CallOK(l2, c)
    BY <1>1, <1>5, <2>5 DEF CallOK
  <2>7. SearchOK(l2, c)
    <3>1. Len(Tail(q)) < MAX_CUCKOO_COUNT - 1
      BY <1>6, <2>1, <2>2, QueueAssumption
    <3> QED
      BY <1>1, <1>2, <1>5, <2>2, <2>3, <2>5, <3>1 DEF SearchOK
  <2> QED
    BY <1>1, <1>3, <1>8, <2>4, <2>5, <2>6, <2>7, RestAndGoto DEF c
<1> QED
  BY <1>4, <1>7, <1>8

\* A thread that has kept just the hashpower of its call and nested.
Fresh(pc, hp, nested) == [Local(pc) EXCEPT !.hp = hp, !.nested = nested]

\* Such a state has its type.
LEMMA FreshLocal ==
  ASSUME NEW pc \in PCs, NEW hp \in Nat, NEW nested \in BOOLEAN,
         NEW l, l = Fresh(pc, hp, nested)
  PROVE  /\ l \in Locals /\ l.pc = pc /\ l.hp = hp /\ l.nested = nested
         /\ l.x = NoBSlot /\ l.q = <<>> /\ l.path = <<>>
<1>1. Local(pc) \in Locals
  BY LocalType
<1>2. l \in Locals
  BY <1>1 DEF Locals, Fresh
<1> QED
  BY <1>2 DEF Local, Fresh

\* slot_search has failed.
LEMMA SearchFailedControl ==
  ASSUME ControlInv, NEW t \in Threads, SearchFailed(t)
  PROVE  ControlInv'
<1> DEFINE pc == IF Op(t) = "insert" \/ th[t].nested THEN "sum" ELSE "double"
           hp == th[t].hp
           nested == th[t].nested
           l == [Local(pc) EXCEPT !.hp = hp, !.nested = nested]
           c == call[t]
<1>1. /\ th[t].pc = "search" /\ Goto(t, l)
      /\ UNCHANGED locksVars /\ UNCHANGED interface /\ expansion_lock' = expansion_lock
  BY DEF SearchFailed, At, Peek
<1>2. /\ req[t].stage = "none" /\ c \in Calls /\ c # NoCall /\ c.op \in InsertOps
      /\ hp \in Nat /\ nested \in BOOLEAN
  BY <1>1, SearchingFacts
<1>3. pc \in {"sum", "double"} /\ pc \in PCs
  BY DEF PCs
<1>6. l = Fresh(pc, hp, nested)
  BY DEF Fresh
<1> HIDE DEF pc, hp, nested, l
<1>4. l \in Locals /\ l.pc = pc /\ l.x = NoBSlot /\ l.q = <<>> /\ l.path = <<>>
  <2>1. pc \in PCs /\ hp \in Nat /\ nested \in BOOLEAN
    BY <1>2, <1>3
  <2> QED
    BY <1>6, <2>1, FreshLocal
<1>5. CallOK(l, c) /\ SearchOK(l, c)
  BY <1>2, <1>3, <1>4 DEF CallOK, SearchOK, OpsAt
<1> QED
  BY <1>1, <1>2, <1>3, <1>4, <1>5, RestAndGoto

\* Taking the slots off a pathcode, one after the other.
LEMMA PathcodeRestType ==
  ASSUME NEW code \in Nat, NEW len \in Nat
  PROVE  \A n \in 0 .. len : PathcodeRest(code, len)[n] \in Nat
<1> DEFINE s == SLOT_PER_BUCKET
           Body(f, n) == IF n = 0 THEN code ELSE f[n - 1] \div s
           Exists == {m \in Nat : \E f : f = [n \in 0 .. m |-> Body(f, n)]}
<1>1. s \in Nat /\ s > 0
  BY SlotAssumption
<1> HIDE DEF s
<1>2. \A m \in Nat : m \in Exists
  <2>1. 0 \in Exists
    <3> DEFINE f == [n \in 0 .. 0 |-> code]
    <3>1. f = [n \in 0 .. 0 |-> Body(f, n)]
      OBVIOUS
    <3> QED
      BY <3>1
  <2>2. ASSUME NEW m \in Nat, m \in Exists
        PROVE  m + 1 \in Exists
    <3>1. PICK f : f = [n \in 0 .. m |-> Body(f, n)]
      BY <2>2
    <3> DEFINE g == [n \in 0 .. m + 1 |-> IF n = m + 1 THEN f[m] \div s ELSE f[n]]
    <3>2. ASSUME NEW n \in 0 .. m + 1
          PROVE  g[n] = Body(g, n)
      <4>1. CASE n = m + 1
        <5>1. g[n] = f[m] \div s /\ g[m] = f[m] /\ n - 1 = m /\ n # 0
          BY <4>1
        <5> HIDE DEF g
        <5> QED
          BY <5>1
      <4>2. CASE n \in 1 .. m
        <5>1. g[n] = f[n] /\ g[n - 1] = f[n - 1] /\ n # 0
          BY <4>2
        <5>2. f[n] = Body(f, n)
          BY <3>1, <4>2
        <5> HIDE DEF g
        <5> QED
          BY <5>1, <5>2
      <4>3. CASE n = 0
        <5>1. g[0] = f[0]
          OBVIOUS
        <5>2. f[0] = Body(f, 0)
          BY <3>1
        <5> HIDE DEF g
        <5> QED
          BY <4>3, <5>1, <5>2
      <4> QED
        BY <4>1, <4>2, <4>3
    <3>3. g = [n \in 0 .. m + 1 |-> Body(g, n)]
      BY <3>2
    <3> HIDE DEF g
    <3> QED
      BY <3>3
  <2> HIDE DEF Exists
  <2> QED
    BY <2>1, <2>2, SetInduction
<1> DEFINE rest == PathcodeRest(code, len)
<1>3. rest = [n \in 0 .. len |-> Body(rest, n)]
  <2>1. PICK f : f = [n \in 0 .. len |-> Body(f, n)]
    BY <1>2
  <2> QED
    BY <2>1, Zenon DEF PathcodeRest, s
<1> HIDE DEF rest
<1> DEFINE Good == {n \in Nat : n <= len => rest[n] \in Nat}
<1>4. \A n \in Nat : n \in Good
  <2>1. 0 \in Good
    BY <1>3
  <2>2. ASSUME NEW n \in Nat, n \in Good
        PROVE  n + 1 \in Good
    <3>1. n + 1 <= len => rest[n + 1] = rest[n] \div s /\ rest[n] \in Nat
      BY <1>3, <2>2
    <3> QED
      BY <1>1, <3>1
  <2> HIDE DEF Good
  <2> QED
    BY <2>1, <2>2, SetInduction
<1> QED
  BY <1>4 DEF rest

\* slot_search has found a vacant slot.
LEMMA SearchFoundControl ==
  ASSUME ControlInv, NEW t \in Threads, SearchFound(t)
  PROVE  ControlInv'
<1> DEFINE len == th[t].x.depth + 1
           b == th[t].b
           hp == th[t].hp
           nested == th[t].nested
           code == SearchCode(t)
           rest == PathcodeRest(code, len)
           first == IF rest[len] = 0 THEN b[1] ELSE b[2]
           x == b_slot(first, 0, len - 1)
           slots == [n \in 1 .. len |-> rest[len - n] % SLOT_PER_BUCKET]
           l == [Local("path") EXCEPT !.hp = hp, !.b = b, !.nested = nested,
                                      !.x = x, !.slots = slots]
           c == call[t]
<1>1. /\ th[t].pc = "search" /\ At(t, "search") /\ Goto(t, l)
      /\ UNCHANGED locksVars /\ UNCHANGED interface /\ expansion_lock' = expansion_lock
  BY DEF SearchFound, At, Peek
<1>2. /\ req[t].stage = "none" /\ c \in Calls /\ c # NoCall /\ c.op \in InsertOps
      /\ c.key \in Keys /\ hp \in Nat /\ nested \in BOOLEAN
      /\ b = TwoBuckets(hp, Hash[c.key])
  BY <1>1, SearchingFacts
<1>3. code \in Nat /\ th[t].x.depth \in 0 .. MAX_BFS_PATH_LEN - 1
  BY <1>1, SearchSlotType DEF BSlotOK
<1>4. len \in Nat /\ len >= 1 /\ len - 1 \in 0 .. MAX_BFS_PATH_LEN - 1
  BY <1>3, PathAssumption
<1> HIDE DEF len, code, c, hp, nested
<1>5. \A n \in 0 .. len : rest[n] \in Nat
  BY <1>3, <1>4, PathcodeRestType
<1>6. b \in Nat \X Nat /\ b[1] \in Nat /\ b[2] \in Nat
  BY <1>2, BucketsType
<1> HIDE DEF rest, b
<1>7. x \in BSlots /\ x.bucket \in {b[1], b[2]} /\ x.depth = len - 1
  BY <1>4, <1>6 DEF b_slot, BSlots
<1>8. slots \in Seq(Slots) /\ Len(slots) = len
  <2>1. ASSUME NEW n \in 1 .. len
        PROVE  rest[len - n] % SLOT_PER_BUCKET \in Slots
    <3>1. rest[len - n] \in Nat
      BY <1>4, <1>5
    <3> QED
      BY <3>1, SlotAssumption DEF Slots
  <2> QED
    BY <1>4, <2>1
<1> HIDE DEF x, slots
<1>9. Local("path") \in Locals
  BY LocalType DEF PCs
<1>10. l \in Locals
  BY <1>2, <1>6, <1>7, <1>8, <1>9 DEF Locals
<1>11. /\ l.pc = "path" /\ l.hp = hp /\ l.b = b /\ l.x = x /\ l.slots = slots
       /\ l.q = <<>> /\ l.path = <<>>
  BY DEF Local
<1> HIDE DEF l
<1>12. CallOK(l, c)
  BY <1>2, <1>11 DEF CallOK, OpsAt
<1>13. SearchOK(l, c)
  <2>1. Len(l.slots) = l.x.depth + 1 /\ Len(l.path) < Len(l.slots)
    BY <1>4, <1>7, <1>8, <1>11
  <2>2. PathOK(l.hp, l.b, l.path) /\ \A n \in 1 .. Len(l.path) : l.path[n].hash \in Nat
    BY <1>11 DEF PathOK
  <2> QED
    BY <1>2, <1>4, <1>7, <1>11, <2>1, <2>2 DEF SearchOK
<1> QED
  BY <1>1, <1>2, <1>10, <1>11, <1>12, <1>13, RestAndGoto DEF c

\* One more item on a path.
LEMMA PathAppend ==
  ASSUME NEW hp \in Nat, NEW b, b[1] \in InTable(hp), b[2] \in InTable(hp),
         NEW path \in Seq(Records), PathOK(hp, b, path),
         \A n \in 1 .. Len(path) : path[n].hash \in Nat,
         NEW record \in Records, NEW x \in {b[1], b[2]},
         path = <<>> => record.bucket = x,
         path # <<>> => record.bucket = alt_index(hp, partial_key(path[Len(path)].hash),
                                                  path[Len(path)].bucket)
  PROVE  /\ record.bucket \in InTable(hp)
         /\ Append(path, record) \in Seq(Records)
         /\ Len(Append(path, record)) = Len(path) + 1
         /\ PathOK(hp, b, Append(path, record))
<1> DEFINE new == Append(path, record)
           m == Len(path)
<1>1. m \in Nat /\ new \in Seq(Records) /\ Len(new) = m + 1
      /\ new[m + 1] = record /\ \A n \in 1 .. m : new[n] = path[n]
  OBVIOUS
<1>2. path = <<>> <=> m = 0
  OBVIOUS
<1> HIDE DEF new, m
<1>3. record.bucket \in InTable(hp)
  <2>1. CASE m = 0
    BY <1>2, <2>1
  <2>2. CASE m # 0
    <3> DEFINE i == path[m].bucket
               h == path[m].hash
               p == partial_key(h)
    <3>1. m \in 1 .. Len(path)
      BY <1>1, <2>2 DEF m
    <3>2. i \in InTable(hp) /\ h \in Nat
      BY <3>1 DEF PathOK
    <3> HIDE DEF i, h
    <3>3. p \in Nat
      BY <3>2, PartialKeyType
    <3> HIDE DEF p
    <3>4. alt_index(hp, p, i) \in InTable(hp)
      BY <3>2, <3>3, OtherBucket
    <3> QED
      BY <1>2, <2>2, <3>4 DEF i, h, p, m
  <2> QED
    BY <2>1, <2>2
<1>4. new[1].bucket \in {b[1], b[2]}
  <2>1. CASE m = 0
    BY <1>1, <1>2, <2>1
  <2>2. CASE m # 0
    BY <1>1, <1>2, <2>2 DEF PathOK
  <2> QED
    BY <2>1, <2>2
<1>5. \A n \in 1 .. m + 1 : new[n].bucket \in InTable(hp)
  <2>1. \A n \in 1 .. m : path[n].bucket \in InTable(hp)
    BY DEF PathOK, m
  <2>2. \A n \in 1 .. m + 1 : n \in 1 .. m \/ n = m + 1
    BY <1>1
  <2> QED
    BY <1>1, <1>3, <2>1, <2>2
<1>6. ASSUME NEW n \in 1 .. m
      PROVE  /\ new[n].hash \in Nat
             /\ new[n + 1].bucket = alt_index(hp, partial_key(new[n].hash), new[n].bucket)
  <2>1. CASE n = m
    BY <1>1, <1>2, <2>1 DEF m
  <2>2. CASE n # m
    <3>1. n \in 1 .. m - 1 /\ n + 1 \in 1 .. m
      BY <1>1, <2>2
    <3>2. path[n + 1].bucket = alt_index(hp, partial_key(path[n].hash), path[n].bucket)
      BY <3>1 DEF PathOK, m
    <3>3. new[n] = path[n] /\ new[n + 1] = path[n + 1]
      BY <1>1, <3>1
    <3> QED
      BY <3>2, <3>3 DEF m
  <2> QED
    BY <2>1, <2>2
<1>7. PathOK(hp, b, new)
  BY <1>1, <1>4, <1>5, <1>6 DEF PathOK
<1> QED
  BY <1>1, <1>3, <1>7 DEF new, m

\* What cuckoopath_search knows.
LEMMA PathFacts ==
  ASSUME ControlInv, NEW t \in Threads, At(t, "path")
  PROVE  /\ th[t].path \in Seq(Records) /\ PathOK(th[t].hp, th[t].b, th[t].path)
         /\ \A n \in 1 .. Len(th[t].path) : th[t].path[n].hash \in Nat
         /\ th[t].x.bucket \in {th[t].b[1], th[t].b[2]}
         /\ th[t].b[1] \in InTable(th[t].hp) /\ th[t].b[2] \in InTable(th[t].hp)
         /\ th[t].slots \in Seq(Slots) /\ Len(th[t].path) < Len(th[t].slots)
         /\ Len(th[t].slots) <= MAX_BFS_PATH_LEN
         /\ PeekBucket(t) \in InTable(th[t].hp)
<1>1. th[t] \in Locals /\ SearchOK(th[t], call[t]) /\ th[t].pc = "path"
  BY ThreadFacts DEF At
<1>2. /\ th[t].path \in Seq(Records) /\ th[t].slots \in Seq(Slots) /\ th[t].hp \in Nat
  BY <1>1 DEF Locals
<1>3. /\ PathOK(th[t].hp, th[t].b, th[t].path)
      /\ \A n \in 1 .. Len(th[t].path) : th[t].path[n].hash \in Nat
      /\ th[t].x.bucket \in {th[t].b[1], th[t].b[2]}
      /\ Len(th[t].path) < Len(th[t].slots)
      /\ Len(th[t].slots) = th[t].x.depth + 1 /\ th[t].x.depth \in 0 .. MAX_BFS_PATH_LEN - 1
  BY <1>1 DEF SearchOK
<1>4. Len(th[t].slots) <= MAX_BFS_PATH_LEN
  BY <1>3, PathAssumption
<1> DEFINE b == th[t].b
           hp == th[t].hp
           k == call[t].key
           path == th[t].path
           m == Len(path)
<1>5. k \in Keys /\ b = TwoBuckets(hp, Hash[k]) /\ hp \in Nat
  BY <1>1, SearchingFacts
<1>6. b[1] \in InTable(hp) /\ b[2] \in InTable(hp)
  <2> HIDE DEF b, hp, k
  <2> QED
    BY <1>5, BucketsType
<1>7. PeekBucket(t) \in InTable(hp)
  <2>1. CASE path = <<>>
    BY <1>3, <1>6, <2>1 DEF PeekBucket
  <2>2. CASE path # <<>>
    <3> DEFINE i == path[m].bucket
               h == path[m].hash
               p == partial_key(h)
    <3>1. m \in 1 .. Len(path)
      BY <1>2, <2>2
    <3>2. i \in InTable(hp) /\ h \in Nat
      BY <1>3, <3>1 DEF PathOK
    <3>3. PeekBucket(t) = alt_index(hp, p, i)
      BY <2>2 DEF PeekBucket
    <3> HIDE DEF i, h, hp
    <3>4. p \in Nat
      BY <3>2, PartialKeyType
    <3> HIDE DEF p
    <3> QED
      BY <1>5, <3>2, <3>3, <3>4, OtherBucket
  <2> QED
    BY <2>1, <2>2
<1> QED
  BY <1>2, <1>3, <1>4, <1>6, <1>7

\* cuckoopath_search follows the path.
LEMMA FollowPathControl ==
  ASSUME ControlInv, TableOK, NEW t \in Threads, FollowPath(t)
  PROVE  ControlInv'
<1> DEFINE b == th[t].b
           hp == th[t].hp
           nested == th[t].nested
           c == call[t]
           path == th[t].path
           n == Len(path) + 1
           d == n - 1
           i == PeekBucket(t)
           slot == th[t].slots[n]
           item == buckets[i][slot]
           record == [bucket |-> i, slot |-> slot,
                      hash |-> IF item = Vacant THEN -1 ELSE Hash[item.key]]
           done == item = Vacant \/ n = Len(th[t].slots)
           new == Append(path, record)
           l1 == [Local("move") EXCEPT !.hp = hp, !.b = b, !.nested = nested,
                                       !.depth = d, !.path = new]
           l2 == [th[t] EXCEPT !.path = new]
<1>1. /\ th[t].pc = "path" /\ At(t, "path") /\ hashpower = hp
      /\ UNCHANGED locksVars /\ UNCHANGED interface /\ expansion_lock' = expansion_lock
      /\ \/ done /\ Goto(t, l1)
         \/ ~ done /\ Goto(t, l2)
  BY DEF FollowPath, At, Peek
<1>2. /\ req[t].stage = "none" /\ c \in Calls /\ c # NoCall /\ c.op \in InsertOps
      /\ hp \in Nat /\ nested \in BOOLEAN
      /\ b = TwoBuckets(hp, Hash[c.key]) /\ c.key \in Keys
  BY <1>1, SearchingFacts
<1>3. /\ path \in Seq(Records) /\ PathOK(hp, b, path)
      /\ \A m \in 1 .. Len(path) : path[m].hash \in Nat
      /\ th[t].x.bucket \in {b[1], b[2]} /\ b[1] \in InTable(hp) /\ b[2] \in InTable(hp)
      /\ th[t].slots \in Seq(Slots) /\ Len(path) < Len(th[t].slots)
      /\ Len(th[t].slots) <= MAX_BFS_PATH_LEN
      /\ i \in InTable(hp)
  BY <1>1, PathFacts
<1>4. n \in 1 .. Len(th[t].slots) /\ d \in Nat /\ d = Len(path) /\ n <= MAX_BFS_PATH_LEN
  BY <1>3, PathAssumption
<1>5. slot \in Slots
  BY <1>3, <1>4
<1>6. item \in AnyItem \union {Vacant}
  <2> HIDE DEF i, slot, hp
  <2> QED
    BY <1>1, <1>3, <1>5, SlotContents
<1>7. record \in Records /\ (item # Vacant => record.hash \in Nat) /\ record.bucket = i
  <2>1. item # Vacant => Hash[item.key] \in Nat
    <3> HIDE DEF item
    <3> QED
      BY <1>6, ItemFacts
  <2>2. i \in Nat
    BY <1>2, <1>3, HashsizeDoubles DEF InTable
  <2> HIDE DEF i, slot, item
  <2> QED
    BY <1>5, <2>1, <2>2 DEF Records
<1>8. /\ path = <<>> => record.bucket = th[t].x.bucket
      /\ path # <<>> => record.bucket = alt_index(hp, partial_key(path[Len(path)].hash),
                                                  path[Len(path)].bucket)
  BY <1>7 DEF PeekBucket
<1> DEFINE x == th[t].x.bucket
<1>9. /\ new \in Seq(Records) /\ Len(new) = n /\ PathOK(hp, b, new)
  <2> HIDE DEF record, hp, b, path, x
  <2> QED
    BY <1>2, <1>3, <1>7, <1>8, PathAppend DEF x
<1>10. item # Vacant => \A m \in 1 .. n : new[m].hash \in Nat
  <2> HIDE DEF record, path
  <2> QED
    BY <1>3, <1>4, <1>7
<1>11. th[t] \in Locals /\ SearchOK(th[t], c) /\ CallOK(th[t], c)
  BY ThreadFacts
<1> HIDE DEF new, hp, b, nested, c, item, d
<1>12. CASE done /\ Goto(t, l1)
  <2>1. Local("move") \in Locals
    BY LocalType DEF PCs
  <2>2. b \in Nat \X Nat
    BY <1>2, BucketsType
  <2>3. l1 \in Locals
    BY <1>2, <1>4, <1>9, <2>1, <2>2 DEF Locals
  <2>4. /\ l1.pc = "move" /\ l1.hp = hp /\ l1.b = b /\ l1.path = new /\ l1.depth = d
        /\ l1.x = NoBSlot /\ l1.q = <<>>
    BY DEF Local
  <2> HIDE DEF l1
  <2>5. CallOK(l1, c)
    BY <1>2, <2>4 DEF CallOK, OpsAt
  <2>6. d < Len(new) /\ Len(new) <= MAX_BFS_PATH_LEN
    BY <1>4, <1>9 DEF d
  <2>7. SearchOK(l1, c)
    BY <1>2, <1>9, <2>4, <2>6 DEF SearchOK
  <2> QED
    BY <1>1, <1>2, <1>12, <2>3, <2>4, <2>5, <2>7, RestAndGoto DEF c
<1>13. CASE ~ done /\ Goto(t, l2)
  <2>1. l2 \in Locals
    BY <1>9, <1>11 DEF Locals
  <2>2. /\ l2.pc = "path" /\ l2.hp = hp /\ l2.b = b /\ l2.path = new /\ l2.x = th[t].x
        /\ l2.slots = th[t].slots /\ l2.q = th[t].q
    BY <1>1, <1>11 DEF Locals, hp, b
  <2> HIDE DEF l2
  <2>3. CallOK(l2, c)
    BY <1>1, <1>2, <1>11, <2>2 DEF CallOK, OpsAt
  <2>4. Len(new) < Len(th[t].slots)
    BY <1>3, <1>4, <1>9, <1>13
  <2>5. SearchOK(l2, c)
    <3>1. \A m \in 1 .. Len(new) : new[m].hash \in Nat
      BY <1>9, <1>10, <1>13
    <3> QED
      BY <1>1, <1>2, <1>3, <1>9, <1>11, <2>2, <2>4, <3>1 DEF SearchOK, b, hp
  <2> QED
    BY <1>1, <1>2, <1>13, <2>1, <2>2, <2>3, <2>5, RestAndGoto DEF c
<1> QED
  BY <1>1, <1>12, <1>13

\* The buckets of a move are in the table.
LEMMA MoveBucketsType ==
  ASSUME ControlInv, NEW t \in Threads, th[t].pc \in {"move", "moving"}
  PROVE  /\ BucketsOfMove(th[t]) \subseteq InTable(th[t].hp)
         /\ BucketsOfMove(th[t]) \subseteq Nat /\ BucketsOfMove(th[t]) # {}
         /\ th[t].depth \in Nat /\ th[t].depth < Len(th[t].path)
         /\ th[t].path \in Seq(Records)
         /\ PathOK(th[t].hp, th[t].b, th[t].path)
         /\ Len(th[t].path) <= MAX_BFS_PATH_LEN
         /\ call[t] # NoCall /\ call[t] \in Calls /\ call[t].op \in InsertOps
         /\ th[t].b = TwoBuckets(th[t].hp, Hash[call[t].key]) /\ th[t].hp \in Nat
         /\ th[t].nested \in BOOLEAN
<1> DEFINE b == th[t].b
           hp == th[t].hp
           c == call[t]
           k == c.key
           path == th[t].path
           d == th[t].depth
<1>1. th[t] \in Locals /\ SearchOK(th[t], c) /\ CallOK(th[t], c)
  BY ThreadFacts
<1>2. /\ path \in Seq(Records) /\ hp \in Nat /\ d \in Nat /\ th[t].nested \in BOOLEAN
  BY <1>1 DEF Locals
<1>3. /\ PathOK(hp, b, path) /\ d < Len(path) /\ b = TwoBuckets(hp, Hash[k])
      /\ Len(path) <= MAX_BFS_PATH_LEN
  BY <1>1 DEF SearchOK
<1>4. c # NoCall /\ c \in Calls /\ c.op \in InsertOps
  BY <1>1 DEF CallOK, OpsAt
<1>5. k \in Keys
  BY <1>4, KeyCallFacts DEF KeyOps
<1>6. b[1] \in InTable(hp) /\ b[2] \in InTable(hp) /\ InTable(hp) \subseteq Nat
  <2> HIDE DEF b, hp, k
  <2>1. b[1] \in InTable(hp) /\ b[2] \in InTable(hp)
    BY <1>2, <1>3, <1>5, BucketsType
  <2>2. hashsize(hp) \in Nat
    BY <1>2, HashsizeDoubles
  <2> QED
    BY <2>1, <2>2 DEF InTable
<1>7. \A n \in 1 .. Len(path) : path[n].bucket \in InTable(hp)
  BY <1>3 DEF PathOK
<1>8. BucketsOfMove(th[t]) \subseteq InTable(hp) /\ BucketsOfMove(th[t]) # {}
  <2>1. CASE d = 0
    BY <1>6, <2>1 DEF BucketsOfMove
  <2>2. CASE d = 1
    <3>1. BucketsOfMove(th[t]) = {b[1], b[2], path[2].bucket}
      BY <2>2 DEF BucketsOfMove
    <3>2. 2 \in 1 .. Len(path)
      BY <1>2, <1>3, <2>2
    <3> QED
      BY <1>6, <1>7, <3>1, <3>2
  <2>3. CASE d # 0 /\ d # 1
    <3>1. BucketsOfMove(th[t]) = {path[d].bucket, path[d + 1].bucket}
      BY <2>3 DEF BucketsOfMove
    <3>2. d \in 1 .. Len(path) /\ d + 1 \in 1 .. Len(path)
      BY <1>2, <1>3, <2>3
    <3> QED
      BY <1>7, <3>1, <3>2
  <2> QED
    BY <2>1, <2>2, <2>3
<1> QED
  BY <1>2, <1>3, <1>4, <1>6, <1>8

\* cuckoopath_move starts to lock.
LEMMA StartMoveControl ==
  ASSUME HashPowers = Nat, ControlInv, NEW t \in Threads, StartMove(t)
  PROVE  ControlInv'
<1> DEFINE hp == th[t].hp
           c == call[t]
           inds == BucketsOfMove(th[t])
           ls == {lock_ind(i) : i \in inds}
           l == [th[t] EXCEPT !.pc = "moving"]
<1>1. /\ th[t].pc = "move" /\ LockBuckets(t, hp, ls, FALSE) /\ Goto(t, l)
      /\ UNCHANGED interface /\ expansion_lock' = expansion_lock
  BY DEF StartMove, At, BucketsOfMove
<1>2. /\ inds \subseteq Nat /\ hp \in Nat /\ c \in Calls /\ c # NoCall /\ c.op \in InsertOps
  BY <1>1, MoveBucketsType
<1>3. ls \in SUBSET Locks
  <2> HIDE DEF inds
  <2> QED
    BY <1>2, LockIndType
<1>4. LocksInv /\ th[t] \in Locals /\ SearchOK(th[t], c) /\ CallOK(th[t], c) /\ ExpansionOK(t)
  BY ThreadFacts
<1>5. /\ LocksInv' /\ OthersKept(t) /\ hashpower' = hashpower
      /\ req'[t].stage = "first" /\ req'[t].hp = hp /\ req'[t].want = ls
  <2> HIDE DEF ls, hp
  <2> QED
    BY <1>1, <1>2, <1>3, <1>4, LockBucketsStep
<1>6. l \in Locals
  BY <1>4 DEF Locals, PCs
<1>7. /\ l.pc = "moving" /\ l.hp = hp /\ l.b = th[t].b /\ l.path = th[t].path
      /\ l.depth = th[t].depth /\ l.x = th[t].x /\ l.q = th[t].q
  BY <1>4 DEF Locals
<1>8. th'[t] = l /\ call'[t] = c
  BY <1>1, ThreadFacts DEF interface
<1>9. BucketsOfMove(l) = inds
  BY <1>7 DEF BucketsOfMove
<1> HIDE DEF l, inds
<1>10. CallOK(l, c)
  BY <1>2, <1>7 DEF CallOK, OpsAt
<1>11. SearchOK(l, c)
  BY <1>1, <1>4, <1>7 DEF SearchOK
<1>12. RequestOK(t)'
  <2>1. \A i \in inds : lock_ind(i) \in req'[t].want \union Held(t)'
    BY <1>5
  <2>2. Asked(t, BucketsOfMove(th[t]))'
    BY <1>8, <1>9, <2>1 DEF Asked
  <2> QED
    BY <1>5, <1>7, <1>8, <2>2 DEF RequestOK
<1>13. ExpansionOK(t)'
  BY <1>1, <1>4, <1>7, <1>8 DEF ExpansionOK
<1> QED
  BY <1>1, <1>5, <1>6, <1>10, <1>11, <1>12, <1>13, ControlGoto DEF c

\* The path is no longer valid.
LEMMA MoveFailedControl ==
  ASSUME ControlInv, NEW t \in Threads, MoveFailed(t)
  PROVE  ControlInv'
<1> DEFINE nested == th[t].nested
           b == th[t].b
           c == call[t]
           hp == th[t].hp
           l == SlotSearch(hp, b, nested)
<1>1. /\ HasMoveLocks(t) /\ Goto(t, l) /\ UnlockAll(t)
      /\ UNCHANGED interface /\ expansion_lock' = expansion_lock
  BY DEF MoveFailed
<1>2. th[t].pc = "moving"
  BY <1>1 DEF HasMoveLocks, At
<1>3. /\ c \in Calls /\ c # NoCall /\ c.op \in InsertOps /\ hp \in Nat
      /\ b = TwoBuckets(hp, Hash[c.key]) /\ nested \in BOOLEAN
  BY <1>2, MoveBucketsType
<1> HIDE DEF nested, b, c, hp
<1>4. l \in Locals /\ l.pc = "search" /\ CallOK(l, c) /\ SearchOK(l, c)
  BY <1>3, SlotSearchOK
<1> HIDE DEF l
<1> QED
  BY <1>1, <1>2, <1>4, UnlockAndGoto DEF c

\* A move further down the path.
LEMMA MoveOnControl ==
  ASSUME ControlInv, NEW t \in Threads, MoveOn(t)
  PROVE  ControlInv'
<1> DEFINE d == th[t].depth
           d1 == d - 1
           c == call[t]
           l == [th[t] EXCEPT !.pc = "move", !.depth = d1]
<1>1. /\ HasMoveLocks(t) /\ Goto(t, l) /\ UnlockAll(t) /\ d > 1
      /\ UNCHANGED interface /\ expansion_lock' = expansion_lock
  BY DEF MoveOn
<1>2. th[t].pc = "moving"
  BY <1>1 DEF HasMoveLocks, At
<1>3. /\ c \in Calls /\ c # NoCall /\ c.op \in InsertOps
      /\ d \in Nat /\ d < Len(th[t].path) /\ th[t].path \in Seq(Records)
  BY <1>2, MoveBucketsType
<1>4. d1 \in Nat /\ d1 < Len(th[t].path)
  BY <1>1, <1>3
<1>5. th[t] \in Locals /\ SearchOK(th[t], c)
  BY ThreadFacts
<1> HIDE DEF d, d1
<1>6. l \in Locals
  BY <1>4, <1>5 DEF Locals, PCs
<1>7. /\ l.pc = "move" /\ l.hp = th[t].hp /\ l.b = th[t].b /\ l.path = th[t].path
      /\ l.depth = d1 /\ l.x = th[t].x /\ l.q = th[t].q
  BY <1>5 DEF Locals
<1> HIDE DEF l
<1>8. CallOK(l, c)
  BY <1>3, <1>7 DEF CallOK, OpsAt
<1>9. SearchOK(l, c)
  BY <1>2, <1>4, <1>5, <1>7 DEF SearchOK
<1> QED
  BY <1>1, <1>2, <1>6, <1>7, <1>8, <1>9, UnlockAndGoto DEF c

\* The end of an insertion that made room.
LEMMA FinishInsertControl ==
  ASSUME ControlInv, NEW t \in Threads, FinishInsert(t)
  PROVE  ControlInv'
<1>1. HasMoveLocks(t) /\ UnlockAll(t) /\ expansion_lock' = expansion_lock
  BY DEF FinishInsert
<1>2. th[t].pc = "moving"
  BY <1>1 DEF HasMoveLocks, At
<1>3. call[t] # NoCall /\ call[t].op \in KeyOps
  BY <1>2, MoveBucketsType DEF KeyOps
<1>4. CASE FoundIn(Moved(t), t)
  <2>1. Duplicated(t)
    BY <1>4 DEF FinishInsert
  <2> QED
    BY <1>1, <1>2, <1>3, <2>1, DuplicatedControl
<1>5. CASE ~ FoundIn(Moved(t), t)
  <2>1. \E result : Return(t, result)
    BY <1>5 DEF FinishInsert
  <2>2. PICK result : Return(t, result)
    BY <2>1
  <2> QED
    BY <1>1, <1>2, <2>2, UnlockAndReturn
<1> QED
  BY <1>4, <1>5

\* The exceptions of user code.
LEMMA ThrowsControl ==
  ASSUME ControlInv, NEW t \in Threads,
         \/ EqualThrows(t) \/ EqualThrowsAfterMove(t) \/ ValueThrows(t)
         \/ HashThrowsOnPath(t) \/ HashThrowsInMove(t)
  PROVE  ControlInv'
<1> DEFINE result == Result(exception, NoVal)
<1>1. Return(t, result) /\ expansion_lock' = expansion_lock
  BY DEF EqualThrows, EqualThrowsAfterMove, ValueThrows, HashThrowsOnPath,
         HashThrowsInMove, Abandon
<1> HIDE DEF result
<1>2. CASE HashThrowsOnPath(t)
  <2>1. th[t].pc = "path" /\ UNCHANGED locksVars
    BY <1>2 DEF HashThrowsOnPath, At
  <2>2. req[t].stage = "none"
    BY <2>1, SearchingFacts
  <2> QED
    BY <1>1, <2>1, <2>2, RestAndReturn
<1>3. CASE ~ HashThrowsOnPath(t)
  <2>1. th[t].pc \in {"op", "moving"} /\ UnlockAll(t)
    BY <1>3 DEF EqualThrows, EqualThrowsAfterMove, ValueThrows, HashThrowsInMove,
                HasBuckets, HasMoveLocks, At
  <2> QED
    BY <1>1, <2>1, UnlockAndReturn
<1> QED
  BY <1>2, <1>3

-----------------------------------------------------------------------------
(***************************************************************************)
(* ControlInv: the size, doubling and rebuilding.                          *)
(***************************************************************************)

\* What a thread outside the operations on two buckets knows.
LEMMA ExpandingFacts ==
  ASSUME ControlInv, NEW t \in Threads, th[t].pc \notin {"idle", "rehash", "all", "locked"}
  PROVE  /\ call[t] # NoCall /\ call[t] \in Calls
         /\ th[t].pc \in {"double", "explock", "resize", "drain"} => call[t].op \in InsertOps
         /\ th[t].pc = "sum" => call[t].op \in InsertOps \union {"size"}
         /\ th[t].pc \in {"expand", "rebuild", "rebuilt"} =>
              call[t].op \in InsertOps \union {"rehash", "reserve"}
         /\ th[t] \in Locals /\ th[t].hp \in Nat /\ th[t].nested \in BOOLEAN
         /\ Upserts(t) \in BOOLEAN
<1>1. th[t] \in Locals /\ CallOK(th[t], call[t])
  BY ThreadFacts
<1>2. call[t] # NoCall /\ call[t] \in Calls /\ call[t].op \in OpsAt(th[t].pc)
  BY <1>1 DEF CallOK
<1>3. th[t].hp \in Nat /\ th[t].nested \in BOOLEAN
  BY <1>1 DEF Locals
<1> QED
  BY <1>1, <1>2, <1>3 DEF OpsAt, Upserts

\* cuckoo_size reads a counter.
LEMMA ReadCounterControl ==
  ASSUME ControlInv, TableOK, NEW t \in Threads, ReadCounter(t)
  PROVE  ControlInv'
<1> DEFINE i == th[t].i
           acc == th[t].acc
           i1 == i + 1
           acc1 == (acc + elems[i]) % SizeMod
           l == [th[t] EXCEPT !.acc = acc1, !.i = i1]
           c == call[t]
<1>1. /\ th[t].pc = "sum" /\ Goto(t, l) /\ i < kNumLocks
      /\ UNCHANGED locksVars /\ UNCHANGED interface /\ expansion_lock' = expansion_lock
  BY DEF ReadCounter, At
<1>2. /\ th[t] \in Locals /\ SearchOK(th[t], c) /\ CallOK(th[t], c) /\ RequestOK(t)
  BY ThreadFacts
<1>3. i \in Nat /\ acc \in Nat
  BY <1>2 DEF Locals
<1>4. req[t].stage = "none"
  BY <1>1, <1>2 DEF RequestOK
<1>5. elems[i] \in Nat
  BY <1>1, <1>3, SizeAssumption, kNumLocksAssumption DEF TableOK, Locks
<1>6. i1 \in Nat /\ acc1 \in Nat
  <2> DEFINE e == elems[i]
  <2> HIDE DEF i, acc, e
  <2> QED
    BY <1>3, <1>5, SizeAssumption DEF e
<1> HIDE DEF i1, acc1
<1>7. l \in Locals
  BY <1>2, <1>6 DEF Locals
<1>8. /\ l.pc = "sum" /\ l.b = th[t].b /\ l.x = th[t].x /\ l.q = th[t].q
      /\ l.path = th[t].path
  BY <1>1, <1>2 DEF Locals
<1> HIDE DEF l
<1>9. CallOK(l, c) /\ SearchOK(l, c)
  BY <1>1, <1>2, <1>8 DEF CallOK, SearchOK
<1> QED
  BY <1>1, <1>4, <1>7, <1>8, <1>9, RestAndGoto

\* The sum is complete.
LEMMA SummedControl ==
  ASSUME ControlInv, NEW t \in Threads, SizeReturns(t) \/ CheckLoadFactor(t)
  PROVE  ControlInv'
<1>1. /\ th[t].pc = "sum" /\ UNCHANGED locksVars /\ expansion_lock' = expansion_lock
  BY DEF SizeReturns, CheckLoadFactor, Summed, At
<1>2. req[t].stage = "none"
  BY <1>1, ThreadFacts DEF RequestOK
<1>3. CASE \E result : Return(t, result)
  <2>1. PICK result : Return(t, result)
    BY <1>3
  <2> QED
    BY <1>1, <1>2, <2>1, RestAndReturn
<1>4. CASE ~ \E result : Return(t, result)
  <2> DEFINE hp == th[t].hp
             nested == th[t].nested
             l == [Local("double") EXCEPT !.hp = hp, !.nested = nested]
             c == call[t]
  <2>1. Goto(t, l) /\ UNCHANGED interface /\ c.op # "size"
    BY <1>4 DEF SizeReturns, CheckLoadFactor, Op
  <2>2. l = Fresh("double", hp, nested) /\ "double" \in PCs
    BY DEF Fresh, PCs
  <2>3. hp \in Nat /\ nested \in BOOLEAN /\ c # NoCall /\ c \in Calls /\ c.op \in InsertOps
    BY <1>1, <2>1, ExpandingFacts
  <2> HIDE DEF hp, nested, l
  <2>4. l \in Locals /\ l.pc = "double" /\ l.x = NoBSlot /\ l.q = <<>> /\ l.path = <<>>
    BY <2>2, <2>3, FreshLocal
  <2>5. CallOK(l, c) /\ SearchOK(l, c)
    BY <2>3, <2>4 DEF CallOK, SearchOK, OpsAt
  <2> QED
    BY <1>1, <1>2, <2>1, <2>4, <2>5, RestAndGoto
<1> QED
  BY <1>3, <1>4

\* cuckoo_fast_double is entered.
LEMMA FastDoubleControl ==
  ASSUME ControlInv, NEW t \in Threads, FastDouble(t)
  PROVE  ControlInv'
<1> DEFINE hp1 == th[t].hp + 1
           c == call[t]
           l1 == [th[t] EXCEPT !.pc = "expand", !.new_hp = hp1, !.grow = TRUE]
           l2 == [th[t] EXCEPT !.pc = "explock"]
<1>1. /\ th[t].pc = "double" /\ UNCHANGED locksVars /\ expansion_lock' = expansion_lock
  BY DEF FastDouble, At
<1>2. /\ req[t].stage = "none" /\ SearchOK(th[t], c)
  BY <1>1, ThreadFacts DEF RequestOK
<1>3. /\ th[t] \in Locals /\ c # NoCall /\ c \in Calls /\ c.op \in InsertOps /\ hp1 \in Nat
  BY <1>1, ExpandingFacts
<1>4. \/ ~ NothrowMove /\ Goto(t, l1) /\ UNCHANGED interface
      \/ \E result : Return(t, result)
      \/ NothrowMove /\ Goto(t, l2) /\ UNCHANGED interface
  BY DEF FastDouble, ThrowTooLarge
<1> HIDE DEF hp1, c
<1>5. CASE ~ NothrowMove /\ Goto(t, l1) /\ UNCHANGED interface
  <2>1. l1 \in Locals
    BY <1>3 DEF Locals, PCs
  <2>2. l1.pc = "expand" /\ l1.x = th[t].x /\ l1.q = th[t].q /\ l1.path = th[t].path
    BY <1>3 DEF Locals
  <2> HIDE DEF l1
  <2>3. CallOK(l1, c) /\ SearchOK(l1, c)
    BY <1>1, <1>2, <1>3, <1>5, <2>2 DEF CallOK, SearchOK, OpsAt
  <2> QED
    BY <1>1, <1>2, <1>5, <2>1, <2>2, <2>3, RestAndGoto DEF c
<1>6. CASE \E result : Return(t, result)
  <2>1. PICK result : Return(t, result)
    BY <1>6
  <2> QED
    BY <1>1, <1>2, <2>1, RestAndReturn
<1>7. CASE NothrowMove /\ Goto(t, l2) /\ UNCHANGED interface
  <2>1. l2 \in Locals
    BY <1>3 DEF Locals, PCs
  <2>2. l2.pc = "explock" /\ l2.x = th[t].x /\ l2.q = th[t].q /\ l2.path = th[t].path
    BY <1>3 DEF Locals
  <2> HIDE DEF l2
  <2>3. CallOK(l2, c) /\ SearchOK(l2, c)
    BY <1>1, <1>2, <1>3, <1>7, <2>2 DEF CallOK, SearchOK, OpsAt
  <2> QED
    BY <1>1, <1>2, <1>7, <2>1, <2>2, <2>3, RestAndGoto DEF c
<1> QED
  BY <1>4, <1>5, <1>6, <1>7

\* A thread goes on to wait for all the locks.
LEMMA LockAllControl ==
  ASSUME ControlInv, NEW t \in Threads, NEW l, Goto(t, l), UNCHANGED interface, LockAll(t),
         l \in Locals, CallOK(l, call[t]), SearchOK(l, call[t]),
         \/ l.pc \in {"resize", "rebuild", "locked"}
         \/ l.pc = "op" /\ call[t].op = "clear",
         \/ /\ l.pc = "resize" /\ expansion_lock = NoThread /\ expansion_lock' = t
            /\ hashpower = l.hp
         \/ /\ l.pc # "resize" /\ th[t].pc \notin {"resize", "drain"}
            /\ expansion_lock' = expansion_lock
  PROVE  ControlInv'
<1>1. LocksInv /\ ExpansionOK(t) /\ th'[t] = l /\ call'[t] = call[t]
  BY ThreadFacts DEF interface
<1>2. /\ LocksInv' /\ OthersKept(t) /\ hashpower' = hashpower
      /\ req'[t].stage = "all"
  BY <1>1, LockAllStep
<1>3. RequestOK(t)'
  <2>1. "clear" \notin KeyOps
    BY DEF KeyOps, InsertOps
  <2> QED
    BY <1>1, <1>2, <2>1 DEF RequestOK
<1>4. ExpansionOK(t)'
  BY <1>1, <1>2 DEF ExpansionOK
<1> QED
  BY <1>2, <1>3, <1>4, ControlGoto

\* cuckoo_fast_double has the expansion lock.
LEMMA TakeExpansionLockControl ==
  ASSUME ControlInv, NEW t \in Threads, TakeExpansionLock(t)
  PROVE  ControlInv'
<1> DEFINE c == call[t]
           l == [th[t] EXCEPT !.pc = "resize"]
           again == Upserts(t)
<1>1. th[t].pc = "explock" /\ expansion_lock = NoThread
  BY DEF TakeExpansionLock, At
<1>2. /\ req[t].stage = "none" /\ SearchOK(th[t], c) /\ CallOK(th[t], c)
  BY <1>1, ThreadFacts DEF RequestOK
<1>3. /\ th[t] \in Locals /\ c # NoCall /\ c \in Calls /\ c.op \in InsertOps
      /\ c.op \in KeyOps /\ again \in BOOLEAN
  BY <1>1, ExpandingFacts DEF KeyOps
<1>4. CASE hashpower # th[t].hp
  <2>1. Restart(t, again) /\ UNCHANGED locksVars /\ expansion_lock' = expansion_lock
    BY <1>4 DEF TakeExpansionLock, Expanded
  <2> HIDE DEF again
  <2> QED
    BY <1>1, <1>2, <1>3, <2>1, RestAndRestart
<1>5. CASE hashpower = th[t].hp
  <2>1. expansion_lock' = t /\ LockAll(t) /\ Goto(t, l) /\ UNCHANGED interface
    BY <1>5 DEF TakeExpansionLock
  <2>2. l \in Locals
    BY <1>3 DEF Locals, PCs
  <2>3. /\ l.pc = "resize" /\ l.hp = th[t].hp /\ l.x = th[t].x /\ l.q = th[t].q
        /\ l.path = th[t].path
    BY <1>3 DEF Locals
  <2> HIDE DEF l
  <2>4. CallOK(l, c) /\ SearchOK(l, c)
    BY <1>1, <1>2, <1>3, <2>3 DEF CallOK, SearchOK, OpsAt
  <2> QED
    BY <1>1, <1>5, <2>1, <2>2, <2>3, <2>4, LockAllControl
<1> QED
  BY <1>4, <1>5

\* cuckoo_fast_double stores the new hashpower.
LEMMA ResizeControl ==
  ASSUME HashPowers = Nat, ControlInv, NEW t \in Threads, Resize(t)
  PROVE  ControlInv' /\ hashpower' = hashpower + 1 /\ hashpower = th[t].hp
<1> DEFINE c == call[t]
           hp == th[t].hp
           hp1 == hp + 1
           todo == {m \in Locks : m < hashsize(hp)}
           l == [th[t] EXCEPT !.pc = "drain", !.todo = todo]
<1>1. /\ th[t].pc = "resize" /\ set_hashpower(t, hp1) /\ Goto(t, l) /\ UNCHANGED interface
      /\ expansion_lock' = expansion_lock
  BY DEF Resize, At
<1>2. /\ LocksInv /\ SearchOK(th[t], c) /\ CallOK(th[t], c) /\ ExpansionOK(t)
      /\ th'[t] = l
  BY <1>1, ThreadFacts
<1>3. /\ th[t] \in Locals /\ c # NoCall /\ c \in Calls /\ c.op \in InsertOps /\ hp \in Nat
  BY <1>1, ExpandingFacts
<1>4. hp1 \in HashPowers
  BY <1>3
<1>5. expansion_lock = t /\ hashpower = hp
  BY <1>1, <1>2 DEF ExpansionOK
<1> HIDE DEF hp1
<1>6. /\ LocksInv' /\ OthersKept(t) /\ hashpower' = hp1 /\ req'[t].stage = "drain"
      /\ \A m \in Locks : writer'[m] = t
      /\ Held(t)' = Locks /\ Locks # {}
  BY <1>1, <1>2, <1>4, SetHashpowerStep
<1>7. todo \in SUBSET Locks
  OBVIOUS
<1>8. l \in Locals
  <2> HIDE DEF todo
  <2> QED
    BY <1>3, <1>7 DEF Locals, PCs
<1>9. /\ l.pc = "drain" /\ l.hp = hp /\ l.x = th[t].x /\ l.q = th[t].q
      /\ l.path = th[t].path /\ l.todo = todo
  BY <1>3 DEF Locals
<1> HIDE DEF l
<1>10. CallOK(l, c) /\ SearchOK(l, c)
  BY <1>1, <1>2, <1>3, <1>9 DEF CallOK, SearchOK, OpsAt
<1>11. RequestOK(t)'
  BY <1>2, <1>6, <1>9 DEF RequestOK
<1>12. ExpansionOK(t)'
  BY <1>1, <1>2, <1>5, <1>6, <1>9 DEF ExpansionOK, hp1
<1>13. ControlInv'
  BY <1>1, <1>5, <1>6, <1>8, <1>10, <1>11, <1>12, ControlGoto
<1> QED
  BY <1>5, <1>6, <1>13 DEF hp1

\* move_buckets for one lock.
LEMMA MoveBucketsControl ==
  ASSUME ControlInv, NEW t \in Threads, NEW m \in Locks, MoveBuckets(t, m)
  PROVE  ControlInv' /\ hashpower' = hashpower /\ hashpower = th[t].hp + 1
<1> DEFINE c == call[t]
           hp == th[t].hp
           todo == th[t].todo \ {m}
           ls == {m}
           l == [th[t] EXCEPT !.todo = todo]
<1>1. /\ th[t].pc = "drain" /\ Unlock(t, ls) /\ Goto(t, l) /\ UNCHANGED interface
      /\ expansion_lock' = expansion_lock /\ m \in th[t].todo
  BY DEF MoveBuckets, At
<1>2. /\ LocksInv /\ SearchOK(th[t], c) /\ CallOK(th[t], c) /\ ExpansionOK(t)
      /\ RequestOK(t) /\ th'[t] = l
  BY <1>1, ThreadFacts
<1>3. /\ th[t] \in Locals /\ hp \in Nat
  BY <1>1, ExpandingFacts
<1>4. /\ expansion_lock = t /\ hashpower = hp + 1
  BY <1>1, <1>2 DEF ExpansionOK
<1>5. /\ req[t].stage = "drain"
      /\ \A n \in th[t].todo : n < hashsize(hp)
      /\ \A n \in Locks : n \in th[t].todo \/ n >= hashsize(hp) => writer[n] = t
  <2>1. /\ req[t].stage \in {"drain", "none"}
        /\ \A n \in th[t].todo : n < hashsize(hp)
        /\ \A n \in Locks : n \in th[t].todo \/ n >= hashsize(hp) => writer[n] = t
    BY <1>1, <1>2 DEF RequestOK
  <2> QED
    BY <1>1, <2>1 DEF Unlock, LocksGranted
<1>6. ls \in SUBSET Locks
  OBVIOUS
<1> HIDE DEF ls
<1>7. /\ LocksInv' /\ OthersKept(t) /\ hashpower' = hashpower
      /\ Held(t)' = Held(t) \ ls /\ ls \subseteq Held(t)
      /\ \A n \in Locks \ ls : writer[n] = t => writer'[n] = t
      /\ ls = Held(t) => req'[t] = NoRequest
      /\ ls # Held(t) => req'[t].stage = IF req[t].stage = "all" THEN "drain"
                                         ELSE req[t].stage
  BY <1>1, <1>2, <1>6, UnlockStep
<1>8. todo \in SUBSET Locks
  BY <1>3 DEF Locals
<1>9. l \in Locals
  <2> HIDE DEF todo
  <2> QED
    BY <1>3, <1>8 DEF Locals, PCs
<1>10. /\ l.pc = "drain" /\ l.hp = hp /\ l.x = th[t].x /\ l.q = th[t].q
       /\ l.path = th[t].path /\ l.todo = todo
  BY <1>1, <1>3 DEF Locals
<1> HIDE DEF l
<1>11. CallOK(l, c) /\ SearchOK(l, c)
  BY <1>1, <1>2, <1>3, <1>10 DEF CallOK, SearchOK, OpsAt
<1>12. RequestOK(t)'
  <2>1. ASSUME NEW n \in Locks, n \in todo \/ n >= hashsize(hp)
        PROVE  writer'[n] = t
    <3>1. n # m
      BY <1>1, <1>3, <1>5, <2>1, HashsizeDoubles DEF Locks
    <3> QED
      BY <1>5, <1>7, <2>1, <3>1 DEF ls
  <2>2. \A n \in todo : n < hashsize(hp)
    BY <1>5
  <2>3. /\ req'[t].stage \in {"drain", "none"}
        /\ req'[t].stage = "drain" => Held(t)' # {}
    <3>1. CASE ls = Held(t)
      BY <1>7, <3>1 DEF NoRequest
    <3>2. CASE ls # Held(t)
      BY <1>5, <1>7, <3>2
    <3> QED
      BY <3>1, <3>2
  <2> HIDE DEF todo
  <2> QED
    BY <1>2, <1>10, <2>1, <2>2, <2>3 DEF RequestOK
<1>13. ExpansionOK(t)'
  BY <1>1, <1>2, <1>4, <1>7, <1>10 DEF ExpansionOK
<1> QED
  BY <1>1, <1>4, <1>7, <1>9, <1>11, <1>12, <1>13, ControlGoto

\* cuckoo_fast_double ends.
LEMMA FinishDoubleControl ==
  ASSUME ControlInv, NEW t \in Threads, FinishDouble(t)
  PROVE  ControlInv' /\ hashpower' = hashpower
<1> DEFINE again == Upserts(t)
<1>1. /\ th[t].pc = "drain" /\ Restart(t, again) /\ expansion_lock' = NoThread
      /\ IF Held(t) # {} THEN UnlockAll(t) ELSE UNCHANGED locksVars
  BY DEF FinishDouble, Expanded, At
<1>2. LocksInv /\ RequestOK(t) /\ ExpansionOK(t)
  BY ThreadFacts
<1>3. expansion_lock = t
  BY <1>1, <1>2 DEF ExpansionOK
<1>4. /\ call[t] # NoCall /\ call[t].op \in KeyOps /\ again \in BOOLEAN
  BY <1>1, ExpandingFacts DEF KeyOps
<1>5. Released(t)
  <2>1. CASE Held(t) # {}
    BY <1>1, <1>2, <2>1, UnlockAllStep
  <2>2. CASE Held(t) = {}
    <3>1. req[t].stage = "none"
      BY <1>1, <1>2, <2>2 DEF RequestOK
    <3> QED
      BY <1>1, <1>2, <2>2, <3>1, RestReleased
  <2> QED
    BY <2>1, <2>2
<1> HIDE DEF again
<1>6. ControlInv'
  BY <1>1, <1>3, <1>4, <1>5, RestartControl
<1> QED
  BY <1>5, <1>6 DEF Released

\* rehash and reserve.
LEMMA RehashControl ==
  ASSUME ControlInv, NEW t \in Threads, Rehash(t)
  PROVE  ControlInv'
<1> DEFINE c == call[t]
           n == c.n
           new_hp == IF c.op = "rehash" THEN n ELSE reserve_calc(n)
           grow == new_hp > hashpower
           l == [Local("expand") EXCEPT !.new_hp = new_hp, !.grow = grow]
<1>1. /\ th[t].pc = "rehash" /\ UNCHANGED locksVars /\ expansion_lock' = expansion_lock
  BY DEF Rehash, At
<1>2. req[t].stage = "none" /\ CallOK(th[t], c)
  BY <1>1, ThreadFacts DEF RequestOK
<1>3. c # NoCall /\ c \in Calls /\ c.op \in {"rehash", "reserve"} /\ ~ NothrowMove
  BY <1>1, <1>2 DEF CallOK, OpsAt
<1>4. \/ \E result : Return(t, result)
      \/ Goto(t, l) /\ UNCHANGED interface
  BY DEF Rehash, Op
<1>5. CASE \E result : Return(t, result)
  <2>1. PICK result : Return(t, result)
    BY <1>5
  <2> QED
    BY <1>1, <1>2, <2>1, RestAndReturn
<1>6. CASE Goto(t, l) /\ UNCHANGED interface
  <2>1. n \in Nat
    BY <1>3, CallsAssumption DEF KeyOps, InsertOps, TableOps
  <2>2. new_hp \in Nat
    <3> HIDE DEF n
    <3> QED
      BY <2>1, ReserveCalcCorrect
  <2>3. grow \in BOOLEAN
    OBVIOUS
  <2>4. Local("expand") \in Locals
    BY LocalType DEF PCs
  <2> HIDE DEF new_hp, grow, c
  <2>5. l \in Locals
    BY <2>2, <2>3, <2>4 DEF Locals
  <2>6. l.pc = "expand" /\ l.x = NoBSlot /\ l.q = <<>> /\ l.path = <<>>
    BY DEF Local
  <2> HIDE DEF l
  <2>7. CallOK(l, c) /\ SearchOK(l, c)
    BY <1>3, <2>6 DEF CallOK, SearchOK, OpsAt
  <2> QED
    BY <1>1, <1>2, <1>6, <2>5, <2>6, <2>7, RestAndGoto DEF c
<1> QED
  BY <1>4, <1>5, <1>6

\* cuckoo_expand_simple returns.
LEMMA ExpandReturnsControl ==
  ASSUME ControlInv, NEW t \in Threads, NEW st, ExpandReturns(t, st), UnlockAll(t),
         expansion_lock' = expansion_lock, th[t].pc \in {"rebuild", "rebuilt"}
  PROVE  ControlInv'
<1> DEFINE again == Upserts(t)
<1>1. /\ call[t] # NoCall /\ again \in BOOLEAN
      /\ call[t].op \in InsertOps \union {"rehash", "reserve"}
  BY ExpandingFacts
<1>2. CASE Op(t) \in {"rehash", "reserve"}
  <2>1. \E result : Return(t, result)
    BY <1>2 DEF ExpandReturns
  <2>2. PICK result : Return(t, result)
    BY <2>1
  <2> QED
    BY <2>2, UnlockAndReturn
<1>3. CASE Op(t) \notin {"rehash", "reserve"}
  <2>1. Restart(t, again) /\ call[t].op \in KeyOps
    BY <1>1, <1>3 DEF ExpandReturns, Expanded, Op, KeyOps
  <2> HIDE DEF again
  <2> QED
    BY <1>1, <2>1, UnlockAndRestart
<1> QED
  BY <1>2, <1>3

\* cuckoo_expand_simple, but for the step that changes the table.
LEMMA ExpandControl ==
  ASSUME ControlInv, NEW t \in Threads,
         \/ ExpandTooLarge(t) \/ ExpandLockAll(t) \/ ExpandOvertaken(t) \/ ExpandUnlock(t)
  PROVE  ControlInv'
<1>1. CASE ExpandTooLarge(t)
  <2> DEFINE result == Result("maximum_hashpower_exceeded", NoVal)
  <2>1. /\ th[t].pc = "expand" /\ UNCHANGED locksVars /\ expansion_lock' = expansion_lock
        /\ Return(t, result)
    BY <1>1 DEF ExpandTooLarge, ThrowTooLarge, At
  <2>2. req[t].stage = "none"
    BY <2>1, ThreadFacts DEF RequestOK
  <2> HIDE DEF result
  <2> QED
    BY <2>1, <2>2, RestAndReturn
<1>2. CASE ExpandLockAll(t)
  <2> DEFINE l == [th[t] EXCEPT !.pc = "rebuild"]
             c == call[t]
  <2>1. /\ th[t].pc = "expand" /\ LockAll(t) /\ Goto(t, l) /\ UNCHANGED interface
        /\ expansion_lock' = expansion_lock
    BY <1>2 DEF ExpandLockAll, At
  <2>2. /\ SearchOK(th[t], c) /\ CallOK(th[t], c)
    BY ThreadFacts
  <2>3. /\ th[t] \in Locals /\ c # NoCall /\ c \in Calls
        /\ c.op \in InsertOps \union {"rehash", "reserve"}
    BY <2>1, ExpandingFacts
  <2>4. l \in Locals
    BY <2>3 DEF Locals, PCs
  <2>5. l.pc = "rebuild" /\ l.x = th[t].x /\ l.q = th[t].q /\ l.path = th[t].path
    BY <2>3 DEF Locals
  <2> HIDE DEF l
  <2>6. CallOK(l, c) /\ SearchOK(l, c)
    BY <2>1, <2>2, <2>3, <2>5 DEF CallOK, SearchOK, OpsAt
  <2> QED
    BY <2>1, <2>4, <2>5, <2>6, LockAllControl
<1>3. CASE ExpandOvertaken(t)
  <2>1. /\ th[t].pc = "rebuild" /\ ExpandReturns(t, "failure") /\ UnlockAll(t)
        /\ expansion_lock' = expansion_lock
    BY <1>3 DEF ExpandOvertaken, At
  <2> QED
    BY <2>1, ExpandReturnsControl
<1>4. CASE ExpandUnlock(t)
  <2>1. /\ th[t].pc = "rebuilt" /\ ExpandReturns(t, "ok") /\ UnlockAll(t)
        /\ expansion_lock' = expansion_lock
    BY <1>4 DEF ExpandUnlock, At
  <2> QED
    BY <2>1, ExpandReturnsControl
<1> QED
  BY <1>1, <1>2, <1>3, <1>4

\* cuckoo_expand_simple swaps in the new table.
LEMMA ExpandSimpleControl ==
  ASSUME ControlInv, NEW t \in Threads, ExpandSimple(t)
  PROVE  ControlInv'
<1> DEFINE l == [th[t] EXCEPT !.pc = "rebuilt"]
           c == call[t]
<1>1. PICK hp \in HashPowers : set_hashpower(t, hp)
  BY DEF ExpandSimple
<1>2. /\ th[t].pc = "rebuild" /\ Goto(t, l) /\ UNCHANGED interface
      /\ expansion_lock' = expansion_lock
  BY DEF ExpandSimple, At
<1>3. /\ LocksInv /\ SearchOK(th[t], c) /\ CallOK(th[t], c) /\ ExpansionOK(t)
      /\ th'[t] = l
  BY <1>2, ThreadFacts
<1>4. /\ th[t] \in Locals /\ c # NoCall /\ c \in Calls
      /\ c.op \in InsertOps \union {"rehash", "reserve"}
  BY <1>2, ExpandingFacts
<1>5. ~ NothrowMove
  BY <1>2, <1>3 DEF CallOK
<1>6. /\ LocksInv' /\ OthersKept(t) /\ req'[t].stage = "drain"
      /\ Held(t)' = Locks /\ Locks # {}
  BY <1>1, <1>3, SetHashpowerStep
<1>7. l \in Locals
  BY <1>4 DEF Locals, PCs
<1>8. l.pc = "rebuilt" /\ l.x = th[t].x /\ l.q = th[t].q /\ l.path = th[t].path
  BY <1>4 DEF Locals
<1> HIDE DEF l
<1>9. CallOK(l, c) /\ SearchOK(l, c)
  BY <1>2, <1>3, <1>4, <1>5, <1>8 DEF CallOK, SearchOK, OpsAt
<1>10. RequestOK(t)'
  BY <1>3, <1>6, <1>8 DEF RequestOK
<1>11. ExpansionOK(t)'
  BY <1>2, <1>3, <1>8 DEF ExpansionOK
<1> QED
  BY <1>2, <1>5, <1>6, <1>7, <1>9, <1>10, <1>11, ControlGoto

\* clear and lock_table.
LEMMA StartLockAllControl ==
  ASSUME ControlInv, NEW t \in Threads, StartLockAll(t)
  PROVE  ControlInv'
<1> DEFINE c == call[t]
           pc == IF c.op = "clear" THEN "op" ELSE "locked"
           l == Local(pc)
<1>1. /\ th[t].pc = "all" /\ LockAll(t) /\ Goto(t, l) /\ UNCHANGED interface
      /\ expansion_lock' = expansion_lock
  BY DEF StartLockAll, At, Op
<1>2. CallOK(th[t], c)
  BY ThreadFacts
<1>3. c # NoCall /\ c \in Calls /\ c.op \in {"clear", "lock_table"}
  BY <1>1, <1>2 DEF CallOK, OpsAt
<1>4. pc \in PCs
  BY DEF PCs
<1>5. \/ pc = "op" /\ c.op = "clear"
      \/ pc = "locked" /\ c.op = "lock_table"
  BY <1>3
<1> HIDE DEF pc
<1>6. l \in Locals /\ l.pc = pc /\ l.x = NoBSlot /\ l.q = <<>> /\ l.path = <<>>
  BY <1>4, LocalType, LocalFields
<1> HIDE DEF l
<1>7. CallOK(l, c) /\ SearchOK(l, c)
  BY <1>3, <1>5, <1>6 DEF CallOK, SearchOK, OpsAt
<1> QED
  BY <1>1, <1>5, <1>6, <1>7, LockAllControl

\* The end of a locked_table, and the two limits.
LEMMA ReleaseControl ==
  ASSUME ControlInv, NEW t \in Threads, ReleaseLockedTable(t) \/ SetLimit(t)
  PROVE  ControlInv'
<1>1. PICK result : Return(t, result)
  <2>1. \E result : Return(t, result)
    BY DEF ReleaseLockedTable, SetLimit
  <2> QED
    BY <2>1
<1>2. CASE ReleaseLockedTable(t)
  <2>1. th[t].pc = "locked" /\ UnlockAll(t) /\ expansion_lock' = expansion_lock
    BY <1>2 DEF ReleaseLockedTable, At
  <2> QED
    BY <1>1, <2>1, UnlockAndReturn
<1>3. CASE SetLimit(t)
  <2>1. /\ th[t].pc = "op" /\ UNCHANGED locksVars /\ expansion_lock' = expansion_lock
        /\ call[t].op \in {"minimum_load_factor", "maximum_hashpower"}
    BY <1>3 DEF SetLimit, At, Op
  <2>2. call[t].op \notin KeyOps \union {"clear"}
    BY <2>1 DEF KeyOps, InsertOps
  <2>3. req[t].stage = "none"
    BY <2>1, <2>2, ThreadFacts DEF RequestOK
  <2> QED
    BY <1>1, <2>1, <2>3, RestAndReturn
<1> QED
  BY <1>2, <1>3

\* A thread makes a call.
LEMMA CallControl ==
  ASSUME RebuildsOrDoubles, ControlInv, NEW t \in Threads, NEW c \in Calls, Call(t, c)
  PROVE  ControlInv'
<1> DEFINE pc == CASE c.op \in {"rehash", "reserve"} -> "rehash"
                   [] c.op \in {"clear", "lock_table"} -> "all"
                   [] c.op = "size" -> "sum"
                   [] c.op \in {"minimum_load_factor", "maximum_hashpower"} -> "op"
                   [] OTHER -> "snapshot"
           l == Local(pc)
<1>1. /\ call[t] = NoCall /\ Goto(t, l) /\ call' = [call EXCEPT ![t] = c]
      /\ UNCHANGED locksVars /\ expansion_lock' = expansion_lock
  BY DEF Call
<1>2. LocksInv /\ CallOK(th[t], call[t]) /\ RequestOK(t) /\ ExpansionOK(t) /\ th'[t] = l
  BY <1>1, ThreadFacts
<1>3. th[t].pc = "idle" /\ req[t].stage = "none" /\ expansion_lock # t
  BY <1>1, <1>2 DEF CallOK, RequestOK, ExpansionOK
<1>4. /\ LocksInv' /\ OthersKept(t) /\ hashpower' = hashpower /\ req'[t].stage = "none"
  BY <1>1, <1>2, <1>3, RestReleased DEF Released
<1>5. c # NoCall /\ c.op \in KeyOps \union TableOps
  BY CallsAssumption
<1>6. /\ pc \in PCs /\ c.op \in OpsAt(pc)
      /\ pc \notin {"idle", "explock", "resize", "drain", "search", "path", "move",
                    "moving", "expand", "rebuild", "rebuilt", "locked"}
      /\ pc = "op" => c.op \notin KeyOps \union {"clear"}
      /\ pc = "rehash" => c.op \in {"rehash", "reserve"}
  <2>1. CASE c.op \in KeyOps
    <3>1. pc = "snapshot"
      BY <2>1 DEF KeyOps, InsertOps
    <3> HIDE DEF pc
    <3> QED
      BY <2>1, <3>1 DEF PCs, OpsAt
  <2>2. CASE c.op \in {"rehash", "reserve"}
    <3>1. pc = "rehash"
      BY <2>2
    <3> HIDE DEF pc
    <3> QED
      BY <2>2, <3>1 DEF PCs, OpsAt
  <2>3. CASE c.op \in {"clear", "lock_table"}
    <3>1. pc = "all"
      BY <2>3
    <3> HIDE DEF pc
    <3> QED
      BY <2>3, <3>1 DEF PCs, OpsAt
  <2>4. CASE c.op = "size"
    <3>1. pc = "sum"
      BY <2>4
    <3> HIDE DEF pc
    <3> QED
      BY <2>4, <3>1 DEF PCs, OpsAt
  <2>5. CASE c.op \in {"minimum_load_factor", "maximum_hashpower"}
    <3>1. pc = "op"
      BY <2>5
    <3> HIDE DEF pc
    <3> QED
      BY <2>5, <3>1 DEF PCs, OpsAt, KeyOps, InsertOps
  <2> QED
    BY <1>5, <2>1, <2>2, <2>3, <2>4, <2>5 DEF TableOps
<1> HIDE DEF pc
<1>7. l \in Locals /\ l.pc = pc /\ l.x = NoBSlot /\ l.q = <<>> /\ l.path = <<>>
  BY <1>6, LocalType, LocalFields
<1> HIDE DEF l
<1>8. CallOK(l, c)
  BY <1>5, <1>6, <1>7 DEF CallOK, RebuildsOrDoubles
<1>9. SearchOK(l, c)
  BY <1>6, <1>7 DEF SearchOK
<1>10. call'[t] = c
  BY <1>1 DEF ControlInv
<1>11. RequestOK(t)'
  BY <1>2, <1>4, <1>6, <1>7, <1>10 DEF RequestOK
<1>12. ExpansionOK(t)'
  BY <1>1, <1>2, <1>3, <1>6, <1>7 DEF ExpansionOK
<1>13. th' = [th EXCEPT ![t] = l]
  BY <1>1 DEF Goto
<1> QED
  BY <1>1, <1>4, <1>7, <1>8, <1>9, <1>11, <1>12, <1>13, ControlStep

\* The invariant holds at the start.
LEMMA ControlInit == MapInit => ControlInv
<1> SUFFICES ASSUME MapInit PROVE ControlInv
  OBVIOUS
<1> DEFINE l == Local("idle")
<1>1. /\ LocksInit /\ expansion_lock = NoThread
      /\ call = [t \in Threads |-> NoCall] /\ th = [t \in Threads |-> l]
  BY DEF MapInit
<1>2. LocksInv
  BY <1>1, LocksInitInv
<1>3. l \in Locals /\ l.pc = "idle" /\ l.x = NoBSlot /\ l.q = <<>> /\ l.path = <<>>
  BY LocalType, LocalFields DEF PCs
<1> HIDE DEF l
<1>4. \A t \in Threads : th[t] = l /\ call[t] = NoCall /\ req[t].stage = "none"
  BY <1>1 DEF LocksInit, NoRequest
<1>5. ASSUME NEW t \in Threads
      PROVE  ThreadOK(t) /\ RequestOK(t) /\ ExpansionOK(t)
  <2>1. ThreadOK(t)
    BY <1>3, <1>4 DEF ThreadOK, CallOK, SearchOK
  <2>2. RequestOK(t)
    BY <1>3, <1>4 DEF RequestOK
  <2>3. ExpansionOK(t)
    BY <1>1, <1>3, <1>4, NoThreadAssumption DEF ExpansionOK
  <2> QED
    BY <2>1, <2>2, <2>3
<1>6. th \in [Threads -> Locals] /\ call \in [Threads -> Calls \union {NoCall}]
  BY <1>1, <1>3
<1> QED
  BY <1>1, <1>2, <1>5, <1>6 DEF ControlInv

\* One step of a call.
LEMMA ControlOfStep ==
  ASSUME HashPowers = Nat, ControlInv, TableOK, NEW t \in Threads, Step(t)
  PROVE  ControlInv'
<1>1. CASE SnapshotAndLockTwo(t) \/ LockStep(t) \/ LockFailed(t)
  BY <1>1, SnapshotControl, LockStepControl, LockFailedControl
<1>2. CASE Lookup(t) \/ Erase(t) \/ Update(t) \/ InsertIntoBucket(t) \/ Clear(t)
  BY <1>2, OperationControl
<1>3. CASE InsertDuplicate(t) \/ RunCuckoo(t)
  BY <1>3, InsertDuplicateControl, RunCuckooControl
<1>4. CASE PeekFailed(t) \/ SearchOn(t) \/ SearchFailed(t) \/ SearchFound(t) \/ FollowPath(t)
  BY <1>4, PeekFailedControl, SearchOnControl, SearchFailedControl, SearchFoundControl,
     FollowPathControl
<1>5. CASE StartMove(t) \/ MoveFailed(t) \/ MoveOn(t) \/ FinishInsert(t)
  BY <1>5, StartMoveControl, MoveFailedControl, MoveOnControl, FinishInsertControl
<1>6. CASE ReadCounter(t) \/ SizeReturns(t) \/ CheckLoadFactor(t)
  BY <1>6, ReadCounterControl, SummedControl
<1>7. CASE FastDouble(t) \/ TakeExpansionLock(t) \/ Resize(t) \/ FinishDouble(t)
  BY <1>7, FastDoubleControl, TakeExpansionLockControl, ResizeControl, FinishDoubleControl
<1>8. CASE \E l \in Locks : MoveBuckets(t, l)
  BY <1>8, MoveBucketsControl
<1>9. CASE Rehash(t) \/ ExpandTooLarge(t) \/ ExpandLockAll(t) \/ ExpandOvertaken(t)
           \/ ExpandSimple(t) \/ ExpandUnlock(t)
  BY <1>9, RehashControl, ExpandControl, ExpandSimpleControl
<1>10. CASE StartLockAll(t) \/ ReleaseLockedTable(t) \/ SetLimit(t)
  BY <1>10, StartLockAllControl, ReleaseControl
<1> QED
  BY <1>1, <1>2, <1>3, <1>4, <1>5, <1>6, <1>7, <1>8, <1>9, <1>10 DEF Step

-----------------------------------------------------------------------------
(***************************************************************************)
(* Sums of the values of a function, by which items are counted.           *)
(***************************************************************************)

\* The recursion that defines the sum: what g says of the set s.
SumBody(f, g, s) ==
  IF s = {} THEN 0
  ELSE f[CHOOSE x \in s : TRUE] + g[s \ {CHOOSE x \in s : TRUE}]

\* g[s] is the sum of f over s, for every subset s of S.
IsSum(f, g, S) == g = [s \in SUBSET S |-> SumBody(f, g, s)]

\* The element that is taken first.
LEMMA ChosenElement ==
  ASSUME NEW S, IsFiniteSet(S), S # {}
  PROVE  LET x == CHOOSE x \in S : TRUE
         IN  /\ x \in S /\ IsFiniteSet(S \ {x})
             /\ Cardinality(S) \in Nat /\ Cardinality(S) > 0
             /\ Cardinality(S \ {x}) = Cardinality(S) - 1
<1> DEFINE x == CHOOSE x \in S : TRUE
<1>1. x \in S
  OBVIOUS
<1> HIDE DEF x
<1>2. /\ IsFiniteSet(S \ {x}) /\ Cardinality(S) \in Nat
      /\ Cardinality(S \ {x}) = Cardinality(S) - 1
  BY <1>1, FS_RemoveElement, FS_CardinalityType
<1>3. Cardinality(S) # 0
  BY FS_EmptySet
<1> QED
  BY <1>1, <1>2, <1>3 DEF x

\* The recursion has a solution.
LEMMA SumExists ==
  ASSUME NEW U, IsFiniteSet(U), NEW f
  PROVE  \E g : IsSum(f, g, U)
<1> DEFINE Small(n) == {s \in SUBSET U : Cardinality(s) <= n}
           Solved == {n \in Nat : \E g : g = [s \in Small(n) |-> SumBody(f, g, s)]}
<1>1. \A s \in SUBSET U : IsFiniteSet(s) /\ Cardinality(s) \in Nat
  BY FS_Subset, FS_CardinalityType
<1>2. \A n \in Nat : n \in Solved
  <2>1. 0 \in Solved
    <3> DEFINE g == [s \in Small(0) |-> 0]
    <3>1. \A s \in Small(0) : s = {}
      BY <1>1, FS_EmptySet
    <3>2. \A s \in Small(0) : SumBody(f, g, s) = 0
      BY <3>1 DEF SumBody
    <3>3. g = [s \in Small(0) |-> SumBody(f, g, s)]
      BY <3>2
    <3> HIDE DEF g, Small
    <3> QED
      BY <3>3
  <2>2. ASSUME NEW n \in Nat, n \in Solved
        PROVE  n + 1 \in Solved
    <3>1. PICK g : g = [s \in Small(n) |-> SumBody(f, g, s)]
      BY <2>2
    <3> DEFINE h == [s \in Small(n + 1) |-> IF s \in Small(n) THEN g[s] ELSE SumBody(f, g, s)]
    <3>2. ASSUME NEW s \in Small(n + 1)
          PROVE  h[s] = SumBody(f, g, s)
      <4>1. s \in Small(n) => g[s] = SumBody(f, g, s)
        <5> HIDE DEF Small
        <5> QED
          BY <3>1
      <4>2. h[s] = IF s \in Small(n) THEN g[s] ELSE SumBody(f, g, s)
        <5> HIDE DEF Small
        <5> QED
          BY <3>2
      <4> HIDE DEF h, Small
      <4> QED
        BY <4>1, <4>2
    <3>3. ASSUME NEW s \in Small(n + 1)
          PROVE  SumBody(f, g, s) = SumBody(f, h, s)
      <4>1. CASE s = {}
        BY <4>1 DEF SumBody
      <4>2. CASE s # {}
        <5> DEFINE x == CHOOSE x \in s : TRUE
                   r == s \ {x}
        <5>1. IsFiniteSet(s) /\ s \in SUBSET U /\ Cardinality(s) <= n + 1
          BY <1>1
        <5>2. x \in s /\ Cardinality(r) = Cardinality(s) - 1 /\ Cardinality(s) \in Nat
          BY <4>2, <5>1, ChosenElement
        <5>3. r \in SUBSET U
          BY <5>1
        <5> HIDE DEF x, r
        <5>4. r \in Small(n) /\ r \in Small(n + 1)
          BY <5>1, <5>2, <5>3
        <5>5. h[r] = g[r]
          <6> HIDE DEF Small
          <6> QED
            BY <5>4
        <5> HIDE DEF h
        <5> QED
          BY <4>2, <5>5 DEF SumBody, x, r
      <4> QED
        BY <4>1, <4>2
    <3>4. h = [s \in Small(n + 1) |-> SumBody(f, h, s)]
      <4>1. h = [s \in Small(n + 1) |-> h[s]]
        <5> HIDE DEF Small
        <5> QED
          OBVIOUS
      <4>2. \A s \in Small(n + 1) : h[s] = SumBody(f, h, s)
        BY <3>2, <3>3
      <4> HIDE DEF h, Small
      <4> QED
        BY <4>1, <4>2
    <3> HIDE DEF h, Small
    <3> QED
      BY <3>4
  <2> HIDE DEF Solved
  <2> QED
    BY <2>1, <2>2, SetInduction
<1> DEFINE n == Cardinality(U)
<1>3. n \in Nat /\ Small(n) = SUBSET U
  BY <1>1, FS_Subset, FS_CardinalityType
<1>4. PICK g : g = [s \in Small(n) |-> SumBody(f, g, s)]
  BY <1>2, <1>3
<1>5. g = [s \in SUBSET U |-> SumBody(f, g, s)]
  <2> HIDE DEF Small, n
  <2> QED
    BY <1>3, <1>4
<1> QED
  BY <1>5 DEF IsSum

\* SumFunctionOnSet is such a solution.
LEMMA SumIsSum ==
  ASSUME NEW U, IsFiniteSet(U), NEW f
  PROVE  \E g : IsSum(f, g, U) /\ SumFunctionOnSet(f, U) = g[U]
<1> DEFINE g == CHOOSE g : g = [s \in SUBSET U |->
                  IF s = {} THEN 0
                  ELSE f[CHOOSE x \in s : TRUE] + g[s \ {CHOOSE x \in s : TRUE}]]
<1>1. \E h : h = [s \in SUBSET U |->
                  IF s = {} THEN 0
                  ELSE f[CHOOSE x \in s : TRUE] + h[s \ {CHOOSE x \in s : TRUE}]]
  <2>1. PICK h : IsSum(f, h, U)
    BY SumExists
  <2>2. h = [s \in SUBSET U |->
               IF s = {} THEN 0
               ELSE f[CHOOSE x \in s : TRUE] + h[s \ {CHOOSE x \in s : TRUE}]]
    BY <2>1, Zenon DEF IsSum, SumBody
  <2> QED
    BY <2>2, Zenon
<1>2. g = [s \in SUBSET U |->
             IF s = {} THEN 0
             ELSE f[CHOOSE x \in s : TRUE] + g[s \ {CHOOSE x \in s : TRUE}]]
  BY <1>1, Zenon
<1>3. SumFunctionOnSet(f, U) = g[U]
  BY Zenon DEF SumFunctionOnSet, FoldFunctionOnSet, MapThenFoldSet
<1> HIDE DEF g
<1>4. IsSum(f, g, U)
  BY <1>2 DEF IsSum, SumBody
<1> QED
  BY <1>3, <1>4

\* Induction over the subsets of a finite set.
LEMMA SubsetInduction ==
  ASSUME NEW S, IsFiniteSet(S), NEW G, {} \in G,
         \A T \in SUBSET S : T # {} /\ (\A x \in T : T \ {x} \in G) => T \in G
  PROVE  \A T \in SUBSET S : T \in G
<1> DEFINE Good == {n \in Nat : \A T \in SUBSET S : Cardinality(T) = n => T \in G}
<1>1. \A T \in SUBSET S : IsFiniteSet(T) /\ Cardinality(T) \in Nat
  BY FS_Subset, FS_CardinalityType
<1>2. \A n \in Nat : n \in Good
  <2>1. 0 \in Good
    BY <1>1, FS_EmptySet
  <2>2. ASSUME NEW n \in Nat, n \in Good
        PROVE  n + 1 \in Good
    <3>1. ASSUME NEW T \in SUBSET S, Cardinality(T) = n + 1
          PROVE  T \in G
      <4>1. T # {}
        BY <1>1, <3>1, FS_EmptySet
      <4>2. ASSUME NEW x \in T
            PROVE  T \ {x} \in G
        <5>1. Cardinality(T \ {x}) = n
          BY <1>1, <3>1, FS_RemoveElement
        <5> QED
          BY <2>2, <5>1
      <4> QED
        BY <4>1, <4>2
    <3> QED
      BY <3>1
  <2> HIDE DEF Good
  <2> QED
    BY <2>1, <2>2, SetInduction
<1> QED
  BY <1>1, <1>2

\* Two solutions agree where both are defined.
LEMMA SumUnique ==
  ASSUME NEW f, NEW S, NEW T, IsFiniteSet(S), NEW g, NEW h, IsSum(f, g, S), IsSum(f, h, T)
  PROVE  \A s \in SUBSET S : s \in SUBSET T => g[s] = h[s]
<1> DEFINE G == {s \in SUBSET S : s \in SUBSET T => g[s] = h[s]}
<1>1. {} \in G
  BY DEF IsSum, SumBody
<1>2. ASSUME NEW s \in SUBSET S, s # {}, \A x \in s : s \ {x} \in G
      PROVE  s \in G
  <2> SUFFICES ASSUME s \in SUBSET T PROVE g[s] = h[s]
    OBVIOUS
  <2> DEFINE x == CHOOSE x \in s : TRUE
             r == s \ {x}
  <2>1. x \in s
    BY <1>2
  <2>2. g[s] = f[x] + g[r] /\ h[s] = f[x] + h[r]
    BY <1>2 DEF IsSum, SumBody
  <2>3. r \in G /\ r \in SUBSET T
    BY <1>2, <2>1
  <2> HIDE DEF x, r
  <2> QED
    BY <2>2, <2>3
<1> HIDE DEF G
<1>3. \A s \in SUBSET S : s \in G
  BY <1>1, <1>2, SubsetInduction
<1> QED
  BY <1>3 DEF G

\* The sum over no elements.
LEMMA SumEmpty == \A f : SumFunctionOnSet(f, {}) = 0
<1> SUFFICES ASSUME NEW f PROVE SumFunctionOnSet(f, {}) = 0
  OBVIOUS
<1>1. IsFiniteSet({})
  BY FS_EmptySet
<1>2. PICK g : IsSum(f, g, {}) /\ SumFunctionOnSet(f, {}) = g[{}]
  BY <1>1, SumIsSum
<1> QED
  BY <1>2 DEF IsSum, SumBody

\* The sum takes one element first.
LEMMA SumFirst ==
  ASSUME NEW f, NEW S, IsFiniteSet(S), S # {}
  PROVE  LET x == CHOOSE x \in S : TRUE
         IN  SumFunctionOnSet(f, S) = f[x] + SumFunctionOnSet(f, S \ {x})
<1> DEFINE x == CHOOSE x \in S : TRUE
           r == S \ {x}
<1>1. x \in S /\ IsFiniteSet(r)
  BY ChosenElement
<1>2. PICK g : IsSum(f, g, S) /\ SumFunctionOnSet(f, S) = g[S]
  BY SumIsSum
<1>3. g[S] = f[x] + g[r]
  BY <1>2 DEF IsSum, SumBody
<1>4. r \in SUBSET S
  OBVIOUS
<1> HIDE DEF x, r
<1>5. PICK h : IsSum(f, h, r) /\ SumFunctionOnSet(f, r) = h[r]
  BY <1>1, SumIsSum
<1>6. g[r] = h[r]
  BY <1>1, <1>2, <1>4, <1>5, SumUnique
<1> QED
  BY <1>2, <1>3, <1>5, <1>6 DEF x, r

\* A sum of integers is an integer, and one of naturals a natural.
LEMMA SumType ==
  ASSUME NEW f, NEW S, IsFiniteSet(S), \A x \in S : f[x] \in Int
  PROVE  /\ SumFunctionOnSet(f, S) \in Int
         /\ (\A x \in S : f[x] \in Nat) => SumFunctionOnSet(f, S) \in Nat
<1> DEFINE G == {T \in SUBSET S :
                  /\ SumFunctionOnSet(f, T) \in Int
                  /\ (\A x \in S : f[x] \in Nat) => SumFunctionOnSet(f, T) \in Nat}
<1>1. {} \in G
  BY SumEmpty
<1>2. ASSUME NEW T \in SUBSET S, T # {}, \A x \in T : T \ {x} \in G
      PROVE  T \in G
  <2> DEFINE x == CHOOSE x \in T : TRUE
             r == T \ {x}
  <2>1. IsFiniteSet(T) /\ x \in T
    BY <1>2, FS_Subset
  <2>2. SumFunctionOnSet(f, T) = f[x] + SumFunctionOnSet(f, r)
    BY <1>2, <2>1, SumFirst
  <2>3. r \in G /\ f[x] \in Int /\ x \in S
    BY <1>2, <2>1
  <2> HIDE DEF x, r
  <2> QED
    BY <2>2, <2>3
<1> HIDE DEF G
<1>3. \A T \in SUBSET S : T \in G
  BY <1>1, <1>2, SubsetInduction
<1> QED
  BY <1>3 DEF G

\* Any element may be taken first.
LEMMA SumRemove ==
  ASSUME NEW f, NEW S, IsFiniteSet(S), \A x \in S : f[x] \in Int, NEW a \in S
  PROVE  SumFunctionOnSet(f, S) = f[a] + SumFunctionOnSet(f, S \ {a})
<1> DEFINE W(T) == SumFunctionOnSet(f, T)
           G == {T \in SUBSET S : \A x \in T : W(T) = f[x] + W(T \ {x})}
<1>0. \A T \in SUBSET S : W(T) \in Int /\ IsFiniteSet(T)
  BY SumType, FS_Subset
<1>1. {} \in G
  OBVIOUS
<1>2. ASSUME NEW T \in SUBSET S, T # {}, \A x \in T : T \ {x} \in G
      PROVE  T \in G
  <2> DEFINE y == CHOOSE y \in T : TRUE
  <2>1. IsFiniteSet(T) /\ y \in T
    BY <1>0, <1>2
  <2>2. W(T) = f[y] + W(T \ {y})
    BY <1>2, <2>1, SumFirst
  <2> HIDE DEF y
  <2>3. ASSUME NEW x \in T
        PROVE  W(T) = f[x] + W(T \ {x})
    <3>1. CASE x = y
      BY <2>2, <3>1
    <3>2. CASE x # y
      <4> DEFINE r == (T \ {y}) \ {x}
      <4>1. T \ {y} \in G /\ T \ {x} \in G
        BY <1>2, <2>1
      <4>2. x \in T \ {y} /\ y \in T \ {x} /\ (T \ {x}) \ {y} = r
        BY <2>1, <3>2
      <4>3. W(T \ {y}) = f[x] + W(r)
        BY <4>1, <4>2
      <4>4. W(T \ {x}) = f[y] + W(r)
        BY <4>1, <4>2
      <4>5. r \in SUBSET S /\ T \ {y} \in SUBSET S /\ T \ {x} \in SUBSET S
        BY <1>2
      <4>6. W(r) \in Int /\ f[x] \in Int /\ f[y] \in Int
        BY <1>0, <2>1, <4>5
      <4> HIDE DEF W, r
      <4> QED
        BY <2>2, <4>3, <4>4, <4>6
    <3> QED
      BY <3>1, <3>2
  <2> QED
    BY <2>3
<1> HIDE DEF G
<1>3. S \in G
  <2>1. \A T \in SUBSET S : T \in G
    BY <1>1, <1>2, SubsetInduction
  <2> QED
    BY <2>1
<1> QED
  BY <1>3 DEF G

\* The sum depends on the values only.
LEMMA SumSame ==
  ASSUME NEW f, NEW h, NEW S, IsFiniteSet(S), \A x \in S : f[x] = h[x]
  PROVE  SumFunctionOnSet(f, S) = SumFunctionOnSet(h, S)
<1> DEFINE G == {T \in SUBSET S : SumFunctionOnSet(f, T) = SumFunctionOnSet(h, T)}
<1>1. {} \in G
  BY SumEmpty
<1>2. ASSUME NEW T \in SUBSET S, T # {}, \A x \in T : T \ {x} \in G
      PROVE  T \in G
  <2> DEFINE x == CHOOSE x \in T : TRUE
             r == T \ {x}
  <2>1. IsFiniteSet(T) /\ x \in T
    BY <1>2, FS_Subset
  <2>2. SumFunctionOnSet(f, T) = f[x] + SumFunctionOnSet(f, r)
    BY <1>2, <2>1, SumFirst
  <2>3. SumFunctionOnSet(h, T) = h[x] + SumFunctionOnSet(h, r)
    BY <1>2, <2>1, SumFirst
  <2>4. r \in G /\ f[x] = h[x]
    BY <1>2, <2>1
  <2> HIDE DEF x, r
  <2> QED
    BY <2>2, <2>3, <2>4
<1> HIDE DEF G
<1>3. \A T \in SUBSET S : T \in G
  BY <1>1, <1>2, SubsetInduction
<1> QED
  BY <1>3 DEF G

-----------------------------------------------------------------------------
(***************************************************************************)
(* Tables and their slots.                                                 *)
(***************************************************************************)

\* The number of buckets of a table.
LEMMA TableSize ==
  ASSUME NEW hp \in Nat
  PROVE  /\ hashsize(hp) \in Nat /\ hashsize(hp) > 0
         /\ InTable(hp) \subseteq Nat
         /\ IsFiniteSet(InTable(hp)) /\ Cardinality(InTable(hp)) = hashsize(hp)
         /\ hashsize(hp + 1) = 2 * hashsize(hp)
<1> DEFINE n == hashsize(hp)
           m == n - 1
<1>1. n \in Nat /\ n > 0 /\ hashsize(hp + 1) = 2 * n
  BY HashsizeDoubles
<1> HIDE DEF n
<1>2. m \in Int /\ 0 <= m /\ m + 1 = n
  BY <1>1
<1> HIDE DEF m
<1>3. IsFiniteSet(0 .. m) /\ Cardinality(0 .. m) = n
  <2>1. IsFiniteSet(0 .. m) /\ Cardinality(0 .. m) = IF 0 > m THEN 0 ELSE m - 0 + 1
    BY <1>2, FS_Interval
  <2> QED
    BY <1>1, <1>2, <2>1
<1> QED
  BY <1>1, <1>2, <1>3 DEF InTable, n, m

\* The table bs with v in slot s of bucket i.
SetSlot(bs, i, s, v) == [bs EXCEPT ![i][s] = v]

\* One slot of a table is changed.
LEMMA SlotChanged ==
  ASSUME NEW hp \in Nat, NEW bs \in Tables(hp), NEW i \in InTable(hp), NEW s \in Slots,
         NEW v \in AnyItem \union {Vacant}, NEW new, new = SetSlot(bs, i, s, v)
  PROVE  /\ new \in Tables(hp) /\ DOMAIN new = InTable(hp)
         /\ new[i][s] = v
         /\ \A j \in InTable(hp), r \in Slots : (j # i \/ r # s) => new[j][r] = bs[j][r]
BY DEF Tables, SetSlot

\* Lowest gives an element of a set of slots that is not empty.
LEMMA LowestSlot ==
  ASSUME NEW S \in SUBSET Slots
  PROVE  (S = {} /\ Lowest(S) = NoSlot) \/ (S # {} /\ Lowest(S) \in S /\ Lowest(S) # NoSlot)
<1>1. S \in SUBSET Nat
  BY SlotAssumption DEF Slots
<1>2. CASE S # {}
  <2>1. \E n \in S : \A m \in S : n <= m
    BY <1>1, <1>2, LeastElement
  <2>2. Lowest(S) \in S
    BY <1>2, <2>1 DEF Lowest, Min
  <2> QED
    BY <1>1, <1>2, <2>2 DEF NoSlot
<1> QED
  BY <1>2 DEF Lowest

\* A vacant slot.
LEMMA VacantSlotFacts ==
  ASSUME NEW i, VacantSlot(i) # NoSlot
  PROVE  VacantSlot(i) \in Slots /\ buckets[i][VacantSlot(i)] = Vacant
<1> DEFINE S == {s \in Slots : buckets[i][s] = Vacant}
<1>1. S \in SUBSET Slots /\ VacantSlot(i) = Lowest(S)
  BY DEF VacantSlot
<1>2. Lowest(S) \in S
  <2> HIDE DEF S
  <2> QED
    BY <1>1, LowestSlot
<1> QED
  BY <1>1, <1>2

\* The search for a key in one bucket.
LEMMA SlotOfKeyFacts ==
  ASSUME NEW hp \in Nat, NEW bs \in Tables(hp), NEW i \in InTable(hp), NEW k \in Keys
  PROVE  LET s == SlotOfKey(bs, i, k)
         IN  /\ s # NoSlot => s \in Slots /\ bs[i][s] \in AnyItem /\ bs[i][s] # Vacant
                              /\ bs[i][s].key = k
             /\ s = NoSlot => \A r \in Slots : bs[i][r] # Vacant => bs[i][r].key # k
<1> DEFINE S == {s \in Slots : /\ bs[i][s] # Vacant
                               /\ IsSimple \/ bs[i][s].partial = partial_key(Hash[k])
                               /\ bs[i][s].key = k}
           s == SlotOfKey(bs, i, k)
<1>1. S \in SUBSET Slots /\ s = Lowest(S)
  BY DEF SlotOfKey
<1>2. (S = {} /\ s = NoSlot) \/ (S # {} /\ s \in S /\ s # NoSlot)
  <2> HIDE DEF S
  <2> QED
    BY <1>1, LowestSlot
<1>3. \A r \in Slots : bs[i][r] \in AnyItem \union {Vacant}
  BY DEF Tables
<1>4. \A r \in Slots : bs[i][r] # Vacant /\ bs[i][r].key = k =>
                       bs[i][r].partial = partial_key(Hash[k])
  BY <1>3, ItemFacts
<1>5. CASE s # NoSlot
  <2>1. s \in S
    BY <1>2, <1>5
  <2> HIDE DEF s
  <2> QED
    BY <1>3, <1>5, <2>1 DEF s
<1>6. CASE s = NoSlot
  <2>1. S = {}
    BY <1>2, <1>6
  <2>2. \A r \in Slots : bs[i][r] # Vacant => bs[i][r].key # k
    BY <1>4, <2>1
  <2> QED
    BY <1>6, <2>2
<1> QED
  BY <1>5, <1>6

\* The search for a key in both of its buckets.
LEMMA LocateFacts ==
  ASSUME NEW hp \in Nat, NEW bs \in Tables(hp), NEW k \in Keys,
         NEW b, b[1] \in InTable(hp), b[2] \in InTable(hp)
  PROVE  LET p == Locate(bs, b, k)
         IN  /\ p = <<p[1], p[2]>> /\ p[1] \in {b[1], b[2]} /\ p[1] \in InTable(hp)
             /\ p[2] # NoSlot =>
                  /\ p[2] \in Slots /\ bs[p[1]][p[2]] \in AnyItem
                  /\ bs[p[1]][p[2]] # Vacant /\ bs[p[1]][p[2]].key = k
             /\ p[2] = NoSlot =>
                  \A j \in {b[1], b[2]}, r \in Slots : bs[j][r] # Vacant => bs[j][r].key # k
<1> DEFINE i1 == b[1]
           i2 == b[2]
           s1 == SlotOfKey(bs, i1, k)
           s2 == SlotOfKey(bs, i2, k)
           p == Locate(bs, b, k)
<1>1. i1 \in InTable(hp) /\ i2 \in InTable(hp)
  OBVIOUS
<1>2. p = IF s1 # NoSlot THEN <<i1, s1>> ELSE <<i2, s2>>
  BY DEF Locate
<1> HIDE DEF i1, i2
<1>3. /\ s1 # NoSlot => s1 \in Slots /\ bs[i1][s1] \in AnyItem /\ bs[i1][s1] # Vacant
                        /\ bs[i1][s1].key = k
      /\ s1 = NoSlot => \A r \in Slots : bs[i1][r] # Vacant => bs[i1][r].key # k
  BY <1>1, SlotOfKeyFacts
<1>4. /\ s2 # NoSlot => s2 \in Slots /\ bs[i2][s2] \in AnyItem /\ bs[i2][s2] # Vacant
                        /\ bs[i2][s2].key = k
      /\ s2 = NoSlot => \A r \in Slots : bs[i2][r] # Vacant => bs[i2][r].key # k
  BY <1>1, SlotOfKeyFacts
<1> HIDE DEF s1, s2, p
<1>5. CASE s1 # NoSlot
  <2>1. p = <<i1, s1>> /\ p[1] = i1 /\ p[2] = s1
    BY <1>2, <1>5
  <2> QED
    BY <1>1, <1>3, <1>5, <2>1 DEF p, i1, i2
<1>6. CASE s1 = NoSlot
  <2>1. p = <<i2, s2>> /\ p[1] = i2 /\ p[2] = s2
    BY <1>2, <1>6
  <2> QED
    BY <1>1, <1>3, <1>4, <1>6, <2>1 DEF p, i1, i2
<1> QED
  BY <1>5, <1>6

-----------------------------------------------------------------------------
(***************************************************************************)
(* The locks of the two halves of a table that doubles.                    *)
(***************************************************************************)

\* A power of two is a multiple of every smaller one.
LEMMA PowerDivides ==
  ASSUME NEW n \in Nat
  PROVE  \A d \in Nat : \E m \in Nat : m > 0 /\ 2 ^ (n + d) = 2 ^ n * m
<1> DEFINE S == {d \in Nat : \E m \in Nat : m > 0 /\ 2 ^ (n + d) = 2 ^ n * m}
<1>1. 2 ^ n \in Nat
  BY PowerDoubles
<1>2. 0 \in S
  <2>1. 2 ^ (n + 0) = 2 ^ n * 1
    <3>1. n + 0 = n
      OBVIOUS
    <3> QED
      BY <1>1, <3>1
  <2> QED
    BY <2>1
<1>3. ASSUME NEW d \in Nat, d \in S PROVE d + 1 \in S
  <2>1. PICK m \in Nat : m > 0 /\ 2 ^ (n + d) = 2 ^ n * m
    BY <1>3
  <2> DEFINE e == n + d
             p == 2 ^ n
  <2>2. e \in Nat /\ n + (d + 1) = e + 1
    OBVIOUS
  <2>3. 2 ^ (e + 1) = 2 * 2 ^ e /\ 2 ^ e \in Nat
    <3> HIDE DEF e
    <3> QED
      BY <2>2, PowerDoubles
  <2>4. 2 ^ (n + (d + 1)) = 2 * (p * m)
    BY <2>1, <2>2, <2>3
  <2>5. 2 * (p * m) = p * (2 * m)
    <3>1. p \in Nat
      BY <1>1
    <3> HIDE DEF p
    <3> QED
      BY <3>1, <2>1
  <2> DEFINE w == 2 * m
  <2>6. w \in Nat /\ w > 0
    BY <2>1
  <2>7. 2 ^ (n + (d + 1)) = 2 ^ n * w
    BY <2>4, <2>5
  <2> HIDE DEF w
  <2>8. d + 1 \in Nat /\ \E x \in Nat : x > 0 /\ 2 ^ (n + (d + 1)) = 2 ^ n * x
    BY <2>6, <2>7
  <2> QED
    BY <2>8, Zenon
<1> HIDE DEF S
<1>4. \A d \in Nat : d \in S
  BY <1>2, <1>3, SetInduction
<1> QED
  BY <1>4 DEF S

\* The buckets i and i + hashsize(hp) have the same lock, or the second one has a
\* lock that a table of hashpower hp does not use.
LEMMA HalvesLocks ==
  ASSUME NEW hp \in Nat, NEW i \in InTable(hp)
  PROVE  LET m == lock_ind(i + hashsize(hp))
         IN  /\ m \in Locks /\ lock_ind(i) \in Locks /\ lock_ind(i) < hashsize(hp)
             /\ m = lock_ind(i) \/ m >= hashsize(hp)
<1> DEFINE k == kNumLocks
           hs == hashsize(hp)
<1>1. k \in Nat /\ k > 0 /\ hs \in Nat /\ hs > 0 /\ i \in Nat /\ i < hs
  BY kNumLocksAssumption, TableSize DEF InTable
<1>2. PICK n \in Nat : k = 2 ^ n
  BY LocksPowerAssumption, kNumLocksAssumption
<1>3. i % k \in 0 .. k - 1 /\ i % k <= i /\ (i + hs) % k \in 0 .. k - 1
  <2> HIDE DEF k, hs
  <2> QED
    BY <1>1
<1>4. (i + hs) % k = i % k \/ (i + hs) % k >= hs
  <2>1. CASE hp >= n
    <3> DEFINE d == hp - n
    <3>1. d \in Nat /\ n + d = hp
      BY <2>1
    <3> HIDE DEF d
    <3>2. PICK m \in Nat : m > 0 /\ hs = k * m
      <4>1. PICK m \in Nat : m > 0 /\ 2 ^ (n + d) = 2 ^ n * m
        BY <3>1, PowerDivides
      <4> QED
        BY <1>2, <3>1, <4>1 DEF hashsize
    <3> DEFINE q == i \div k
               r == i % k
    <3>3. q \in Nat /\ r \in Nat /\ r < k /\ i = k * q + r
      <4> HIDE DEF k
      <4> QED
        BY <1>1
    <3> HIDE DEF k, hs, q, r
    <3>4. i + hs = k * (q + m) + r /\ q + m \in Nat
      BY <1>1, <3>2, <3>3
    <3> DEFINE p == q + m
               a == i + hs
    <3>5. a % k = r
      <4>1. a = k * p + r /\ p \in Nat /\ a \in Nat
        BY <1>1, <3>4
      <4> HIDE DEF p, a
      <4> QED
        BY <1>1, <3>3, <4>1
    <3> QED
      BY <3>5 DEF r
  <2>2. CASE ~ (hp >= n)
    <3> DEFINE d == n - (hp + 1)
               h1 == hp + 1
    <3>1. d \in Nat /\ h1 \in Nat /\ h1 + d = n
      BY <2>2
    <3>2. hashsize(h1) = 2 * hs
      BY TableSize
    <3> HIDE DEF d, h1
    <3>3. PICK m \in Nat : m > 0 /\ 2 ^ (h1 + d) = 2 ^ h1 * m
      BY <3>1, PowerDivides
    <3>4. k = (2 * hs) * m
      BY <1>2, <3>1, <3>2, <3>3 DEF hashsize
    <3> HIDE DEF k, hs
    <3>5. 2 * hs <= k
      BY <1>1, <3>3, <3>4
    <3>6. i + hs < k /\ i + hs \in Nat
      BY <1>1, <3>5
    <3>7. (i + hs) % k = i + hs
      BY <1>1, <3>6
    <3> QED
      BY <1>1, <3>7
  <2> QED
    BY <2>1, <2>2
<1> HIDE DEF k, hs
<1>5. i % k < hs
  BY <1>1, <1>3
<1> QED
  BY <1>3, <1>4, <1>5 DEF lock_ind, Locks, k, hs

\* The locks of a bucket that is yet to be moved, and of the bucket its items may go
\* to, belong to the thread that doubles the table.
LEMMA TodoOwned ==
  ASSUME ControlInv, NEW u \in Threads, NEW i, InTodo(u, i)
  PROVE  /\ th[u].pc = "drain" /\ th[u].hp \in Nat /\ hashpower = th[u].hp + 1
         /\ i \in InTable(th[u].hp) /\ expansion_lock = u
         /\ writer[lock_ind(i)] = u
         /\ writer[lock_ind(i + hashsize(th[u].hp))] = u
<1> DEFINE hp == th[u].hp
           m == lock_ind(i + hashsize(hp))
<1>1. th[u].pc = "drain" /\ i \in InTable(hp) /\ lock_ind(i) \in th[u].todo
  BY DEF InTodo, At
<1>2. RequestOK(u) /\ ExpansionOK(u) /\ th[u] \in Locals
  BY ThreadFacts
<1>3. hp \in Nat
  BY <1>2 DEF Locals
<1>4. hashpower = hp + 1 /\ expansion_lock = u
  BY <1>1, <1>2 DEF ExpansionOK
<1>5. \A n \in Locks : n \in th[u].todo \/ n >= hashsize(hp) => writer[n] = u
  BY <1>1, <1>2 DEF RequestOK
<1>6. m \in Locks /\ lock_ind(i) \in Locks /\ (m = lock_ind(i) \/ m >= hashsize(hp))
  <2> HIDE DEF hp
  <2> QED
    BY <1>1, <1>3, HalvesLocks
<1> HIDE DEF m
<1>7. writer[lock_ind(i)] = u /\ writer[m] = u
  BY <1>1, <1>5, <1>6
<1> QED
  BY <1>1, <1>3, <1>4, <1>7 DEF m

\* A lock that one thread holds is not held exclusively by another one.
LEMMA HeldApart ==
  ASSUME LocksInv, NEW t \in Threads, NEW u \in Threads, t # u, NEW l \in Held(t)
  PROVE  writer[l] # u
BY NoThreadAssumption DEF LocksInv, LocksTypeOK, Exclusion, Held

\* An item in a bucket whose lock thread t has is where the current hashpower puts it,
\* if t has nothing left to move itself.
LEMMA PlacedHere ==
  ASSUME MapInv, NEW t \in Threads, \A i : ~ InTodo(t, i),
         NEW i \in InTable(hashpower), NEW s \in Slots, buckets[i][s] # Vacant,
         lock_ind(i) \in Held(t)
  PROVE  i \in Both(hashpower, buckets[i][s].key)
<1>1. SUFFICES ASSUME NEW u \in Threads, InTodo(u, i) PROVE FALSE
  BY DEF MapInv, DataInv, PlacedInv, TableOK, Tables
<1>2. u # t /\ writer[lock_ind(i)] = u
  BY <1>1, TodoOwned DEF MapInv
<1>3. LocksInv
  BY DEF MapInv, ControlInv
<1> DEFINE l == lock_ind(i)
<1> HIDE DEF l
<1>4. l \in Held(t) /\ writer[l] = u
  BY <1>2 DEF l
<1> QED
  BY <1>2, <1>3, <1>4, HeldApart

\* A key whose two buckets thread t has locked is in one of them, or nowhere.
LEMMA KeyIsHere ==
  ASSUME MapInv, NEW t \in Threads, \A i : ~ InTodo(t, i),
         NEW k \in Keys, \A j \in Both(hashpower, k) : lock_ind(j) \in Held(t),
         NEW i \in InTable(hashpower), NEW s \in Slots, buckets[i][s] # Vacant,
         buckets[i][s].key = k
  PROVE  i \in Both(hashpower, k)
<1>1. SUFFICES ASSUME NEW u \in Threads, InTodo(u, i), i \in Both(th[u].hp, k) PROVE FALSE
  BY DEF MapInv, DataInv, PlacedInv, TableOK, Tables
<1> DEFINE hp == th[u].hp
           hash == Hash[k]
<1>2. /\ u # t /\ writer[lock_ind(i)] = u /\ writer[lock_ind(i + hashsize(hp))] = u
      /\ hp \in Nat /\ hashpower = hp + 1
  BY <1>1, TodoOwned DEF MapInv
<1>3. hash \in Nat
  BY HashAssumption
<1>4. PICK n \in {1, 2} : i = TwoBuckets(hp, hash)[n]
  BY <1>1 DEF Both
<1> DEFINE j == TwoBuckets(hp + 1, hash)[n]
<1>5. j \in {i, i + hashsize(hp)}
  <2> HIDE DEF hp, hash
  <2> QED
    BY <1>2, <1>3, <1>4, BucketsAfterDoubling
<1>6. j \in Both(hashpower, k)
  BY <1>2 DEF Both
<1>7. lock_ind(j) \in Held(t) /\ writer[lock_ind(j)] = u /\ LocksInv
  BY <1>2, <1>5, <1>6 DEF MapInv, ControlInv
<1> DEFINE l == lock_ind(j)
<1> HIDE DEF l
<1>8. l \in Held(t) /\ writer[l] = u
  BY <1>7 DEF l
<1> QED
  BY <1>2, <1>7, <1>8, HeldApart

-----------------------------------------------------------------------------
(***************************************************************************)
(* MapInv: the steps that change slots under bucket locks.                 *)
(***************************************************************************)

\* The table new is made from the present one by changing only slots whose locks thread t
\* has, putting items where they belong, and it has no key twice.
Edits(t, new) ==
  /\ new \in Tables(hashpower) /\ UniqueInv(new)
  /\ \A i \in InTable(hashpower), s \in Slots : new[i][s] # buckets[i][s] =>
       /\ lock_ind(i) \in Held(t)
       /\ new[i][s] # Vacant => i \in Both(hashpower, new[i][s].key)

\* The invariants of the table, for a step of thread t that edits it and leaves the
\* hashpower as it is.
LEMMA EditTable ==
  ASSUME MapInv, NEW t \in Threads, NEW l, th' = [th EXCEPT ![t] = l], l.pc # "drain",
         \A i : ~ InTodo(t, i), hashpower' = hashpower,
         NEW new, new = buckets', Edits(t, new), elems' \in [Locks -> 0 .. SizeMod - 1]
  PROVE  TableOK' /\ DataInv'
<1>0. /\ buckets' \in Tables(hashpower) /\ UniqueInv(buckets')
      /\ \A i \in InTable(hashpower), s \in Slots : buckets'[i][s] # buckets[i][s] =>
           /\ lock_ind(i) \in Held(t)
           /\ buckets'[i][s] # Vacant => i \in Both(hashpower, buckets'[i][s].key)
  BY DEF Edits
<1>1. /\ ControlInv /\ LocksInv /\ buckets \in Tables(hashpower)
      /\ PlacedInv /\ UpperVacant /\ th \in [Threads -> Locals] /\ hashpower \in Nat
  BY HashPowersAssumption DEF MapInv, DataInv, TableOK, ControlInv, LocksInv, LocksTypeOK
<1>2. DOMAIN buckets = InTable(hashpower) /\ DOMAIN buckets' = InTable(hashpower)
  BY <1>0, <1>1 DEF Tables
<1>3. TableOK'
  BY <1>0 DEF TableOK
<1>4. ASSUME NEW u \in Threads, NEW i
      PROVE  InTodo(u, i)' <=> InTodo(u, i)
  <2>1. CASE u = t
    <3>1. th'[t].pc # "drain"
      BY <1>1
    <3> QED
      BY <2>1, <3>1 DEF InTodo, At
  <2>2. CASE u # t
    <3>1. th'[u] = th[u]
      BY <1>1, <2>2
    <3> QED
      BY <3>1 DEF InTodo, At
  <2> QED
    BY <2>1, <2>2
<1>5. ASSUME NEW u \in Threads, NEW i, InTodo(u, i)
      PROVE  u # t /\ th'[u] = th[u]
  BY <1>1, <1>5
<1>6. PlacedInv'
  <2> SUFFICES ASSUME NEW i \in InTable(hashpower), NEW s \in Slots,
                      buckets'[i][s] # Vacant
               PROVE  \/ i \in Both(hashpower, buckets'[i][s].key)
                      \/ \E u \in Threads :
                           InTodo(u, i)' /\ i \in Both(th'[u].hp, buckets'[i][s].key)
    BY <1>2 DEF PlacedInv
  <2>1. CASE buckets'[i][s] # buckets[i][s]
    BY <1>0, <2>1
  <2>2. CASE buckets'[i][s] = buckets[i][s]
    <3>1. \/ i \in Both(hashpower, buckets[i][s].key)
          \/ \E u \in Threads : InTodo(u, i) /\ i \in Both(th[u].hp, buckets[i][s].key)
      BY <1>1, <1>2, <2>2 DEF PlacedInv
    <3>2. ASSUME NEW u \in Threads, InTodo(u, i), i \in Both(th[u].hp, buckets[i][s].key)
          PROVE  InTodo(u, i)' /\ i \in Both(th'[u].hp, buckets'[i][s].key)
      <4>1. InTodo(u, i)' /\ th'[u] = th[u]
        BY <1>4, <1>5, <3>2
      <4> QED
        BY <2>2, <3>2, <4>1
    <3> QED
      BY <2>2, <3>1, <3>2
  <2> QED
    BY <2>1, <2>2
<1>7. UpperVacant'
  <2> SUFFICES ASSUME NEW u \in Threads, NEW i \in InTable(hashpower), InTodo(u, i)',
                      NEW s \in Slots
               PROVE  buckets'[i + hashsize(th'[u].hp)][s] = Vacant
    BY <1>2 DEF UpperVacant
  <2>1. InTodo(u, i) /\ u # t /\ th'[u] = th[u]
    BY <1>4, <1>5
  <2> DEFINE hp == th[u].hp
             j == i + hashsize(hp)
             m == lock_ind(j)
  <2>2. /\ hp \in Nat /\ hashpower = hp + 1 /\ i \in InTable(hp) /\ writer[m] = u
    BY <1>1, <2>1, TodoOwned
  <2>3. j \in InTable(hashpower)
    <3> HIDE DEF hp
    <3>1. hashsize(hp) \in Nat /\ hashsize(hp + 1) = 2 * hashsize(hp)
      BY <2>2, TableSize
    <3> QED
      BY <2>2, <3>1 DEF InTable
  <2>4. buckets[j][s] = Vacant
    BY <1>1, <1>2, <2>1 DEF UpperVacant
  <2> HIDE DEF m, hp
  <2>5. m \notin Held(t)
    BY <1>1, <2>1, <2>2, HeldApart
  <2> HIDE DEF j
  <2>6. buckets'[j][s] = Vacant
    BY <1>0, <2>3, <2>4, <2>5 DEF m
  <2> QED
    BY <2>1, <2>6 DEF j, hp
<1> QED
  BY <1>0, <1>3, <1>6, <1>7 DEF DataInv

\* The table as it is.
LEMMA NoEdit == ASSUME MapInv, NEW t \in Threads PROVE Edits(t, buckets)
BY DEF Edits, MapInv, TableOK, DataInv

\* A step that leaves the table alone.
LEMMA TableRest ==
  ASSUME MapInv, NEW t \in Threads, NEW l, th' = [th EXCEPT ![t] = l], l.pc # "drain",
         \A i : ~ InTodo(t, i), hashpower' = hashpower, UNCHANGED table
  PROVE  TableOK' /\ DataInv'
<1>1. buckets' = buckets /\ elems' = elems
  BY DEF table
<1>2. Edits(t, buckets) /\ elems' \in [Locks -> 0 .. SizeMod - 1]
  BY <1>1, NoEdit DEF MapInv, TableOK
<1> QED
  BY <1>1, <1>2, EditTable

\* A thread that is not in move_buckets has nothing to move.
LEMMA NotDraining ==
  ASSUME NEW t \in Threads, th[t].pc # "drain"
  PROVE  \A i : ~ InTodo(t, i)
BY DEF InTodo, At

\* The counters stay in their range.
LEMMA CountersType ==
  ASSUME TableOK, NEW m \in Locks
  PROVE  /\ elems[m] \in Int /\ elems \in [Locks -> 0 .. SizeMod - 1]
         /\ \A d \in Int : [elems EXCEPT ![m] = (elems[m] + d) % SizeMod]
                             \in [Locks -> 0 .. SizeMod - 1]
<1>1. elems \in [Locks -> 0 .. SizeMod - 1] /\ elems[m] \in Int
  BY SizeAssumption DEF TableOK
<1>2. ASSUME NEW d \in Int
      PROVE  (elems[m] + d) % SizeMod \in 0 .. SizeMod - 1
  <2> DEFINE a == elems[m] + d
  <2>1. a \in Int
    BY <1>1
  <2> HIDE DEF a
  <2>2. a % SizeMod \in 0 .. SizeMod - 1
    BY <2>1, SizeAssumption
  <2> QED
    BY <2>2 DEF a
<1> QED
  BY <1>1, <1>2

\* What a thread that has the locks of its two buckets may rely on.
LEMMA LockedBuckets ==
  ASSUME MapInv, NEW t \in Threads, HasBuckets(t), call[t].op \in KeyOps
  PROVE  /\ call[t].key \in Keys /\ call[t].val \in Vals /\ hashpower \in Nat
         /\ Both(hashpower, call[t].key) = {th[t].b[1], th[t].b[2]}
         /\ th[t].b[1] \in InTable(hashpower) /\ th[t].b[2] \in InTable(hashpower)
         /\ \A j \in {th[t].b[1], th[t].b[2]} : lock_ind(j) \in Held(t)
         /\ \A i : ~ InTodo(t, i)
         /\ buckets \in Tables(hashpower) /\ UniqueInv(buckets)
<1>1. ControlInv /\ buckets \in Tables(hashpower) /\ hashpower \in Nat /\ UniqueInv(buckets)
  BY HashPowersAssumption DEF MapInv, TableOK, DataInv, ControlInv, LocksInv, LocksTypeOK
<1>2. /\ th[t].pc = "op" /\ call[t].key \in Keys /\ call[t].val \in Vals
      /\ th[t].b = TwoBuckets(hashpower, Hash[call[t].key])
      /\ lock_ind(th[t].b[1]) \in Held(t) /\ lock_ind(th[t].b[2]) \in Held(t)
  BY <1>1, HasBucketsFacts
<1> DEFINE k == call[t].key
           b == th[t].b
<1>3. b[1] \in InTable(hashpower) /\ b[2] \in InTable(hashpower)
  <2>1. k \in Keys /\ b = TwoBuckets(hashpower, Hash[k])
    BY <1>2
  <2> HIDE DEF k, b
  <2> QED
    BY <1>1, <2>1, BucketsType
<1>4. Both(hashpower, k) = {b[1], b[2]}
  BY <1>2 DEF Both
<1>5. \A i : ~ InTodo(t, i)
  BY <1>2, NotDraining
<1> QED
  BY <1>1, <1>2, <1>3, <1>4, <1>5

\* One more slot is changed.
LEMMA SlotEdit ==
  ASSUME NEW t \in Threads, hashpower \in Nat, NEW bs, Edits(t, bs),
         NEW i \in InTable(hashpower), NEW s \in Slots, lock_ind(i) \in Held(t),
         NEW v \in AnyItem \union {Vacant},
         v # Vacant =>
           /\ i \in Both(hashpower, v.key)
           /\ \A j \in InTable(hashpower), r \in Slots :
                (j # i \/ r # s) /\ bs[j][r] # Vacant => bs[j][r].key # v.key,
         NEW new, new = SetSlot(bs, i, s, v)
  PROVE  Edits(t, new)
<1>1. bs \in Tables(hashpower) /\ UniqueInv(bs) /\ DOMAIN bs = InTable(hashpower)
  BY DEF Edits, Tables
<1>2. /\ new \in Tables(hashpower) /\ DOMAIN new = InTable(hashpower)
      /\ new[i][s] = v
      /\ \A j \in InTable(hashpower), r \in Slots :
           (j # i \/ r # s) => new[j][r] = bs[j][r]
  BY <1>1, SlotChanged
<1>3. UniqueInv(new)
  <2> SUFFICES ASSUME NEW j1 \in InTable(hashpower), NEW j2 \in InTable(hashpower),
                      NEW r1 \in Slots, NEW r2 \in Slots, new[j1][r1] # Vacant,
                      new[j2][r2] # Vacant, new[j1][r1].key = new[j2][r2].key
               PROVE  j1 = j2 /\ r1 = r2
    BY <1>2 DEF UniqueInv
  <2>1. CASE j1 = i /\ r1 = s
    BY <1>2, <2>1
  <2>2. CASE j2 = i /\ r2 = s
    BY <1>2, <2>2
  <2>3. CASE (j1 # i \/ r1 # s) /\ (j2 # i \/ r2 # s)
    BY <1>1, <1>2, <2>3 DEF UniqueInv
  <2> QED
    BY <2>1, <2>2, <2>3
<1>4. ASSUME NEW j \in InTable(hashpower), NEW r \in Slots, new[j][r] # buckets[j][r]
      PROVE  /\ lock_ind(j) \in Held(t)
             /\ new[j][r] # Vacant => j \in Both(hashpower, new[j][r].key)
  <2>1. CASE j = i /\ r = s
    BY <1>2, <2>1
  <2>2. CASE j # i \/ r # s
    BY <1>2, <1>4, <2>2 DEF Edits
  <2> QED
    BY <2>1, <2>2
<1> QED
  BY <1>2, <1>3, <1>4 DEF Edits

\* A key whose two buckets thread t has locked is still in one of them, or nowhere, after
\* t has edited the table.
LEMMA KeyIsStillHere ==
  ASSUME MapInv, NEW t \in Threads, \A j : ~ InTodo(t, j), NEW bs, Edits(t, bs),
         NEW k \in Keys, \A j \in Both(hashpower, k) : lock_ind(j) \in Held(t),
         NEW i \in InTable(hashpower), NEW s \in Slots, bs[i][s] # Vacant, bs[i][s].key = k
  PROVE  i \in Both(hashpower, k)
<1>1. CASE bs[i][s] # buckets[i][s]
  BY <1>1 DEF Edits
<1>2. CASE bs[i][s] = buckets[i][s]
  BY <1>2, KeyIsHere
<1> QED
  BY <1>1, <1>2

\* An item is added for a key that is not there.
LEMMA AddEdit ==
  ASSUME MapInv, NEW t \in Threads, \A j : ~ InTodo(t, j), NEW bs, Edits(t, bs),
         NEW k \in Keys, NEW v \in Vals, NEW b, Both(hashpower, k) = {b[1], b[2]},
         b[1] \in InTable(hashpower), b[2] \in InTable(hashpower), hashpower \in Nat,
         \A j \in {b[1], b[2]} : lock_ind(j) \in Held(t),
         Locate(bs, b, k)[2] = NoSlot, NEW i \in {b[1], b[2]}, NEW s \in Slots,
         NEW new, new = SetSlot(bs, i, s, Item(k, v))
  PROVE  Edits(t, new)
<1> DEFINE w == Item(k, v)
<1>1. bs \in Tables(hashpower) /\ i \in InTable(hashpower) /\ lock_ind(i) \in Held(t)
  BY DEF Edits
<1>2. \A j \in {b[1], b[2]}, r \in Slots : bs[j][r] # Vacant => bs[j][r].key # k
  BY <1>1, LocateFacts
<1>3. \A j \in InTable(hashpower), r \in Slots : bs[j][r] # Vacant => bs[j][r].key # k
  <2> SUFFICES ASSUME NEW j \in InTable(hashpower), NEW r \in Slots, bs[j][r] # Vacant,
                      bs[j][r].key = k
               PROVE  FALSE
    OBVIOUS
  <2>1. j \in Both(hashpower, k)
    BY KeyIsStillHere
  <2> QED
    BY <1>2, <2>1
<1>4. w \in AnyItem \union {Vacant} /\ w.key = k
  BY DEF AnyItem, Item
<1>5. i \in Both(hashpower, w.key)
  BY <1>4
<1> HIDE DEF w
<1>6. new = SetSlot(bs, i, s, w)
  BY DEF w
<1> QED
  BY <1>1, <1>3, <1>4, <1>5, <1>6, SlotEdit

\* erase and update: the slot that is found, and what may be put there.
LEMMA FoundSlot ==
  ASSUME MapInv, NEW t \in Threads, HasBuckets(t), call[t].op \in KeyOps, Found(t)
  PROVE  LET p == Place(t)
         IN  /\ p[1] \in {th[t].b[1], th[t].b[2]} /\ p[1] \in InTable(hashpower)
             /\ p[2] \in Slots /\ buckets[p[1]][p[2]] \in AnyItem
             /\ buckets[p[1]][p[2]] # Vacant /\ buckets[p[1]][p[2]].key = call[t].key
             /\ \A v \in AnyItem \union {Vacant} :
                  v = Vacant \/ v.key = call[t].key =>
                    Edits(t, SetSlot(buckets, p[1], p[2], v))
<1> DEFINE k == call[t].key
           b == th[t].b
           p == Place(t)
           i == p[1]
           s == p[2]
<1>1. /\ k \in Keys /\ hashpower \in Nat /\ Both(hashpower, k) = {b[1], b[2]}
      /\ b[1] \in InTable(hashpower) /\ b[2] \in InTable(hashpower)
      /\ \A j \in {b[1], b[2]} : lock_ind(j) \in Held(t)
      /\ buckets \in Tables(hashpower) /\ UniqueInv(buckets)
  BY LockedBuckets
<1>2. p = Locate(buckets, b, k) /\ s # NoSlot
  BY DEF Place, Found, FoundIn, Key
<1>3. /\ i \in {b[1], b[2]} /\ i \in InTable(hashpower) /\ s \in Slots
      /\ buckets[i][s] \in AnyItem /\ buckets[i][s] # Vacant /\ buckets[i][s].key = k
  <2> HIDE DEF k, b, p
  <2> QED
    BY <1>1, <1>2, LocateFacts
<1> HIDE DEF i, s, k, b
<1>4. ASSUME NEW v \in AnyItem \union {Vacant}, v = Vacant \/ v.key = k
      PROVE  Edits(t, SetSlot(buckets, i, s, v))
  <2>1. DOMAIN buckets = InTable(hashpower)
    BY <1>1 DEF Tables
  <2>2. v # Vacant =>
           /\ i \in Both(hashpower, v.key)
           /\ \A j \in InTable(hashpower), r \in Slots :
                (j # i \/ r # s) /\ buckets[j][r] # Vacant => buckets[j][r].key # v.key
    BY <1>1, <1>3, <1>4, <2>1 DEF UniqueInv
  <2>3. Edits(t, buckets) /\ lock_ind(i) \in Held(t)
    BY <1>1, <1>3, NoEdit
  <2> DEFINE new == SetSlot(buckets, i, s, v)
  <2> HIDE DEF new
  <2>4. new = SetSlot(buckets, i, s, v)
    BY DEF new
  <2>5. Edits(t, new)
    BY <1>1, <1>3, <2>2, <2>3, <2>4, SlotEdit
  <2> QED
    BY <2>5 DEF new
<1> QED
  BY <1>3, <1>4 DEF i, s, k, b

-----------------------------------------------------------------------------
(***************************************************************************)
(* DataInv: the operations.                                                *)
(***************************************************************************)

\* Giving locks back leaves the hashpower as it is.
LEMMA UnlockKeepsHashpower ==
  ASSUME NEW t \in Threads, UnlockAll(t) PROVE hashpower' = hashpower
BY DEF UnlockAll, Unlock

\* A call that has edited the table returns.
LEMMA EditAndReturn ==
  ASSUME MapInv, NEW t \in Threads, th[t].pc # "drain", NEW r, Return(t, r),
         hashpower' = hashpower, NEW new, new = buckets', Edits(t, new),
         elems' \in [Locks -> 0 .. SizeMod - 1]
  PROVE  TableOK' /\ DataInv'
<1> DEFINE l == Local("idle")
<1>1. th' = [th EXCEPT ![t] = l] /\ l.pc # "drain"
  BY LocalFields DEF Return, Goto
<1>2. \A i : ~ InTodo(t, i)
  BY NotDraining
<1> HIDE DEF l
<1> QED
  BY <1>1, <1>2, EditTable

\* A call starts over after it has edited the table.
LEMMA EditAndRestart ==
  ASSUME MapInv, NEW t \in Threads, \A i : ~ InTodo(t, i), NEW nested, Restart(t, nested),
         hashpower' = hashpower, NEW new, new = buckets', Edits(t, new),
         elems' \in [Locks -> 0 .. SizeMod - 1]
  PROVE  TableOK' /\ DataInv'
<1> DEFINE l == [Local("snapshot") EXCEPT !.nested = nested]
<1>1. th' = [th EXCEPT ![t] = l]
  BY DEF Restart, Goto
<1>2. l.pc # "drain"
  BY DEF Local
<1> HIDE DEF l
<1> QED
  BY <1>1, <1>2, EditTable

\* A call returns and has left the table alone.
LEMMA RestReturns ==
  ASSUME MapInv, NEW t \in Threads, th[t].pc # "drain", NEW r, Return(t, r),
         hashpower' = hashpower, UNCHANGED table
  PROVE  TableOK' /\ DataInv'
<1>1. buckets = buckets' /\ elems' \in [Locks -> 0 .. SizeMod - 1]
  BY DEF table, MapInv, TableOK
<1> QED
  BY <1>1, NoEdit, EditAndReturn

\* A call starts over and has left the table alone.
LEMMA RestRestarts ==
  ASSUME MapInv, NEW t \in Threads, \A i : ~ InTodo(t, i), NEW nested, Restart(t, nested),
         hashpower' = hashpower, UNCHANGED table
  PROVE  TableOK' /\ DataInv'
<1>1. buckets = buckets' /\ elems' \in [Locks -> 0 .. SizeMod - 1]
  BY DEF table, MapInv, TableOK
<1> QED
  BY <1>1, NoEdit, EditAndRestart

\* erase.
LEMMA EraseData ==
  ASSUME MapInv, NEW t \in Threads, Erase(t)
  PROVE  TableOK' /\ DataInv'
<1>1. HasBuckets(t) /\ call[t].op \in KeyOps /\ hashpower' = hashpower
  BY UnlockKeepsHashpower DEF Erase, Op, KeyOps
<1>2. th[t].pc # "drain" /\ TableOK
  BY <1>1 DEF HasBuckets, At, MapInv
<1>3. \E r : Return(t, r)
  BY DEF Erase
<1>4. PICK r : Return(t, r)
  BY <1>3
<1>5. CASE Found(t)
  <2> DEFINE p == Place(t)
             m == lock_ind(p[1])
             new == SetSlot(buckets, p[1], p[2], Vacant)
  <2>1. buckets' = new /\ elems' = [elems EXCEPT ![m] = (elems[m] - 1) % SizeMod]
    BY <1>5 DEF Erase, SetSlot
  <2>2. p[1] \in InTable(hashpower) /\ Edits(t, new)
    BY <1>1, <1>5, FoundSlot
  <2>3. m \in Locks
    BY <1>1, <2>2, LockIndType, LockedBuckets, TableSize
  <2> HIDE DEF m, new
  <2>4. elems' \in [Locks -> 0 .. SizeMod - 1]
    <3>1. elems[m] - 1 = elems[m] + (-1)
      BY <1>2, <2>3, CountersType
    <3> QED
      BY <1>2, <2>1, <2>3, <3>1, CountersType
  <2> QED
    BY <1>1, <1>2, <1>4, <2>1, <2>2, <2>4, EditAndReturn
<1>6. CASE ~ Found(t)
  <2>1. UNCHANGED table
    BY <1>6 DEF Erase
  <2> QED
    BY <1>1, <1>2, <1>4, <2>1, RestReturns
<1> QED
  BY <1>5, <1>6

\* update, update_fn and the first try of upsert.
LEMMA UpdateData ==
  ASSUME MapInv, NEW t \in Threads, Update(t)
  PROVE  TableOK' /\ DataInv'
<1>1. HasBuckets(t) /\ call[t].op \in KeyOps /\ hashpower' = hashpower
  BY UnlockKeepsHashpower DEF Update, Op, Upserts, KeyOps, InsertOps
<1>2. th[t].pc # "drain" /\ TableOK
  BY <1>1 DEF HasBuckets, At, MapInv
<1>3. \E r : Return(t, r)
  BY DEF Update
<1>4. PICK r : Return(t, r)
  BY <1>3
<1>5. elems' = elems /\ elems' \in [Locks -> 0 .. SizeMod - 1]
  BY <1>2 DEF Update, TableOK
<1>6. CASE Found(t)
  <2> DEFINE p == Place(t)
             item == buckets[p[1]][p[2]]
             val == IF Op(t) \in {"update", "assign"} THEN call[t].val ELSE Fn[item.val]
             w == [item EXCEPT !.val = val]
  <2>1. /\ p[1] \in InTable(hashpower) /\ p[2] \in Slots /\ item \in AnyItem
        /\ item.key = call[t].key /\ buckets \in Tables(hashpower) /\ call[t].val \in Vals
        /\ \A v \in AnyItem \union {Vacant} : v.key = call[t].key =>
             Edits(t, SetSlot(buckets, p[1], p[2], v))
    BY <1>1, <1>6, FoundSlot, LockedBuckets
  <2>2. buckets' = SetSlot(buckets, p[1], p[2], w)
    <3>1. buckets' = [buckets EXCEPT ![p[1]][p[2]].val =
                       IF Op(t) \in {"update", "assign"} THEN call[t].val ELSE Fn[@]]
      BY <1>6 DEF Update
    <3> QED
      BY <3>1 DEF SetSlot
  <2>3. val \in Vals
    BY <2>1, ItemFacts, ValsAssumption
  <2> HIDE DEF val, p, item
  <2>4. w \in AnyItem /\ w.key = call[t].key
    <3>1. PICK k \in Keys, v \in Vals : item = Item(k, v)
      BY <2>1 DEF AnyItem
    <3>2. w = Item(k, val)
      BY <3>1 DEF Item
    <3>3. w.key = k /\ item.key = k
      BY <3>1, <3>2 DEF Item
    <3> QED
      BY <2>1, <2>3, <3>2, <3>3 DEF AnyItem
  <2> HIDE DEF w
  <2> QED
    BY <1>1, <1>2, <1>4, <1>5, <2>1, <2>2, <2>4, EditAndReturn
<1>7. CASE ~ Found(t)
  <2>1. UNCHANGED table
    BY <1>5, <1>7 DEF Update, table
  <2> QED
    BY <1>1, <1>2, <1>4, <2>1, RestReturns
<1> QED
  BY <1>6, <1>7

\* An insertion that finds a vacant slot.
LEMMA InsertData ==
  ASSUME MapInv, NEW t \in Threads, InsertIntoBucket(t)
  PROVE  TableOK' /\ DataInv'
<1> DEFINE k == call[t].key
           v == call[t].val
           b == th[t].b
           i == IF VacantSlot(b[1]) # NoSlot THEN b[1] ELSE b[2]
           s == VacantSlot(i)
           m == lock_ind(i)
           new == SetSlot(buckets, i, s, Item(k, v))
<1>0. ControlInv /\ TableOK /\ Inserting(t)
  BY DEF MapInv, InsertIntoBucket
<1>1. HasBuckets(t) /\ call[t].op \in KeyOps /\ hashpower' = hashpower /\ th[t].pc # "drain"
  BY <1>0, InsertingFacts, UnlockKeepsHashpower DEF InsertIntoBucket
<1>2. PICK r : Return(t, r)
  BY DEF InsertIntoBucket
<1>3. /\ buckets' = new /\ elems' = [elems EXCEPT ![m] = (elems[m] + 1) % SizeMod]
      /\ s # NoSlot
  BY DEF InsertIntoBucket, AddToBucket, SetSlot, Key
<1>4. /\ k \in Keys /\ v \in Vals /\ hashpower \in Nat
      /\ Both(hashpower, k) = {b[1], b[2]}
      /\ b[1] \in InTable(hashpower) /\ b[2] \in InTable(hashpower)
      /\ \A j \in {b[1], b[2]} : lock_ind(j) \in Held(t)
      /\ \A j : ~ InTodo(t, j)
  BY <1>1, LockedBuckets
<1>5. Locate(buckets, b, k)[2] = NoSlot
  BY DEF InsertIntoBucket, Found, FoundIn, Key
<1>6. i \in {b[1], b[2]} /\ i \in InTable(hashpower)
  BY <1>4
<1>7. m \in Locks
  BY <1>4, <1>6, LockIndType, TableSize
<1> HIDE DEF k, v, b, i
<1>8. s \in Slots
  BY <1>3, VacantSlotFacts
<1> HIDE DEF s, m, new
<1>9. Edits(t, new)
  <2>1. new = SetSlot(buckets, i, s, Item(k, v))
    BY DEF new
  <2> QED
    BY <1>4, <1>5, <1>6, <1>8, <2>1, NoEdit, AddEdit
<1>10. elems' \in [Locks -> 0 .. SizeMod - 1]
  BY <1>0, <1>3, <1>7, CountersType
<1> QED
  BY <1>1, <1>2, <1>3, <1>9, <1>10, EditAndReturn

\* clear, which has every lock.
LEMMA ClearData ==
  ASSUME MapInv, NEW t \in Threads, Clear(t)
  PROVE  TableOK' /\ DataInv'
<1> DEFINE new == [i \in DOMAIN buckets |-> EmptyBucket]
<1>0. ControlInv /\ LocksInv /\ hashpower \in Nat /\ DOMAIN buckets = InTable(hashpower)
  BY HashPowersAssumption
     DEF MapInv, ControlInv, LocksInv, LocksTypeOK, TableOK, Tables
<1>1. HasBuckets(t) /\ th[t].pc = "op" /\ call[t].op = "clear" /\ hashpower' = hashpower
  BY UnlockKeepsHashpower DEF Clear, HasBuckets, At, Op
<1>2. PICK r : Return(t, r)
  BY DEF Clear
<1>3. req[t].stage = "all" /\ req[t].want = {}
  BY <1>0, <1>1, ThreadFacts DEF RequestOK, HasBuckets, LocksGranted
<1>4. Held(t) = Locks
  BY <1>0, <1>3, AllLocksOwned
<1>5. buckets' = new /\ elems' = [l \in Locks |-> 0]
  BY DEF Clear
<1>6. Edits(t, new)
  <2>1. \A i \in InTable(hashpower), s \in Slots : new[i][s] = Vacant
    BY <1>0 DEF EmptyBucket
  <2>2. new \in Tables(hashpower)
    BY <1>0 DEF EmptyBucket, Tables
  <2>3. \A i \in InTable(hashpower) : lock_ind(i) \in Held(t)
    BY <1>0, <1>4, LockIndType, TableSize
  <2>4. UniqueInv(new)
    BY <1>0, <2>1 DEF UniqueInv
  <2> QED
    BY <2>1, <2>2, <2>3, <2>4 DEF Edits
<1>7. elems' \in [Locks -> 0 .. SizeMod - 1]
  BY <1>5, SizeAssumption
<1> HIDE DEF new
<1> QED
  BY <1>1, <1>2, <1>5, <1>6, <1>7, EditAndReturn

-----------------------------------------------------------------------------
(***************************************************************************)
(* DataInv: making room.                                                   *)
(***************************************************************************)

\* The table bs with w in slot r of bucket j, and then v in slot s of bucket i.
SetSlots(bs, j, r, w, i, s, v) == [bs EXCEPT ![j][r] = w, ![i][s] = v]

\* Two different slots may be changed in either order.
LEMMA SlotsCommute ==
  ASSUME NEW hp, NEW bs \in Tables(hp), NEW i \in InTable(hp), NEW j \in InTable(hp),
         NEW s \in Slots, NEW r \in Slots, i # j \/ s # r, NEW v, NEW w
  PROVE  SetSlots(bs, j, r, w, i, s, v) = SetSlot(SetSlot(bs, i, s, v), j, r, w)
<1> DEFINE f == SetSlots(bs, j, r, w, i, s, v)
           g == SetSlot(SetSlot(bs, i, s, v), j, r, w)
           rows == [Slots -> AnyItem \union {Vacant}]
<1>1. bs \in [InTable(hp) -> rows]
  BY DEF Tables
<1>2. /\ f = [n \in InTable(hp) |-> f[n]] /\ g = [n \in InTable(hp) |-> g[n]]
  BY <1>1 DEF SetSlot, SetSlots
<1>3. CASE i = j
  <2>1. /\ f[i] = [bs[i] EXCEPT ![r] = w, ![s] = v]
        /\ g[i] = [bs[i] EXCEPT ![s] = v, ![r] = w]
    BY <1>1, <1>3 DEF SetSlot, SetSlots
  <2>2. bs[i] \in rows
    BY <1>1
  <2>3. [bs[i] EXCEPT ![r] = w, ![s] = v] = [bs[i] EXCEPT ![s] = v, ![r] = w]
    BY <1>3, <2>2
  <2>4. \A n \in InTable(hp) : n # i => f[n] = g[n]
    BY <1>1, <1>3 DEF SetSlot, SetSlots
  <2>5. \A n \in InTable(hp) : f[n] = g[n]
    BY <2>1, <2>3, <2>4
  <2> QED
    BY <1>2, <2>5
<1>4. CASE i # j
  <2>1. \A n \in InTable(hp) : f[n] = g[n]
    BY <1>1, <1>4 DEF SetSlot, SetSlots
  <2> QED
    BY <1>2, <2>1
<1> QED
  BY <1>3, <1>4

\* A move along the path takes the item to its other bucket.
LEMMA MovedEdits ==
  ASSUME MapInv, NEW t \in Threads, HasMoveLocks(t), MoveValid(t)
  PROVE  Edits(t, Moved(t)) /\ \A i : ~ InTodo(t, i)
<1> DEFINE l == th[t]
           d == l.depth
           path == l.path
<1>0. ControlInv /\ TableOK /\ buckets \in Tables(hashpower) /\ UniqueInv(buckets)
  BY DEF MapInv, TableOK, DataInv
<1>1. /\ l.pc = "moving" /\ l.hp = hashpower /\ d \in Nat /\ d < Len(path)
      /\ PathOK(hashpower, l.b, path)
      /\ \A i \in BucketsOfMove(l) : lock_ind(i) \in Held(t)
  BY <1>0, HasMoveLocksFacts
<1>2. path \in Seq(Records) /\ hashpower \in Nat
  BY <1>0, <1>1, MoveBucketsType
<1>3. \A i : ~ InTodo(t, i)
  BY <1>1, NotDraining
<1>4. CASE d = 0
  BY <1>3, <1>4, NoEdit DEF Moved
<1>5. CASE d # 0
  <2> DEFINE from == path[d]
             to == path[d + 1]
             item == buckets[from.bucket][from.slot]
             mid == SetSlot(buckets, from.bucket, from.slot, Vacant)
             new == SetSlot(mid, to.bucket, to.slot, item)
  <2>1. d \in 1 .. Len(path) - 1 /\ d \in 1 .. Len(path) /\ d + 1 \in 1 .. Len(path)
    BY <1>1, <1>2, <1>5
  <2>2. /\ from.bucket \in InTable(hashpower) /\ to.bucket \in InTable(hashpower)
        /\ to.bucket = alt_index(hashpower, partial_key(from.hash), from.bucket)
    BY <1>1, <2>1 DEF PathOK
  <2>3. from.slot \in Slots /\ to.slot \in Slots
    <3>1. from \in Records /\ to \in Records
      BY <1>2, <2>1
    <3> QED
      BY <3>1 DEF Records
  <2>4. /\ buckets[to.bucket][to.slot] = Vacant
        /\ item # Vacant /\ Hash[item.key] = from.hash
    <3>1. d > 0
      BY <1>1, <1>5
    <3> QED
      BY <3>1, Zenon DEF MoveValid
  <2>5. item \in AnyItem
    <3> HIDE DEF from
    <3> QED
      BY <1>0, <2>2, <2>3, <2>4, SlotContents
  <2>6. lock_ind(from.bucket) \in Held(t) /\ lock_ind(to.bucket) \in Held(t)
    <3>1. from.bucket \in BucketsOfMove(l) /\ to.bucket \in BucketsOfMove(l)
      <4>1. CASE d = 1
        <5>1. path # <<>>
          BY <1>1, <1>2, <4>1
        <5>2. from.bucket \in {l.b[1], l.b[2]}
          BY <1>1, <4>1, <5>1 DEF PathOK
        <5> QED
          BY <4>1, <5>2 DEF BucketsOfMove
      <4>2. CASE d # 1
        BY <1>5, <4>2 DEF BucketsOfMove
      <4> QED
        BY <4>1, <4>2
    <3> QED
      BY <1>1, <3>1
  <2>7. from.bucket \in Both(hashpower, item.key)
    <3> DEFINE i == from.bucket
               s == from.slot
    <3>1. i \in InTable(hashpower) /\ s \in Slots /\ lock_ind(i) \in Held(t)
          /\ buckets[i][s] # Vacant
      BY <2>2, <2>3, <2>4, <2>6
    <3> HIDE DEF i, s
    <3>2. i \in Both(hashpower, buckets[i][s].key)
      BY <1>3, <3>1, PlacedHere
    <3> QED
      BY <3>2 DEF i, s
  <2>8. to.bucket \in Both(hashpower, item.key)
    <3> DEFINE hash == Hash[item.key]
               i1 == TwoBuckets(hashpower, hash)[1]
               i2 == TwoBuckets(hashpower, hash)[2]
    <3>1. hash \in Nat
      BY <2>5, ItemFacts
    <3>2. from.bucket \in {i1, i2}
      BY <2>7 DEF Both
    <3>3. to.bucket = alt_index(hashpower, partial_key(hash), from.bucket)
      BY <2>2, <2>4
    <3> HIDE DEF hash
    <3>4. /\ alt_index(hashpower, partial_key(hash), i1) = i2
          /\ alt_index(hashpower, partial_key(hash), i2) = i1
      BY <1>2, <3>1, TwoBucketsType
    <3>5. to.bucket \in {i1, i2}
      BY <3>2, <3>3, <3>4
    <3> QED
      BY <3>5 DEF Both, hash
  <2> DEFINE i == from.bucket
             s == from.slot
             j == to.bucket
             r == to.slot
  <2>9. /\ i \in InTable(hashpower) /\ j \in InTable(hashpower) /\ s \in Slots /\ r \in Slots
        /\ lock_ind(i) \in Held(t) /\ lock_ind(j) \in Held(t)
        /\ item = buckets[i][s] /\ buckets[j][r] = Vacant
        /\ j \in Both(hashpower, item.key)
        /\ mid = SetSlot(buckets, i, s, Vacant) /\ new = SetSlot(mid, j, r, item)
    BY <2>2, <2>3, <2>4, <2>6, <2>8
  <2>10. Moved(t) = SetSlots(buckets, j, r, item, i, s, Vacant)
    BY <1>5 DEF Moved, SetSlots
  <2> HIDE DEF i, s, j, r, item, mid, new
  <2>11. Moved(t) = new
    <3>1. i # j \/ s # r
      BY <2>4, <2>9
    <3> QED
      BY <1>0, <2>9, <2>10, <3>1, SlotsCommute
  <2>12. Edits(t, mid)
    BY <1>2, <2>9, NoEdit, SlotEdit
  <2>13. /\ mid[i][s] = Vacant
         /\ \A n \in InTable(hashpower), q \in Slots :
              (n # i \/ q # s) => mid[n][q] = buckets[n][q]
    BY <1>0, <1>2, <2>9, SlotChanged
  <2>14. ASSUME NEW n \in InTable(hashpower), NEW q \in Slots, mid[n][q] # Vacant
         PROVE  mid[n][q].key # item.key
    <3>1. (n # i \/ q # s) /\ mid[n][q] = buckets[n][q]
      BY <2>13, <2>14
    <3>2. DOMAIN buckets = InTable(hashpower)
      BY <1>0 DEF Tables
    <3> QED
      BY <1>0, <2>4, <2>9, <2>14, <3>1, <3>2 DEF UniqueInv
  <2>15. Edits(t, new)
    BY <1>2, <2>5, <2>9, <2>12, <2>14, SlotEdit
  <2> QED
    BY <1>3, <2>11, <2>15
<1> QED
  BY <1>4, <1>5

\* A move further down the path.
LEMMA MoveOnData ==
  ASSUME MapInv, NEW t \in Threads, MoveOn(t)
  PROVE  TableOK' /\ DataInv'
<1> DEFINE l == [th[t] EXCEPT !.pc = "move", !.depth = @ - 1]
           new == Moved(t)
<1>1. /\ th' = [th EXCEPT ![t] = l] /\ hashpower' = hashpower /\ buckets' = new
      /\ elems' \in [Locks -> 0 .. SizeMod - 1]
  BY UnlockKeepsHashpower DEF MoveOn, Goto, MapInv, TableOK
<1>2. Edits(t, new) /\ \A i : ~ InTodo(t, i)
  BY MovedEdits DEF MoveOn
<1>3. l.pc # "drain"
  <2>1. th[t] \in Locals
    BY ThreadFacts DEF MapInv
  <2> QED
    BY <2>1 DEF Locals
<1> HIDE DEF l, new
<1> QED
  BY <1>1, <1>2, <1>3, EditTable

\* The last move and the insertion.
LEMMA FinishInsertData ==
  ASSUME MapInv, NEW t \in Threads, FinishInsert(t)
  PROVE  TableOK' /\ DataInv'
<1> DEFINE bs == Moved(t)
           b == th[t].b
           k == call[t].key
           v == call[t].val
<1>0. HasMoveLocks(t) /\ ControlInv /\ TableOK /\ hashpower' = hashpower
  BY UnlockKeepsHashpower DEF FinishInsert, MapInv
<1>1. Edits(t, bs) /\ \A i : ~ InTodo(t, i)
  BY MovedEdits DEF FinishInsert
<1>2. /\ th[t].pc = "moving" /\ k \in Keys /\ v \in Vals /\ th[t].hp = hashpower
      /\ b = TwoBuckets(hashpower, Hash[k])
      /\ \A i \in BucketsOfMove(th[t]) : lock_ind(i) \in Held(t)
      /\ PathOK(hashpower, b, th[t].path)
      /\ th[t].depth \in Nat /\ th[t].depth < Len(th[t].path)
  BY <1>0, HasMoveLocksFacts
<1>3. hashpower \in Nat /\ th[t].path \in Seq(Records)
  BY <1>0, <1>2, MoveBucketsType
<1>4. /\ Both(hashpower, k) = {b[1], b[2]}
      /\ b[1] \in InTable(hashpower) /\ b[2] \in InTable(hashpower)
  <2> HIDE DEF k, b
  <2> QED
    BY <1>2, <1>3, BucketsType DEF Both
<1>5. \A j \in {b[1], b[2]} : lock_ind(j) \in Held(t)
  <2>1. th[t].depth \in {0, 1}
    BY <1>2 DEF FinishInsert
  <2> QED
    BY <1>2, <2>1 DEF BucketsOfMove
<1>6. CASE FoundIn(bs, t)
  <2>1. buckets' = bs /\ elems' \in [Locks -> 0 .. SizeMod - 1] /\ Duplicated(t)
    BY <1>0, <1>6 DEF FinishInsert, TableOK
  <2> HIDE DEF bs
  <2>2. CASE Op(t) = "insert"
    <3>1. PICK r : Return(t, r)
      BY <2>1, <2>2 DEF Duplicated
    <3> QED
      BY <1>0, <1>1, <1>2, <2>1, <3>1, EditAndReturn
  <2>3. CASE Op(t) # "insert"
    <3>1. Restart(t, FALSE)
      BY <2>1, <2>3 DEF Duplicated
    <3> QED
      BY <1>0, <1>1, <2>1, <3>1, EditAndRestart
  <2> QED
    BY <2>2, <2>3
<1>7. CASE ~ FoundIn(bs, t)
  <2> DEFINE i == th[t].path[1].bucket
             s == th[t].path[1].slot
             m == lock_ind(i)
             new == SetSlot(bs, i, s, Item(k, v))
  <2>1. /\ buckets' = new /\ elems' = [elems EXCEPT ![m] = (elems[m] + 1) % SizeMod]
        /\ \E r : Return(t, r)
    BY <1>7 DEF FinishInsert, AddToBucket, SetSlot, Key
  <2>2. PICK r : Return(t, r)
    BY <2>1
  <2>3. i \in {b[1], b[2]} /\ s \in Slots
    <3>1. th[t].path[1] \in Records /\ th[t].path # <<>>
      BY <1>2, <1>3
    <3> QED
      BY <1>2, <3>1 DEF PathOK, Records
  <2>4. Locate(bs, b, k)[2] = NoSlot
    BY <1>7 DEF FoundIn, Key
  <2>5. m \in Locks
    BY <1>3, <1>4, <2>3, LockIndType, TableSize
  <2> HIDE DEF i, s, m, new, k, v, b, bs
  <2>6. Edits(t, new)
    <3>1. new = SetSlot(bs, i, s, Item(k, v))
      BY DEF new
    <3> QED
      BY <1>1, <1>2, <1>3, <1>4, <1>5, <2>3, <2>4, <3>1, AddEdit
  <2>7. elems' \in [Locks -> 0 .. SizeMod - 1]
    BY <1>0, <2>1, <2>5, CountersType
  <2> QED
    BY <1>0, <1>2, <2>1, <2>2, <2>6, <2>7, EditAndReturn
<1> QED
  BY <1>6, <1>7

\* Exceptions of user code.
LEMMA ThrowsData ==
  ASSUME MapInv, NEW t \in Threads,
         \/ EqualThrows(t) \/ EqualThrowsAfterMove(t) \/ ValueThrows(t)
         \/ HashThrowsOnPath(t) \/ HashThrowsInMove(t)
  PROVE  TableOK' /\ DataInv'
<1>1. th[t].pc # "drain" /\ hashpower' = hashpower
  BY UnlockKeepsHashpower
     DEF EqualThrows, EqualThrowsAfterMove, ValueThrows, HashThrowsOnPath, HashThrowsInMove,
         HasBuckets, HasMoveLocks, At, locksVars
<1>2. PICK r : Return(t, r)
  BY DEF EqualThrows, EqualThrowsAfterMove, ValueThrows, HashThrowsOnPath, HashThrowsInMove,
         Abandon
<1>3. CASE EqualThrowsAfterMove(t)
  <2> DEFINE new == Moved(t)
  <2>1. buckets' = new /\ elems' \in [Locks -> 0 .. SizeMod - 1]
    BY <1>3 DEF EqualThrowsAfterMove, MapInv, TableOK
  <2>2. Edits(t, new)
    BY <1>3, MovedEdits DEF EqualThrowsAfterMove
  <2> HIDE DEF new
  <2> QED
    BY <1>1, <1>2, <2>1, <2>2, EditAndReturn
<1>4. CASE ~ EqualThrowsAfterMove(t)
  <2>1. UNCHANGED table
    BY <1>4 DEF EqualThrows, ValueThrows, HashThrowsOnPath, HashThrowsInMove
  <2> QED
    BY <1>1, <1>2, <2>1, RestReturns
<1> QED
  BY <1>3, <1>4

-----------------------------------------------------------------------------
(***************************************************************************)
(* DataInv: the steps that leave the table alone.                          *)
(***************************************************************************)

\* Nothing that the invariants of the table speak of has changed.
LEMMA DataSame ==
  ASSUME MapInv, UNCHANGED <<table, th, hashpower>>
  PROVE  TableOK' /\ DataInv'
<1>1. buckets' = buckets /\ elems' = elems /\ th' = th /\ hashpower' = hashpower
  BY DEF table
<1>2. TableOK /\ PlacedInv /\ UpperVacant /\ UniqueInv(buckets)
  BY DEF MapInv, DataInv
<1>3. \A u, i : InTodo(u, i)' <=> InTodo(u, i)
  BY <1>1 DEF InTodo, At
<1>4. TableOK'
  BY <1>1, <1>2 DEF TableOK
<1>5. PlacedInv'
  BY <1>1, <1>2, <1>3 DEF PlacedInv
<1>6. UpperVacant'
  BY <1>1, <1>2, <1>3 DEF UpperVacant
<1>7. UniqueInv(buckets')
  BY <1>1, <1>2
<1> QED
  BY <1>4, <1>5, <1>6, <1>7 DEF DataInv

\* A thread that neither has nor takes the expansion lock goes on.
LEMMA QuietStep ==
  ASSUME MapInv, ControlInv', NEW t \in Threads, th[t].pc \notin {"resize", "drain"},
         UNCHANGED <<table, expansion_lock, hashpower>>,
         \E l : th' = [th EXCEPT ![t] = l]
  PROVE  TableOK' /\ DataInv'
<1>1. PICK l : th' = [th EXCEPT ![t] = l]
  OBVIOUS
<1>2. ExpansionOK(t) /\ ExpansionOK(t)' /\ th \in [Threads -> Locals]
  BY DEF MapInv, ControlInv
<1>3. expansion_lock # t /\ th'[t].pc # "drain"
  BY <1>2 DEF ExpansionOK
<1>4. l.pc # "drain"
  BY <1>1, <1>2, <1>3
<1>5. \A i : ~ InTodo(t, i)
  BY NotDraining
<1> QED
  BY <1>1, <1>4, <1>5, TableRest

\* Locking, and operations that find nothing to change.
LEMMA LockingData ==
  ASSUME MapInv, ControlInv', NEW t \in Threads,
         \/ SnapshotAndLockTwo(t) \/ LockFailed(t) \/ Lookup(t)
         \/ InsertDuplicate(t) \/ RunCuckoo(t) \/ MoveFailed(t) \/ StartMove(t)
  PROVE  TableOK' /\ DataInv'
<1>1. UNCHANGED <<table, expansion_lock>>
  BY DEF SnapshotAndLockTwo, LockFailed, Lookup, InsertDuplicate, RunCuckoo, MoveFailed,
         StartMove
<1>2. hashpower' = hashpower
  BY UnlockKeepsHashpower
     DEF SnapshotAndLockTwo, LockFailed, Lookup, InsertDuplicate, RunCuckoo, MoveFailed,
         StartMove, LockBuckets, HashpowerChanged
<1>3. \E l : th' = [th EXCEPT ![t] = l]
  BY DEF SnapshotAndLockTwo, LockFailed, Lookup, InsertDuplicate, RunCuckoo, MoveFailed,
         StartMove, Goto, Restart, Return, Duplicated
<1>4. th[t].pc \notin {"resize", "drain"}
  <2>1. CASE LockFailed(t)
    <3>1. req[t].stage = "check" /\ RequestOK(t)
      BY <2>1, ThreadFacts DEF LockFailed, HashpowerChanged, MapInv
    <3> QED
      BY <3>1 DEF RequestOK
  <2>2. CASE ~ LockFailed(t)
    BY <2>2
       DEF SnapshotAndLockTwo, Lookup, InsertDuplicate, RunCuckoo, MoveFailed, StartMove,
           Inserting, HasBuckets, HasMoveLocks, At
  <2> QED
    BY <2>1, <2>2
<1> QED
  BY <1>1, <1>2, <1>3, <1>4, QuietStep

\* The search for a path, and the sum of the counters.
LEMMA SearchingData ==
  ASSUME MapInv, ControlInv', NEW t \in Threads,
         \/ PeekFailed(t) \/ SearchOn(t) \/ SearchFailed(t) \/ SearchFound(t)
         \/ FollowPath(t) \/ ReadCounter(t) \/ SizeReturns(t) \/ CheckLoadFactor(t)
  PROVE  TableOK' /\ DataInv'
<1>1. UNCHANGED <<table, expansion_lock, hashpower>>
  BY DEF PeekFailed, SearchOn, SearchFailed, SearchFound, FollowPath, ReadCounter,
         SizeReturns, CheckLoadFactor, Peek, locksVars
<1>2. \E l : th' = [th EXCEPT ![t] = l]
  BY DEF PeekFailed, SearchOn, SearchFailed, SearchFound, FollowPath, ReadCounter,
         SizeReturns, CheckLoadFactor, Goto, Restart, Return
<1>3. th[t].pc \notin {"resize", "drain"}
  BY DEF PeekFailed, SearchOn, SearchFailed, SearchFound, FollowPath, ReadCounter,
         SizeReturns, CheckLoadFactor, Summed, At
<1> QED
  BY <1>1, <1>2, <1>3, QuietStep

\* Steps on the way to an expansion, and the calls on the whole table.
LEMMA ExpandingData ==
  ASSUME MapInv, ControlInv', NEW t \in Threads,
         \/ FastDouble(t) \/ Rehash(t) \/ ExpandTooLarge(t) \/ ExpandLockAll(t)
         \/ ExpandOvertaken(t) \/ ExpandUnlock(t)
         \/ StartLockAll(t) \/ ReleaseLockedTable(t) \/ SetLimit(t)
  PROVE  TableOK' /\ DataInv'
<1>1. UNCHANGED <<table, expansion_lock>>
  BY DEF FastDouble, Rehash, ExpandTooLarge, ExpandLockAll, ExpandOvertaken, ExpandUnlock,
         StartLockAll, ReleaseLockedTable, SetLimit
<1>2. hashpower' = hashpower
  BY UnlockKeepsHashpower
     DEF FastDouble, Rehash, ExpandTooLarge, ExpandLockAll, ExpandOvertaken, ExpandUnlock,
         StartLockAll, ReleaseLockedTable, SetLimit, LockAll, locksVars
<1>3. \E l : th' = [th EXCEPT ![t] = l]
  BY DEF FastDouble, Rehash, ExpandTooLarge, ExpandLockAll, ExpandOvertaken, ExpandUnlock,
         StartLockAll, ReleaseLockedTable, SetLimit, ExpandReturns, Expanded, ThrowTooLarge,
         Goto, Restart, Return
<1>4. th[t].pc \notin {"resize", "drain"}
  BY DEF FastDouble, Rehash, ExpandTooLarge, ExpandLockAll, ExpandOvertaken, ExpandUnlock,
         StartLockAll, ReleaseLockedTable, SetLimit, At
<1> QED
  BY <1>1, <1>2, <1>3, <1>4, QuietStep

\* A call begins.
LEMMA CallData ==
  ASSUME MapInv, ControlInv', NEW t \in Threads, NEW c \in Calls, Call(t, c)
  PROVE  TableOK' /\ DataInv'
<1>1. UNCHANGED <<table, expansion_lock, hashpower>> /\ \E l : th' = [th EXCEPT ![t] = l]
  BY DEF Call, Goto, locksVars
<1>2. th[t].pc \notin {"resize", "drain"}
  <2>1. CallOK(th[t], call[t]) /\ call[t] = NoCall
    BY ThreadFacts DEF MapInv, Call
  <2> QED
    BY <2>1 DEF CallOK
<1> QED
  BY <1>1, <1>2, QuietStep

\* The expansion lock is taken.
LEMMA TakeExpansionLockData ==
  ASSUME MapInv, NEW t \in Threads, TakeExpansionLock(t)
  PROVE  TableOK' /\ DataInv'
<1>1. UNCHANGED table /\ hashpower' = hashpower /\ \A i : ~ InTodo(t, i)
  BY NotDraining DEF TakeExpansionLock, LockAll, locksVars, At
<1>2. CASE hashpower # th[t].hp
  <2>1. Restart(t, Upserts(t))
    BY <1>2 DEF TakeExpansionLock, Expanded
  <2> QED
    BY <1>1, <2>1, RestRestarts
<1>3. CASE hashpower = th[t].hp
  <2> DEFINE l == [th[t] EXCEPT !.pc = "resize"]
  <2>1. th' = [th EXCEPT ![t] = l]
    BY <1>3 DEF TakeExpansionLock, Goto
  <2>2. l.pc # "drain"
    BY ThreadFacts DEF MapInv, Locals
  <2> HIDE DEF l
  <2> QED
    BY <1>1, <2>1, <2>2, TableRest
<1> QED
  BY <1>2, <1>3

\* The doubling is over.
LEMMA FinishDoubleData ==
  ASSUME MapInv, NEW t \in Threads, FinishDouble(t)
  PROVE  TableOK' /\ DataInv'
<1>1. \A i : ~ InTodo(t, i)
  BY DEF FinishDouble, InTodo
<1>2. UNCHANGED table /\ hashpower' = hashpower /\ Restart(t, Upserts(t))
  BY UnlockKeepsHashpower DEF FinishDouble, Expanded, locksVars
<1> QED
  BY <1>1, <1>2, RestRestarts

-----------------------------------------------------------------------------
(***************************************************************************)
(* DataInv: cuckoo_fast_double.                                            *)
(***************************************************************************)

\* Only the thread with the expansion lock moves buckets.
LEMMA OneDrainer ==
  ASSUME ControlInv, NEW t \in Threads, expansion_lock = t, NEW u \in Threads, NEW i,
         InTodo(u, i)
  PROVE  u = t
BY TodoOwned

\* The table is doubled, and all of its old half is yet to be moved.
LEMMA ResizeData ==
  ASSUME HashPowers = Nat, MapInv, ControlInv', NEW t \in Threads, Resize(t)
  PROVE  TableOK' /\ DataInv'
<1> DEFINE hp == hashpower
           n == hashsize(hp)
<1>1. ControlInv /\ TableOK /\ DataInv /\ At(t, "resize")
  BY DEF MapInv, Resize
<1>2. hashpower' = hp + 1 /\ hp = th[t].hp
  BY <1>1, ResizeControl
<1>3. /\ ExpansionOK(t) /\ ExpansionOK(t)' /\ th[t] \in Locals /\ hp \in Nat
      /\ th \in [Threads -> Locals]
  BY <1>1, ThreadFacts DEF ControlInv, LocksInv, LocksTypeOK
<1>4. /\ n \in Nat /\ n > 0 /\ Cardinality(InTable(hp)) = n /\ hashsize(hp + 1) = 2 * n
  <2> HIDE DEF hp
  <2> QED
    BY <1>3, TableSize
<1>5. DOMAIN buckets = InTable(hp) /\ buckets \in [InTable(hp) -> [Slots -> AnyItem \union {Vacant}]]
  BY <1>1 DEF TableOK, Tables
<1>6. buckets' = [i \in 0 .. 2 * n - 1 |-> IF i < n THEN buckets[i] ELSE EmptyBucket]
  BY <1>4, <1>5 DEF Resize
<1>7. InTable(hp + 1) = 0 .. 2 * n - 1 /\ InTable(hp) = 0 .. n - 1
  BY <1>4 DEF InTable
<1>8. /\ th'[t].pc = "drain" /\ th'[t].hp = hp
      /\ th'[t].todo = {m \in Locks : m < n}
      /\ \A u \in Threads \ {t} : th'[u] = th[u]
  BY <1>2, <1>3 DEF Resize, Goto, Locals
<1>9. ASSUME NEW u \in Threads, NEW i
      PROVE  /\ ~ InTodo(u, i)
             /\ InTodo(u, i)' => u = t
             /\ i \in InTable(hp) => InTodo(t, i)'
  <2>1. expansion_lock = t
    BY <1>1, <1>3 DEF ExpansionOK, At
  <2>2. ~ InTodo(t, i)
    BY <1>1 DEF InTodo, At
  <2>3. ~ InTodo(u, i)
    BY <1>1, <2>1, <2>2, OneDrainer
  <2>4. InTodo(u, i)' => u = t
    BY <1>8, <2>3 DEF InTodo, At
  <2>5. ASSUME i \in InTable(hp) PROVE InTodo(t, i)'
    <3>1. lock_ind(i) \in Locks /\ lock_ind(i) < n
      <4> HIDE DEF hp
      <4> QED
        BY <1>3, <2>5, HalvesLocks
    <3> QED
      BY <1>8, <2>5, <3>1 DEF InTodo, At
  <2> QED
    BY <2>3, <2>4, <2>5
<1> HIDE DEF n
<1>10. EmptyBucket \in [Slots -> AnyItem \union {Vacant}] /\ \A s \in Slots : EmptyBucket[s] = Vacant
  BY DEF EmptyBucket
<1>11. /\ \A i \in InTable(hp) : i \in InTable(hp + 1) /\ buckets'[i] = buckets[i]
       /\ \A i \in InTable(hp + 1) : i \notin InTable(hp) => buckets'[i] = EmptyBucket
       /\ \A i \in InTable(hp) : i + n \in InTable(hp + 1) /\ buckets'[i + n] = EmptyBucket
       /\ DOMAIN buckets' = InTable(hp + 1)
  BY <1>4, <1>6, <1>7
<1>12. TableOK'
  <2>1. buckets' \in Tables(hp + 1)
    BY <1>5, <1>6, <1>7, <1>10, <1>11 DEF Tables
  <2>2. elems' = elems
    BY DEF Resize
  <2> QED
    BY <1>1, <1>2, <2>1, <2>2 DEF TableOK
<1>13. ASSUME NEW i \in InTable(hp + 1), NEW s \in Slots, buckets'[i][s] # Vacant
       PROVE  i \in InTable(hp) /\ buckets'[i][s] = buckets[i][s]
  BY <1>10, <1>11, <1>13
<1>14. PlacedInv'
  <2> SUFFICES ASSUME NEW i \in InTable(hp + 1), NEW s \in Slots, buckets'[i][s] # Vacant
               PROVE  InTodo(t, i)' /\ i \in Both(th'[t].hp, buckets'[i][s].key)
    BY <1>11 DEF PlacedInv
  <2>1. i \in InTable(hp) /\ buckets'[i][s] = buckets[i][s]
    BY <1>13
  <2>2. i \in Both(hp, buckets[i][s].key)
    BY <1>1, <1>5, <1>9, <2>1 DEF DataInv, PlacedInv
  <2> QED
    BY <1>8, <1>9, <2>1, <2>2
<1>15. UpperVacant'
  <2> SUFFICES ASSUME NEW u \in Threads, NEW i \in InTable(hp + 1), InTodo(u, i)',
                      NEW s \in Slots
               PROVE  buckets'[i + hashsize(th'[u].hp)][s] = Vacant
    BY <1>11 DEF UpperVacant
  <2>1. u = t /\ i \in InTable(hp)
    BY <1>8, <1>9 DEF InTodo
  <2> QED
    BY <1>8, <1>10, <1>11, <2>1 DEF n
<1>16. UniqueInv(buckets')
  BY <1>1, <1>5, <1>11, <1>13 DEF DataInv, UniqueInv
<1> QED
  BY <1>12, <1>14, <1>15, <1>16 DEF DataInv

-----------------------------------------------------------------------------
\* The table after move_buckets for lock l.
AfterMove(hp, l) ==
  [i \in DOMAIN buckets |->
     CASE i \in OldBuckets(hp, l) -> LeftBehind(hp, i)
       [] i - hashsize(hp) \in OldBuckets(hp, l) -> MovedUp(hp, i - hashsize(hp))
       [] OTHER -> buckets[i]]

\* The bucket and the slot from which the item in slot s of bucket i was taken.
CameFrom(hp, l, i, s, j, r) ==
  \/ i \in OldBuckets(hp, l) /\ j = i /\ r = s /\ s \notin MovingSlots(hp, i)
  \/ /\ i \notin OldBuckets(hp, l) /\ j = i - hashsize(hp) /\ j \in OldBuckets(hp, l)
     /\ r \in MovingSlots(hp, j) /\ s = Cardinality({q \in MovingSlots(hp, j) : q < r})
  \/ /\ i \notin OldBuckets(hp, l) /\ i - hashsize(hp) \notin OldBuckets(hp, l)
     /\ j = i /\ r = s

\* Where move_buckets takes the items from.
LEMMA MoveOrigin ==
  ASSUME NEW hp \in Nat, hashpower = hp + 1, TableOK, NEW l,
         \A i \in OldBuckets(hp, l), s \in Slots : buckets[i + hashsize(hp)][s] = Vacant
  PROVE  /\ AfterMove(hp, l) \in Tables(hashpower)
         /\ \A i \in InTable(hashpower), s \in Slots : AfterMove(hp, l)[i][s] # Vacant =>
              \E j \in InTable(hashpower), r \in Slots :
                CameFrom(hp, l, i, s, j, r) /\ AfterMove(hp, l)[i][s] = buckets[j][r]
<1> DEFINE n == hashsize(hp)
           old == OldBuckets(hp, l)
           new == AfterMove(hp, l)
           items == AnyItem \union {Vacant}
<1>1. /\ n \in Nat /\ n > 0 /\ InTable(hp) = 0 .. n - 1 /\ InTable(hashpower) = 0 .. 2 * n - 1
  BY TableSize DEF InTable
<1>2. /\ buckets \in [InTable(hashpower) -> [Slots -> items]]
      /\ DOMAIN buckets = InTable(hashpower)
  BY DEF TableOK, Tables
<1>3. old \subseteq InTable(hp)
  BY DEF OldBuckets, InTable
<1> HIDE DEF n, old
<1>4. \A i \in old : i - n \notin old /\ i \in InTable(hashpower)
  BY <1>1, <1>3
<1>5. ASSUME NEW i \in old
      PROVE  /\ new[i] = LeftBehind(hp, i) /\ LeftBehind(hp, i) \in [Slots -> items]
             /\ \A s \in Slots : new[i][s] # Vacant =>
                  CameFrom(hp, l, i, s, i, s) /\ new[i][s] = buckets[i][s]
  <2>1. new[i] = LeftBehind(hp, i)
    BY <1>2, <1>4 DEF AfterMove, old, n
  <2>2. /\ LeftBehind(hp, i) \in [Slots -> items]
        /\ \A s \in Slots : LeftBehind(hp, i)[s] # Vacant =>
             s \notin MovingSlots(hp, i) /\ LeftBehind(hp, i)[s] = buckets[i][s]
    BY <1>2, <1>4 DEF LeftBehind
  <2> HIDE DEF new
  <2> QED
    BY <2>1, <2>2 DEF CameFrom, old
<1>6. ASSUME NEW i \in InTable(hashpower), i \notin old, i - n \in old
      PROVE  /\ new[i] \in [Slots -> items]
             /\ \A s \in Slots : new[i][s] # Vacant =>
                  \E j \in InTable(hashpower), r \in Slots :
                    CameFrom(hp, l, i, s, j, r) /\ new[i][s] = buckets[j][r]
  <2> DEFINE j == i - n
             moving == MovingSlots(hp, j)
             rank(q) == Cardinality({x \in moving : x < q})
             up == MovedUp(hp, j)
  <2>1. new[i] = up
    BY <1>2, <1>6 DEF AfterMove, old, n
  <2>2. j \in InTable(hashpower) /\ moving \subseteq Slots /\ j + n = i
    BY <1>1, <1>3, <1>6 DEF MovingSlots
  <2>3. up = [s \in Slots |-> IF \E m \in moving : rank(m) = s
                                THEN buckets[j][CHOOSE m \in moving : rank(m) = s]
                                ELSE buckets[j + n][s]]
    BY DEF MovedUp, n
  <2> HIDE DEF up, moving
  <2>4. ASSUME NEW s \in Slots
        PROVE  /\ up[s] \in items
               /\ up[s] # Vacant => \E r \in moving : s = rank(r) /\ up[s] = buckets[j][r]
    <3>1. CASE \E m \in moving : rank(m) = s
      <4> DEFINE r == CHOOSE m \in moving : rank(m) = s
      <4>1. r \in moving /\ rank(r) = s /\ up[s] = buckets[j][r]
        BY <2>3, <3>1
      <4> HIDE DEF r, rank
      <4>2. buckets[j][r] \in items
        BY <1>2, <2>2, <4>1
      <4> QED
        BY <4>1, <4>2
    <3>2. CASE ~ \E m \in moving : rank(m) = s
      <4>1. up[s] = buckets[j + n][s]
        BY <2>3, <3>2
      <4>2. buckets[j + n][s] = Vacant
        BY <1>6 DEF n, old
      <4> QED
        BY <4>1, <4>2
    <3> QED
      BY <3>1, <3>2
  <2>5. new[i] \in [Slots -> items]
    <3>1. DOMAIN up = Slots
      BY <2>3
    <3>2. up = [s \in Slots |-> up[s]]
      BY <2>3
    <3> HIDE DEF new
    <3> QED
      BY <2>1, <2>4, <3>2
  <2>6. ASSUME NEW s \in Slots, new[i][s] # Vacant
        PROVE  \E jj \in InTable(hashpower), r \in Slots :
                 CameFrom(hp, l, i, s, jj, r) /\ new[i][s] = buckets[jj][r]
    <3>1. PICK r \in moving : s = rank(r) /\ up[s] = buckets[j][r]
      BY <2>1, <2>4, <2>6
    <3>2. CameFrom(hp, l, i, s, j, r)
      BY <1>6, <3>1 DEF CameFrom, n, old, moving
    <3> HIDE DEF new, j
    <3> QED
      BY <2>1, <2>2, <3>1, <3>2
  <2> QED
    BY <2>5, <2>6
<1>7. ASSUME NEW i \in InTable(hashpower), i \notin old, i - n \notin old
      PROVE  /\ new[i] = buckets[i]
             /\ \A s \in Slots : CameFrom(hp, l, i, s, i, s)
  <2>1. new[i] = buckets[i]
    BY <1>2, <1>7 DEF AfterMove, old, n
  <2> QED
    BY <1>7, <2>1 DEF CameFrom, old, n
<1>8. new \in Tables(hashpower)
  <2>1. new = [i \in InTable(hashpower) |-> new[i]]
    BY <1>2 DEF AfterMove
  <2>2. \A i \in InTable(hashpower) : new[i] \in [Slots -> items]
    BY <1>2, <1>5, <1>6, <1>7
  <2> HIDE DEF new
  <2> QED
    BY <2>1, <2>2 DEF Tables
<1>9. ASSUME NEW i \in InTable(hashpower), NEW s \in Slots, new[i][s] # Vacant
      PROVE  \E j \in InTable(hashpower), r \in Slots :
               CameFrom(hp, l, i, s, j, r) /\ new[i][s] = buckets[j][r]
  <2> HIDE DEF new
  <2>1. CASE i \in old
    BY <1>5, <1>9, <2>1
  <2>2. CASE i \notin old /\ i - n \in old
    BY <1>6, <1>9, <2>2
  <2>3. CASE i \notin old /\ i - n \notin old
    BY <1>7, <1>9, <2>3
  <2> QED
    BY <2>1, <2>2, <2>3
<1> QED
  BY <1>8, <1>9

\* A bucket has finitely many slots.
LEMMA SlotsFinite == IsFiniteSet(Slots)
<1> DEFINE m == SLOT_PER_BUCKET - 1
<1>1. m \in Int
  BY SlotAssumption
<1> HIDE DEF m
<1>2. IsFiniteSet(0 .. m)
  BY <1>1, FS_Interval
<1> QED
  BY <1>2 DEF Slots, m

\* What move_buckets counts.
LEMMA MovedFromType ==
  ASSUME NEW hp \in Nat, NEW l
  PROVE  MovedFrom(hp, l) \in Int
<1> DEFINE old == OldBuckets(hp, l)
           f == [i \in old |-> Cardinality(MovingSlots(hp, i))]
<1>1. IsFiniteSet(old)
  <2>1. IsFiniteSet(InTable(hp)) /\ old \subseteq InTable(hp)
    BY TableSize DEF OldBuckets, InTable
  <2> HIDE DEF old
  <2> QED
    BY <2>1, FS_Subset
<1>2. IsFiniteSet(Slots)
  BY SlotsFinite
<1>3. ASSUME NEW i \in old PROVE f[i] \in Int
  <2> DEFINE S == MovingSlots(hp, i)
  <2>1. S \subseteq Slots
    BY DEF MovingSlots
  <2> HIDE DEF S
  <2>2. Cardinality(S) \in Nat
    BY <1>2, <2>1, FS_Subset, FS_CardinalityType
  <2> QED
    BY <2>2 DEF S
<1>4. MovedFrom(hp, l) = SumFunctionOnSet(f, old)
  BY DEF MovedFrom, SumFunction
<1> HIDE DEF f, old
<1> QED
  BY <1>1, <1>3, <1>4, SumType

\* One lock's buckets are moved, and the lock is given back.
LEMMA MoveBucketsData ==
  ASSUME MapInv, ControlInv', NEW t \in Threads, NEW l \in Locks, MoveBuckets(t, l)
  PROVE  TableOK' /\ DataInv'
<1> DEFINE hp == th[t].hp
           n == hashsize(hp)
           old == OldBuckets(hp, l)
           new == AfterMove(hp, l)
<1>1. ControlInv /\ TableOK /\ DataInv /\ At(t, "drain") /\ l \in th[t].todo
  BY DEF MapInv, MoveBuckets
<1>2. hashpower' = hashpower /\ hashpower = hp + 1
  BY <1>1, MoveBucketsControl
<1>3. /\ ExpansionOK(t) /\ ExpansionOK(t)' /\ th[t] \in Locals /\ th \in [Threads -> Locals]
      /\ hp \in Nat /\ expansion_lock = t
  <2>1. ExpansionOK(t) /\ ExpansionOK(t)' /\ th[t] \in Locals /\ th \in [Threads -> Locals]
    BY <1>1, ThreadFacts DEF ControlInv
  <2> QED
    BY <1>1, <2>1 DEF ExpansionOK, At, Locals
<1>4. /\ n \in Nat /\ n > 0 /\ InTable(hp) = 0 .. n - 1 /\ InTable(hashpower) = 0 .. 2 * n - 1
  <2>1. n \in Nat /\ n > 0 /\ hashsize(hp + 1) = 2 * n
    <3> HIDE DEF hp
    <3> QED
      BY <1>3, TableSize
  <2> QED
    BY <1>2, <2>1 DEF InTable
<1>5. DOMAIN buckets = InTable(hashpower) /\ buckets \in Tables(hashpower)
  BY <1>1 DEF TableOK, Tables
<1>6. /\ buckets' = new
      /\ elems' = [m \in Locks |-> (elems[m] + CountChange(hp, l, m)) % SizeMod]
  BY DEF MoveBuckets, AfterMove
<1>7. /\ th'[t].pc = "drain" /\ th'[t].hp = hp /\ th'[t].todo = th[t].todo \ {l}
      /\ \A u \in Threads \ {t} : th'[u] = th[u]
  BY <1>1, <1>3 DEF MoveBuckets, Goto, Locals, At
<1>8. /\ \A i : i \in old <=> i \in InTable(hp) /\ lock_ind(i) = l
      /\ \A i : InTodo(t, i) <=> i \in InTable(hp) /\ lock_ind(i) \in th[t].todo
      /\ \A i : InTodo(t, i)' <=> InTodo(t, i) /\ i \notin old
      /\ \A i \in old : InTodo(t, i)
  BY <1>1, <1>7 DEF InTodo, OldBuckets, InTable, At
<1>9. ASSUME NEW u \in Threads, NEW i, u # t
      PROVE  ~ InTodo(u, i) /\ ~ InTodo(u, i)'
  <2>1. ~ InTodo(u, i)
    BY <1>1, <1>3, <1>9, OneDrainer
  <2> QED
    BY <1>7, <1>9, <2>1 DEF InTodo, At
<1>10. \A i \in InTable(hp) : InTodo(t, i) =>
         i + n \in InTable(hashpower) /\ \A s \in Slots : buckets[i + n][s] = Vacant
  BY <1>1, <1>4, <1>5 DEF DataInv, UpperVacant
<1>11. /\ new \in Tables(hashpower) /\ DOMAIN new = InTable(hashpower)
       /\ \A i \in InTable(hashpower), s \in Slots : new[i][s] # Vacant =>
            \E j \in InTable(hashpower), r \in Slots :
              CameFrom(hp, l, i, s, j, r) /\ new[i][s] = buckets[j][r]
  <2>1. \A i \in old, s \in Slots : buckets[i + n][s] = Vacant
    BY <1>8, <1>10
  <2> HIDE DEF hp
  <2>2. /\ new \in Tables(hashpower)
        /\ \A i \in InTable(hashpower), s \in Slots : new[i][s] # Vacant =>
             \E j \in InTable(hashpower), r \in Slots :
               CameFrom(hp, l, i, s, j, r) /\ new[i][s] = buckets[j][r]
    BY <1>1, <1>2, <1>3, <2>1, MoveOrigin
  <2>3. DOMAIN new = InTable(hashpower)
    BY <2>2 DEF Tables
  <2> QED
    BY <2>2, <2>3
<1>12. TableOK'
  <2>1. ASSUME NEW m \in Locks
        PROVE  (elems[m] + CountChange(hp, l, m)) % SizeMod \in 0 .. SizeMod - 1
    <3> DEFINE a == elems[m] + CountChange(hp, l, m)
    <3>1. elems[m] \in Int
      BY <1>1, CountersType
    <3>2. CountChange(hp, l, m) \in Int
      <4>1. MovedFrom(hp, l) \in Int
        <5> HIDE DEF hp
        <5> QED
          BY <1>3, MovedFromType
      <4> QED
        BY <4>1 DEF CountChange
    <3>3. a \in Int
      BY <3>1, <3>2
    <3> HIDE DEF a
    <3>4. a % SizeMod \in 0 .. SizeMod - 1
      BY <3>3, SizeAssumption
    <3> QED
      BY <3>4 DEF a
  <2>2. elems' \in [Locks -> 0 .. SizeMod - 1]
    BY <1>6, <2>1
  <2> HIDE DEF new
  <2> QED
    BY <1>2, <1>6, <1>11, <2>2 DEF TableOK
<1>13. PlacedInv'
  <2> SUFFICES ASSUME NEW i \in InTable(hashpower), NEW s \in Slots, new[i][s] # Vacant
               PROVE  \/ i \in Both(hashpower, new[i][s].key)
                      \/ InTodo(t, i)' /\ i \in Both(hp, new[i][s].key)
    BY <1>2, <1>6, <1>7, <1>11 DEF PlacedInv
  <2>1. PICK j \in InTable(hashpower), r \in Slots :
          CameFrom(hp, l, i, s, j, r) /\ new[i][s] = buckets[j][r]
    BY <1>11
  <2> HIDE DEF new
  <2> DEFINE k == buckets[j][r].key
             hash == Hash[k]
  <2>2. buckets[j][r] \in AnyItem /\ k \in Keys /\ hash \in Nat
    BY <1>1, <2>1, SlotContents, ItemFacts
  <2>3. j \in Both(hashpower, k) \/ (InTodo(t, j) /\ j \in Both(hp, k))
    BY <1>1, <1>5, <1>9, <2>1 DEF DataInv, PlacedInv
  <2>4. CASE i \in old
    <3>1. j = i /\ r = s /\ s \notin MovingSlots(hp, i)
      BY <2>1, <2>4 DEF CameFrom
    <3>2. ~ MovesUp(hp, i, hash)
      BY <2>1, <3>1 DEF MovingSlots
    <3>3. ASSUME i \in Both(hp, k) PROVE i \in Both(hashpower, k)
      <4>1. i \in {TwoBuckets(hp, hash)[1], TwoBuckets(hp, hash)[2]}
        BY <3>3 DEF Both
      <4> DEFINE x == IF MovesUp(hp, i, hash) THEN i + hashsize(hp) ELSE i
      <4>2. x \in {TwoBuckets(hp + 1, hash)[1], TwoBuckets(hp + 1, hash)[2]}
        <5> HIDE DEF hp, hash
        <5> QED
          BY <1>3, <2>2, <4>1, MovesUpRight
      <4>3. x = i
        BY <3>2
      <4> QED
        BY <1>2, <4>2, <4>3 DEF Both
    <3> QED
      BY <2>1, <2>3, <3>1, <3>3
  <2>5. CASE i \notin old /\ i - n \in old
    <3>1. j = i - n /\ r \in MovingSlots(hp, j) /\ i = j + n
      BY <1>4, <2>1, <2>5 DEF CameFrom
    <3>2. MovesUp(hp, j, hash)
      BY <3>1 DEF MovingSlots
    <3>3. i \in {TwoBuckets(hp + 1, hash)[1], TwoBuckets(hp + 1, hash)[2]}
      BY <3>1, <3>2 DEF MovesUp
    <3> QED
      BY <1>2, <2>1, <3>3 DEF Both
  <2>6. CASE i \notin old /\ i - n \notin old
    <3>1. j = i /\ r = s
      BY <2>1, <2>6 DEF CameFrom
    <3>2. InTodo(t, i) => InTodo(t, i)'
      BY <1>8, <2>6
    <3> QED
      BY <2>1, <2>3, <3>1, <3>2
  <2> QED
    BY <2>4, <2>5, <2>6
<1>14. UpperVacant'
  <2> SUFFICES ASSUME NEW u \in Threads, NEW i \in InTable(hashpower), InTodo(u, i)',
                      NEW s \in Slots
               PROVE  new[i + hashsize(th'[u].hp)][s] = Vacant
    BY <1>6, <1>11 DEF UpperVacant
  <2>1. u = t /\ InTodo(t, i) /\ i \notin old /\ i \in InTable(hp)
    BY <1>8, <1>9
  <2> DEFINE j == i + n
  <2>2. j \in InTable(hashpower) /\ buckets[j][s] = Vacant
    BY <1>10, <2>1
  <2>3. j \notin old /\ j - n \notin old
    <3>1. i \in Int /\ j \notin InTable(hp) /\ j - n = i
      BY <1>4, <2>1
    <3> QED
      BY <1>8, <2>1, <3>1
  <2>4. new[j] = buckets[j]
    BY <1>5, <2>2, <2>3 DEF AfterMove
  <2> HIDE DEF new
  <2> QED
    BY <1>7, <2>1, <2>2, <2>4
<1>15. UniqueInv(new)
  <2> SUFFICES ASSUME NEW i1 \in InTable(hashpower), NEW i2 \in InTable(hashpower),
                      NEW s1 \in Slots, NEW s2 \in Slots, new[i1][s1] # Vacant,
                      new[i2][s2] # Vacant, new[i1][s1].key = new[i2][s2].key
               PROVE  i1 = i2 /\ s1 = s2
    BY <1>11 DEF UniqueInv
  <2>1. PICK j1 \in InTable(hashpower), r1 \in Slots :
          CameFrom(hp, l, i1, s1, j1, r1) /\ new[i1][s1] = buckets[j1][r1]
    BY <1>11
  <2>2. PICK j2 \in InTable(hashpower), r2 \in Slots :
          CameFrom(hp, l, i2, s2, j2, r2) /\ new[i2][s2] = buckets[j2][r2]
    BY <1>11
  <2> HIDE DEF new
  <2>3. j1 = j2 /\ r1 = r2
    BY <1>1, <1>5, <2>1, <2>2 DEF DataInv, UniqueInv
  <2>4. i1 \in Int /\ i2 \in Int
    BY <1>4
  <2> HIDE DEF hp
  <2> QED
    BY <1>4, <2>1, <2>2, <2>3, <2>4 DEF CameFrom
<1> HIDE DEF new
<1> QED
  BY <1>6, <1>12, <1>13, <1>14, <1>15 DEF DataInv

-----------------------------------------------------------------------------
(***************************************************************************)
(* DataInv: the initial table, and the one that cuckoo_expand_simple       *)
(* builds.                                                                 *)
(***************************************************************************)

\* A layout of a map puts every item into one of its buckets, and only once.
LEMMA LayoutFacts ==
  ASSUME NEW h \in Nat, NEW map, DOMAIN map \subseteq Keys,
         \A k \in DOMAIN map : map[k] \in Vals, NEW bs \in Layouts(h, map)
  PROVE  /\ bs \in Tables(h) /\ UniqueInv(bs)
         /\ \A i \in InTable(h), s \in Slots : bs[i][s] # Vacant => i \in Both(h, bs[i][s].key)
<1> DEFINE place(f, k) == <<TwoBuckets(h, Hash[k])[f[k][1]], f[k][2]>>
           layout(f) ==
             [i \in InTable(h) |-> [s \in Slots |->
                IF \E k \in DOMAIN map : place(f, k) = <<i, s>>
                  THEN LET k == CHOOSE k \in DOMAIN map : place(f, k) = <<i, s>>
                       IN  Item(k, map[k])
                  ELSE Vacant]]
<1>1. PICK f \in [DOMAIN map -> {1, 2} \X Slots] : bs = layout(f)
  BY DEF Layouts, InTable
<1>2. ASSUME NEW i \in InTable(h), NEW s \in Slots
      PROVE  /\ bs[i][s] \in AnyItem \union {Vacant}
             /\ bs[i][s] # Vacant => /\ bs[i][s].key \in DOMAIN map
                                     /\ place(f, bs[i][s].key) = <<i, s>>
  <2>1. CASE \E k \in DOMAIN map : place(f, k) = <<i, s>>
    <3> DEFINE k == CHOOSE k \in DOMAIN map : place(f, k) = <<i, s>>
    <3>1. k \in DOMAIN map /\ place(f, k) = <<i, s>> /\ bs[i][s] = Item(k, map[k])
      BY <1>1, <2>1
    <3> HIDE DEF k
    <3>2. bs[i][s].key = k
      BY <3>1 DEF Item
    <3>3. bs[i][s] \in AnyItem
      BY <3>1 DEF AnyItem
    <3> QED
      BY <3>1, <3>2, <3>3
  <2>2. CASE ~ \E k \in DOMAIN map : place(f, k) = <<i, s>>
    BY <1>1, <2>2
  <2> QED
    BY <2>1, <2>2
<1>3. bs = [i \in InTable(h) |-> [s \in Slots |-> bs[i][s]]] /\ DOMAIN bs = InTable(h)
  BY <1>1
<1>4. bs \in Tables(h)
  BY <1>2, <1>3 DEF Tables
<1>5. UniqueInv(bs)
  <2> SUFFICES ASSUME NEW i \in InTable(h), NEW j \in InTable(h), NEW s \in Slots,
                      NEW r \in Slots, bs[i][s] # Vacant, bs[j][r] # Vacant,
                      bs[i][s].key = bs[j][r].key
               PROVE  i = j /\ s = r
    BY <1>3 DEF UniqueInv
  <2>1. <<i, s>> = <<j, r>>
    BY <1>2
  <2> QED
    BY <2>1
<1>6. ASSUME NEW i \in InTable(h), NEW s \in Slots, bs[i][s] # Vacant
      PROVE  i \in Both(h, bs[i][s].key)
  <2> DEFINE k == bs[i][s].key
  <2>1. k \in DOMAIN map /\ place(f, k) = <<i, s>>
    BY <1>2, <1>6
  <2> HIDE DEF k
  <2>2. f[k][1] \in {1, 2} /\ i = TwoBuckets(h, Hash[k])[f[k][1]]
    BY <2>1
  <2> QED
    BY <2>2 DEF Both, k
<1> QED
  BY <1>4, <1>5, <1>6

\* The items of the table.
LEMMA ItemsFacts ==
  ASSUME TableOK
  PROVE  DOMAIN Items \subseteq Keys /\ \A k \in DOMAIN Items : Items[k] \in Vals
<1> SUFFICES ASSUME NEW k \in Keys, Contents[k] # NoVal PROVE Contents[k] \in Vals
  BY DEF Items
<1> DEFINE P(p) == buckets[p[1]][p[2]].key = k
           p == CHOOSE p \in Occupied : P(p)
<1>1. (\E x \in Occupied : P(x)) /\ Contents[k] = buckets[p[1]][p[2]].val
  BY DEF Contents
<1>2. p \in Occupied
  BY <1>1
<1> HIDE DEF p
<1>3. p[1] \in InTable(hashpower) /\ p[2] \in Slots /\ buckets[p[1]][p[2]] # Vacant
  BY <1>2 DEF Occupied, Places, TableOK, Tables
<1>4. buckets[p[1]][p[2]] \in AnyItem
  BY <1>3, SlotContents
<1> QED
  BY <1>1, <1>4, ItemFacts

\* A table that nobody is doubling and in which every item is in one of its buckets.
LEMMA RestingTable ==
  ASSUME NEW h \in Nat, NEW bs \in Tables(h), UniqueInv(bs),
         \A i \in InTable(h), s \in Slots : bs[i][s] # Vacant => i \in Both(h, bs[i][s].key),
         hashpower = h, buckets = bs, \A u \in Threads : th[u].pc # "drain"
  PROVE  buckets \in Tables(hashpower) /\ DataInv
<1>1. DOMAIN bs = InTable(h)
  BY DEF Tables
<1>2. PlacedInv
  BY <1>1 DEF PlacedInv
<1>3. UpperVacant
  BY DEF UpperVacant, InTodo, At
<1> QED
  BY <1>2, <1>3 DEF DataInv

\* The invariants of the table hold initially.
LEMMA DataInit == MapInit => TableOK /\ DataInv
<1> SUFFICES ASSUME MapInit PROVE TableOK /\ DataInv
  OBVIOUS
<1> DEFINE h == InitialHashpower
<1>1. /\ hashpower = h /\ buckets \in Layouts(h, InitialMap)
      /\ elems = [l \in Locks |-> Guarded(l) % SizeMod]
      /\ \A u \in Threads : th[u].pc # "drain"
  <2>1. Local("idle").pc = "idle"
    BY LocalFields
  <2>2. th = [u \in Threads |-> Local("idle")]
    BY DEF MapInit
  <2>3. \A u \in Threads : th[u].pc # "drain"
    BY <2>1, <2>2
  <2>4. /\ hashpower = h /\ buckets \in Layouts(h, InitialMap)
        /\ elems = [l \in Locks |-> Guarded(l) % SizeMod]
    BY DEF MapInit
  <2> QED
    BY <2>3, <2>4
<1>2. /\ h \in Nat /\ DOMAIN InitialMap \subseteq Keys
      /\ \A k \in DOMAIN InitialMap : InitialMap[k] \in Vals
  BY InitialAssumption, HashPowersAssumption
<1> HIDE DEF h
<1>3. /\ buckets \in Tables(h) /\ UniqueInv(buckets)
      /\ \A i \in InTable(h), s \in Slots :
           buckets[i][s] # Vacant => i \in Both(h, buckets[i][s].key)
  BY <1>1, <1>2, LayoutFacts
<1>4. buckets \in Tables(hashpower) /\ DataInv
  BY <1>1, <1>2, <1>3, RestingTable
<1>5. ASSUME NEW l \in Locks PROVE Guarded(l) % SizeMod \in 0 .. SizeMod - 1
  <2> DEFINE S == {p \in Occupied : lock_ind(p[1]) = l}
  <2>1. S \subseteq InTable(h) \X Slots
    BY <1>3 DEF Occupied, Places, Tables
  <2> HIDE DEF S
  <2>2. IsFiniteSet(InTable(h) \X Slots)
    BY <1>2, TableSize, SlotsFinite, FS_Product
  <2>3. Cardinality(S) \in Nat
    BY <2>1, <2>2, FS_Subset, FS_CardinalityType
  <2>4. Cardinality(S) % SizeMod \in 0 .. SizeMod - 1
    BY <2>3, SizeAssumption
  <2> QED
    BY <2>4 DEF Guarded, S
<1>6. elems \in [Locks -> 0 .. SizeMod - 1]
  BY <1>1, <1>5
<1> QED
  BY <1>4, <1>6 DEF TableOK

\* cuckoo_expand_simple swaps in the new table.
LEMMA ExpandSimpleData ==
  ASSUME HashPowers = Nat, MapInv, ControlInv', NEW t \in Threads, ExpandSimple(t)
  PROVE  TableOK' /\ DataInv'
<1>1. ControlInv /\ TableOK /\ At(t, "rebuild")
  BY DEF MapInv, ExpandSimple
<1>2. PICK h \in Nat : buckets' \in Layouts(h, Items) /\ hashpower' = h
  BY DEF ExpandSimple, set_hashpower
<1>3. /\ buckets' \in Tables(h) /\ UniqueInv(buckets')
      /\ \A i \in InTable(h), s \in Slots :
           buckets'[i][s] # Vacant => i \in Both(h, buckets'[i][s].key)
  <2> DEFINE bs == buckets'
             map == Items
  <2>1. DOMAIN map \subseteq Keys /\ (\A k \in DOMAIN map : map[k] \in Vals)
        /\ bs \in Layouts(h, map)
    BY <1>1, <1>2, ItemsFacts
  <2> HIDE DEF bs, map
  <2>2. /\ bs \in Tables(h) /\ UniqueInv(bs)
        /\ \A i \in InTable(h), s \in Slots :
             bs[i][s] # Vacant => i \in Both(h, bs[i][s].key)
    BY <2>1, LayoutFacts
  <2> QED
    BY <2>2 DEF bs
<1>4. ~ NothrowMove
  BY <1>1, ThreadFacts DEF CallOK, At
<1>5. \A u \in Threads : th'[u].pc # "drain"
  BY <1>4 DEF ControlInv, ThreadOK, CallOK
<1>6. DOMAIN buckets' = InTable(h)
  BY <1>3 DEF Tables
<1>7. TableOK'
  BY <1>1, <1>2, <1>3 DEF TableOK, ExpandSimple
<1>8. PlacedInv'
  BY <1>2, <1>3, <1>6 DEF PlacedInv
<1>9. UpperVacant'
  BY <1>5 DEF UpperVacant, InTodo, At
<1> QED
  BY <1>3, <1>7, <1>8, <1>9 DEF DataInv

-----------------------------------------------------------------------------
\* ControlInv only speaks of the locks and of the threads.
LEMMA ControlRest ==
  ASSUME ControlInv, UNCHANGED <<locksVars, expansion_lock, interface, th>>
  PROVE  ControlInv'
<1>1. /\ hashpower' = hashpower /\ writer' = writer /\ readers' = readers /\ req' = req
      /\ expansion_lock' = expansion_lock /\ call' = call /\ th' = th
  BY DEF locksVars, interface
<1>2. LocksInv /\ LocksInv'
  BY <1>1 DEF ControlInv, LocksInv, LocksTypeOK, Exclusion, LockOrder, StageHolds,
              SnapshotValid, Held
<1>3. ASSUME NEW t \in Threads
      PROVE  ThreadOK(t)' /\ RequestOK(t)' /\ ExpansionOK(t)'
  <2>1. ThreadOK(t) /\ RequestOK(t) /\ ExpansionOK(t)
    BY DEF ControlInv
  <2>2. ThreadOK(t)' /\ ExpansionOK(t)'
    BY <1>1, <2>1 DEF ThreadOK, ExpansionOK
  <2>3. Held(t)' = Held(t)
    BY <1>1 DEF Held
  <2>4. RequestOK(t)'
    BY <1>1, <2>1, <2>3 DEF RequestOK, Asked
  <2> QED
    BY <2>2, <2>4
<1> QED
  BY <1>1, <1>2, <1>3 DEF ControlInv

\* The invariants of the table are kept by every step of a thread in its call.
LEMMA DataOfStep ==
  ASSUME HashPowers = Nat, MapInv, ControlInv', NEW t \in Threads, Step(t)
  PROVE  TableOK' /\ DataInv'
<1>1. CASE LockStep(t)
  <2>1. UNCHANGED <<table, th, hashpower>>
    BY <1>1 DEF LockStep, TakeLock, HashpowerUnchanged
  <2> QED
    BY <2>1, DataSame
<1>2. CASE \E l \in Locks : MoveBuckets(t, l)
  BY <1>2, MoveBucketsData
<1>3. CASE SnapshotAndLockTwo(t) \/ LockFailed(t) \/ Lookup(t) \/ InsertDuplicate(t)
           \/ RunCuckoo(t) \/ MoveFailed(t) \/ StartMove(t)
  BY <1>3, LockingData
<1>4. CASE PeekFailed(t) \/ SearchOn(t) \/ SearchFailed(t) \/ SearchFound(t)
           \/ FollowPath(t) \/ ReadCounter(t) \/ SizeReturns(t) \/ CheckLoadFactor(t)
  BY <1>4, SearchingData
<1>5. CASE FastDouble(t) \/ Rehash(t) \/ ExpandTooLarge(t) \/ ExpandLockAll(t)
           \/ ExpandOvertaken(t) \/ ExpandUnlock(t)
           \/ StartLockAll(t) \/ ReleaseLockedTable(t) \/ SetLimit(t)
  BY <1>5, ExpandingData
<1>6. CASE Erase(t) \/ Update(t) \/ InsertIntoBucket(t) \/ Clear(t)
  BY <1>6, EraseData, UpdateData, InsertData, ClearData
<1>7. CASE MoveOn(t) \/ FinishInsert(t)
  BY <1>7, MoveOnData, FinishInsertData
<1>8. CASE TakeExpansionLock(t) \/ Resize(t) \/ FinishDouble(t) \/ ExpandSimple(t)
  BY <1>8, TakeExpansionLockData, ResizeData, FinishDoubleData, ExpandSimpleData
<1> QED
  BY <1>1, <1>2, <1>3, <1>4, <1>5, <1>6, <1>7, <1>8 DEF Step

\* MapInv holds initially.
LEMMA MapInvInit == MapInit => MapInv
BY ControlInit, DataInit DEF MapInv

\* MapInv is kept by every step, with or without exceptions.
LEMMA MapInvStep ==
  ASSUME HashPowers = Nat, RebuildsOrDoubles, MapInv, [UserNext]_mapVars
  PROVE  MapInv'
<1>0. ControlInv /\ TableOK
  BY DEF MapInv
<1>1. ASSUME NEW t \in Threads, Step(t) PROVE MapInv'
  BY <1>0, <1>1, ControlOfStep, DataOfStep DEF MapInv
<1>2. ASSUME NEW t \in Threads, NEW c \in Calls, Call(t, c) PROVE MapInv'
  BY <1>0, <1>2, CallControl, CallData DEF MapInv
<1>3. ASSUME NEW t \in Threads,
             \/ EqualThrows(t) \/ EqualThrowsAfterMove(t) \/ ValueThrows(t)
             \/ HashThrowsOnPath(t) \/ HashThrowsInMove(t)
      PROVE  MapInv'
  BY <1>0, <1>3, ThrowsControl, ThrowsData DEF MapInv
<1>4. CASE UNCHANGED mapVars
  <2>1. UNCHANGED <<locksVars, table, expansion_lock, interface, th>>
    BY <1>4 DEF mapVars
  <2>2. ControlInv'
    BY <1>0, <2>1, ControlRest
  <2>3. UNCHANGED <<table, th, hashpower>>
    BY <2>1 DEF locksVars
  <2> QED
    BY <2>2, <2>3, DataSame DEF MapInv
<1> QED
  BY <1>1, <1>2, <1>3, <1>4 DEF UserNext, MapNext, Finished

-----------------------------------------------------------------------------
(***************************************************************************)
(* What the table guarantees.                                              *)
(***************************************************************************)

\* Every behaviour of the table is one in which user code happens not to throw.
LEMMA WithoutExceptions == MapSpec => UserSpec
<1>1. [MapNext]_mapVars => [UserNext]_mapVars
  BY DEF UserNext
<1> QED
  BY <1>1, PTL DEF MapSpec, UserSpec

\* The inductive invariant of the table.
THEOREM MapInvariant ==
  ASSUME HashPowers = Nat, RebuildsOrDoubles
  PROVE  UserSpec => []MapInv
<1>1. MapInv /\ [UserNext]_mapVars => MapInv'
  BY MapInvStep
<1> QED
  BY <1>1, MapInvInit, PTL DEF UserSpec

\* The vector of buckets has the size that the hashpower says.
THEOREM BucketCountHolds ==
  ASSUME HashPowers = Nat, RebuildsOrDoubles
  PROVE  UserSpec => []BucketCount
<1>1. MapInv => BucketCount
  BY DEF MapInv, TableOK, Tables, BucketCount, InTable
<1> QED
  BY <1>1, MapInvariant, PTL

\* Lookups can find every item.
THEOREM PlacedHolds ==
  ASSUME HashPowers = Nat, RebuildsOrDoubles
  PROVE  UserSpec => []Placed
<1>1. MapInv => Placed
  <2> SUFFICES ASSUME MapInv, NEW p \in Occupied
               PROVE  LET b == TwoBuckets(hashpower, Hash[ItemAt(p).key])
                          w == writer[lock_ind(p[1])]
                      IN  p[1] \in {b[1], b[2]} \/ (w # NoThread /\ th[w].pc = "drain")
    BY DEF Placed
  <2> DEFINE i == p[1]
             s == p[2]
  <2>1. i \in DOMAIN buckets /\ s \in Slots /\ buckets[i][s] # Vacant
    BY DEF Occupied, Places
  <2>2. CASE i \in Both(hashpower, buckets[i][s].key)
    BY <2>2 DEF Both, ItemAt
  <2>3. CASE \E u \in Threads : InTodo(u, i)
    <3>1. PICK u \in Threads : InTodo(u, i)
      BY <2>3
    <3>2. writer[lock_ind(i)] = u /\ th[u].pc = "drain"
      BY <3>1, TodoOwned DEF MapInv
    <3> QED
      BY <3>2, NoThreadAssumption
  <2> QED
    BY <2>1, <2>2, <2>3 DEF MapInv, DataInv, PlacedInv
<1> QED
  BY <1>1, MapInvariant, PTL

\* No key is in the table twice.
THEOREM UniqueKeysHolds ==
  ASSUME HashPowers = Nat, RebuildsOrDoubles
  PROVE  UserSpec => []UniqueKeys
<1>1. MapInv => UniqueKeys
  <2> SUFFICES ASSUME MapInv, NEW p \in Occupied, NEW r \in Occupied,
                      ItemAt(p).key = ItemAt(r).key
               PROVE  p = r
    BY DEF UniqueKeys
  <2>1. /\ p = <<p[1], p[2]>> /\ p[1] \in DOMAIN buckets /\ p[2] \in Slots
        /\ buckets[p[1]][p[2]] # Vacant
        /\ r = <<r[1], r[2]>> /\ r[1] \in DOMAIN buckets /\ r[2] \in Slots
        /\ buckets[r[1]][r[2]] # Vacant
    BY DEF Occupied, Places
  <2>2. p[1] = r[1] /\ p[2] = r[2]
    BY <2>1 DEF MapInv, DataInv, UniqueInv, ItemAt
  <2> QED
    BY <2>1, <2>2
<1> QED
  BY <1>1, MapInvariant, PTL

\* A call that has ended holds no lock.
THEOREM NothingLeakedHolds ==
  ASSUME HashPowers = Nat, RebuildsOrDoubles
  PROVE  UserSpec => []NothingLeaked
<1>1. MapInv => NothingLeaked
  <2> SUFFICES ASSUME MapInv, NEW t \in Threads, th[t].pc = "idle"
               PROVE  Held(t) = {} /\ expansion_lock # t
    BY DEF NothingLeaked, At
  <2>1. RequestOK(t) /\ ExpansionOK(t) /\ LocksInv
    BY ThreadFacts DEF MapInv
  <2>2. req[t].stage = "none"
    BY <2>1 DEF RequestOK
  <2> QED
    BY <2>1, <2>2 DEF LocksInv, StageHolds, ExpansionOK
<1> QED
  BY <1>1, MapInvariant, PTL

\* The two buckets an operation has locked are the key's buckets.
THEOREM BucketsCurrentHolds ==
  ASSUME HashPowers = Nat, RebuildsOrDoubles
  PROVE  UserSpec => []BucketsCurrent
<1>1. MapInv => BucketsCurrent
  <2> SUFFICES ASSUME MapInv, NEW t \in Threads, req[t].stage = "rest", LocksGranted(t),
                      At(t, "op") \/ (At(t, "moving") /\ th[t].depth <= 1)
               PROVE  /\ th[t].b = TwoBuckets(hashpower, Hash[Key(t)])
                      /\ At(t, "moving") => th[t].path[1].bucket \in {th[t].b[1], th[t].b[2]}
    BY DEF BucketsCurrent
  <2>1. ControlInv /\ RequestOK(t) /\ CallOK(th[t], call[t])
    BY ThreadFacts DEF MapInv
  <2>2. CASE At(t, "op")
    <3>1. HasBuckets(t)
      BY <2>2 DEF HasBuckets
    <3>2. call[t].op \in KeyOps
      BY <2>1, <2>2 DEF RequestOK, At
    <3> QED
      BY <2>1, <2>2, <3>1, <3>2, HasBucketsFacts DEF Key, At
  <2>3. CASE At(t, "moving")
    <3>1. HasMoveLocks(t)
      BY <2>3 DEF HasMoveLocks
    <3>2. /\ th[t].b = TwoBuckets(hashpower, Hash[call[t].key])
          /\ PathOK(hashpower, th[t].b, th[t].path)
          /\ th[t].depth \in Nat /\ th[t].depth < Len(th[t].path)
      BY <2>1, <3>1, HasMoveLocksFacts
    <3>3. th[t].path # <<>>
      BY <3>2
    <3> QED
      BY <3>2, <3>3 DEF PathOK, Key
  <2> QED
    BY <2>2, <2>3
<1> QED
  BY <1>1, MapInvariant, PTL

\* A step that changes the table or the hashpower is one of a thread that holds locks and
\* is not in lock_table.
LEMMA ChangesNeedLocks ==
  ASSUME MapInv, NEW u \in Threads,
         \/ Step(u) \/ EqualThrows(u) \/ EqualThrowsAfterMove(u) \/ ValueThrows(u)
         \/ HashThrowsOnPath(u) \/ HashThrowsInMove(u)
  PROVE  \/ UNCHANGED <<table, hashpower>>
         \/ Held(u) # {} /\ ~ At(u, "locked")
<1>0. UnlockAll(u) => hashpower' = hashpower /\ Held(u) # {}
  BY UnlockKeepsHashpower DEF UnlockAll, Unlock
<1>1. CASE SnapshotAndLockTwo(u) \/ LockStep(u) \/ LockFailed(u) \/ Lookup(u)
           \/ InsertDuplicate(u) \/ RunCuckoo(u) \/ MoveFailed(u) \/ StartMove(u)
  BY <1>0, <1>1
     DEF SnapshotAndLockTwo, LockStep, LockFailed, Lookup, InsertDuplicate, RunCuckoo,
         MoveFailed, StartMove, LockBuckets, HashpowerChanged, TakeLock, HashpowerUnchanged
<1>2. CASE PeekFailed(u) \/ SearchOn(u) \/ SearchFailed(u) \/ SearchFound(u)
           \/ FollowPath(u) \/ ReadCounter(u) \/ SizeReturns(u) \/ CheckLoadFactor(u)
  BY <1>2
     DEF PeekFailed, SearchOn, SearchFailed, SearchFound, FollowPath, ReadCounter,
         SizeReturns, CheckLoadFactor, Peek, locksVars
<1>3. CASE FastDouble(u) \/ Rehash(u) \/ ExpandTooLarge(u) \/ ExpandLockAll(u)
           \/ ExpandOvertaken(u) \/ ExpandUnlock(u) \/ StartLockAll(u)
           \/ ReleaseLockedTable(u) \/ SetLimit(u) \/ TakeExpansionLock(u) \/ FinishDouble(u)
  BY <1>0, <1>3
     DEF FastDouble, Rehash, ExpandTooLarge, ExpandLockAll, ExpandOvertaken, ExpandUnlock,
         StartLockAll, ReleaseLockedTable, SetLimit, TakeExpansionLock, FinishDouble, LockAll,
         locksVars
<1>4. CASE Erase(u) \/ Update(u) \/ InsertIntoBucket(u) \/ Clear(u) \/ MoveOn(u)
           \/ FinishInsert(u)
  BY <1>0, <1>4
     DEF Erase, Update, InsertIntoBucket, Clear, MoveOn, FinishInsert, Inserting, HasBuckets,
         HasMoveLocks, At
<1>5. CASE EqualThrows(u) \/ EqualThrowsAfterMove(u) \/ ValueThrows(u)
           \/ HashThrowsOnPath(u) \/ HashThrowsInMove(u)
  BY <1>0, <1>5
     DEF EqualThrows, EqualThrowsAfterMove, ValueThrows, HashThrowsOnPath, HashThrowsInMove,
         HasBuckets, HasMoveLocks, At, locksVars
<1>6. CASE Resize(u) \/ ExpandSimple(u)
  <2>1. req[u].stage = "all" /\ req[u].want = {} /\ ~ At(u, "locked")
    BY <1>6 DEF Resize, ExpandSimple, set_hashpower, At
  <2>2. Held(u) = Locks
    BY <2>1, AllLocksOwned DEF MapInv, ControlInv
  <2>3. 0 \in Locks
    BY kNumLocksAssumption DEF Locks
  <2> QED
    BY <2>1, <2>2, <2>3
<1>7. CASE \E l \in Locks : MoveBuckets(u, l)
  BY <1>7 DEF MoveBuckets, Unlock, At
<1> QED
  BY <1>1, <1>2, <1>3, <1>4, <1>5, <1>6, <1>7 DEF Step

\* A locked_table keeps everybody else out.
THEOREM LockedTableFrozenHolds ==
  ASSUME HashPowers = Nat, RebuildsOrDoubles
  PROVE  UserSpec => LockedTableFrozen
<1> DEFINE Frozen == \A t \in Threads :
             At(t, "locked") /\ LocksGranted(t) => UNCHANGED <<table, hashpower>>
<1>1. MapInv /\ [UserNext]_mapVars => [Frozen]_mapVars
  <2> SUFFICES ASSUME MapInv, UserNext, NEW t \in Threads, At(t, "locked"), LocksGranted(t)
               PROVE  UNCHANGED <<table, hashpower>>
    OBVIOUS
  <2>1. req[t].stage = "all" /\ req[t].want = {}
    BY ThreadFacts DEF MapInv, RequestOK, At, LocksGranted
  <2>2. \A u \in Threads \ {t} : Held(u) = {}
    BY <2>1, AllLocksOwned DEF MapInv, ControlInv
  <2>3. ASSUME NEW u \in Threads,
               \/ Step(u) \/ EqualThrows(u) \/ EqualThrowsAfterMove(u) \/ ValueThrows(u)
               \/ HashThrowsOnPath(u) \/ HashThrowsInMove(u)
        PROVE  UNCHANGED <<table, hashpower>>
    BY <2>2, <2>3, ChangesNeedLocks
  <2>4. ASSUME NEW u \in Threads, NEW c \in Calls, Call(u, c)
        PROVE  UNCHANGED <<table, hashpower>>
    BY <2>4 DEF Call, locksVars
  <2>5. CASE Finished
    BY <2>5 DEF Finished, mapVars, locksVars
  <2> QED
    BY <2>3, <2>4, <2>5 DEF UserNext, MapNext
<1> QED
  BY <1>1, MapInvariant, PTL DEF UserSpec, LockedTableFrozen

-----------------------------------------------------------------------------
(***************************************************************************)
(* The type invariant, and the protocol of the locks.                      *)
(***************************************************************************)

\* The limits and the number of calls that are left.
LimitsInv ==
  /\ minimum_load_factor \in 0 .. 100 /\ maximum_hashpower \in Nat
  /\ callsLeft \in 0 .. MaxCalls

\* Only SetLimit and Call change them.
LEMMA LimitsStep ==
  ASSUME MapInv, LimitsInv, [UserNext]_mapVars
  PROVE  LimitsInv'
<1>1. ASSUME UNCHANGED <<limits, callsLeft>> PROVE LimitsInv'
  BY <1>1 DEF LimitsInv, limits
<1>2. ASSUME NEW t \in Threads, SetLimit(t) PROVE LimitsInv'
  <2>1. call[t] \in Calls \union {NoCall} /\ CallOK(th[t], call[t]) /\ At(t, "op")
    BY <1>2, ThreadFacts DEF MapInv, SetLimit
  <2>2. call[t] \in Calls
    BY <2>1 DEF CallOK, At
  <2>3. callsLeft' = callsLeft
    BY <1>2 DEF SetLimit, Return
  <2>4. CASE call[t].op = "maximum_hashpower"
    <3>1. call[t].n \in Nat
      BY <2>2, <2>4, CallsAssumption DEF KeyOps, InsertOps
    <3> QED
      BY <1>2, <2>3, <2>4, <3>1 DEF SetLimit, LimitsInv, Op
  <2>5. CASE call[t].op # "maximum_hashpower"
    BY <1>2, <2>3, <2>5 DEF SetLimit, LimitsInv, Op, ValidLoadFactor, limits
  <2> QED
    BY <2>4, <2>5
<1>3. ASSUME NEW t \in Threads, NEW c \in Calls, Call(t, c) PROVE LimitsInv'
  <2>1. callsLeft > 0 /\ callsLeft' = callsLeft - 1 /\ UNCHANGED limits
    BY <1>3 DEF Call
  <2>2. MaxCalls \in Nat
    BY InitialAssumption
  <2> QED
    BY <2>1, <2>2 DEF LimitsInv, limits
<1>4. ASSUME NEW t \in Threads, Step(t), ~ SetLimit(t) PROVE UNCHANGED <<limits, callsLeft>>
  <2>1. ASSUME NEW r, Return(t, r) PROVE callsLeft' = callsLeft
    BY <2>1 DEF Return
  <2>2. ASSUME NEW nested, Restart(t, nested) PROVE callsLeft' = callsLeft
    BY <2>2 DEF Restart, interface
  <2>3. CASE SnapshotAndLockTwo(t) \/ LockStep(t) \/ LockFailed(t) \/ Lookup(t)
             \/ InsertDuplicate(t) \/ RunCuckoo(t) \/ MoveFailed(t) \/ StartMove(t)
    BY <2>1, <2>2, <2>3
       DEF SnapshotAndLockTwo, LockStep, LockFailed, Lookup, InsertDuplicate, RunCuckoo,
           MoveFailed, StartMove, Duplicated, interface
  <2>4. CASE PeekFailed(t) \/ SearchOn(t) \/ SearchFailed(t) \/ SearchFound(t)
             \/ FollowPath(t) \/ ReadCounter(t) \/ SizeReturns(t) \/ CheckLoadFactor(t)
    BY <2>1, <2>2, <2>4
       DEF PeekFailed, SearchOn, SearchFailed, SearchFound, FollowPath, ReadCounter,
           SizeReturns, CheckLoadFactor, Peek, interface
  <2>5. CASE FastDouble(t) \/ Rehash(t) \/ ExpandTooLarge(t) \/ ExpandLockAll(t)
             \/ ExpandOvertaken(t) \/ ExpandUnlock(t) \/ StartLockAll(t)
             \/ ReleaseLockedTable(t) \/ TakeExpansionLock(t) \/ FinishDouble(t)
    BY <2>1, <2>2, <2>5
       DEF FastDouble, Rehash, ExpandTooLarge, ExpandLockAll, ExpandOvertaken, ExpandUnlock,
           StartLockAll, ReleaseLockedTable, TakeExpansionLock, FinishDouble, ExpandReturns,
           Expanded, ThrowTooLarge, interface
  <2>6. CASE Erase(t) \/ Update(t) \/ InsertIntoBucket(t) \/ Clear(t) \/ MoveOn(t)
             \/ FinishInsert(t)
    BY <2>1, <2>2, <2>6
       DEF Erase, Update, InsertIntoBucket, Clear, MoveOn, FinishInsert, Duplicated, interface
  <2>7. CASE Resize(t) \/ ExpandSimple(t) \/ \E l \in Locks : MoveBuckets(t, l)
    BY <2>7 DEF Resize, ExpandSimple, MoveBuckets, interface
  <2> QED
    BY <1>4, <2>3, <2>4, <2>5, <2>6, <2>7 DEF Step
<1>5. ASSUME NEW t \in Threads,
             \/ EqualThrows(t) \/ EqualThrowsAfterMove(t) \/ ValueThrows(t)
             \/ HashThrowsOnPath(t) \/ HashThrowsInMove(t)
      PROVE  UNCHANGED <<limits, callsLeft>>
  BY <1>5 DEF EqualThrows, EqualThrowsAfterMove, ValueThrows, HashThrowsOnPath,
              HashThrowsInMove, Abandon, Return
<1>6. CASE UNCHANGED mapVars
  BY <1>1, <1>6 DEF mapVars, interface
<1> QED
  BY <1>1, <1>2, <1>3, <1>4, <1>5, <1>6 DEF UserNext, MapNext, Finished

\* The type invariant: in particular, the queue of slot_search never exceeds its array, and
\* no cuckoo path is longer than MAX_BFS_PATH_LEN.
THEOREM MapTypeCorrect ==
  ASSUME HashPowers = Nat, RebuildsOrDoubles
  PROVE  UserSpec => []MapTypeOK
<1>1. MapInit => LimitsInv
  BY InitialAssumption DEF MapInit, LimitsInv
<1>2. MapInv /\ LimitsInv /\ [UserNext]_mapVars => LimitsInv'
  BY LimitsStep
<1>3. MapInv /\ LimitsInv => MapTypeOK
  <2> SUFFICES ASSUME MapInv, LimitsInv PROVE MapTypeOK
    OBVIOUS
  <2>1. ControlInv /\ LocksTypeOK /\ TableOK
    BY DEF MapInv, ControlInv, LocksInv
  <2>2. ASSUME NEW i \in DOMAIN buckets, NEW s \in Slots
        PROVE  \/ buckets[i][s] = Vacant
               \/ \E k \in Keys, v \in Vals : buckets[i][s] = Item(k, v)
    BY <2>1, <2>2 DEF TableOK, Tables, AnyItem
  <2>3. ASSUME NEW t \in Threads
        PROVE  /\ call[t] \in Calls \union {NoCall}
               /\ call[t] = NoCall <=> th[t].pc = "idle"
               /\ Len(th[t].q) < MAX_CUCKOO_COUNT /\ th[t].x.depth < MAX_BFS_PATH_LEN
               /\ \A n \in 1 .. Len(th[t].q) : th[t].q[n].depth < MAX_BFS_PATH_LEN
               /\ Len(th[t].path) <= MAX_BFS_PATH_LEN
    <3>1. /\ th[t] \in Locals /\ CallOK(th[t], call[t]) /\ SearchOK(th[t], call[t])
          /\ call[t] \in Calls \union {NoCall}
      BY <2>1, ThreadFacts
    <3>2. call[t] = NoCall <=> th[t].pc = "idle"
      BY <3>1 DEF CallOK
    <3>3. MAX_CUCKOO_COUNT \in Nat /\ MAX_CUCKOO_COUNT >= 4 /\ MAX_BFS_PATH_LEN \in Nat
          /\ MAX_BFS_PATH_LEN > 0
      BY QueueAssumption, PathAssumption
    <3>4. /\ Len(th[t].q) < MAX_CUCKOO_COUNT
          /\ \A n \in 1 .. Len(th[t].q) : th[t].q[n].depth < MAX_BFS_PATH_LEN
      <4>1. CASE th[t].pc = "search"
        <5>1. Len(th[t].q) < MAX_CUCKOO_COUNT - 1 /\ Len(th[t].q) \in Nat
          BY <3>1, <4>1 DEF SearchOK, Locals
        <5>2. \A n \in 1 .. Len(th[t].q) : th[t].q[n].depth \in 0 .. MAX_BFS_PATH_LEN - 1
          BY <3>1, <4>1 DEF SearchOK, BSlotOK
        <5> QED
          BY <3>3, <5>1, <5>2
      <4>2. CASE th[t].pc # "search"
        BY <3>1, <3>3, <4>2 DEF SearchOK
      <4> QED
        BY <4>1, <4>2
    <3>5. th[t].x.depth < MAX_BFS_PATH_LEN
      BY <3>1, <3>3 DEF SearchOK, BSlotOK, NoBSlot
    <3>6. Len(th[t].path) <= MAX_BFS_PATH_LEN
      <4>1. CASE th[t].pc = "path"
        BY <2>1, <3>3, <4>1, PathFacts DEF At
      <4>2. CASE th[t].pc \in {"move", "moving"}
        BY <2>1, <4>2, MoveBucketsType
      <4>3. CASE th[t].pc \notin {"path", "move", "moving"}
        BY <3>1, <3>3, <4>3 DEF SearchOK
      <4> QED
        BY <4>1, <4>2, <4>3
    <3> QED
      BY <3>1, <3>2, <3>4, <3>5, <3>6
  <2> QED
    BY <2>1, <2>2, <2>3 DEF MapTypeOK, LimitsInv, TableOK, ControlInv
<1> QED
  BY <1>1, <1>2, <1>3, MapInvariant, PTL DEF UserSpec

-----------------------------------------------------------------------------
\* A step with the given request is one of the steps of the locking layer.
LEMMA LocksSteps ==
  ASSUME HashPowers = Nat, NEW t \in Threads
  PROVE  /\ \A ls : Unlock(t, ls) => LocksNext
         /\ LockAll(t) \/ TakeLock(t) \/ HashpowerUnchanged(t) \/ HashpowerChanged(t) => LocksNext
         /\ \A hp \in Nat : set_hashpower(t, hp) => LocksNext
         /\ \A hp \in Nat, ls \in SUBSET Locks, shared \in BOOLEAN :
              LockBuckets(t, hp, ls, shared) => LocksNext
<1>1. ASSUME NEW ls, Unlock(t, ls) PROVE LocksNext
  <2>1. ls \in SUBSET Locks
    BY <1>1 DEF Unlock, Held
  <2> QED
    BY <1>1, <2>1 DEF LocksNext
<1> QED
  BY <1>1 DEF LocksNext

\* A thread's steps are steps of the locking layer or leave it alone.
LEMMA StepLocks ==
  ASSUME HashPowers = Nat, MapInv, NEW t \in Threads, Step(t)
  PROVE  [LocksNext]_locksVars
<1>0. UnlockAll(t) => LocksNext
  BY LocksSteps DEF UnlockAll
<1>1. CASE SnapshotAndLockTwo(t)
  <2> DEFINE b == TwoBuckets(hashpower, Hash[call[t].key])
             ls == {lock_ind(b[1]), lock_ind(b[2])}
             shared == call[t].op \in {"find", "contains"}
  <2>1. /\ LockBuckets(t, hashpower, ls, shared) /\ th[t].pc = "snapshot"
        /\ shared \in BOOLEAN
    BY <1>1 DEF SnapshotAndLockTwo, Op, Key, At
  <2>2. call[t] \in Calls /\ call[t].op \in KeyOps
    <3>1. CallOK(th[t], call[t]) /\ call[t] \in Calls \union {NoCall}
      BY ThreadFacts DEF MapInv
    <3> QED
      BY <2>1, <3>1 DEF CallOK, OpsAt
  <2>3. call[t].key \in Keys /\ hashpower \in Nat
    BY <2>2, KeyCallFacts DEF MapInv, ControlInv, LocksInv, LocksTypeOK
  <2>4. b[1] \in InTable(hashpower) /\ b[2] \in InTable(hashpower)
    BY <2>3, BucketsType
  <2> HIDE DEF b
  <2>5. ls \in SUBSET Locks
    BY <2>3, <2>4, LockIndType, TableSize
  <2> HIDE DEF ls, shared
  <2> QED
    BY <2>1, <2>3, <2>5, LocksSteps
<1>2. CASE StartMove(t)
  <2> DEFINE l == th[t]
             ls == {lock_ind(i) : i \in BucketsOfMove(l)}
  <2>1. th[t].pc = "move" /\ LockBuckets(t, th[t].hp, ls, FALSE)
    BY <1>2 DEF StartMove, BucketsOfMove, At
  <2>2. BucketsOfMove(l) \subseteq Nat /\ th[t].hp \in Nat
    BY <2>1, MoveBucketsType DEF MapInv
  <2>3. ls \in SUBSET Locks
    BY <2>2, LockIndType
  <2> HIDE DEF ls
  <2> QED
    BY <2>1, <2>2, <2>3, LocksSteps
<1>3. CASE LockStep(t) \/ LockFailed(t) \/ Lookup(t)
           \/ InsertDuplicate(t) \/ RunCuckoo(t) \/ MoveFailed(t)
  BY <1>0, <1>3, LocksSteps
     DEF LockStep, LockFailed, Lookup, InsertDuplicate, RunCuckoo, MoveFailed
<1>4. CASE PeekFailed(t) \/ SearchOn(t) \/ SearchFailed(t) \/ SearchFound(t)
           \/ FollowPath(t) \/ ReadCounter(t) \/ SizeReturns(t) \/ CheckLoadFactor(t)
  BY <1>4 DEF PeekFailed, SearchOn, SearchFailed, SearchFound, FollowPath, ReadCounter,
              SizeReturns, CheckLoadFactor, Peek
<1>5. CASE FastDouble(t) \/ Rehash(t) \/ ExpandTooLarge(t) \/ ExpandLockAll(t)
           \/ ExpandOvertaken(t) \/ ExpandUnlock(t) \/ StartLockAll(t)
           \/ ReleaseLockedTable(t) \/ SetLimit(t) \/ TakeExpansionLock(t) \/ FinishDouble(t)
  BY <1>0, <1>5, LocksSteps
     DEF FastDouble, Rehash, ExpandTooLarge, ExpandLockAll, ExpandOvertaken, ExpandUnlock,
         StartLockAll, ReleaseLockedTable, SetLimit, TakeExpansionLock, FinishDouble
<1>6. CASE Erase(t) \/ Update(t) \/ InsertIntoBucket(t) \/ Clear(t) \/ MoveOn(t)
           \/ FinishInsert(t)
  BY <1>0, <1>6 DEF Erase, Update, InsertIntoBucket, Clear, MoveOn, FinishInsert
<1>7. CASE Resize(t)
  <2>1. th[t].hp + 1 \in Nat
    BY ThreadFacts DEF MapInv, Locals
  <2> QED
    BY <1>7, <2>1, LocksSteps DEF Resize
<1>8. CASE ExpandSimple(t)
  BY <1>8, LocksSteps DEF ExpandSimple
<1>9. CASE \E l \in Locks : MoveBuckets(t, l)
  BY <1>9, LocksSteps DEF MoveBuckets
<1> QED
  BY <1>1, <1>2, <1>3, <1>4, <1>5, <1>6, <1>7, <1>8, <1>9 DEF Step

\* The table uses its locks and changes its hashpower only in the ways of the locking
\* protocol, so that everything proved of the protocol holds of the table.
THEOREM TableFollowsProtocol ==
  ASSUME HashPowers = Nat, RebuildsOrDoubles
  PROVE  UserSpec => LocksSpec
<1>1. MapInit => LocksInit
  BY DEF MapInit
<1>2. MapInv /\ [UserNext]_mapVars => [LocksNext]_locksVars
  <2> SUFFICES ASSUME MapInv, [UserNext]_mapVars PROVE [LocksNext]_locksVars
    OBVIOUS
  <2>1. ASSUME NEW t \in Threads, Step(t) PROVE [LocksNext]_locksVars
    BY <2>1, StepLocks
  <2>2. ASSUME NEW t \in Threads, NEW c \in Calls, Call(t, c) PROVE UNCHANGED locksVars
    BY <2>2 DEF Call
  <2>3. ASSUME NEW t \in Threads,
               \/ EqualThrows(t) \/ EqualThrowsAfterMove(t) \/ ValueThrows(t)
               \/ HashThrowsOnPath(t) \/ HashThrowsInMove(t)
        PROVE  [LocksNext]_locksVars
    <3>1. UnlockAll(t) => LocksNext
      BY LocksSteps DEF UnlockAll
    <3> QED
      BY <2>3, <3>1 DEF EqualThrows, EqualThrowsAfterMove, ValueThrows, HashThrowsOnPath,
                        HashThrowsInMove
  <2>4. CASE UNCHANGED mapVars
    BY <2>4 DEF mapVars
  <2> QED
    BY <2>1, <2>2, <2>3, <2>4 DEF UserNext, MapNext, Finished, mapVars
<1> QED
  BY <1>1, <1>2, MapInvariant, PTL DEF UserSpec, LocksSpec
=============================================================================
