# Verification of libcuckoo's `cuckoohash_map`

`cuckoohash_map` (`src/libcuckoo/cuckoohash_map.hh`) is a concurrent hash table.
Every key has two buckets; an insertion that finds both full moves other items
to their other bucket along a *cuckoo path*; a table in which no path is found is
doubled.  Threads work on it at the same time, each holding only the spinlocks of
the buckets it touches.

This directory has TLA+ modules that model the table, TLC configurations that
check them on small instances, and TLAPS proofs, for every size of the instance, that
the table is a linearizable map and that its parts do what it relies on.
`PROJECT.json` lists the runs, the lines each definition models, the mutants that
show each property can fail, the hazards, the findings and the theorems.

## 1. The system

| Part (all in `cuckoohash_map.hh` unless named) | State | Operations |
|---|---|---|
| spinlocks, bucket locking (172-205, 711-985) | `locks_`, `hashpower_`, what each `BucketContainer`/`AllUnlocker` owns | `lock_one`, `lock_two(_shared)`, `lock_three`, `check_hashpower`, `snapshot_and_lock_two(_shared)`, `snapshot_and_lock_all`, the unlocking destructors |
| hash arithmetic (342-350, 681-709, 987-1016) | none | `index_hash`, `partial_key`, `alt_index`, `reserve_calc` |
| buckets (216-308) | `buckets_`: partial key, occupied bit and pair of each slot | `setKV`, `eraseKV`, `move_to_bucket`, `clear` |
| lookups, updates (475-564, 1359-1541, 1645-1693) | the buckets | `find`, `contains`, `erase`, `update`, `update_fn` |
| insertion, displacement (522-602, 1018-1357, 1551-1643) | the buckets; per call a BFS queue and a path | `insert`, `upsert`, `slot_search`, `cuckoopath_search`, `cuckoopath_move`, `run_cuckoo` |
| doubling (1723-1901) | the buckets, `expansion_lock_` | `cuckoo_fast_double`, `move_buckets` |
| rebuilding (604-641, 1903-1973) | a second table | `rehash`, `reserve`, `cuckoo_expand_simple` |
| size and limits (398-473, 1695-1721) | `elems_in_buckets` of each lock, `minimum_load_factor_`, `maximum_hashpower_` | `size`, `load_factor`, the setters |
| whole-table operations (391-396, 1985-2301) | ownership of all the locks | `clear`, `lock_table`, `release`; iterators |
| `operator[]` (79-150, 661-670) | none | `reference`: reading is `find`, assigning is `upsert` |
| lock array (`lazy_array.hh`) | segments | `allocate`, `allocated_size` |
| aligned allocator (`cuckoohash_util.hh` 141-196) | a stored pointer before each array | `allocate`, `deallocate` |

The parts share `buckets_`, `hashpower_` and the locks.  What is hard about them:

* The buckets of a key depend on `hashpower_`, which is read before any lock is
  taken; `check_hashpower` compares it again after the *first* of up to three locks.
* Lookups, displacements, doublings and `clear` lock overlapping sets of locks,
  and several buckets share a lock.
* An insertion gives up its two locks while it makes room.  Meanwhile the key may be
  inserted by somebody else, the path may become stale, and the table may double.
* A cuckoo path is moved from its end; it may fail in the middle.
* A doubling gives back lock after lock while other buckets still wait to be split.
* Counters are kept per lock and are not moved along with displaced items.
* Every operation is a retry loop.
* User code (hash, equality, constructors, copies, updaters) may throw at any use, also
  while locks are held or a table is half rebuilt.
* Handles and iterators of a locked table outlive each other in any order.

What makes it correct: no deadlock; a thread that has its locks has the right
buckets; every key is at most once in the table, where lookups find it; the counters
add up; each call has the effect and result of one instant of a plain map; every
call returns; the documented limits and results.

## 2. The modules

| Module | Models | State and actions |
|---|---|---|
| `BucketLocks` | the locking layer | `hashpower`, `writer`, `readers` (the spinlocks), `req` (how far each thread's lock call is). Actions: `LockBuckets`, `LockAll` start a call, `TakeLock` takes the lowest lock still wanted, `HashpowerUnchanged`/`HashpowerChanged` are the two outcomes of `check_hashpower`, `Unlock`, `set_hashpower` |
| `CuckooHashing` | the hash arithmetic | operators only |
| `ItemPlacement` | one item among displacements and doublings | `hp`, `hash`, `bucket`; `Displace`, `Double` |
| `ConcurrentMap` | what the table promises | `map`, `call`, `ret`; a call starts, and takes effect and returns in one step |
| `CuckooMap` | the table | the locks of `BucketLocks` (which it extends) plus `buckets`, `elems`, `expansion_lock`, the limits, the calls (`call`, `ret`) and each thread's position and locals (`th`) |
| `UserExceptions` | the table when user code throws | the state of `CuckooMap`, which it extends; one action per place where user code is called.  Constructors that throw in a slot, which leaves a broken table, are in a specification of their own (`ConstructSpec`) |
| `SimpleRebuild` | `cuckoo_expand_simple` between locking and unlocking | the state of `CuckooMap`, which here is `new_map`, plus the `old` buckets, the `pending` ones, each worker's `task`, and the `phase` |
| `LockedTable` | `locked_table` and its iterators | `handle`, `it` (the objects), `flag` (the shared booleans), `locked`, `buckets`; one action per member function |
| `LazyLocks` | the lock array, for any granularity | `program` (the size of a segment and what the threads do), `segments`, `holder`, `hashpower`, `expansion_lock`, `job`; the loops over the locks are one step per round |
| `BQueue`, `BoundedQueue` | `b_queue`, and the queue it promises to be | `slots`, `first`, `last`; `enqueue`, `dequeue` |
| `AlignedAllocator` | `libcuckoo_aligned_allocator` | `blocks`, `arrays`, `bytes`; `allocate`, `deallocate`, and writes by the owner |
| `...Proofs` | - | the theorems about the module of that name; `LinearizableProofs` has those about `CuckooMap` and `UserExceptions` that `CuckooMapProofs` prepares, `SeparatePartsProofs` those about `ItemPlacement`, `AlignedAllocator` and `BQueue` |
| `MC...` | - | instances for TLC |

How they are composed: `CuckooMap` extends `BucketLocks` and `CuckooHashing`, and implements
`ConcurrentMap`.  `UserExceptions` and `SimpleRebuild` extend `CuckooMap`.  `LazyLocks` looks at the same locking code as
`BucketLocks` from closer by, where `allocated_size()` is not a constant.  `LockedTable` takes
over where `CuckooMap` has only one state "locked".  `BQueue` stands for the sequence `q`
in `CuckooMap`.

In `CuckooMap` a thread in a call has a program counter `th[t].pc`; the comment above
`Local` says which function each value stands for.  Every action that locks or
unlocks is an action of `BucketLocks` conjoined with the change to the table, so that
`LocksSpec` is implemented with the identity as refinement mapping.

### Grain of atomicity

* Taking a lock, comparing the hashpower after it, and the body of an operation
  are separate steps.  Between the last lock and the unlocking, a thread only touches
  buckets and counters behind locks it holds, so the body is one step together with the
  unlocking and the return.  The locks of one `BucketContainer` or `AllUnlocker` are
  released together: releasing them one by one lets others in later, never earlier.
* A search takes `lock_one` for each slot it looks at, reads, and unlocks.  That is one
  step (`Peek`), enabled when the lock is free: nobody can see into it, and the thread
  holds nothing while it waits.
* `cuckoo_size` reads one counter per step without a lock.
* `move_buckets` is one step per lock, in any order (`tbb::parallel_for`), each ending
  with the release of that lock.
* `cuckoo_fast_double`'s check of the hashpower under `expansion_lock_`, each of the
  locks it takes, and the resize are separate steps.
* `cuckoo_expand_simple` reads the old table and swaps the new one in under all locks.
  The insertions into the new table are one step that may leave *any* layout that has each
  item in one of its two buckets, at any hashpower from the one the constructor
  computes.  This has more behaviours than the code; the properties hold for all of them.
  `SimpleRebuild` has these insertions step by step, and `RebuiltTable` says that they end in
  one of those layouts.
* In `SimpleRebuild` the workers take the old buckets one by one, in any order.  `new_map` is a
  complete `CuckooMap`, in which they displace each other's items and which they double.
* In `LazyLocks` each round of a loop over the locks is a step, since the loops ask for
  `allocated_size()` each time; `allocate` shows its segments one by one.
* An exception of user code ends the call in one step, together with what the destructors
  unlock.  The hash of the call's own key is taken before any lock, so that an exception
  there is a call that was not made.

### Data

A key is a model value with a hash; a value is one of two model values, which the
function given to `update_fn` and `upsert` swaps.  Hashes are chosen so that buckets
collide, cuckoo paths have up to three buckets, and doubling splits buckets.  `size_t`
counters are kept modulo `SizeMod`, so that a counter below zero wraps as in the code.
The partial key in a slot is modelled; the hash of an erased slot, which
`cuckoopath_move` computes before it looks at `occupied`, cannot change the outcome,
because a vacant slot is rejected anyway.
`Xor` is C++'s `^`.  With hashes below 2^31 and hashpowers up to 16, the arithmetic of
`CuckooHashing` gives what the 64-bit code gives (see its header).
In `CuckooMap`, `LIBCUCKOO_LOCK_ARRAY_GRANULARITY` is its default 0: all locks exist from the
start.  `LazyLocks` is about the others.

## 3. The runs

| Run | Instance | Checks |
|---|---|---|
| `bucket_locks` | 3 threads, 3 locks, 2 hashpowers | `LocksTypeOK`, `Exclusion`, `SnapshotValid`, `NoDeadlock`, and `LocksInv`, the invariant of the proofs |
| `user_exceptions` | 2 threads, 3 calls, 4 buckets of 1 slot, 4 locks, 3 items; any use of user code may throw | `MapTypeOK`, `Placed`, `UniqueKeys`, `CountExact`, `NothingLeaked`, `LinearizableWithExceptions` |
| `doubling` | 3 threads, 3 calls, 2 buckets growing to 4, 2 locks | `BucketCount`, `Placed`, `BucketsCurrent`, `Linearizable`, `LocksSpec`, `LockedTableFrozen` |
| `wide_buckets` | 2 threads, 2 calls, 2 slots per bucket, queue of 4, 4 locks, fair | `CountExact`, `Linearizable`, `EveryCallReturns` |
| `rebuilding` | 2 threads, 3 calls, types that may throw when moved, `is_simple`, limits changed on the way, one of them invalid | `BucketCount`, `Linearizable` |
| `simple_rebuild` | 2 workers, 4 items in 4 full buckets, a new table of 2 growing to 4 or 8, fair | `EachItemOnce`, `RebuiltTable`, `RebuildEnds` |
| `lazy_locks` | 3 threads, 4 locks, hashpowers 1 to 3: segments of 1 or 2 with bucket operations and doublings, one segment also with `clear` and `rehash` | `LazyTypeOK`, `IndexAllocated`, `UnlocksOwn`, `WholeTableOwned` |
| `separate_parts` | each of these on its own: | |
| - `ItemPlacement` | 521 hashes with all partial keys, hashpowers 1 to 10 | `InOneOfItsBuckets`, `ReserveCalcSmallest` |
| - `BQueue` | an array of 4, 3 items | `IsBoundedQueue` |
| - `AlignedAllocator` | 16 bytes, pointers of 2, values of 3, alignments 1, 2, 4, arrays of 0 to 2 | `ArraysAligned`, `BlocksComeBack` |
| - `LockedTable` | 2 handles, 2 iterators, 2 tables, 3 contents, 2 calls of `lock_table` | `LockedTypeOK`, `OwnedOnce`, `OwnerKnown`, `ValidWhileLocked`, `VisitsEachOnce`, `EqualAtSameItem` |
| `rehash_race` | 2 threads: an insertion and a `rehash(2)` | `BucketCount`, violated |
| `upsert_expands` | 1 thread, minimum load factor 90% | `LoadFactorRespected`, violated |
| `rebuild_throws` | as `simple_rebuild`, insertions may throw | `StrongGuarantee`, violated |
| `construct_throws` | 1 thread, constructors may throw | `AllConstructed`, violated |

Why the bounds are enough.  The races in this code are between two calls, or
between two calls and a third that observes or undoes: three calls cover them, and `doubling`
gives each its own thread.  `wide_buckets`, which has many initial layouts and checks liveness, lets any two calls meet.  Four buckets with one slot make a path of three buckets (two
displacements, the second with three locks), every prefix of which the other thread can
invalidate; two buckets growing to four contain a doubling that moves some items and leaves others.
With two locks buckets share locks; with four, doubling a table of two buckets leaves
locks that only `UnlockLocksFn` gives back.  A queue of four fills up in the middle of a
bucket.  The initial table holds items in every layout that puts each in one of its two
buckets.  All threads are interchangeable, so the safety runs use symmetry; `wide_buckets` and
`simple_rebuild`, which check liveness, do not.

The other modules.  In `simple_rebuild` the items fill the old table, so that the new one
must double at least once with a worker in the middle of its insertion, and a worker has to
make paths of two displacements.  Two handles and two tables are the fewest with which a handle that owns one
table is assigned over with one that owns the other; two iterators, and two calls of `lock_table`, let an iterator
of the first locking see the second.  The contents are an empty table, one with items in its
first and last slot only, and one with empty buckets at the start, in the middle and after a full one.
Four locks and hashpowers up to 3 contain tables with fewer buckets than locks, as many, and
more.  In `BQueue` the indices go around the array any number of times.

`maximum_hashpower` is set in most instances, so that `HashPowers` bounds nothing but
the growth inside `cuckoo_expand_simple`, where the model's free layout would allow any.

**Fairness.**  `FairMapSpec` has weak fairness of `Step(t)` for each thread: a thread that
can take a step for ever is eventually scheduled.  The operating system gives that much.
Nothing is assumed of the spinlocks (`tbb::spin_rw_mutex` does not queue): a waiting thread
is only sure to get a lock that stays free.  That every call returns therefore relies
on the number of calls being finite (`MaxCalls`), and no such claim is made for an
unbounded stream of calls: with that, a retry loop may lose its race each time.

`FairRebuildSpec` assumes the same of the workers of `parallel_exec` and of the thread that waits
for them.

**Deadlock** is checked in all the runs: a state without successor is an error unless
all calls have been made and have returned (`Finished`), or the rebuilding is over (`Over`).

**Mutants.**  Every property of a passing run fails for a mutant of the definition it depends on; mutants are marked
as such where they are defined, and listed in `PROJECT.json`.

### What the properties say

* `Linearizable`: `CuckooMap` implements `ConcurrentMap`, where the abstract map is read
  off the buckets.  Each call changes it at most once, in the step in which it returns, and
  with the right result; displacement, doubling, rebuilding, and attempts that fail change
  nothing.  This is the table's main property.
* `Placed`, `UniqueKeys`, `CountExact`, `BucketCount`: the representation invariants.
  `Placed` exempts exactly the buckets whose lock a doubling still holds.
* `BucketsCurrent`: the assertion of `cuckoo_insert` (1589-1592), at every point where an
  operation owns its two buckets.
* `SnapshotValid`: a hashpower compared under the first lock stays valid although the other
  locks are taken later, since changing it takes all the locks.

* `LinearizableWithExceptions`: the same for `UserExceptions`, where a call may also end with an
  exception and then has no effect, although displacements it has made stay.  `NothingLeaked`: and it has
  nothing locked.
* `EachItemOnce`, `RebuiltTable`, `RebuildEnds`: `cuckoo_expand_simple` neither loses nor
  doubles an item, ends, and ends in a table that `CuckooMap`'s one step may produce.
* `OwnedOnce`, `OwnerKnown`: the locks of a table are given back once, by the one handle that
  says it has them.  `ValidWhileLocked`: an iterator passes `check_iterator` exactly while the
  `lock_table` call it stems from is in force; `era` and `born` are history variables for that.
  `VisitsEachOnce`, `EqualAtSameItem`: iteration is complete, in both directions, and ends
  where `end()` is.
* `IndexAllocated`: the assertion of `libcuckoo_lazy_array::operator[]`.  `UnlocksOwn`: a loop that unlocks
  gives back only what its thread took.  `WholeTableOwned`: `snapshot_and_lock_all` returns with
  every bucket locked, although the array grew while it ran.
* `IsBoundedQueue`: `b_queue` implements a FIFO queue of `MAX_CUCKOO_COUNT - 1` places.
* `BlocksComeBack`: `deallocate` finds the block whatever was written to the arrays.

## 4. Findings

1. **`rehash_race`** (code bug).  `cuckoo_fast_double` compares the hashpower under
   `expansion_lock_` (1868) and only then locks the table (1876).  `cuckoo_expand_simple`
   does not take `expansion_lock_`, so `rehash` or `reserve` can finish in
   between.  `cuckoo_fast_double` then doubles the *rebuilt* buckets and stores
   `current_hp + 1`, which is wrong for them: the table has eight buckets and hashpower 2.
2. **`upsert_expands`**.  `upsert` (592) expands without the load factor check that
   `insert` makes; the doc of `minimum_load_factor` (428-430) says such an expansion throws.
3. **`rebuild_throws`** (code bug).  `SimpleMoveBucketsFn` *moves* keys and values out of the old
   buckets (1914-1915).  If a later insertion throws, the new table is destroyed with the
   items it has.  The comment at 1851-1853 promises a strong guarantee.  It holds for types whose
   move leaves the source as it is, as in the unit test, and not for others.
4. **`construct_throws`** (code bug).  `setKV` (277) marks the slot occupied before it constructs the
   pair.  The unit test that would show it for `move_to_bucket` is commented out as broken.

Met while modelling, without a run of their own:

* With several lock segments (granularity above 0), `clear` in parallel with a doubling makes `UnlocksOwn` false:
  `AllUnlocker::release` (959) unlocks as many locks as are allocated when it runs, not as many as were taken.
  And `rehash` to a larger table makes `IndexAllocated` false, since `cuckoo_expand_simple` never calls
  `locks_.allocate`.  Adding these jobs to the programs of `MCLazyLocks` with a small segment shows both.
* A hash function that throws in `move_buckets` (1745) leaves items that were not moved, and `AllUnlocker` then unlocks
  locks that were given back already, maybe to others.
* `new_map` of `cuckoo_expand_simple` is made without a maximum hashpower (1958) and may outgrow that of its owner.
* `rehash` returns true although the size did not change (`rehash(0)` at hashpower 1).
* A counter may be below zero after displacements, so that the sum that `size` returns may be too, when it is read
  while items are inserted, displaced and erased.
* `AllUnlocker::operator=` (948-951) returns nothing, which is undefined behaviour
  (modelled as if it returned); the move assignment of `libcuckoo_lazy_array` (99) calls a function
  that does not exist, and is never instantiated.

Passing runs avoid the race of `rehash_race`: `doubling` makes no `rehash`, and in `rebuilding` no call uses
`cuckoo_fast_double` past its first test.  Those of `lazy_locks` have `clear` and `rehash` only with one segment.

## 5. Proofs

The runs check small instances.  The theorems hold for any number of threads, locks, keys
and buckets, any hash function, and any sequence of calls.

| Module | Theorem | Statement |
|---|---|---|
| `BucketLocksProofs` | `LocksInvariant` | `LocksSpec => []LocksInv` |
| | `LocksTypeCorrect`, `LocksExclusive`, `LocksSnapshotValid`, `LocksNoDeadlock` | `LocksSpec => []P` for `LocksTypeOK`, `Exclusion`, `SnapshotValid`, `NoDeadlock` |
| `CuckooMapProofs` | `MapInvariant` | `UserSpec => []MapInv` |
| | `TableFollowsProtocol` | `UserSpec => LocksSpec` |
| | `MapTypeCorrect`, `BucketCountHolds`, `PlacedHolds`, `UniqueKeysHolds`, `NothingLeakedHolds`, `BucketsCurrentHolds` | `UserSpec => []P` for `MapTypeOK`, `BucketCount`, `Placed`, `UniqueKeys`, `NothingLeaked`, `BucketsCurrent` |
| | `LockedTableFrozenHolds` | `UserSpec => LockedTableFrozen` |
| `LinearizableProofs` | `LinearizableHolds` | `MapSpec => Linearizable` |
| | `LinearizableWithExceptionsHolds` | `UserSpec => LinearizableWithExceptions` |
| | `CountExactHolds` | `UserSpec => []CountExact` |
| `SimpleRebuildProofs` | `RebuildInvariant` | `ThrowingSpec => []RebuildInv` |
| | `EachItemOnceHolds` | `ThrowingSpec => []EachItemOnce` |
| | `RebuiltTableHolds` | `ThrowingSpec => []RebuiltTable`, and `RebuildSpec => []` of both |
| `LockedTableProofs` | `TableInvariant` | `LockedSpec => []TableInv` |
| | `LockedTypeCorrect`, `OwnedOnceHolds`, `OwnerKnownHolds`, `ValidWhileLockedHolds`, `VisitsEachOnceHolds`, `EqualAtSameItemHolds` | `LockedSpec => []P` for the property of that name |
| `CuckooHashingProofs` | `ReserveCalcCorrect` | `reserve_calc(n)` is the smallest sufficient hashpower, for every `n` |
| `LazyLocksProofs` | `LazyTypeCorrect` | `LazySpec => []LazyTypeOK` |
| | `LazyInvariant` | `LazySpec => []LazyInv` |
| | `IndexAllocatedHolds`, `UnlocksOwnHolds`, `WholeTableOwnedHolds` | `LazySpec => []P` for `IndexAllocated`, `UnlocksOwn`, `WholeTableOwned` |
| `SeparatePartsProofs` | `StaysInItsBuckets`, `ReserveCalcAlways` | `PlacementSpec => []P` for `InOneOfItsBuckets`, `ReserveCalcSmallest` |
| | `QueueIsBounded` | `BSpec => IsBoundedQueue` |
| | `AllocatorInvariant`, `ArraysAlignedHolds`, `BlocksComeBackHolds` | `AllocSpec => []P` for `AllocInv`, `ArraysAligned`, `BlocksComeBack` |

`UserSpec` has all the steps of `MapSpec`, and one more at each use of user code.  So the
theorems about `UserSpec` cover the table with and without exceptions.

### Assumptions

Every module states those on its constants where it declares them, and every passing run
evaluates them.  They say what the code's types say: thread identities, `NoVal`, `Vacant` and
`None` are different from what they stand beside; sizes are positive; `kNumLocks` is a power of two; hashes
are natural numbers; the initial map has keys and values of the right sets.  Two deserve a
word.  `MAX_CUCKOO_COUNT >= 4` is what lets a search take up the two buckets it starts from
(512 in the code).  `FlagsAssumption` of `LockedTable` says that there are more heap cells than
objects that may point to one, so that `new` finds a free cell.

The theorems about `CuckooMap` and `UserExceptions` have two more hypotheses:

* `HashPowers = Nat`: no bound on the size of the table.  On an instance with a bound, doubling at the bound
  would leave the set of hashpowers; the runs keep away from it with `maximum_hashpower`.
* `RebuildsOrDoubles`: if the table doubles in place, which it does when moving an item cannot
  throw (`NothrowMove`), then no call is `rehash` or `reserve`.  Without it the theorems are false: this is
  the race of `rehash_race` (finding 1).  Any mix of calls is allowed for types that may throw when moved, where the table
  grows by `cuckoo_expand_simple` only; and any mix of the others for types that may not.

Those about `SimpleRebuild` need only the first: its calls are all insertions, by assumption on its constants
(`WorkerCallsAssumption`: the workers insert what is in the old table and nothing else).  The old
table may be any layout of any map.

Those about `LazyLocks`, except its type invariant, are about programs that keep to one lock segment when they
do one of two things (with any number of segments for the others):

* `RebuiltInOneSegment`: `rehash` and `reserve`, because `cuckoo_expand_simple` never allocates the locks
  for the buckets it adds;
* `ReleasedInOneSegment`: `clear` and `lock_table`, because the releaser unlocks as many locks as there are when it runs.

One segment is what the header is configured with by default.  Without these the theorems are false (section 4).

### The locking layer

`SnapshotValid` is not inductive: it must be known that a thread past
`check_hashpower` holds at least one lock, and that the thread that stores a new hashpower holds
all of them, exclusively.  `StageHolds` says both; with `Exclusion` the two cannot be
in that position together.  `LockOrder`, that a thread wants only locks above those it
holds, is what `TakeLock`'s choice of the lowest wanted lock maintains.

*No deadlock.*  Suppose every thread in a lock call is blocked.  Consider a thread
waiting for a lock `l`.  Some thread holds `l`; it is blocked too, so waits for a lock
above `l`, by `LockOrder`.  By descending induction over the locks, nobody waits for any.

### The hash arithmetic

`Xor` is a recursive function, and so are the loops of `reserve_calc`.  `XorInvolution` and `XorBits` give
what `alt_index` needs: `AltIndexInvolution` (the other bucket of the other bucket is the
bucket itself, so that a displaced item can be displaced again), and `BucketsAfterDoubling` with
`MovesUpRight` (after a doubling each of the two buckets is the old one or the old one plus the old size, and
`move_buckets` decides between the two as `index_hash` and `alt_index` do).

The library's induction rules take an operator as a parameter, which the provers cannot
instantiate.  Here induction is over a *set* of naturals instead (`SetInduction`, from the
well-foundedness of `<`), or over the subsets of a finite set.

### The table

`MapInv` is `ControlInv /\ TableOK /\ DataInv`:

* `ControlInv` says where the threads are and what they hold.  It contains `LocksInv`; for each
  place in the code, the stage of the lock call and that the locks asked for or held are
  those of the buckets used next (`RequestOK`); what the locals may be, among them that the
  path only has buckets of the table it was found for (`ThreadOK`); and that `expansion_lock_` goes
  with the doubling (`ExpansionOK`).
* `TableOK` is `BucketCount` with the types of the contents.
* `DataInv` is `PlacedInv`, `UpperVacant` and `UniqueInv`.

Why each is needed.  `Placed` alone is not inductive: `move_buckets` overwrites the bucket in
the new half, so nothing may be there yet (`UpperVacant`), and only the locks that the
doubling has not yet given back keep it so.  That displacement keeps an item in one of its two buckets
needs `AltIndexInvolution`, and that the buckets named in the path are locked and
the hashpower is that of the path (`ControlInv`, with `SnapshotValid` of the locking layer).  `UniqueKeys` is kept by an
insertion because the key's two buckets, where by `PlacedInv` it would have to be, are both locked while
it is looked for, after the last time they were unlocked.

*Steps.*  For each action there is a lemma for what it does to the control, one for the
data, and one for the abstract map.  Most actions give or take locks by an action of
`BucketLocks`, whose effect on its own thread and on the others is stated once (`OthersKept`,
`Released`).

*Linearizability.*  In each step, each thread's call takes effect and returns, or the contents, the
calls and the results are as before (`TakesEffect`).  The effect is that of `ConcurrentMap`
because the lookup under both locks finds the key exactly if it is in the map.
A displacement, a lock's share of a doubling, and a rebuilding keep the contents: they
move items and change none.

*Counters.*  `CountInv` says that the sum of the counters and the number of keys in the map
differ by a multiple of `SizeMod`.  A sum is taken with `SumFunction` over the locks; changing one counter
changes the sum by as much (`CounterChanged`).  The counters of single locks say nothing about the items behind them, since
displacements do not update them, so the invariant must be about the sum.  `move_buckets` adds to
one counter what it takes from another.

### Rebuilding

The workers' steps are steps of the table they insert into, so `new_map` keeps `MapInv` and every insertion takes
effect like one of `ConcurrentMap` (`EffectOfStep`).  `RebuildInv` adds what relates the two tables:

* `MovedInv`: `new_map` has exactly the items that are not in the old buckets, with their values.  So an
  insertion never meets its key, and by `NewInv` (no limits) it never throws: it can only return
  when the item is in (`InsertionResult`, `InsertionEffect`).  That is why the code need not look at the result.
* `WorkersInv`: no two workers are in the same old bucket, none is in one that is still
  pending, and behind its place nothing was moved yet.
* `WorkLeft`: every item that is left is in a pending bucket or before a worker.  When all workers are done, none is left.

`RebuiltTable` is more than that the maps agree: every item must be where lookups search for
it.  That follows from `PlacedInv` of `new_map`, since no doubling of it is under way once
nobody inserts; and a table with every item once and in one of its buckets is one of the `Layouts` from
which `ExpandSimple` of `CuckooMap` chooses (`LayoutOf`).  So the theorem about `SimpleRebuild` justifies the
one step that stands for it in `CuckooMap`.  `new_map` never shrinks, although it may itself be rebuilt, because its
insertions only ever ask for more (`HashpowerGrows`).

### Locked tables and their iterators

`TableInv` is `TableTypes /\ Ownership /\ InPlace`.  `OwnerKnown` and `ValidWhileLocked` are not
inductive by themselves: a handle and the iterators made from it share a boolean on the heap, and
clearing it must invalidate those iterators and no other object.  `FlagsApart` (two handles that own a table
do not share a boolean), `OwnersApart` (nor the table), `LockedByOwner` and `Backed` (the boolean of
a usable iterator is that of the handle that has its table) say so; `BornBefore` keeps an
iterator of an earlier locking from becoming valid again.  A move, an assignment and a destruction are
all composed of two changes, an object that hands its table over and one that gives it back;
each has one lemma.

`InPlace` says that as many items are before an iterator as it has made steps.  The loops of `++` and
`--` skip vacant slots and go on to the next bucket; the induction is over the
positions from the end (`++`) or from the start (`--`) of the array, for any contents.

### The lock array

`LazyInv` is `LazyTypes /\ GrowthInv /\ HeldInv`.  The allocated part of the array is always a first part of it
(`AllocatedPart`), so that "lock `l` is allocated" is `l < allocated_size`.  `GrowthInv` says that the locks of the current
hashpower are allocated, and those of the next once `allocate` has returned; that the expansion lock
is with the only thread that may allocate; and that a request has allocated locks only, which stays so since
the array never shrinks.  That settles `IndexAllocated`.

`HeldInv` gives for each place in the loops the exact set of locks the thread has.  The
loop of `snapshot_and_lock_all` may find more locks on a later round than on the first; when it ends, after comparing with
the size at that moment, it has them all.  A doubling that is past it allocates no more, and nobody else does, since it has the
expansion lock.  A clearing or a rebuilding has no such lock: another thread may allocate before the releaser has
run, which is why they are restricted to one segment, where `allocate` has nothing to do.

### The other parts

`BQueue`: a step of `b_queue` is a step of `BoundedQueue`, where the queue is read off the array from `first` to
`last`.  `AlignedAllocator`: `AllocInv` says that blocks do not overlap and that each array lies in the block that is
read before it, so that no write to an array reaches the pointer of another.

### Only model-checked

* Liveness (`EveryCallReturns`, `RebuildEnds`): the prover does not handle fairness or
  `ENABLED`.

## 6. Not modelled

* The destructor (no thread may use the table then) and the constructor's argument checks; the
  constructed table is the initial state.
* An exception of the hash function inside `move_buckets`: the table it leaves is broken, see above.
* Failing allocations of buckets; those of locks are (`AllocateFails`).
* How tbb schedules: a thread that waits in `parallel_for` inside `cuckoo_fast_double` may run other
  tasks, and could meet its own locks if these use the table.
* Memory orders: the atomics that are read without a lock (`hashpower_`, the counters) are
  sequentially consistent in the model.  A stale `hashpower_` is a snapshot taken earlier,
  and `check_hashpower` reads it again after acquiring a lock.  The `segments_` of the lock array are
  plain pointers in the code; the model reads them as if they were atomic.
* The exception classes and macros of `cuckoohash_util.hh`: no logic.
* CityHash, benchmarks, examples, tests.

## 7. Plan

Done: the components of the table, with their abstract specifications and the faults they handle; the proofs about
the locking layer, the table, the rebuilding, locked tables, the lock array, the queue, the allocator and the arithmetic.
Every safety property of a run that passes is proved.

Left: liveness stays with TLC.  Of the hypotheses of the theorems, `RebuildsOrDoubles` and the two about one lock segment
exclude behaviours that are really wrong; a version of the code without the faults of section 4 would be proved without them.
