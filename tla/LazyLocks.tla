------------------------------ MODULE LazyLocks ------------------------------
(***************************************************************************)
(* The array of locks when it is allocated lazily, in segments             *)
(* (LIBCUCKOO_LOCK_ARRAY_GRANULARITY above 0), and the code that walks     *)
(* over the allocated part of it while a doubling allocates more.          *)
(*                                                                         *)
(* snapshot_and_lock_all and AllUnlocker::release ask for allocated_size() *)
(* again on every round of their loops.  An operation on buckets is        *)
(* modelled as far as it locks and unlocks; the table's contents are left *)
(* to CuckooMap, and so is the difference between shared and exclusive.    *)
(***************************************************************************)
EXTENDS Integers, FiniteSetsExt

CONSTANTS
  Threads, NoThread,
  kNumLocks,          \* size() of the array
  InitialHashpower,   \* the hashpower the table was constructed with
  MaxHashpower,       \* maximum_hashpower
  Programs            \* the size of a segment, and what the threads do

ASSUME NoThreadAssumption == NoThread \notin Threads
ASSUME kNumLocksAssumption == kNumLocks \in Nat \ {0}
ASSUME PowerAssumption == MaxHashpower \in Nat /\ InitialHashpower \in 1 .. MaxHashpower
ASSUME ProgramsAssumption ==
  \A p \in Programs : /\ p.segment \in 1 .. kNumLocks /\ kNumLocks % p.segment = 0
                      /\ p.jobs \subseteq {"access", "double", "clear", "rehash"}

VARIABLES
  program,          \* the program that uses the table
  segments,         \* the segments that are allocated
  holder,           \* holder[l]: the thread that holds lock l
  hashpower,        \* hashpower_
  expansion_lock,   \* the thread that holds expansion_lock_
  job               \* job[t]: where thread t is in its job

lazyVars == <<program, segments, holder, hashpower, expansion_lock, job>>

\* 1 << OFFSET_BITS and 1 << SEGMENT_BITS.
SEGMENT_SIZE == program.segment
NUM_SEGMENTS == kNumLocks \div SEGMENT_SIZE

Locks == 0 .. kNumLocks - 1
hashsize(hp) == 2 ^ hp
lock_ind(bucket) == bucket % kNumLocks
AtMostLocks(n) == IF n < kNumLocks THEN n ELSE kNumLocks

get_segment(l) == l \div SEGMENT_SIZE

\* The segments that allocate(target) makes sure of.
SegmentsFor(target) == 0 .. get_segment(target - 1)

\* allocated_size: the segments are allocated from the first one on, without gaps.
allocated_size == SEGMENT_SIZE * Cardinality(segments)

(***************************************************************************)
(* Where a thread is (pc), with the hashpower it has read or will store,   *)
(* the locks it still has to take or to give back, and a loop's index:     *)
(*   "idle"     doing nothing                                              *)
(*   "lock"     lock_two, about to take the next lock                      *)
(*   "check"    check_hashpower                                            *)
(*   "using"    has the locks of its buckets                               *)
(*   "explock"  cuckoo_fast_double, about to take the expansion lock       *)
(*   "alloc"    locks_.allocate                                            *)
(*   "all"      snapshot_and_lock_all                                      *)
(*   "owned"    it has returned                                            *)
(*   "drain"    move_buckets and UnlockLocksFn, for the locks in todo      *)
(*   "release"  AllUnlocker::release                                       *)
(***************************************************************************)
Local(kind, pc, hp, todo) == [kind |-> kind, pc |-> pc, hp |-> hp, todo |-> todo, i |-> 0]
Idle == Local("none", "idle", 0, {})

At(t, pc) == job[t].pc = pc
Goto(t, local) == job' = [job EXCEPT ![t] = local]
Held(t) == {l \in Locks : holder[l] = t}

LazyInit ==
  /\ program \in Programs
  /\ segments = SegmentsFor(AtMostLocks(hashsize(InitialHashpower)))
  /\ holder = [l \in Locks |-> NoThread]
  /\ hashpower = InitialHashpower
  /\ expansion_lock = NoThread
  /\ job = [t \in Threads |-> Idle]

Give(ls) == holder' = [l \in Locks |-> IF l \in ls THEN NoThread ELSE holder[l]]
-----------------------------------------------------------------------------
(***************************************************************************)
(* Operations on up to two buckets.                                        *)
(***************************************************************************)
StartAccess(t) ==
  /\ At(t, "idle") /\ "access" \in program.jobs
  /\ \E b1, b2 \in 0 .. hashsize(hashpower) - 1 :
       Goto(t, Local("access", "lock", hashpower, {lock_ind(b1), lock_ind(b2)}))
  /\ UNCHANGED <<segments, holder, hashpower, expansion_lock>>

AccessLock(t) ==
  /\ At(t, "lock")
  /\ LET l == Min(job[t].todo)
     IN  /\ holder[l] = NoThread
         /\ holder' = [holder EXCEPT ![l] = t]
         /\ Goto(t, [job[t] EXCEPT !.todo = @ \ {l},
                                   !.pc = IF Held(t) = {} THEN "check"
                                          ELSE IF job[t].todo = {l} THEN "using" ELSE "lock"])
  /\ UNCHANGED <<segments, hashpower, expansion_lock>>

AccessCheck(t) ==
  /\ At(t, "check")
  /\ IF hashpower = job[t].hp
       THEN /\ Goto(t, [job[t] EXCEPT !.pc = IF job[t].todo = {} THEN "using" ELSE "lock"])
            /\ UNCHANGED holder
       ELSE Goto(t, Idle) /\ Give(Held(t))
  /\ UNCHANGED <<segments, hashpower, expansion_lock>>

AccessUnlock(t) ==
  /\ At(t, "using")
  /\ Give(Held(t)) /\ Goto(t, Idle)
  /\ UNCHANGED <<segments, hashpower, expansion_lock>>
-----------------------------------------------------------------------------
(***************************************************************************)
(* snapshot_and_lock_all and AllUnlocker.                                  *)
(***************************************************************************)
LockAll(t, kind, hp) == Goto(t, Local(kind, "all", hp, {}))

\* Mutant of LockAllStep: the loop stops one lock early.
LockAllStepShort(t) ==
  /\ At(t, "all")
  /\ IF job[t].i + 1 < allocated_size
       THEN /\ holder[job[t].i] = NoThread
            /\ holder' = [holder EXCEPT ![job[t].i] = t]
            /\ Goto(t, [job[t] EXCEPT !.i = @ + 1])
       ELSE UNCHANGED holder /\ Goto(t, [job[t] EXCEPT !.pc = "owned"])
  /\ UNCHANGED <<segments, hashpower, expansion_lock>>

\* One round of the loop of snapshot_and_lock_all.
LockAllStep(t) ==
  /\ At(t, "all")
  /\ IF job[t].i < allocated_size
       THEN /\ holder[job[t].i] = NoThread
            /\ holder' = [holder EXCEPT ![job[t].i] = t]
            /\ Goto(t, [job[t] EXCEPT !.i = @ + 1])
       ELSE UNCHANGED holder /\ Goto(t, [job[t] EXCEPT !.pc = "owned"])
  /\ UNCHANGED <<segments, hashpower, expansion_lock>>

\* One round of the loop of AllUnlocker::release.
ReleaseStep(t) ==
  /\ At(t, "release")
  /\ IF job[t].i < allocated_size
       THEN Give({job[t].i}) /\ Goto(t, [job[t] EXCEPT !.i = @ + 1])
       ELSE UNCHANGED holder /\ Goto(t, Idle)
  /\ UNCHANGED <<segments, hashpower, expansion_lock>>

\* clear, or a locked_table.
StartClear(t) ==
  /\ At(t, "idle") /\ "clear" \in program.jobs
  /\ LockAll(t, "clear", 0)
  /\ UNCHANGED <<segments, holder, hashpower, expansion_lock>>

\* cuckoo_expand_simple does not allocate locks for the buckets it adds.
StartRehash(t) ==
  /\ At(t, "idle") /\ "rehash" \in program.jobs
  /\ \E hp \in (1 .. MaxHashpower) \ {hashpower} :
       LockAll(t, IF hp > hashpower THEN "grow" ELSE "shrink", hp)
  /\ UNCHANGED <<segments, holder, hashpower, expansion_lock>>

\* The rebuilding was not overtaken by another one.
Rebuilds(t) ==
  \/ job[t].kind = "grow" /\ job[t].hp > hashpower
  \/ job[t].kind = "shrink" /\ job[t].hp < hashpower

\* The table is cleared or rebuilt, and then released.
OwnerDone(t) ==
  /\ At(t, "owned") /\ job[t].kind # "double"
  /\ hashpower' = IF Rebuilds(t) THEN job[t].hp ELSE hashpower
  /\ Goto(t, [job[t] EXCEPT !.pc = "release", !.i = 0])
  /\ UNCHANGED <<segments, holder, expansion_lock>>
-----------------------------------------------------------------------------
(***************************************************************************)
(* cuckoo_fast_double.                                                     *)
(***************************************************************************)
StartDouble(t) ==
  /\ At(t, "idle") /\ "double" \in program.jobs
  /\ hashpower < MaxHashpower
  /\ Goto(t, Local("double", "explock", hashpower, {}))
  /\ UNCHANGED <<segments, holder, hashpower, expansion_lock>>

TakeExpansionLock(t) ==
  /\ At(t, "explock") /\ expansion_lock = NoThread
  /\ IF hashpower = job[t].hp
       THEN expansion_lock' = t /\ Goto(t, [job[t] EXCEPT !.pc = "alloc"])
       ELSE UNCHANGED expansion_lock /\ Goto(t, Idle)
  /\ UNCHANGED <<segments, holder, hashpower>>

\* Mutant of MissingSegments: the locks of the current table are allocated.
MissingSegmentsCurrent(t) == SegmentsFor(AtMostLocks(hashsize(job[t].hp))) \ segments

\* Mutant of MissingSegments: one lock for every bucket, however many there are.
MissingSegmentsUncapped(t) == SegmentsFor(hashsize(job[t].hp + 1)) \ segments

\* The segments that allocate has yet to make.
MissingSegments(t) == SegmentsFor(AtMostLocks(hashsize(job[t].hp + 1))) \ segments

\* allocate makes its segments one after the other, and another thread may see
\* each of them as soon as it is there.
Allocate(t) ==
  /\ At(t, "alloc")
  /\ IF MissingSegments(t) # {}
       THEN segments' = segments \union {Min(MissingSegments(t))} /\ UNCHANGED job
       ELSE UNCHANGED segments /\ LockAll(t, "double", job[t].hp)
  /\ UNCHANGED <<holder, hashpower, expansion_lock>>

\* create_array throws, and undoes what it did for this segment.
AllocateFails(t) ==
  /\ At(t, "alloc") /\ MissingSegments(t) # {}
  /\ expansion_lock' = NoThread /\ Goto(t, Idle)
  /\ UNCHANGED <<segments, holder, hashpower>>

\* Mutant of LocksToMove: the locks of the new table.
LocksToMoveNew(hp) == 0 .. AtMostLocks(hashsize(hp + 1)) - 1

LocksToMove(hp) == 0 .. AtMostLocks(hashsize(hp)) - 1

Resize(t) ==
  /\ At(t, "owned") /\ job[t].kind = "double"
  /\ hashpower' = job[t].hp + 1
  /\ Goto(t, [job[t] EXCEPT !.pc = "drain", !.todo = LocksToMove(job[t].hp)])
  /\ UNCHANGED <<segments, holder, expansion_lock>>

\* move_buckets and UnlockLocksFn give back the locks, each in any order; i tells
\* the first from the second.
DrainStep(t) ==
  /\ At(t, "drain")
  /\ \E l \in job[t].todo : Give({l}) /\ Goto(t, [job[t] EXCEPT !.todo = @ \ {l}])
  /\ UNCHANGED <<segments, hashpower, expansion_lock>>

\* After the locks of the old table, the other allocated ones.
DrainRest(t) ==
  /\ At(t, "drain") /\ job[t].todo = {} /\ job[t].i # -1
  /\ Goto(t, [job[t] EXCEPT
                !.todo = AtMostLocks(hashsize(job[t].hp)) .. allocated_size - 1, !.i = -1])
  /\ UNCHANGED <<segments, holder, hashpower, expansion_lock>>

FinishDouble(t) ==
  /\ At(t, "drain") /\ job[t].todo = {} /\ job[t].i = -1
  /\ expansion_lock' = NoThread /\ Goto(t, Idle)
  /\ UNCHANGED <<segments, holder, hashpower>>
-----------------------------------------------------------------------------
LazyNext ==
  /\ UNCHANGED program
  /\ \E t \in Threads :
       \/ StartAccess(t) \/ AccessLock(t) \/ AccessCheck(t) \/ AccessUnlock(t)
       \/ LockAllStep(t) \/ ReleaseStep(t)
       \/ StartClear(t) \/ StartRehash(t) \/ OwnerDone(t)
       \/ StartDouble(t) \/ TakeExpansionLock(t) \/ Allocate(t) \/ AllocateFails(t)
       \/ Resize(t) \/ DrainStep(t) \/ DrainRest(t) \/ FinishDouble(t)

LazySpec == LazyInit /\ [][LazyNext]_lazyVars
-----------------------------------------------------------------------------
\* The type invariant; the allocated segments have no gaps.
LazyTypeOK ==
  /\ program \in Programs
  /\ \E n \in 1 .. NUM_SEGMENTS : segments = 0 .. n - 1
  /\ holder \in [Locks -> Threads \union {NoThread}]
  /\ hashpower \in 1 .. MaxHashpower
  /\ expansion_lock \in Threads \union {NoThread}
  /\ \A t \in Threads : job[t].todo \subseteq Locks /\ job[t].i \in -1 .. kNumLocks

\* The assertion of operator[]: a lock that an operation is about to take is in
\* an allocated segment, although the operation computed its index from a
\* hashpower that may have been stored a moment ago.
IndexAllocated ==
  \A t \in Threads : At(t, "lock") => get_segment(Min(job[t].todo)) \in segments

\* What snapshot_and_lock_all returns "releases the locks" it took: a lock that
\* is about to be given back by the releaser or by a doubling is held by the
\* thread that gives it back.
UnlocksOwn ==
  \A t \in Threads :
    /\ At(t, "release") /\ job[t].i < allocated_size => holder[job[t].i] = t
    /\ At(t, "drain") => job[t].todo \subseteq Held(t)

\* When snapshot_and_lock_all has returned, no other thread has or can get the
\* lock of a bucket, although locks were allocated while it ran.
WholeTableOwned ==
  \A t \in Threads : At(t, "owned") =>
    \A b \in 0 .. hashsize(hashpower) - 1 : holder[lock_ind(b)] = t
=============================================================================
