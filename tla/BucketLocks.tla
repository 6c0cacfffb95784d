----------------------------- MODULE BucketLocks -----------------------------
(***************************************************************************)
(* The locking layer of cuckoohash_map: the array of spinlocks, the        *)
(* hashpower they protect, and the ways the table takes and gives back     *)
(* locks.  Every table operation is built from the actions of this module. *)
(*                                                                         *)
(*   - lock_one, lock_two, lock_two_shared and lock_three take the locks   *)
(*     of one to three buckets in ascending order.  The buckets were       *)
(*     computed from a hashpower read without any lock, so right after the *)
(*     first lock is taken check_hashpower compares that hashpower with    *)
(*     the current one, and gives up if they differ.                       *)
(*   - snapshot_and_lock_all takes every lock in ascending order; only a   *)
(*     thread that has all of them may change the hashpower.               *)
(*   - a resize gives the locks back one at a time while it is still       *)
(*     moving items (move_buckets), everything else gives them all back.   *)
(*                                                                         *)
(* All the locks exist from the start: LIBCUCKOO_LOCK_ARRAY_GRANULARITY is *)
(* 0, so the lock array is one segment of kNumLocks spinlocks.             *)
(***************************************************************************)
EXTENDS Integers

CONSTANTS
  Threads,      \* the threads using the table
  NoThread,     \* the owner of a lock nobody holds exclusively
  kNumLocks,    \* number of spinlocks in locks_ (1 << 16 in the code)
  HashPowers    \* the hashpowers considered

ASSUME NoThreadAssumption == NoThread \notin Threads
ASSUME kNumLocksAssumption == kNumLocks \in Nat \ {0}
ASSUME HashPowersAssumption == HashPowers \subseteq Nat

VARIABLES
  hashpower,    \* hashpower_
  writer,       \* writer[l]: the thread that holds lock l exclusively
  readers,      \* readers[l]: the threads that hold lock l shared
  req           \* req[t]: how far thread t is with its current lock call

locksVars == <<hashpower, writer, readers, req>>

Locks == 0 .. kNumLocks - 1

\* The lock that guards a bucket.  kNumLocks is a power of two, so masking
\* with kNumLocks - 1 is the remainder.
lock_ind(bucket) == bucket % kNumLocks

(***************************************************************************)
(* A lock call goes through these stages:                                  *)
(*   "none"   no call under way and no lock held;                          *)
(*   "first"  waiting for the lowest of the wanted locks;                  *)
(*   "check"  holding it, check_hashpower is next;                         *)
(*   "rest"   hashpower checked; all locks are held once want is empty;    *)
(*   "all"    in snapshot_and_lock_all, finished once want is empty;       *)
(*   "drain"  holding what is left of all the locks: hashpower_ was        *)
(*            changed, or the first of them were given back.               *)
(***************************************************************************)
Stages == {"none", "first", "check", "rest", "all", "drain"}

Requests == [stage : Stages, hp : Nat, want : SUBSET Locks, shared : BOOLEAN]

NoRequest == [stage |-> "none", hp |-> 0, want |-> {}, shared |-> FALSE]

\* The locks thread t holds, in either mode.
Held(t) == {l \in Locks : writer[l] = t \/ t \in readers[l]}

\* Thread t has every lock it asked for.
LocksGranted(t) == req[t].stage \in {"rest", "all"} /\ req[t].want = {}

LocksInit ==
  /\ hashpower \in HashPowers
  /\ writer = [l \in Locks |-> NoThread]
  /\ readers = [l \in Locks |-> {}]
  /\ req = [t \in Threads |-> NoRequest]
-----------------------------------------------------------------------------
(***************************************************************************)
(* The spinlock (tbb::spin_rw_mutex behind lock, lock_shared, unlock).     *)
(***************************************************************************)
\* Mutant of Available: an exclusive lock does not wait for the readers.
AvailableDespiteReaders(l, shared) == writer[l] = NoThread

Available(l, shared) ==
  /\ writer[l] = NoThread
  /\ shared \/ readers[l] = {}

Acquire(t, l, shared) ==
  /\ Available(l, shared)
  /\ writer' = IF shared THEN writer ELSE [writer EXCEPT ![l] = t]
  /\ readers' = IF shared THEN [readers EXCEPT ![l] = @ \union {t}] ELSE readers

ReleaseLocks(t, ls) ==
  /\ writer' = [l \in Locks |->
                  IF l \in ls /\ writer[l] = t THEN NoThread ELSE writer[l]]
  /\ readers' = [l \in Locks |->
                  IF l \in ls THEN readers[l] \ {t} ELSE readers[l]]
-----------------------------------------------------------------------------
(***************************************************************************)
(* The lock calls.                                                         *)
(***************************************************************************)

\* A lock_ call for the locks ls, with buckets computed from hashpower hp.
\* The caller holds no lock: run_cuckoo releases its two buckets before it
\* searches, and the path functions keep no lock from one step to the next.
LockBuckets(t, hp, ls, shared) ==
  /\ req[t].stage = "none"
  /\ ls # {}
  /\ req' = [req EXCEPT ![t] = [stage |-> "first", hp |-> hp,
                                want |-> ls, shared |-> shared]]
  /\ UNCHANGED <<hashpower, writer, readers>>

\* Mutant of LockAll: the locks are taken shared.
LockAllShared(t) ==
  /\ req[t].stage = "none"
  /\ req' = [req EXCEPT ![t] = [stage |-> "all", hp |-> 0,
                                want |-> Locks, shared |-> TRUE]]
  /\ UNCHANGED <<hashpower, writer, readers>>

\* snapshot_and_lock_all starts on the whole lock array.
LockAll(t) ==
  /\ req[t].stage = "none"
  /\ req' = [req EXCEPT ![t] = [stage |-> "all", hp |-> 0,
                                want |-> Locks, shared |-> FALSE]]
  /\ UNCHANGED <<hashpower, writer, readers>>

\* Mutant of TakeLock: lock_two and lock_three do not sort the lock indices.
TakeLockUnsorted(t) ==
  /\ req[t].stage \in {"first", "rest", "all"}
  /\ \E l \in req[t].want :
       /\ Acquire(t, l, req[t].shared)
       /\ req' = [req EXCEPT
                    ![t].stage = IF @ = "first" THEN "check" ELSE @,
                    ![t].want = @ \ {l}]
  /\ UNCHANGED hashpower

\* The lock call takes its next lock, always the lowest one it still wants.
TakeLock(t) ==
  /\ req[t].stage \in {"first", "rest", "all"}
  /\ \E l \in req[t].want :
       /\ \A m \in req[t].want : l <= m
       /\ Acquire(t, l, req[t].shared)
       /\ req' = [req EXCEPT
                    ![t].stage = IF @ = "first" THEN "check" ELSE @,
                    ![t].want = @ \ {l}]
  /\ UNCHANGED hashpower

\* Mutant of HashpowerUnchanged: lock_two without its check_hashpower.
HashpowerNotChecked(t) ==
  /\ req[t].stage = "check"
  /\ req' = [req EXCEPT ![t].stage = "rest"]
  /\ UNCHANGED <<hashpower, writer, readers>>

\* check_hashpower finds the hashpower the buckets were computed from.
HashpowerUnchanged(t) ==
  /\ req[t].stage = "check"
  /\ hashpower = req[t].hp
  /\ req' = [req EXCEPT ![t].stage = "rest"]
  /\ UNCHANGED <<hashpower, writer, readers>>

\* Mutant of HashpowerChanged: check_hashpower throws without unlocking.
HashpowerChangedKeepsLock(t) ==
  /\ req[t].stage = "check"
  /\ hashpower # req[t].hp
  /\ req' = [req EXCEPT ![t] = NoRequest]
  /\ UNCHANGED <<hashpower, writer, readers>>

\* check_hashpower finds another hashpower: it unlocks the one lock taken so
\* far and throws hashpower_changed.
HashpowerChanged(t) ==
  /\ req[t].stage = "check"
  /\ hashpower # req[t].hp
  /\ ReleaseLocks(t, Held(t))
  /\ req' = [req EXCEPT ![t] = NoRequest]
  /\ UNCHANGED hashpower

\* Some or all of the locks of a finished lock call are given back: by
\* ~BucketContainer, by ~AllUnlocker, or one at a time by move_buckets.
Unlock(t, ls) ==
  /\ LocksGranted(t) \/ req[t].stage = "drain"
  /\ ls # {} /\ ls \subseteq Held(t)
  /\ ReleaseLocks(t, ls)
  /\ LET rest == [req[t] EXCEPT !.stage = IF @ = "all" THEN "drain" ELSE @]
     IN  req' = [req EXCEPT ![t] = IF ls = Held(t) THEN NoRequest ELSE rest]
  /\ UNCHANGED hashpower

\* Mutant of set_hashpower: the hashpower stored is one too large.
set_hashpower_plus_one(t, hp) ==
  /\ req[t].stage = "all" /\ req[t].want = {}
  /\ hashpower' = hp + 1
  /\ req' = [req EXCEPT ![t].stage = "drain"]
  /\ UNCHANGED <<writer, readers>>

\* A resize stores the new hashpower while it has every lock.
set_hashpower(t, hp) ==
  /\ req[t].stage = "all" /\ req[t].want = {}
  /\ hashpower' = hp
  /\ req' = [req EXCEPT ![t].stage = "drain"]
  /\ UNCHANGED <<writer, readers>>
-----------------------------------------------------------------------------
LocksNext ==
  \E t \in Threads :
    \/ \E hp \in HashPowers, ls \in SUBSET Locks, shared \in BOOLEAN :
         LockBuckets(t, hp, ls, shared)
    \/ LockAll(t)
    \/ TakeLock(t)
    \/ HashpowerUnchanged(t)
    \/ HashpowerChanged(t)
    \/ \E ls \in SUBSET Locks : Unlock(t, ls)
    \/ \E hp \in HashPowers : set_hashpower(t, hp)

\* The locking protocol: cuckoohash_map uses its locks and changes hashpower_
\* only in these ways.
LocksSpec == LocksInit /\ [][LocksNext]_locksVars
-----------------------------------------------------------------------------
\* The type invariant of the locking layer.
LocksTypeOK ==
  /\ hashpower \in HashPowers
  /\ writer \in [Locks -> Threads \union {NoThread}]
  /\ readers \in [Locks -> SUBSET Threads]
  /\ req \in [Threads -> Requests]

\* A lock somebody holds exclusively has no readers: the buckets behind it are
\* never written by one thread while another one reads them.
Exclusion ==
  \A l \in Locks : writer[l] # NoThread => readers[l] = {}

\* What snapshot_and_lock_two promises: the buckets and locks that correspond
\* to a hash value stay correct for as long as the locks are held.  Once
\* check_hashpower has succeeded, the hashpower the buckets were computed from
\* is the table's hashpower until the last of the locks is given back,
\* although only the first lock was held when it was compared.
SnapshotValid ==
  \A t \in Threads : req[t].stage = "rest" => req[t].hp = hashpower

\* Locks are taken in ascending order: all that a thread holds is below all
\* that it still wants ("always locking the earlier index first").
LockOrder ==
  \A t \in Threads : \A h \in Held(t), w \in req[t].want : h < w

\* The lock call of thread t cannot get its next lock.
Blocked(t) ==
  /\ req[t].stage \in {"first", "rest", "all"}
  /\ \E l \in req[t].want :
       /\ \A m \in req[t].want : l <= m
       /\ ~ Available(l, req[t].shared)

\* Bucket locks cannot deadlock: while any lock call is under way or any lock
\* is held, some such thread can take its next lock or give locks back.  This
\* is what lock_two and lock_three sort the lock indices for.
NoDeadlock ==
  (\E t \in Threads : req[t].stage # "none")
     => \E t \in Threads : req[t].stage # "none" /\ ~ Blocked(t)

\* What a thread holds at each stage of a lock call: nothing outside one, at
\* least one lock from check_hashpower on, and, in snapshot_and_lock_all,
\* exclusively every lock that is no longer wanted.
StageHolds ==
  \A t \in Threads :
    /\ req[t].stage \in {"none", "first"} => Held(t) = {}
    /\ req[t].stage \in {"check", "rest"} => Held(t) # {}
    /\ req[t].stage = "all" =>
         ~ req[t].shared /\ \A l \in Locks \ req[t].want : writer[l] = t
    /\ req[t].stage \in {"none", "drain"} => req[t].want = {}

\* The inductive invariant of the locking layer.
LocksInv ==
  LocksTypeOK /\ Exclusion /\ LockOrder /\ StageHolds /\ SnapshotValid
=============================================================================
