------------------------- MODULE BucketLocksProofs -------------------------
(***************************************************************************)
(* Proofs about the locking layer, for any number of threads, any number   *)
(* of locks and any set of hashpowers.                                     *)
(***************************************************************************)
EXTENDS BucketLocks, TLAPS, WellFoundedInduction

USE NoThreadAssumption, kNumLocksAssumption, HashPowersAssumption

\* The locking layer starts in a state of the inductive invariant.
LEMMA LocksInitInv == LocksInit => LocksInv
BY DEF LocksInit, LocksInv, LocksTypeOK, Exclusion, LockOrder, StageHolds,
       SnapshotValid, NoRequest, Requests, Stages, Held, Locks

\* Releasing locks takes nothing from, and gives nothing to, other threads.
LEMMA ReleaseLocksHeld ==
  ASSUME LocksTypeOK, NEW t \in Threads, NEW ls \in SUBSET Locks,
         ReleaseLocks(t, ls)
  PROVE  /\ writer' \in [Locks -> Threads \union {NoThread}]
         /\ readers' \in [Locks -> SUBSET Threads]
         /\ Held(t)' = Held(t) \ ls
         /\ \A u \in Threads \ {t} : Held(u)' = Held(u)
         /\ \A l \in Locks, u \in Threads \ {t} : writer[l] = u => writer'[l] = u
         /\ Exclusion => Exclusion'
BY DEF ReleaseLocks, LocksTypeOK, Held, Locks, Exclusion

\* Taking a lock adds it to the locks of the one thread that takes it.
LEMMA AcquireHeld ==
  ASSUME LocksTypeOK, NEW t \in Threads, NEW l \in Locks,
         NEW shared \in BOOLEAN, Acquire(t, l, shared)
  PROVE  /\ writer' \in [Locks -> Threads \union {NoThread}]
         /\ readers' \in [Locks -> SUBSET Threads]
         /\ Held(t)' = Held(t) \union {l}
         /\ \A u \in Threads \ {t} : Held(u)' = Held(u)
         /\ \A m \in Locks, u \in Threads : writer[m] = u => writer'[m] = u
         /\ ~ shared => writer'[l] = t
         /\ Exclusion => Exclusion'
<1>1. CASE shared
  BY <1>1 DEF Acquire, Available, LocksTypeOK, Held, Locks, Exclusion
<1>2. CASE ~ shared
  BY <1>2 DEF Acquire, Available, LocksTypeOK, Held, Locks, Exclusion
<1>3. QED
  BY <1>1, <1>2

-----------------------------------------------------------------------------
(***************************************************************************)
(* One lemma per action: it preserves the inductive invariant.             *)
(***************************************************************************)

\* Asking for locks changes nothing but the request of the thread.
LEMMA LockBucketsInv ==
  ASSUME LocksInv, NEW t \in Threads, NEW hp \in HashPowers,
         NEW ls \in SUBSET Locks, NEW shared \in BOOLEAN,
         LockBuckets(t, hp, ls, shared)
  PROVE  LocksInv'
<1> USE DEF LocksInv, LockBuckets
<1>1. LocksTypeOK'
  BY DEF LocksTypeOK, Requests, Stages
<1>2. \A u \in Threads : Held(u)' = Held(u)
  BY DEF Held
<1>3. Exclusion' /\ SnapshotValid'
  BY DEF Exclusion, SnapshotValid, LocksTypeOK
<1>4. LockOrder' /\ StageHolds'
  BY <1>2 DEF LockOrder, StageHolds, LocksTypeOK
<1>5. QED
  BY <1>1, <1>3, <1>4

\* snapshot_and_lock_all starts without a lock.
LEMMA LockAllInv ==
  ASSUME LocksInv, NEW t \in Threads, LockAll(t)
  PROVE  LocksInv'
<1> USE DEF LocksInv, LockAll
<1>1. LocksTypeOK'
  BY DEF LocksTypeOK, Requests, Stages
<1>2. \A u \in Threads : Held(u)' = Held(u)
  BY DEF Held
<1>3. Exclusion' /\ SnapshotValid'
  BY DEF Exclusion, SnapshotValid, LocksTypeOK
<1>4. LockOrder' /\ StageHolds'
  BY <1>2 DEF LockOrder, StageHolds, LocksTypeOK
<1>5. QED
  BY <1>1, <1>3, <1>4

\* Taking the lowest wanted lock keeps the ascending order.
LEMMA TakeLockInv ==
  ASSUME LocksInv, NEW t \in Threads, TakeLock(t)
  PROVE  LocksInv'
<1> USE DEF LocksInv
<1>1. PICK l \in req[t].want :
        /\ \A m \in req[t].want : l <= m
        /\ Acquire(t, l, req[t].shared)
        /\ req' = [req EXCEPT
                     ![t].stage = IF @ = "first" THEN "check" ELSE @,
                     ![t].want = @ \ {l}]
  BY DEF TakeLock
<1>2. req[t].stage \in {"first", "rest", "all"} /\ hashpower' = hashpower
  BY DEF TakeLock
<1>3. /\ req \in [Threads -> Requests] /\ l \in Locks
      /\ req[t].shared \in BOOLEAN /\ req[t].want \subseteq Locks
  BY <1>1 DEF LocksTypeOK, Requests
<1>4. /\ req'[t].stage = IF req[t].stage = "first" THEN "check" ELSE req[t].stage
      /\ req'[t].want = req[t].want \ {l}
      /\ req'[t].hp = req[t].hp
      /\ req'[t].shared = req[t].shared
      /\ \A u \in Threads \ {t} : req'[u] = req[u]
      /\ req' \in [Threads -> Requests]
  BY <1>1, <1>2, <1>3 DEF Requests, Stages
<1>5. Acquire(t, l, req[t].shared)
  BY <1>1
<1>6. /\ writer' \in [Locks -> Threads \union {NoThread}]
      /\ readers' \in [Locks -> SUBSET Threads]
      /\ Held(t)' = Held(t) \union {l}
      /\ \A u \in Threads \ {t} : Held(u)' = Held(u)
      /\ \A m \in Locks, u \in Threads : writer[m] = u => writer'[m] = u
      /\ ~ req[t].shared => writer'[l] = t
      /\ Exclusion'
  <2> DEFINE shared == req[t].shared
  <2>1. LocksTypeOK /\ Exclusion
    OBVIOUS
  <2>2. l \in Locks /\ shared \in BOOLEAN /\ Acquire(t, l, shared)
    BY <1>3, <1>5
  <2> HIDE DEF shared, LocksInv
  <2>3. /\ writer' \in [Locks -> Threads \union {NoThread}]
        /\ readers' \in [Locks -> SUBSET Threads]
        /\ Held(t)' = Held(t) \union {l}
        /\ \A u \in Threads \ {t} : Held(u)' = Held(u)
        /\ \A m \in Locks, u \in Threads : writer[m] = u => writer'[m] = u
        /\ ~ shared => writer'[l] = t
        /\ Exclusion'
    BY ONLY <2>1, <2>2, AcquireHeld, t \in Threads
  <2>4. QED
    BY <2>3 DEF shared
<1>7. LocksTypeOK'
  BY <1>2, <1>4, <1>6 DEF LocksTypeOK
<1>8. LockOrder'
  <2>1. \A h \in Held(t)', w \in req'[t].want : h < w
    BY <1>1, <1>3, <1>4, <1>6 DEF LockOrder, Locks, Held
  <2>2. QED
    BY <2>1, <1>4, <1>6 DEF LockOrder
<1>9. StageHolds'
  <2>1. Held(t)' # {} /\ \A u \in Threads \ {t} : Held(u)' = Held(u)
    BY <1>6
  <2>2. /\ \A m \in Locks, u \in Threads : writer[m] = u => writer'[m] = u
        /\ ~ req[t].shared => writer'[l] = t
    BY <1>6
  <2>3. ASSUME NEW u \in Threads, req'[u].stage = "all"
        PROVE  /\ ~ req'[u].shared
               /\ \A m \in Locks \ req'[u].want : writer'[m] = u
    BY <2>2, <2>3, <1>2, <1>3, <1>4 DEF StageHolds
  <2>4. ASSUME NEW u \in Threads
        PROVE  /\ req'[u].stage \in {"none", "first"} => Held(u)' = {}
               /\ req'[u].stage \in {"check", "rest"} => Held(u)' # {}
               /\ req'[u].stage \in {"none", "drain"} => req'[u].want = {}
    <3>1. CASE u = t
      BY <3>1, <2>1, <1>2, <1>4
    <3>2. CASE u # t
      BY <3>2, <2>1, <1>4 DEF StageHolds
    <3>3. QED
      BY <3>1, <3>2
  <2>5. QED
    BY <2>3, <2>4 DEF StageHolds
<1>10. SnapshotValid'
  BY <1>2, <1>4 DEF SnapshotValid
<1>11. QED
  BY <1>6, <1>7, <1>8, <1>9, <1>10

\* check_hashpower succeeds only when the two hashpowers are the same.
LEMMA HashpowerUnchangedInv ==
  ASSUME LocksInv, NEW t \in Threads, HashpowerUnchanged(t)
  PROVE  LocksInv'
<1> USE DEF LocksInv, HashpowerUnchanged
<1>1. LocksTypeOK'
  BY DEF LocksTypeOK, Requests, Stages
<1>2. \A u \in Threads : Held(u)' = Held(u)
  BY DEF Held
<1>3. Exclusion' /\ SnapshotValid'
  BY DEF Exclusion, SnapshotValid, LocksTypeOK, Requests
<1>4. LockOrder' /\ StageHolds'
  BY <1>2 DEF LockOrder, StageHolds, LocksTypeOK, Requests
<1>5. QED
  BY <1>1, <1>3, <1>4

\* When check_hashpower fails, nothing is left locked.
LEMMA HashpowerChangedInv ==
  ASSUME LocksInv, NEW t \in Threads, HashpowerChanged(t)
  PROVE  LocksInv'
<1> USE DEF LocksInv
<1>1. ReleaseLocks(t, Held(t)) /\ req' = [req EXCEPT ![t] = NoRequest]
      /\ hashpower' = hashpower
  BY DEF HashpowerChanged
<1>2. Held(t) \in SUBSET Locks
  BY DEF Held
<1>3. LocksTypeOK'
  BY <1>1, <1>2, ReleaseLocksHeld DEF LocksTypeOK, NoRequest, Requests, Stages
<1>4. Exclusion' /\ SnapshotValid'
  BY <1>1, <1>2, ReleaseLocksHeld DEF SnapshotValid, LocksTypeOK, NoRequest
<1>5. Held(t)' = {} /\ \A u \in Threads \ {t} : Held(u)' = Held(u)
  BY <1>1, <1>2, ReleaseLocksHeld
<1>6. LockOrder'
  BY <1>1, <1>5 DEF LockOrder, LocksTypeOK, NoRequest
<1>7. StageHolds'
  BY <1>1, <1>2, <1>5, ReleaseLocksHeld DEF StageHolds, LocksTypeOK, NoRequest
<1>8. QED
  BY <1>3, <1>4, <1>6, <1>7

\* Giving back some of the locks leaves a thread that still holds the others
\* in a stage that says so.
LEMMA UnlockInv ==
  ASSUME LocksInv, NEW t \in Threads, NEW ls \in SUBSET Locks, Unlock(t, ls)
  PROVE  LocksInv'
<1> USE DEF LocksInv
<1>1. /\ ReleaseLocks(t, ls) /\ hashpower' = hashpower
      /\ req[t].stage \in {"rest", "all", "drain"} /\ req[t].want = {}
      /\ ls \subseteq Held(t)
  BY DEF Unlock, LocksGranted, StageHolds
<1>2. /\ \A u \in Threads \ {t} : req'[u] = req[u]
      /\ req' \in [Threads -> Requests]
      /\ ls = Held(t) => req'[t] = NoRequest
      /\ ls # Held(t) => /\ req'[t].stage = IF req[t].stage = "all" THEN "drain"
                                            ELSE req[t].stage
                         /\ req'[t].want = {}
                         /\ req'[t].hp = req[t].hp
  <2> DEFINE rest == [req[t] EXCEPT !.stage = IF @ = "all" THEN "drain" ELSE @]
  <2>1. req \in [Threads -> Requests]
    BY DEF LocksTypeOK
  <2>2. /\ rest \in Requests /\ rest.want = {} /\ rest.hp = req[t].hp
        /\ rest.stage = IF req[t].stage = "all" THEN "drain" ELSE req[t].stage
    BY <2>1, <1>1 DEF Requests, Stages
  <2>3. NoRequest \in Requests
    BY DEF NoRequest, Requests, Stages
  <2>4. req' = [req EXCEPT ![t] = IF ls = Held(t) THEN NoRequest ELSE rest]
    BY DEF Unlock
  <2> HIDE DEF rest
  <2>5. QED
    BY <2>1, <2>2, <2>3, <2>4
<1>3. LocksTypeOK'
  BY <1>1, <1>2, ReleaseLocksHeld DEF LocksTypeOK
<1>4. Exclusion'
  BY <1>1, ReleaseLocksHeld
<1>5. SnapshotValid'
  BY <1>1, <1>2 DEF SnapshotValid, NoRequest
<1>6. Held(t)' = Held(t) \ ls /\ \A u \in Threads \ {t} : Held(u)' = Held(u)
  BY <1>1, ReleaseLocksHeld
<1>7. LockOrder'
  BY <1>1, <1>2, <1>6 DEF LockOrder, NoRequest
<1>8. StageHolds'
  <2>1. ASSUME NEW u \in Threads \ {t}, req'[u].stage = "all"
        PROVE  ~ req'[u].shared /\ \A l \in Locks \ req'[u].want : writer'[l] = u
    BY <2>1, <1>1, <1>2, ReleaseLocksHeld DEF StageHolds
  <2>2. req'[t].stage # "all"
    BY <1>1, <1>2 DEF NoRequest
  <2>3. ASSUME NEW u \in Threads
        PROVE  /\ req'[u].stage \in {"none", "first"} => Held(u)' = {}
               /\ req'[u].stage \in {"check", "rest"} => Held(u)' # {}
               /\ req'[u].stage \in {"none", "drain"} => req'[u].want = {}
    <3>1. CASE u = t /\ ls = Held(t)
      BY <3>1, <1>2, <1>6 DEF NoRequest
    <3>2. CASE u = t /\ ls # Held(t)
      BY <3>2, <1>1, <1>2, <1>6
    <3>3. CASE u # t
      BY <3>3, <1>2, <1>6 DEF StageHolds
    <3>4. QED
      BY <3>1, <3>2, <3>3
  <2>4. QED
    BY <2>1, <2>2, <2>3 DEF StageHolds
<1>9. QED
  BY <1>3, <1>4, <1>5, <1>7, <1>8

\* The hashpower changes only when no other thread holds a lock, so no thread
\* that has passed check_hashpower is left with buckets of the old hashpower.
LEMMA SetHashpowerInv ==
  ASSUME LocksInv, NEW t \in Threads, NEW hp \in HashPowers,
         set_hashpower(t, hp)
  PROVE  LocksInv'
<1> USE DEF LocksInv, set_hashpower
<1>1. LocksTypeOK'
  BY DEF LocksTypeOK, Requests, Stages
<1>2. \A u \in Threads : Held(u)' = Held(u)
  BY DEF Held
<1>3. \A u \in Threads \ {t} : Held(u) = {}
  BY DEF Held, StageHolds, Exclusion, LocksTypeOK
<1>4. Exclusion' /\ SnapshotValid'
  BY <1>3 DEF Exclusion, SnapshotValid, StageHolds, LocksTypeOK, Requests
<1>5. LockOrder' /\ StageHolds'
  BY <1>2 DEF LockOrder, StageHolds, LocksTypeOK, Requests
<1>6. QED
  BY <1>1, <1>4, <1>5
-----------------------------------------------------------------------------
\* LocksInv is inductive.
LEMMA LocksNextInv == LocksInv /\ [LocksNext]_locksVars => LocksInv'
<1> SUFFICES ASSUME LocksInv, [LocksNext]_locksVars
             PROVE  LocksInv'
  OBVIOUS
<1>1. CASE UNCHANGED locksVars
  BY <1>1 DEF locksVars, LocksInv, LocksTypeOK, Exclusion, LockOrder,
              StageHolds, SnapshotValid, Held
<1>2. CASE LocksNext
  BY <1>2, LockBucketsInv, LockAllInv, TakeLockInv, HashpowerUnchangedInv,
     HashpowerChangedInv, UnlockInv, SetHashpowerInv DEF LocksNext
<1>3. QED
  BY <1>1, <1>2

\* The inductive invariant holds in every reachable state of the locking
\* layer, whatever the number of threads and locks.
THEOREM LocksInvariant == LocksSpec => []LocksInv
BY LocksInitInv, LocksNextInv, PTL DEF LocksSpec

\* The type invariant of the locking layer.
THEOREM LocksTypeCorrect == LocksSpec => []LocksTypeOK
<1>1. LocksInv => LocksTypeOK
  BY DEF LocksInv
<1>2. QED
  BY <1>1, LocksInvariant, PTL

\* No bucket is written by one thread while another one holds its lock.
THEOREM LocksExclusive == LocksSpec => []Exclusion
<1>1. LocksInv => Exclusion
  BY DEF LocksInv
<1>2. QED
  BY <1>1, LocksInvariant, PTL

\* The hashpower that lock_one, lock_two and lock_three were called with stays
\* the table's hashpower until the last lock of the call is given back.
THEOREM LocksSnapshotValid == LocksSpec => []SnapshotValid
<1>1. LocksInv => SnapshotValid
  BY DEF LocksInv
<1>2. QED
  BY <1>1, LocksInvariant, PTL
-----------------------------------------------------------------------------
(***************************************************************************)
(* Deadlock freedom.  If every active thread were blocked, look at the one *)
(* that waits for the highest lock: whoever holds that lock is active, and *)
(* by LockOrder waits for a higher one.                                    *)
(***************************************************************************)

\* A non-empty set of lock indices has a highest element.
LEMMA HighestLock ==
  ASSUME NEW S \in SUBSET Locks, S # {}
  PROVE  \E l \in S : \A m \in S : m <= l
<1> DEFINE T == {kNumLocks - l : l \in S}
           R == OpToRel(<, Nat)
<1>1. T \subseteq Nat /\ T # {}
  BY DEF Locks
<1>2. \A x, y \in Nat : y < x => <<y, x>> \in R
  BY DEF OpToRel
<1>3. IsWellFoundedOn(R, Nat)
  BY NatLessThanWellFounded
<1> HIDE DEF T, R
<1>4. PICK x \in T : \A y \in T : ~ (<<y, x>> \in R)
  BY <1>1, <1>3, WFMin
<1>5. ASSUME NEW y \in T
      PROVE  x <= y
  <2>1. x \in Nat /\ y \in Nat
    BY <1>1
  <2>2. ~ (<<y, x>> \in R)
    BY <1>4
  <2>3. ~ (y < x)
    BY <1>2, <2>1, <2>2, Zenon
  <2>4. QED
    BY <2>1, <2>3
<1>6. PICK l \in S : x = kNumLocks - l
  BY <1>4 DEF T
<1>7. \A m \in S : m <= l
  BY <1>5, <1>6 DEF T, Locks
<1>8. QED
  BY <1>7

\* A thread that cannot get its next lock is waiting for a lock that another
\* active thread holds.
LEMMA BlockedByHolder ==
  ASSUME LocksInv, NEW t \in Threads, NEW l \in Locks,
         ~ Available(l, req[t].shared)
  PROVE  \E u \in Threads : l \in Held(u) /\ req[u].stage # "none"
<1>1. PICK u \in Threads : writer[l] = u \/ u \in readers[l]
  BY DEF LocksInv, LocksTypeOK, Available
<1>2. l \in Held(u)
  BY <1>1 DEF Held
<1>3. QED
  BY <1>2 DEF LocksInv, StageHolds

\* The bucket locks cannot deadlock.
THEOREM LocksNoDeadlock == LocksSpec => []NoDeadlock
<1>1. LocksInv => NoDeadlock
  <2> SUFFICES ASSUME LocksInv, NEW t0 \in Threads, req[t0].stage # "none",
                      \A t \in Threads : req[t].stage # "none" => Blocked(t)
               PROVE  FALSE
    BY DEF NoDeadlock
  <2> DEFINE Awaits(t, l) == /\ req[t].stage # "none"
                             /\ l \in req[t].want
                             /\ ~ Available(l, req[t].shared)
             S == {l \in Locks : \E t \in Threads : Awaits(t, l)}
  <2>1. \A t \in Threads : req[t].stage # "none" => \E l \in S : l \in req[t].want
    BY DEF Blocked, LocksInv, LocksTypeOK, Requests
  <2>2. PICK l \in S : \A m \in S : m <= l
    <3>1. S \in SUBSET Locks /\ S # {}
      BY <2>1
    <3> HIDE DEF S
    <3> QED
      BY <3>1, HighestLock
  <2>3. PICK t \in Threads : Awaits(t, l)
    BY <2>2
  <2>4. PICK u \in Threads : l \in Held(u) /\ req[u].stage # "none"
    BY <2>2, <2>3, BlockedByHolder
  <2>5. PICK m \in S : m \in req[u].want
    BY <2>1, <2>4
  <2>6. l < m
    BY <2>4, <2>5 DEF LocksInv, LockOrder
  <2>7. QED
    BY <2>2, <2>5, <2>6 DEF Locks
<1>2. QED
  BY <1>1, LocksInvariant, PTL
=============================================================================
