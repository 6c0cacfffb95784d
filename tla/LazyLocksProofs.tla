--------------------------- MODULE LazyLocksProofs ---------------------------
(***************************************************************************)
(* The lazily allocated array of locks: a lock is allocated before anybody *)
(* uses it, and whoever has asked for all the locks has all of them, for   *)
(* any number of threads and locks, and any size of a segment that divides *)
(* the number of locks.                                                    *)
(***************************************************************************)
EXTENDS LazyLocks, FiniteSetTheorems, WellFoundedInduction, TLAPS

USE NoThreadAssumption, kNumLocksAssumption, PowerAssumption

\* A table with several lock segments is not rebuilt: cuckoo_expand_simple does not
\* allocate the locks of the buckets that it adds.
RebuiltInOneSegment ==
  \A p \in Programs : "rehash" \in p.jobs => p.segment = kNumLocks

\* Nor is it cleared, or locked by a locked_table: the releaser would unlock locks that
\* were allocated after it had locked the others.
ReleasedInOneSegment ==
  \A p \in Programs : "clear" \in p.jobs => p.segment = kNumLocks
-----------------------------------------------------------------------------
(***************************************************************************)
(* Arithmetic.                                                             *)
(***************************************************************************)

\* A non-empty set of naturals has a smallest element, which Min gives.
LEMMA MinIsLeast ==
  ASSUME NEW S \in SUBSET Nat, S # {}
  PROVE  Min(S) \in S /\ \A m \in S : Min(S) <= m
<1> DEFINE R == OpToRel(<, Nat)
<1>1. \A x, y \in Nat : y < x => <<y, x>> \in R
  BY DEF OpToRel
<1>2. IsWellFoundedOn(R, Nat)
  BY NatLessThanWellFounded
<1> HIDE DEF R
<1>3. PICK x \in S : \A y \in S : ~ (<<y, x>> \in R)
  BY <1>2, WFMin
<1>4. \A y \in S : x <= y
  <2> SUFFICES ASSUME NEW y \in S PROVE x <= y
    OBVIOUS
  <2>1. ~ (y < x)
    BY <1>1, <1>3, Zenon
  <2> QED
    BY <2>1
<1> QED
  BY <1>4, Zenon DEF Min

\* A table has at least one bucket.
LEMMA HashsizePositive ==
  ASSUME NEW hp \in Nat
  PROVE  hashsize(hp) \in Nat /\ hashsize(hp) > 0
<1>1. IsFiniteSet(1 .. hp) /\ Cardinality(1 .. hp) = hp
  BY FS_Interval
<1>2. IsFiniteSet(SUBSET (1 .. hp)) /\ Cardinality(SUBSET (1 .. hp)) = 2 ^ hp
  BY <1>1, FS_SUBSET
<1>3. Cardinality(SUBSET (1 .. hp)) \in Nat /\ Cardinality(SUBSET (1 .. hp)) # 0
  BY <1>2, FS_CardinalityType, FS_EmptySet
<1> QED
  BY <1>2, <1>3 DEF hashsize

\* The number of locks in use is positive and does not exceed that of the array, and
\* the lock of each bucket is among them.
LEMMA LocksInUse ==
  ASSUME NEW hp \in Nat
  PROVE  /\ AtMostLocks(hashsize(hp)) \in 1 .. kNumLocks
         /\ \A b \in 0 .. hashsize(hp) - 1 : lock_ind(b) \in 0 .. AtMostLocks(hashsize(hp)) - 1
<1> DEFINE n == hashsize(hp)
<1>1. n \in Nat /\ n > 0
  BY HashsizePositive
<1> HIDE DEF n
<1>2. \A b \in 0 .. n - 1 : lock_ind(b) \in 0 .. AtMostLocks(n) - 1
  <2> SUFFICES ASSUME NEW b \in 0 .. n - 1 PROVE lock_ind(b) \in 0 .. AtMostLocks(n) - 1
    OBVIOUS
  <2>1. b % kNumLocks \in 0 .. kNumLocks - 1
    BY <1>1
  <2>2. b < kNumLocks => b % kNumLocks = b
    BY <1>1
  <2> QED
    BY <1>1, <2>1, <2>2 DEF lock_ind, AtMostLocks
<1> QED
  BY <1>1, <1>2 DEF AtMostLocks, n

\* Quotient and remainder.
LEMMA Division ==
  ASSUME NEW s \in Nat \ {0}, NEW l \in Nat
  PROVE  l \div s \in Nat /\ l % s \in 0 .. s - 1 /\ l = s * (l \div s) + (l % s)
<1>1. l % s \in 0 .. s - 1
  OBVIOUS
<1>2. l \div s \in Nat
  OBVIOUS
<1>3. l = s * (l \div s) + (l % s)
  OBVIOUS
<1> QED
  BY <1>1, <1>2, <1>3

\* The first n segments have the first n times SEGMENT_SIZE locks.
LEMMA SegmentBounds ==
  ASSUME NEW s \in Nat \ {0}, NEW n \in Nat, NEW l \in Nat
  PROVE  l < s * n <=> l \div s < n
<1> DEFINE q == l \div s
           r == l % s
<1>1. q \in Nat /\ r \in 0 .. s - 1 /\ l = s * q + r
  BY Division
<1> HIDE DEF q, r
<1>2. CASE q < n
  <2>1. s * (q + 1) <= s * n
    BY <1>1, <1>2
  <2>2. s * (q + 1) = s * q + s
    BY <1>1
  <2>3. s * q \in Nat /\ s * n \in Nat
    BY <1>1
  <2> QED
    BY <1>1, <1>2, <2>1, <2>2, <2>3 DEF q
<1>3. CASE ~ (q < n)
  <2>1. s * n <= s * q
    BY <1>1, <1>3
  <2>2. s * q \in Nat /\ s * n \in Nat
    BY <1>1
  <2> QED
    BY <1>1, <1>3, <2>1, <2>2 DEF q
<1> QED
  BY <1>2, <1>3

-----------------------------------------------------------------------------
(***************************************************************************)
(* The types, and what is known of the allocated part of the array.        *)
(***************************************************************************)

\* Where a thread may be in its job.
Jobs ==
  [kind : {"none", "access", "double", "clear", "grow", "shrink"},
   pc : {"idle", "lock", "check", "using", "explock", "alloc", "all", "owned", "drain", "release"},
   hp : 0 .. MaxHashpower, todo : SUBSET Locks, i : -1 .. kNumLocks]

\* What kind of a job is where, and the hashpower that it will store.
JobOK(j) ==
  /\ j.pc = "lock" => j.todo # {}
  /\ j.pc \in {"explock", "alloc", "drain"} => j.kind = "double"
  /\ j.pc \in {"all", "owned"} => j.kind \in {"double", "clear", "grow", "shrink"} /\ j.i >= 0
  /\ j.pc = "release" => j.kind \in {"clear", "grow", "shrink"} /\ j.i >= 0
  /\ j.kind = "double" => j.hp \in 1 .. MaxHashpower - 1
  /\ j.kind = "clear" => "clear" \in program.jobs
  /\ j.kind \in {"grow", "shrink"} => "rehash" \in program.jobs /\ j.hp >= 1

\* The first part of the invariant.
LazyTypes ==
  /\ program \in Programs
  /\ \E n \in 1 .. NUM_SEGMENTS : segments = 0 .. n - 1
  /\ holder \in [Locks -> Threads \union {NoThread}]
  /\ hashpower \in 1 .. MaxHashpower
  /\ expansion_lock \in Threads \union {NoThread}
  /\ job \in [Threads -> Jobs]
  /\ \A t \in Threads : JobOK(job[t])

\* The type invariant is what the runs check.
LEMMA TypesImply == LazyTypes => LazyTypeOK
BY DEF LazyTypes, LazyTypeOK, Jobs

\* The array is made of segments.
LEMMA ArraySize ==
  ASSUME LazyTypes
  PROVE  /\ SEGMENT_SIZE \in 1 .. kNumLocks
         /\ NUM_SEGMENTS \in Nat /\ kNumLocks = SEGMENT_SIZE * NUM_SEGMENTS
         /\ SEGMENT_SIZE = kNumLocks => NUM_SEGMENTS = 1
<1>1. SEGMENT_SIZE \in 1 .. kNumLocks /\ kNumLocks % SEGMENT_SIZE = 0
  BY ProgramsAssumption DEF LazyTypes, SEGMENT_SIZE
<1> DEFINE s == SEGMENT_SIZE
<1> HIDE DEF s
<1>2. s \in Nat \ {0} /\ kNumLocks % s = 0
  BY <1>1 DEF s
<1>3. kNumLocks \div s \in Nat /\ kNumLocks = s * (kNumLocks \div s) + (kNumLocks % s)
  BY <1>2, Division
<1>4. NUM_SEGMENTS = kNumLocks \div s
  BY DEF NUM_SEGMENTS, s
<1>5. s = kNumLocks => kNumLocks \div s = 1
  BY <1>2
<1> QED
  BY <1>1, <1>2, <1>3, <1>4, <1>5 DEF s

\* The allocated locks are the first ones; with one segment they are all the locks.
LEMMA AllocatedPart ==
  ASSUME LazyTypes
  PROVE  /\ allocated_size \in 1 .. kNumLocks
         /\ SEGMENT_SIZE = kNumLocks => allocated_size = kNumLocks
         /\ \A l \in Locks : get_segment(l) \in segments <=> l < allocated_size
         /\ \A m \in 1 .. kNumLocks :
              SegmentsFor(m) \subseteq segments <=> m <= allocated_size
<1>1. PICK n \in 1 .. NUM_SEGMENTS : segments = 0 .. n - 1
  BY DEF LazyTypes
<1>2. /\ SEGMENT_SIZE \in 1 .. kNumLocks
      /\ NUM_SEGMENTS \in Nat /\ kNumLocks = SEGMENT_SIZE * NUM_SEGMENTS
      /\ SEGMENT_SIZE = kNumLocks => NUM_SEGMENTS = 1
  BY ArraySize
<1>3. Cardinality(segments) = n
  BY <1>1, <1>2, FS_Interval
<1> DEFINE s == SEGMENT_SIZE
           a == allocated_size
<1>4. a = s * n
  BY <1>3 DEF allocated_size
<1> HIDE DEF s, a
<1>5. s \in Nat \ {0} /\ n \in Nat \ {0} /\ kNumLocks = s * NUM_SEGMENTS
  BY <1>1, <1>2 DEF s
<1>6. a \in 1 .. kNumLocks
  <2>1. s * n >= s /\ s * n <= s * NUM_SEGMENTS /\ s * n \in Nat
    BY <1>1, <1>2, <1>5
  <2> QED
    BY <2>1, <1>4, <1>5
<1>7. s = kNumLocks => a = kNumLocks
  BY <1>1, <1>2, <1>4, <1>5 DEF s
<1>8. \A l \in Nat : l \div s \in 0 .. n - 1 <=> l < a
  <2> SUFFICES ASSUME NEW l \in Nat PROVE l \div s \in 0 .. n - 1 <=> l < a
    OBVIOUS
  <2>1. l < s * n <=> l \div s < n
    BY <1>5, SegmentBounds
  <2>2. l \div s \in Nat
    BY <1>5
  <2> QED
    BY <2>1, <2>2, <1>4, <1>5
<1>9. \A l \in Locks : get_segment(l) \in segments <=> l < a
  BY <1>1, <1>8 DEF get_segment, s, Locks
<1>10. \A m \in 1 .. kNumLocks : SegmentsFor(m) \subseteq segments <=> m <= a
  <2> SUFFICES ASSUME NEW m \in 1 .. kNumLocks
               PROVE  SegmentsFor(m) \subseteq segments <=> m <= a
    OBVIOUS
  <2> DEFINE q == (m - 1) \div s
  <2>1. q \in Nat /\ (q \in 0 .. n - 1 <=> m - 1 < a)
    BY <1>5, <1>8
  <2>2. SegmentsFor(m) = 0 .. q
    BY DEF SegmentsFor, get_segment, s
  <2> HIDE DEF q
  <2> QED
    BY <2>1, <2>2, <1>1, <1>5, <1>6
<1> QED
  BY <1>6, <1>7, <1>9, <1>10 DEF s, a

\* The segments that are still to be made follow those that are there.
LEMMA NextSegment ==
  ASSUME LazyTypes, NEW t \in Threads, At(t, "alloc"), MissingSegments(t) # {}
  PROVE  \E n \in 1 .. NUM_SEGMENTS - 1 :
           segments = 0 .. n - 1 /\ segments \union {Min(MissingSegments(t))} = 0 .. n
<1>1. PICK n \in 1 .. NUM_SEGMENTS : segments = 0 .. n - 1
  BY DEF LazyTypes
<1>2. /\ SEGMENT_SIZE \in 1 .. kNumLocks
      /\ NUM_SEGMENTS \in Nat /\ kNumLocks = SEGMENT_SIZE * NUM_SEGMENTS
  BY ArraySize
<1>3. job[t].hp + 1 \in Nat
  BY DEF LazyTypes, Jobs
<1> DEFINE m == AtMostLocks(hashsize(job[t].hp + 1))
           q == (m - 1) \div SEGMENT_SIZE
<1>4. m \in 1 .. kNumLocks
  BY <1>3, LocksInUse
<1>5. MissingSegments(t) = (0 .. q) \ (0 .. n - 1)
  BY <1>1 DEF MissingSegments, SegmentsFor, get_segment
<1> HIDE DEF m
<1>6. q \in Nat /\ q < NUM_SEGMENTS
  <2>1. m - 1 \in Nat /\ m - 1 < SEGMENT_SIZE * NUM_SEGMENTS
    BY <1>2, <1>4
  <2>2. m - 1 < SEGMENT_SIZE * NUM_SEGMENTS <=> q < NUM_SEGMENTS
    BY <1>2, <2>1, SegmentBounds
  <2>3. q \in Nat
    BY <1>2, <2>1
  <2> QED
    BY <2>1, <2>2, <2>3
<1> HIDE DEF q
<1>7. n \in MissingSegments(t) /\ \A k \in MissingSegments(t) : k >= n
  BY <1>1, <1>2, <1>5, <1>6
<1>8. Min(MissingSegments(t)) = n
  <2>1. MissingSegments(t) \in SUBSET Nat
    BY <1>5
  <2>2. Min(MissingSegments(t)) \in MissingSegments(t) /\ Min(MissingSegments(t)) <= n
    BY <2>1, <1>7, MinIsLeast
  <2> QED
    BY <2>1, <2>2, <1>1, <1>7
<1>9. n \in 1 .. NUM_SEGMENTS - 1
  BY <1>1, <1>2, <1>5, <1>6, <1>7
<1> QED
  BY <1>1, <1>8, <1>9

\* A job that is where it may be keeps the types.
LEMMA GotoTypes ==
  ASSUME LazyTypes, NEW t \in Threads, NEW j \in Jobs, Goto(t, j), JobOK(j),
         program' = program, segments' = segments, hashpower' \in 1 .. MaxHashpower,
         holder' \in [Locks -> Threads \union {NoThread}],
         expansion_lock' \in Threads \union {NoThread}
  PROVE  LazyTypes'
<1>1. job' \in [Threads -> Jobs] /\ \A u \in Threads : job'[u] = IF u = t THEN j ELSE job[u]
  BY DEF Goto, LazyTypes
<1>2. \A u \in Threads : JobOK(job[u])'
  BY <1>1 DEF LazyTypes, JobOK
<1> QED
  BY <1>1, <1>2 DEF LazyTypes, NUM_SEGMENTS, SEGMENT_SIZE

\* What a step that only moves a thread on leaves as it was.
LEMMA SameTypes ==
  ASSUME LazyTypes
  PROVE  /\ hashpower \in 1 .. MaxHashpower
         /\ holder \in [Locks -> Threads \union {NoThread}]
         /\ expansion_lock \in Threads \union {NoThread}
         /\ \A t \in Threads : job[t] \in Jobs /\ JobOK(job[t])
         /\ \A ls \in SUBSET Locks : Give(ls) => holder' \in [Locks -> Threads \union {NoThread}]
         /\ \A t \in Threads : Held(t) \subseteq Locks
         /\ Idle \in Jobs /\ JobOK(Idle)
BY DEF LazyTypes, Give, Held, Idle, Local, Jobs, JobOK

\* The types hold when the table has been constructed.
LEMMA TypesInit == LazyInit => LazyTypes
<1> SUFFICES ASSUME LazyInit PROVE LazyTypes
  OBVIOUS
<1> DEFINE m == AtMostLocks(hashsize(InitialHashpower))
           s == SEGMENT_SIZE
           last == m - 1
           q == last \div s
<1>1. s \in 1 .. kNumLocks /\ kNumLocks % s = 0 /\ NUM_SEGMENTS = kNumLocks \div s
  BY ProgramsAssumption DEF LazyInit, SEGMENT_SIZE, NUM_SEGMENTS
<1>2. m \in 1 .. kNumLocks
  BY LocksInUse
<1>3. segments = 0 .. q
  BY DEF LazyInit, SegmentsFor, get_segment
<1> HIDE DEF m, s
<1> DEFINE n == NUM_SEGMENTS
<1>4. n \in Nat /\ kNumLocks = s * n
  BY <1>1, Division
<1>5. last \in Nat /\ last < s * n
  BY <1>2, <1>4
<1> HIDE DEF n, last
<1>6. q < n /\ q \in Nat
  BY <1>1, <1>4, <1>5, SegmentBounds, Division
<1> HIDE DEF q
<1>7. q + 1 \in 1 .. n /\ segments = 0 .. (q + 1) - 1
  BY <1>3, <1>4, <1>6
<1>8. Idle \in Jobs /\ JobOK(Idle)
  BY DEF Idle, Local, Jobs, JobOK
<1>9. \E k \in 1 .. NUM_SEGMENTS : segments = 0 .. k - 1
  BY <1>7 DEF n
<1>10. job \in [Threads -> Jobs] /\ \A t \in Threads : JobOK(job[t])
  BY <1>8 DEF LazyInit
<1> QED
  BY <1>9, <1>10 DEF LazyTypes, LazyInit

\* They are kept by the operations on buckets.
LEMMA AccessTypes ==
  ASSUME LazyTypes, NEW t \in Threads, program' = program,
         StartAccess(t) \/ AccessLock(t) \/ AccessCheck(t) \/ AccessUnlock(t)
  PROVE  LazyTypes'
<1>1. CASE StartAccess(t)
  <2>1. PICK b1 \in 0 .. hashsize(hashpower) - 1, b2 \in 0 .. hashsize(hashpower) - 1 :
          Goto(t, Local("access", "lock", hashpower, {lock_ind(b1), lock_ind(b2)}))
    BY <1>1 DEF StartAccess
  <2> DEFINE j == Local("access", "lock", hashpower, {lock_ind(b1), lock_ind(b2)})
  <2>2. hashpower \in Nat /\ hashpower \in 0 .. MaxHashpower
    BY SameTypes
  <2>3. lock_ind(b1) \in Locks /\ lock_ind(b2) \in Locks
    BY <2>1, <2>2, LocksInUse DEF Locks
  <2>4. j \in Jobs
    BY <2>2, <2>3 DEF Local, Jobs
  <2>5. JobOK(j)
    BY DEF Local, JobOK
  <2> QED
    BY <1>1, <2>1, <2>4, <2>5, SameTypes, GotoTypes DEF StartAccess
<1>2. CASE AccessLock(t)
  <2> DEFINE l == Min(job[t].todo)
             pc == IF Held(t) = {} THEN "check" ELSE IF job[t].todo = {l} THEN "using" ELSE "lock"
             j == [job[t] EXCEPT !.todo = @ \ {l}, !.pc = pc]
  <2>1. Goto(t, j) /\ holder' = [holder EXCEPT ![l] = t]
    BY <1>2 DEF AccessLock
  <2>2. job[t] \in Jobs /\ JobOK(job[t]) /\ job[t].pc = "lock"
    BY <1>2, SameTypes DEF AccessLock, At
  <2>3. job[t].todo \in SUBSET Nat /\ job[t].todo # {}
    BY <2>2 DEF Jobs, JobOK, Locks
  <2>4. l \in job[t].todo
    BY <2>3, MinIsLeast
  <2> HIDE DEF l
  <2>5. j \in Jobs
    BY <2>2 DEF Jobs
  <2>6. JobOK(j)
    BY <2>2, <2>4 DEF Jobs, JobOK
  <2>7. holder' \in [Locks -> Threads \union {NoThread}]
    BY <2>1, SameTypes
  <2> HIDE DEF j
  <2> QED
    BY <1>2, <2>1, <2>5, <2>6, <2>7, SameTypes, GotoTypes DEF AccessLock
<1>3. CASE AccessCheck(t)
  <2> DEFINE j == [job[t] EXCEPT !.pc = IF job[t].todo = {} THEN "using" ELSE "lock"]
  <2>1. job[t] \in Jobs /\ JobOK(job[t]) /\ job[t].pc = "check"
    BY <1>3, SameTypes DEF AccessCheck, At
  <2>2. j \in Jobs /\ JobOK(j)
    BY <2>1 DEF Jobs, JobOK
  <2>3. \/ Goto(t, j) /\ holder' = holder
        \/ Goto(t, Idle) /\ Give(Held(t))
    BY <1>3 DEF AccessCheck
  <2> QED
    BY <1>3, <2>2, <2>3, SameTypes, GotoTypes DEF AccessCheck
<1>4. CASE AccessUnlock(t)
  BY <1>4, SameTypes, GotoTypes DEF AccessUnlock
<1> QED
  BY <1>1, <1>2, <1>3, <1>4

\* They are kept by the operations on the whole table.
LEMMA WholeTypes ==
  ASSUME LazyTypes, NEW t \in Threads, program' = program,
         \/ LockAllStep(t) \/ ReleaseStep(t)
         \/ StartClear(t) \/ StartRehash(t) \/ OwnerDone(t)
  PROVE  LazyTypes'
<1>0. job[t] \in Jobs /\ JobOK(job[t])
  BY SameTypes
<1>a. allocated_size \in 1 .. kNumLocks
  BY AllocatedPart
<1>1. CASE LockAllStep(t)
  <2> DEFINE j == [job[t] EXCEPT !.i = @ + 1]
             k == [job[t] EXCEPT !.pc = "owned"]
  <2>1. k \in Jobs /\ JobOK(k)
    BY <1>0, <1>1 DEF LockAllStep, At, Jobs, JobOK
  <2>2. CASE job[t].i < allocated_size
    <3>1. j \in Jobs /\ JobOK(j)
      BY <1>0, <1>1, <1>a, <2>2 DEF LockAllStep, At, Jobs, JobOK
    <3>2. Goto(t, j) /\ holder' = [holder EXCEPT ![job[t].i] = t]
      BY <1>1, <2>2 DEF LockAllStep
    <3> QED
      BY <1>1, <3>1, <3>2, SameTypes, GotoTypes DEF LockAllStep
  <2>3. CASE ~ (job[t].i < allocated_size)
    <3>1. Goto(t, k) /\ holder' = holder
      BY <1>1, <2>3 DEF LockAllStep
    <3> QED
      BY <1>1, <2>1, <3>1, SameTypes, GotoTypes DEF LockAllStep
  <2> QED
    BY <2>2, <2>3
<1>2. CASE ReleaseStep(t)
  <2> DEFINE j == [job[t] EXCEPT !.i = @ + 1]
  <2>1. CASE job[t].i < allocated_size
    <3>1. j \in Jobs /\ JobOK(j)
      BY <1>0, <1>2, <1>a, <2>1 DEF ReleaseStep, At, Jobs, JobOK
    <3>2. Goto(t, j) /\ Give({job[t].i}) /\ {job[t].i} \in SUBSET Locks
      BY <1>0, <1>2, <1>a, <2>1 DEF ReleaseStep, At, Jobs, JobOK, Locks
    <3> QED
      BY <1>2, <3>1, <3>2, SameTypes, GotoTypes DEF ReleaseStep
  <2>2. CASE ~ (job[t].i < allocated_size)
    BY <1>2, <2>2, SameTypes, GotoTypes DEF ReleaseStep
  <2> QED
    BY <2>1, <2>2
<1>3. CASE StartClear(t)
  <2> DEFINE j == Local("clear", "all", 0, {})
  <2>1. j \in Jobs /\ JobOK(j) /\ Goto(t, j)
    BY <1>3 DEF StartClear, LockAll, Local, Jobs, JobOK
  <2> QED
    BY <1>3, <2>1, SameTypes, GotoTypes DEF StartClear
<1>4. CASE StartRehash(t)
  <2>1. PICK hp \in (1 .. MaxHashpower) \ {hashpower} :
          LockAll(t, IF hp > hashpower THEN "grow" ELSE "shrink", hp)
    BY <1>4 DEF StartRehash
  <2> DEFINE j == Local(IF hp > hashpower THEN "grow" ELSE "shrink", "all", hp, {})
  <2>2. j \in Jobs /\ JobOK(j) /\ Goto(t, j)
    BY <1>4, <2>1 DEF StartRehash, LockAll, Local, Jobs, JobOK
  <2> QED
    BY <1>4, <2>2, SameTypes, GotoTypes DEF StartRehash
<1>5. CASE OwnerDone(t)
  <2> DEFINE j == [job[t] EXCEPT !.pc = "release", !.i = 0]
  <2>0. job[t].pc = "owned" /\ job[t].kind # "double" /\ Goto(t, j)
    BY <1>5 DEF OwnerDone, At
  <2>a. 0 \in -1 .. kNumLocks
    OBVIOUS
  <2>b. j \in Jobs
    BY <1>0, <2>a DEF Jobs
  <2>1. j \in Jobs /\ JobOK(j)
    BY <1>0, <2>0, <2>b DEF Jobs, JobOK
  <2>2. hashpower' \in 1 .. MaxHashpower
    BY <1>0, <1>5, SameTypes DEF OwnerDone, At, Rebuilds, Jobs, JobOK
  <2> QED
    BY <1>5, <2>0, <2>1, <2>2, SameTypes, GotoTypes DEF OwnerDone
<1> QED
  BY <1>1, <1>2, <1>3, <1>4, <1>5

\* They are kept by cuckoo_fast_double.
LEMMA DoubleTypes ==
  ASSUME LazyTypes, NEW t \in Threads, program' = program,
         \/ StartDouble(t) \/ TakeExpansionLock(t) \/ Allocate(t) \/ AllocateFails(t)
         \/ Resize(t) \/ DrainStep(t) \/ DrainRest(t) \/ FinishDouble(t)
  PROVE  LazyTypes'
<1>0. job[t] \in Jobs /\ JobOK(job[t])
  BY SameTypes
<1>1. CASE StartDouble(t)
  <2> DEFINE j == Local("double", "explock", hashpower, {})
  <2>1. j \in Jobs /\ JobOK(j) /\ Goto(t, j)
    BY <1>1, SameTypes DEF StartDouble, Local, Jobs, JobOK
  <2> QED
    BY <1>1, <2>1, SameTypes, GotoTypes DEF StartDouble
<1>2. CASE TakeExpansionLock(t)
  <2> DEFINE j == [job[t] EXCEPT !.pc = "alloc"]
  <2>1. j \in Jobs /\ JobOK(j)
    BY <1>0, <1>2 DEF TakeExpansionLock, At, Jobs, JobOK
  <2>2. \/ Goto(t, j) /\ expansion_lock' = t
        \/ Goto(t, Idle) /\ expansion_lock' = expansion_lock
    BY <1>2 DEF TakeExpansionLock
  <2> QED
    BY <1>2, <2>1, <2>2, SameTypes, GotoTypes DEF TakeExpansionLock
<1>3. CASE Allocate(t)
  <2> DEFINE j == Local("double", "all", job[t].hp, {})
  <2>1. j \in Jobs /\ JobOK(j)
    BY <1>0, <1>3 DEF Allocate, At, Local, Jobs, JobOK
  <2>2. CASE MissingSegments(t) # {}
    <3>1. PICK n \in 1 .. NUM_SEGMENTS - 1 :
            segments \union {Min(MissingSegments(t))} = 0 .. n
      BY <1>3, <2>2, NextSegment DEF Allocate
    <3>2. NUM_SEGMENTS' = NUM_SEGMENTS /\ NUM_SEGMENTS \in Nat
      BY ArraySize DEF NUM_SEGMENTS, SEGMENT_SIZE
    <3>3. n + 1 \in 1 .. NUM_SEGMENTS /\ segments' = 0 .. (n + 1) - 1
      <4>1. n + 1 \in 1 .. NUM_SEGMENTS /\ n = (n + 1) - 1
        BY <3>1, <3>2
      <4>2. segments' = segments \union {Min(MissingSegments(t))}
        BY <1>3, <2>2 DEF Allocate
      <4> QED
        BY <3>1, <4>1, <4>2
    <3>4. UNCHANGED <<holder, hashpower, expansion_lock, job>>
      BY <1>3, <2>2 DEF Allocate
    <3> QED
      BY <3>2, <3>3, <3>4 DEF LazyTypes, JobOK
  <2>3. CASE MissingSegments(t) = {}
    <3>1. Goto(t, j) /\ segments' = segments
      BY <1>3, <2>3 DEF Allocate, LockAll
    <3> QED
      BY <1>3, <2>1, <3>1, SameTypes, GotoTypes DEF Allocate
  <2> QED
    BY <2>2, <2>3
<1>4. CASE AllocateFails(t)
  BY <1>4, SameTypes, GotoTypes DEF AllocateFails
<1>5. CASE Resize(t)
  <2> DEFINE todo == LocksToMove(job[t].hp)
             j == [job[t] EXCEPT !.pc = "drain", !.todo = todo]
  <2>1. job[t].kind = "double" /\ job[t].hp \in 1 .. MaxHashpower - 1 /\ job[t].hp \in Nat
    BY <1>0, <1>5 DEF Resize, JobOK
  <2>2. todo \subseteq Locks
    BY <2>1, LocksInUse DEF LocksToMove, Locks
  <2> HIDE DEF todo
  <2>3. j \in Jobs /\ JobOK(j)
    BY <1>0, <2>1, <2>2 DEF Jobs, JobOK
  <2>4. Goto(t, j) /\ hashpower' \in 1 .. MaxHashpower
    BY <1>5, <2>1 DEF Resize, todo
  <2> QED
    BY <1>5, <2>3, <2>4, SameTypes, GotoTypes DEF Resize
<1>6. CASE DrainStep(t)
  <2>1. PICK l \in job[t].todo : Give({l}) /\ Goto(t, [job[t] EXCEPT !.todo = @ \ {l}])
    BY <1>6 DEF DrainStep
  <2> DEFINE j == [job[t] EXCEPT !.todo = @ \ {l}]
  <2>2. j \in Jobs /\ JobOK(j) /\ {l} \in SUBSET Locks
    BY <1>0, <1>6 DEF DrainStep, At, Jobs, JobOK
  <2> QED
    BY <1>6, <2>1, <2>2, SameTypes, GotoTypes DEF DrainStep
<1>7. CASE DrainRest(t)
  <2> DEFINE todo == AtMostLocks(hashsize(job[t].hp)) .. allocated_size - 1
             j == [job[t] EXCEPT !.todo = todo, !.i = -1]
  <2>1. job[t].hp \in Nat
    BY <1>0 DEF Jobs
  <2>2. todo \subseteq Locks
    BY <2>1, LocksInUse, AllocatedPart DEF Locks
  <2> HIDE DEF todo
  <2>a. -1 \in -1 .. kNumLocks
    OBVIOUS
  <2>3. j \in Jobs
    BY <1>0, <2>2, <2>a DEF Jobs
  <2>5. job[t].pc = "drain"
    BY <1>7 DEF DrainRest, At
  <2>6. JobOK(j)
    BY <1>0, <2>5 DEF Jobs, JobOK
  <2>4. Goto(t, j)
    BY <1>7 DEF DrainRest, todo
  <2> QED
    BY <1>7, <2>3, <2>4, <2>6, SameTypes, GotoTypes DEF DrainRest
<1>8. CASE FinishDouble(t)
  BY <1>8, SameTypes, GotoTypes DEF FinishDouble
<1> QED
  BY <1>1, <1>2, <1>3, <1>4, <1>5, <1>6, <1>7, <1>8

\* They are kept by every step.
LEMMA TypesStep == LazyTypes /\ [LazyNext]_lazyVars => LazyTypes'
<1> SUFFICES ASSUME LazyTypes, [LazyNext]_lazyVars PROVE LazyTypes'
  OBVIOUS
<1>1. CASE UNCHANGED lazyVars
  BY <1>1 DEF lazyVars, LazyTypes, JobOK, NUM_SEGMENTS, SEGMENT_SIZE
<1>2. CASE LazyNext
  BY <1>2, AccessTypes, WholeTypes, DoubleTypes DEF LazyNext
<1> QED
  BY <1>1, <1>2

\* The type invariant, also without conditions on the programs.
THEOREM LazyTypeCorrect == LazySpec => []LazyTypeOK
BY TypesInit, TypesStep, TypesImply, PTL DEF LazySpec

-----------------------------------------------------------------------------
(***************************************************************************)
(* The locks that are used are allocated.                                  *)
(***************************************************************************)

\* The locks of a table of hashpower hp are allocated.
Enough(hp) == AtMostLocks(hashsize(hp)) <= allocated_size

\* The job has the expansion lock.
Doubles(j) == j.kind = "double" /\ j.pc \in {"alloc", "all", "owned", "drain"}

\* What has been allocated for a job.
GrowthOK(j) ==
  /\ j.kind = "double" /\ j.pc \in {"alloc", "all", "owned"} => Enough(j.hp)
  /\ j.kind = "double" /\ j.pc \in {"all", "owned"} => Enough(j.hp + 1)
  /\ j.pc \in {"lock", "check"} => \A l \in j.todo : l < allocated_size
  /\ j.pc = "all" => j.i <= allocated_size

\* The second part of the invariant.
GrowthInv ==
  /\ Enough(hashpower)
  /\ \A t \in Threads : expansion_lock = t <=> Doubles(job[t])
  /\ \A t \in Threads : GrowthOK(job[t])

\* The index of the lock that is taken is in an allocated segment.
LEMMA GrowthImplies == LazyTypes /\ GrowthInv => IndexAllocated
<1> SUFFICES ASSUME LazyTypes, GrowthInv, NEW t \in Threads, At(t, "lock")
             PROVE  get_segment(Min(job[t].todo)) \in segments
  BY DEF IndexAllocated
<1>1. job[t] \in Jobs /\ JobOK(job[t]) /\ job[t].pc = "lock"
  BY DEF LazyTypes, At
<1>2. job[t].todo \in SUBSET Nat /\ job[t].todo # {} /\ job[t].todo \subseteq Locks
  BY <1>1 DEF Jobs, JobOK, Locks
<1>3. Min(job[t].todo) \in job[t].todo
  BY <1>2, MinIsLeast
<1> QED
  BY <1>1, <1>2, <1>3, AllocatedPart DEF GrowthInv, GrowthOK

\* A step in which nothing is allocated.
LEMMA GotoGrowth ==
  ASSUME LazyTypes, GrowthInv, NEW t \in Threads, NEW j, Goto(t, j), GrowthOK(j),
         program' = program, segments' = segments, Enough(hashpower'),
         expansion_lock' = t <=> Doubles(j),
         \A u \in Threads \ {t} : expansion_lock' = u <=> expansion_lock = u
  PROVE  GrowthInv'
<1>1. allocated_size' = allocated_size
  BY DEF allocated_size, SEGMENT_SIZE
<1>2. \A u \in Threads : job'[u] = IF u = t THEN j ELSE job[u]
  BY DEF Goto, LazyTypes
<1>3. \A u \in Threads : GrowthOK(job[u])'
  BY <1>1, <1>2 DEF GrowthInv, GrowthOK, Enough
<1>4. \A u \in Threads : (expansion_lock = u <=> Doubles(job[u]))'
  BY <1>2 DEF GrowthInv, Doubles
<1> QED
  BY <1>1, <1>3, <1>4 DEF GrowthInv, Enough

\* A step that also leaves the hashpower and the expansion lock alone.
LEMMA GotoSameGrowth ==
  ASSUME LazyTypes, GrowthInv, NEW t \in Threads, NEW j, Goto(t, j), GrowthOK(j),
         Doubles(j) <=> Doubles(job[t]), program' = program,
         UNCHANGED <<segments, hashpower, expansion_lock>>
  PROVE  GrowthInv'
<1>1. Enough(hashpower') /\ (expansion_lock' = t <=> Doubles(j))
  BY DEF GrowthInv
<1> QED
  BY <1>1, GotoGrowth

\* The next segment.
LEMMA AllocateGrows ==
  ASSUME LazyTypes, NEW t \in Threads, program' = program, Allocate(t), MissingSegments(t) # {}
  PROVE  allocated_size \in Nat /\ allocated_size' \in Nat /\ allocated_size <= allocated_size'
<1>1. PICK n \in 1 .. NUM_SEGMENTS - 1 :
        segments = 0 .. n - 1 /\ segments \union {Min(MissingSegments(t))} = 0 .. n
  BY NextSegment DEF Allocate
<1>2. SEGMENT_SIZE \in Nat /\ NUM_SEGMENTS \in Nat
  BY ArraySize
<1>3. segments' = 0 .. n /\ SEGMENT_SIZE' = SEGMENT_SIZE
  BY <1>1 DEF Allocate, SEGMENT_SIZE
<1>4. Cardinality(segments) = n /\ Cardinality(segments') = n + 1
  BY <1>1, <1>2, <1>3, FS_Interval
<1> DEFINE s == SEGMENT_SIZE
<1>5. allocated_size = s * n /\ allocated_size' = s * (n + 1)
  BY <1>3, <1>4 DEF allocated_size
<1> HIDE DEF s
<1>6. n \in Nat /\ s \in Nat
  BY <1>1, <1>2 DEF s
<1>7. s * n \in Nat /\ s * (n + 1) = s * n + s
  BY <1>6
<1> QED
  BY <1>5, <1>6, <1>7

\* All the locks that there are have been allocated if nothing is missing.
LEMMA NothingMissing ==
  ASSUME LazyTypes, NEW hp \in Nat, SegmentsFor(AtMostLocks(hashsize(hp))) \subseteq segments
  PROVE  Enough(hp)
BY LocksInUse, AllocatedPart DEF Enough

\* It holds when the table has been constructed.
LEMMA GrowthInit == LazyInit /\ LazyTypes => GrowthInv
<1> SUFFICES ASSUME LazyInit, LazyTypes PROVE GrowthInv
  OBVIOUS
<1>1. Enough(hashpower)
  <2>1. hashpower = InitialHashpower /\ hashpower \in Nat
    BY DEF LazyInit
  <2>2. SegmentsFor(AtMostLocks(hashsize(hashpower))) \subseteq segments
    BY <2>1 DEF LazyInit
  <2> QED
    BY <2>1, <2>2, NothingMissing
<1>2. \A t \in Threads : GrowthOK(job[t]) /\ ~ Doubles(job[t])
  BY DEF LazyInit, Idle, Local, GrowthOK, Doubles
<1> QED
  BY <1>1, <1>2 DEF GrowthInv, LazyInit

\* It is kept by the operations on buckets.
LEMMA AccessGrowth ==
  ASSUME LazyTypes, GrowthInv, NEW t \in Threads, program' = program,
         StartAccess(t) \/ AccessLock(t) \/ AccessCheck(t) \/ AccessUnlock(t)
  PROVE  GrowthInv'
<1>0. job[t] \in Jobs /\ JobOK(job[t]) /\ GrowthOK(job[t])
  BY SameTypes DEF GrowthInv
<1>i. GrowthOK(Idle) /\ ~ Doubles(Idle)
  BY DEF GrowthOK, Idle, Local, Doubles
<1>1. CASE StartAccess(t)
  <2>1. PICK b1 \in 0 .. hashsize(hashpower) - 1, b2 \in 0 .. hashsize(hashpower) - 1 :
          Goto(t, Local("access", "lock", hashpower, {lock_ind(b1), lock_ind(b2)}))
    BY <1>1 DEF StartAccess
  <2> DEFINE m == AtMostLocks(hashsize(hashpower))
             j == Local("access", "lock", hashpower, {lock_ind(b1), lock_ind(b2)})
  <2>2. hashpower \in Nat
    BY SameTypes
  <2>3. m \in 1 .. kNumLocks /\ lock_ind(b1) \in 0 .. m - 1 /\ lock_ind(b2) \in 0 .. m - 1
    BY <2>1, <2>2, LocksInUse
  <2>4. m <= allocated_size /\ allocated_size \in Nat
    BY AllocatedPart DEF GrowthInv, Enough
  <2> HIDE DEF m
  <2>5. GrowthOK(j) /\ ~ Doubles(j)
    BY <2>3, <2>4 DEF GrowthOK, Doubles, Local
  <2>6. ~ Doubles(job[t])
    BY <1>1 DEF StartAccess, At, Doubles
  <2> QED
    BY <1>1, <2>1, <2>5, <2>6, GotoSameGrowth DEF StartAccess
<1>2. CASE AccessLock(t)
  <2> DEFINE l == Min(job[t].todo)
             pc == IF Held(t) = {} THEN "check" ELSE IF job[t].todo = {l} THEN "using" ELSE "lock"
             j == [job[t] EXCEPT !.todo = @ \ {l}, !.pc = pc]
  <2>1. Goto(t, j) /\ job[t].pc = "lock"
    BY <1>2 DEF AccessLock, At
  <2> HIDE DEF l
  <2>2. GrowthOK(j) /\ ~ Doubles(j) /\ ~ Doubles(job[t])
    BY <1>0, <2>1 DEF GrowthOK, Doubles, Jobs
  <2> HIDE DEF j
  <2> QED
    BY <1>2, <2>1, <2>2, GotoSameGrowth DEF AccessLock
<1>3. CASE AccessCheck(t)
  <2> DEFINE j == [job[t] EXCEPT !.pc = IF job[t].todo = {} THEN "using" ELSE "lock"]
  <2>1. job[t].pc = "check"
    BY <1>3 DEF AccessCheck, At
  <2>2. GrowthOK(j) /\ ~ Doubles(j) /\ ~ Doubles(job[t])
    BY <1>0, <2>1 DEF GrowthOK, Doubles, Jobs
  <2>3. Goto(t, j) \/ Goto(t, Idle)
    BY <1>3 DEF AccessCheck
  <2> HIDE DEF j
  <2> QED
    BY <1>3, <1>i, <2>2, <2>3, GotoSameGrowth DEF AccessCheck
<1>4. CASE AccessUnlock(t)
  <2>1. ~ Doubles(job[t])
    BY <1>4 DEF AccessUnlock, At, Doubles
  <2> QED
    BY <1>4, <1>i, <2>1, GotoSameGrowth DEF AccessUnlock
<1> QED
  BY <1>1, <1>2, <1>3, <1>4

\* It is kept by the operations on the whole table.
LEMMA WholeGrowth ==
  ASSUME RebuiltInOneSegment, LazyTypes, GrowthInv, NEW t \in Threads, program' = program,
         \/ LockAllStep(t) \/ ReleaseStep(t)
         \/ StartClear(t) \/ StartRehash(t) \/ OwnerDone(t)
  PROVE  GrowthInv'
<1>0. job[t] \in Jobs /\ JobOK(job[t]) /\ GrowthOK(job[t])
  BY SameTypes DEF GrowthInv
<1>i. GrowthOK(Idle) /\ ~ Doubles(Idle)
  BY DEF GrowthOK, Idle, Local, Doubles
<1>a. allocated_size \in 1 .. kNumLocks /\ (SEGMENT_SIZE = kNumLocks => allocated_size = kNumLocks)
  BY AllocatedPart
<1>1. CASE LockAllStep(t)
  <2> DEFINE j == [job[t] EXCEPT !.i = @ + 1]
             k == [job[t] EXCEPT !.pc = "owned"]
  <2>1. job[t].pc = "all"
    BY <1>1 DEF LockAllStep, At
  <2>2. GrowthOK(k) /\ (Doubles(k) <=> Doubles(job[t]))
    BY <1>0, <2>1 DEF GrowthOK, Doubles, Jobs
  <2>3. job[t].i < allocated_size => GrowthOK(j) /\ (Doubles(j) <=> Doubles(job[t]))
    BY <1>0, <1>a, <2>1 DEF GrowthOK, Doubles, Jobs
  <2>4. \/ job[t].i < allocated_size /\ Goto(t, j)
        \/ Goto(t, k)
    BY <1>1 DEF LockAllStep
  <2> HIDE DEF j, k
  <2> QED
    BY <1>1, <2>2, <2>3, <2>4, GotoSameGrowth DEF LockAllStep
<1>2. CASE ReleaseStep(t)
  <2> DEFINE j == [job[t] EXCEPT !.i = @ + 1]
  <2>1. job[t].pc = "release"
    BY <1>2 DEF ReleaseStep, At
  <2>2. GrowthOK(j) /\ ~ Doubles(j) /\ ~ Doubles(job[t])
    BY <1>0, <2>1 DEF GrowthOK, Doubles, Jobs
  <2>3. Goto(t, j) \/ Goto(t, Idle)
    BY <1>2 DEF ReleaseStep
  <2> HIDE DEF j
  <2> QED
    BY <1>2, <1>i, <2>2, <2>3, GotoSameGrowth DEF ReleaseStep
<1>3. CASE StartClear(t)
  <2> DEFINE j == Local("clear", "all", 0, {})
  <2>1. GrowthOK(j) /\ ~ Doubles(j) /\ ~ Doubles(job[t])
    BY <1>3, <1>a DEF StartClear, At, GrowthOK, Doubles, Local
  <2> QED
    BY <1>3, <2>1, GotoSameGrowth DEF StartClear, LockAll
<1>4. CASE StartRehash(t)
  <2>1. PICK hp \in (1 .. MaxHashpower) \ {hashpower} :
          LockAll(t, IF hp > hashpower THEN "grow" ELSE "shrink", hp)
    BY <1>4 DEF StartRehash
  <2> DEFINE j == Local(IF hp > hashpower THEN "grow" ELSE "shrink", "all", hp, {})
  <2>2. GrowthOK(j) /\ ~ Doubles(j) /\ ~ Doubles(job[t])
    BY <1>4, <1>a DEF StartRehash, At, GrowthOK, Doubles, Local
  <2>3. Goto(t, j)
    BY <2>1 DEF LockAll
  <2> QED
    BY <1>4, <2>2, <2>3, GotoSameGrowth DEF StartRehash
<1>5. CASE OwnerDone(t)
  <2> DEFINE j == [job[t] EXCEPT !.pc = "release", !.i = 0]
  <2>1. job[t].kind # "double" /\ Goto(t, j)
    BY <1>5 DEF OwnerDone
  <2>2. GrowthOK(j) /\ ~ Doubles(j) /\ ~ Doubles(job[t])
    BY <1>0, <2>1 DEF GrowthOK, Doubles, Jobs
  <2>3. Enough(hashpower')
    <3>1. CASE Rebuilds(t)
      <4>1. "rehash" \in program.jobs /\ program \in Programs
        BY <1>0, <3>1 DEF JobOK, Rebuilds, LazyTypes
      <4>2. allocated_size = kNumLocks
        BY <4>1, <1>a DEF RebuiltInOneSegment, SEGMENT_SIZE
      <4>3. hashpower' = job[t].hp /\ job[t].hp \in Nat
        BY <1>0, <1>5, <3>1 DEF OwnerDone, Jobs
      <4>4. AtMostLocks(hashsize(job[t].hp)) \in 1 .. kNumLocks
        BY <4>3, LocksInUse
      <4> QED
        BY <4>2, <4>3, <4>4 DEF Enough
    <3>2. CASE ~ Rebuilds(t)
      BY <1>5, <3>2 DEF OwnerDone, GrowthInv
    <3> QED
      BY <3>1, <3>2
  <2>4. expansion_lock' = expansion_lock /\ segments' = segments
    BY <1>5 DEF OwnerDone
  <2>5. ~ (expansion_lock' = t)
    BY <2>2, <2>4 DEF GrowthInv
  <2> HIDE DEF j
  <2> QED
    BY <2>1, <2>2, <2>3, <2>4, <2>5, GotoGrowth
<1> QED
  BY <1>1, <1>2, <1>3, <1>4, <1>5

\* It is kept by cuckoo_fast_double.
LEMMA DoubleGrowth ==
  ASSUME LazyTypes, GrowthInv, NEW t \in Threads, program' = program,
         \/ StartDouble(t) \/ TakeExpansionLock(t) \/ Allocate(t) \/ AllocateFails(t)
         \/ Resize(t) \/ DrainStep(t) \/ DrainRest(t) \/ FinishDouble(t)
  PROVE  GrowthInv'
<1>0. job[t] \in Jobs /\ JobOK(job[t]) /\ GrowthOK(job[t])
  BY SameTypes DEF GrowthInv
<1>i. GrowthOK(Idle) /\ ~ Doubles(Idle)
  BY DEF GrowthOK, Idle, Local, Doubles
<1>a. allocated_size \in 1 .. kNumLocks
  BY AllocatedPart
<1>h. Enough(hashpower) /\ (expansion_lock = t <=> Doubles(job[t]))
  BY DEF GrowthInv
<1>n. \A u \in Threads \ {t} :
        /\ expansion_lock = t \/ expansion_lock = NoThread => expansion_lock # u
        /\ t # u /\ NoThread # u
  OBVIOUS
<1>1. CASE StartDouble(t)
  <2> DEFINE j == Local("double", "explock", hashpower, {})
  <2>1. GrowthOK(j) /\ ~ Doubles(j) /\ ~ Doubles(job[t])
    BY <1>1 DEF StartDouble, At, GrowthOK, Doubles, Local
  <2> QED
    BY <1>1, <2>1, GotoSameGrowth DEF StartDouble
<1>2. CASE TakeExpansionLock(t)
  <2> DEFINE j == [job[t] EXCEPT !.pc = "alloc"]
  <2>1. job[t].pc = "explock" /\ job[t].kind = "double"
    BY <1>0, <1>2 DEF TakeExpansionLock, At, JobOK
  <2>2. ~ Doubles(job[t]) /\ expansion_lock = NoThread
    BY <1>2, <2>1 DEF TakeExpansionLock, Doubles
  <2>3. UNCHANGED <<segments, hashpower>>
    BY <1>2 DEF TakeExpansionLock
  <2>4. CASE hashpower = job[t].hp
    <3>1. Goto(t, j) /\ expansion_lock' = t
      BY <1>2, <2>4 DEF TakeExpansionLock
    <3>2. GrowthOK(j) /\ Doubles(j)
      BY <1>0, <1>h, <2>1, <2>4 DEF GrowthOK, Doubles, Jobs, Enough
    <3> HIDE DEF j
    <3> QED
      BY <1>h, <1>n, <2>2, <2>3, <3>1, <3>2, GotoGrowth
  <2>5. CASE hashpower # job[t].hp
    BY <1>2, <1>i, <2>2, <2>5, GotoSameGrowth DEF TakeExpansionLock
  <2> QED
    BY <2>4, <2>5
<1>3. CASE Allocate(t)
  <2> DEFINE j == Local("double", "all", job[t].hp, {})
  <2>1. job[t].pc = "alloc" /\ job[t].kind = "double" /\ Doubles(job[t]) /\ job[t].hp \in Nat
    BY <1>0, <1>3 DEF Allocate, At, JobOK, Doubles, Jobs
  <2>2. CASE MissingSegments(t) # {}
    <3>1. allocated_size \in Nat /\ allocated_size' \in Nat /\ allocated_size <= allocated_size'
      BY <1>3, <2>2, AllocateGrows
    <3>2. UNCHANGED <<job, hashpower, expansion_lock>>
      BY <1>3, <2>2 DEF Allocate
    <3>3. \A hp \in Nat : Enough(hp) => Enough(hp)'
      BY <3>1, LocksInUse DEF Enough
    <3>4. \A u \in Threads : job[u] \in Jobs /\ GrowthOK(job[u])
      BY DEF LazyTypes, GrowthInv
    <3>5. \A u \in Threads : GrowthOK(job[u])'
      <4> SUFFICES ASSUME NEW u \in Threads PROVE GrowthOK(job[u])'
        OBVIOUS
      <4>1. job'[u] = job[u] /\ job[u].hp \in Nat /\ job[u].hp + 1 \in Nat
            /\ job[u].todo \subseteq Nat /\ job[u].i \in Int
        BY <3>2, <3>4 DEF Jobs, Locks
      <4> QED
        BY <3>1, <3>3, <3>4, <4>1 DEF GrowthOK
    <3>6. hashpower \in Nat
      BY SameTypes
    <3> QED
      BY <1>h, <3>2, <3>3, <3>5, <3>6 DEF GrowthInv, Doubles
  <2>3. CASE MissingSegments(t) = {}
    <3>1. Goto(t, j) /\ segments' = segments
      BY <1>3, <2>3 DEF Allocate, LockAll
    <3>2. Enough(job[t].hp + 1)
      <4>1. SegmentsFor(AtMostLocks(hashsize(job[t].hp + 1))) \subseteq segments
        BY <2>3 DEF MissingSegments
      <4> QED
        BY <2>1, <4>1, NothingMissing
    <3>3. Enough(job[t].hp)
      BY <1>0, <2>1 DEF GrowthOK
    <3>4. GrowthOK(j) /\ Doubles(j)
      BY <1>a, <3>2, <3>3 DEF GrowthOK, Doubles, Local
    <3> QED
      BY <1>3, <2>1, <3>1, <3>4, GotoSameGrowth DEF Allocate
  <2> QED
    BY <2>2, <2>3
<1>4. CASE AllocateFails(t)
  <2>1. Doubles(job[t])
    BY <1>0, <1>4 DEF AllocateFails, At, JobOK, Doubles
  <2> QED
    BY <1>4, <1>i, <1>h, <1>n, <2>1, GotoGrowth DEF AllocateFails
<1>5. CASE Resize(t)
  <2> DEFINE j == [job[t] EXCEPT !.pc = "drain", !.todo = LocksToMove(job[t].hp)]
  <2>1. Goto(t, j) /\ hashpower' = job[t].hp + 1 /\ UNCHANGED <<segments, expansion_lock>>
    BY <1>5 DEF Resize
  <2>2. Enough(hashpower') /\ Doubles(job[t])
    BY <1>0, <1>5, <2>1 DEF Resize, At, GrowthOK, Doubles, Enough
  <2>3. GrowthOK(j) /\ Doubles(j)
    BY <1>0, <1>5 DEF Resize, GrowthOK, Doubles, Jobs
  <2> HIDE DEF j
  <2> QED
    BY <1>h, <2>1, <2>2, <2>3, GotoGrowth
<1>6. CASE DrainStep(t)
  <2>1. PICK l \in job[t].todo : Goto(t, [job[t] EXCEPT !.todo = @ \ {l}])
    BY <1>6 DEF DrainStep
  <2> DEFINE j == [job[t] EXCEPT !.todo = @ \ {l}]
  <2>2. GrowthOK(j) /\ (Doubles(j) <=> Doubles(job[t]))
    BY <1>0, <1>6 DEF DrainStep, At, GrowthOK, Doubles, Jobs
  <2> QED
    BY <1>6, <2>1, <2>2, GotoSameGrowth DEF DrainStep
<1>7. CASE DrainRest(t)
  <2> DEFINE j == [job[t] EXCEPT
                     !.todo = AtMostLocks(hashsize(job[t].hp)) .. allocated_size - 1, !.i = -1]
  <2>1. GrowthOK(j) /\ (Doubles(j) <=> Doubles(job[t]))
    BY <1>0, <1>7 DEF DrainRest, At, GrowthOK, Doubles, Jobs
  <2>2. Goto(t, j)
    BY <1>7 DEF DrainRest
  <2> HIDE DEF j
  <2> QED
    BY <1>7, <2>1, <2>2, GotoSameGrowth DEF DrainRest
<1>8. CASE FinishDouble(t)
  <2>1. Doubles(job[t])
    BY <1>0, <1>8 DEF FinishDouble, At, JobOK, Doubles
  <2> QED
    BY <1>8, <1>i, <1>h, <1>n, <2>1, GotoGrowth DEF FinishDouble
<1> QED
  BY <1>1, <1>2, <1>3, <1>4, <1>5, <1>6, <1>7, <1>8

\* It is kept by every step.
LEMMA GrowthStep ==
  ASSUME RebuiltInOneSegment
  PROVE  LazyTypes /\ GrowthInv /\ [LazyNext]_lazyVars => GrowthInv'
<1> SUFFICES ASSUME LazyTypes, GrowthInv, [LazyNext]_lazyVars PROVE GrowthInv'
  OBVIOUS
<1>1. CASE UNCHANGED lazyVars
  BY <1>1 DEF lazyVars, GrowthInv, GrowthOK, Doubles, Enough, allocated_size, SEGMENT_SIZE
<1>2. CASE LazyNext
  BY <1>2, AccessGrowth, WholeGrowth, DoubleGrowth DEF LazyNext
<1> QED
  BY <1>1, <1>2

\* operator[] of the array is only called for locks whose segment is allocated.
THEOREM IndexAllocatedHolds ==
  ASSUME RebuiltInOneSegment
  PROVE  LazySpec => []IndexAllocated
<1>1. LazyInit => LazyTypes /\ GrowthInv
  BY TypesInit, GrowthInit
<1>2. LazyTypes /\ GrowthInv /\ [LazyNext]_lazyVars => (LazyTypes /\ GrowthInv)'
  BY TypesStep, GrowthStep
<1> QED
  BY <1>1, <1>2, GrowthImplies, PTL DEF LazySpec

-----------------------------------------------------------------------------
(***************************************************************************)
(* Who has which locks.                                                    *)
(***************************************************************************)

\* The locks that a thread with job j has.
HeldOK(j, held) ==
  /\ j.pc \in {"idle", "explock", "alloc"} => held = {}
  /\ j.pc = "all" => held = 0 .. j.i - 1
  /\ j.pc = "owned" => held = 0 .. allocated_size - 1
  /\ j.pc = "release" => held = j.i .. kNumLocks - 1
  /\ j.pc = "drain" /\ j.i # -1 => j.todo \subseteq 0 .. AtMostLocks(hashsize(j.hp)) - 1
  /\ j.pc = "drain" =>
       held = j.todo \union IF j.i = -1 THEN {}
                            ELSE AtMostLocks(hashsize(j.hp)) .. allocated_size - 1

\* The third part of the invariant.
HeldInv == \A t \in Threads : HeldOK(job[t], Held(t))

\* The inductive invariant.
LazyInv == LazyTypes /\ GrowthInv /\ HeldInv

\* What has all the locks of the table at once: a doubling, or, with one segment, a
\* clearing or a rebuilding.
LEMMA WholeJobs ==
  ASSUME RebuiltInOneSegment, ReleasedInOneSegment, LazyTypes, NEW t \in Threads,
         job[t].kind \in {"clear", "grow", "shrink"}
  PROVE  SEGMENT_SIZE = kNumLocks /\ allocated_size = kNumLocks
<1>1. program \in Programs /\ ("clear" \in program.jobs \/ "rehash" \in program.jobs)
  BY DEF LazyTypes, JobOK
<1>2. program.segment = kNumLocks
  BY <1>1 DEF RebuiltInOneSegment, ReleasedInOneSegment
<1> QED
  BY <1>2, AllocatedPart DEF SEGMENT_SIZE

\* Whoever gives back a lock has it.
LEMMA UnlocksOwnFromInv == LazyInv => UnlocksOwn
<1> SUFFICES ASSUME LazyInv, NEW t \in Threads
             PROVE  /\ At(t, "release") /\ job[t].i < allocated_size => holder[job[t].i] = t
                    /\ At(t, "drain") => job[t].todo \subseteq Held(t)
  BY DEF UnlocksOwn
<1>1. HeldOK(job[t], Held(t)) /\ job[t] \in Jobs /\ JobOK(job[t])
  BY DEF LazyInv, HeldInv, LazyTypes
<1>2. ASSUME At(t, "release"), job[t].i < allocated_size PROVE holder[job[t].i] = t
  <2>1. job[t].i \in Int /\ job[t].i < kNumLocks
    BY <1>1, <1>2, AllocatedPart DEF LazyInv, Jobs
  <2>2. job[t].i \in Held(t)
    BY <1>1, <1>2, <2>1 DEF HeldOK, At
  <2> QED
    BY <2>2 DEF Held
<1>3. ASSUME At(t, "drain") PROVE job[t].todo \subseteq Held(t)
  BY <1>1, <1>3 DEF HeldOK, At
<1> QED
  BY <1>2, <1>3

\* Whoever has taken all the locks has the lock of every bucket.
LEMMA OwnedFromInv == LazyInv => WholeTableOwned
<1> SUFFICES ASSUME LazyInv, NEW t \in Threads, At(t, "owned"),
                    NEW b \in 0 .. hashsize(hashpower) - 1
             PROVE  holder[lock_ind(b)] = t
  BY DEF WholeTableOwned
<1>1. Held(t) = 0 .. allocated_size - 1
  BY DEF LazyInv, HeldInv, HeldOK, At
<1>2. hashpower \in Nat
  BY SameTypes DEF LazyInv
<1> DEFINE m == AtMostLocks(hashsize(hashpower))
<1>3. m \in 1 .. kNumLocks /\ lock_ind(b) \in 0 .. m - 1
  BY <1>2, LocksInUse
<1>4. m <= allocated_size /\ allocated_size \in Nat
  BY AllocatedPart DEF LazyInv, GrowthInv, Enough
<1> HIDE DEF m
<1>5. lock_ind(b) \in Held(t)
  BY <1>1, <1>3, <1>4
<1> QED
  BY <1>5 DEF Held

\* What the changes of holder do to the sets of locks that threads have.
LEMMA HolderChanges ==
  ASSUME LazyTypes, NEW t \in Threads
  PROVE  /\ holder' = holder => \A u \in Threads : Held(u)' = Held(u)
         /\ \A ls \in SUBSET Held(t) : Give(ls) =>
              /\ Held(t)' = Held(t) \ ls
              /\ \A u \in Threads \ {t} : Held(u)' = Held(u)
         /\ \A l \in Locks : holder[l] = NoThread /\ holder' = [holder EXCEPT ![l] = t] =>
              /\ Held(t)' = Held(t) \union {l}
              /\ \A u \in Threads \ {t} : Held(u)' = Held(u)
<1>1. holder' = holder => \A u \in Threads : Held(u)' = Held(u)
  BY DEF Held
<1>2. ASSUME NEW ls \in SUBSET Held(t), Give(ls)
      PROVE  /\ Held(t)' = Held(t) \ ls
             /\ \A u \in Threads \ {t} : Held(u)' = Held(u)
  BY <1>2 DEF Held, Give
<1>3. ASSUME NEW l \in Locks, holder[l] = NoThread, holder' = [holder EXCEPT ![l] = t]
      PROVE  /\ Held(t)' = Held(t) \union {l}
             /\ \A u \in Threads \ {t} : Held(u)' = Held(u)
  BY <1>3 DEF LazyTypes, Held
<1> QED
  BY <1>1, <1>2, <1>3

\* A step in which nothing is allocated.
LEMMA GotoHeld ==
  ASSUME LazyTypes, HeldInv, NEW t \in Threads, NEW j, Goto(t, j), HeldOK(j, Held(t)'),
         \A u \in Threads \ {t} : Held(u)' = Held(u), program' = program, segments' = segments
  PROVE  HeldInv'
<1>1. allocated_size' = allocated_size
  BY DEF allocated_size, SEGMENT_SIZE
<1>2. \A u \in Threads : job'[u] = IF u = t THEN j ELSE job[u]
  BY DEF Goto, LazyTypes
<1>3. ASSUME NEW u \in Threads PROVE HeldOK(job[u], Held(u))'
  <2>1. CASE u = t
    BY <1>1, <1>2, <2>1 DEF HeldOK
  <2>2. CASE u # t
    BY <1>1, <1>2, <2>2 DEF HeldInv, HeldOK
  <2> QED
    BY <2>1, <2>2
<1> QED
  BY <1>3 DEF HeldInv

\* A step that leaves the locks alone.
LEMMA GotoSameHeld ==
  ASSUME LazyTypes, HeldInv, NEW t \in Threads, NEW j, Goto(t, j), HeldOK(j, Held(t)),
         holder' = holder, program' = program, segments' = segments
  PROVE  HeldInv'
<1>1. \A u \in Threads : Held(u)' = Held(u)
  BY HolderChanges
<1> QED
  BY <1>1, GotoHeld

\* No thread has a lock before the first call.
LEMMA HeldInit == LazyInit => HeldInv
<1> SUFFICES ASSUME LazyInit, NEW t \in Threads PROVE HeldOK(job[t], Held(t))
  BY DEF HeldInv
<1>1. Held(t) = {} /\ job[t].pc = "idle"
  BY DEF LazyInit, Held, Idle, Local
<1> QED
  BY <1>1 DEF HeldOK

\* The operations on buckets give back what they have.
LEMMA AccessHeld ==
  ASSUME LazyTypes, HeldInv, NEW t \in Threads, program' = program,
         StartAccess(t) \/ AccessLock(t) \/ AccessCheck(t) \/ AccessUnlock(t)
  PROVE  HeldInv'
<1>0. job[t] \in Jobs /\ JobOK(job[t]) /\ HeldOK(job[t], Held(t))
  BY SameTypes DEF HeldInv
<1>i. HeldOK(Idle, {})
  BY DEF HeldOK, Idle, Local
<1>g. Give(Held(t)) => Held(t)' = {} /\ \A u \in Threads \ {t} : Held(u)' = Held(u)
  BY HolderChanges
<1>1. CASE StartAccess(t)
  <2>1. PICK b1 \in 0 .. hashsize(hashpower) - 1, b2 \in 0 .. hashsize(hashpower) - 1 :
          Goto(t, Local("access", "lock", hashpower, {lock_ind(b1), lock_ind(b2)}))
    BY <1>1 DEF StartAccess
  <2> DEFINE j == Local("access", "lock", hashpower, {lock_ind(b1), lock_ind(b2)})
  <2>2. HeldOK(j, Held(t))
    BY DEF HeldOK, Local
  <2> QED
    BY <1>1, <2>1, <2>2, GotoSameHeld DEF StartAccess
<1>2. CASE AccessLock(t)
  <2> DEFINE l == Min(job[t].todo)
             pc == IF Held(t) = {} THEN "check" ELSE IF job[t].todo = {l} THEN "using" ELSE "lock"
             j == [job[t] EXCEPT !.todo = @ \ {l}, !.pc = pc]
  <2>1. /\ Goto(t, j) /\ segments' = segments /\ job[t].pc = "lock"
        /\ holder[l] = NoThread /\ holder' = [holder EXCEPT ![l] = t]
    BY <1>2 DEF AccessLock, At
  <2>2. l \in Locks
    <3>1. job[t].todo \in SUBSET Nat /\ job[t].todo # {} /\ job[t].todo \subseteq Locks
      BY <1>0, <2>1 DEF Jobs, JobOK, Locks
    <3> QED
      BY <3>1, MinIsLeast
  <2> HIDE DEF l
  <2>3. HeldOK(j, Held(t)')
    BY <1>0, <2>1 DEF HeldOK, Jobs
  <2>4. \A u \in Threads \ {t} : Held(u)' = Held(u)
    BY <2>1, <2>2, HolderChanges
  <2> HIDE DEF j
  <2> QED
    BY <2>1, <2>3, <2>4, GotoHeld
<1>3. CASE AccessCheck(t)
  <2> DEFINE j == [job[t] EXCEPT !.pc = IF job[t].todo = {} THEN "using" ELSE "lock"]
  <2>1. segments' = segments
    BY <1>3 DEF AccessCheck
  <2>2. HeldOK(j, Held(t))
    BY <1>0 DEF HeldOK, Jobs
  <2>3. \/ Goto(t, j) /\ holder' = holder
        \/ Goto(t, Idle) /\ Give(Held(t))
    BY <1>3 DEF AccessCheck
  <2> HIDE DEF j
  <2>4. CASE Goto(t, j) /\ holder' = holder
    BY <2>1, <2>2, <2>4, GotoSameHeld
  <2>5. CASE Goto(t, Idle) /\ Give(Held(t))
    BY <1>i, <1>g, <2>1, <2>5, GotoHeld
  <2> QED
    BY <2>3, <2>4, <2>5
<1>4. CASE AccessUnlock(t)
  BY <1>4, <1>i, <1>g, GotoHeld DEF AccessUnlock
<1> QED
  BY <1>1, <1>2, <1>3, <1>4

\* The loops over all the locks take and give back one after the other.
LEMMA WholeHeld ==
  ASSUME RebuiltInOneSegment, ReleasedInOneSegment, LazyInv,
         NEW t \in Threads, program' = program,
         \/ LockAllStep(t) \/ ReleaseStep(t)
         \/ StartClear(t) \/ StartRehash(t) \/ OwnerDone(t)
  PROVE  HeldInv'
<1>t. LazyTypes /\ HeldInv
  BY DEF LazyInv
<1>0. job[t] \in Jobs /\ JobOK(job[t]) /\ HeldOK(job[t], Held(t)) /\ GrowthOK(job[t])
  BY SameTypes DEF LazyInv, HeldInv, GrowthInv
<1>i. HeldOK(Idle, {})
  BY DEF HeldOK, Idle, Local
<1>a. allocated_size \in 1 .. kNumLocks
  BY <1>t, AllocatedPart
<1>1. CASE LockAllStep(t)
  <2> DEFINE i == job[t].i
             j == [job[t] EXCEPT !.i = @ + 1]
             k == [job[t] EXCEPT !.pc = "owned"]
  <2>1. /\ job[t].pc = "all" /\ i \in Nat /\ i <= allocated_size
        /\ Held(t) = 0 .. i - 1 /\ segments' = segments
    BY <1>0, <1>1 DEF LockAllStep, At, Jobs, JobOK, HeldOK, GrowthOK
  <2>2. CASE i < allocated_size
    <3>1. Goto(t, j) /\ holder[i] = NoThread /\ holder' = [holder EXCEPT ![i] = t]
      BY <1>1, <2>2 DEF LockAllStep
    <3>2. i \in Locks
      BY <1>a, <2>1, <2>2 DEF Locks
    <3>3. Held(t)' = Held(t) \union {i} /\ \A u \in Threads \ {t} : Held(u)' = Held(u)
      BY <1>t, <3>1, <3>2, HolderChanges
    <3>4. HeldOK(j, Held(t)')
      <4>1. (0 .. i - 1) \union {i} = 0 .. (i + 1) - 1
        BY <2>1
      <4>2. j.pc = "all" /\ j.i = i + 1
        BY <1>0, <2>1 DEF Jobs
      <4> QED
        BY <2>1, <3>3, <4>1, <4>2 DEF HeldOK
    <3> HIDE DEF j
    <3> QED
      BY <1>t, <2>1, <3>1, <3>3, <3>4, GotoHeld
  <2>3. CASE ~ (i < allocated_size)
    <3>1. Goto(t, k) /\ holder' = holder
      BY <1>1, <2>3 DEF LockAllStep
    <3>2. i = allocated_size
      BY <1>a, <2>1, <2>3
    <3>3. HeldOK(k, Held(t))
      BY <1>0, <2>1, <3>2 DEF HeldOK, Jobs
    <3> HIDE DEF k
    <3> QED
      BY <1>t, <2>1, <3>1, <3>3, GotoSameHeld
  <2> QED
    BY <2>2, <2>3
<1>2. CASE ReleaseStep(t)
  <2> DEFINE i == job[t].i
             j == [job[t] EXCEPT !.i = @ + 1]
  <2>1. /\ job[t].pc = "release" /\ i \in Nat /\ job[t].kind \in {"clear", "grow", "shrink"}
        /\ Held(t) = i .. kNumLocks - 1 /\ segments' = segments
    BY <1>0, <1>2 DEF ReleaseStep, At, Jobs, JobOK, HeldOK
  <2>2. allocated_size = kNumLocks
    BY <1>t, <2>1, WholeJobs
  <2>3. CASE i < allocated_size
    <3>1. Goto(t, j) /\ Give({i})
      BY <1>2, <2>3 DEF ReleaseStep
    <3>2. {i} \in SUBSET Held(t)
      BY <2>1, <2>2, <2>3
    <3>3. Held(t)' = Held(t) \ {i} /\ \A u \in Threads \ {t} : Held(u)' = Held(u)
      BY <1>t, <3>1, <3>2, HolderChanges
    <3>4. HeldOK(j, Held(t)')
      <4>1. (i .. kNumLocks - 1) \ {i} = i + 1 .. kNumLocks - 1
        BY <2>1
      <4>2. j.pc = "release" /\ j.i = i + 1
        BY <1>0, <2>1 DEF Jobs
      <4> QED
        BY <2>1, <3>3, <4>1, <4>2 DEF HeldOK
    <3> HIDE DEF j
    <3> QED
      BY <1>t, <2>1, <3>1, <3>3, <3>4, GotoHeld
  <2>4. CASE ~ (i < allocated_size)
    <3>1. Goto(t, Idle) /\ holder' = holder
      BY <1>2, <2>4 DEF ReleaseStep
    <3>2. Held(t) = {}
      BY <2>1, <2>2, <2>4
    <3> QED
      BY <1>t, <1>i, <2>1, <3>1, <3>2, GotoSameHeld
  <2> QED
    BY <2>3, <2>4
<1>3. CASE StartClear(t)
  <2> DEFINE j == Local("clear", "all", 0, {})
  <2>1. Held(t) = {}
    BY <1>0, <1>3 DEF StartClear, At, HeldOK
  <2>2. HeldOK(j, Held(t))
    BY <2>1 DEF HeldOK, Local
  <2> QED
    BY <1>t, <1>3, <2>2, GotoSameHeld DEF StartClear, LockAll
<1>4. CASE StartRehash(t)
  <2>1. PICK hp \in (1 .. MaxHashpower) \ {hashpower} :
          LockAll(t, IF hp > hashpower THEN "grow" ELSE "shrink", hp)
    BY <1>4 DEF StartRehash
  <2> DEFINE j == Local(IF hp > hashpower THEN "grow" ELSE "shrink", "all", hp, {})
  <2>2. Held(t) = {}
    BY <1>0, <1>4 DEF StartRehash, At, HeldOK
  <2>3. HeldOK(j, Held(t))
    BY <2>2 DEF HeldOK, Local
  <2>4. Goto(t, j)
    BY <2>1 DEF LockAll
  <2> QED
    BY <1>t, <1>4, <2>3, <2>4, GotoSameHeld DEF StartRehash
<1>5. CASE OwnerDone(t)
  <2> DEFINE j == [job[t] EXCEPT !.pc = "release", !.i = 0]
  <2>1. /\ job[t].pc = "owned" /\ job[t].kind \in {"clear", "grow", "shrink"}
        /\ Goto(t, j) /\ holder' = holder /\ segments' = segments
    BY <1>0, <1>5 DEF OwnerDone, At, JobOK
  <2>2. Held(t) = 0 .. kNumLocks - 1
    BY <1>0, <1>t, <2>1, WholeJobs DEF HeldOK
  <2>3. HeldOK(j, Held(t))
    BY <1>0, <2>2 DEF HeldOK, Jobs
  <2> HIDE DEF j
  <2> QED
    BY <1>t, <2>1, <2>3, GotoSameHeld
<1> QED
  BY <1>1, <1>2, <1>3, <1>4, <1>5

\* A doubling gives back exactly the locks that it has.
LEMMA DoubleHeld ==
  ASSUME RebuiltInOneSegment, ReleasedInOneSegment, LazyInv,
         NEW t \in Threads, program' = program,
         \/ StartDouble(t) \/ TakeExpansionLock(t) \/ Allocate(t) \/ AllocateFails(t)
         \/ Resize(t) \/ DrainStep(t) \/ DrainRest(t) \/ FinishDouble(t)
  PROVE  HeldInv'
<1>t. LazyTypes /\ HeldInv
  BY DEF LazyInv
<1>0. job[t] \in Jobs /\ JobOK(job[t]) /\ HeldOK(job[t], Held(t)) /\ GrowthOK(job[t])
  BY SameTypes DEF LazyInv, HeldInv, GrowthInv
<1>i. HeldOK(Idle, {})
  BY DEF HeldOK, Idle, Local
<1>a. allocated_size \in 1 .. kNumLocks
  BY <1>t, AllocatedPart
<1>1. CASE StartDouble(t)
  <2> DEFINE j == Local("double", "explock", hashpower, {})
  <2>1. HeldOK(j, Held(t))
    BY <1>0, <1>1 DEF StartDouble, At, HeldOK, Local
  <2> QED
    BY <1>t, <1>1, <2>1, GotoSameHeld DEF StartDouble
<1>2. CASE TakeExpansionLock(t)
  <2> DEFINE j == [job[t] EXCEPT !.pc = "alloc"]
  <2>1. Held(t) = {}
    BY <1>0, <1>2 DEF TakeExpansionLock, At, HeldOK
  <2>2. HeldOK(j, Held(t))
    BY <1>0, <2>1 DEF HeldOK, Jobs
  <2>3. Goto(t, j) \/ Goto(t, Idle)
    BY <1>2 DEF TakeExpansionLock
  <2> HIDE DEF j
  <2> QED
    BY <1>t, <1>2, <1>i, <2>1, <2>2, <2>3, GotoSameHeld DEF TakeExpansionLock
<1>3. CASE Allocate(t)
  <2> DEFINE j == Local("double", "all", job[t].hp, {})
  <2>1. job[t].pc = "alloc" /\ job[t].kind = "double" /\ Held(t) = {}
    BY <1>0, <1>3 DEF Allocate, At, JobOK, HeldOK
  <2>2. CASE MissingSegments(t) # {}
    <3>1. UNCHANGED <<job, holder>>
      BY <1>3, <2>2 DEF Allocate
    <3>2. expansion_lock = t
      BY <2>1 DEF LazyInv, GrowthInv, Doubles
    <3>3. ASSUME NEW u \in Threads PROVE HeldOK(job[u], Held(u))'
      <4>1. job'[u] = job[u] /\ Held(u)' = Held(u)
        BY <1>t, <3>1, HolderChanges
      <4>2. HeldOK(job[u], Held(u)) /\ JobOK(job[u])
        BY <1>t, SameTypes DEF HeldInv
      <4>3. CASE job[u].kind = "double" /\ job[u].pc \in {"owned", "drain"}
        <5>1. u = t
          BY <3>2, <4>3 DEF LazyInv, GrowthInv, Doubles
        <5> QED
          BY <2>1, <4>3, <5>1
      <4>4. CASE job[u].kind # "double" /\ job[u].pc \in {"owned", "drain"}
        <5>1. SEGMENT_SIZE = kNumLocks /\ NUM_SEGMENTS \in Nat /\ NUM_SEGMENTS = 1
          BY <1>t, <4>2, <4>4, WholeJobs, ArraySize DEF JobOK
        <5>2. \E n \in 1 .. NUM_SEGMENTS - 1 : TRUE
          BY <1>t, <1>3, <2>2, NextSegment DEF Allocate
        <5> QED
          BY <5>1, <5>2
      <4>5. CASE job[u].pc \notin {"owned", "drain"}
        BY <4>1, <4>2, <4>5 DEF HeldOK
      <4> QED
        BY <4>3, <4>4, <4>5
    <3> QED
      BY <3>3 DEF HeldInv
  <2>3. CASE MissingSegments(t) = {}
    <3>1. Goto(t, j) /\ segments' = segments /\ holder' = holder
      BY <1>3, <2>3 DEF Allocate, LockAll
    <3>2. HeldOK(j, Held(t))
      BY <2>1 DEF HeldOK, Local
    <3> QED
      BY <1>t, <3>1, <3>2, GotoSameHeld
  <2> QED
    BY <2>2, <2>3
<1>4. CASE AllocateFails(t)
  <2>1. Held(t) = {}
    BY <1>0, <1>4 DEF AllocateFails, At, HeldOK
  <2> QED
    BY <1>t, <1>4, <1>i, <2>1, GotoSameHeld DEF AllocateFails
<1>5. CASE Resize(t)
  <2> DEFINE m == AtMostLocks(hashsize(job[t].hp))
             j == [job[t] EXCEPT !.pc = "drain", !.todo = 0 .. m - 1]
  <2>1. Goto(t, j) /\ holder' = holder /\ segments' = segments
    BY <1>5 DEF Resize, LocksToMove
  <2>2. job[t].pc = "owned" /\ job[t].kind = "double" /\ job[t].hp \in Nat /\ job[t].i \in Nat
    BY <1>0, <1>5 DEF Resize, At, Jobs, JobOK
  <2>3. m \in 1 .. kNumLocks /\ m <= allocated_size
    BY <1>0, <2>2, LocksInUse DEF GrowthOK, Enough
  <2>4. Held(t) = 0 .. allocated_size - 1
    BY <1>0, <2>2 DEF HeldOK
  <2>5. j.pc = "drain" /\ j.todo = 0 .. m - 1 /\ j.i \in Nat /\ j.hp = job[t].hp
    BY <1>0, <2>2 DEF Jobs
  <2>6. HeldOK(j, Held(t))
    <3> DEFINE n == m
    <3>1. 0 .. allocated_size - 1 = (0 .. n - 1) \union (n .. allocated_size - 1)
      <4> HIDE DEF m
      <4> QED
        BY <1>a, <2>3
    <3> HIDE DEF j
    <3> QED
      BY <2>4, <2>5, <3>1 DEF HeldOK
  <2> HIDE DEF j
  <2> QED
    BY <1>t, <2>1, <2>6, GotoSameHeld
<1>6. CASE DrainStep(t)
  <2>1. PICK l \in job[t].todo : Give({l}) /\ Goto(t, [job[t] EXCEPT !.todo = @ \ {l}])
    BY <1>6 DEF DrainStep
  <2> DEFINE j == [job[t] EXCEPT !.todo = @ \ {l}]
             rest == IF job[t].i = -1 THEN {}
                     ELSE AtMostLocks(hashsize(job[t].hp)) .. allocated_size - 1
  <2>2. job[t].pc = "drain" /\ segments' = segments
    BY <1>6 DEF DrainStep, At
  <2>3. Held(t) = job[t].todo \union rest
    BY <1>0, <2>2 DEF HeldOK
  <2>4. {l} \in SUBSET Held(t)
    BY <2>1, <2>3
  <2>5. Held(t)' = Held(t) \ {l} /\ \A u \in Threads \ {t} : Held(u)' = Held(u)
    BY <1>t, <2>1, <2>4, HolderChanges
  <2>6. l \notin rest
    <3> DEFINE m == AtMostLocks(hashsize(job[t].hp))
    <3>1. job[t].i # -1 => l \in 0 .. m - 1
      BY <1>0, <2>1, <2>2 DEF HeldOK
    <3>2. m \in Nat
      BY <1>0, LocksInUse DEF Jobs
    <3> HIDE DEF m
    <3>3. job[t].i # -1 => l \notin m .. allocated_size - 1
      BY <1>a, <3>1, <3>2
    <3> QED
      BY <3>3 DEF m
  <2>7. HeldOK(j, Held(t)')
    <3>1. j.pc = "drain" /\ j.todo = job[t].todo \ {l} /\ j.i = job[t].i /\ j.hp = job[t].hp
      BY <1>0, <2>2 DEF Jobs
    <3>2. Held(t)' = j.todo \union rest
      BY <2>3, <2>5, <2>6, <3>1
    <3> HIDE DEF j
    <3> QED
      BY <1>0, <2>2, <3>1, <3>2 DEF HeldOK
  <2>8. Goto(t, j)
    BY <2>1
  <2> HIDE DEF j
  <2> QED
    BY <1>t, <2>2, <2>5, <2>7, <2>8, GotoHeld
<1>7. CASE DrainRest(t)
  <2> DEFINE rest == AtMostLocks(hashsize(job[t].hp)) .. allocated_size - 1
             j == [job[t] EXCEPT !.todo = rest, !.i = -1]
  <2>1. /\ Goto(t, j) /\ holder' = holder /\ segments' = segments
        /\ job[t].pc = "drain" /\ job[t].todo = {} /\ job[t].i # -1
    BY <1>7 DEF DrainRest, At
  <2>2. Held(t) = rest
    BY <1>0, <2>1 DEF HeldOK
  <2> HIDE DEF rest
  <2>3. j.pc = "drain" /\ j.todo = rest /\ j.i = -1
    BY <1>0, <2>1 DEF Jobs
  <2> HIDE DEF j
  <2>4. HeldOK(j, Held(t))
    BY <2>2, <2>3 DEF HeldOK
  <2> QED
    BY <1>t, <2>1, <2>4, GotoSameHeld
<1>8. CASE FinishDouble(t)
  <2>1. Held(t) = {}
    BY <1>0, <1>8 DEF FinishDouble, At, HeldOK
  <2> QED
    BY <1>t, <1>8, <1>i, <2>1, GotoSameHeld DEF FinishDouble
<1> QED
  BY <1>1, <1>2, <1>3, <1>4, <1>5, <1>6, <1>7, <1>8

\* The inductive invariant is kept by every step.
LEMMA LazyInvStep ==
  ASSUME RebuiltInOneSegment, ReleasedInOneSegment
  PROVE  LazyInv /\ [LazyNext]_lazyVars => LazyInv'
<1> SUFFICES ASSUME LazyInv, [LazyNext]_lazyVars PROVE LazyInv'
  OBVIOUS
<1>1. LazyTypes' /\ GrowthInv'
  BY TypesStep, GrowthStep DEF LazyInv
<1>2. HeldInv'
  <2>1. CASE UNCHANGED lazyVars
    BY <2>1 DEF lazyVars, LazyInv, HeldInv, HeldOK, Held, allocated_size, SEGMENT_SIZE
  <2>2. CASE LazyNext
    BY <2>2, AccessHeld, WholeHeld, DoubleHeld DEF LazyNext, LazyInv
  <2> QED
    BY <2>1, <2>2
<1> QED
  BY <1>1, <1>2 DEF LazyInv

\* The inductive invariant of the lock array.
THEOREM LazyInvariant ==
  ASSUME RebuiltInOneSegment, ReleasedInOneSegment
  PROVE  LazySpec => []LazyInv
<1>1. LazyInit => LazyInv
  BY TypesInit, GrowthInit, HeldInit DEF LazyInv
<1> QED
  BY <1>1, LazyInvStep, PTL DEF LazySpec

\* The loops that unlock give back only what their thread has locked.
THEOREM UnlocksOwnHolds ==
  ASSUME RebuiltInOneSegment, ReleasedInOneSegment
  PROVE  LazySpec => []UnlocksOwn
BY LazyInvariant, UnlocksOwnFromInv, PTL

\* snapshot_and_lock_all returns with the lock of every bucket, although the array may
\* grow while it runs.
THEOREM WholeTableOwnedHolds ==
  ASSUME RebuiltInOneSegment, ReleasedInOneSegment
  PROVE  LazySpec => []WholeTableOwned
BY LazyInvariant, OwnedFromInv, PTL
=============================================================================
