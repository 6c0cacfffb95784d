---------------------------- MODULE SimpleRebuild ----------------------------
(***************************************************************************)
(* cuckoo_expand_simple between its locking and its unlocking, step by     *)
(* step.  It makes a new table, new_map, whose state is the state of       *)
(* CuckooMap here, and the workers of parallel_exec insert into it what    *)
(* they find in the old buckets.  The old table is locked meanwhile, so    *)
(* that only its buckets matter.  In the end the buckets are swapped.      *)
(*                                                                         *)
(* The threads of CuckooMap are the workers, and Calls their insertions.   *)
(* A worker takes the old buckets one at a time; the ranges that tbb hands *)
(* out are sequences of such tasks.                                        *)
(***************************************************************************)
EXTENDS CuckooMap

CONSTANTS
  OldHashpower, OldMap,   \* the table to be rebuilt, and what is in it
  NewHp,                  \* the hashpower asked for
  Hollowed,               \* what is left of an item that was moved from
  NoTask                  \* a worker that has no bucket to go through

\* new_map(hashsize(new_hp) * slot_per_bucket, 0.0, no maximum): it is empty and has
\* no limits.
ASSUME NewMapAssumption ==
  /\ InitialHashpower = reserve_calc(hashsize(NewHp) * SLOT_PER_BUCKET)
  /\ DOMAIN InitialMap = {} /\ InitialMlf = 0 /\ InitialMhp = NO_MAXIMUM_HASHPOWER

\* The old table holds items that can be in one.
ASSUME OldTableAssumption ==
  /\ OldHashpower \in Nat /\ NewHp \in Nat
  /\ DOMAIN OldMap \subseteq Keys /\ \A k \in DOMAIN OldMap : OldMap[k] \in Vals

\* The calls of the workers are the insertions of its items.
ASSUME WorkerCallsAssumption ==
  Calls = {[op |-> "insert", key |-> k, val |-> OldMap[k]] : k \in DOMAIN OldMap}

\* Neither an item nor a vacant slot looks like one that was moved from.
ASSUME HollowedAssumption ==
  /\ Hollowed # Vacant /\ \A k \in Keys, v \in Vals : Item(k, v) # Hollowed
  /\ NoTask \notin (0 .. hashsize(OldHashpower) - 1) \X Slots

VARIABLES
  old,       \* the buckets_ of the old table
  pending,   \* the old buckets that no worker has taken yet
  task,      \* task[w]: the bucket and slot worker w is at, or NoTask
  phase      \* "moving", then "swapped"; "failing", then "thrown"

rebuildVars == <<mapVars, old, pending, task, phase>>

RebuildInit ==
  /\ MapInit
  /\ old \in Layouts(OldHashpower, OldMap)
  /\ pending = DOMAIN old
  /\ task = [w \in Threads |-> NoTask]
  /\ phase = "moving"
-----------------------------------------------------------------------------
(***************************************************************************)
(* SimpleMoveBucketsFn.                                                    *)
(***************************************************************************)

\* The first occupied slot of old bucket i from slot s on.
Task(i, s) ==
  LET occupied == {r \in Slots : r >= s /\ old[i][r] # Vacant}
  IN  IF occupied = {} THEN NoTask ELSE <<i, Min(occupied)>>

TakeBucket(w) ==
  /\ task[w] = NoTask
  /\ \E i \in pending :
       /\ pending' = pending \ {i}
       /\ task' = [task EXCEPT ![w] = Task(i, 0)]
  /\ UNCHANGED <<mapVars, old, phase>>

\* The worker calls new_map->insert for the item it is at.
InsertItem(w) ==
  /\ task[w] # NoTask
  /\ LET item == old[task[w][1]][task[w][2]]
     IN  Call(w, [op |-> "insert", key |-> item.key, val |-> item.val])
  /\ UNCHANGED <<old, pending, task, phase>>

\* The insertion makes a step.  When it returns, which it does in the step that
\* adds the item, the item was moved from; its result is not looked at.
InsertStep(w) ==
  /\ Step(w)
  /\ IF call'[w] # NoCall
       THEN UNCHANGED <<old, task>>
       ELSE LET i == task[w][1]
                s == task[w][2]
            IN  /\ old' = IF ret'[w].st # "ok" THEN old
                          ELSE [old EXCEPT ![i][s] = Hollowed]
                /\ task' = [task EXCEPT ![w] = Task(i, s + 1)]
  /\ UNCHANGED <<pending, phase>>

\* parallel_exec waits for all of its tasks.
AllDone == pending = {} /\ \A w \in Threads : task[w] = NoTask

\* Mutant of Swap: the last tasks are not waited for.
SwapEarly ==
  /\ phase = "moving" /\ pending = {}
  /\ phase' = "swapped"
  /\ UNCHANGED <<mapVars, old, pending, task>>

\* The buckets of the new table, and its hashpower, become those of the old one.
Swap ==
  /\ phase = "moving" /\ AllDone
  /\ phase' = "swapped"
  /\ UNCHANGED <<mapVars, old, pending, task>>

Over == phase \in {"swapped", "thrown"} /\ UNCHANGED rebuildVars

Worker(w) == TakeBucket(w) \/ InsertItem(w) \/ InsertStep(w)

RebuildNext == (\E w \in Threads : Worker(w)) \/ Swap \/ Over

RebuildSpec == RebuildInit /\ [][RebuildNext]_rebuildVars

\* A worker that can go on is scheduled again, and so is the thread that waits
\* for the workers.
FairRebuildSpec ==
  /\ RebuildSpec
  /\ \A w \in Threads : WF_rebuildVars(Worker(w))
  /\ WF_rebuildVars(Swap)
-----------------------------------------------------------------------------
(***************************************************************************)
(* User code may throw in an insertion.  Tasks that have not started are   *)
(* canceled, running ones end, and the exception leaves                    *)
(* cuckoo_expand_simple, which destroys the new table and what is in it.   *)
(***************************************************************************)

\* The hash of the item's key throws at the start of insert.
InsertThrows(w) ==
  /\ task[w] # NoTask /\ call[w] = NoCall
  /\ task' = [task EXCEPT ![w] = NoTask]
  /\ pending' = {}
  /\ phase' = "failing"
  /\ UNCHANGED <<mapVars, old>>

Rethrow ==
  /\ phase = "failing" /\ AllDone
  /\ phase' = "thrown"
  /\ UNCHANGED <<mapVars, old, pending, task>>

ThrowingNext == RebuildNext \/ (\E w \in Threads : InsertThrows(w)) \/ Rethrow

ThrowingSpec == RebuildInit /\ [][ThrowingNext]_rebuildVars
-----------------------------------------------------------------------------
\* The keys whose items are still in the old buckets.
InOld == {k \in Keys : \E i \in DOMAIN old, s \in Slots :
                          old[i][s] \notin {Vacant, Hollowed} /\ old[i][s].key = k}

\* While workers displace each other's items and the new table doubles under
\* them, every item is in one of the two tables, and with its value.
EachItemOnce ==
  \A k \in DOMAIN OldMap :
    \/ k \in InOld /\ Contents[k] = NoVal
    \/ k \notin InOld /\ Contents[k] = OldMap[k]

\* What the step ExpandSimple of CuckooMap takes for granted: the new table
\* holds the old map, every item in one of its two buckets, at a hashpower not
\* below the one new_map started with.
RebuiltTable ==
  phase = "swapped" =>
    hashpower >= InitialHashpower /\ buckets \in Layouts(hashpower, OldMap)

\* The workers come to an end, although each may have to wait for the doublings of
\* the others and to search its way again after them.
RebuildEnds == <>(phase = "swapped")

\* "cuckoo_expand_simple ... provides a strong exception guarantee": when it
\* throws, the table holds what it held before.
StrongGuarantee == phase = "thrown" => InOld = DOMAIN OldMap
=============================================================================
