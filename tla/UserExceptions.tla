--------------------------- MODULE UserExceptions ---------------------------
(***************************************************************************)
(* The table when user code throws: the hash function, the equality        *)
(* predicate, copies of values, and the constructors of keys and values.   *)
(* The table catches none of these; the destructors of BucketContainer,    *)
(* AllUnlocker and lock_guard give back what is locked, and the exception  *)
(* ends the call.                                                          *)
(*                                                                         *)
(* The hash of the call's own key is taken before the first lock, so that  *)
(* an exception there is a call that was not made.                         *)
(***************************************************************************)
EXTENDS CuckooMap

exception == "exception"

Abandon(t) == Return(t, Result(exception, NoVal))

\* Some key in the two buckets is compared with the key of the call.
Compares(bs, t) ==
  \E j \in {1, 2}, s \in Slots :
    LET item == bs[th[t].b[j]][s]
    IN  item # Vacant /\ (IsSimple \/ item.partial = partial_key(Hash[Key(t)]))

\* Mutant of EqualThrows: the exception passes with the buckets locked.
EqualThrowsLocked(t) ==
  /\ HasBuckets(t) /\ Op(t) # "clear" /\ Compares(buckets, t)
  /\ Abandon(t)
  /\ req' = [req EXCEPT ![t] = NoRequest]
  /\ UNCHANGED <<hashpower, writer, readers, table, expansion_lock, limits>>

\* The equality predicate throws in a lookup, or before a change.
EqualThrows(t) ==
  /\ HasBuckets(t) /\ Op(t) # "clear" /\ Compares(buckets, t)
  /\ Abandon(t)
  /\ UnlockAll(t)
  /\ UNCHANGED <<table, expansion_lock, limits>>

\* The equality predicate throws after room was made for the key.
EqualThrowsAfterMove(t) ==
  /\ HasMoveLocks(t) /\ MoveValid(t) /\ th[t].depth <= 1 /\ Compares(Moved(t), t)
  /\ buckets' = Moved(t)
  /\ Abandon(t)
  /\ UnlockAll(t)
  /\ UNCHANGED <<elems, expansion_lock, limits>>

\* Copying the value out or in throws, or the function of update_fn and upsert.
ValueThrows(t) ==
  /\ HasBuckets(t) /\ Op(t) # "clear" /\ Found(t)
  /\ Op(t) \in {"find", "update", "update_fn"} \/ (Upserts(t) /\ ~ th[t].nested)
  /\ Abandon(t)
  /\ UnlockAll(t)
  /\ UNCHANGED <<table, expansion_lock, limits>>

\* The hash of an item on the path throws in cuckoopath_search, under lock_one.
HashThrowsOnPath(t) ==
  /\ At(t, "path")
  /\ Available(lock_ind(PeekBucket(t)), FALSE) /\ hashpower = th[t].hp
  /\ buckets[PeekBucket(t)][th[t].slots[Len(th[t].path) + 1]] # Vacant
  /\ Abandon(t)
  /\ UNCHANGED <<locksVars, table, expansion_lock, limits>>

\* Mutant of HashThrowsInMove: the item was already taken out.
HashThrowsTooLate(t) ==
  /\ HasMoveLocks(t) /\ th[t].depth > 0
  /\ LET from == th[t].path[th[t].depth]
     IN  buckets' = [buckets EXCEPT ![from.bucket][from.slot] = Vacant]
  /\ Abandon(t)
  /\ UnlockAll(t)
  /\ UNCHANGED <<elems, expansion_lock, limits>>

\* The hash of the item to be moved throws in cuckoopath_move.
HashThrowsInMove(t) ==
  /\ HasMoveLocks(t) /\ th[t].depth > 0
  /\ Abandon(t)
  /\ UnlockAll(t)
  /\ UNCHANGED <<table, expansion_lock, limits>>

UserNext ==
  \/ MapNext
  \/ \E t \in Threads :
       \/ EqualThrows(t) \/ EqualThrowsAfterMove(t) \/ ValueThrows(t)
       \/ HashThrowsOnPath(t) \/ HashThrowsInMove(t)

UserSpec == MapInit /\ [][UserNext]_mapVars
-----------------------------------------------------------------------------
(***************************************************************************)
(* Where an exception does more harm.                                      *)
(***************************************************************************)

\* A slot that setKV has marked occupied, without a key and a value in it.
Hollow(k) == [Item(k, NoVal) EXCEPT !.key = NoVal]

\* The constructor of the pair throws in the setKV of add_to_bucket.
ConstructThrows(t) ==
  /\ Inserting(t) /\ ~ Found(t)
  /\ LET b == th[t].b
         i == IF VacantSlot(b[1]) # NoSlot THEN b[1] ELSE b[2]
     IN  /\ VacantSlot(i) # NoSlot
         /\ buckets' = [buckets EXCEPT ![i][VacantSlot(i)] = Hollow(Key(t))]
  /\ Abandon(t)
  /\ UnlockAll(t)
  /\ UNCHANGED <<elems, expansion_lock, limits>>

\* The constructor throws in the setKV of move_to_bucket, while room is made.
MoveThrows(t) ==
  /\ HasMoveLocks(t) /\ MoveValid(t) /\ th[t].depth > 0
  /\ LET to == th[t].path[th[t].depth + 1]
         from == th[t].path[th[t].depth]
     IN  buckets' = [buckets EXCEPT ![to.bucket][to.slot] =
                       Hollow(buckets[from.bucket][from.slot].key)]
  /\ Abandon(t)
  /\ UnlockAll(t)
  /\ UNCHANGED <<elems, expansion_lock, limits>>

ConstructSpec ==
  MapInit /\ [][MapNext \/ \E t \in Threads : ConstructThrows(t) \/ MoveThrows(t)]_mapVars
-----------------------------------------------------------------------------
\* The abstract map whose calls may also end with an exception, without effect.
Throwing == INSTANCE ConcurrentMap WITH map <- Contents, Exceptions <- {exception}

\* A call that ends with an exception of the hash function, of the equality
\* predicate or of a copied value has done nothing to the map, although an
\* insertion may have displaced other items before, and the table stays a
\* linearizable map for everybody else.
LinearizableWithExceptions == Throwing!AbstractSpec

\* Whichever way a call ends, it leaves nothing locked: neither a bucket nor the
\* expansion lock.
NothingLeaked ==
  \A t \in Threads : At(t, "idle") => Held(t) = {} /\ expansion_lock # t

\* Every slot that is marked occupied holds an item that was put there: an
\* insertion that throws adds nothing that iteration over the table would meet.
AllConstructed == \A p \in Occupied : ItemAt(p).key \in Keys
=============================================================================
