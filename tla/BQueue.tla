------------------------------- MODULE BQueue -------------------------------
(***************************************************************************)
(* b_queue, the circular array behind the breadth-first search of          *)
(* slot_search.  One place of the array is always left unused: first and   *)
(* last are equal when the queue is empty, and last is one before first    *)
(* when it is full.                                                        *)
(***************************************************************************)
EXTENDS Naturals, Sequences

CONSTANTS
  Items,               \* the b_slots
  NoItem,              \* no item
  MAX_CUCKOO_COUNT     \* the size of the array

\* "MAX_CUCKOO_COUNT should be a power of 2": then masking an index is taking it
\* modulo MAX_CUCKOO_COUNT.
ASSUME CountAssumption ==
  /\ MAX_CUCKOO_COUNT \in Nat \ {0, 1}
  /\ \E n \in 1 .. MAX_CUCKOO_COUNT : MAX_CUCKOO_COUNT = 2 ^ n
ASSUME NoItemAssumption == NoItem \notin Items

VARIABLES
  slots,   \* the circular array; what it holds at first was not initialised
  first,   \* the index of the head of the queue
  last,    \* one past the index of its last item
  out      \* what the last dequeue returned

queueVars == <<slots, first, last, out>>

Index == 0 .. MAX_CUCKOO_COUNT - 1

increment(ind) == (ind + 1) % MAX_CUCKOO_COUNT

empty == first = last

\* Mutant of full: the array may be filled to its last place.
full_at_wrap == last = MAX_CUCKOO_COUNT - 1 /\ first = 0

full == increment(last) = first

BInit ==
  /\ slots \in [Index -> Items]
  /\ first = 0 /\ last = 0
  /\ out = NoItem

\* The callers of enqueue and dequeue ask full and empty first.
enqueue(x) ==
  /\ ~ full
  /\ slots' = [slots EXCEPT ![last] = x]
  /\ last' = increment(last)
  /\ UNCHANGED <<first, out>>

dequeue ==
  /\ ~ empty
  /\ out' = slots[first]
  /\ first' = increment(first)
  /\ UNCHANGED <<slots, last>>

BNext == (\E x \in Items : enqueue(x)) \/ dequeue

BSpec == BInit /\ [][BNext]_queueVars
-----------------------------------------------------------------------------
\* The number of items between first and last, going around the end of the array.
Count == (last + MAX_CUCKOO_COUNT - first) % MAX_CUCKOO_COUNT

\* The items in the queue.
Queued == [n \in 1 .. Count |-> slots[(first + n - 1) % MAX_CUCKOO_COUNT]]

Bounded == INSTANCE BoundedQueue WITH queue <- Queued, Capacity <- MAX_CUCKOO_COUNT - 1

\* However often the indices have gone around the array, b_queue gives its items
\* back in the order it got them, and never overwrites one that is still queued.
IsBoundedQueue == Bounded!QueueSpec
=============================================================================
