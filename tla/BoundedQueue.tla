---------------------------- MODULE BoundedQueue ----------------------------
(***************************************************************************)
(* What slot_search needs of its queue: first in, first out, with room for *)
(* Capacity items.                                                         *)
(***************************************************************************)
EXTENDS Naturals, Sequences

CONSTANTS Items, NoItem, Capacity

VARIABLES
  queue,   \* the items, the oldest first
  out      \* what was taken out last, or NoItem

QueueInit == queue = <<>> /\ out = NoItem

Put(x) ==
  /\ Len(queue) < Capacity
  /\ queue' = Append(queue, x)
  /\ UNCHANGED out

Take ==
  /\ queue # <<>>
  /\ out' = Head(queue)
  /\ queue' = Tail(queue)

QueueSpec == QueueInit /\ [][(\E x \in Items : Put(x)) \/ Take]_<<queue, out>>
=============================================================================
