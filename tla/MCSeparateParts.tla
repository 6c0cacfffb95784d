--------------------------- MODULE MCSeparateParts ---------------------------
(***************************************************************************)
(* The parts of the library that are modelled on their own: where one item *)
(* may be (ItemPlacement), the queue of the search for a path (BQueue),    *)
(* the allocator of the buckets and locks (AlignedAllocator), and handles  *)
(* and iterators of locked tables (LockedTable).  They share no state, so  *)
(* each behaviour is one of a single part, and the others stay as they are *)
(* at first.                                                               *)
(***************************************************************************)
EXTENDS ItemPlacement, BQueue, AlignedAllocator, LockedTable, TLC

CONSTANTS V1, V2

VARIABLE part   \* the part that the behaviour is about

\* All hashes below 512, which reach every partial key, and some that also fold
\* bits from above the low 16.
MCHashValues ==
  (0 .. 511) \union {65535, 65536, 74565, 1193046, 16777215, 305419896,
                     1164413355, 1985229328, 2147483647}

\* Tables of two and four buckets with two slots each: empty, with items in the
\* first and in the last slot only, and with empty and full buckets in the middle.
Filled(n, places) ==
  [i \in 0 .. n - 1 |-> [s \in Slots |-> IF <<i, s>> \in places THEN V1 ELSE Vacant]]
MCArrays ==
  {Filled(2, {}), Filled(2, {<<0, 0>>, <<1, 1>>}), Filled(4, {<<1, 0>>, <<1, 1>>, <<3, 0>>})}

MCSymmetry == Permutations(Handles) \union Permutations(Iterators) \union Permutations(Tables)

\* How a part is at first when the behaviour is about another one.
PlacementRests == hash = 0 /\ bucket = TwoBuckets(hp, hash)[1]
QueueRests == slots = [n \in Index |-> CHOOSE x \in Items : TRUE]
TablesRest == buckets = [b \in Tables |-> Filled(2, {})]

PartsInit ==
  /\ part \in {"placement", "queue", "allocator", "locked_table"}
  /\ PlacementInit /\ (part # "placement" => PlacementRests)
  /\ BInit /\ (part # "queue" => QueueRests)
  /\ AllocInit
  /\ LockedInit /\ (part # "locked_table" => TablesRest)

PartsNext ==
  /\ UNCHANGED part
  /\ \/ /\ part = "placement" /\ PlacementNext
        /\ UNCHANGED <<queueVars, allocVars, tableVars>>
     \/ /\ part = "queue" /\ BNext
        /\ UNCHANGED <<placementVars, allocVars, tableVars>>
     \/ /\ part = "allocator" /\ AllocNext
        /\ UNCHANGED <<placementVars, queueVars, tableVars>>
     \/ /\ part = "locked_table" /\ LockedNext
        /\ UNCHANGED <<placementVars, queueVars, allocVars>>

PartsSpec ==
  PartsInit /\ [][PartsNext]_<<part, placementVars, queueVars, allocVars, tableVars>>
=============================================================================
