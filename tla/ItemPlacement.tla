---------------------------- MODULE ItemPlacement ----------------------------
(***************************************************************************)
(* One item of the table over its life: it may be displaced to its other   *)
(* bucket by cuckoo hashing (cuckoopath_search computes that bucket from   *)
(* the one the item is in and its partial key alone), and the table may    *)
(* double around it, which moves it by move_buckets' rule.                 *)
(***************************************************************************)
EXTENDS CuckooHashing

CONSTANTS
  HashValues,      \* the hash values considered
  MaxHashpower,    \* bound on the number of doublings
  MaxElements      \* bound on the arguments of reserve_calc

ASSUME PlacementAssumption ==
  /\ HashValues \subseteq Nat
  /\ MaxHashpower \in Nat /\ MaxElements \in Nat

VARIABLES hp, hash, bucket

placementVars == <<hp, hash, bucket>>

PlacementInit ==
  /\ hp = 1
  /\ hash \in HashValues
  /\ bucket \in {TwoBuckets(hp, hash)[1], TwoBuckets(hp, hash)[2]}

\* cuckoopath_move takes the item to the other bucket of its partial key.
Displace ==
  /\ bucket' = alt_index(hp, partial_key(hash), bucket)
  /\ UNCHANGED <<hp, hash>>

\* cuckoo_fast_double, as far as this item is concerned.
Double ==
  /\ hp < MaxHashpower
  /\ hp' = hp + 1
  /\ bucket' = IF MovesUp(hp, bucket, hash) THEN bucket + hashsize(hp) ELSE bucket
  /\ UNCHANGED hash

PlacementNext == Displace \/ Double

PlacementSpec == PlacementInit /\ [][PlacementNext]_placementVars
-----------------------------------------------------------------------------
\* However often it is displaced and the table doubled, in whatever order, the
\* item stays in one of the two buckets that a lookup of its key computes from
\* the whole hash and the current hashpower.
InOneOfItsBuckets ==
  bucket \in {TwoBuckets(hp, hash)[1], TwoBuckets(hp, hash)[2]}

\* reserve_calc returns the smallest hashpower, other than 0, whose table has
\* room for n elements.
ReserveCalcSmallest ==
  \A n \in 0 .. MaxElements :
    LET hpn == reserve_calc(n)
    IN  /\ hpn >= 1 /\ n <= hashsize(hpn) * SLOT_PER_BUCKET
        /\ \A h \in 1 .. hpn - 1 : hashsize(h) * SLOT_PER_BUCKET < n
=============================================================================
