---------------------------- MODULE CuckooHashing ----------------------------
(***************************************************************************)
(* The arithmetic of partial-key cuckoo hashing: the two buckets a hash    *)
(* value may live in, what happens to them when the table doubles, and the *)
(* hashpower that a number of elements needs.                              *)
(*                                                                         *)
(* Hash values are below 2^31 and hashpowers at most 16.  Within these     *)
(* bounds the definitions give what the 64-bit code gives: the upper half  *)
(* of the hash contributes nothing to the partial key, and masking with    *)
(* hashmask(hp) commutes with the exclusive or and with the product, of    *)
(* which only the low 16 bits of the multiplier can matter.                *)
(***************************************************************************)
EXTENDS Integers

CONSTANT SLOT_PER_BUCKET    \* slots in a bucket

ASSUME SlotAssumption == SLOT_PER_BUCKET \in Nat \ {0}

\* Bitwise exclusive or of two naturals.
Xor[a \in Nat] ==
  [b \in Nat |-> IF a = 0 THEN b ELSE ((a + b) % 2) + 2 * Xor[a \div 2][b \div 2]]

hashsize(hp) == 2 ^ hp

\* The first bucket of a hash value.
index_hash(hp, hash) == hash % hashsize(hp)

\* The 8-bit partial key: the hash folded onto itself three times.
partial_key(hash) ==
  LET hash_16bit == Xor[hash % 65536][hash \div 65536]
  IN  Xor[hash_16bit % 256][hash_16bit \div 256]

\* The low 16 bits (0xe995) of the MurmurHash2 constant.
Multiplier == 59797

\* The other bucket of an item with this partial key that is in bucket index.
alt_index(hp, partial, index) ==
  Xor[index % hashsize(hp)][((partial + 1) * Multiplier) % hashsize(hp)]

\* The two buckets of a hash value, in the order in which they are searched.
TwoBuckets(hp, hash) ==
  LET i1 == index_hash(hp, hash)
  IN  <<i1, alt_index(hp, partial_key(hash), i1)>>

\* Mutant of MovesUp: only the index_hash of the item is looked at.
MovesUpByIndexOnly(current_hp, bucket_i, hash) ==
  LET old == TwoBuckets(current_hp, hash)
      new == TwoBuckets(current_hp + 1, hash)
      new_bucket_i == bucket_i + hashsize(current_hp)
  IN  bucket_i = old[1] /\ new[1] = new_bucket_i

\* The test of move_buckets: an item in bucket_i of a table that doubles from
\* current_hp goes to the bucket hashsize(current_hp) above.
MovesUp(current_hp, bucket_i, hash) ==
  LET old == TwoBuckets(current_hp, hash)
      new == TwoBuckets(current_hp + 1, hash)
      new_bucket_i == bucket_i + hashsize(current_hp)
  IN  \/ bucket_i = old[1] /\ new[1] = new_bucket_i
      \/ bucket_i = old[2] /\ new[2] = new_bucket_i

\* Mutant of reserve_calc: the number of buckets is rounded down.
reserve_calc_rounded_down(n) ==
  LET buckets == n \div SLOT_PER_BUCKET
      blog2[hp \in Nat] == IF hashsize(hp) < buckets THEN blog2[hp + 1] ELSE hp
  IN  blog2[1]

\* The smallest hashpower that holds n elements.
reserve_calc(n) ==
  LET buckets == (n + SLOT_PER_BUCKET - 1) \div SLOT_PER_BUCKET
      blog2[hp \in Nat] == IF hashsize(hp) < buckets THEN blog2[hp + 1] ELSE hp
  IN  blog2[1]
=============================================================================
