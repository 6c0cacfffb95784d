--------------------------- MODULE MCBucketLocks ---------------------------
(***************************************************************************)
(* The locking layer on its own: every thread may lock any set of up to    *)
(* three buckets' locks with any hashpower it may once have read, shared   *)
(* or exclusive, or lock the whole table and change the hashpower.         *)
(***************************************************************************)
EXTENDS BucketLocks, TLC

ThreadSymmetry == Permutations(Threads)
=============================================================================
