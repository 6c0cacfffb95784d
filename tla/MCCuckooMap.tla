---------------------------- MODULE MCCuckooMap ----------------------------
(***************************************************************************)
(* Small tables for TLC.  The hashes of the keys are chosen so that, in a  *)
(* table of four buckets, Ka, Kb and Ke may be in buckets 0 and 1, Kc in   *)
(* 2 and 1, Kd in 2 and 3, and in a table of two buckets all of them in    *)
(* either bucket.  When Ka finds its buckets 0 and 1 full, room can be     *)
(* made along 1 -> 2 -> 3.  Kf has one bucket instead of two: 2 of four,   *)
(* or 0 of two.                                                            *)
(***************************************************************************)
EXTENDS CuckooMap, TLC

CONSTANTS Ka, Kb, Kc, Kd, Ke, Kf, V1, V2

MCHash == (Ka :> 0) @@ (Kb :> 4) @@ (Kc :> 2) @@ (Kd :> 514) @@ (Ke :> 8)
            @@ (Kf :> 258)

\* update_fn and upsert swap the two values.
MCFn == (V1 :> V2) @@ (V2 :> V1)

KeyCall(op, k) == [op |-> op, key |-> k, val |-> V2]
TableCall(op, n) == [op |-> op, n |-> n]

ThreadSymmetry == Permutations(Threads)

\* Displacement: Kb, Kc and Kd are in the four-bucket table, and Ka comes in while
\* the items on its path are taken out, put back, read and changed.
DisplaceMap == [k \in {Kb, Kc, Kd} |-> V1]
DisplaceCalls ==
  {KeyCall("insert", Ka), KeyCall("upsert", Ka), KeyCall("find", Kc),
   KeyCall("contains", Kc), KeyCall("erase", Kc), KeyCall("insert", Kc),
   KeyCall("erase", Kb), KeyCall("update", Kd), KeyCall("update_fn", Kb),
   KeyCall("insert", Kf)}

\* Doubling: Kb and Kc fill a table of two buckets, so that every insertion of
\* another key doubles it.  Then Kc moves up to bucket 2 unless it is in 1.
DoubleMap == [k \in {Kb, Kc} |-> V1]
DoubleCalls ==
  {KeyCall("insert", Kd), KeyCall("upsert", Kd), KeyCall("assign", Ke), KeyCall("find", Kc),
   KeyCall("erase", Kb), TableCall("clear", 0), TableCall("lock_table", 0),
   TableCall("size", 0)}

\* Two slots to a bucket, and a queue that fills up: Kb, Kc, Kd and Ke fill a table
\* of two buckets.  Any two of the calls meet.
WideMap == [k \in {Kb, Kc, Kd, Ke} |-> V1]
WideCalls ==
  {KeyCall("insert", Ka), KeyCall("upsert", Ka), KeyCall("erase", Kc), KeyCall("update", Ke),
   TableCall("clear", 0), TableCall("lock_table", 0)}

\* Rebuilding: the items cannot be moved without copying, so that the table is
\* doubled by building a new one, as rehash and reserve do, while the limits on
\* its load factor and its size change.
RebuildCalls ==
  {KeyCall("insert", Kd), KeyCall("upsert", Kd), KeyCall("find", Kc), KeyCall("erase", Kc),
   TableCall("rehash", 0), TableCall("rehash", 2), TableCall("reserve", 3),
   TableCall("rehash", 3), TableCall("minimum_load_factor", 90),
   TableCall("minimum_load_factor", 120), TableCall("maximum_hashpower", 1)}

\* Upserts into a full table that may not be expanded at its load factor.
UpsertCalls == {KeyCall("upsert", Ka), KeyCall("upsert", Ke), KeyCall("upsert", Kd)}

\* An insertion doubles the table while another thread rehashes it.
RaceCalls == {KeyCall("insert", Ka), TableCall("rehash", 2)}
=============================================================================
