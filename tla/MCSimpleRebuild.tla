-------------------------- MODULE MCSimpleRebuild --------------------------
(***************************************************************************)
(* The keys of MCCuckooMap, in a full table of four buckets that is to be  *)
(* rebuilt with two.                                                       *)
(***************************************************************************)
EXTENDS SimpleRebuild, MCCuckooMap

EmptyMap == [k \in {} |-> V1]
FullMap == [k \in {Ka, Kb, Kc, Kd} |-> V1]
WorkerCalls == {[op |-> "insert", key |-> k, val |-> V1] : k \in DOMAIN FullMap}
=============================================================================
