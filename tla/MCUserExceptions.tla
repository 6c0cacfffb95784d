-------------------------- MODULE MCUserExceptions --------------------------
(***************************************************************************)
(* The tables of MCCuckooMap, with user code that throws.                  *)
(***************************************************************************)
EXTENDS UserExceptions, MCCuckooMap

\* Insertions whose key or value cannot be constructed.
ThrowingCalls ==
  {KeyCall("insert", Ka), KeyCall("insert", Kd), KeyCall("erase", Kb)}
=============================================================================
