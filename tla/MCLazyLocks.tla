----------------------------- MODULE MCLazyLocks -----------------------------
(***************************************************************************)
(* Four locks.  Allocated in segments of one or two they are used and the  *)
(* table is doubled; in one segment, as by default, the table is cleared   *)
(* and rebuilt too.                                                        *)
(***************************************************************************)
EXTENDS LazyLocks, TLC

MCPrograms ==
  {[segment |-> 1, jobs |-> {"access", "double"}],
   [segment |-> 2, jobs |-> {"access", "double"}],
   [segment |-> 4, jobs |-> {"access", "double", "clear", "rehash"}]}

ThreadSymmetry == Permutations(Threads)
=============================================================================
