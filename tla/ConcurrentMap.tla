---------------------------- MODULE ConcurrentMap ----------------------------
(***************************************************************************)
(* What cuckoohash_map promises its callers: a map on which every call     *)
(* takes effect at one instant between its start and its return, and       *)
(* returns what that instant calls for.  An insertion may instead throw    *)
(* because the table will not grow, and then changes nothing.  Resizing    *)
(* and the limits have no effect on the map, and size is only an estimate. *)
(***************************************************************************)
EXTENDS Integers

CONSTANTS
  Threads, Keys, Vals, NoVal, Fn, NoCall, Calls,
  Exceptions    \* the exceptions that user code may throw through the table

VARIABLES
  map,    \* map[k]: the value of key k, or NoVal
  call,   \* call[t]: the call thread t is in, or NoCall
  ret     \* ret[t]: what the last call of thread t returned

abstractVars == <<map, call, ret>>

Outcome(st, val) == [st |-> st, val |-> val]
Thrown == {Outcome("load_factor_too_low", NoVal),
           Outcome("maximum_hashpower_exceeded", NoVal)}

Present(c) == map[c.key] # NoVal

\* The call c sets the value of its key to v and reports st.
Sets(c, v, st, r) == map' = [map EXCEPT ![c.key] = v] /\ r = Outcome(st, NoVal)

\* The call c leaves the map alone and returns r, one of rs.
Keeps(rs, r) == map' = map /\ r \in rs

Absent == {Outcome("failure_key_not_found", NoVal)}

(***************************************************************************)
(* Call c takes effect and returns r.                                      *)
(***************************************************************************)
Effect(c, r) ==
  CASE c.op = "find" ->
         Keeps(IF Present(c) THEN {Outcome("ok", map[c.key])} ELSE Absent, r)
    [] c.op = "contains" ->
         Keeps(IF Present(c) THEN {Outcome("ok", NoVal)} ELSE Absent, r)
    [] c.op = "insert" ->
         \/ Keeps(Thrown, r)
         \/ Present(c) /\ Keeps({Outcome("failure_key_duplicated", NoVal)}, r)
         \/ ~ Present(c) /\ Sets(c, c.val, "ok", r)
    [] c.op \in {"upsert", "assign"} ->
         \/ Keeps(Thrown, r)
         \/ Present(c) /\ c.op = "upsert" /\ Sets(c, Fn[map[c.key]], "ok", r)
         \/ (Present(c) => c.op = "assign") /\ Sets(c, c.val, "ok", r)
    [] c.op = "erase" ->
         IF Present(c) THEN Sets(c, NoVal, "ok", r) ELSE Keeps(Absent, r)
    [] c.op = "update" ->
         IF Present(c) THEN Sets(c, c.val, "ok", r) ELSE Keeps(Absent, r)
    [] c.op = "update_fn" ->
         IF Present(c) THEN Sets(c, Fn[map[c.key]], "ok", r) ELSE Keeps(Absent, r)
    [] c.op = "clear" ->
         map' = [k \in Keys |-> NoVal] /\ r = Outcome("ok", NoVal)
    [] c.op = "size" ->
         map' = map /\ r.st = "ok" /\ r.val \in Nat
    [] c.op \in {"rehash", "reserve"} ->
         Keeps(Thrown \union {Outcome("ok", NoVal), Outcome("failure", NoVal)}, r)
    [] c.op = "minimum_load_factor" ->
         Keeps({Outcome(IF c.n \in 0 .. 100 THEN "ok" ELSE "invalid_argument", NoVal)}, r)
    [] OTHER ->
         Keeps({Outcome("ok", NoVal)}, r)

AbstractInit ==
  /\ map \in [Keys -> Vals \union {NoVal}]
  /\ call = [t \in Threads |-> NoCall]
  /\ ret = [t \in Threads |-> Outcome("ok", NoVal)]

Start(t, c) ==
  /\ call[t] = NoCall
  /\ call' = [call EXCEPT ![t] = c]
  /\ UNCHANGED <<map, ret>>

\* The call ends with an exception thrown by user code, and does nothing.
Aborts(r) == Keeps({Outcome(e, NoVal) : e \in Exceptions}, r)

Complete(t) ==
  /\ call[t] # NoCall
  /\ Effect(call[t], ret'[t]) \/ Aborts(ret'[t])
  /\ ret' = [ret EXCEPT ![t] = ret'[t]]
  /\ call' = [call EXCEPT ![t] = NoCall]

AbstractNext ==
  \E t \in Threads : (\E c \in Calls : Start(t, c)) \/ Complete(t)

AbstractSpec == AbstractInit /\ [][AbstractNext]_abstractVars
=============================================================================
