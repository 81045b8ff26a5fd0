----------------------------- MODULE TodoPromise -----------------------------
(***************************************************************************)
(* What creating a todo promises, with stages, timers, queue and processes *)
(* forgotten.  A row is stored once and stays; a client is told at most    *)
(* once how its request ended, and "created" only of a stored row; a       *)
(* notification is only ever about a stored row.  A refused request may    *)
(* still be stored, before or after the refusal.  Todos.tla implements it. *)
(***************************************************************************)
CONSTANT Request

VARIABLES stored, told, notified

promise == <<stored, told, notified>>

PromiseInit ==
  /\ stored = {}
  /\ told = [q \in Request |-> "none"]
  /\ notified = {}

Store(q) ==
  /\ q \notin stored
  /\ stored' = stored \union {q}
  /\ UNCHANGED <<told, notified>>

Tell(q, answer) ==
  /\ told[q] = "none"
  /\ answer = "created" => q \in stored
  /\ told' = [told EXCEPT ![q] = answer]
  /\ UNCHANGED <<stored, notified>>

Notify(q) ==
  /\ q \in stored
  /\ notified' = notified \union {q}
  /\ UNCHANGED <<stored, told>>

PromiseNext ==
  \E q \in Request : Store(q) \/ Notify(q) \/ \E a \in {"created", "refused"} : Tell(q, a)

PromiseSpec == PromiseInit /\ [][PromiseNext]_promise
=============================================================================
