------------------------------- MODULE Runtime -------------------------------
(***************************************************************************)
(* The API process around the todo pipelines: start-up and graceful        *)
(* shutdown as server.ts does it, with the onClose hooks of the plugins.   *)
(* Fastify (external) stops accepting, waits for the requests in flight,   *)
(* then runs the hooks last registered first: database, queue, Redis.      *)
(* One process, from its start to its end; the worker lives on.            *)
(***************************************************************************)
EXTENDS Todos

CONSTANTS
  Deadline,    \* the ten seconds of forceExit, in ticks
  NoTimer

ASSUME RuntimeAssumption == Deadline \in Nat \ {0} /\ NoTimer \notin Nat

VARIABLES
  phase,    \* what the process is doing
  timer,    \* ticks left on the earliest forceExit timer
  exit      \* how the process ended

runtimeVars == <<todoVars, phase, timer, exit>>

Phases ==
  {"loading", "serving", "draining", "closing-database", "closing-queue", "closing-redis",
   "stopping-telemetry", "exited"}

Loading == phase = "loading"
Closing == phase \notin {"loading", "serving", "exited"}

RuntimeInit ==
  /\ TodosInit
  /\ phase = "loading"
  /\ timer = NoTimer
  /\ exit = "none"

Exit(code) ==
  /\ phase' = "exited"
  /\ exit' = code
  /\ timer' = NoTimer

(* Secrets, buildApp, the signal handlers, then listen. *)
Serve ==
  /\ Loading
  /\ phase' = "serving"
  /\ api' = "up"
  /\ UNCHANGED <<apiSide, queueSide, timer, exit>>

(* loadSecrets, buildApp or listen fails. *)
StartFails ==
  /\ Loading
  /\ Exit("failed")
  /\ UNCHANGED todoVars

(* A signal before its handler is installed ends the process at once. *)
SignalWhileLoading ==
  /\ Loading
  /\ Exit("killed")
  /\ UNCHANGED todoVars

Restarted(old, new) == new   \* mutant: a second signal starts the ten seconds again

(* Every signal sets a timer of its own. *)
Earliest(old, new) == IF old = NoTimer \/ new < old THEN new ELSE old

Signal ==
  /\ phase \notin {"loading", "exited"}
  /\ phase' = IF phase = "serving" THEN "draining" ELSE phase
  /\ api' = IF api = "up" THEN "draining" ELSE api
  /\ timer' = Earliest(timer, Deadline)
  /\ UNCHANGED <<apiSide, queueSide, exit>>

Immediately == TRUE   \* mutant: the hooks do not wait for the requests

AllAnswered == \A q \in Request : ~Open(q)

After == [p \in Phases |->
  CASE p = "draining" -> "closing-database"
    [] p = "closing-database" -> "closing-queue"
    [] p = "closing-queue" -> "closing-redis"
    [] p = "closing-redis" -> "stopping-telemetry"
    [] OTHER -> p]

(* app.close() goes on; each step may take for ever. *)
CloseStep ==
  /\ Closing
  /\ phase # "stopping-telemetry"
  /\ phase = "draining" => AllAnswered
  /\ phase' = After[phase]
  /\ UNCHANGED <<todoVars, timer, exit>>

(* stopTelemetry, then process.exit(0). *)
ExitCleanly ==
  /\ phase = "stopping-telemetry"
  /\ Exit("clean")
  /\ ApiStops
  /\ UNCHANGED queueSide

(* A hook rejects (the Redis one catches), or the telemetry does not stop. *)
CloseFails ==
  /\ phase \in {"closing-database", "closing-queue", "stopping-telemetry"}
  /\ Exit("failed")
  /\ ApiStops
  /\ UNCHANGED queueSide

ForceExit ==
  /\ timer = 0
  /\ Exit("failed")
  /\ ApiStops
  /\ UNCHANGED queueSide

Tick ==
  /\ timer \in Nat \ {0}
  /\ timer' = timer - 1
  /\ UNCHANGED <<todoVars, phase, exit>>

(* uncaughtException, unhandledRejection, or the machine. *)
Crash ==
  /\ phase \notin {"loading", "exited"}
  /\ faults < MaxFaults
  /\ faults' = faults + 1
  /\ Exit("failed")
  /\ ApiStops
  /\ UNCHANGED <<redis, worker, jobs, dead>>

Shutdown ==
  \/ Signal \/ CloseStep \/ ExitCleanly \/ CloseFails \/ ForceExit \/ Tick \/ Crash

Startup == Serve \/ StartFails \/ SignalWhileLoading

RuntimeNext ==
  \/ TodosNext /\ UNCHANGED <<phase, timer, exit>>
  \/ Startup
  \/ Shutdown

(* The event loop keeps turning: the deadline arrives and its timer runs.  *)
RuntimeFairness == TodosFairness /\ WF_runtimeVars(Tick) /\ WF_runtimeVars(ForceExit)

RuntimeSpec == RuntimeInit /\ [][RuntimeNext]_runtimeVars /\ RuntimeFairness

-----------------------------------------------------------------------------
(* Properties *)

RuntimeTypeOK ==
  /\ TodosTypeOK
  /\ phase \in Phases
  /\ timer \in 0..Deadline \union {NoTimer}
  /\ exit \in {"none", "clean", "failed", "killed"}
  /\ api = "down" <=> phase \in {"loading", "exited"}

(* server.ts:47-50 "Drain in-flight requests ... Exit cleanly": a process  *)
(* that exits with code 0 leaves no accepted request without an answer,    *)
(* however its pipelines' timers and abandoned operations interleave.      *)
CleanExitAnswersAll ==
  [][phase' = "exited" /\ exit' = "clean" => \A q \in Request : ~Open(q)]_runtimeVars

(* server.ts:50 "a hard deadline so a hung connection can't block a        *)
(* deploy": once shutting down the process ends, whatever hangs and        *)
(* however many signals follow.                                            *)
ShutdownEnds == Closing ~> phase = "exited"
=============================================================================
