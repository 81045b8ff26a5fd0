------------------------------ MODULE Readiness ------------------------------
(***************************************************************************)
(* GET /ready and what hangs on it: the kubelet (external) probes the      *)
(* replica and sends it requests only while the last probe said 200.       *)
(* Requests call the services through their breakers; an open breaker      *)
(* makes the next probe say 503.  PING waits in ioredis' offline queue     *)
(* while Redis is away; the kubelet gives up waiting, the handler does not.*)
(***************************************************************************)
EXTENDS Breaker

CONSTANT Known   \* knownBreakers, of the services in use

ASSUME ReadinessAssumption == Known \subseteq Service

VARIABLES
  database, redis, loop,   \* PostgreSQL answers, Redis is connected, the loop is not lagging
  probe,                   \* the handler's progress, and what the database said
  routed                   \* the replica receives requests

readinessVars == <<breakerVars, database, redis, loop, probe, routed>>
probeSide == <<database, redis, loop, probe, routed>>

NoProbe == [at |-> "none", database |-> FALSE]

Ask ==
  /\ probe.at = "none"
  /\ probe' = [at |-> "database", database |-> FALSE]
  /\ UNCHANGED <<breakerVars, database, redis, loop, routed>>

DatabaseSays ==
  /\ probe.at = "database"
  /\ probe' = [at |-> "redis", database |-> database]
  /\ UNCHANGED <<breakerVars, database, redis, loop, routed>>

NotClosed(s) == breaker[s].state \notin {"none", "closed"}   \* mutant: half-open counts as open

(* breaker?.opened *)
Opened(s) == breaker[s].state = "open"

IsReady == probe.database /\ redis /\ loop /\ \A s \in Known : ~Opened(s)

(* failureThreshold 2, successThreshold 1: a first failure changes nothing. *)
Verdict(ok) == IF ok THEN {TRUE} ELSE {FALSE, routed}

(* From the PONG on the handler does not wait again. *)
Answer ==
  /\ probe.at = "redis"
  /\ redis
  /\ routed' \in Verdict(IsReady)
  /\ probe' = NoProbe
  /\ UNCHANGED <<breakerVars, database, redis, loop>>

(* The kubelet's timeout counts as a failure; neither query nor PING waits *)
(* for anything but its server.                                            *)
GiveUp ==
  /\ probe.at # "none"
  /\ ~(database /\ redis)
  /\ routed' \in Verdict(FALSE)
  /\ probe' = NoProbe
  /\ UNCHANGED <<breakerVars, database, redis, loop>>

Weather ==
  /\ \/ database' = ~database /\ UNCHANGED <<redis, loop>>
     \/ redis' = ~redis /\ UNCHANGED <<database, loop>>
     \/ loop' = ~loop /\ UNCHANGED <<database, redis>>
  /\ UNCHANGED <<breakerVars, probe, routed>>

Request(c, s) == routed /\ Attempt(c, s) /\ UNCHANGED probeSide

ReadinessInit ==
  /\ BreakerInit
  /\ database \in BOOLEAN /\ redis \in BOOLEAN /\ loop \in BOOLEAN
  /\ probe = NoProbe
  /\ routed = FALSE

ReadinessNext ==
  \/ Ask \/ DatabaseSays \/ Answer \/ GiveUp \/ Weather
  \/ \E c \in Call, s \in Service : Request(c, s)
  \/ BreakerStep /\ UNCHANGED probeSide

(* Probes are periodic and go on as long as their dependencies answer; a   *)
(* replica that is routed to receives requests.                            *)
ReadinessFairness ==
  /\ BreakerFairness
  /\ WF_readinessVars(Ask) /\ WF_readinessVars(DatabaseSays) /\ SF_readinessVars(Answer)
  /\ \A c \in Call, s \in Service : SF_readinessVars(Request(c, s))

ReadinessSpec == ReadinessInit /\ [][ReadinessNext]_readinessVars /\ ReadinessFairness

-----------------------------------------------------------------------------
(* Properties *)

ReadinessTypeOK ==
  /\ BreakerTypeOK
  /\ database \in BOOLEAN /\ redis \in BOOLEAN /\ loop \in BOOLEAN /\ routed \in BOOLEAN
  /\ probe \in [at : {"none", "database", "redis"}, database : BOOLEAN]

(* The breakers are sound: no trial is left undecided, although calls of   *)
(* earlier states end in later ones.                                       *)
BreakersSound == ReadinessTypeOK /\ HalfOpenMovesOn

(* health.routes.ts:123-132: a service that fails takes the replica out of *)
(* rotation, and only requests can close its circuit: once everything      *)
(* works again the replica is routed to for good and the circuit closes.   *)
ReplicaReturns ==
  <>[](database /\ redis /\ loop /\ \A s \in Service : up[s])
    => <>[](routed /\ \A s \in Service : breaker[s].state = "closed")

=============================================================================
