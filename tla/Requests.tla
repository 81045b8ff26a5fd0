------------------------------ MODULE Requests ------------------------------
(***************************************************************************)
(* What a replica does with an HTTP request before and after its handler:  *)
(* the hooks of app.ts in Fastify's order (CORS, the gauge of requests in  *)
(* progress, CSRF, the rate limiter), the body, authentication, the schema,*)
(* the route's guards, the handler and the response hook.  One caller, who *)
(* may hold a token, sends requests while its permissions change; one      *)
(* route stands for each shape of pipeline.                                *)
(***************************************************************************)
EXTENDS Contracts

CONSTANTS Request,        \* the connections of the caller
          MaxHits         \* RATE_LIMIT_MAX

ASSUME RequestsAssumption == MaxHits \in Nat \ {0}

VARIABLES request,   \* what a connection's request has come to
          granted,   \* the permissions of the caller's roles, in the database
          hits,      \* the limiter's counter in Redis, MaxHits for any more
          redis,     \* whether Redis answers
          gauge      \* http_requests_in_progress of the methods that reach its hook

vars == <<request, granted, hits, redis, gauge>>

Contracted == {"users.list", "users.me", "roles.list", "todos.get", "examples.create"}

Operations == Contracted \union {"metrics", "preflight", "unknown"}

Method(op) ==
  CASE op = "preflight" -> "OPTIONS"
    [] op \in {"metrics", "unknown"} -> "GET"
    [] OTHER -> Contract(op).method

(* The limiter hooks the routes registered after it, except allow-listed ones. *)
Limited(op) == op \notin {"metrics", "preflight", "unknown"}

NeedsToken(op) == op \in Contracted /\ Authenticated(Contract(op))

Permission(op) == IF op \in Contracted THEN Enforced(Contract(op)) ELSE "none"

(* The schemas with something a caller can get wrong. *)
HasInput(op) == op \in {"users.list", "examples.create"}

Watched == {Permission(op) : op \in Operations} \ {"none"}

Idle == [stage |-> "idle", op |-> "none", token |-> "none", todo |-> "none", held |-> {}, status |-> 0]

InFlight == {r \in Request : request[r].stage # "idle"}

RequestsInit ==
  /\ request = [r \in Request |-> Idle]
  /\ granted \in SUBSET Watched
  /\ hits = 0
  /\ redis = "up"
  /\ gauge = [m \in {"GET", "POST"} |-> 0]

To(r, stage) == [request[r] EXCEPT !.stage = stage]

(* A refusal leaves nothing of the request but its route. *)
Reply(r, status) ==
  IF status < 300 THEN [request[r] EXCEPT !.stage = "answered", !.status = status]
  ELSE [Idle EXCEPT !.op = request[r].op, !.stage = "answered", !.status = status]

Throw(r, error) == Reply(r, Envelope(error, "production").status)

Becomes(r, next) == request' = [request EXCEPT ![r] = next]

-----------------------------------------------------------------------------
(* The token is "user" or "admin" after the role it was signed with; the   *)
(* roles of the matrix PERMISSIONS for reading a todo are both.            *)
Tokens(op) ==
  IF ~NeedsToken(op) THEN {"none"}
  ELSE IF op = "todos.get" THEN {"none", "user", "admin"} ELSE {"none", "user"}

RolesFor(action) == IF action \in {"readAll", "list"} THEN {"admin"} ELSE {"user", "admin"}

Todos(op) == IF op = "todos.get" THEN {"own", "other", "missing"} ELSE {"none"}

(* A request that changes state is blocked if it carries a cookie and an   *)
(* origin that is not on the list.                                         *)
CrossSite(op, cookie, origin) ==
  Method(op) \notin {"GET", "HEAD", "OPTIONS"} /\ cookie /\ origin = "unlisted"

(* @fastify/cors answers a preflight in its hook, before the gauge's; the  *)
(* other hooks run in a row, up to the limiter, which asks Redis.          *)
Arrive(r) ==
  /\ request[r].stage = "idle"
  /\ \E op \in Operations :
       \E token \in Tokens(op), todo \in Todos(op),
          cookie \in BOOLEAN, origin \in {"none", "listed", "unlisted"} :
         LET fresh == [Idle EXCEPT !.op = op, !.token = token, !.todo = todo,
                         !.held = granted \intersect {Permission(op)}] IN
         /\ Becomes(r,
              CASE op = "preflight" -> [fresh EXCEPT !.stage = "answered", !.status = 204]
                [] CrossSite(op, cookie, origin) ->
                     [fresh EXCEPT !.stage = "answered", !.status = CsrfDenied.status]
                [] OTHER -> [fresh EXCEPT !.stage = IF Limited(op) THEN "limiter" ELSE "handler"])
         /\ gauge' = IF op = "preflight" THEN gauge ELSE [gauge EXCEPT ![Method(op)] = @ + 1]
  /\ UNCHANGED <<granted, hits, redis>>

(* authenticate (preValidation), then the schema, then the guards.         *)
Checked(r) ==
  LET op == request[r].op IN
  (IF NeedsToken(op) THEN {Throw(r, UnauthorizedError("UNAUTHORIZED"))} ELSE {}) \union
  (IF NeedsToken(op) /\ request[r].token = "none" THEN {}
   ELSE (IF HasInput(op) THEN {Throw(r, OtherError(400, {"field"}))} ELSE {}) \union
        {To(r, IF Permission(op) # "none" \/ op = "todos.get" THEN "guard" ELSE "handler")})

RefusedSilently(r) == request[r]   \* mutant

Refused(r) == Throw(r, RateLimitError(30))

(* The limiter's script counts the request and answers in one step; with   *)
(* maxRetriesPerRequest null its command waits for as long as Redis is away. *)
Limit(r) ==
  /\ request[r].stage = "limiter"
  /\ redis = "up"
  /\ hits' = IF hits < MaxHits THEN hits + 1 ELSE hits
  /\ IF hits >= MaxHits THEN Becomes(r, Refused(r))
     ELSE IF Method(request[r].op) = "POST" THEN Becomes(r, To(r, "body"))
     ELSE \E next \in Checked(r) : Becomes(r, next)
  /\ UNCHANGED <<granted, redis, gauge>>

(* The body arrives, whole and readable or not. *)
Body(r) ==
  /\ request[r].stage = "body"
  /\ \/ \E status \in {400, 413, 415} : Becomes(r, Throw(r, OtherError(status, {})))
     \/ \E next \in Checked(r) : Becomes(r, next)
  /\ UNCHANGED <<granted, hits, redis, gauge>>

-----------------------------------------------------------------------------
AdmitsAnyone(mode, needed, context) == context # {}   \* mutant

(* Whether a guard for one, any or all of some permissions lets a caller in. *)
Admits(mode, needed, context) ==
  CASE mode = "any" -> needed \intersect context # {}
    [] mode \in {"one", "all"} -> needed \subseteq context

(* getContext reads the roles of now, and only keys of the registry. *)
Context == {key \in granted : IsPermissionKey(key)}

PermissionGuard(r) ==
  IF request[r].token = "none" THEN Reply(r, 401)
  ELSE IF Admits("one", {Permission(request[r].op)}, Context) THEN To(r, "handler")
  ELSE Reply(r, 403)

(* requireRolePermission, then requireOwnership. *)
OwnershipGuard(r) ==
  LET q == request[r] IN
  IF q.token = "none" THEN Reply(r, 401)
  ELSE IF q.token \notin RolesFor("read") THEN Reply(r, 403)
  ELSE IF q.token = "admin" \/ q.todo = "own" THEN To(r, "handler")
  ELSE Reply(r, IF q.todo = "missing" THEN 404 ELSE 403)

(* An administrator's bypass alone does not ask the database, which may fail. *)
Guard(r) ==
  /\ request[r].stage = "guard"
  /\ \/ Becomes(r, IF request[r].op = "todos.get" THEN OwnershipGuard(r) ELSE PermissionGuard(r))
     \/ /\ request[r].token # "admin"
        /\ Becomes(r, Throw(r, Bug))
  /\ UNCHANGED <<granted, hits, redis, gauge>>

(* What the handler answers: a todo an administrator's token asks for may  *)
(* be missing, and reading its description is then a TypeError.            *)
Handled(r) ==
  LET op == request[r].op IN
  CASE op = "unknown" -> {Reply(r, NotFoundAnswer.status)}
    [] op = "metrics" -> {Reply(r, 200), Reply(r, 401)}
    [] op = "users.me" -> {Reply(r, 200), Throw(r, NotFoundError("USER_NOT_FOUND")), Throw(r, Bug)}
    [] op = "examples.create" -> {Reply(r, 201), Throw(r, Bug)}
    [] request[r].todo = "missing" -> {Throw(r, Bug)}
    [] OTHER -> {Reply(r, 200), Throw(r, Bug)}

Handle(r) ==
  /\ request[r].stage = "handler"
  /\ \E next \in Handled(r) : Becomes(r, next)
  /\ UNCHANGED <<granted, hits, redis, gauge>>

LeftUnlessFailed(status) == status < 500   \* mutant

(* onResponse: whatever the answer, the gauge goes down (that of OPTIONS,  *)
(* which no preflight has raised, falls without end and is left out).      *)
Left(status) == TRUE

Respond(r) ==
  /\ request[r].stage = "answered"
  /\ gauge' = [m \in DOMAIN gauge |->
       IF m = Method(request[r].op) /\ Left(request[r].status) THEN gauge[m] - 1 ELSE gauge[m]]
  /\ Becomes(r, Idle)
  /\ UNCHANGED <<granted, hits, redis>>

-----------------------------------------------------------------------------
(* Another request changes the caller's roles or what they hold. *)
Regrant(keys) ==
  /\ keys # granted
  /\ granted' = keys
  /\ request' = [r \in Request |->
       IF request[r].stage = "idle" THEN request[r]
       ELSE [request[r] EXCEPT !.held = @ \union (keys \intersect {Permission(request[r].op)})]]
  /\ UNCHANGED <<hits, redis, gauge>>

(* Another replica counts a request of the same caller. *)
HitElsewhere ==
  /\ redis = "up" /\ hits < MaxHits
  /\ hits' = hits + 1
  /\ UNCHANGED <<request, granted, redis, gauge>>

WindowEnds ==
  /\ hits > 0
  /\ hits' = 0
  /\ UNCHANGED <<request, granted, redis, gauge>>

RedisDrops ==
  /\ redis = "up"
  /\ redis' = "down"
  /\ UNCHANGED <<request, granted, hits, gauge>>

RedisReturns ==
  /\ redis = "down"
  /\ redis' = "up"
  /\ UNCHANGED <<request, granted, hits, gauge>>

Serve(r) == Limit(r) \/ Body(r) \/ Guard(r) \/ Handle(r) \/ Respond(r)

RequestsNext ==
  \/ \E r \in Request : Arrive(r) \/ Serve(r)
  \/ \E keys \in SUBSET Watched : Regrant(keys)
  \/ HitElsewhere \/ WindowEnds \/ RedisDrops \/ RedisReturns

(* ioredis reconnects for as long as it takes and then sends the commands  *)
(* that wait; bodies arrive or time out, and queries end.                  *)
RequestsFairness ==
  /\ WF_vars(RedisReturns)
  /\ \A r \in Request :
       SF_vars(Limit(r)) /\ WF_vars(Body(r) \/ Guard(r) \/ Handle(r) \/ Respond(r))

RequestsSpec == RequestsInit /\ [][RequestsNext]_vars /\ RequestsFairness
-----------------------------------------------------------------------------
(* A request whose handler answered it carried a token if its route wants  *)
(* one, its caller held the route's permission at some moment since the    *)
(* request arrived (a permission taken away before does not count, one     *)
(* taken away meanwhile may), and the todo it was shown is the caller's    *)
(* own unless the token is an administrator's.                             *)
OnlyEntitled ==
  \A r \in Request :
    request[r].stage = "answered" /\ request[r].status \in {200, 201} =>
      LET op == request[r].op IN
      /\ NeedsToken(op) => request[r].token # "none"
      /\ Permission(op) # "none" => Permission(op) \in request[r].held
      /\ op = "todos.get" => request[r].todo = "own" \/ request[r].token = "admin"

(* "Number of HTTP requests in progress": the gauge of a method is the     *)
(* number of its requests that have arrived and are not answered, however  *)
(* they end (preflights excepted, which leave without having come).        *)
CountedInProgress ==
  \A m \in {"GET", "POST"} :
    gauge[m] = Cardinality({r \in InFlight : Method(request[r].op) = m})

(* Every request is answered, also one that waits for Redis, is throttled, *)
(* refused by a guard or fails.                                            *)
Answered == \A r \in Request : request[r].stage # "idle" ~> request[r].stage = "idle"

=============================================================================
