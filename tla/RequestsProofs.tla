--------------------------- MODULE RequestsProofs ---------------------------
(***************************************************************************)
(* Theorems about Requests, for any connections and any limit, about       *)
(* UserList, for any number of users and any sizes of a page, and about    *)
(* the pure helpers: Errors for every status, the pages and the addresses  *)
(* of Helpers for every number, and its paths for every base and every     *)
(* name of a file, however long.                                           *)
(***************************************************************************)
EXTENDS MCRequests, FiniteSetTheorems, SequenceTheorems, WellFoundedInduction, TLAPS

Pending == {"limiter", "body", "guard", "handler"}

Requests ==
  [stage : Pending \union {"idle", "answered"}, op : Operations \union {"none"},
   token : {"none", "user", "admin"}, todo : {"none", "own", "other", "missing"},
   held : SUBSET Watched, status : Nat]

(* The guards have let the request through. *)
Admitted(q) == q.stage = "handler" \/ (q.stage = "answered" /\ q.status \in {200, 201})

(* What is true of a request while its caller is granted some permissions. *)
Vouched(q, keys) ==
  /\ q.stage # "idle" => q.op \in Operations
  /\ q.stage \in Pending => (q.op = "todos.get" => q.todo # "none")
  /\ q.stage \in Pending => keys \intersect {Permission(q.op)} \subseteq q.held
  /\ q.stage = "guard" \/ Admitted(q) => (NeedsToken(q.op) => q.token # "none")
  /\ Admitted(q) => (Permission(q.op) # "none" => Permission(q.op) \in q.held)
  /\ Admitted(q) => (q.op = "todos.get" => q.todo = "own" \/ q.token = "admin")

Entitlement ==
  /\ request \in [Request -> Requests] /\ granted \in SUBSET Watched
  /\ \A r \in Request, q \in Requests, keys \in SUBSET Watched :
       request[r] = q /\ granted = keys => Vouched(q, keys)

(* The requests that a gauge counts are a finite set. *)
Counted ==
  /\ gauge \in [{"GET", "POST"} -> Int]
  /\ \A m \in {"GET", "POST"} :
       \E S \in SUBSET Request :
         /\ IsFiniteSet(S) /\ gauge[m] = Cardinality(S)
         /\ \A r \in Request, q \in Requests :
              request[r] = q => (r \in S <=> q.stage # "idle" /\ Method(q.op) = m)

Inv == Entitlement /\ Counted

(* A request's next state, of the same operation, that may stand in its place. *)
Follows(q, next) ==
  next \in Requests /\ next.stage # "idle" /\ next.op = q.op /\ Vouched(next, granted)

-----------------------------------------------------------------------------
(* Requests: what a step makes of a request *)

(* A connection that is not in use has a record of the right type. *)
LEMMA IdleType == Idle \in Requests
  BY DEF Idle, Requests

(* A request's record has its type, and its guards have vouched for it. *)
LEMMA Current ==
  ASSUME Entitlement, NEW r \in Request
  PROVE  request[r] \in Requests /\ Vouched(request[r], granted)
  BY DEF Entitlement

(* What Reply makes of a request that keeps its fields. *)
Kept(q, status) == [q EXCEPT !.stage = "answered", !.status = status]

(* An answer leaves the request what it is about. *)
LEMMA KeptType ==
  ASSUME NEW q \in Requests, NEW status \in Nat
  PROVE  /\ Kept(q, status) \in Requests
         /\ Kept(q, status).stage = "answered" /\ Kept(q, status).status = status
         /\ Kept(q, status).op = q.op /\ Kept(q, status).token = q.token
         /\ Kept(q, status).todo = q.todo /\ Kept(q, status).held = q.held
  <1>1. Kept(q, status) \in Requests
    BY DEF Kept, Requests
  <1>2. QED BY <1>1 DEF Kept, Requests

(* A refusal, unlike a success, needs nobody's permission. *)
LEMMA RefusalFollows ==
  ASSUME Entitlement, NEW r \in Request, request[r].stage # "idle",
         NEW status \in Nat, status >= 300
  PROVE  Follows(request[r], Reply(r, status)) /\ Reply(r, status).stage = "answered"
  <1>1. PICK op \in Operations : op = request[r].op
    BY Current DEF Vouched
  <1> DEFINE n == [Idle EXCEPT !.op = op, !.stage = "answered", !.status = status]
  <1>2. n \in Requests /\ n.stage = "answered" /\ n.status = status /\ n.op = op
    BY DEF Idle, Requests
  <1> HIDE DEF n
  <1>3. ~(status < 300) /\ status \notin {200, 201}
    OBVIOUS
  <1>4. Reply(r, status) = n
    BY <1>1, <1>3, Zenon DEF Reply, n
  <1>5. QED BY <1>1, <1>2, <1>3, <1>4 DEF Follows, Vouched, Admitted, Pending

(* An error is answered as a refusal, or the client is gone. *)
LEMMA ThrowFollows ==
  ASSUME Entitlement, NEW r \in Request, request[r].stage # "idle",
         NEW error, error.status \in Nat, error.status = 0 \/ error.status >= 300
  PROVE  Follows(request[r], Throw(r, error))
  <1>1. Envelope(error, "production").status = IF error.status = 0 THEN 500 ELSE error.status
    BY DEF Envelope
  <1>2. PICK status \in Nat : status = Envelope(error, "production").status /\ status >= 300
    BY <1>1 DEF Envelope
  <1>3. Throw(r, error) = Reply(r, status)
    BY <1>2 DEF Throw
  <1>4. QED BY <1>1, <1>2, <1>3, RefusalFollows

(* Past its guards a request may be served. *)
LEMMA SuccessFollows ==
  ASSUME Entitlement, NEW r \in Request, request[r].stage = "handler",
         NEW status \in {200, 201}
  PROVE  Follows(request[r], Reply(r, status))
  <1> PICK q \in Requests : q = request[r] /\ Vouched(q, granted)
    BY Current
  <1>1. status \in Nat /\ status < 300
    OBVIOUS
  <1>2. PICK n \in Requests :
          /\ n = Kept(q, status) /\ n.stage = "answered" /\ n.op = q.op
          /\ n.token = q.token /\ n.todo = q.todo /\ n.held = q.held
    BY <1>1, KeptType
  <1>3. Reply(r, status) = n
    BY <1>1, <1>2, Zenon DEF Reply, Kept
  <1>4. /\ n.stage = "answered" /\ n.op = q.op
        /\ n.token = q.token /\ n.todo = q.todo /\ n.held = q.held
    BY <1>2
  <1>5. Admitted(q)
    BY DEF Admitted
  <1>6. Vouched(n, granted)
    BY <1>4, <1>5 DEF Vouched, Admitted, Pending
  <1>7. QED BY <1>3, <1>4, <1>6 DEF Follows

(* A request that goes on is about what it was about. *)
LEMMA ToType ==
  ASSUME Entitlement, NEW r \in Request, NEW stage \in Pending
  PROVE  /\ To(r, stage) \in Requests /\ To(r, stage).stage = stage
         /\ \A q \in Requests :
              q = request[r] =>
                /\ To(r, stage).op = q.op /\ To(r, stage).token = q.token
                /\ To(r, stage).todo = q.todo /\ To(r, stage).held = q.held
  BY Current DEF To, Requests

(* Authentication and validation let on only who has what they ask for. *)
LEMMA CheckedFollows ==
  ASSUME Entitlement, NEW r \in Request, request[r].stage \in {"limiter", "body"},
         NEW next \in Checked(r)
  PROVE  Follows(request[r], next)
  <1> PICK q \in Requests : q = request[r] /\ Vouched(q, granted)
    BY Current
  <1>1. CASE next = Throw(r, UnauthorizedError("UNAUTHORIZED"))
    BY <1>1, ThrowFollows DEF UnauthorizedError, AppError
  <1>2. CASE next = Throw(r, OtherError(400, {"field"}))
    BY <1>2, ThrowFollows DEF OtherError
  <1>3. CASE /\ ~(NeedsToken(q.op) /\ q.token = "none")
             /\ next = To(r, IF Permission(q.op) # "none" \/ q.op = "todos.get" THEN "guard"
                             ELSE "handler")
    <2>1. PICK stage \in {"guard", "handler"} :
            /\ next = To(r, stage)
            /\ stage = "handler" => Permission(q.op) = "none" /\ q.op # "todos.get"
      BY <1>3
    <2>2. /\ next \in Requests /\ next.stage = stage /\ next.op = q.op /\ next.token = q.token
          /\ next.todo = q.todo /\ next.held = q.held
      BY <2>1, ToType DEF Pending
    <2>3. QED BY <1>3, <2>1, <2>2 DEF Follows, Vouched, Admitted, Pending
  <1>4. QED BY <1>1, <1>2, <1>3 DEF Checked

(* The route of a todo has the ownership guard and no permission guard. *)
LEMMA TodosUnguarded == Permission("todos.get") = "none"
  <1>1. \E c \in ApiContracts : c.operationId = "todos.get"
    <2>1. PICK c : c = Guarded("todos.get", "GET", "todos.read", 200, {"NOT_FOUND"})
      OBVIOUS
    <2>2. c \in ApiContracts
      BY <2>1 DEF ApiContracts, TodoContracts
    <2>3. c.operationId = "todos.get"
      BY <2>1 DEF Guarded
    <2>4. QED BY <2>2, <2>3
  <1>2. Contract("todos.get").operationId = "todos.get"
    BY <1>1, Zenon DEF Contract
  <1>3. Enforced(Contract("todos.get")) = "none"
    BY <1>2 DEF Enforced
  <1>4. QED BY <1>3 DEF Permission, Contracted

(* Each guard lets on only who holds its permission, or owns the todo. *)
LEMMA GuardFollows ==
  ASSUME Entitlement, NEW r \in Request, request[r].stage = "guard",
         NEW next,
         \/ request[r].op = "todos.get" /\ next = OwnershipGuard(r)
         \/ request[r].op # "todos.get" /\ next = PermissionGuard(r)
  PROVE  Follows(request[r], next)
  <1> PICK q \in Requests : q = request[r] /\ Vouched(q, granted)
    BY Current
  <1>1. CASE next = To(r, "handler")
    <2>1. /\ next \in Requests /\ next.stage = "handler" /\ next.op = q.op /\ next.token = q.token
          /\ next.todo = q.todo /\ next.held = q.held
      BY <1>1, ToType DEF Pending
    <2>2. q.stage = "guard" /\ ~Admitted(q) /\ granted \intersect {Permission(q.op)} \subseteq q.held
      BY DEF Vouched, Pending, Admitted
    <2>3. CASE q.op = "todos.get" /\ next = OwnershipGuard(r)
      <3>1. next.token # "none" /\ (next.todo = "own" \/ next.token = "admin")
        <4>1. CASE q.token = "none"
          <5>1. next = Reply(r, 401)
            BY <2>3, <4>1 DEF OwnershipGuard
          <5>2. next.stage = "answered"
            BY <5>1, RefusalFollows
          <5>3. QED BY <2>1, <5>2
        <4>2. CASE q.token # "none" /\ q.token # "admin" /\ q.todo \in {"missing", "other"}
          <5>1. next = Reply(r, 401) \/ next = Reply(r, 403) \/ next = Reply(r, 404)
            BY <2>3, <4>2 DEF OwnershipGuard
          <5>2. next.stage = "answered"
            BY <5>1, RefusalFollows
          <5>3. QED BY <2>1, <5>2
        <4>3. q.todo # "none"
          BY <2>3 DEF Vouched, Pending
        <4>4. QED BY <2>1, <4>1, <4>2, <4>3 DEF Requests
      <3>2. Permission(q.op) = "none"
        BY <2>3, TodosUnguarded
      <3>3. QED BY <2>1, <3>1, <3>2 DEF Follows, Vouched, Admitted, Pending
    <2>4. CASE q.op # "todos.get" /\ next = PermissionGuard(r)
      <3>1. Permission(q.op) \in granted
        <4>1. CASE q.token # "none" /\ Admits("one", {Permission(q.op)}, Context)
          BY <4>1 DEF Admits, Context
        <4>2. CASE ~(q.token # "none" /\ Admits("one", {Permission(q.op)}, Context))
          <5>1. next = Reply(r, 401) \/ next = Reply(r, 403)
            BY <2>4, <4>2 DEF PermissionGuard
          <5>2. next.stage = "answered"
            BY <5>1, RefusalFollows
          <5>3. QED BY <2>1, <5>2
        <4>3. QED BY <4>1, <4>2
      <3>2. Permission(q.op) \in q.held /\ (NeedsToken(q.op) => q.token # "none")
        BY <2>2, <3>1 DEF Vouched
      <3>3. QED BY <2>1, <2>2, <2>4, <3>2 DEF Follows, Vouched, Admitted, Pending
    <2>5. QED BY <2>3, <2>4
  <1>2. CASE next \in {Reply(r, 401), Reply(r, 403), Reply(r, 404)}
    BY <1>2, RefusalFollows
  <1>3. next \in {Reply(r, 401), Reply(r, 403), Reply(r, 404), To(r, "handler")}
    <2>1. CASE q.op = "todos.get"
      BY <2>1 DEF OwnershipGuard
    <2>2. CASE q.op # "todos.get"
      BY <2>2 DEF PermissionGuard
    <2>3. QED BY <2>1, <2>2
  <1>4. QED BY <1>1, <1>2, <1>3

(* What a handler answers follows from the guards before it. *)
LEMMA HandledFollows ==
  ASSUME Entitlement, NEW r \in Request, request[r].stage = "handler",
         NEW next \in Handled(r)
  PROVE  Follows(request[r], next)
  <1>1. CASE next = Reply(r, 200) \/ next = Reply(r, 201)
    BY <1>1, SuccessFollows
  <1>2. CASE next = Reply(r, 401) \/ next = Reply(r, NotFoundAnswer.status)
    BY <1>2, RefusalFollows DEF NotFoundAnswer
  <1>3. CASE next = Throw(r, NotFoundError("USER_NOT_FOUND"))
    BY <1>3, ThrowFollows DEF NotFoundError, AppError
  <1>4. CASE next = Throw(r, Bug)
    BY <1>4, ThrowFollows DEF Bug, OtherError
  <1>5. QED BY <1>1, <1>2, <1>3, <1>4 DEF Handled

-----------------------------------------------------------------------------
(* Requests: the steps *)

(* What follows from a request keeps every request entitled. *)
LEMMA FollowEntitles ==
  ASSUME Entitlement, NEW r \in Request, NEW next, Follows(request[r], next),
         Becomes(r, next), granted' = granted
  PROVE  Entitlement'
  BY DEF Entitlement, Follows, Becomes

(* A request that goes on is counted as before. *)
LEMMA FollowCounts ==
  ASSUME Inv, NEW r \in Request, request[r].stage # "idle", NEW next,
         Follows(request[r], next), Becomes(r, next), gauge' = gauge
  PROVE  Counted'
  <1>1. SUFFICES ASSUME NEW m \in {"GET", "POST"}
        PROVE  \E S \in SUBSET Request :
                 /\ IsFiniteSet(S) /\ gauge[m] = Cardinality(S)
                 /\ \A p \in Request, q \in Requests :
                      request'[p] = q => (p \in S <=> q.stage # "idle" /\ Method(q.op) = m)
    BY DEF Inv, Counted
  <1>2. PICK S \in SUBSET Request :
          /\ IsFiniteSet(S) /\ gauge[m] = Cardinality(S)
          /\ \A p \in Request, q \in Requests :
               request[p] = q => (p \in S <=> q.stage # "idle" /\ Method(q.op) = m)
    BY DEF Inv, Counted
  <1>3. ASSUME NEW p \in Request, NEW q \in Requests, request'[p] = q
        PROVE  p \in S <=> q.stage # "idle" /\ Method(q.op) = m
    <2>1. PICK o \in Requests : o = request[r]
      BY Current DEF Inv
    <2>2. r \in S <=> Method(o.op) = m
      BY <1>2, <2>1
    <2>3. request' = [request EXCEPT ![r] = next] /\ request \in [Request -> Requests]
      BY DEF Becomes, Inv, Entitlement
    <2>4. CASE p = r
      BY <1>3, <2>1, <2>2, <2>3, <2>4 DEF Follows
    <2>5. CASE p # r
      BY <1>2, <1>3, <2>3, <2>5
    <2>6. QED BY <2>4, <2>5
  <1>4. QED BY <1>2, <1>3

(* So each stage keeps the invariant. *)
LEMMA FollowInv ==
  ASSUME Inv, NEW r \in Request, request[r].stage # "idle", NEW next,
         Follows(request[r], next), Becomes(r, next), granted' = granted, gauge' = gauge
  PROVE  Inv'
  BY FollowEntitles, FollowCounts DEF Inv

-----------------------------------------------------------------------------
(* Requests: arrivals, responses and the rest *)

(* A caller's new request, which goes on or is answered by a hook. *)
Fresh(op, token, todo, held) ==
  [Idle EXCEPT !.op = op, !.token = token, !.todo = todo, !.held = held]

Passed(op, token, todo, held, stage) == [Fresh(op, token, todo, held) EXCEPT !.stage = stage]

Closed(op, token, todo, held, status) ==
  [Fresh(op, token, todo, held) EXCEPT !.stage = "answered", !.status = status]

(* The record of a request that has arrived, *)
LEMMA PassedType ==
  ASSUME NEW op \in Operations, NEW token \in {"none", "user", "admin"},
         NEW todo \in {"none", "own", "other", "missing"}, NEW held \in SUBSET Watched,
         NEW stage \in Pending
  PROVE  LET n == Passed(op, token, todo, held, stage)
         IN /\ n \in Requests /\ n.stage = stage /\ n.op = op /\ n.token = token
            /\ n.todo = todo /\ n.held = held
  BY DEF Passed, Fresh, Idle, Requests, Pending

(* and of one that is answered on arrival. *)
LEMMA ClosedType ==
  ASSUME NEW op \in Operations, NEW token \in {"none", "user", "admin"},
         NEW todo \in {"none", "own", "other", "missing"}, NEW held \in SUBSET Watched,
         NEW status \in Nat
  PROVE  LET n == Closed(op, token, todo, held, status)
         IN n \in Requests /\ n.stage = "answered" /\ n.op = op /\ n.status = status
  BY DEF Closed, Fresh, Idle, Requests

(* A preflight is an OPTIONS request. *)
LEMMA PreflightMethod == Method("preflight") = "OPTIONS"
  BY Zenon DEF Method

(* The metrics and unknown routes ask for nothing. *)
LEMMA Unguarded ==
  ASSUME NEW op \in {"metrics", "unknown"}
  PROVE  ~NeedsToken(op) /\ Permission(op) = "none"
  <1>1. op \notin Contracted
    BY DEF Contracted
  <1>2. QED BY <1>1, Zenon DEF NeedsToken, Permission

(* An arrival begins one vouched-for request, and counts it unless it is a *)
(* preflight.                                                              *)
LEMMA ArriveShape ==
  ASSUME Entitlement, NEW r \in Request, Arrive(r)
  PROVE  \E op \in Operations, next \in Requests :
           /\ next.stage # "idle" /\ next.op = op /\ Vouched(next, granted) /\ Becomes(r, next)
           /\ gauge' = IF op = "preflight" THEN gauge ELSE [gauge EXCEPT ![Method(op)] = @ + 1]
  <1> DEFINE Came(op, token, todo, cookie, origin) ==
         LET fresh == Fresh(op, token, todo, granted \intersect {Permission(op)}) IN
         /\ Becomes(r,
              CASE op = "preflight" -> [fresh EXCEPT !.stage = "answered", !.status = 204]
                [] CrossSite(op, cookie, origin) ->
                     [fresh EXCEPT !.stage = "answered", !.status = CsrfDenied.status]
                [] OTHER -> [fresh EXCEPT !.stage = IF Limited(op) THEN "limiter" ELSE "handler"])
         /\ gauge' = IF op = "preflight" THEN gauge ELSE [gauge EXCEPT ![Method(op)] = @ + 1]
  <1>0. PICK op \in Operations :
          \E token \in Tokens(op), todo \in Todos(op),
             cookie \in BOOLEAN, origin \in {"none", "listed", "unlisted"} :
            Came(op, token, todo, cookie, origin)
    BY Zenon DEF Arrive, Fresh
  <1>1. PICK token \in Tokens(op), todo \in Todos(op),
             cookie \in BOOLEAN, origin \in {"none", "listed", "unlisted"} :
          Came(op, token, todo, cookie, origin)
    BY <1>0
  <1> DEFINE held == granted \intersect {Permission(op)}
  <1>2. /\ token \in {"none", "user", "admin"} /\ todo \in {"none", "own", "other", "missing"}
        /\ held \in SUBSET Watched /\ (op = "todos.get" => todo # "none")
    BY DEF Tokens, Todos, Entitlement
  <1>3. ASSUME NEW status \in {204, 403}, Becomes(r, Closed(op, token, todo, held, status))
        PROVE  \E next \in Requests :
                 next.stage # "idle" /\ next.op = op /\ Vouched(next, granted) /\ Becomes(r, next)
    <2> HIDE DEF held
    <2>1. PICK next \in Requests :
            /\ next = Closed(op, token, todo, held, status)
            /\ next.stage = "answered" /\ next.op = op /\ next.status = status
      BY <1>2, ClosedType
    <2>2. QED BY <1>3, <2>1 DEF Vouched, Admitted, Pending
  <1>4. ASSUME NEW stage \in {"limiter", "handler"},
               stage = "handler" => op \in {"metrics", "unknown"},
               Becomes(r, Passed(op, token, todo, held, stage))
        PROVE  \E next \in Requests :
                 next.stage # "idle" /\ next.op = op /\ Vouched(next, granted) /\ Becomes(r, next)
    <2>1. PICK h \in SUBSET Watched : h = held
      BY <1>2
    <2>2. PICK next \in Requests :
            /\ next = Passed(op, token, todo, h, stage)
            /\ next.stage = stage /\ next.op = op /\ next.todo = todo /\ next.held = h
      BY <1>2, PassedType DEF Pending
    <2>3. stage = "handler" => ~NeedsToken(op) /\ Permission(op) = "none" /\ op # "todos.get"
      BY <1>4, Unguarded
    <2>4. Vouched(next, granted)
      BY <1>2, <2>1, <2>2, <2>3 DEF Vouched, Admitted, Pending
    <2>5. QED BY <1>4, <2>1, <2>2, <2>4
  <1>5. CASE op = "preflight"
    <2>1. Becomes(r, Closed(op, token, todo, held, 204))
      <3>1. ~CrossSite(op, cookie, origin)
        BY <1>5, PreflightMethod DEF CrossSite
      <3>2. QED BY <1>1, <1>5, <3>1, Zenon DEF Closed
    <2>2. QED BY <1>1, <1>3, <2>1
  <1>6. CASE op # "preflight" /\ CrossSite(op, cookie, origin)
    <2>1. Becomes(r, Closed(op, token, todo, held, CsrfDenied.status))
      BY <1>1, <1>6, Zenon DEF Closed
    <2>2. CsrfDenied.status = 403
      BY DEF CsrfDenied, AppError
    <2>3. QED BY <1>1, <1>3, <2>1, <2>2
  <1>7. CASE op # "preflight" /\ ~CrossSite(op, cookie, origin)
    <2>1. PICK stage \in {"limiter", "handler"} :
            stage = IF Limited(op) THEN "limiter" ELSE "handler"
      OBVIOUS
    <2>2. Becomes(r, Passed(op, token, todo, held, stage))
      BY <1>1, <1>7, <2>1, Zenon DEF Passed
    <2>3. stage = "handler" => op \in {"metrics", "unknown"}
      BY <1>7, <2>1 DEF Limited
    <2>4. QED BY <1>1, <1>4, <2>2, <2>3
  <1>8. QED BY <1>5, <1>6, <1>7

(* An arrival keeps the invariant: the counted requests are one more. *)
LEMMA ArriveInv ==
  ASSUME Inv, NEW r \in Request, Arrive(r)
  PROVE  Inv'
  <1>1. PICK op \in Operations, next \in Requests :
          /\ next.stage # "idle" /\ next.op = op /\ Vouched(next, granted) /\ Becomes(r, next)
          /\ gauge' = IF op = "preflight" THEN gauge ELSE [gauge EXCEPT ![Method(op)] = @ + 1]
    BY ArriveShape DEF Inv
  <1>2. request[r].stage = "idle" /\ granted' = granted
    BY DEF Arrive
  <1>3. request' = [request EXCEPT ![r] = next] /\ request \in [Request -> Requests]
    BY <1>1 DEF Becomes, Inv, Entitlement
  <1>4. Entitlement'
    <2>1. granted' \in SUBSET Watched /\ request' \in [Request -> Requests]
      BY <1>2, <1>3 DEF Inv, Entitlement
    <2>2. ASSUME NEW p \in Request, NEW q \in Requests, NEW keys \in SUBSET Watched,
                 request'[p] = q, granted' = keys
          PROVE  Vouched(q, keys)
      <3>1. CASE p = r
        BY <1>1, <1>2, <1>3, <2>2, <3>1
      <3>2. CASE p # r
        BY <1>2, <1>3, <2>2, <3>2 DEF Inv, Entitlement
      <3>3. QED BY <3>1, <3>2
    <2>3. QED BY <2>1, <2>2 DEF Entitlement
  <1>5. gauge \in [{"GET", "POST"} -> Int]
    BY DEF Inv, Counted
  <1>6. gauge' \in [{"GET", "POST"} -> Int]
    <2>1. CASE op = "preflight"
      BY <1>1, <1>5, <2>1
    <2>2. CASE op # "preflight"
      <3>1. gauge' = [m \in {"GET", "POST"} |-> IF m = Method(op) THEN gauge[m] + 1 ELSE gauge[m]]
        BY <1>1, <1>5, <2>2
      <3>2. QED BY <1>5, <3>1
    <2>3. QED BY <2>1, <2>2
  <1>7. ASSUME NEW m \in {"GET", "POST"}
        PROVE  \E S \in SUBSET Request :
                 /\ IsFiniteSet(S) /\ gauge'[m] = Cardinality(S)
                 /\ \A p \in Request, q \in Requests :
                      request'[p] = q => (p \in S <=> q.stage # "idle" /\ Method(q.op) = m)
    <2>1. PICK S \in SUBSET Request :
            /\ IsFiniteSet(S) /\ gauge[m] = Cardinality(S)
            /\ \A p \in Request, q \in Requests :
                 request[p] = q => (p \in S <=> q.stage # "idle" /\ Method(q.op) = m)
      BY DEF Inv, Counted
    <2>2. r \notin S
      BY <1>2, <1>3, <2>1
    <2>3. CASE Method(op) = m
      <3>1. op # "preflight"
        BY <2>3, PreflightMethod
      <3>2. gauge'[m] = gauge[m] + 1
        BY <1>1, <1>5, <2>3, <3>1
      <3>3. IsFiniteSet(S \union {r}) /\ Cardinality(S \union {r}) = Cardinality(S) + 1
        BY <2>1, <2>2, FS_AddElement
      <3>4. ASSUME NEW p \in Request, NEW q \in Requests, request'[p] = q
            PROVE  p \in S \union {r} <=> q.stage # "idle" /\ Method(q.op) = m
        <4>1. CASE p = r
          BY <1>1, <1>3, <2>3, <3>4, <4>1
        <4>2. CASE p # r
          BY <1>3, <2>1, <3>4, <4>2
        <4>3. QED BY <4>1, <4>2
      <3>5. QED BY <2>1, <3>2, <3>3, <3>4
    <2>4. CASE Method(op) # m
      <3>1. gauge'[m] = gauge[m]
        BY <1>1, <1>5, <2>4
      <3>2. ASSUME NEW p \in Request, NEW q \in Requests, request'[p] = q
            PROVE  p \in S <=> q.stage # "idle" /\ Method(q.op) = m
        <4>1. CASE p = r
          BY <1>1, <1>3, <2>2, <2>4, <3>2, <4>1
        <4>2. CASE p # r
          BY <1>3, <2>1, <3>2, <4>2
        <4>3. QED BY <4>1, <4>2
      <3>3. QED BY <2>1, <3>1, <3>2
    <2>5. QED BY <2>3, <2>4
  <1>8. Counted'
    BY <1>6, <1>7 DEF Counted
  <1>9. QED BY <1>4, <1>8 DEF Inv

(* A response keeps the invariant: the counted requests are one less. *)
LEMMA RespondInv ==
  ASSUME Inv, NEW r \in Request, Respond(r)
  PROVE  Inv'
  <1>1. /\ request[r].stage = "answered" /\ granted' = granted
        /\ request' = [request EXCEPT ![r] = Idle] /\ request \in [Request -> Requests]
    BY DEF Respond, Becomes, Inv, Entitlement
  <1>2. Idle.stage = "idle" /\ Idle \in Requests
    BY IdleType DEF Idle
  <1>3. Entitlement'
    BY <1>1, <1>2 DEF Inv, Entitlement, Vouched, Admitted, Pending
  <1>4. PICK o \in Requests : o = request[r]
    BY <1>1
  <1>5. gauge \in [{"GET", "POST"} -> Int]
    BY DEF Inv, Counted
  <1>6. gauge' = [m \in {"GET", "POST"} |-> IF m = Method(o.op) THEN gauge[m] - 1 ELSE gauge[m]]
    BY <1>4, <1>5 DEF Respond, Left
  <1>7. gauge' \in [{"GET", "POST"} -> Int]
    BY <1>5, <1>6
  <1>8. ASSUME NEW m \in {"GET", "POST"}
        PROVE  \E S \in SUBSET Request :
                 /\ IsFiniteSet(S) /\ gauge'[m] = Cardinality(S)
                 /\ \A p \in Request, q \in Requests :
                      request'[p] = q => (p \in S <=> q.stage # "idle" /\ Method(q.op) = m)
    <2>1. PICK S \in SUBSET Request :
            /\ IsFiniteSet(S) /\ gauge[m] = Cardinality(S)
            /\ \A p \in Request, q \in Requests :
                 request[p] = q => (p \in S <=> q.stage # "idle" /\ Method(q.op) = m)
      BY DEF Inv, Counted
    <2>2. r \in S <=> Method(o.op) = m
      BY <1>1, <1>4, <2>1
    <2>3. /\ IsFiniteSet(S \ {r})
          /\ Cardinality(S \ {r}) = IF r \in S THEN Cardinality(S) - 1 ELSE Cardinality(S)
      BY <2>1, FS_RemoveElement
    <2>4. gauge'[m] = Cardinality(S \ {r})
      BY <1>6, <2>1, <2>2, <2>3
    <2>5. ASSUME NEW p \in Request, NEW q \in Requests, request'[p] = q
          PROVE  p \in S \ {r} <=> q.stage # "idle" /\ Method(q.op) = m
      <3>1. CASE p = r
        BY <1>1, <1>2, <2>5, <3>1
      <3>2. CASE p # r
        BY <1>1, <2>1, <2>5, <3>2
      <3>3. QED BY <3>1, <3>2
    <2>6. QED BY <2>3, <2>4, <2>5
  <1>9. Counted'
    BY <1>7, <1>8 DEF Counted
  <1>10. QED BY <1>3, <1>9 DEF Inv

(* Changed permissions keep it: what was held since arrival still was. *)
LEMMA RegrantInv ==
  ASSUME Inv, NEW keys \in SUBSET Watched, Regrant(keys)
  PROVE  Inv'
  <1> DEFINE More(q) == [q EXCEPT !.held = @ \union (keys \intersect {Permission(q.op)})]
  <1>1. \A q \in Requests :
          /\ More(q) \in Requests /\ More(q).stage = q.stage /\ More(q).op = q.op
          /\ More(q).token = q.token /\ More(q).todo = q.todo /\ More(q).status = q.status
          /\ More(q).held = q.held \union (keys \intersect {Permission(q.op)})
    <2>1. ASSUME NEW q \in Requests, NEW k \in SUBSET Watched
          PROVE  LET n == [q EXCEPT !.held = q.held \union k]
                 IN /\ n \in Requests /\ n.stage = q.stage /\ n.op = q.op /\ n.token = q.token
                    /\ n.todo = q.todo /\ n.status = q.status /\ n.held = q.held \union k
      BY DEF Requests
    <2>2. ASSUME NEW q \in Requests
          PROVE  keys \intersect {Permission(q.op)} \in SUBSET Watched
      OBVIOUS
    <2>3. QED BY <2>1, <2>2
  <1>2. /\ granted' = keys /\ gauge' = gauge
        /\ request' = [r \in Request |-> IF request[r].stage = "idle" THEN request[r]
                                        ELSE More(request[r])]
    BY Zenon DEF Regrant
  <1> HIDE DEF More
  <1>3. request \in [Request -> Requests]
    BY DEF Inv, Entitlement
  <1>4. request' \in [Request -> Requests]
    BY <1>1, <1>2, <1>3
  <1>5. ASSUME NEW r \in Request
        PROVE  /\ request'[r].stage = request[r].stage /\ request'[r].op = request[r].op
               /\ Vouched(request'[r], keys)
    <2>1. PICK q \in Requests : q = request[r] /\ Vouched(q, granted)
      BY Current DEF Inv
    <2>2. request'[r] = IF q.stage = "idle" THEN q ELSE More(q)
      BY <1>2, <2>1
    <2>3. CASE q.stage = "idle"
      BY <2>1, <2>2, <2>3 DEF Vouched, Admitted, Pending
    <2>4. CASE q.stage # "idle"
      <3>1. PICK n \in Requests : n = More(q)
        BY <1>1
      <3>2. /\ n.stage = q.stage /\ n.op = q.op /\ n.token = q.token /\ n.todo = q.todo
            /\ n.status = q.status /\ n.held = q.held \union (keys \intersect {Permission(q.op)})
        BY <1>1, <3>1
      <3>3. Vouched(n, keys)
        BY <2>1, <3>2 DEF Vouched, Admitted
      <3>4. QED BY <2>1, <2>2, <2>4, <3>1, <3>2, <3>3
    <2>5. QED BY <2>3, <2>4
  <1>6. Entitlement'
    BY <1>2, <1>4, <1>5 DEF Entitlement
  <1>7. ASSUME NEW m \in {"GET", "POST"}, NEW S \in SUBSET Request,
               IsFiniteSet(S) /\ gauge[m] = Cardinality(S),
               \A p \in Request, q \in Requests :
                 request[p] = q => (p \in S <=> q.stage # "idle" /\ Method(q.op) = m),
               NEW p \in Request, NEW q \in Requests, request'[p] = q
        PROVE  p \in S <=> q.stage # "idle" /\ Method(q.op) = m
    <2>1. PICK o \in Requests : o = request[p]
      BY <1>3
    <2>2. o.stage = q.stage /\ o.op = q.op
      BY <1>5, <1>7, <2>1
    <2>3. QED BY <1>7, <2>1, <2>2
  <1>8. Counted'
    BY <1>2, <1>7 DEF Inv, Counted
  <1>9. QED BY <1>6, <1>8 DEF Inv

(* Every stage keeps it. *)
LEMMA ServeInv ==
  ASSUME Inv, NEW r \in Request, Serve(r)
  PROVE  Inv'
  <1>1. CASE Limit(r)
    <2>1. /\ request[r].stage = "limiter" /\ granted' = granted /\ gauge' = gauge
          /\ \/ Becomes(r, Refused(r))
             \/ Becomes(r, To(r, "body"))
             \/ \E next \in Checked(r) : Becomes(r, next)
      BY <1>1 DEF Limit
    <2>2. CASE Becomes(r, Refused(r))
      <3>1. Follows(request[r], Refused(r))
        BY <2>1, ThrowFollows DEF Refused, RateLimitError, AppError, Inv
      <3>2. QED BY <2>1, <2>2, <3>1, FollowInv
    <2>3. CASE Becomes(r, To(r, "body"))
      <3>1. PICK q \in Requests : q = request[r] /\ Vouched(q, granted)
        BY Current DEF Inv
      <3>2. PICK next \in Requests :
              /\ next = To(r, "body") /\ next.stage = "body" /\ next.op = q.op
              /\ next.token = q.token /\ next.todo = q.todo /\ next.held = q.held
        BY <3>1, ToType DEF Inv, Pending
      <3>3. Follows(q, next)
        BY <2>1, <3>1, <3>2 DEF Follows, Vouched, Admitted, Pending
      <3>4. QED BY <2>1, <2>3, <3>1, <3>2, <3>3, FollowInv
    <2>4. ASSUME NEW next \in Checked(r), Becomes(r, next) PROVE Inv'
      BY <2>1, <2>4, CheckedFollows, FollowInv DEF Inv
    <2>5. QED BY <2>1, <2>2, <2>3, <2>4
  <1>2. CASE Body(r)
    <2>1. /\ request[r].stage = "body" /\ granted' = granted /\ gauge' = gauge
          /\ \/ \E status \in {400, 413, 415} : Becomes(r, Throw(r, OtherError(status, {})))
             \/ \E next \in Checked(r) : Becomes(r, next)
      BY <1>2 DEF Body
    <2>2. ASSUME NEW status \in {400, 413, 415}, Becomes(r, Throw(r, OtherError(status, {})))
          PROVE  Inv'
      <3>1. Follows(request[r], Throw(r, OtherError(status, {})))
        BY <2>1, ThrowFollows DEF OtherError, Inv
      <3>2. QED BY <2>1, <2>2, <3>1, FollowInv
    <2>3. ASSUME NEW next \in Checked(r), Becomes(r, next) PROVE Inv'
      BY <2>1, <2>3, CheckedFollows, FollowInv DEF Inv
    <2>4. QED BY <2>1, <2>2, <2>3
  <1>3. CASE Guard(r)
    <2>1. /\ request[r].stage = "guard" /\ granted' = granted /\ gauge' = gauge
          /\ \/ request[r].op = "todos.get" /\ Becomes(r, OwnershipGuard(r))
             \/ request[r].op # "todos.get" /\ Becomes(r, PermissionGuard(r))
             \/ Becomes(r, Throw(r, Bug))
      BY <1>3 DEF Guard
    <2>2. CASE Becomes(r, Throw(r, Bug))
      <3>1. Follows(request[r], Throw(r, Bug))
        BY <2>1, ThrowFollows DEF Bug, OtherError, Inv
      <3>2. QED BY <2>1, <2>2, <3>1, FollowInv
    <2>3. CASE request[r].op = "todos.get" /\ Becomes(r, OwnershipGuard(r))
      BY <2>1, <2>3, GuardFollows, FollowInv DEF Inv
    <2>4. CASE request[r].op # "todos.get" /\ Becomes(r, PermissionGuard(r))
      BY <2>1, <2>4, GuardFollows, FollowInv DEF Inv
    <2>5. QED BY <2>1, <2>2, <2>3, <2>4
  <1>4. CASE Handle(r)
    <2>1. /\ request[r].stage = "handler" /\ granted' = granted /\ gauge' = gauge
          /\ \E next \in Handled(r) : Becomes(r, next)
      BY <1>4 DEF Handle
    <2>2. QED BY <2>1, HandledFollows, FollowInv DEF Inv
  <1>5. QED BY <1>1, <1>2, <1>3, <1>4, RespondInv DEF Serve

(* The invariant is inductive. *)
LEMMA RequestsInv == Inv /\ [RequestsNext]_vars => Inv'
  <1> SUFFICES ASSUME Inv, [RequestsNext]_vars PROVE Inv'
    OBVIOUS
  <1>1. CASE UNCHANGED <<request, granted, gauge>>
    BY <1>1 DEF Inv, Entitlement, Counted
  <1>2. CASE HitElsewhere \/ WindowEnds \/ RedisDrops \/ RedisReturns
    BY <1>1, <1>2 DEF HitElsewhere, WindowEnds, RedisDrops, RedisReturns
  <1>3. QED BY <1>1, <1>2, ArriveInv, ServeInv, RegrantInv DEF RequestsNext, vars

(* It holds before the first request. *)
LEMMA RequestsInitInv == RequestsInit => Inv
  <1> SUFFICES ASSUME RequestsInit PROVE Inv
    OBVIOUS
  <1>1. Idle \in Requests /\ Idle.stage = "idle"
    BY IdleType DEF Idle
  <1>2. Entitlement
    BY <1>1 DEF RequestsInit, Entitlement, Vouched, Admitted, Pending
  <1>3. Counted
    BY <1>1, FS_EmptySet DEF RequestsInit, Counted
  <1>4. QED BY <1>2, <1>3 DEF Inv

(* A request whose handler answered it carried a token where its route     *)
(* wants one, its caller held the route's permission at some moment since  *)
(* it arrived, and the todo it was shown is the caller's own unless the    *)
(* token is an administrator's: the guards of routes.ts and rbac.ts.       *)
THEOREM Entitled == RequestsSpec => []OnlyEntitled
  <1>1. Inv => OnlyEntitled
    <2> SUFFICES ASSUME Inv, NEW r \in Request, request[r].stage = "answered",
                        request[r].status \in {200, 201}
                 PROVE  /\ NeedsToken(request[r].op) => request[r].token # "none"
                        /\ Permission(request[r].op) # "none" =>
                             Permission(request[r].op) \in request[r].held
                        /\ request[r].op = "todos.get" =>
                             request[r].todo = "own" \/ request[r].token = "admin"
      BY DEF OnlyEntitled
    <2>1. PICK q \in Requests : q = request[r] /\ Vouched(q, granted)
      BY Current DEF Inv
    <2>2. QED BY <2>1 DEF Vouched, Admitted
  <1>2. QED BY <1>1, RequestsInitInv, RequestsInv, PTL DEF RequestsSpec

(* http_requests_in_progress is, for every method, the number of its       *)
(* requests that have arrived and are not answered, however they end: the  *)
(* onRequest and onResponse hooks of the metrics plugin.                   *)
THEOREM CountedExactly == RequestsSpec => []CountedInProgress
  <1>1. Inv => CountedInProgress
    <2> SUFFICES ASSUME Inv, NEW m \in {"GET", "POST"}
                 PROVE  gauge[m] = Cardinality({r \in InFlight : Method(request[r].op) = m})
      BY DEF CountedInProgress
    <2>1. PICK S \in SUBSET Request :
            /\ gauge[m] = Cardinality(S)
            /\ \A r \in Request, q \in Requests :
                 request[r] = q => (r \in S <=> q.stage # "idle" /\ Method(q.op) = m)
      BY DEF Inv, Counted
    <2>2. ASSUME NEW r \in Request
          PROVE  r \in S <=> request[r].stage # "idle" /\ Method(request[r].op) = m
      <3>1. PICK q \in Requests : q = request[r]
        BY Current DEF Inv
      <3>2. QED BY <2>1, <3>1
    <2>3. S = {r \in InFlight : Method(request[r].op) = m}
      BY <2>2 DEF InFlight
    <2>4. QED BY <2>1, <2>3
  <1>2. QED BY <1>1, RequestsInitInv, RequestsInv, PTL DEF RequestsSpec

-----------------------------------------------------------------------------
(* UserList *)

Walks ==
  [order : Orders, size : PageSizes, page : Nat \ {0}, had : SUBSET Nat, seen : SUBSET Nat,
   done : BOOLEAN, atRows : Nat,
   answer : [rows : SUBSET Nat, total : Nat, read : SUBSET {"rows", "total"}]]

(* Where the page before the walk's ends, and where its own does. *)
Before(w) == (w.page - 1) * NormalizeCursor(w.size)

Upto(w) == Before(w) + NormalizeCursor(w.size)

(* Nobody who was there leaves the list, and only newer users come between. *)
HadKept(w, all) ==
  /\ w.had \subseteq 1 .. Len(all)
  /\ \A u \in w.had : \E i \in 1 .. Len(all) : all[i] = u
  /\ w.order = "createdAt_asc" => \A i \in 1 .. Len(all) : all[i] = i

(* What a walk has seen before it has the page it asks for, and with it. *)
PagesSeen(w, all) ==
  \A i \in 1 .. Len(all) : i <= Before(w) /\ all[i] \in w.had => all[i] \in w.seen

RowsSeen(w, all) ==
  "rows" \in w.answer.read =>
    /\ \A i \in 1 .. Len(all) :
         i <= Upto(w) /\ all[i] \in w.had => all[i] \in w.seen \union w.answer.rows
    /\ w.atRows <= Upto(w) => w.had \subseteq w.seen \union w.answer.rows

TotalSeen(w) ==
  "total" \in w.answer.read /\ w.order = "createdAt_asc" => w.had \subseteq 1 .. w.answer.total

WalkKept(w, all) ==
  /\ HadKept(w, all)
  /\ ~w.done => PagesSeen(w, all) /\ RowsSeen(w, all) /\ TotalSeen(w)
  /\ w.done /\ (w.order = "createdAt_asc" \/ w.answer.total >= w.atRows) => w.had \subseteq w.seen

WalkInv ==
  \E w \in Walks, all \in Seq(Nat) : walk = w /\ list = all /\ WalkKept(w, all)

(* A page further is a page size more. *)
LEMMA Product ==
  ASSUME NEW p \in Int, NEW z \in Int
  PROVE  (p + 1 - 1) * z = (p - 1) * z + z
  OBVIOUS

(* Multiplication by a page size keeps the order. *)
LEMMA Monotone ==
  ASSUME NEW a \in Int, NEW b \in Int, NEW z \in Nat, a >= b
  PROVE  a * z >= b * z
  OBVIOUS

(* What division of naturals leaves. *)
LEMMA Quotient ==
  ASSUME NEW a \in Nat, NEW z \in Nat \ {0}
  PROVE  (a \div z) \in Nat /\ (a \div z) * z <= a /\ a < (a \div z) * z + z
  OBVIOUS

(* totalPages pages hold every row. *)
LEMMA PagesHold ==
  ASSUME NEW p \in Nat \ {0}, NEW z \in Nat \ {0}, NEW t \in Nat, p >= TotalPages(t, z)
  PROVE  (p - 1) * z + z >= t
  <1> DEFINE d == (t + z - 1) \div z
  <1>1. d \in Nat /\ t + z - 1 < d * z + z
    BY Quotient
  <1>2. p * z >= d * z
    BY <1>1, Monotone DEF TotalPages
  <1>3. p * z = (p - 1) * z + z
    BY Product
  <1> HIDE DEF d
  <1>4. p * z \in Int /\ d * z \in Int /\ (p - 1) * z \in Int
    BY <1>1
  <1>5. QED BY <1>1, <1>2, <1>3, <1>4

(* and the last of them at least one, if there are rows. *)
LEMMA LastPageNeeded ==
  ASSUME NEW z \in Nat \ {0}, NEW t \in Nat \ {0}
  PROVE  (TotalPages(t, z) - 1) * z < t
  <1> DEFINE d == (t + z - 1) \div z
  <1>1. d \in Nat /\ d * z <= t + z - 1
    BY Quotient
  <1>2. d * z = (d - 1) * z + z
    BY <1>1, Product
  <1> HIDE DEF d
  <1>3. d * z \in Int /\ (d - 1) * z \in Int
    BY <1>1
  <1>4. (d - 1) * z < t
    BY <1>1, <1>2, <1>3
  <1>5. QED BY <1>4 DEF TotalPages, d

(* The pages a client can ask for, with any numbers, adjoin: none of the   *)
(* offsets of pagination.ts skips a row or gives it twice, and totalPages  *)
(* is the number of pages that are not empty.                              *)
THEOREM PagesAlwaysAdjoin ==
  ASSUME NEW page \in Int, NEW size \in Int, NEW total \in Nat
  PROVE  Adjoins(page, size, total)
  <1>1. PICK z \in 1 .. 100 : z = NormalizeCursor(size)
    BY DEF NormalizeCursor, Smaller, Larger, PaginationDefaults
  <1>2. PICK n \in Nat \ {0} : n = Larger(1, page)
    BY DEF Larger
  <1>3. LET p == NormalizePagination(page, size)
        IN p.page = n /\ p.pageSize = z /\ p.skip = (n - 1) * z /\ p.take = z
    BY <1>1, <1>2 DEF NormalizePagination, NormalizeCursor
  <1>4. Larger(1, n + 1) = n + 1
    BY DEF Larger
  <1>5. NormalizePagination(n + 1, size).skip = (n + 1 - 1) * z
    BY <1>1, <1>4 DEF NormalizePagination, NormalizeCursor
  <1>6. (n - 1) * z \in Nat /\ (n + 1 - 1) * z = (n - 1) * z + z
    BY Product
  <1>7. PICK k \in Nat : k = TotalPages(total, z)
    BY Quotient DEF TotalPages
  <1>8. k * z >= total
    <2>1. total + z - 1 < k * z + z
      BY <1>7, Quotient DEF TotalPages
    <2>2. k * z \in Int
      BY <1>7
    <2>3. QED BY <2>1, <2>2
  <1>9. total > 0 => (k - 1) * z < total
    BY <1>7, LastPageNeeded
  <1>10. QED BY <1>1, <1>3, <1>5, <1>6, <1>7, <1>8, <1>9 DEF Adjoins

(* What normalizePagination makes of what a client asks for. *)
LEMMA PageIs ==
  ASSUME NEW w \in Walks
  PROVE  /\ NormalizeCursor(w.size) \in 1 .. 100 /\ Before(w) \in Nat /\ Upto(w) \in Nat
         /\ LET p == NormalizePagination(w.page, w.size)
            IN /\ p.page = w.page /\ p.pageSize = NormalizeCursor(w.size)
               /\ p.skip = Before(w) /\ p.take = NormalizeCursor(w.size)
  <1>1. w.page \in Nat \ {0} /\ w.size \in Nat
    BY UserListAssumption DEF Walks
  <1>2. PICK z \in 1 .. 100 : z = NormalizeCursor(w.size)
    BY <1>1 DEF NormalizeCursor, Smaller, Larger, PaginationDefaults
  <1>3. Larger(1, w.page) = w.page
    BY <1>1 DEF Larger
  <1>4. LET p == NormalizePagination(w.page, w.size)
        IN p.page = w.page /\ p.pageSize = z /\ p.skip = (w.page - 1) * z /\ p.take = z
    BY <1>2, <1>3 DEF NormalizePagination, NormalizeCursor
  <1>5. (w.page - 1) * z \in Nat
    BY <1>1, <1>2
  <1>6. QED BY <1>2, <1>4, <1>5 DEF Before, Upto

(* Where the rows are after one was inserted. *)
LEMMA Inserted ==
  ASSUME NEW s \in Seq(Nat), NEW i \in 1 .. Len(s) + 1, NEW e \in Nat
  PROVE  /\ InsertAt(s, i, e) \in Seq(Nat) /\ Len(InsertAt(s, i, e)) = Len(s) + 1
         /\ InsertAt(s, i, e)[i] = e
         /\ \A j \in 1 .. Len(s) :
              (j < i => InsertAt(s, i, e)[j] = s[j]) /\ (j >= i => InsertAt(s, i, e)[j + 1] = s[j])
  <1> DEFINE a == SubSeq(s, 1, i - 1)
             b == SubSeq(s, i, Len(s))
             c == a \o <<e>>
  <1>0. Len(s) \in Nat /\ i \in Int
    BY LenProperties
  <1>1. a \in Seq(Nat) /\ Len(a) = i - 1 /\ \A j \in 1 .. i - 1 : a[j] = s[j]
    BY SubSeqProperties
  <1>2. /\ b \in Seq(Nat) /\ Len(b) = Len(s) + 1 - i
        /\ \A j \in 1 .. Len(s) + 1 - i : b[j] = s[i + j - 1]
    BY SubSeqProperties
  <1>3. InsertAt(s, i, e) = c \o b
    BY DEF InsertAt
  <1> HIDE DEF a, b
  <1>4. c \in Seq(Nat) /\ Len(c) = i /\ c[i] = e /\ \A j \in 1 .. i - 1 : c[j] = s[j]
    <2>1. <<e>> \in Seq(Nat) /\ Len(<<e>>) = 1 /\ <<e>>[1] = e
      OBVIOUS
    <2>2. /\ c \in Seq(Nat) /\ Len(c) = Len(a) + 1
          /\ \A j \in 1 .. Len(a) + 1 : c[j] = IF j <= Len(a) THEN a[j] ELSE <<e>>[j - Len(a)]
      BY <1>1, <2>1, ConcatProperties
    <2>3. Len(a) + 1 = i /\ i - 1 \in Nat /\ i - (i - 1) = 1
      BY <1>0, <1>1
    <2>4. c[i] = e
      BY <1>1, <2>1, <2>2, <2>3
    <2>5. ASSUME NEW j \in 1 .. i - 1 PROVE c[j] = s[j]
      BY <1>1, <2>2, <2>3
    <2>6. QED BY <2>2, <2>3, <2>4, <2>5
  <1> HIDE DEF c
  <1>5. /\ c \o b \in Seq(Nat) /\ Len(c \o b) = Len(s) + 1
        /\ \A j \in 1 .. Len(s) + 1 : (c \o b)[j] = IF j <= i THEN c[j] ELSE b[j - i]
    <2>1. Len(c) + Len(b) = Len(s) + 1
      BY <1>0, <1>2, <1>4
    <2>2. /\ c \o b \in Seq(Nat) /\ Len(c \o b) = Len(c) + Len(b)
          /\ \A j \in 1 .. Len(c) + Len(b) :
               (c \o b)[j] = IF j <= Len(c) THEN c[j] ELSE b[j - Len(c)]
      BY <1>2, <1>4, ConcatProperties
    <2>3. QED BY <1>4, <2>1, <2>2
  <1>6. (c \o b)[i] = e
    BY <1>0, <1>4, <1>5
  <1>7. ASSUME NEW j \in 1 .. Len(s), j < i
        PROVE  (c \o b)[j] = s[j]
    BY <1>0, <1>4, <1>5, <1>7
  <1>8. ASSUME NEW j \in 1 .. Len(s), j >= i
        PROVE  (c \o b)[j + 1] = s[j]
    <2>1. /\ j + 1 - i \in 1 .. Len(s) + 1 - i /\ i + (j + 1 - i) - 1 = j
          /\ j + 1 \in 1 .. Len(s) + 1 /\ ~(j + 1 <= i)
      BY <1>0, <1>8
    <2>2. b[j + 1 - i] = s[j]
      BY <1>2, <2>1
    <2>3. (c \o b)[j + 1] = b[j + 1 - i]
      <3>1. PICK k \in 1 .. Len(s) + 1 : k = j + 1
        BY <2>1
      <3>2. (c \o b)[k] = b[k - i]
        BY <1>5, <2>1, <3>1
      <3>3. QED BY <3>1, <3>2
    <2>4. QED BY <2>2, <2>3
  <1>9. QED BY <1>3, <1>5, <1>6, <1>7, <1>8

(* A user who registers only moves the others down the list. *)
LEMMA RegisterKeeps ==
  ASSUME NEW w \in Walks, NEW all \in Seq(Nat), WalkKept(w, all),
         NEW i \in 1 .. Len(all) + 1, w.order = "createdAt_asc" => i = Len(all) + 1
  PROVE  \E n \in Seq(Nat) : n = InsertAt(all, i, Len(all) + 1) /\ WalkKept(w, n)
  <1>0. Len(all) \in Nat /\ Len(all) + 1 \in Nat
    BY LenProperties
  <1> PICK l \in Nat : l = Len(all)
    BY <1>0
  <1> DEFINE n == InsertAt(all, i, l + 1)
  <1>1. /\ n \in Seq(Nat) /\ Len(n) = l + 1 /\ n[i] = l + 1 /\ i \in 1 .. l + 1
        /\ \A j \in 1 .. l : (j < i => n[j] = all[j]) /\ (j >= i => n[j + 1] = all[j])
    <2>1. PICK e \in Nat : e = l + 1
      OBVIOUS
    <2>2. /\ InsertAt(all, i, e) \in Seq(Nat) /\ Len(InsertAt(all, i, e)) = Len(all) + 1
          /\ InsertAt(all, i, e)[i] = e
          /\ \A j \in 1 .. Len(all) :
               /\ j < i => InsertAt(all, i, e)[j] = all[j]
               /\ j >= i => InsertAt(all, i, e)[j + 1] = all[j]
      BY Inserted
    <2>3. QED BY <2>1, <2>2
  <1> HIDE DEF n
  <1>2. ASSUME NEW j \in 1 .. Len(n), n[j] \in w.had
        PROVE  \E k \in 1 .. Len(all) : k <= j /\ all[k] = n[j]
    <2>1. j # i
      BY <1>1, <1>2 DEF WalkKept, HadKept
    <2>2. CASE j < i
      <3>1. j \in 1 .. l /\ j <= j
        BY <1>1, <2>2
      <3>2. n[j] = all[j]
        BY <1>1, <2>2, <3>1
      <3>3. QED BY <3>1, <3>2
    <2>3. CASE j > i
      <3>1. j - 1 \in 1 .. l /\ j - 1 >= i /\ j - 1 + 1 = j /\ j - 1 <= j
        BY <1>1, <2>3
      <3>2. n[j] = all[j - 1]
        BY <1>1, <3>1
      <3>3. QED BY <3>1, <3>2
    <2>4. j \in Int /\ i \in Int
      BY <1>1
    <2>5. QED BY <2>1, <2>2, <2>3, <2>4
  <1>3. HadKept(w, n)
    <2>1. w.had \subseteq 1 .. Len(n)
      BY <1>1 DEF WalkKept, HadKept
    <2>2. ASSUME NEW u \in w.had
          PROVE  \E j \in 1 .. Len(n) : n[j] = u
      <3>1. PICK k \in 1 .. l : all[k] = u
        BY DEF WalkKept, HadKept
      <3>2. k \in 1 .. Len(n) /\ k + 1 \in 1 .. Len(n) /\ (k < i \/ k >= i)
        BY <1>1
      <3>3. n[k] = u \/ n[k + 1] = u
        BY <1>1, <3>1, <3>2
      <3>4. QED BY <3>2, <3>3
    <2>3. ASSUME w.order = "createdAt_asc", NEW j \in 1 .. Len(n)
          PROVE  n[j] = j
      <3>1. i = l + 1 /\ (j = i \/ (j \in 1 .. l /\ j < i))
        BY <1>1, <2>3
      <3>2. j \in 1 .. l => all[j] = j
        BY <2>3 DEF WalkKept, HadKept
      <3>3. QED BY <1>1, <3>1, <3>2
    <2>4. QED BY <2>1, <2>2, <2>3 DEF HadKept
  <1>4. Before(w) \in Nat /\ Upto(w) \in Nat
    BY PageIs
  <1>5. ~w.done => PagesSeen(w, n)
    <2> SUFFICES ASSUME ~w.done, NEW j \in 1 .. Len(n), j <= Before(w), n[j] \in w.had
                 PROVE  n[j] \in w.seen
      BY DEF PagesSeen
    <2>1. PICK k \in 1 .. Len(all) : k <= j /\ all[k] = n[j]
      BY <1>2
    <2>2. j \in Nat
      BY <1>1
    <2>3. k <= Before(w)
      BY <1>4, <2>1, <2>2
    <2>4. QED BY <2>1, <2>3 DEF WalkKept, PagesSeen
  <1>6. ~w.done => RowsSeen(w, n)
    <2> SUFFICES ASSUME ~w.done, "rows" \in w.answer.read
                 PROVE  /\ \A j \in 1 .. Len(n) :
                             j <= Upto(w) /\ n[j] \in w.had => n[j] \in w.seen \union w.answer.rows
                        /\ w.atRows <= Upto(w) => w.had \subseteq w.seen \union w.answer.rows
      BY DEF RowsSeen
    <2>1. ASSUME NEW j \in 1 .. Len(n), j <= Upto(w), n[j] \in w.had
          PROVE  n[j] \in w.seen \union w.answer.rows
      <3>1. PICK k \in 1 .. Len(all) : k <= j /\ all[k] = n[j]
        BY <1>2, <2>1
      <3>2. j \in Nat
        BY <1>1
      <3>3. k <= Upto(w)
        BY <1>4, <2>1, <3>1, <3>2
      <3>4. QED BY <2>1, <3>1, <3>3 DEF WalkKept, RowsSeen
    <2>2. QED BY <2>1 DEF WalkKept, RowsSeen
  <1>7. WalkKept(w, n)
    BY <1>3, <1>5, <1>6 DEF WalkKept
  <1>8. QED BY <1>1, <1>7 DEF n

(* The rows of a page are those in its range. *)
LEMMA RowsAre ==
  ASSUME NEW all \in Seq(Nat), NEW p, p.skip \in Nat, p.take \in Nat
  PROVE  /\ Rows(all, p) \in SUBSET Nat
         /\ \A i \in 1 .. Len(all) : i > p.skip /\ i <= p.skip + p.take => all[i] \in Rows(all, p)
  <1>0. PICK l \in Nat : l = Len(all)
    BY LenProperties
  <1>1. PICK skip \in Nat, take \in Nat : skip = p.skip /\ take = p.take
    OBVIOUS
  <1>2. PICK m \in Nat : m = skip + 1
    OBVIOUS
  <1>3. PICK e \in 0 .. l : e = Smaller(skip + take, l)
    BY DEF Smaller
  <1>4. PICK n \in Nat : n = IF m <= e THEN e - m + 1 ELSE 0
    BY <1>2, <1>3
  <1> DEFINE rows == SubSeq(all, m, e)
  <1>5. Rows(all, p) = {rows[j] : j \in DOMAIN rows}
    BY <1>0, <1>1, <1>2, <1>3 DEF Rows, ToSet
  <1>6. \A i \in m .. e : all[i] \in Nat
    <2>1. \A i \in m .. e : i \in 1 .. l
      BY <1>2, <1>3
    <2>2. \A i \in 1 .. l : all[i] \in Nat
      BY <1>0
    <2>3. QED BY <2>1, <2>2
  <1>7. /\ rows \in Seq(Nat) /\ Len(rows) = n
        /\ \A j \in 1 .. e - m + 1 : rows[j] = all[m + j - 1]
    BY <1>2, <1>3, <1>4, <1>6, SubSeqProperties, SMTT(20)
  <1> HIDE DEF rows
  <1>8. DOMAIN rows = 1 .. n
    BY <1>7
  <1>9. Rows(all, p) \in SUBSET Nat
    BY <1>5, <1>7, <1>8
  <1>10. ASSUME NEW i \in 1 .. Len(all), i > p.skip, i <= p.skip + p.take
         PROVE  all[i] \in Rows(all, p)
    <2>1. i \in 1 .. l /\ i > skip /\ i <= skip + take
      BY <1>0, <1>1, <1>10
    <2>2. i <= e
      BY <1>3, <2>1 DEF Smaller
    <2>3. PICK j \in Nat : j = i - skip
      BY <2>1
    <2>4. j \in 1 .. n /\ j \in 1 .. e - m + 1 /\ m + j - 1 = i
      BY <1>2, <1>3, <1>4, <2>1, <2>2, <2>3, SMTT(20)
    <2>5. rows[j] = all[i]
      BY <1>7, <2>4
    <2>6. QED BY <1>5, <1>8, <2>4, <2>5
  <1>11. QED BY <1>9, <1>10

(* A registration pushes rows towards later pages only. *)
LEMMA RegisterInv ==
  ASSUME WalkInv, Register
  PROVE  WalkInv'
  <1>1. PICK w \in Walks, all \in Seq(Nat) : walk = w /\ list = all /\ WalkKept(w, all)
    BY DEF WalkInv
  <1>2. Len(all) \in Nat
    BY LenProperties
  <1>3. PICK i \in 1 .. Len(all) + 1 :
          /\ list' = InsertAt(all, i, Len(all) + 1)
          /\ w.order = "createdAt_asc" => i = Len(all) + 1
    <2>1. CASE w.order = "createdAt_desc"
      <3>1. list' = InsertAt(all, 1, Len(all) + 1)
        BY <1>1, <2>1 DEF Register
      <3>2. 1 \in 1 .. Len(all) + 1
        BY <1>2
      <3>3. QED BY <2>1, <3>1, <3>2
    <2>2. CASE w.order = "createdAt_asc"
      <3>1. list' = InsertAt(all, Len(all) + 1, Len(all) + 1)
        BY <1>1, <2>2 DEF Register
      <3>2. Len(all) + 1 \in 1 .. Len(all) + 1
        BY <1>2
      <3>3. QED BY <3>1, <3>2
    <2>3. CASE w.order = "email_asc"
      BY <1>1, <2>3 DEF Register
    <2>4. QED BY <2>1, <2>2, <2>3 DEF Walks, Orders
  <1>4. PICK n \in Seq(Nat) : n = InsertAt(all, i, Len(all) + 1) /\ WalkKept(w, n)
    BY <1>1, <1>3, RegisterKeeps
  <1>5. walk' = w
    BY <1>1 DEF Register
  <1>6. QED BY <1>3, <1>4, <1>5 DEF WalkInv

(* Reading the rows of a page keeps the invariant, *)
LEMMA ReadRowsInv ==
  ASSUME WalkInv, ReadRows
  PROVE  WalkInv'
  <1>1. PICK w \in Walks, all \in Seq(Nat) : walk = w /\ list = all /\ WalkKept(w, all)
    BY DEF WalkInv
  <1>2. PICK rows \in SUBSET Nat :
          /\ rows = Rows(all, NormalizePagination(w.page, w.size))
          /\ \A i \in 1 .. Len(all) : i > Before(w) /\ i <= Upto(w) => all[i] \in rows
    <2>1. PICK p : p = NormalizePagination(w.page, w.size)
      OBVIOUS
    <2>2. /\ p.skip = Before(w) /\ p.skip \in Nat /\ p.take = NormalizeCursor(w.size)
          /\ p.take \in Nat
      <3>1. /\ NormalizePagination(w.page, w.size).skip = Before(w)
            /\ NormalizePagination(w.page, w.size).take = NormalizeCursor(w.size)
        BY PageIs, Zenon
      <3>2. Before(w) \in Nat /\ NormalizeCursor(w.size) \in 1 .. 100
        BY PageIs, Zenon
      <3>3. \A m \in 1 .. 100 : m \in Nat
        OBVIOUS
      <3>4. QED BY <2>1, <3>1, <3>2, <3>3, Zenon
    <2>3. /\ Rows(all, p) \in SUBSET Nat
          /\ \A i \in 1 .. Len(all) : i > p.skip /\ i <= p.skip + p.take => all[i] \in Rows(all, p)
      BY <2>2, RowsAre
    <2>4. QED BY <2>1, <2>2, <2>3 DEF Upto
  <1>3. PICK l \in Nat : l = Len(all)
    BY LenProperties
  <1> DEFINE n == [w EXCEPT !.answer.rows = rows, !.answer.read = @ \union {"rows"}, !.atRows = l]
  <1>4. walk' = n /\ list' = all /\ ~w.done
    BY <1>1, <1>2, <1>3, Zenon DEF ReadRows
  <1>5. n \in Walks
    BY DEF Walks
  <1>6. /\ n.order = w.order /\ n.size = w.size /\ n.page = w.page /\ n.had = w.had
        /\ n.seen = w.seen /\ n.done = w.done /\ n.atRows = l /\ n.answer.rows = rows
        /\ n.answer.total = w.answer.total /\ n.answer.read = w.answer.read \union {"rows"}
    BY DEF Walks
  <1> HIDE DEF n
  <1>7. Before(n) = Before(w) /\ Upto(n) = Upto(w) /\ Before(w) \in Nat /\ Upto(w) \in Nat
    BY <1>6, PageIs DEF Before, Upto
  <1>8. ASSUME NEW i \in 1 .. Len(all), i <= Upto(w), all[i] \in w.had
        PROVE  all[i] \in w.seen \union rows
    <2>1. i <= Before(w) \/ i > Before(w)
      BY <1>3, <1>7
    <2>2. QED BY <1>1, <1>2, <1>4, <1>8, <2>1 DEF WalkKept, PagesSeen
  <1>9. l <= Upto(w) => w.had \subseteq w.seen \union rows
    <2> SUFFICES ASSUME l <= Upto(w), NEW u \in w.had PROVE u \in w.seen \union rows
      OBVIOUS
    <2>1. PICK i \in 1 .. Len(all) : all[i] = u
      BY <1>1 DEF WalkKept, HadKept
    <2>2. i <= Upto(w)
      BY <1>3, <1>7
    <2>3. QED BY <1>8, <2>1, <2>2
  <1>10. RowsSeen(n, all)
    BY <1>6, <1>7, <1>8, <1>9 DEF RowsSeen
  <1>11. HadKept(n, all) /\ PagesSeen(n, all) /\ TotalSeen(n)
    BY <1>1, <1>4, <1>6, <1>7 DEF WalkKept, HadKept, PagesSeen, TotalSeen
  <1>12. WalkKept(n, all)
    BY <1>4, <1>6, <1>10, <1>11 DEF WalkKept
  <1>13. QED BY <1>4, <1>5, <1>12 DEF WalkInv

(* and so does counting them. *)
LEMMA ReadTotalInv ==
  ASSUME WalkInv, ReadTotal
  PROVE  WalkInv'
  <1>1. PICK w \in Walks, all \in Seq(Nat) : walk = w /\ list = all /\ WalkKept(w, all)
    BY DEF WalkInv
  <1>2. PICK l \in Nat : l = Len(all)
    BY LenProperties
  <1> DEFINE n == [w EXCEPT !.answer.total = l, !.answer.read = @ \union {"total"}]
  <1>3. walk' = n /\ list' = all /\ ~w.done
    BY <1>1, <1>2, Zenon DEF ReadTotal
  <1>4. n \in Walks
    BY DEF Walks
  <1>5. /\ n.order = w.order /\ n.size = w.size /\ n.page = w.page /\ n.had = w.had
        /\ n.seen = w.seen /\ n.done = w.done /\ n.atRows = w.atRows
        /\ n.answer.rows = w.answer.rows /\ n.answer.total = l
        /\ n.answer.read = w.answer.read \union {"total"}
    BY DEF Walks
  <1> HIDE DEF n
  <1>6. Before(n) = Before(w) /\ Upto(n) = Upto(w)
    BY <1>5 DEF Before, Upto
  <1>7. HadKept(n, all) /\ PagesSeen(n, all)
    BY <1>1, <1>3, <1>5, <1>6 DEF WalkKept, HadKept, PagesSeen
  <1>8. RowsSeen(n, all)
    BY <1>1, <1>3, <1>5, <1>6 DEF WalkKept, RowsSeen
  <1>9. TotalSeen(n)
    BY <1>1, <1>2, <1>5 DEF WalkKept, HadKept, TotalSeen
  <1>10. WalkKept(n, all)
    BY <1>3, <1>5, <1>7, <1>8, <1>9 DEF WalkKept
  <1>11. QED BY <1>3, <1>4, <1>10 DEF WalkInv

(* Nobody is missed between a page and the next. *)
LEMMA AnswerInv ==
  ASSUME WalkInv, Answer
  PROVE  WalkInv'
  <1>1. PICK w \in Walks, all \in Seq(Nat) : walk = w /\ list = all /\ WalkKept(w, all)
    BY DEF WalkInv
  <1>2. PICK z \in 1 .. 100, page \in Nat \ {0}, total \in Nat :
          z = NormalizeCursor(w.size) /\ page = w.page /\ total = w.answer.total
    BY PageIs DEF Walks
  <1>3. PICK next \in Nat \ {0} : next = page + 1
    OBVIOUS
  <1> DEFINE last == page >= TotalPages(total, z)
             seen == w.seen \union w.answer.rows
             ended == [w EXCEPT !.seen = seen, !.done = TRUE]
             turned == [w EXCEPT !.seen = seen, !.done = FALSE, !.page = next, !.answer = Unread]
  <1>4. /\ list' = all /\ ~w.done /\ w.answer.read = {"rows", "total"} /\ w.atRows \in Nat
        /\ Before(w) = (page - 1) * z /\ Upto(w) = Before(w) + z /\ Upto(w) \in Nat
    BY <1>1, <1>2, PageIs DEF Answer, Walks, Before, Upto
  <1>5. walk' = [w EXCEPT !.seen = seen, !.done = last, !.page = IF last THEN page ELSE page + 1,
                          !.answer = IF last THEN w.answer ELSE Unread]
    BY <1>1, <1>2, PageIs, Zenon DEF Answer
  <1>6. CASE last
    <2>1. walk' = ended
      BY <1>2, <1>5, <1>6 DEF Walks
    <2>2. ended \in Walks
      BY DEF Walks
    <2>3. /\ ended.order = w.order /\ ended.had = w.had /\ ended.seen = seen /\ ended.done
          /\ ended.atRows = w.atRows /\ ended.answer = w.answer
      BY DEF Walks
    <2> HIDE DEF ended
    <2>4. Upto(w) >= total
      <3>1. z \in Nat \ {0}
        OBVIOUS
      <3>2. QED BY <1>4, <1>6, <3>1, PagesHold
    <2>5. w.order = "createdAt_asc" => w.had \subseteq seen
      <3> SUFFICES ASSUME w.order = "createdAt_asc", NEW u \in w.had PROVE u \in seen
        OBVIOUS
      <3>1. u \in 1 .. Len(all) /\ all[u] = u
        BY <1>1 DEF WalkKept, HadKept
      <3>2. u \in 1 .. total
        BY <1>1, <1>2, <1>4 DEF WalkKept, TotalSeen
      <3>3. u <= Upto(w)
        BY <1>4, <2>4, <3>2
      <3>4. QED BY <1>1, <1>4, <3>1, <3>3 DEF WalkKept, RowsSeen
    <2>6. total >= w.atRows => w.had \subseteq seen
      BY <1>1, <1>4, <2>4 DEF WalkKept, RowsSeen
    <2>7. HadKept(ended, all)
      BY <1>1, <2>3 DEF WalkKept, HadKept
    <2>8. WalkKept(ended, all)
      BY <1>2, <2>3, <2>5, <2>6, <2>7 DEF WalkKept
    <2>9. QED BY <1>4, <2>1, <2>2, <2>8 DEF WalkInv
  <1>7. CASE ~last
    <2>1. walk' = turned
      <3>1. last = FALSE
        BY <1>7
      <3>2. QED BY <1>3, <1>5, <1>7, <3>1, Zenon
    <2>2. turned \in Walks
      <3>1. Unread \in [rows : SUBSET Nat, total : Nat, read : SUBSET {"rows", "total"}]
        BY DEF Unread
      <3>2. PICK u \in [rows : SUBSET Nat, total : Nat, read : SUBSET {"rows", "total"}] : u = Unread
        BY <3>1
      <3>3. [w EXCEPT !.seen = seen, !.done = FALSE, !.page = next, !.answer = u] \in Walks
        BY DEF Walks
      <3>4. QED BY <3>2, <3>3
    <2>3. /\ turned.order = w.order /\ turned.size = w.size /\ turned.page = next
          /\ turned.had = w.had /\ turned.seen = seen /\ ~turned.done
          /\ turned.answer.read = {}
      BY DEF Walks, Unread
    <2> HIDE DEF turned
    <2>4. Before(turned) = Upto(w)
      <3>1. Before(turned) = (page + 1 - 1) * z
        BY <1>2, <1>3, <2>3 DEF Before
      <3>2. (page + 1 - 1) * z = (page - 1) * z + z
        BY Product
      <3>3. QED BY <1>4, <3>1, <3>2
    <2>5. HadKept(turned, all)
      BY <1>1, <2>3 DEF WalkKept, HadKept
    <2>6. PagesSeen(turned, all)
      BY <1>1, <1>4, <2>3, <2>4 DEF WalkKept, PagesSeen, RowsSeen
    <2>7. RowsSeen(turned, all) /\ TotalSeen(turned)
      BY <2>3 DEF RowsSeen, TotalSeen
    <2>8. WalkKept(turned, all)
      BY <2>3, <2>5, <2>6, <2>7 DEF WalkKept
    <2>9. QED BY <1>4, <2>1, <2>2, <2>8 DEF WalkInv
  <1>8. QED BY <1>6, <1>7

(* The walk begins with the whole list before it. *)
LEMMA WalkInitInv == UserListInit => WalkInv
  <1> SUFFICES ASSUME UserListInit PROVE WalkInv
    OBVIOUS
  <1>1. PICK n \in 0 .. MaxUsers, order \in Orders, size \in PageSizes :
          /\ list = [i \in 1 .. n |-> IF order = "createdAt_desc" THEN n + 1 - i ELSE i]
          /\ walk = [order |-> order, size |-> size, page |-> 1, had |-> 1 .. n, seen |-> {},
                     done |-> FALSE, atRows |-> 0, answer |-> Unread]
    BY DEF UserListInit
  <1>2. n \in Nat
    BY UserListAssumption
  <1>3. PICK all \in Seq(Nat) :
          /\ all = list /\ Len(all) = n
          /\ \A i \in 1 .. n : all[i] = IF order = "createdAt_desc" THEN n + 1 - i ELSE i
    BY <1>1, <1>2
  <1>4. PICK w \in Walks :
          /\ w = walk /\ w.order = order /\ w.page = 1 /\ w.had = 1 .. n /\ w.seen = {}
          /\ ~w.done /\ w.answer.read = {}
    <2> DEFINE first == [order |-> order, size |-> size, page |-> 1, had |-> 1 .. n, seen |-> {},
                         done |-> FALSE, atRows |-> 0, answer |-> Unread]
    <2>1. Unread \in [rows : SUBSET Nat, total : Nat, read : SUBSET {"rows", "total"}]
      BY DEF Unread
    <2>2. 1 .. n \in SUBSET Nat /\ 1 \in Nat \ {0}
      BY <1>2
    <2>3. first \in Walks
      BY <2>1, <2>2 DEF Walks
    <2>4. /\ first.order = order /\ first.page = 1 /\ first.had = 1 .. n /\ first.seen = {}
          /\ ~first.done /\ first.answer.read = {}
      BY DEF Unread
    <2> HIDE DEF first
    <2>5. first = walk
      BY <1>1, Zenon DEF first
    <2>6. QED BY <2>3, <2>4, <2>5
  <1>5. HadKept(w, all)
    <2>1. ASSUME NEW u \in 1 .. n PROVE \E i \in 1 .. n : all[i] = u
      <3>1. n + 1 - u \in 1 .. n /\ n + 1 - (n + 1 - u) = u
        BY <1>2
      <3>2. QED BY <1>3, <3>1
    <2>2. w.order = "createdAt_asc" => \A i \in 1 .. n : all[i] = i
      BY <1>3, <1>4
    <2>3. QED BY <1>3, <1>4, <2>1, <2>2 DEF HadKept
  <1>6. Before(w) = 0
    <2>1. PICK z \in 1 .. 100 : z = NormalizeCursor(w.size)
      BY PageIs
    <2>2. Before(w) = (1 - 1) * z
      BY <1>4, <2>1 DEF Before
    <2>3. QED BY <2>2
  <1>7. PagesSeen(w, all) /\ RowsSeen(w, all) /\ TotalSeen(w)
    BY <1>2, <1>3, <1>4, <1>6 DEF PagesSeen, RowsSeen, TotalSeen
  <1>8. QED BY <1>3, <1>4, <1>5, <1>7 DEF WalkInv, WalkKept

(* A walk over GET /users misses nobody who was there when it began,       *)
(* however many register meanwhile, unless the last page's total is older  *)
(* than its rows and a new user comes before old ones: users.routes.ts and *)
(* pagination.ts.                                                          *)
THEOREM WalkComplete == UserListSpec => []WalkMissesNobody
  <1>1. WalkInv => WalkMissesNobody
    BY DEF WalkInv, WalkKept, WalkMissesNobody
  <1>2. WalkInv /\ [UserListNext]_listVars => WalkInv'
    <2> SUFFICES ASSUME WalkInv, [UserListNext]_listVars PROVE WalkInv'
      OBVIOUS
    <2>1. CASE UNCHANGED listVars
      BY <2>1 DEF listVars, WalkInv
    <2>2. QED BY <2>1, RegisterInv, ReadRowsInv, ReadTotalInv, AnswerInv DEF UserListNext
  <1>3. QED BY <1>1, <1>2, WalkInitInv, PTL DEF UserListSpec

-----------------------------------------------------------------------------
(* Errors: what each error is answered with *)

(* The table of codes and their statuses, read off. *)
LEMMA StatusOf ==
  /\ DOMAIN ContractStatus =
       {"VALIDATION_ERROR", "OTP_INVALID", "OTP_EXPIRED", "UNAUTHORIZED", "INVALID_CREDENTIALS",
        "TOKEN_MISSING", "TOKEN_INVALID", "TOKEN_EXPIRED", "TOKEN_REVOKED", "RATE_LIMITED",
        "ACCOUNT_LOCKED", "FORBIDDEN", "NOT_FOUND", "CONFLICT", "SERVICE_UNAVAILABLE",
        "INTERNAL_ERROR"}
  /\ \A c \in {"VALIDATION_ERROR", "OTP_INVALID", "OTP_EXPIRED"} : ContractStatus[c] = 400
  /\ \A c \in {"UNAUTHORIZED", "INVALID_CREDENTIALS", "TOKEN_MISSING", "TOKEN_INVALID",
               "TOKEN_EXPIRED", "TOKEN_REVOKED"} : ContractStatus[c] = 401
  /\ \A c \in {"RATE_LIMITED", "ACCOUNT_LOCKED"} : ContractStatus[c] = 429
  /\ ContractStatus["FORBIDDEN"] = 403
  /\ ContractStatus["NOT_FOUND"] = 404
  /\ ContractStatus["CONFLICT"] = 409
  /\ ContractStatus["SERVICE_UNAVAILABLE"] = 503
  /\ ContractStatus["INTERNAL_ERROR"] = 500
  BY DEF ContractStatus


(* The answer to an error in production, whatever the error. *)
LEMMA InProduction ==
  ASSUME NEW e, e.status \in Nat, NEW status, status = IF e.status = 0 THEN 500 ELSE e.status
  PROVE  LET answer == Envelope(e, "production") IN
         /\ answer.status = status /\ answer.code = ResolveCode(e, status)
         /\ (answer.own <=> ~(status >= 500))
         /\ answer.details = Details(e, status) /\ answer.retryAfter = e.retry
  <1>1. Envelope(e, "production").own <=> ~(status >= 500)
    BY DEF Envelope
  <1>2. Envelope(e, "production").status = status 
    BY DEF Envelope
  <1>3. Envelope(e, "production").code = ResolveCode(e, status)
    BY DEF Envelope
  <1>4. Envelope(e, "production").details = Details(e, status)
    BY DEF Envelope
  <1>5. Envelope(e, "production").retryAfter = e.retry
    BY DEF Envelope
  <1>6. QED BY <1>1, <1>2, <1>3, <1>4, <1>5, Zenon

(* The code the status of an error that is no AppError becomes. *)
LEMMA StatusCodes ==
  /\ StatusCode(400) = "VALIDATION_ERROR"
  /\ StatusCode(401) = "UNAUTHORIZED"
  /\ StatusCode(403) = "FORBIDDEN"
  /\ StatusCode(404) = "NOT_FOUND"
  /\ StatusCode(409) = "CONFLICT"
  /\ StatusCode(429) = "RATE_LIMITED"
  /\ StatusCode(503) = "SERVICE_UNAVAILABLE"
  /\ \A status \in Nat \ {400, 401, 403, 404, 409, 429, 503} :
       StatusCode(status) = IF status >= 500 THEN "INTERNAL_ERROR" ELSE "VALIDATION_ERROR"
  <1>1. StatusCode(400) = "VALIDATION_ERROR"
    BY DEF StatusCode
  <1>2. StatusCode(401) = "UNAUTHORIZED"
    BY DEF StatusCode
  <1>3. StatusCode(403) = "FORBIDDEN"
    BY DEF StatusCode
  <1>4. StatusCode(404) = "NOT_FOUND"
    BY DEF StatusCode
  <1>5. StatusCode(409) = "CONFLICT"
    BY DEF StatusCode
  <1>6. StatusCode(429) = "RATE_LIMITED"
    BY DEF StatusCode
  <1>7. StatusCode(503) = "SERVICE_UNAVAILABLE"
    BY DEF StatusCode
  <1>8. ASSUME NEW status \in Nat \ {400, 401, 403, 404, 409, 429, 503}
        PROVE  StatusCode(status) = IF status >= 500 THEN "INTERNAL_ERROR" ELSE "VALIDATION_ERROR"
    BY DEF StatusCode
  <1>9. QED BY <1>1, <1>2, <1>3, <1>4, <1>5, <1>6, <1>7, <1>8

(* An error without a code gets one that means its status, or its class. *)
LEMMA StatusesMeant ==
  ASSUME NEW status \in Nat \ {0}
  PROVE  ContractStatus[Envelope(OtherError(status, {}), "production").code] =
           IF status \in KnownStatuses THEN status ELSE IF status < 500 THEN 400 ELSE 500
  <1>1. PICK code : /\ code = Envelope(OtherError(status, {}), "production").code
                    /\ code = StatusCode(status)
    BY DEF Envelope, OtherError, ResolveCode
  <1>2. KnownStatuses = {400, 401, 403, 404, 409, 429, 500, 503}
    BY StatusOf DEF KnownStatuses
  <1>3. CASE status \in {400, 401, 403, 404, 409, 429, 503}
    <2>1. ContractStatus[StatusCode(status)] = status
      BY <1>3, StatusOf, StatusCodes
    <2>2. ContractStatus[code] = IF status \in KnownStatuses THEN status
                                 ELSE IF status < 500 THEN 400 ELSE 500
      BY <1>1, <1>2, <1>3, <2>1
    <2>3. QED BY <1>1, <2>2, ZenonT(60)
  <1>4. CASE status \notin {400, 401, 403, 404, 409, 429, 503}
    <2>1. StatusCode(status) = IF status >= 500 THEN "INTERNAL_ERROR" ELSE "VALIDATION_ERROR"
      BY <1>4, StatusCodes
    <2>2. ContractStatus[StatusCode(status)] = IF status >= 500 THEN 500 ELSE 400
      BY <2>1, StatusOf
    <2>3. ContractStatus[code] = IF status \in KnownStatuses THEN status
                                 ELSE IF status < 500 THEN 400 ELSE 500
      BY <1>1, <1>2, <1>4, <2>2
    <2>4. QED BY <1>1, <2>3, ZenonT(60)
  <1>5. QED BY <1>3, <1>4

(* What a database error is mapped to, *)
LEMMA PrismaMapped ==
  ASSUME NEW k
  PROVE  MapPrismaError(k) \in
           {ConflictError("fields", "CONFLICT"), ConflictError("none", "CONFLICT"),
            NotFoundError("NOT_FOUND"), AppError(503, FALSE, "none", "SERVICE_UNAVAILABLE"),
            AppError(500, FALSE, "none", "INTERNAL_ERROR")}
  BY DEF MapPrismaError

(* What holds of an error that the code throws, *)
Thrown(e) ==
  /\ e.app /\ e.fields = {} /\ e.status \in {400, 401, 403, 404, 409, 429, 500, 503}
  /\ e.retry # 0 => e.status = 429

(* of one that stands for a database error, *)
LEMMA PrismaThrown ==
  ASSUME NEW k
  PROVE  Thrown(MapPrismaError(k))
  <1>1. Thrown(ConflictError("fields", "CONFLICT")) /\ Thrown(ConflictError("none", "CONFLICT"))
    BY DEF Thrown, AppError, ConflictError
  <1>2. Thrown(NotFoundError("NOT_FOUND"))
    BY DEF Thrown, AppError, NotFoundError
  <1>3. Thrown(AppError(503, FALSE, "none", "SERVICE_UNAVAILABLE"))
    BY DEF Thrown, AppError
  <1>4. Thrown(AppError(500, FALSE, "none", "INTERNAL_ERROR"))
    BY DEF Thrown, AppError
  <1>5. QED BY <1>1, <1>2, <1>3, <1>4, PrismaMapped, ZenonT(60)

(* and of every other. *)
LEMMA DomainThrown ==
  ASSUME NEW e \in DomainErrors
  PROVE  Thrown(e)
  <1>1. ASSUME NEW c PROVE Thrown(ValidationError(c))
    BY DEF Thrown, AppError, ValidationError
  <1>2. ASSUME NEW c PROVE Thrown(UnauthorizedError(c))
    BY DEF Thrown, AppError, UnauthorizedError
  <1>3. ASSUME NEW c PROVE Thrown(NotFoundError(c))
    BY DEF Thrown, AppError, NotFoundError
  <1>4. Thrown(ForbiddenError)
    BY DEF Thrown, AppError, ForbiddenError
  <1>5. Thrown(ConflictError("none", "CONFLICT"))
    BY DEF Thrown, AppError, ConflictError
  <1>6. Thrown(CircuitOpenError)
    BY DEF Thrown, AppError, CircuitOpenError
  <1>7. Thrown(CsrfDenied)
    BY DEF Thrown, AppError, CsrfDenied
  <1>8. Thrown(RateLimitError(30))
    BY DEF Thrown, RateLimitError, AppError
  <1>9. QED BY <1>1, <1>2, <1>3, <1>4, <1>5, <1>6, <1>7, <1>8, PrismaThrown DEF DomainErrors

(* Every error is answered as its status says (error-handler.ts). *)
LEMMA ErrorsAreHonest == ErrorsHonest
  <1>1. ASSUME NEW status \in 400 .. 599
        PROVE  ContractStatus[Envelope(OtherError(status, {}), "production").code] =
                 IF status \in KnownStatuses THEN status ELSE IF status < 500 THEN 400 ELSE 500
    BY StatusesMeant
  <1> DEFINE Fair(e) ==
         LET answer == Envelope(e, "production") IN
         /\ answer.status >= 500 => ~answer.own /\ answer.details = "none"
         /\ answer.status < 500 => answer.own
         /\ answer.retryAfter # 0 => answer.status = 429
  <1>2. ASSUME NEW e, NEW status \in Nat \ {0}, e.status = status \/ (e.status = 0 /\ status = 500),
               e.fields = {} \/ status < 500, e.retry # 0 => status = 429
        PROVE  Fair(e)
    <2>1. PICK answer :
            /\ answer = Envelope(e, "production") /\ answer.status = status
            /\ (answer.own <=> ~(status >= 500))
            /\ answer.details = Details(e, status) /\ answer.retryAfter = e.retry
      BY <1>2, InProduction
    <2>2. status >= 500 => Details(e, status) = "none"
      BY <1>2 DEF Details
    <2>3. /\ answer.status >= 500 => ~answer.own /\ answer.details = "none"
          /\ answer.status < 500 => answer.own
      BY <2>1, <2>2
    <2>4. answer.retryAfter # 0 => answer.status = 429
      BY <1>2, <2>1
    <2>5. QED BY <2>1, <2>3, <2>4
  <1>3. ASSUME NEW e \in DomainErrors PROVE Fair(e)
    <2>1. PICK status \in Nat \ {0} : status = e.status
      BY DomainThrown DEF Thrown
    <2>2. QED BY <1>2, <2>1, DomainThrown DEF Thrown
  <1>4. Fair(Bug)
    <2>1. Bug.status = 0 /\ Bug.fields = {} /\ Bug.retry = 0
      BY DEF Bug, OtherError
    <2>2. QED BY <1>2, <2>1
  <1>5. Fair(OtherError(400, {"email"}))
    <2>1. OtherError(400, {"email"}).status = 400 /\ OtherError(400, {"email"}).retry = 0
      BY DEF OtherError
    <2>2. QED BY <1>2, <2>1
  <1>6. Fair(OtherError(502, {}))
    <2>1. /\ OtherError(502, {}).status = 502 /\ OtherError(502, {}).retry = 0
          /\ OtherError(502, {}).fields = {}
      BY DEF OtherError
    <2>2. QED BY <1>2, <2>1
  <1>7. \A e \in DomainErrors \union {Bug, OtherError(400, {"email"}), OtherError(502, {})} : Fair(e)
    <2> HIDE DEF Fair
    <2>1. QED BY <1>3, <1>4, <1>5, <1>6
  <1>8. QED BY <1>1, <1>7, ZenonT(60) DEF ErrorsHonest

-----------------------------------------------------------------------------
(* Helpers: induction, in a form the provers can use, and paths *)

LessThan == {p \in Nat \X Nat : p[1] < p[2]}

(* The order of the naturals is well-founded. *)
LEMMA LessThanWellFounded == IsWellFoundedOn(LessThan, Nat)
  BY NatLessThanWellFounded, Zenon DEF OpToRel, LessThan

(* Induction, in the form that takes a set and no operator. *)
LEMMA SetInduction ==
  ASSUME NEW T, 0 \in T, \A n \in Nat : n \in T => n + 1 \in T
  PROVE  Nat \subseteq T
  <1> DEFINE rest == Nat \ T
  <1> SUFFICES ASSUME rest # {} PROVE FALSE
    OBVIOUS
  <1>1. PICK n \in rest : \A m \in rest : ~ (<<m, n>> \in LessThan)
    <2>1. rest \subseteq Nat
      OBVIOUS
    <2> HIDE DEF rest
    <2>2. QED BY <2>1, WFMin, LessThanWellFounded, Zenon
  <1>2. \A m \in rest : ~ (m < n)
    BY <1>1 DEF LessThan
  <1>3. n # 0
    OBVIOUS
  <1>4. n - 1 \in Nat /\ n - 1 \notin rest
    BY <1>2, <1>3
  <1>5. n - 1 + 1 = n
    OBVIOUS
  <1>6. QED BY <1>4, <1>5

(* The path after each name of a segment, from where it starts. *)
IsWalk(f, start, names) ==
  f = [i \in 0 .. Len(names) |-> IF i = 0 THEN start ELSE Enter(f[i - 1], names[i])]

Special == {"", ".", ".."}

(* Entering a name leaves a path of ordinary names. *)
LEMMA EnterType ==
  ASSUME NEW P, NEW path \in Seq(P \ Special), NEW name \in P
  PROVE  Enter(path, name) \in Seq(P \ Special)
  <1>1. CASE name \in {"", "."}
    BY <1>1 DEF Enter
  <1>2. CASE name = ".." /\ path = <<>>
    BY <1>2 DEF Enter
  <1>3. CASE name = ".." /\ path # <<>>
    BY <1>3 DEF Enter, Front
  <1>4. CASE name \notin Special
    <2>1. Enter(path, name) = Append(path, name)
      BY <1>4 DEF Enter, Special
    <2>2. name \in P \ Special
      BY <1>4
    <2>3. QED BY <2>1, <2>2, AppendProperties
  <1>5. QED BY <1>1, <1>2, <1>3, <1>4 DEF Special

(* There is a walk for any names: shown by induction on how many. *)
LEMMA WalkExists ==
  ASSUME NEW P, NEW start \in Seq(P \ Special), NEW names \in Seq(P)
  PROVE  \E f : IsWalk(f, start, names)
  <1> DEFINE l == Len(names)
             Q == Seq(P \ Special)
             Steps(n) == {f \in [0 .. n -> Q] :
                            f[0] = start /\ \A i \in 1 .. n : f[i] = Enter(f[i - 1], names[i])}
             T == {n \in Nat : n <= l => Steps(n) # {}}
  <1>1. l \in Nat /\ \A i \in 1 .. l : names[i] \in P
    BY LenProperties
  <1>2. \A path \in Q, i \in 1 .. l : Enter(path, names[i]) \in Q
    BY <1>1, EnterType
  <1> HIDE DEF Q, l
  <1>3. start \in Q
    BY DEF Q
  <1>4. 0 \in T
    <2>1. [i \in 0 .. 0 |-> start] \in Steps(0)
      BY <1>3
    <2>2. QED BY <2>1
  <1>5. ASSUME NEW n \in Nat, n \in T PROVE n + 1 \in T
    <2> SUFFICES ASSUME n + 1 <= l PROVE Steps(n + 1) # {}
      OBVIOUS
    <2>1. PICK f \in Steps(n) : TRUE
      BY <1>1, <1>5
    <2>2. PICK next : next = Enter(f[n], names[n + 1])
      OBVIOUS
    <2>3. next \in Q
      BY <1>1, <1>2, <2>1, <2>2
    <2> DEFINE g == [i \in 0 .. n + 1 |-> IF i = n + 1 THEN next ELSE f[i]]
    <2>4. g \in [0 .. n + 1 -> Q]
      BY <2>1, <2>3
    <2>5. g[0] = start
      BY <2>1
    <2>6. ASSUME NEW i \in 1 .. n + 1 PROVE g[i] = Enter(g[i - 1], names[i])
      <3>1. CASE i = n + 1
        BY <2>2, <3>1
      <3>2. CASE i # n + 1
        BY <2>1, <3>2
      <3>3. QED BY <3>1, <3>2
    <2> HIDE DEF g
    <2>7. g \in Steps(n + 1)
      BY <2>4, <2>5, <2>6
    <2>8. QED BY <2>7
  <1>6. l \in T
    <2> HIDE DEF T
    <2>1. QED BY <1>1, <1>4, <1>5, SetInduction
  <1>7. Steps(l) # {}
    <2> HIDE DEF Steps
    <2>1. QED BY <1>1, <1>6
  <1>8. PICK f : f \in Steps(l)
    <2> HIDE DEF Steps
    <2>1. QED BY <1>7
  <1>9. f = [i \in 0 .. l |-> IF i = 0 THEN start ELSE Enter(f[i - 1], names[i])]
    BY <1>1, <1>8
  <1>10. QED BY <1>9 DEF IsWalk, l

(* A walk enters one name after the other. *)
LEMMA WalkSteps ==
  ASSUME NEW P, NEW start \in Seq(P \ Special), NEW names \in Seq(P), NEW f, IsWalk(f, start, names)
  PROVE  /\ f[0] = start
         /\ \A i \in 1 .. Len(names) : f[i] = Enter(f[i - 1], names[i])
         /\ \A i \in 0 .. Len(names) : f[i] \in Seq(P \ Special)
  <1> DEFINE l == Len(names)
             Q == Seq(P \ Special)
             T == {n \in Nat : n <= l => f[n] \in Q}
  <1>1. l \in Nat /\ \A i \in 1 .. l : names[i] \in P
    BY LenProperties
  <1>2. \A path \in Q, i \in 1 .. l : Enter(path, names[i]) \in Q
    BY <1>1, EnterType
  <1>3. f = [i \in 0 .. l |-> IF i = 0 THEN start ELSE Enter(f[i - 1], names[i])]
    BY DEF IsWalk
  <1> HIDE DEF l
  <1>4. f[0] = start /\ \A i \in 1 .. l : f[i] = Enter(f[i - 1], names[i])
    BY <1>1, <1>3
  <1>5. start \in Q
    OBVIOUS
  <1> HIDE DEF Q
  <1>6. 0 \in T
    BY <1>4, <1>5
  <1>7. ASSUME NEW n \in Nat, n \in T PROVE n + 1 \in T
    BY <1>1, <1>2, <1>4, <1>7
  <1>8. Nat \subseteq T
    <2> HIDE DEF T
    <2>1. QED BY <1>6, <1>7, SetInduction
  <1>9. QED BY <1>1, <1>4, <1>8 DEF l, Q

(* Resolving a segment is the end of its walk, *)
LEMMA ResolveIs ==
  ASSUME NEW P, NEW base \in Seq(P \ Special), NEW segment, segment.names \in Seq(P)
  PROVE  \E f : /\ IsWalk(f, IF segment.absolute THEN <<>> ELSE base, segment.names)
                /\ Resolve(base, segment) = f[Len(segment.names)]
  <1>0. <<>> \in Seq(P \ Special)
    OBVIOUS
  <1>1. PICK start \in Seq(P \ Special) : start = IF segment.absolute THEN <<>> ELSE base
    BY <1>0, Zenon
  <1>2. PICK f0 : IsWalk(f0, start, segment.names)
    BY WalkExists
  <1> DEFINE f == CHOOSE f : f = [i \in 0 .. Len(segment.names) |->
                  IF i = 0 THEN IF segment.absolute THEN <<>> ELSE base
                  ELSE Enter(f[i - 1], segment.names[i])]
  <1>3. \E g : g = [i \in 0 .. Len(segment.names) |->
                  IF i = 0 THEN IF segment.absolute THEN <<>> ELSE base
                  ELSE Enter(g[i - 1], segment.names[i])]
    BY <1>1, <1>2, Zenon DEF IsWalk
  <1>4. f = [i \in 0 .. Len(segment.names) |->
                  IF i = 0 THEN IF segment.absolute THEN <<>> ELSE base
                  ELSE Enter(f[i - 1], segment.names[i])]
    BY <1>3, Zenon
  <1>5. Resolve(base, segment) = f[Len(segment.names)]
    BY Zenon DEF Resolve
  <1> HIDE DEF f
  <1>6. QED BY <1>4, <1>5, Zenon DEF IsWalk

(* hence a path of ordinary names. *)
LEMMA ResolveType ==
  ASSUME NEW P, NEW base \in Seq(P \ Special), NEW segment, segment.names \in Seq(P)
  PROVE  Resolve(base, segment) \in Seq(P \ Special)
  <1>0. <<>> \in Seq(P \ Special)
    OBVIOUS
  <1>1. PICK start \in Seq(P \ Special) : start = IF segment.absolute THEN <<>> ELSE base
    BY <1>0, Zenon
  <1>2. PICK f : IsWalk(f, start, segment.names) /\ Resolve(base, segment) = f[Len(segment.names)]
    BY <1>1, ResolveIs, Zenon
  <1>3. Len(segment.names) \in 0 .. Len(segment.names)
    BY LenProperties
  <1>4. QED BY <1>2, <1>3, WalkSteps

(* A path that needs no resolving is its own resolution. *)
LEMMA ResolveAgain ==
  ASSUME NEW P, NEW base \in Seq(P \ Special), NEW path \in Seq(P \ Special), NEW control
  PROVE  Resolve(base, [absolute |-> TRUE, control |-> control, names |-> path]) = path
  <1> DEFINE segment == [absolute |-> TRUE, control |-> control, names |-> path]
             l == Len(path)
  <1>1. segment.absolute /\ segment.names = path
    OBVIOUS
  <1>2. <<>> \in Seq(P \ Special) /\ path \in Seq(P) /\ l \in Nat
    BY LenProperties
  <1> HIDE DEF segment
  <1>3. PICK f : IsWalk(f, <<>>, path) /\ Resolve(base, segment) = f[l]
    BY <1>1, <1>2, ResolveIs
  <1>4. /\ f[0] = <<>>
        /\ \A i \in 1 .. l : f[i] = Enter(f[i - 1], path[i])
        /\ \A i \in 0 .. l : f[i] \in Seq(P \ Special)
    BY <1>2, <1>3, WalkSteps
  <1> DEFINE Q == Seq(P \ Special)
             T == {n \in Nat : n <= l => Len(f[n]) = n /\ \A i \in 1 .. n : f[n][i] = path[i]}
  <1> HIDE DEF l
  <1>5. 0 \in T
    BY <1>4
  <1>6. ASSUME NEW n \in Nat, n \in T PROVE n + 1 \in T
    <2> SUFFICES ASSUME n + 1 <= l
        PROVE  Len(f[n + 1]) = n + 1 /\ \A i \in 1 .. n + 1 : f[n + 1][i] = path[i]
      OBVIOUS
    <2>1. Len(f[n]) = n /\ \A i \in 1 .. n : f[n][i] = path[i]
      BY <1>2, <1>6
    <2>2. PICK name \in P \ Special : name = path[n + 1]
      BY <1>2 DEF l
    <2>3. PICK before \in Seq(P \ Special) : before = f[n]
      BY <1>2, <1>4
    <2>4. f[n + 1] = Append(before, name)
      <3>1. Enter(before, name) = Append(before, name)
        BY DEF Enter, Special
      <3>2. n + 1 \in 1 .. l /\ n + 1 - 1 = n
        BY <1>2
      <3>3. QED BY <1>4, <2>2, <2>3, <3>1, <3>2
    <2>5. /\ Len(Append(before, name)) = Len(before) + 1
          /\ \A i \in 1 .. Len(before) : Append(before, name)[i] = before[i]
          /\ Append(before, name)[Len(before) + 1] = name
      BY AppendProperties
    <2>6. QED BY <2>1, <2>2, <2>3, <2>4, <2>5
  <1>7. l \in T
    <2> HIDE DEF T
    <2>1. QED BY <1>2, <1>5, <1>6, SetInduction
  <1>8. Len(f[l]) = l /\ \A i \in 1 .. l : f[l][i] = path[i]
    BY <1>2, <1>7
  <1>9. f[l] = path
    <2>1. f[l] \in Seq(P \ Special)
      BY <1>2, <1>4
    <2>2. QED BY <1>8, <2>1, SeqEqual DEF l
  <1>10. QED BY <1>3, <1>9 DEF segment

(* A candidate inside a base begins with it. *)
LEMMA WithinIs ==
  ASSUME NEW P, NEW base \in Seq(P), NEW candidate \in Seq(P), IsWithin(candidate, base)
  PROVE  /\ \A i \in 1 .. Len(base) : i \in DOMAIN candidate /\ candidate[i] = base[i]
         /\ base = <<>> => candidate = <<>>
  <1>1. CASE candidate = base
    BY <1>1
  <1>2. CASE base # <<>> /\ IsPrefix(base, candidate)
    <2>1. /\ Len(base) \in Nat /\ Len(candidate) \in Nat /\ Len(base) <= Len(candidate)
          /\ SubSeq(base, 1, Len(base)) = SubSeq(candidate, 1, Len(base))
      BY <1>2, LenProperties DEF IsPrefix
    <2>2. ASSUME NEW i \in 1 .. Len(base)
          PROVE  i \in DOMAIN candidate /\ candidate[i] = base[i]
      <3>1. \A j \in 1 .. Len(base) : base[j] \in P /\ candidate[j] \in P
        BY <2>1
      <3>2. SubSeq(base, 1, Len(base))[i] = base[1 + i - 1]
        BY <2>1, <3>1, SubSeqProperties
      <3>3. SubSeq(candidate, 1, Len(base))[i] = candidate[1 + i - 1]
        BY <2>1, <3>1, SubSeqProperties
      <3>4. 1 + i - 1 = i /\ i \in DOMAIN candidate
        BY <2>1
      <3>5. QED BY <2>1, <3>2, <3>3, <3>4
    <2>3. QED BY <1>2, <2>2
  <1>3. QED BY <1>1, <1>2 DEF IsWithin

(* A path accepted for a segment stays inside the base directory, whatever *)
(* the directory, the number of names and the names: resolveWithinBase in  *)
(* paths.ts.                                                               *)
THEOREM StaysInsideAlways ==
  ASSUME NEW P, NEW base \in Seq(P \ Special), NEW segment, segment.names \in Seq(P)
  PROVE  StaysInside(base, segment)
  <1> DEFINE path == ResolveWithinBase(base, segment)
  <1> SUFFICES ASSUME path # Outside
      PROVE  /\ \A i \in 1 .. Len(base) : i \in DOMAIN path /\ path[i] = base[i]
             /\ \A i \in DOMAIN path : path[i] \notin {"", ".", ".."}
             /\ ~segment.control
             /\ ResolveWithinBase(base, [absolute |-> TRUE, control |-> FALSE, names |-> path]) = path
    BY Zenon DEF StaysInside
  <1>1. ~segment.control /\ path = Resolve(base, segment) /\ IsWithin(path, base)
    BY Zenon DEF ResolveWithinBase
  <1>2. path \in Seq(P \ Special)
    BY <1>1, ResolveType
  <1> HIDE DEF path
  <1>3. \A i \in 1 .. Len(base) : i \in DOMAIN path /\ path[i] = base[i]
    BY <1>1, <1>2, WithinIs
  <1>4. \A i \in DOMAIN path : path[i] \notin {"", ".", ".."}
    <2>1. \A i \in DOMAIN path : path[i] \in P \ Special
      BY <1>2
    <2>2. QED BY <2>1 DEF Special
  <1> DEFINE again == [absolute |-> TRUE, control |-> FALSE, names |-> path]
  <1>5. again.absolute /\ ~again.control
    OBVIOUS
  <1>6. Resolve(base, again) = path
    BY <1>2, ResolveAgain
  <1>7. ResolveWithinBase(base, again) = path
    <2> HIDE DEF again
    <2>1. QED BY <1>1, <1>5, <1>6, Zenon DEF ResolveWithinBase, IsEmpty
  <1>8. QED BY <1>1, <1>3, <1>4, <1>7

-----------------------------------------------------------------------------
(* Helpers: files and addresses *)

(* The type of each signature, read off. *)
LEMMA Types ==
  /\ DetectType("png") = "image/png" /\ DetectType("jpeg") = "image/jpeg"
  /\ DetectType("gif") = "image/gif" /\ DetectType("riffWebp") = "image/webp"
  /\ DetectType("pdf") = "application/pdf" /\ DetectType("zip") = "application/zip"
  /\ \A start : start \notin {"png", "jpeg", "gif", "riffWebp", "pdf", "zip"}
        => DetectType(start) = "unknown"
  BY DEF DetectType

(* What a verdict says of a file. *)
Vouches(file, options) ==
  LET verdict == ValidateFileContent(file, options) IN
  /\ verdict = "accepted" =>
       /\ file.size # 0 /\ file.size <= options.maxBytes /\ file.start \notin DangerousLeads
       /\ DetectType(file.start) \in options.allowed /\ DetectType(file.start) # "unknown"
       /\ options.declared = "none" \/ options.declared = DetectType(file.start)
  /\ verdict \in {"mismatch", "notAllowed"} => DetectType(file.start) # "unknown"
  /\ file.size > options.maxBytes /\ file.size # 0 => verdict = "tooLarge"

(* A file that is accepted is what it claims, for any file and options. *)
LEMMA VouchesAlways ==
  ASSUME NEW file, NEW options, file.size \in Nat, options.maxBytes \in Nat
  PROVE  Vouches(file, options)
  <1>1. PICK type : type = DetectType(file.start)
    OBVIOUS
  <1>2. QED BY <1>1 DEF Vouches, ValidateFileContent

(* In particular for those the run compares. *)
LEMMA FilesAreVouched == FilesVouched
  <1> SUFFICES ASSUME NEW start \in Starts, NEW size \in 0 .. 2,
                      NEW declared \in {"none", "image/png", "application/pdf"},
                      NEW allowed \in SUBSET {"image/png", "image/webp", "application/pdf"}
      PROVE  LET file == [start |-> start, size |-> size]
                 rules == [allowed |-> allowed, maxBytes |-> 1, declared |-> declared]
                 verdict == ValidateFileContent(file, rules)
             IN /\ verdict = "accepted" =>
                     /\ size = 1 /\ start \notin DangerousLeads
                     /\ DetectType(start) \in allowed
                     /\ declared = "none" \/ declared = DetectType(start)
                /\ verdict \in {"mismatch", "notAllowed"} => DetectType(start) # "unknown"
                /\ size = 2 => verdict = "tooLarge"
    BY DEF FilesVouched
  <1>1. PICK file : file = [start |-> start, size |-> size]
    OBVIOUS
  <1>2. PICK options : options = [allowed |-> allowed, maxBytes |-> 1, declared |-> declared]
    OBVIOUS
  <1>3. Vouches(file, options)
    BY <1>1, <1>2, VouchesAlways
  <1>4. /\ file.start = start /\ file.size = size /\ options.allowed = allowed
        /\ options.maxBytes = 1 /\ options.declared = declared
    BY <1>1, <1>2
  <1>5. PICK verdict : verdict = ValidateFileContent(file, options)
    OBVIOUS
  <1>6. /\ verdict = "accepted" =>
                     /\ size = 1 /\ start \notin DangerousLeads
                     /\ DetectType(start) \in allowed
                     /\ declared = "none" \/ declared = DetectType(start)
        /\ verdict \in {"mismatch", "notAllowed"} => DetectType(start) # "unknown"
        /\ size = 2 => verdict = "tooLarge"
    BY <1>3, <1>4, <1>5 DEF Vouches
  <1>7. QED BY <1>1, <1>2, <1>5, <1>6, Zenon

(* Labels that a host ends in, label by label from the last. *)
LEMMA SuffixIs ==
  ASSUME NEW S, NEW labels \in Seq(S), NEW host \in Seq(S), IsSuffix(labels, host)
  PROVE  /\ Len(labels) <= Len(host)
         /\ \A i \in 1 .. Len(labels) : host[Len(host) - i + 1] = labels[Len(labels) - i + 1]
  <1>1. Len(labels) \in Nat /\ Len(host) \in Nat
    BY LenProperties
  <1> DEFINE r == Reverse(labels)
             t == Reverse(host)
  <1>2. /\ r \in Seq(S) /\ Len(r) = Len(labels)
        /\ \A i \in 1 .. Len(labels) : r[i] = labels[Len(labels) - i + 1]
    BY <1>1 DEF Reverse
  <1>3. /\ t \in Seq(S) /\ Len(t) = Len(host)
        /\ \A i \in 1 .. Len(host) : t[i] = host[Len(host) - i + 1]
    BY <1>1 DEF Reverse
  <1>4. IsPrefix(r, t)
    BY DEF IsSuffix
  <1> HIDE DEF r, t
  <1>5. Len(r) <= Len(t) /\ SubSeq(r, 1, Len(r)) = SubSeq(t, 1, Len(r))
    BY <1>4 DEF IsPrefix
  <1>6. ASSUME NEW i \in 1 .. Len(labels) PROVE r[i] = t[i]
    <2>1. \A j \in 1 .. Len(r) : r[j] \in S /\ t[j] \in S
      BY <1>1, <1>2, <1>3, <1>5
    <2>2. SubSeq(r, 1, Len(r))[i] = r[1 + i - 1]
      BY <1>1, <1>2, <2>1, SubSeqProperties
    <2>3. SubSeq(t, 1, Len(r))[i] = t[1 + i - 1]
      BY <1>1, <1>2, <2>1, SubSeqProperties
    <2>4. 1 + i - 1 = i
      OBVIOUS
    <2>5. QED BY <1>5, <2>2, <2>3, <2>4
  <1>7. QED BY <1>1, <1>2, <1>3, <1>5, <1>6

(* The hosts an allowlist lets in. *)
LEMMA AllowedIs ==
  ASSUME NEW S, NEW host \in Seq(S), NEW entries, \A e \in entries : e.labels \in Seq(S),
         HostAllowed(host, entries)
  PROVE  \E e \in entries :
           \/ host = e.labels
           \/ /\ e.kind = "domain" /\ Len(e.labels) <= Len(host)
              /\ \A i \in 1 .. Len(e.labels) :
                   host[Len(host) - i + 1] = e.labels[Len(e.labels) - i + 1]
  <1>1. PICK e \in entries : host = e.labels \/ (e.kind = "domain" /\ IsSuffix(e.labels, host))
    BY DEF HostAllowed
  <1>2. e.labels \in Seq(S)
    OBVIOUS
  <1>3. QED BY <1>1, <1>2, SuffixIs

(* An address whose octets are a and b is refused exactly if it is in one  *)
(* of the blocks that the comments of ssrf.ts name, for all 65536 of them. *)
THEOREM BlocksExactly ==
  ASSUME NEW a \in 0 .. 255, NEW b \in 0 .. 255
  PROVE  IsPrivateIp(a, b)
           <=> \E block \in SpecialBlocks : block[1] <= a * 256 + b /\ a * 256 + b <= block[2]
  BY DEF IsPrivateIp, SpecialBlocks

(* The hosts and the entry of an allowlist that UrlsPublic names. *)
Example == <<"example", "com">>

Api == <<"api", "example", "com">>

Labels == {"api", "example", "com", "other", "db", "internal"}

(* The hosts of the run, read off. *)
LEMMA HostsAre ==
  /\ Example \in Seq(Labels) /\ Len(Example) = 2 /\ Example[1] = "example" /\ Example[2] = "com"
  /\ Api \in Seq(Labels)
  /\ <<"other", "com">> \in Seq(Labels) /\ Len(<<"other", "com">>) = 2
  /\ <<"other", "com">>[1] = "other"
  /\ <<"db", "internal">> \in Seq(Labels) /\ Last(<<"db", "internal">>) = "internal"
  <1>0. {"api", "example", "com", "other", "db", "internal"} \subseteq Labels
    BY DEF Labels
  <1>1. Example \in Seq(Labels) /\ Len(Example) = 2 /\ Example[1] = "example" /\ Example[2] = "com"
    BY <1>0 DEF Example
  <1>2. Api \in Seq(Labels)
    BY <1>0 DEF Api
  <1>3. <<"other", "com">> \in Seq(Labels) /\ Len(<<"other", "com">>) = 2
        /\ <<"other", "com">>[1] = "other"
    BY <1>0
  <1>4. <<"db", "internal">> \in Seq(Labels)
    BY <1>0
  <1>5. Last(<<"db", "internal">>) = "internal"
    BY DEF Last
  <1>6. QED BY <1>1, <1>2, <1>3, <1>4, <1>5

(* What an entry of the allowlist admits. *)
LEMMA AllowlistedIs ==
  ASSUME NEW host \in {Example, Api, <<"other", "com">>, <<"db", "internal">>},
         Last(host) # "internal", NEW entry, entry.labels = Example, HostAllowed(host, {entry})
  PROVE  host = Example \/ (entry.kind = "domain" /\ host = Api)
  <1>1. host \in Seq(Labels) /\ entry.labels \in Seq(Labels)
    BY HostsAre
  <1>2. \E e \in {entry} :
          \/ host = e.labels
          \/ /\ e.kind = "domain" /\ Len(e.labels) <= Len(host)
             /\ \A i \in 1 .. Len(e.labels) :
                  host[Len(host) - i + 1] = e.labels[Len(e.labels) - i + 1]
    BY <1>1, AllowedIs
  <1>3. \/ host = Example
        \/ /\ entry.kind = "domain"
           /\ \A i \in 1 .. Len(Example) : host[Len(host) - i + 1] = Example[Len(Example) - i + 1]
    BY <1>2
  <1>4. host # <<"db", "internal">>
    BY HostsAre
  <1>5. CASE host = <<"other", "com">> /\ host # Example
    <2>1. Len(host) = 2 /\ host[1] = "other"
      BY <1>5, HostsAre
    <2>2. 2 \in 1 .. 2 /\ 2 - 2 + 1 = 1
      OBVIOUS
    <2>3. host[1] = Example[1]
      BY <1>3, <1>5, <2>1, <2>2, HostsAre
    <2>4. QED BY <2>1, <2>3, HostsAre
  <1>6. QED BY <1>3, <1>4, <1>5

(* An accepted URL is public, or listed (url-safety rules of               *)
(* core/security).                                                         *)
LEMMA UrlsArePublic == UrlsPublic
  <1>1. ASSUME NEW a \in 0 .. 255,
               NEW b \in {0, 1, 15, 16, 31, 32, 63, 64, 127, 128, 167, 168, 169, 253, 254, 255}
        PROVE  IsPrivateIp(a, b)
                 <=> \E block \in SpecialBlocks : block[1] <= a * 256 + b /\ a * 256 + b <= block[2]
    <2>1. b \in 0 .. 255
      OBVIOUS
    <2>2. QED BY <2>1 DEF IsPrivateIp, SpecialBlocks
  <1>2. ASSUME NEW addresses \in SUBSET {<<10, 1>>, <<8, 8>>, <<172, 20>>, <<172, 40>>},
               NEW host \in {Example, Api, <<"other", "com">>, <<"db", "internal">>},
               NEW allowlists \in SUBSET {{[kind |-> kind, labels |-> Example]} :
                                             kind \in {"host", "domain"}},
               AcceptsUrl([protocol |-> "https:", credentials |-> FALSE, host |-> host], allowlists, addresses)
        PROVE  /\ addresses # {} /\ addresses \subseteq {<<8, 8>>, <<172, 40>>}
               /\ host # <<"db", "internal">>
               /\ allowlists # {} =>
                    \/ host = Example
                    \/ allowlists = {{[kind |-> "domain", labels |-> Example]}} /\ host = Api
    <2>1. /\ \A entries \in allowlists : HostAllowed(host, entries)
          /\ Last(host) \notin {"localhost", "internal", "local"}
          /\ addresses # {}
          /\ \A address \in addresses : ~IsPrivateIp(address[1], address[2])
      BY <1>2 DEF AcceptsUrl
    <2>2. addresses \subseteq {<<8, 8>>, <<172, 40>>}
      BY <2>1 DEF IsPrivateIp
    <2>3. host # <<"db", "internal">>
      BY <2>1, HostsAre
    <2>4. PICK whole : whole = [kind |-> "host", labels |-> Example]
      OBVIOUS
    <2>5. PICK below : below = [kind |-> "domain", labels |-> Example]
      OBVIOUS
    <2>6. /\ whole.kind = "host" /\ whole.labels = Example
          /\ below.kind = "domain" /\ below.labels = Example
      BY <2>4, <2>5
    <2>7. {whole} \in allowlists => host = Example
      BY <2>1, <2>6, AllowlistedIs
    <2>8. {below} \in allowlists => host = Example \/ host = Api
      BY <2>1, <2>6, AllowlistedIs
    <2>9. allowlists = {} \/ {whole} \in allowlists \/ allowlists = {{below}}
      <3>1. \A entries \in allowlists : entries = {whole} \/ entries = {below}
        BY <2>4, <2>5
      <3>2. PICK w, b : w = {whole} /\ b = {below}
        OBVIOUS
      <3>3. \A entries \in allowlists : entries = w \/ entries = b
        BY <3>1, <3>2
      <3>4. allowlists = {} \/ w \in allowlists \/ allowlists = {b}
        BY <3>3
      <3>5. QED BY <3>2, <3>4, Zenon
    <2>10. allowlists # {} => host = Example \/ (allowlists = {{below}} /\ host = Api)
      BY <2>7, <2>8, <2>9
    <2>11. QED BY <2>1, <2>2, <2>3, <2>5, <2>10
  <1>3. QED BY <1>1, <1>2, Zenon DEF UrlsPublic, Example, Api

(* In particular those the run compares. *)
LEMMA PathsAllStayInside == PathsStayInside
  <1> SUFFICES ASSUME NEW base \in Bases, NEW segment \in Segments
      PROVE  StaysInside(base, segment)
    BY DEF PathsStayInside
  <1> DEFINE P == {"a", "..", ".", "", "uploads", "uploads2", "srv"}
  <1>1. {"srv", "uploads"} \subseteq P \ Special
    BY DEF Special
  <1>2. base \in Seq(P \ Special)
    <2>1. PICK Q : Q = P \ Special /\ "srv" \in Q /\ "uploads" \in Q
      BY <1>1
    <2> HIDE DEF P
    <2>2. <<>> \in Seq(Q) /\ <<"uploads">> \in Seq(Q) /\ <<"srv", "uploads">> \in Seq(Q)
      BY <2>1
    <2>3. base \in Seq(Q)
      BY <2>2 DEF Bases
    <2>4. QED BY <2>1, <2>3
  <1>3. Names \subseteq P
    BY DEF Names
  <1> HIDE DEF P
  <1>4. segment.names \in Seq(P)
    <2>1. segment.names \in UNION {[1 .. n -> Names] : n \in 0 .. 3}
      BY DEF Segments
    <2>2. PICK n \in 0 .. 3 : segment.names \in [1 .. n -> Names]
      BY <2>1, Zenon
    <2>3. PICK g \in [1 .. n -> P] : g = segment.names
      BY <1>3, <2>2
    <2>4. n \in Nat
      OBVIOUS
    <2>5. g \in Seq(P)
      BY <2>4
    <2>6. QED BY <2>3, <2>5
  <1>5. QED BY <1>2, <1>4, StaysInsideAlways

-----------------------------------------------------------------------------
(* Everything without a state *)

(* Every page a client of the checked instance asks for adjoins the next.  *)
LEMMA PagesAllAdjoin == PagesAdjoin
  <1>1. ASSUME NEW page \in -1 .. 3, NEW size \in {-5, 0, 1, 2, 7, 100, 101, 1000},
               NEW total \in {0, 1, 2, 99, 100, 101, 201}
        PROVE  Adjoins(page, size, total)
    <2>1. page \in Int /\ size \in Int /\ total \in Nat
      OBVIOUS
    <2>2. QED BY <2>1, PagesAlwaysAdjoin
  <1>2. QED BY <1>1 DEF PagesAdjoin

(* Every pure helper agrees with its reference, and the pages of a walk    *)
(* over GET /users adjoin however many users there are: error-handler.ts,  *)
(* pagination.ts, paths.ts, file-validation.ts and ssrf.ts.               *)
THEOREM HelpersSafety == MCSpec => []HelpersAgree
  <1>1. MCInit => WalkInv
    BY WalkInitInv DEF MCInit
  <1>2. WalkInv /\ [MCNext]_<<vars, listVars, walking>> => WalkInv'
    <2> SUFFICES ASSUME WalkInv, [MCNext]_<<vars, listVars, walking>> PROVE WalkInv'
      OBVIOUS
    <2>1. CASE UNCHANGED listVars
      BY <2>1 DEF listVars, WalkInv
    <2>2. UserListNext \/ UNCHANGED listVars
      BY DEF MCNext
    <2>3. QED BY <2>1, <2>2, RegisterInv, ReadRowsInv, ReadTotalInv, AnswerInv DEF UserListNext
  <1>3. WalkInv => HelpersAgree
    <2> SUFFICES ASSUME WalkInv PROVE HelpersAgree
      OBVIOUS
    <2>1. PICK w \in Walks, all \in Seq(Nat) : walk = w /\ list = all
      BY DEF WalkInv
    <2>2. w.page \in Int /\ w.size \in Int /\ Len(all) \in Nat
      <3>1. w.page \in Nat \ {0} /\ w.size \in PageSizes
        BY DEF Walks
      <3>2. w.size \in Nat
        BY <3>1, UserListAssumption, Zenon
      <3>3. w.page \in Int
        BY <3>1
      <3>4. w.size \in Int
        BY <3>2
      <3>5. Len(all) \in Nat
        BY LenProperties, Zenon
      <3>6. QED BY <3>3, <3>4, <3>5, Zenon
    <2>3. Adjoins(walk.page, walk.size, Len(list))
      BY <2>1, <2>2, PagesAlwaysAdjoin
    <2>4. QED BY <2>3, ErrorsAreHonest, PagesAllAdjoin, PathsAllStayInside,
                 FilesAreVouched, UrlsArePublic, Zenon DEF HelpersAgree
  <1>4. QED BY <1>1, <1>2, <1>3, PTL DEF MCSpec
=============================================================================
