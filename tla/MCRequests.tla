----------------------------- MODULE MCRequests -----------------------------
(* Instances of Requests and of UserList, the handler of one of its routes, *)
(* and of the pure helpers.  A behaviour is either requests through the     *)
(* pipeline or a client that walks the list of users.                       *)
EXTENDS Requests, UserList, Helpers

VARIABLE walking   \* which of the two

MCInit ==
  /\ RequestsInit /\ UserListInit
  /\ walking \in BOOLEAN
  /\ IF walking THEN granted = {} ELSE list = <<>> /\ walk.order = "createdAt_asc" /\ walk.size = 1

MCNext ==
  /\ \/ ~walking /\ RequestsNext /\ UNCHANGED listVars
     \/ walking /\ UserListNext /\ UNCHANGED vars
  /\ UNCHANGED walking

MCSpec == MCInit /\ [][MCNext]_<<vars, listVars, walking>> /\ RequestsFairness

(* The replica alone is fair: Redis need not come back. *)
OutageSpec ==
  /\ MCInit /\ [][MCNext]_<<vars, listVars, walking>>
  /\ \A r \in Request :
       SF_vars(Limit(r)) /\ WF_vars(Body(r) \/ Guard(r) \/ Handle(r) \/ Respond(r))

(* Every pure helper agrees with its reference, over the inputs that tell  *)
(* its branches apart: error-handler.ts, pagination.ts, paths.ts,          *)
(* file-validation.ts and ssrf.ts.                                         *)
HelpersAgree ==
  /\ ErrorsHonest
  /\ PagesAdjoin /\ Adjoins(walk.page, walk.size, Len(list))
  /\ PathsStayInside /\ FilesVouched /\ UrlsPublic

(* "If Redis is unreachable, @fastify/rate-limit falls back to its in-memory *)
(* store automatically (fail-open - degraded enforcement, not an outage)"    *)
(* (app.ts:101-102): no request waits in the limiter for Redis.              *)
FailsOpen == \A r \in Request : request[r].stage = "limiter" ~> request[r].stage # "limiter"

(* "The OpenAPI spec reflects every failure an endpoint can return"         *)
(* (endpoint.ts:7-8): whichever stage of the pipeline ends the request of a *)
(* route with a contract, the route's schema documents the status.          *)
FailuresDocumented ==
  \A r \in Request :
    request[r].stage = "answered" /\ request[r].op \in Contracted =>
      request[r].status \in RouteResponses(Contract(request[r].op))
=============================================================================
