------------------------------- MODULE Errors -------------------------------
(***************************************************************************)
(* core/errors and the global error handler: which status, code, message   *)
(* and details an error is answered with.                                  *)
(***************************************************************************)
EXTENDS Integers, FiniteSets

(* ERROR_CODE_STATUS: what the contracts say a code's status is. *)
ContractStatus ==
  LET invalid == {"VALIDATION_ERROR", "OTP_INVALID", "OTP_EXPIRED"}
      unauthorized == {"UNAUTHORIZED", "INVALID_CREDENTIALS", "TOKEN_MISSING", "TOKEN_INVALID",
                       "TOKEN_EXPIRED", "TOKEN_REVOKED"}
      limited == {"RATE_LIMITED", "ACCOUNT_LOCKED"}
      others == {"FORBIDDEN", "NOT_FOUND", "CONFLICT", "SERVICE_UNAVAILABLE", "INTERNAL_ERROR"}
  IN [c \in invalid \union unauthorized \union limited \union others |->
        CASE c \in invalid -> 400
          [] c \in unauthorized -> 401
          [] c = "FORBIDDEN" -> 403
          [] c = "NOT_FOUND" -> 404
          [] c = "CONFLICT" -> 409
          [] c \in limited -> 429
          [] c = "SERVICE_UNAVAILABLE" -> 503
          [] c = "INTERNAL_ERROR" -> 500]

KnownStatuses == {ContractStatus[c] : c \in DOMAIN ContractStatus}

(* An AppError; "retry" is the RateLimitError's hint, 0 if there is none.  *)
AppError(status, operational, details, code) ==
  [app |-> TRUE, status |-> status, operational |-> operational, details |-> details,
   code |-> code, fields |-> {}, retry |-> 0]

ValidationError(code) == AppError(400, TRUE, "none", code)

UnauthorizedError(code) == AppError(401, TRUE, "none", code)

ForbiddenError == AppError(403, TRUE, "none", "FORBIDDEN")

NotFoundError(code) == AppError(404, TRUE, "none", code)

ConflictError(details, code) == AppError(409, TRUE, details, code)

RateLimitError(retry) == [AppError(429, TRUE, "none", "RATE_LIMITED") EXCEPT !.retry = retry]

CircuitOpenError == AppError(503, TRUE, "none", "SERVICE_UNAVAILABLE")

CsrfDenied == AppError(403, TRUE, "none", "CSRF_FAILED")

(* Any other error: of Fastify (its status, the fields ajv rejected) or of *)
(* a bug (no status).                                                      *)
OtherError(status, fields) ==
  [app |-> FALSE, status |-> status, operational |-> FALSE, details |-> "none",
   code |-> "none", fields |-> fields, retry |-> 0]

Bug == OtherError(0, {})

(* What Prisma throws, as repositories see it. *)
PrismaErrors ==
  {"P2002", "P2002WithoutColumns", "P2025", "P2003", "P2014",
   "anotherCode", "initialization", "panic", "validation"}

MapPrismaError(kind) ==
  CASE kind = "P2002" -> ConflictError("fields", "CONFLICT")
    [] kind = "P2002WithoutColumns" -> ConflictError("none", "CONFLICT")
    [] kind = "P2025" -> NotFoundError("NOT_FOUND")
    [] kind \in {"P2003", "P2014"} -> ConflictError("none", "CONFLICT")
    [] kind \in {"initialization", "panic"} -> AppError(503, FALSE, "none", "SERVICE_UNAVAILABLE")
    [] OTHER -> AppError(500, FALSE, "none", "INTERNAL_ERROR")

StatusCode(status) ==
  CASE status = 400 -> "VALIDATION_ERROR"
    [] status = 401 -> "UNAUTHORIZED"
    [] status = 403 -> "FORBIDDEN"
    [] status = 404 -> "NOT_FOUND"
    [] status = 409 -> "CONFLICT"
    [] status = 429 -> "RATE_LIMITED"
    [] status = 503 -> "SERVICE_UNAVAILABLE"
    [] OTHER -> IF status >= 500 THEN "INTERNAL_ERROR" ELSE "VALIDATION_ERROR"

ResolveCode(error, status) ==
  IF error.app THEN error.code
  ELSE IF error.fields # {} THEN "VALIDATION_ERROR" ELSE StatusCode(status)

Details(error, status) ==
  IF error.app /\ status < 500 /\ error.details # "none" THEN error.details
  ELSE IF error.fields # {} THEN "fields" ELSE "none"

(* The handler's answer; "own" is whether the client sees the error's own  *)
(* message.                                                                *)
Envelope(error, environment) ==
  LET status == IF error.status = 0 THEN 500 ELSE error.status IN
  [status |-> status, code |-> ResolveCode(error, status),
   own |-> ~(status >= 500 /\ environment = "production"),
   details |-> Details(error, status), retryAfter |-> error.retry]

NotFoundAnswer ==
  [status |-> 404, code |-> "NOT_FOUND", own |-> TRUE, details |-> "none", retryAfter |-> 0]

(* Every domain error that the code throws. *)
DomainErrors ==
  {ValidationError(c) : c \in {"VALIDATION_ERROR", "OTP_INVALID", "TOKEN_INVALID"}} \union
  {UnauthorizedError(c) : c \in {"UNAUTHORIZED", "INVALID_CREDENTIALS", "TOKEN_MISSING",
                                 "TOKEN_INVALID", "TOKEN_EXPIRED", "TOKEN_REVOKED"}} \union
  {NotFoundError(c) : c \in {"NOT_FOUND", "USER_NOT_FOUND"}} \union
  {ForbiddenError, ConflictError("none", "CONFLICT"), RateLimitError(30), CircuitOpenError,
   CsrfDenied} \union
  {MapPrismaError(k) : k \in PrismaErrors}

(* An error that carries no code of its own is answered with the one that  *)
(* means its status or, when no contract knows the status (413, 415, 502), *)
(* its class, never with a code that means another status.  In production  *)
(* a 5xx keeps its message and its details to itself while every other     *)
(* answer tells them, and only a 429 carries the limiter's hint.           *)
ErrorsHonest ==
  /\ \A status \in 400 .. 599 :
       ContractStatus[Envelope(OtherError(status, {}), "production").code] =
         IF status \in KnownStatuses THEN status ELSE IF status < 500 THEN 400 ELSE 500
  /\ \A e \in DomainErrors \union {Bug, OtherError(400, {"email"}), OtherError(502, {})} :
       LET answer == Envelope(e, "production") IN
         /\ answer.status >= 500 => ~answer.own /\ answer.details = "none"
         /\ answer.status < 500 => answer.own
         /\ answer.retryAfter # 0 => answer.status = 429
=============================================================================
