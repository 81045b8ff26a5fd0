------------------------------ MODULE Contracts ------------------------------
(***************************************************************************)
(* The endpoint contracts of packages/api-contracts, the Fastify schema    *)
(* made of them, and the guards and errors of the routes that use them.    *)
(***************************************************************************)
EXTENDS Errors, RoleCatalog

Public(operationId, method, success, errors) ==
  [operationId |-> operationId, method |-> method, auth |-> "public", permission |-> "none",
   success |-> success, errors |-> errors]

Private(operationId, method, success, errors) ==
  [operationId |-> operationId, method |-> method, auth |-> "required", permission |-> "none",
   success |-> success, errors |-> errors \union {"UNAUTHORIZED"}]

Guarded(operationId, method, permission, success, errors) ==
  [operationId |-> operationId, method |-> method, auth |-> "required", permission |-> permission,
   success |-> success, errors |-> errors \union {"UNAUTHORIZED", "FORBIDDEN"}]

AuthContracts ==
  {Public("auth.register", "POST", 201, {"VALIDATION_ERROR", "CONFLICT", "RATE_LIMITED"}),
   Public("auth.login", "POST", 200, {"INVALID_CREDENTIALS", "VALIDATION_ERROR", "RATE_LIMITED"}),
   Public("auth.refresh", "POST", 200, {"TOKEN_MISSING", "TOKEN_INVALID", "TOKEN_EXPIRED", "TOKEN_REVOKED"}),
   Public("auth.logout", "POST", 200, {}),
   Private("auth.logoutAll", "POST", 200, {}),
   Private("auth.verify", "GET", 200, {}),
   Private("auth.changePassword", "POST", 200, {"VALIDATION_ERROR"}),
   Public("auth.verifyEmail", "POST", 200, {"OTP_INVALID", "VALIDATION_ERROR"}),
   Public("auth.resendVerification", "POST", 200, {"RATE_LIMITED"}),
   Public("auth.forgotPassword", "POST", 200, {"RATE_LIMITED"}),
   Public("auth.verifyResetOtp", "POST", 200, {"OTP_INVALID", "VALIDATION_ERROR"}),
   Public("auth.resetPassword", "POST", 200, {"TOKEN_INVALID", "VALIDATION_ERROR"})}

RbacContracts ==
  {Guarded("roles.list", "GET", "roles.read", 200, {}),
   Guarded("roles.create", "POST", "roles.create", 201, {"CONFLICT", "VALIDATION_ERROR"}),
   Guarded("roles.get", "GET", "roles.read", 200, {"NOT_FOUND"}),
   Guarded("roles.update", "PATCH", "roles.update", 200, {"NOT_FOUND", "VALIDATION_ERROR"}),
   Guarded("roles.setPermissions", "PUT", "roles.update", 200, {"NOT_FOUND", "VALIDATION_ERROR"}),
   Guarded("roles.delete", "DELETE", "roles.delete", 200, {"NOT_FOUND", "CONFLICT"}),
   Guarded("permissions.list", "GET", "permissions.read", 200, {}),
   Guarded("userRoles.get", "GET", "users.roles.read", 200, {"NOT_FOUND"}),
   Guarded("userRoles.set", "PUT", "users.roles.update", 200, {"NOT_FOUND", "VALIDATION_ERROR"})}

UserContracts ==
  {Guarded("users.list", "GET", "users.read", 200, {"VALIDATION_ERROR"}),
   Private("users.me", "GET", 200, {"NOT_FOUND"})}

TodoContracts ==
  {Private("todos.create", "POST", 201, {"VALIDATION_ERROR"}),
   Private("todos.list", "GET", 200, {}),
   Guarded("todos.get", "GET", "todos.read", 200, {"NOT_FOUND"}),
   Public("todos.health", "GET", 200, {})}

ExampleContracts ==
  {Private("examples.list", "GET", 200, {}),
   Private("examples.create", "POST", 201, {"VALIDATION_ERROR"})}

ApiContracts ==
  AuthContracts \union RbacContracts \union UserContracts \union TodoContracts
    \union ExampleContracts

Contract(op) == CHOOSE c \in ApiContracts : c.operationId = op

(* The statuses that the schema made of a contract documents. *)
Documented(c) ==
  {c.success} \union {ContractStatus[e] : e \in c.errors \intersect DOMAIN ContractStatus}

(* The routes of roles.routes.ts take the success schemas only. *)
RouteResponses(c) == IF c \in RbacContracts THEN {c.success} ELSE Documented(c)

(* preValidation: [fastify.authenticate]. *)
Authenticated(c) ==
  \/ c \in RbacContracts \union UserContracts \union ExampleContracts
  \/ c.operationId \in {"auth.logoutAll", "auth.verify", "auth.changePassword",
                        "todos.create", "todos.list", "todos.get"}

(* The permission requirePermission is given: the contract's, except that  *)
(* todos.get asks the role matrix and the todo's owner instead.            *)
Enforced(c) == IF c.operationId = "todos.get" THEN "none" ELSE c.permission
=============================================================================
