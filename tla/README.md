# Fastify master app: models and proofs

TLA+ models of this repository, the TLC instances that check them, and TLAPS
proofs that their safety properties hold for every size of the tables and any
number of users, requests, jobs and processes.

Every definition is written from the source under `src/`; `PROJECT.json` ("map")
gives the lines each one models.

- `tlc -workers 2 -config MCSessions_sessions.cfg MCSessions` runs one instance
- `tlapm SessionsProofs.tla` checks the proofs of one component

## 1. Inventory

The repository is a TypeScript monorepo: a Fastify API (`apps/api`) with a
worker process, over PostgreSQL (Prisma) and Redis (BullMQ), a React admin
client (`apps/admin`) and the contracts they share (`packages/api-contracts`).
Several replicas of the API run against one database. A replica's own state is
its circuit breakers, its metrics, the requests it is serving and its progress
through start and shutdown; everything else is rows, jobs and counters.

| Component | State | Operations | Hard part | Correct when | Modelled in |
|---|---|---|---|---|---|
| Accounts and login sessions (`auth.routes.ts`) | `users` (hash, failure counter, lock), `refresh_tokens` | register, login, refresh, log-out, log-out everywhere, change password | sequences of single statements without a transaction; copies judged after an `await`; replies lost | ended sessions stay ended; reuse ends the family; a password change ends every session | `Sessions`, `SessionLedger` |
| One-time codes and recovery (`auth-recovery.routes.ts`, `otp.service.ts`) | `otp_challenges`, `password_reset_tokens`, `users.emailVerifiedAt` | resend, verify e-mail, forgot password, verify reset code, confirm | the same, plus an attempt limit kept in a row and two purposes sharing one service | a code or token is good once; nothing is verified or reset without its own code | `Recovery` |
| Roles and permissions (`roles.service.ts`, `roles.routes.ts`, `authorization.service.ts`) | `roles`, `role_permissions`, `user_roles`, `users.permissionVersion` | create, update, replace permissions, delete, assign | checks outside the transaction that relies on them; READ COMMITTED | who lacks the rank gives and takes nobody's; a super administrator always remains | `Roles` |
| Audit log (`audit.service.ts`) | `audit_log` rows | inserted in the roles transactions | computed from lists read earlier | names what really changed | part of `Roles` |
| RBAC seed, grant script, registry (`prisma/seed.ts`, `scripts/grant-admin.mjs`, `rbac.ts`) | the same tables, the first administrator | upserts in a long sequence of awaits | dies anywhere, runs beside another seed and the API's edits | a seed that ends well left everything in place and took nothing away | `RoleCatalog`, `Seed` |
| Orchestration (`base-orchestrator.ts`) | a context object per request | stages with their own and a common timeout | a timed-out operation goes on running | the answer agrees with what was done | `Todos` |
| Todos and notifications (`todos.orchestrator.ts`, `queue/`, `workers/`) | `todos`, the Redis queue | create, enqueue, process, retry, dead-letter | at-least-once delivery, worker death, answer lost | every job ends; nobody is told of a todo that is not stored | `Todos`, `TodoPromise` |
| Process lifecycle (`server.ts`, `workers/index.ts`) | signals, open requests, the deadline | start, drain, close hooks, forced exit, crash | second signal, hung hook, request in flight | always exits; a clean exit leaves nobody unanswered | `Runtime` |
| Circuit breaker (`circuit-breaker.ts`) | a breaker per service name in the process | fire, open, half-open, close | calls of an earlier state end in a later one; the first caller's closure is kept | a failing service is left alone; a trial is always decided | `Breaker` |
| Readiness (`health.routes.ts`) | none of its own | probe of database, Redis, lag, breakers | an unrouted replica makes no calls | the replica comes back when all works again | `Readiness` |
| Request guards and hooks (`app.ts`, `plugins/`, `core/authorization/`) | limiter counters in Redis, the gauge of requests in progress | refuse, count, answer | permissions change under a request; Redis away | only the entitled are served; all are answered and counted | `Requests` |
| Errors, contracts (`core/errors`, `error-handler.ts`, `api-contracts`) | none | map an error to an answer | four paths to a code | an error without a code gets the one of its status; production keeps 5xx to itself | `Errors`, `Contracts` |
| User list (`users.routes.ts`, `pagination.ts`) | none | page arithmetic, two queries per page | users register between queries and pages | a walk misses nobody | `UserList` |
| Paths, files, outbound URLs (`core/security`) | none | accept or refuse | boundaries | agree with the rules in their comments | `Helpers` |
| Admin client (`auth.store.ts`, `use-current-user.ts`, `use-login.ts`, `header.tsx`) | persisted session store, query cache | log in, log out, load the current user, reload | late answers across a change of operator | the permissions shown are the operator's | `AdminClient` |
| Secrets, mailer, tracing, tooling | none that decides anything | - | - | - | not modelled (section 8) |

How they interact. All API components meet in the database: `users` is written
by sessions, recovery (verification, new password) and roles
(`permissionVersion`), each touching columns of its own except the password and
the failure counter, which `/password-reset/confirm` and the session handlers
both write; `Sessions` therefore contains that write and its sweep, and
`Recovery` contains everything up to it. The seed and the roles handlers write
the same role tables. The todo pipeline enqueues on the queue the worker
consumes; `Runtime` extends `Todos` because a process that ends cuts its
pipelines off. `Readiness` extends `Breaker` because an open breaker decides
whether the replica is routed to, and routing whether the breaker is called.
Every HTTP request goes through the hooks of `Requests`, whose answers come from
`Errors`; its route for `GET /users` has `UserList` as its handler. The client
talks to all of them over HTTP.

## 2. Modules and the code they model

An `MC...` module and its `.cfg` give a component an instance. `MCSessions`,
`MCRecovery` and `MCRoles` have a variable `alone`, chosen at the start: whether
requests overlap freely or follow one another; what the code promises only
without overlap is stated under it. `MCRequests` chooses in the same way
(`walking`) between requests through the hooks and a client walking the user
list. A `...Proofs` module has the theorems of a component (section 5);
`Ranking` has the order two of them count down in.

### Sessions

State: `account` (the `users` row: password, hash format, `failedLoginAttempts`,
`lockedUntil` in the future or not), the `refresh_tokens` table as `owner`,
`family`, `revoked`, `expired`, and `request`, what each handler under way is
about to do and the copies it holds. `parent`, `openedWith` and `reused` are
history: no action reads them in a guard.

The handlers use no transaction. One action is one awaited Prisma statement
together with the synchronous code up to the next `await`:

| Handler | Actions |
|---|---|
| `POST /login` | `LoginWrong`, `LoginFail` / `LoginRight`, `LoginReset`, `OpenSession` |
| `POST /register` | `RegisterRead`, `RegisterCreate`, `OpenSession` |
| `POST /refresh` | `RefreshAccept`, `RefreshRevoke`, `RefreshIssue` / `RefreshReuse`, `ReuseSweep` |
| `POST /logout`, `/logout-all` | `Logout`, `LogoutAll` |
| `POST /change-password` | `ChangeRead`, `ChangeSet`, `SweepUser` |
| end of `/password-reset/confirm` | `ConfirmRead`, `ConfirmSet`, `SweepUser` |
| time | `TokenExpires`, `LockExpires` |
| death of a replica, query timeout (`db.ts:49`) | `CutOff`, `Lost` |

`CutOff` makes a handler an orphan: nobody waits any more for the statement it
has sent, which the database may still run (the handler then ends) or lose.
Argon2 and bcrypt are a comparison of model values; what is kept of a hash is
whether its format is the old one, because that decides the rewrite in
`LoginReset`. A failure counter above the limit behaves like the limit, so it
saturates there.

`SessionLedger` is what this machinery is for: a session is opened once, for
one user, may be closed, and never opens again. `Sessions!ImplementsLedger`
is the refinement: a family without tokens is an unused session, one with a
usable token or an exchange under way is open, any other is closed.

### Recovery

State: `holder`, `purpose`, `attempts`, `consumed`, `expired` (the
`otp_challenges` rows, numbered by `createdAt`), `tokenUser`, `spent`, `lapsed`
(`password_reset_tokens`), `verified`, and `request`; `accepts`, `origin` and
`resets` are history. Actions are statements as in `Sessions`:

| Code | Actions |
|---|---|
| `/resend-verification`, `/forgot-password`, `OtpService.generate` | `ResendVerification`, `ForgotPassword`, `GenerateSweep`, `GenerateCreate` |
| `OtpService.verify` for `/verify-email` and `/password-reset/verify` | `VerifyStale`, `VerifyBurn` / `VerifyWrong`, `VerifyCount` / `VerifyRight`, `VerifyAccept` |
| the rest of these two routes | `MarkVerified`; `IssueReset` |
| `/password-reset/confirm` | `ConfirmRead`, `ConfirmConsume`, `ConfirmSet` |
| time, death, timeout | `ChallengeExpires`, `TokenLapses`, `CutOff`, `Lost` |

Whether a submitted code is the right one is a choice of the action. Expiry is
per row and in any order, because every replica stamps `expiresAt` with its own
clock.

### Roles

State: `fresh`, `deleted` (which role rows are not there yet or no more),
`grants` (`role_permissions`), `members` (`user_roles`); `bumped` and `logged`,
the users whose `permissionVersion` the last step incremented and the assignment
entries it wrote to the audit log; `request`; and the history `vouched`.

A handler first checks, on rows read one after the other, and then writes in
one interactive transaction, which PostgreSQL runs at READ COMMITTED. An action
is one such read, the statement of the transaction that decides which rows it
deletes, or the commit with all its writes:

| Handler | Actions |
|---|---|
| `POST /roles` | `CreateRole`, `CreateActor`, `CreateCommit` |
| `PATCH /roles/:id` with permissions | `UpdateRole`, `UpdateActor`, `UpdateLock`, `ReplaceSweep`, `ReplaceHolders`, `ReplaceCommit` |
| `PUT /roles/:id/permissions` | `SetRolePermissions`, `SetActor`, then as above |
| `DELETE /roles/:id` | `DeleteRole`, `DeleteHolders`, `DeleteCommit` |
| `PUT /users/:id/roles` | `SetUserRoles`, `AssignActor`, `AssignRead`, `AssignCount`, `AssignSweep`, `AssignCommit` |
| rollback, timeout, death | `Abandon` |

What READ COMMITTED does is in four places. `UpdateLock`, `DeleteCommit` wait
for the row lock of a `PATCH`. `Commit` takes the rows it deleted out of what
other transactions had found to delete (a deleted row is skipped, an equal row
inserted again is not found). The two commits that insert roll back on an equal
row that is still there (primary key) and on a role that is gone (foreign key).
`CascadeMembers` is `ON DELETE CASCADE`. Where two successive reads of a handler
are one action, a role can only disappear between them, and the handler then
ends without a write in either order.

### Todos, TodoPromise, Runtime

`Todos` state: `task`, a request's pipeline stage, its answer, and what became
of its two operations (the insert, the enqueueing), which outlive the stage that
started them; `rows`, `jobs`, `dead` (what the worker logged as dead-lettered),
`worker`, `redis`, `api`; `late` and `faults` are history.

| Code | Actions |
|---|---|
| `POST /todos`, `validate-input` | `Post` |
| `createTodo` stage: sent, committed, answered, rejected | `Insert`, `InsertReturns`, `InsertFails` |
| `notifyCreation` stage: `Queue.add` | `Enqueue`, `AddReturns`, `AddFails` |
| `runWithTimeout`, `runPipelineWithTimeout` | `StageTimesOut`, `PipelineTimesOut` |
| `buildResult`, the critical flag, the route's 400 | `Built`, `StageFails` |
| worker: processor, `completed`, `failed` listeners | `Take`, `Process`, `Complete`, `AttemptFails`, `Listen`, `BackoffEnds`, `Stalled` |
| `workers/index.ts` | `WorkerSignalled`, `WorkerCloses`, `WorkerDies`, `WorkerStarts` |
| Redis connection | `RedisDrops`, `RedisReturns` |

`TodoPromise` is the promise behind it: a row is stored once, a client is told
once, "created" only of a stored row, and notifications are about stored rows.
`KeepsPromise` is the refinement.

`Runtime` adds `phase`, `timer`, `exit`: `Serve`, `StartFails`,
`SignalWhileLoading` for the start (loading secrets is part of it); `Signal`,
`CloseStep` (the hooks in the order Fastify runs them), `ExitCleanly`,
`CloseFails`, `ForceExit`, `Tick`, `Crash` for the end.

### Breaker, Readiness

`breaker` is the map of `circuit-breaker.ts`, `call` each call under way, `up`
whether a service works. `Fire` and `Refuse` are `withCircuitBreaker` on an
admitting and on an open breaker, `Returns`, `Fails`, `LateEnd` the ends of the
function, `HalfOpen` and `WindowSlides` opossum's timers. `Readiness` adds the
handler of `GET /ready` (`Ask`, `DatabaseSays`, `Answer`) and the kubelet that
calls it (`GiveUp`, `Verdict`); a request reaches a breaker only while `routed`.

### Requests, Errors, Contracts

`Requests` has one route for each shape of pipeline. `Arrive` is the CORS,
metrics and CSRF hooks, `Limit` the rate limiter, `Body` and `Checked` the body,
`authenticate` and the schema, `Guard` `requirePermission`, `requireAny`,
`requireAll`, `requireRolePermission` and `requireOwnership`, `Handle` the
handler, `Respond` the response hook. `Regrant` is another request changing the
caller's permissions. `Errors` has the error classes, `mapPrismaError`, the
resolution of codes and the envelope; `Contracts` the endpoint table, the schema
made of it, and the guards of the routes. The route `roles.list` has the pipeline
of `GET /admin/db-metrics` too.

### UserList, Helpers

`UserList`: the two queries of one page (`ReadRows`, `ReadTotal`, in either
order), the client's `Answer`, `Register` beside them, and the page arithmetic
as operators. `Helpers`: `resolveWithinBase`, `validateFileContent`,
`assertSafeUrl` as operators over path components, leading signatures, host
labels and two octets of an address; a path is the sequence of its names, the
root the empty one.

### RoleCatalog, Seed

`RoleCatalog`: the permission registry and the role definitions. `Seed`: one
action per await of `prisma/seed.ts` (`SeedPermission`, `UpsertRole`,
`ReadLinks`, `CreateLinks`, `Refuse`, `FindAdmin`, `CreateAdmin`,
`AssignSuperAdmin`), `Crash` between any two, `Start` again; `Grant` is
`grant-admin.mjs`; `Edit`, `Dismiss`, `Register` the API beside them. A script
of an older deployment has a smaller registry.

### AdminClient

`store` (with `setSession`, `setPermissions`, `clearSession`), `cache` and
`fetches` (the query for the current user), `login`, `logouts`: `Submit`,
`LoginSucceeds`, `LoginFails`, `Answered`, `Failed`, `GoesStale`, `Collected`,
`Navigate`, `Reload`, `LogoutClick`, `LogoutEnds`. `settled` is history.

### External parts

Code that is not in the repository is modelled from how it is used here and
marked external: opossum's state machine, its window counted in whole calls;
BullMQ's job states, stalled check and retries; ioredis, which with
`maxRetriesPerRequest: null` keeps commands until the connection is back and
sends unacknowledged ones again; TanStack Query's one fetch per key, stale time
and garbage collection; the kubelet's thresholds; the script of
`@fastify/rate-limit` and the hook of `@fastify/cors`; PostgreSQL's unique
indexes, foreign keys and READ COMMITTED.

### Variant operators

An operator marked `mutant` in a comment is a variant of the definition that
follows it, with the kind of slip a change to the code could introduce (a
missing guard, an off-by-one, a forgotten write). `PROJECT.json` ("mutants")
pairs each with the property that notices it. `Next` uses none of them.

## 3. Runs

| Run | Instance | Distinct states | Checks |
|---|---|---|---|
| `sessions` | 2 users, 3 tokens, 2 families, 2 passwords, 2 requests, both hash formats, every operation, cut-offs; `alone`: wrong passwords of one account at a time | 243,613 | `TypeOK`, `FamilyHasOneOwner`, `ExchangedTokensRevoked`, `ImplementsLedger`, `UpgradesBounded`; under `alone` `Undisturbed` (rotation, reuse, password changes) |
| `lockout` | 1 user, 3 requests, login only, limit 3 | 26,942 | `PersistentFailuresLock` |
| `recovery` | 2 users, 2 challenges, 1 reset token, 2 requests, limit 2, cut-offs | 1,800,328 | `TypeOK`, `ExhaustedIsBurnt`, `VerifiedByOwnCode`, `ResetEarned`; under `alone` `SingleUse` |
| `roles` | 2 users, SUPER_ADMIN, 1 custom role, 2 requests | 707,052 | `TypeOK`, `RestrictedVouched`, `RankGuarded`, `ReplacedWhole`; under `alone` `AdministratorRemains`, `ChangesRecorded` |
| `todos` | 1 request, 1 worker, 2 jobs, 3 attempts, 1 fault, deadline 1 | 85,144 | `RuntimeTypeOK`, `OutcomesHonest`, `RepeatedOnlyAfterFault`, `KeepsPromise`, `CleanExitAnswersAll`, `RequestsAnswered`, `JobsFinish`, `ShutdownEnds` |
| `cut_off` | 1 service, 2 calls, threshold 50 %, window of 3 | 378,240 | `BreakersSound`, `FailingServiceIsCutOff`, `ReplicaReturns` |
| `one_tab` | 3 operators with different permissions, 2 links, 2 log-outs under way | 739 | `ClientSound`, `OwnStaysOwn`, `OwnInTheEnd` |
| `seed` | 2 scripts, one of an older registry, 2 keys, 2 roles | 406,054 | `DoneIsComplete`, `OperatorsChoiceKept` |
| `requests` | 2 connections, limit 1; or a walk over at most 4 users in pages of 1 to 3 | 140,903 | `OnlyEntitled`, `CountedInProgress`, `Answered`, `WalkMissesNobody`, `HelpersAgree` |
| `last_administrator`, `password_sweep_race`, `next_operator` | the operations named | counterexample | section 6 |

The states are those up to symmetry. A few properties are conjunctions of
related ones, each commented where it is defined: `Undisturbed`, `SingleUse`,
`ChangesRecorded`, `OutcomesHonest`, `BreakersSound`, `ClientSound`,
`HelpersAgree`.

What holds without `alone` holds whatever interleaves and wherever a request is
cut off. What is stated under `alone` is what comments and documents of the
repository promise and what holds for any sequence of requests that do not
overlap, however long; this separates "the logic is wrong" from "the logic needs
a transaction". Where overlap breaks one of them, section 6 says so.
`UpgradesBounded` and `RankGuarded` say how far it breaks two: what a stale write
can do whoever overlaps, and no more. The
overlapping half of `sessions` is about one account, leaves wrong passwords to
`lockout` (where the counter matters) and resets to the password changes they
end like; the other half has both accounts, one of which at a time has failures
counted against it; the theorems of section 5 have none of these bounds. The
overlapping half of `recovery` has the requests of one user. In `roles` both
halves have the same instance; what several custom roles confer together is in
the theorems, which are about any number.

Bounds and why they suffice.
- Two requests: every hazard listed is one handler's read, another's write, the
  first one's write. `lockout` has three, so that stale counters can come back
  more than once.
- Three tokens in two families: a chain of two exchanges beside a second
  session, or two successors of one token. `TokensLeft` lets a handler that
  will issue a token start only while the pool has one for it; it bounds the
  instance and models nothing of the code. Challenges and reset tokens are
  bounded in the same way.
- Limits of 1, 2 or 3 in place of 5: below the limit, at it, and a stale write
  back below it. `Again` counts history as none, one or several.
- Permission lists in `roles`: everything, nothing restricted, and one with an
  unknown key, which is all the code tells apart.
- `todos`: requests do not share state but the queue, so one request and two jobs
  (a command that is sent again adds a second) meet retries, shutdown and
  stalled jobs; three attempts are those of the code; `MaxFaults` bounds
  connection losses and deaths, which the properties count or survive.
- `cut_off`: with a window of three fires the percentages 0, 33, 50, 66 and 100
  occur, on both sides of the threshold. `MaxFires` bounds the window, not the
  behaviour: the window slides for ever.
- `seed`: two keys, one of which the older registry lacks, and the first and the
  last role, so that the loops have a middle to die in.
- `requests`: `MaxHits` 1 is a counter below, at and beyond its limit.

Symmetry: users, tokens, families, passwords and requests are interchangeable
in every definition, as are custom roles (SUPER_ADMIN is fixed); challenges are
numbers and not permuted. No run that checks a liveness property uses symmetry.

Deadlock is checked except where the system really may stop: in the runs of
`MCRoles` (when no assigned role confers role management any more, nobody can
change anything), in `todos` (the process has ended and its jobs are done) and
in `requests` (a walk over the list ends).

## 4. Fairness

| Run | Assumed | Because |
|---|---|---|
| `sessions`, `recovery`, `roles`, `seed` | nothing | clients need not call, handlers and scripts may be cut off anywhere |
| `lockout` | nothing | the property states its premise: failures keep being counted and nothing clears the counter |
| `todos` | weak: the stage timers, the processing and reporting of a job a worker has, backoff, the exit of a closing worker and its restart, reconnection, the deadline and its timer; strong: taking a waiting job, recovering a stalled one | timers are set before the operation starts and never cleared while it is awaited; BullMQ and ioredis go on for ever. Strong because a rollout may restart workers again and again, so that a running one is there again and again but not all the time |
| `cut_off` | weak: probes, ends of calls, reset timers, the rolling window; strong: the probe's answer, requests to a routed replica | the kubelet's period; opossum's timers; an answer is possible again and again when Redis comes and goes |
| `one_tab` | weak: fetches end, data goes stale; strong: a fetch succeeds, a log-out's answer, navigation | a request ends in an answer or an error; `OwnInTheEnd` is about operators who stay and open pages |
| `requests` | weak: each later stage, reconnection; strong: the limiter's command | queries and bodies end; commands wait in ioredis and are sent when Redis is back |

No operation is assumed to succeed on the way: the insert, the enqueueing and
the notification may fail or never answer, and `RequestsAnswered` rests on the
stage timers alone.

`PersistentFailuresLock` says that if failed logins go on being counted for ever
and from some time on nothing clears the counter, the account is locked again
and again. The premise is met by infinite behaviours of the run. The counter is
written from stale copies and can go down; the property says that this cannot
go on for ever.

## 5. Proofs

Each `*Proofs` module extends the component it is about. The theorems assume
only the named assumption on the constants of that component: the "none" values
are not members of the sets, limits are positive, system roles are roles, keys
are registered ones. Beyond that sets may be empty, of any size, infinite; TLC
evaluates the assumptions in every run. Two assumptions say something about the
code: `BreakerAssumption` has at least one service, and `SeedAssumption` has
role definitions that are system roles with SUPER_ADMIN among them and a first
deployment whose registry was not empty. Three theorems have a hypothesis on a
constant. `CutOff` has `Threshold < 100`: a breaker opens when the percentage of
failures exceeds the threshold, so at 100 it never opens and the property is
false. `LockIsDelayedOnly` and `GuessesRunOut` have finitely many requests
(`IsFiniteSet(Request)`), of which they count those under way.

Safety theorems are about the specification with its fairness and do not use it.

**SessionsProofs.** `Invariance` proves `Inv`, which adds to the type invariant
and the two safety properties what makes them inductive: `RowsComplete` and
`RowsMarked` (a row has a user exactly when it has a family; only rows that
exist are revoked or expire) and `HandlersReady`. The last is the heart of the
argument: what a handler holds between two statements. `ExchangedTokensRevoked`
alone is not inductive, because a handler at `refresh.issue` is about to make
its token a parent; `HandlersReady` says that this token is already revoked.
Since rows are never deleted and `revokedAt` never cleared, no other request can
take that away. From `Inv`: `TypeCorrect`, `FamilyOwnerSafety`, `ExchangeSafety`.
`Refinement` proves `Spec => ImplementsLedger`: an
initial state maps to an initial state; opening a session maps to `Open`; a
statement that ends families maps to `Close` of the set of them, because one
`updateMany` may end many; everything else stutters. An ended family has no
usable token to accept and no handler that would issue one, and no action adds to
either, so nothing that is closed is opened. `UpgradesAreBounded`
proves `UpgradesBounded` under every interleaving. The false sentence is that a
login never changes the password (section 6); what is true needs `Upgrading`: a
login that will rewrite the hash was sent the password the account had when it
read the row, so it can only write another if the account no longer has a hash
of the old format, and a new login that found it so does not rewrite it
(`UpgradersStep`). Two more theorems say what overlap cannot do. `ExchangesAreBounded`:
two refreshes may exchange one token, but once it is revoked none joins those
that found it usable before, and each of them makes one successor.
`LockIsDelayedOnly`: the failure counter is written from stale copies, so it can
go back below the limit again and again; `Patience` has, for every level the
counter has passed, the copies that may still take it back there, and each
failure that leaves the account unlocked makes it smaller in the order of
`Ranking`, comparing the lowest level first. Only a login, a reset or the
registration makes it larger. `RanksRunOut` proves that order well-founded for
every limit, by induction on the limit. Together they are the safety half of
`PersistentFailuresLock`, for any finite number of requests.

**RecoveryProofs.** `Inv` adds `UnissuedUnused` and `HandlersReady` to the type
invariant and three safety properties. Rows only accumulate (`Grows`), so what a
handler has established about its challenge or token survives other requests;
in particular a copied counter is below the limit when the copy was judged, so
the value written back is at most the limit, and reaches it only in the write
that also burns the challenge. From it: `TypeCorrect`, `AttemptsSafety`,
`VerificationSafety`, `ResetSafety`. `GuessesRunOut` is the counterpart of
`LockIsDelayedOnly` for the codes, where nothing ever restores what is left: a
challenge can be guessed at only finitely often, whatever overlaps.
`OverlapIsBounded`: once a challenge is consumed or a reset token spent, nobody
joins those who found it good before, and each of them uses it once.

**RolesProofs.** `HandlersReady` says of each label which checks are behind it:
past `assertCanDelegatePermissions` a request carries a list its caller could
delegate, and past `MayChange` an assignment of SUPER_ADMIN comes from a super
administrator or keeps what the request read as the user's roles. `vouched` only
grows, so that stays true while other requests commit, and `TypeCorrect` and
`DelegationSafety` hold under every interleaving. So do two action properties.
`RankSafety`: a step that changes who is a super administrator is an assignment
(`MembersStep`, `AssignmentWrites`) and its request has passed `MayChange`, on the
list it read; without overlap that list is the table's (`Late`), and the caller has
the rank. `ReplacementSafety`: the sweep writes nothing before the commit, and the
commit writes all of the replacement. `OverlapIsBounded`: while somebody is the only super
administrator, nobody newly passes the check of the last one, so the role can be
lost only to an assignment that had passed it while there were two.

**Requests that follow one another.** The same three modules prove what is
stated under `alone`, of `MCSpec` (in `MCSessions`, whose `MCSpec` bounds what is
run, of the wider `OrderSpec`): any sequence of requests about any number of
users, tokens, challenges and roles, of which a new one starts only when no
other is handled (`Sequential`). The strengthening, `AloneInv`, is what overlap
destroys: what a handler has read is still so when it writes.

| Theorem | What has been read and still holds |
|---|---|
| `SessionsProofs!UndisturbedSafety` | `StillTrue`: a login's copy of the hash is the account's; the token to be exchanged is the only usable one of its family, has no successor, its family was not reused, and its session was opened with the present password |
| `RecoveryProofs!SingleUseSafety` | `Untouched`: the challenge or reset token a handler judged has not been accepted or used meanwhile, and a sweep has left no active challenge where one is to be inserted |
| `RolesProofs!AdministratorSafety`, `RecordSafety`, the parts of `RankSafety` and `ReplacementSafety` under `alone` | `Late`: the other super administrators that were counted still are; the lists of roles and holders from which the bump and the audit entries are computed are those in the tables |

Without `alone` the runs `password_sweep_race` and `last_administrator` refute
two of them, so the premise is needed. In `MCSessions`, where a request that is
cut off leaves a statement behind it, following one another includes that nobody
is cut off; what interrupted requests leave behind is in the theorems before.

**RuntimeProofs.** The invariant ties a request's record to the tables it writes
(`TasksKept`): what is known of the insert at each stage, that a known todo is
stored, that a "created" answer has the enqueueing behind it unless a timer was
faster (`late`), and that the queue has a job of a request exactly if the
enqueueing was sent and arrived. `JobsKept` says the same of a job's attempts,
its worker and, while nothing has failed, its runs; `OneJobEach` that without
faults no command is sent twice. `OutcomesHonest` and `RepeatedOnlyAfterFault`
follow (`Outcomes`, `NoRepeats`). `AnsweredBeforeClosing` adds the process:
requests are accepted exactly while it serves, and past draining every one is
answered; so a clean exit leaves nobody waiting (`CleanExit`). `PromiseKept`
proves the refinement of `TodoPromise`: the insert maps to the abstract store,
the answer that reaches a client to its being told, the first run of a job to
the notification; timers, retries, deaths and signals stutter.

**ReadinessProofs.** For `BreakersSafety`, `HalfOpenMovesOn` is inductive
with the types and `WaitingKnown`, although calls fired in an earlier state end in
this one and are counted: every end closes or opens the breaker. For `CutOff` two
facts count: `FailuresCounted` (as long as nothing has succeeded,
the fires of the window that are not failures are calls still under way) and
`NotYetOpen` (a service that has only failed and whose breaker is closed has
calls under way). When the last of them fails, all of the window are failures
and the percentage is 100.

**SeedProofs.** `Progress` says what a seed has done by the time it waits where
it waits: the permissions before its loop counter are rows, the roles before it
are complete but for what an edit took away while this seed ran, and what it is
about to link is all that is missing. Every other actor only adds rows, or
takes something away and is then remembered in `stripped` or `dismissed`.
`SeedCompletes` is the end of that; `ChoiceKept` uses it too, because what a
seed links must be of its definition of the role.

**RequestsProofs.** `Vouched` says per stage of the pipeline which guards are
behind a request, with `held` the permissions seen since it arrived; a lemma per
stage shows that what the stage makes of the request `Follows`. From it
`Entitled`. `Counted` has for each gauge a finite set of requests with that many
members; arrivals add one, responses remove one (`CountedExactly`, for
infinitely many connections too). `WalkComplete`: before each page the client
has seen every user it should who is now on an earlier row (`PagesSeen`), since
registrations only push rows towards later pages; the page arithmetic is in the
lemmas `Quotient` and `PagesHold`.

Of the pure helpers the run compares samples with their references
(`HelpersAgree`), which `HelpersSafety` repeats for a walk of any length, since the
page in question is a walk's: production keeps 5xx to itself (`ErrorsAreHonest`),
accepted files are what they claim, accepted URLs are public or listed, paths stay
inside. The theorems worth reading have no samples: where the run has some, `PagesAlwaysAdjoin` and `BlocksExactly` say it for all integers and all
addresses, and `StaysInsideAlways` for every base directory and every segment of
any names: `Resolve` is a recursive function, and that it has the value it is
defined by is proved by induction on the number of names (`WalkExists`). The
library's induction theorems cannot be instantiated here. `SetInduction` does
the same without them, from the statement of `WellFoundedInduction` that every
set of naturals has a least element; it is behind `RanksRunOut` too.

In these modules the guards of a definition exclude each other (`IF` chains
rather than overlapping `CASE` arms), because the value of a `CASE` with two
true arms is not determined and nothing could be proved of it.

**AdminClientProofs.** `OwnFromHere`: once the operator's own request was
answered, all that can still reach the store is theirs, the cached data and the
one fetch under way (`OneFetch`). `OwnPermissions` follows; `StoreSafety` needs
only that every way to lose the session empties the store.

What is only model-checked. Liveness is beyond the prover's reach
(`PersistentFailuresLock`, `RequestsAnswered`, `JobsFinish`, `ShutdownEnds`,
`ReplicaReturns`, `OwnInTheEnd`, `Answered`); of the first, the measure that
decreases is proved (`LockIsDelayedOnly`, `RanksRunOut`). The action properties
about overlap and about what is left of a limit (`ExchangesEnd`, `RacesEnd`,
`LastIsGuarded`, `PatienceRunsOut`, `AttemptsRunOut`) are only proved: a run
could but repeat them for two or three requests. What section 6 refutes
has no theorem.

## 6. Where the code and its comments part

Three of these are runs whose counterexample is a behaviour of the code.

- `password_sweep_race`: "Revoke all sessions" (`auth.routes.ts:363`). A login
  or refresh that read its rows before the change inserts its token after the
  sweep; the session survives the password change.
- `last_administrator`: "Don't allow removing the final SUPER_ADMIN in the
  system" (`roles.service.ts:282`). The others are counted outside the
  transaction; two removals may each count the other's target.
- `next_operator`: "the sidebar hides links the caller can't use"
  (`sidebar.tsx:7`). The current-user answer is cached under one key for
  everybody; the next operator of a tab starts with the previous one's.

Seven more have an instance beside the runs: a configuration and the property it
refutes. `tlc -config MCRoles_stale_rank.cfg MCRoles`, for one, prints the
behaviour of the code.

- `MCRoles_stale_rank.cfg`, `OnlySuperAdmins`: "Only a SUPER_ADMIN may grant or
  remove the SUPER_ADMIN role" (`roles.service.ts:272`). The rule is judged on
  the target's roles as they were before the transaction, which then deletes
  whatever the target has: a caller without the rank removes a SUPER_ADMIN that
  was given meanwhile, or gives back one that was taken meanwhile. `RankGuarded`
  says that nothing worse happens.
- `MCRoles_missed_bump.cfg`, `HoldersBumped`: "Bump permissionVersion for every
  user assigned the given role" (`roles.service.ts:391`). A user assigned the
  role between the query for its holders and the commit is missed.
- `MCSessions_legacy_upgrade.cfg`, `PasswordChangedOnPurpose`: "Transparently
  upgrade legacy/weaker password hashes" (`auth.routes.ts:109`). A login that
  read a legacy hash writes the old password back over one that was set
  meanwhile. `UpgradesBounded` says that each such login does so at most once.
- `MCReadiness_timed_out_call.cfg`, `TimeoutAborts`: "an AbortSignal that fires
  when the breaker's timeout elapses" (`circuit-breaker.ts:75`; also line 18 and
  REQ-103). It fires only for calls that an open breaker refuses, which were
  never started; a call that timed out runs on.
- `MCReadiness_first_caller.cfg`, `RunsItsOwn`: "Run `fn` through the named
  circuit breaker" (`circuit-breaker.ts:75`). A breaker keeps the closure and
  the options of its first caller and runs them for every later one. Nothing in
  the repository calls `withCircuitBreaker` yet.
- `MCRequests_documented_failures.cfg`, `FailuresDocumented`: "the OpenAPI spec
  reflects every failure an endpoint can return" (`endpoint.ts:7`). The schemas
  have the codes that contracts list. They lack the 403 of the CSRF hook (the
  run's trace), the limiter's 429, the 400 of schema validation (of
  `auth.resendVerification`, say) and every 500, wherever the contract does not
  happen to list a code of that status. The routes of `roles.routes.ts` document
  successes only: not even the 401, 403, 404 and 409 of their contracts.
- `MCRequests_limiter_waits.cfg`, `FailsOpen`: "falls back to its in-memory
  store automatically (fail-open - degraded enforcement, not an outage)"
  (`app.ts:101`; REQ-101). With `maxRetriesPerRequest: null` (`redis.ts:22`) the
  limiter's command waits until Redis is back, and so does the request;
  `Answered` therefore assumes that it comes back.

Under overlap, for the same reasons as these races: a token is exchanged
twice, a reset token used twice (although `otp.service.ts` says it "is marked
consumed atomically"), two requests for a code leave two active, a code is
accepted twice, concurrent wrong passwords or codes count once, a refresh
accepted before a reuse sweep survives it, and audit entries may differ from what
changed. Dropping `alone` from
`Undisturbed`, `SingleUse` or `ChangesRecorded` shows each of them.

Others, met while modelling; they need no interleaving or are outside what the
properties say:

- Breaker. An open third-party breaker takes the replica out of
  rotation, `/ready` being all or nothing.
- Readiness. The event-loop histogram is never reset, so one bad phase can keep
  the lag high long after.
- Metrics. A preflight is answered before the hook that raises the gauge, and
  lowers it all the same.
- Todos. An administrator asking for a missing todo gets a 500: the ownership
  guard returns before it looks (`ownership.ts:22`) and the handler reads the
  missing row (`todos.routes.ts:116`).
- Answers. `reset-password` answers 400 with `TOKEN_INVALID`, whose contract
  says 401 (a code means its status everywhere else); `USER_NOT_FOUND` is no code of
  the contracts; a duplicate registration answers 400 where the contract lists
  `CONFLICT`; nothing throws `ACCOUNT_LOCKED`; 413 and 415 get
  `VALIDATION_ERROR`; the guards' own refusals carry no code.
- Seed. It refuses to run in production only after it has written permissions
  and roles (`seed.ts:179`); of two first seeds the unique address may fail one.
- User list. Rows and total of a page are two queries: when users register
  between them a walk newest-first may stop a page early; equal sort keys have
  no defined order.
- Client. A late answer to a second log-out ends the session of whoever has
  logged in since; a 401 never clears the session. No
  property is about this: `OwnInTheEnd` speaks of operators who stay logged in.
- Registration stores an address as typed, recovery looks it up in lower case.
- `refresh_tokens`, `otp_challenges` and `password_reset_tokens` only grow: the
  clean-up the requirements ask for is not in the code.

## 7. Plan

Every component whose state decides something has its module, and every safety
property of the runs has its theorem. What is left:

1. Measures like those of section 5 for the other liveness properties: the
   attempts left to a job, the stages left to a request.
2. The step from a measure to its liveness property is a rule about well-founded
   orders and ENABLED that the prover does not have; it stays with TLC.

## 8. Not modelled, and why

- Secrets and environment: straight-line start-up code that exits on an error;
  `Runtime!StartFails` is that exit.
- Mailer: only logs. Whether a code arrives is whether somebody submits it.
- Logs, traces, metrics other than the gauge of requests in progress: they
  observe.
- Tooling (dashboards, generators, the load test, deployment files): does not
  run with the program. Of the deployment, the readiness probe's thresholds are
  in `Readiness`.
- Orders, example, index and root routes: no logic. The forms, tables and the
  role editor of the client: presentation over single requests.
- Hashes, UUIDs, tokens and codes as strings: hashing is a comparison, a UUID
  never returns, and codes of different challenges are taken to be different.
  Encoding a cursor and formatting dates have no property here.
- The access token is its role and whether there is one; its life beyond its
  session is why the guards read permissions anew (`OnlyEntitled`).
- Permission rows in `Roles`: the registry is taken as provisioned, which is
  what `Seed!DoneIsComplete` gives. A description-only `PATCH` of a role changes
  nothing modelled. A role name used again after a deletion is another role.
- URLs, IPv6 and file names as strings: `Helpers` has the decisions, not the
  parsing. Field schemas are the validator's.
- Per-route rate limits and the list of CORS origins: one limit, and origins as
  listed or not.
