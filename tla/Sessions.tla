------------------------------ MODULE Sessions ------------------------------
(***************************************************************************)
(* Accounts and login sessions of the API: the "users" and                 *)
(* "refresh_tokens" tables and the handlers of auth.routes.ts that write   *)
(* them, with the last part of /password-reset/confirm.                    *)
(*                                                                         *)
(* Every handler is a sequence of single awaited Prisma statements and no  *)
(* transaction, so other requests (of this replica or another one) run     *)
(* between any two of them.  One action is one statement together with the *)
(* synchronous code up to the next await; what a handler read earlier is   *)
(* kept in its request record.  A handler answering 4xx on what it read    *)
(* changes no row and is not a step.                                       *)
(***************************************************************************)
EXTENDS Naturals, FiniteSets

CONSTANTS
  User,               \* e-mail addresses: at most one account each
  Token,              \* refresh-token UUIDs; the size bounds the tokens ever issued
  Family,             \* family UUIDs; the size bounds the logins
  Password,           \* plaintext passwords
  Request,            \* requests being handled at the same time
  NoUser, NoToken, NoFamily, NoPassword,
  MaxFailedAttempts,  \* MAX_FAILED_ATTEMPTS
  Operations,         \* the handlers clients call in this instance
  Legacy,             \* hash formats found in the table: TRUE is a bcrypt hash
  Faults              \* whether requests may be cut off between statements

ASSUME SessionsAssumption ==
  /\ NoUser \notin User
  /\ NoToken \notin Token
  /\ NoFamily \notin Family
  /\ NoPassword \notin Password
  /\ MaxFailedAttempts \in Nat \ {0}
  /\ Legacy \subseteq BOOLEAN
  /\ Faults \in BOOLEAN

VARIABLES
  account,     \* users table: account[u], with password NoPassword when absent
  owner,       \* refresh_tokens.userId; NoUser when there is no such row
  family,      \* refresh_tokens.family
  revoked,     \* rows with revokedAt set
  expired,     \* rows whose expiresAt has passed
  request,     \* what each handler is about to do, and what it holds
  parent,      \* history: the token this one was exchanged for
  openedWith,  \* history: the password that opened the session
  reused       \* history: families in which reuse was detected and swept

table == <<owner, family, revoked, expired>>
history == <<parent, openedWith, reused>>
vars == <<account, table, request, history>>

-----------------------------------------------------------------------------
(* Rows *)

Accounts ==
  [password : Password \union {NoPassword}, legacy : BOOLEAN,
   failed : 0..MaxFailedAttempts, locked : BOOLEAN]

NoAccount ==
  [password |-> NoPassword, legacy |-> FALSE, failed |-> 0, locked |-> FALSE]

NewAccount(p, l) == [NoAccount EXCEPT !.password = p, !.legacy = l]

Registered(u) == account[u].password # NoPassword

Issued == {t \in Token : owner[t] # NoUser}

(* A token /refresh accepts. *)
Usable == Issued \ (revoked \union expired)

TokensOf(u) == {t \in Token : owner[t] = u}

TokensIn(f) == {t \in Token : family[t] = f}

(* refreshToken.create: crypto.randomUUID() never returns a value again. *)
InsertToken(t, u, f, from) ==
  /\ t \in Token \ Issued
  /\ owner' = [owner EXCEPT ![t] = u]
  /\ family' = [family EXCEPT ![t] = f]
  /\ parent' = [parent EXCEPT ![t] = from]
  /\ UNCHANGED <<revoked, expired>>

(* refreshToken.update / updateMany setting revokedAt. *)
Revoke(T) ==
  /\ revoked' = revoked \union T
  /\ UNCHANGED <<owner, family, expired>>

-----------------------------------------------------------------------------
(* Requests.  pc names the statement the handler is waiting to run. *)

Labels ==
  {"idle", "login.fail", "login.reset", "register.create", "issue",
   "refresh.revoke", "refresh.issue", "reuse.sweep",
   "change.set", "confirm.set", "sweep"}

Requests ==
  [pc : Labels, orphan : BOOLEAN, user : User \union {NoUser},
   token : Token \union {NoToken}, password : Password \union {NoPassword},
   failed : 0..MaxFailedAttempts, rehash : BOOLEAN]

IdleRequest ==
  [pc |-> "idle", orphan |-> FALSE, user |-> NoUser, token |-> NoToken,
   password |-> NoPassword, failed |-> 0, rehash |-> FALSE]

Idle(r) == request[r].pc = "idle"

At(r, label) == request[r].pc = label

(* A request of user u starts and will run the statement at label next. *)
Begin(r, label, u, p) ==
  /\ Idle(r)
  /\ request' = [request EXCEPT ![r] =
       [IdleRequest EXCEPT !.pc = label, !.user = u, !.password = p]]

Finish(r) == request' = [request EXCEPT ![r] = IdleRequest]

(* The statement returned: go on, unless nobody is waiting for it. *)
Continue(r, label) ==
  IF request[r].orphan THEN Finish(r)
  ELSE request' = [request EXCEPT ![r].pc = label]

(* Bound on the instance: a handler that will issue a token starts only    *)
(* while the pool has one more than the handlers under way will take.      *)
Issuing == {r \in Request : request[r].pc \in
              {"login.reset", "register.create", "issue",
               "refresh.revoke", "refresh.issue"}}

TokensLeft == Cardinality(Issuing) < Cardinality(Token \ Issued)

FreshFamilies == {f \in Family : TokensIn(f) = {}}

-----------------------------------------------------------------------------
Init ==
  /\ account \in [User -> {NewAccount(p, l) : p \in Password, l \in Legacy}
                           \union (IF "register" \in Operations THEN {NoAccount} ELSE {})]
  /\ owner = [t \in Token |-> NoUser]
  /\ family = [t \in Token |-> NoFamily]
  /\ revoked = {}
  /\ expired = {}
  /\ request = [r \in Request |-> IdleRequest]
  /\ parent = [t \in Token |-> NoToken]
  /\ openedWith = [f \in Family |-> NoPassword]
  /\ reused = {}

(* POST /login.  The row is read and the lock and password are judged on   *)
(* that copy; a locked account answers 429 before the password is looked   *)
(* at.                                                                     *)
LoginWrong(r, u, p) ==
  /\ "login" \in Operations
  /\ Registered(u) /\ ~account[u].locked
  /\ p # account[u].password
  /\ Idle(r)
  /\ request' = [request EXCEPT ![r] =
       [IdleRequest EXCEPT !.pc = "login.fail", !.user = u, !.failed = account[u].failed]]
  /\ UNCHANGED <<account, table, history>>

LoginRightRehashes(r, u) ==   \* mutant: needsRehash is true of every hash
  /\ "login" \in Operations
  /\ Registered(u) /\ ~account[u].locked
  /\ TokensLeft
  /\ Idle(r)
  /\ request' = [request EXCEPT ![r] =
       [IdleRequest EXCEPT !.pc = "login.reset", !.user = u,
          !.password = account[u].password, !.rehash = TRUE]]
  /\ UNCHANGED <<account, table, history>>

LoginRight(r, u) ==
  /\ "login" \in Operations
  /\ Registered(u) /\ ~account[u].locked
  /\ TokensLeft
  /\ Idle(r)
  /\ request' = [request EXCEPT ![r] =
       [IdleRequest EXCEPT !.pc = "login.reset", !.user = u,
          !.password = account[u].password, !.rehash = account[u].legacy]]
  /\ UNCHANGED <<account, table, history>>

AttemptsUnlimited(n) == n + 1   \* mutant: counts past the limit

(* The counter is written from the copy read before the hash was compared. *)
(* Counts from MaxFailedAttempts on are told apart by nothing, so the      *)
(* counter saturates there.                                                *)
Attempts(n) == IF n < MaxFailedAttempts THEN n + 1 ELSE n

CountedLocksLate(acc, n) ==   \* mutant: > for >=
  [acc EXCEPT !.failed = n, !.locked = acc.locked \/ n > MaxFailedAttempts]

Counted(acc, n) ==
  [acc EXCEPT !.failed = n, !.locked = acc.locked \/ n >= MaxFailedAttempts]

LoginFail(r) ==
  /\ At(r, "login.fail")
  /\ account' = [account EXCEPT ![request[r].user] =
                   Counted(@, Attempts(request[r].failed))]
  /\ Finish(r)
  /\ UNCHANGED <<table, history>>

(* Counters are cleared; a legacy hash is replaced by an Argon2id hash of  *)
(* the password that was submitted.                                        *)
Cleared(acc) == [acc EXCEPT !.failed = 0, !.locked = FALSE]

Rehash(acc, p) == [acc EXCEPT !.password = p, !.legacy = FALSE]

LoginReset(r) ==
  /\ At(r, "login.reset")
  /\ account' = [account EXCEPT ![request[r].user] =
                   IF request[r].rehash THEN Rehash(Cleared(@), request[r].password)
                   ELSE Cleared(@)]
  /\ Continue(r, "issue")
  /\ UNCHANGED <<table, history>>

(* POST /register.  The address is free when read; users.email is unique,  *)
(* so of two that raced the second insert fails and its handler ends.      *)
RegisterRead(r, u, p) ==
  /\ "register" \in Operations
  /\ ~Registered(u)
  /\ TokensLeft
  /\ Begin(r, "register.create", u, p)
  /\ UNCHANGED <<account, table, history>>

RegisterCreate(r) ==
  /\ At(r, "register.create")
  /\ LET u == request[r].user
     IN IF Registered(u)
        THEN Finish(r) /\ UNCHANGED account
        ELSE /\ account' = [account EXCEPT ![u] = NewAccount(request[r].password, FALSE)]
             /\ Continue(r, "issue")
  /\ UNCHANGED <<table, history>>

OpenSessionInAnyFamily(r) ==   \* mutant: the family need not be new
  /\ At(r, "issue")
  /\ \E t \in Token, f \in Family :
       /\ InsertToken(t, request[r].user, f, NoToken)
       /\ openedWith' = [openedWith EXCEPT ![f] = request[r].password]
  /\ Finish(r)
  /\ UNCHANGED <<account, reused>>

(* createRefreshToken without a family, for /login and /register. *)
OpenSession(r) ==
  /\ At(r, "issue")
  /\ \E t \in Token, f \in FreshFamilies :
       /\ InsertToken(t, request[r].user, f, NoToken)
       /\ openedWith' = [openedWith EXCEPT ![f] = request[r].password]
  /\ Finish(r)
  /\ UNCHANGED <<account, reused>>

(* POST /refresh.  userId and family of a row never change and rows are    *)
(* never deleted, so only the token is kept of the row that was read.      *)
Present(r, t, label) ==
  /\ "refresh" \in Operations
  /\ Idle(r)
  /\ request' = [request EXCEPT ![r] = [IdleRequest EXCEPT !.pc = label, !.token = t]]

RefreshReuse(r, t) ==
  /\ t \in revoked
  /\ Present(r, t, "reuse.sweep")
  /\ UNCHANGED <<account, table, history>>

RefreshAcceptRevoked(r, t) ==   \* mutant: revokedAt is not looked at
  /\ t \in Issued \ expired
  /\ TokensLeft
  /\ Present(r, t, "refresh.revoke")
  /\ UNCHANGED <<account, table, history>>

RefreshAcceptExpired(r, t) ==   \* mutant: expiresAt is not looked at
  /\ t \in Issued \ revoked
  /\ TokensLeft
  /\ Present(r, t, "refresh.revoke")
  /\ UNCHANGED <<account, table, history>>

RefreshAccept(r, t) ==
  /\ t \in Usable
  /\ TokensLeft
  /\ Present(r, t, "refresh.revoke")
  /\ UNCHANGED <<account, table, history>>

ReuseSweepToken(r) ==   \* mutant: only the presented token, not its family
  /\ At(r, "reuse.sweep")
  /\ Revoke({request[r].token})
  /\ reused' = reused \union {family[request[r].token]}
  /\ Finish(r)
  /\ UNCHANGED <<account, parent, openedWith>>

ReuseSweep(r) ==
  /\ At(r, "reuse.sweep")
  /\ LET f == family[request[r].token]
     IN Revoke(TokensIn(f)) /\ reused' = reused \union {f}
  /\ Finish(r)
  /\ UNCHANGED <<account, parent, openedWith>>

RefreshRevokeSkipped(r) ==   \* mutant: the old token stays usable
  /\ At(r, "refresh.revoke")
  /\ Continue(r, "refresh.issue")
  /\ UNCHANGED <<account, table, history>>

RefreshRevoke(r) ==
  /\ At(r, "refresh.revoke")
  /\ Revoke({request[r].token})
  /\ Continue(r, "refresh.issue")
  /\ UNCHANGED <<account, history>>

RefreshIssue(r) ==
  /\ At(r, "refresh.issue")
  /\ LET old == request[r].token
     IN \E t \in Token : InsertToken(t, owner[old], family[old], old)
  /\ Finish(r)
  /\ UNCHANGED <<account, openedWith, reused>>

(* POST /logout and /logout-all: one updateMany each. *)
Logout(t) ==
  /\ "logout" \in Operations
  /\ t \in Issued
  /\ Revoke({t})
  /\ UNCHANGED <<account, request, history>>

LogoutAll(u) ==
  /\ "logout-all" \in Operations
  /\ Revoke(TokensOf(u))
  /\ UNCHANGED <<account, request, history>>

(* POST /change-password: the current password was right when read. *)
ChangeRead(r, u, p) ==
  /\ "change-password" \in Operations
  /\ Registered(u)
  /\ Begin(r, "change.set", u, p)
  /\ UNCHANGED <<account, table, history>>

ChangeSet(r) ==
  /\ At(r, "change.set")
  /\ account' = [account EXCEPT ![request[r].user] = Rehash(@, request[r].password)]
  /\ Continue(r, "sweep")
  /\ UNCHANGED <<table, history>>

(* POST /password-reset/confirm once consumeResetToken has answered ok. *)
ConfirmRead(r, u, p) ==
  /\ "confirm" \in Operations
  /\ Registered(u)
  /\ Begin(r, "confirm.set", u, p)
  /\ UNCHANGED <<account, table, history>>

ConfirmSet(r) ==
  /\ At(r, "confirm.set")
  /\ account' = [account EXCEPT ![request[r].user] = NewAccount(request[r].password, FALSE)]
  /\ Continue(r, "sweep")
  /\ UNCHANGED <<table, history>>

(* Both end by revoking every session of the user. *)
SweepUser(r) ==
  /\ At(r, "sweep")
  /\ Revoke(TokensOf(request[r].user))
  /\ Finish(r)
  /\ UNCHANGED <<account, history>>

(* Time passes. *)
TokenExpires(t) ==
  /\ t \in Issued \ expired
  /\ expired' = expired \union {t}
  /\ UNCHANGED <<account, owner, family, revoked, request, history>>

LockExpires(u) ==
  /\ account[u].locked
  /\ account' = [account EXCEPT ![u].locked = FALSE]
  /\ UNCHANGED <<table, request, history>>

(* The replica dies, or the ten-second query timeout rejects the statement *)
(* the handler waits for: the handler is over, but the statement was sent  *)
(* and the database may still run it.                                      *)
CutOff(r) ==
  /\ Faults
  /\ ~Idle(r) /\ ~request[r].orphan
  /\ request' = [request EXCEPT ![r].orphan = TRUE]
  /\ UNCHANGED <<account, table, history>>

Lost(r) ==
  /\ request[r].orphan
  /\ Finish(r)
  /\ UNCHANGED <<account, table, history>>

-----------------------------------------------------------------------------
Start(r) ==
  \/ \E u \in User, p \in Password :
       \/ LoginWrong(r, u, p)
       \/ RegisterRead(r, u, p)
       \/ ChangeRead(r, u, p)
       \/ ConfirmRead(r, u, p)
  \/ \E u \in User : LoginRight(r, u)
  \/ \E t \in Token : RefreshReuse(r, t) \/ RefreshAccept(r, t)

Statement(r) ==
  \/ LoginFail(r) \/ LoginReset(r)
  \/ RegisterCreate(r) \/ OpenSession(r)
  \/ ReuseSweep(r) \/ RefreshRevoke(r) \/ RefreshIssue(r)
  \/ ChangeSet(r) \/ ConfirmSet(r) \/ SweepUser(r)

Next ==
  \/ \E r \in Request : Start(r) \/ Statement(r) \/ CutOff(r) \/ Lost(r)
  \/ \E t \in Token : Logout(t) \/ TokenExpires(t)
  \/ \E u \in User : LogoutAll(u) \/ LockExpires(u)

Spec == Init /\ [][Next]_vars

-----------------------------------------------------------------------------
(* Properties *)

TypeOK ==
  /\ account \in [User -> Accounts]
  /\ owner \in [Token -> User \union {NoUser}]
  /\ family \in [Token -> Family \union {NoFamily}]
  /\ revoked \subseteq Token
  /\ expired \subseteq Token
  /\ request \in [Request -> Requests]
  /\ parent \in [Token -> Token \union {NoToken}]
  /\ openedWith \in [Family -> Password \union {NoPassword}]
  /\ reused \subseteq Family

(* A refresh that has been accepted but has not issued its token yet keeps *)
(* its session alive, whatever is revoked meanwhile.                       *)
Exchanging(r) == request[r].pc \in {"refresh.revoke", "refresh.issue"}

InFlight(f) == \E r \in Request : Exchanging(r) /\ family[request[r].token] = f

(* No token of the session is usable and none is on its way. *)
Ended(f) ==
  /\ TokensIn(f) # {}
  /\ TokensIn(f) \intersect Usable = {}
  /\ ~InFlight(f)

(* A session speaks for one user: all tokens of a family, however many     *)
(* exchanges apart and whoever raced whom, belong to the same account      *)
(* (nothing in the schema ties refresh_tokens.family to one userId).       *)
FamilyHasOneOwner ==
  \A t1, t2 \in Issued : family[t1] = family[t2] => owner[t1] = owner[t2]

(* A token that was exchanged is never accepted again: /refresh revokes    *)
(* the old token before it creates the new one, so even a handler cut off  *)
(* half-way leaves no two links of a chain usable.                         *)
ExchangedTokensRevoked ==
  \A t \in Token : parent[t] # NoToken => parent[t] \in revoked

(* Each family read as a session: the tokens table implements the ledger.  *)
SessionStatus ==
  [f \in Family |-> IF TokensIn(f) = {} THEN "unused"
                    ELSE IF Ended(f) THEN "closed" ELSE "open"]

SessionHolders == [f \in Family |-> {owner[t] : t \in TokensIn(f)}]

Ledger == INSTANCE SessionLedger WITH
  Session <- Family, status <- SessionStatus, holders <- SessionHolders

ImplementsLedger == Ledger!LedgerSpec

(* A statement of the handlers that set a password: a registration (the   *)
(* second of two that raced overwrites nothing), a change, a reset.        *)
PasswordSetBy(u) ==
  \E r \in Request :
    /\ request[r].user = u
    /\ request[r].pc \in {"register.create", "change.set", "confirm.set"}
    /\ request[r].pc = "register.create" => ~Registered(u)
    /\ request'[r] # request[r]

(* "Transparently upgrade legacy/weaker password hashes to Argon2id now    *)
(* that we have the plaintext": a login replaces the hash, never the       *)
(* password, which changes only when its owner sets one.  Not so when the  *)
(* owner sets one between the login's read and its write.                  *)
PasswordChangedOnPurpose ==
  [][\A u \in User :
       account[u].password # account'[u].password => PasswordSetBy(u)]_vars

(* The logins that found a hash of the old format and have not replaced it *)
(* yet.                                                                    *)
Upgraders(u) == {r \in Request : At(r, "login.reset") /\ request[r].user = u
                                   /\ request[r].rehash}

(* How far the upgrade of a hash can go wrong, whoever overlaps: a login   *)
(* changes a password behind its owner's back only when the owner has set  *)
(* one since that login read the hash, and a password once hashed the new  *)
(* way meets no further such login, so each can do so at most once.        *)
UpgradesBounded ==
  [][\A u \in User :
       /\ account[u].password # account'[u].password /\ ~PasswordSetBy(u)
            => ~account[u].legacy /\ Upgraders(u)' # Upgraders(u)
       /\ ~account[u].legacy => Upgraders(u)' \subseteq Upgraders(u)]_vars

(* "Revoke all sessions - the user must re-authenticate everywhere":       *)
(* unless a handler still has that sweep to run, every usable token        *)
(* belongs to a session opened with the account's current password.        *)
PasswordChangeEndsSessions ==
  \A t \in Usable :
    \/ openedWith[family[t]] = account[owner[t]].password
    \/ \E r \in Request : At(r, "sweep") /\ request[r].user = owner[t]

(* A token is exchanged once: presenting it again finds it revoked.        *)
SingleSuccessor ==
  \A t1, t2 \in Token : parent[t1] = parent[t2] /\ parent[t1] # NoToken => t1 = t2

(* "Revoke the ENTIRE family": after reuse was detected, the session is    *)
(* over for everyone.                                                      *)
ReuseEndsFamily == \A t \in Usable : family[t] \notin reused

(* Rotation moves a session along, it does not multiply it.                *)
OneUsableTokenPerSession ==
  \A t1, t2 \in Usable : family[t1] = family[t2] => t1 = t2

(* The lost updates of the failure counter delay the lock but do not       *)
(* prevent it: if wrong passwords keep being counted and from some time on *)
(* no login succeeds and no reset completes, the account is locked.        *)
Counting == \E r \in Request : LoginFail(r)
Clearing == \E r \in Request : LoginReset(r) \/ ConfirmSet(r)

PersistentFailuresLock ==
  ([]<><<Counting>>_vars /\ <>[][~Clearing]_vars)
    => []<>(\E u \in User : account[u].locked)

=============================================================================
