--------------------------- MODULE SessionsProofs ---------------------------
(***************************************************************************)
(* Theorems about Sessions, for any number of users, tokens, families and  *)
(* concurrent requests.                                                    *)
(***************************************************************************)
EXTENDS MCSessions, Ranking, FiniteSetTheorems, WellFoundedInduction, TLAPS

(* A row is written as a whole: no token has a user without a family. *)
RowsComplete == \A t \in Token : owner[t] # NoUser <=> family[t] # NoFamily

(* Only rows that exist are revoked or expire. *)
RowsMarked == revoked \subseteq Issued /\ expired \subseteq Issued

(* What a handler holds when it is about to run a statement, given the     *)
(* rows that exist and those revoked: an account, a password, a stored     *)
(* token; and if the next token is to be created, the old one is revoked.  *)
UserLabels == {"login.fail", "login.reset", "register.create", "issue",
               "change.set", "confirm.set", "sweep"}
TokenLabels == {"refresh.revoke", "refresh.issue", "reuse.sweep"}

Ready(q, rows, dead) ==
  /\ q.pc \in UserLabels => q.user \in User
  /\ q.pc \in TokenLabels => q.token \in rows
  /\ q.pc = "refresh.issue" => q.token \in dead

HandlersReady == \A r \in Request : Ready(request[r], Issued, revoked)

Inv ==
  /\ TypeOK
  /\ RowsComplete
  /\ RowsMarked
  /\ HandlersReady
  /\ FamilyHasOneOwner
  /\ ExchangedTokensRevoked

USE SessionsAssumption DEF SessionsAssumption

-----------------------------------------------------------------------------
(* Type correctness *)

(* An idle request record is well typed. *)
LEMMA IdleRequestType == IdleRequest \in Requests
  BY DEF IdleRequest, Requests, Labels

(* The saturating counter stays within the limit. *)
LEMMA AttemptsType == \A n \in 0..MaxFailedAttempts : Attempts(n) \in 0..MaxFailedAttempts
  BY DEF Attempts

(* One request is replaced, rows are added and revoked but never removed:  *)
(* every other handler is as ready as it was.                              *)
LEMMA SetRequest ==
  ASSUME TypeOK, HandlersReady, NEW r \in Request, NEW q \in Requests,
         request' = [request EXCEPT ![r] = q],
         Issued \subseteq Issued', revoked \subseteq revoked',
         Ready(q, Issued', revoked')
  PROVE  request' \in [Request -> Requests] /\ HandlersReady'
  BY DEF TypeOK, HandlersReady, Ready

(* A handler that ends is ready. *)
LEMMA FinishReady ==
  ASSUME TypeOK, HandlersReady, NEW r \in Request, Finish(r),
         Issued \subseteq Issued', revoked \subseteq revoked'
  PROVE  request' \in [Request -> Requests] /\ HandlersReady'
  <1>1. Ready(IdleRequest, Issued', revoked')
    BY DEF Ready, IdleRequest, UserLabels, TokenLabels
  <1>2. QED BY <1>1, SetRequest, IdleRequestType DEF Finish

(* So is one that goes on, if it holds what the next statement needs. *)
LEMMA ContinueReady ==
  ASSUME TypeOK, HandlersReady, NEW r \in Request,
         NEW label \in Labels, Continue(r, label),
         Issued \subseteq Issued', revoked \subseteq revoked',
         label \in UserLabels => request[r].user \in User,
         label \in TokenLabels => request[r].token \in Issued,
         label = "refresh.issue" => request[r].token \in revoked'
  PROVE  request' \in [Request -> Requests] /\ HandlersReady'
  <1>1. CASE request[r].orphan
    BY <1>1, FinishReady DEF Continue
  <1>2. CASE ~request[r].orphan
    <2> DEFINE q == [request[r] EXCEPT !.pc = label]
    <2>1. request[r] \in Requests
      BY DEF TypeOK
    <2>2. q \in Requests /\ q.pc = label /\ q.user = request[r].user /\ q.token = request[r].token
      BY <2>1 DEF Requests
    <2>3. request' = [request EXCEPT ![r] = q]
      BY <1>2 DEF Continue
    <2>4. Ready(q, Issued', revoked')
      BY <2>2 DEF Ready
    <2>5. QED BY <2>2, <2>3, <2>4, SetRequest
  <1>3. QED BY <1>1, <1>2

(* Overwriting a row with a row keeps the table well typed. *)
LEMMA AccountType ==
  ASSUME account \in [User -> Accounts], NEW u \in User, NEW a \in Accounts
  PROVE  [account EXCEPT ![u] = a] \in [User -> Accounts]
  OBVIOUS

(* The absent account is typed like a row. *)
LEMMA NoAccountType == NoAccount \in Accounts
  BY DEF NoAccount, Accounts

(* So are a fresh account, ... *)
LEMMA NewAccountType ==
  ASSUME NEW p \in Password \union {NoPassword}, NEW l \in BOOLEAN
  PROVE  NewAccount(p, l) \in Accounts
  <1>1. ASSUME NEW a \in Accounts
        PROVE  [a EXCEPT !.password = p, !.legacy = l] \in Accounts
    BY DEF Accounts
  <1>2. QED BY <1>1, NoAccountType DEF NewAccount

(* ... one whose failed login was counted, ... *)
LEMMA CountedType ==
  ASSUME NEW a \in Accounts, NEW n \in 0..MaxFailedAttempts
  PROVE  Counted(a, Attempts(n)) \in Accounts
  <1>1. Attempts(n) \in 0..MaxFailedAttempts
    BY AttemptsType
  <1>2. QED BY <1>1 DEF Counted, Accounts

(* ... one whose counters were cleared ... *)
LEMMA ClearedType ==
  ASSUME NEW a \in Accounts
  PROVE  Cleared(a) \in Accounts
  <1>1. 0 \in 0..MaxFailedAttempts
    OBVIOUS
  <1>2. QED BY <1>1 DEF Cleared, Accounts

(* ... and one whose password was set. *)
LEMMA RehashType ==
  ASSUME NEW a \in Accounts, NEW p \in Password \union {NoPassword}
  PROVE  Rehash(a, p) \in Accounts
  BY DEF Accounts, Rehash

-----------------------------------------------------------------------------
(* The invariant, by what a step does to the tables *)

(* Reads, account updates, faults: no token row changes. *)
LEMMA TablesKept ==
  ASSUME Inv, UNCHANGED <<table, history>>,
         account' \in [User -> Accounts],
         request' \in [Request -> Requests], HandlersReady'
  PROVE  Inv'
  BY DEF Inv, table, history, TypeOK, RowsComplete, RowsMarked, Issued,
         FamilyHasOneOwner, ExchangedTokensRevoked

(* Rows are revoked. *)
LEMMA RevokeKeeps ==
  ASSUME Inv, NEW T \in SUBSET Issued, Revoke(T),
         UNCHANGED <<account, parent, openedWith>>, reused' \subseteq Family,
         request' \in [Request -> Requests], HandlersReady'
  PROVE  Inv'
  BY DEF Inv, Revoke, TypeOK, RowsComplete, RowsMarked, Issued,
         FamilyHasOneOwner, ExchangedTokensRevoked

(* A row is created, in a new family or in one of its own user's. *)
LEMMA InsertKeeps ==
  ASSUME Inv, NEW t \in Token, NEW u \in User, NEW f \in Family,
         NEW from \in Token \union {NoToken}, InsertToken(t, u, f, from),
         \A s \in TokensIn(f) : owner[s] = u,
         from # NoToken => from \in revoked,
         UNCHANGED <<account, reused>>,
         openedWith' \in [Family -> Password \union {NoPassword}],
         request' \in [Request -> Requests], HandlersReady'
  PROVE  Inv'
  <1>1. TypeOK'
    BY DEF Inv, InsertToken, TypeOK
  <1>2. RowsComplete' /\ RowsMarked'
    BY DEF Inv, InsertToken, TypeOK, RowsComplete, RowsMarked, Issued
  <1>3. ExchangedTokensRevoked'
    BY DEF Inv, InsertToken, TypeOK, ExchangedTokensRevoked
  <1>4. FamilyHasOneOwner'
    BY DEF Inv, InsertToken, TypeOK, FamilyHasOneOwner, Issued, TokensIn
  <1>5. QED BY <1>1, <1>2, <1>3, <1>4 DEF Inv

(* The invariant holds initially. *)
LEMMA InitInv == Init => Inv
  <1> SUFFICES ASSUME Init PROVE Inv
    OBVIOUS
  <1>1. TypeOK
    <2>1. account \in [User -> Accounts]
      <3>1. \A p \in Password, l \in Legacy : NewAccount(p, l) \in Accounts
        BY NewAccountType
      <3>2. QED BY <3>1, NoAccountType DEF Init
    <2>2. request \in [Request -> Requests]
      BY IdleRequestType DEF Init
    <2>3. QED BY <2>1, <2>2 DEF Init, TypeOK
  <1>2. Issued = {}
    BY DEF Init, Issued
  <1>3. RowsComplete /\ RowsMarked /\ FamilyHasOneOwner /\ ExchangedTokensRevoked
    BY <1>2 DEF Init, RowsComplete, RowsMarked, FamilyHasOneOwner, ExchangedTokensRevoked
  <1>4. HandlersReady
    BY DEF Init, HandlersReady, Ready, IdleRequest, UserLabels, TokenLabels
  <1>5. QED BY <1>1, <1>3, <1>4 DEF Inv

-----------------------------------------------------------------------------
(* The invariant, action by action *)

(* What a handler with a user holds. *)
LEMMA RequestOfUser ==
  ASSUME Inv, NEW r \in Request, request[r].pc \in UserLabels
  PROVE  /\ request[r].user \in User
         /\ request[r].password \in Password \union {NoPassword}
         /\ request[r].failed \in 0..MaxFailedAttempts
         /\ account[request[r].user] \in Accounts
  <1>1. request[r] \in Requests
    BY DEF Inv, TypeOK
  <1>2. request[r].user \in User
    BY DEF Inv, HandlersReady, Ready
  <1>3. QED BY <1>1, <1>2 DEF Requests, Inv, TypeOK

(* What a handler with a token holds. *)
LEMMA RequestOfToken ==
  ASSUME Inv, NEW r \in Request, request[r].pc \in TokenLabels
  PROVE  LET t == request[r].token
         IN /\ t \in Issued
            /\ owner[t] \in User
            /\ family[t] \in Family
  <1>1. request[r].token \in Issued
    BY DEF Inv, HandlersReady, Ready
  <1>2. QED BY <1>1 DEF Issued, Inv, TypeOK, RowsComplete

(* A handler that starts fills its own record, and is ready; only one that *)
(* presents a usable token is then exchanging it.                          *)
Starts(r, q) ==
  /\ q \in Requests
  /\ request' = [request EXCEPT ![r] = q]
  /\ Ready(q, Issued, revoked)

(* Every start has that shape. *)
LEMMA StartShape ==
  ASSUME Inv, NEW r \in Request, Start(r)
  PROVE  \E q \in Requests :
            /\ Starts(r, q)
            /\ \/ q.pc \notin {"refresh.revoke", "refresh.issue"}
               \/ \E t \in Token : RefreshAccept(r, t)
  <1> DEFINE Goal == \E q \in Requests :
                        /\ Starts(r, q)
                        /\ \/ q.pc \notin {"refresh.revoke", "refresh.issue"}
                           \/ \E t \in Token : RefreshAccept(r, t)
  <1>1. ASSUME NEW u \in User, NEW p \in Password, LoginWrong(r, u, p)
        PROVE  Goal
    <2> DEFINE n == account[u].failed
               q == [IdleRequest EXCEPT !.pc = "login.fail", !.user = u, !.failed = n]
    <2>1. n \in 0..MaxFailedAttempts
      BY DEF Inv, TypeOK, Accounts
    <2>2. ASSUME NEW i \in Requests
          PROVE  LET j == [i EXCEPT !.pc = "login.fail", !.user = u, !.failed = n]
                 IN j \in Requests /\ j.pc = "login.fail" /\ j.user = u
      BY <2>1 DEF Requests, Labels
    <2>3. q \in Requests /\ q.pc = "login.fail" /\ q.user = u
      BY <2>2, IdleRequestType
    <2>4. Starts(r, q)
      BY <1>1, <2>3 DEF LoginWrong, Starts, Ready, TokenLabels
    <2>5. QED BY <2>3, <2>4
  <1>2. ASSUME NEW u \in User, LoginRight(r, u)
        PROVE  Goal
    <2> DEFINE p == account[u].password
               b == account[u].legacy
               q == [IdleRequest EXCEPT !.pc = "login.reset", !.user = u,
                       !.password = p, !.rehash = b]
    <2>1. p \in Password \union {NoPassword} /\ b \in BOOLEAN
      BY DEF Inv, TypeOK, Accounts
    <2>2. ASSUME NEW i \in Requests
          PROVE  LET j == [i EXCEPT !.pc = "login.reset", !.user = u,
                             !.password = p, !.rehash = b]
                 IN j \in Requests /\ j.pc = "login.reset" /\ j.user = u
      BY <2>1 DEF Requests, Labels
    <2>3. q \in Requests /\ q.pc = "login.reset" /\ q.user = u
      BY <2>2, IdleRequestType
    <2>4. Starts(r, q)
      BY <1>2, <2>3 DEF LoginRight, Starts, Ready, TokenLabels
    <2>5. QED BY <2>3, <2>4
  <1>3. ASSUME NEW u \in User, NEW p \in Password,
               \/ RegisterRead(r, u, p) \/ ChangeRead(r, u, p) \/ ConfirmRead(r, u, p)
        PROVE  Goal
    <2>1. PICK label \in {"register.create", "change.set", "confirm.set"} :
            Begin(r, label, u, p)
      BY <1>3 DEF RegisterRead, ChangeRead, ConfirmRead
    <2> DEFINE q == [IdleRequest EXCEPT !.pc = label, !.user = u, !.password = p]
    <2>2. ASSUME NEW i \in Requests
          PROVE  LET j == [i EXCEPT !.pc = label, !.user = u, !.password = p]
                 IN j \in Requests /\ j.pc = label /\ j.user = u
      BY DEF Requests, Labels
    <2>3. q \in Requests /\ q.pc = label /\ q.user = u
      BY <2>2, IdleRequestType
    <2>4. Starts(r, q)
      BY <2>1, <2>3 DEF Begin, Starts, Ready, TokenLabels
    <2>5. QED BY <2>3, <2>4
  <1>4. ASSUME NEW t \in Token, RefreshReuse(r, t) \/ RefreshAccept(r, t)
        PROVE  Goal
    <2>1. PICK label \in {"reuse.sweep", "refresh.revoke"} :
            /\ Present(r, t, label)
            /\ label = "reuse.sweep" \/ RefreshAccept(r, t)
      BY <1>4 DEF RefreshReuse, RefreshAccept
    <2>2. t \in Issued
      BY <1>4 DEF RefreshReuse, RefreshAccept, Usable, Inv, RowsMarked
    <2> DEFINE q == [IdleRequest EXCEPT !.pc = label, !.token = t]
    <2>3. ASSUME NEW i \in Requests
          PROVE  LET j == [i EXCEPT !.pc = label, !.token = t]
                 IN j \in Requests /\ j.pc = label /\ j.token = t
      BY DEF Requests, Labels
    <2>4. q \in Requests /\ q.pc = label /\ q.token = t
      BY <2>3, IdleRequestType
    <2>5. Starts(r, q)
      BY <2>1, <2>2, <2>4 DEF Present, Starts, Ready, UserLabels
    <2>6. QED BY <2>1, <2>4, <2>5
  <1>5. QED BY <1>1, <1>2, <1>3, <1>4 DEF Start

(* Starting a handler keeps the invariant. *)
LEMMA StartKeeps ==
  ASSUME Inv, NEW r \in Request, Start(r)
  PROVE  Inv'
  <1>1. UNCHANGED <<account, table, history>>
    BY DEF Start, LoginWrong, LoginRight, RegisterRead, ChangeRead, ConfirmRead,
           RefreshReuse, RefreshAccept
  <1>2. account' \in [User -> Accounts] /\ TypeOK /\ HandlersReady
    BY <1>1 DEF Inv, TypeOK
  <1>3. Issued = Issued' /\ revoked = revoked'
    BY <1>1 DEF table, Issued
  <1>4. PICK q \in Requests : Starts(r, q)
    BY StartShape
  <1>5. request' \in [Request -> Requests] /\ HandlersReady'
    BY <1>2, <1>3, <1>4, SetRequest DEF Starts
  <1>6. QED BY SMTT(20), <1>1, <1>2, <1>5, TablesKept

(* Statements on the users table. *)
LEMMA AccountStatementKeeps ==
  ASSUME Inv, NEW r \in Request,
         \/ LoginFail(r) \/ LoginReset(r) \/ RegisterCreate(r)
         \/ ChangeSet(r) \/ ConfirmSet(r)
  PROVE  Inv'
  <1> DEFINE u == request[r].user
  <1>1. request[r].pc \in UserLabels /\ UNCHANGED <<table, history>>
    BY DEF LoginFail, LoginReset, RegisterCreate, ChangeSet, ConfirmSet, At, UserLabels
  <1>2. /\ u \in User
        /\ request[r].password \in Password \union {NoPassword}
        /\ request[r].failed \in 0..MaxFailedAttempts
        /\ account[u] \in Accounts
    BY <1>1, RequestOfUser
  <1>3. TypeOK /\ HandlersReady /\ account \in [User -> Accounts]
    BY DEF Inv, TypeOK
  <1>4. Issued \subseteq Issued' /\ revoked \subseteq revoked'
    BY <1>1 DEF table, Issued
  <1>5. request' \in [Request -> Requests] /\ HandlersReady'
    <2>1. \/ Finish(r)
          \/ \E label \in {"issue", "sweep"} : Continue(r, label)
      BY DEF LoginFail, LoginReset, RegisterCreate, ChangeSet, ConfirmSet
    <2>2. {"issue", "sweep"} \subseteq Labels \ TokenLabels
      BY DEF Labels, TokenLabels
    <2>3. QED BY <1>2, <1>3, <1>4, <2>1, <2>2, FinishReady, ContinueReady
  <1>6. account' \in [User -> Accounts]
    <2>1. CASE LoginFail(r)
      <3>1. Counted(account[u], Attempts(request[r].failed)) \in Accounts
        BY <1>2, CountedType
      <3>2. QED BY <1>2, <1>3, <2>1, <3>1 DEF LoginFail
    <2>2. CASE LoginReset(r)
      <3>1. Cleared(account[u]) \in Accounts
        BY <1>2, ClearedType
      <3>2. Rehash(Cleared(account[u]), request[r].password) \in Accounts
        BY <1>2, <3>1, RehashType
      <3>3. QED BY <1>2, <1>3, <2>2, <3>1, <3>2 DEF LoginReset
    <2>3. CASE RegisterCreate(r)
      <3>1. NewAccount(request[r].password, FALSE) \in Accounts
        BY <1>2, NewAccountType
      <3>2. QED BY <1>2, <1>3, <2>3, <3>1 DEF RegisterCreate
    <2>4. CASE ChangeSet(r)
      <3>1. Rehash(account[u], request[r].password) \in Accounts
        BY <1>2, RehashType
      <3>2. QED BY <1>2, <1>3, <2>4, <3>1 DEF ChangeSet
    <2>5. CASE ConfirmSet(r)
      <3>1. NewAccount(request[r].password, FALSE) \in Accounts
        BY <1>2, NewAccountType
      <3>2. QED BY <1>2, <1>3, <2>5, <3>1 DEF ConfirmSet
    <2>6. QED BY <2>1, <2>2, <2>3, <2>4, <2>5
  <1>7. QED BY <1>1, <1>5, <1>6, TablesKept

(* Statements that revoke rows. *)
LEMMA RevokeStatementKeeps ==
  ASSUME Inv, NEW r \in Request, ReuseSweep(r) \/ RefreshRevoke(r) \/ SweepUser(r)
  PROVE  Inv'
  <1>1. Issued = Issued' /\ revoked \subseteq revoked'
    BY DEF ReuseSweep, RefreshRevoke, SweepUser, Revoke, Issued
  <1>2. TypeOK /\ HandlersReady
    BY DEF Inv
  <1>3. CASE ReuseSweep(r)
    <2>1. request[r].pc \in TokenLabels
      BY <1>3 DEF ReuseSweep, At, TokenLabels
    <2> DEFINE f == family[request[r].token]
    <2>2. f \in Family
      BY <2>1, RequestOfToken
    <2>3. TokensIn(f) \in SUBSET Issued
      BY <2>2 DEF TokensIn, Issued, Inv, RowsComplete
    <2>4. reused' \subseteq Family
      BY <1>2, <1>3, <2>2 DEF ReuseSweep, TypeOK
    <2>5. request' \in [Request -> Requests] /\ HandlersReady'
      BY <1>1, <1>2, <1>3, FinishReady DEF ReuseSweep
    <2>6. QED BY <1>3, <2>3, <2>4, <2>5, RevokeKeeps DEF ReuseSweep
  <1>4. CASE RefreshRevoke(r)
    <2>1. request[r].pc \in TokenLabels
      BY <1>4 DEF RefreshRevoke, At, TokenLabels
    <2>2. request[r].token \in Issued
      BY <2>1, RequestOfToken
    <2>3. request[r].token \in revoked' /\ Continue(r, "refresh.issue")
      BY <1>4 DEF RefreshRevoke, Revoke
    <2>4. "refresh.issue" \in Labels /\ "refresh.issue" \notin UserLabels
      BY DEF Labels, UserLabels
    <2>5. request' \in [Request -> Requests] /\ HandlersReady'
      BY <1>1, <1>2, <2>2, <2>3, <2>4, ContinueReady
    <2>6. reused' \subseteq Family
      BY <1>2, <1>4 DEF RefreshRevoke, history, TypeOK
    <2>7. QED BY <1>4, <2>2, <2>5, <2>6, RevokeKeeps DEF RefreshRevoke, history
  <1>5. CASE SweepUser(r)
    <2>1. request[r].user \in User
      BY <1>5, RequestOfUser DEF SweepUser, At, UserLabels
    <2>2. TokensOf(request[r].user) \in SUBSET Issued
      BY <2>1 DEF TokensOf, Issued
    <2>3. request' \in [Request -> Requests] /\ HandlersReady'
      BY <1>1, <1>2, <1>5, FinishReady DEF SweepUser
    <2>4. reused' \subseteq Family
      BY <1>2, <1>5 DEF SweepUser, history, TypeOK
    <2>5. QED BY <1>5, <2>2, <2>3, <2>4, RevokeKeeps DEF SweepUser, history
  <1>6. QED BY <1>3, <1>4, <1>5

(* Statements that create rows. *)
LEMMA InsertStatementKeeps ==
  ASSUME Inv, NEW r \in Request, OpenSession(r) \/ RefreshIssue(r)
  PROVE  Inv'
  <1>1. TypeOK /\ HandlersReady
    BY DEF Inv
  <1>2. CASE OpenSession(r)
    <2>1. PICK t \in Token, f \in FreshFamilies :
            /\ InsertToken(t, request[r].user, f, NoToken)
            /\ openedWith' = [openedWith EXCEPT ![f] = request[r].password]
      BY <1>2 DEF OpenSession
    <2>2. request[r].user \in User /\ request[r].password \in Password \union {NoPassword}
      BY <1>2, RequestOfUser DEF OpenSession, At, UserLabels
    <2>3. f \in Family /\ TokensIn(f) = {}
      BY DEF FreshFamilies
    <2>4. Issued \subseteq Issued' /\ revoked \subseteq revoked'
      BY <1>1, <2>1, <2>2 DEF InsertToken, Issued, TypeOK
    <2>5. request' \in [Request -> Requests] /\ HandlersReady'
      BY <1>1, <1>2, <2>4, FinishReady DEF OpenSession
    <2>6. openedWith' \in [Family -> Password \union {NoPassword}]
      BY <1>1, <2>1, <2>2 DEF TypeOK
    <2>7. UNCHANGED <<account, reused>>
      BY <1>2 DEF OpenSession
    <2>8. QED BY <2>1, <2>2, <2>3, <2>5, <2>6, <2>7, InsertKeeps
  <1>3. CASE RefreshIssue(r)
    <2> DEFINE old == request[r].token
    <2>1. PICK t \in Token : InsertToken(t, owner[old], family[old], old)
      BY <1>3 DEF RefreshIssue
    <2>2. old \in Issued /\ owner[old] \in User /\ family[old] \in Family
      BY <1>3, RequestOfToken DEF RefreshIssue, At, TokenLabels
    <2>3. old \in revoked
      BY <1>1, <1>3 DEF RefreshIssue, At, HandlersReady, Ready
    <2>4. Issued \subseteq Issued' /\ revoked \subseteq revoked'
      BY <1>1, <2>1, <2>2 DEF InsertToken, Issued, TypeOK
    <2>5. request' \in [Request -> Requests] /\ HandlersReady'
      BY <1>1, <1>3, <2>4, FinishReady DEF RefreshIssue
    <2>6. \A s \in TokensIn(family[old]) : owner[s] = owner[old]
      BY <2>2 DEF TokensIn, Inv, FamilyHasOneOwner, RowsComplete, Issued
    <2>7. openedWith' \in [Family -> Password \union {NoPassword}] /\ UNCHANGED <<account, reused>>
      BY <1>1, <1>3 DEF RefreshIssue, TypeOK
    <2>8. old \in Token
      BY <2>2 DEF Issued
    <2>9. QED BY <2>1, <2>2, <2>3, <2>5, <2>6, <2>7, <2>8, InsertKeeps
  <1>4. QED BY <1>2, <1>3

(* Handlers cut off, single-statement handlers, the clock. *)
LEMMA CutOffKeeps ==
  ASSUME Inv, NEW r \in Request, CutOff(r) \/ Lost(r)
  PROVE  Inv'
  <1>1. UNCHANGED <<account, table, history>> /\ TypeOK /\ HandlersReady
    BY DEF CutOff, Lost, Inv
  <1>2. account' \in [User -> Accounts] /\ UNCHANGED <<table, history>>
    BY <1>1 DEF TypeOK
  <1>3. Issued = Issued' /\ revoked = revoked'
    BY <1>1 DEF table, Issued
  <1>4. CASE CutOff(r)
    <2> DEFINE q == [request[r] EXCEPT !.orphan = TRUE]
    <2>1. request[r] \in Requests /\ Ready(request[r], Issued, revoked)
      BY <1>1 DEF TypeOK, HandlersReady
    <2>2. q \in Requests /\ q.pc = request[r].pc /\ q.user = request[r].user /\ q.token = request[r].token
      BY <2>1 DEF Requests
    <2>3. Ready(q, Issued', revoked')
      BY <1>3, <2>1, <2>2 DEF Ready
    <2>4. request' = [request EXCEPT ![r] = q]
      BY <1>4 DEF CutOff
    <2>5. request' \in [Request -> Requests] /\ HandlersReady'
      BY <1>1, <1>3, <2>2, <2>3, <2>4, SetRequest
    <2>6. QED BY <1>2, <2>5, TablesKept
  <1>5. CASE Lost(r)
    <2>1. request' \in [Request -> Requests] /\ HandlersReady'
      BY <1>1, <1>3, <1>5, FinishReady DEF Lost
    <2>2. QED BY <1>2, <2>1, TablesKept
  <1>6. QED BY <1>4, <1>5

(* Logging out keeps it. *)
LEMMA LogoutKeeps ==
  ASSUME Inv,
         (\E t \in Token : Logout(t)) \/ (\E u \in User : LogoutAll(u))
  PROVE  Inv'
  <1>1. PICK T \in SUBSET Issued : Revoke(T)
    BY DEF Logout, LogoutAll, TokensOf, Issued
  <1>2. UNCHANGED <<account, request, history>> /\ TypeOK /\ HandlersReady
    BY DEF Logout, LogoutAll, Inv
  <1>3. Issued = Issued' /\ revoked \subseteq revoked'
    BY <1>1 DEF Revoke, Issued
  <1>4. HandlersReady' /\ request' \in [Request -> Requests]
    BY <1>2, <1>3 DEF HandlersReady, Ready, TypeOK
  <1>5. UNCHANGED <<account, parent, openedWith>> /\ reused' \subseteq Family
    BY <1>2 DEF history, TypeOK
  <1>6. QED BY <1>1, <1>4, <1>5, RevokeKeeps

(* The passing of time keeps it. *)
LEMMA ClockKeeps ==
  ASSUME Inv,
         (\E t \in Token : TokenExpires(t)) \/ (\E u \in User : LockExpires(u))
  PROVE  Inv'
  <1>1. ASSUME NEW t \in Token, TokenExpires(t)
        PROVE  Inv'
    BY <1>1 DEF TokenExpires, Inv, history, TypeOK, RowsComplete, RowsMarked, Issued,
            HandlersReady, Ready, FamilyHasOneOwner, ExchangedTokensRevoked
  <1>2. ASSUME NEW u \in User, LockExpires(u)
        PROVE  Inv'
    <2>1. UNCHANGED <<table, request, history>> /\ TypeOK /\ HandlersReady
      BY <1>2 DEF LockExpires, Inv
    <2>2. account' \in [User -> Accounts]
      <3>1. account \in [User -> Accounts] /\ account[u] \in Accounts
        BY <2>1 DEF TypeOK
      <3>2. [account[u] EXCEPT !.locked = FALSE] \in Accounts
        BY <3>1 DEF Accounts
      <3>3. QED BY <1>2, <3>1, <3>2 DEF LockExpires
    <2>3. request' \in [Request -> Requests] /\ HandlersReady'
      BY <2>1 DEF HandlersReady, Ready, TypeOK, table, Issued
    <2>4. QED BY <2>1, <2>2, <2>3, TablesKept
  <1>3. QED BY <1>1, <1>2

(* So do steps of the rest of the world, which change nothing here. *)
LEMMA StutterKeeps == Inv /\ UNCHANGED vars => Inv'
  BY DEF vars, table, history, Inv, TypeOK, RowsComplete, RowsMarked, Issued,
         HandlersReady, Ready, FamilyHasOneOwner, ExchangedTokensRevoked

(* The invariant is inductive. *)
LEMMA NextInv == Inv /\ [Next]_vars => Inv'
  BY StartKeeps, AccountStatementKeeps, RevokeStatementKeeps, InsertStatementKeeps,
     CutOffKeeps, LogoutKeeps, ClockKeeps, StutterKeeps DEF Next, Statement

(* The inductive invariant holds throughout. *)
THEOREM Invariance == Spec => []Inv
  BY InitInv, NextInv, PTL DEF Spec

(* Every table and request record keeps its type. *)
THEOREM TypeCorrect == Spec => []TypeOK
  <1>1. Inv => TypeOK
    BY DEF Inv
  <1>2. QED BY <1>1, Invariance, PTL

(* All tokens of a family belong to one account. *)
THEOREM FamilyOwnerSafety == Spec => []FamilyHasOneOwner
  <1>1. Inv => FamilyHasOneOwner
    BY DEF Inv
  <1>2. QED BY <1>1, Invariance, PTL

(* A token that was exchanged is never accepted again. *)
THEOREM ExchangeSafety == Spec => []ExchangedTokensRevoked
  <1>1. Inv => ExchangedTokensRevoked
    BY DEF Inv
  <1>2. QED BY <1>1, Invariance, PTL

-----------------------------------------------------------------------------
(* Sessions that have ended, and the ledger *)

(* Rows keep their user and family, and marks are never taken back. *)
RowsKept ==
  /\ \A t \in Issued : t \in Issued' /\ owner'[t] = owner[t] /\ family'[t] = family[t]
  /\ revoked \subseteq revoked'
  /\ expired \subseteq expired'

(* No request starts to exchange a token. *)
NoNewExchange ==
  \A q \in Request : Exchanging(q)' => Exchanging(q) /\ request'[q].token = request[q].token

(* The rows that appear are in families where no session has ended. *)
NewRowsElsewhere ==
  \A t \in Issued' \ Issued : family'[t] \in Family /\ ~Ended(family'[t])

(* A handler that ends starts no exchange. *)
LEMMA FinishExchange ==
  ASSUME Inv, NEW r \in Request, Finish(r)
  PROVE  NoNewExchange
  BY DEF Finish, IdleRequest, NoNewExchange, Exchanging, Inv, TypeOK

(* One that goes on starts none that was not under way. *)
LEMMA ContinueExchange ==
  ASSUME Inv, NEW r \in Request, NEW label \in Labels, Continue(r, label),
         Exchanging(r) \/ label \in UserLabels
  PROVE  NoNewExchange
  <1>1. CASE request[r].orphan
    BY <1>1, FinishExchange DEF Continue
  <1>2. CASE ~request[r].orphan
    <2>1. request[r] \in Requests
      BY DEF Inv, TypeOK
    <2>2. request' = [request EXCEPT ![r] = [request[r] EXCEPT !.pc = label]]
      BY <1>2 DEF Continue
    <2>3. /\ request'[r].pc = label /\ request'[r].token = request[r].token
          /\ \A q \in Request \ {r} : request'[q] = request[q]
      BY <2>1, <2>2 DEF Inv, TypeOK, Requests
    <2>4. QED BY <2>3 DEF NoNewExchange, Exchanging, UserLabels
  <1>3. QED BY <1>1, <1>2

(* A handler that starts without presenting a usable token. *)
LEMMA StartExchange ==
  ASSUME Inv, NEW r \in Request, Start(r),
         ~(\E t \in Token : RefreshAccept(r, t))
  PROVE  NoNewExchange
  <1>1. PICK q \in Requests :
          Starts(r, q) /\ q.pc \notin {"refresh.revoke", "refresh.issue"}
    BY StartShape
  <1>2. QED BY <1>1 DEF Starts, NoNewExchange, Exchanging, Inv, TypeOK

(* What any step does to a session, but one that accepts a refresh. *)
LEMMA EndedKept ==
  ASSUME Inv, RowsKept, NoNewExchange, NewRowsElsewhere, HandlersReady',
         NEW f \in Family, Ended(f)
  PROVE  Ended(f)'
  <1>1. PICK t \in TokensIn(f) : t \in Issued
    BY DEF Ended, TokensIn, Issued, Inv, RowsComplete
  <1>2. TokensIn(f)' # {}
    BY <1>1 DEF RowsKept, TokensIn
  <1>3. ASSUME NEW s \in Issued', family'[s] = f
        PROVE  s \in revoked' \/ s \in expired'
    <2>1. s \in Issued
      BY <1>3 DEF NewRowsElsewhere
    <2>2. family[s] = f /\ s \in Token
      BY <1>3, <2>1 DEF RowsKept, Issued
    <2>3. s \in revoked \/ s \in expired
      BY <2>1, <2>2 DEF Ended, TokensIn, Usable
    <2>4. QED BY <2>3 DEF RowsKept
  <1>4. TokensIn(f)' \intersect Usable' = {}
    BY <1>3 DEF TokensIn, Usable
  <1>5. ASSUME NEW q \in Request, Exchanging(q)', family'[request'[q].token] = f
        PROVE  FALSE
    <2>1. Exchanging(q) /\ request'[q].token = request[q].token
      BY <1>5 DEF NoNewExchange
    <2>2. request[q].token \in Issued
      BY <2>1 DEF Exchanging, Inv, HandlersReady, Ready, TokenLabels
    <2>3. family[request[q].token] = f
      BY <1>5, <2>1, <2>2 DEF RowsKept
    <2>4. QED BY <2>1, <2>3 DEF Ended, InFlight
  <1>6. ~InFlight(f)'
    BY <1>5 DEF InFlight
  <1>7. QED BY <1>2, <1>4, <1>6 DEF Ended

(* Which steps add rows, and where. *)
LEMMA NoRowsAdded ==
  ASSUME UNCHANGED <<owner, family>>, revoked \subseteq revoked', expired \subseteq expired'
  PROVE  RowsKept /\ NewRowsElsewhere
  BY DEF RowsKept, NewRowsElsewhere, Issued

(* A row inserted in a family that has not ended touches no ended one. *)
LEMMA RowAdded ==
  ASSUME Inv, NEW t \in Token, NEW u \in User, NEW f \in Family, NEW from,
         InsertToken(t, u, f, from), ~Ended(f)
  PROVE  RowsKept /\ NewRowsElsewhere
  <1>1. /\ t \notin Issued
        /\ owner' = [owner EXCEPT ![t] = u] /\ family' = [family EXCEPT ![t] = f]
        /\ revoked' = revoked /\ expired' = expired
    BY DEF InsertToken
  <1>2. Issued' = Issued \union {t} /\ family'[t] = f
    BY <1>1 DEF Inv, TypeOK, Issued
  <1>3. RowsKept
    BY <1>1, <1>2 DEF RowsKept, Issued, Inv, TypeOK
  <1>4. NewRowsElsewhere
    BY <1>2 DEF NewRowsElsewhere
  <1>5. QED BY <1>3, <1>4

(* A refresh is accepted only for a token of a family that has not ended. *)
LEMMA AcceptKeepsEnded ==
  ASSUME Inv, NEW r \in Request, NEW t \in Token, RefreshAccept(r, t),
         NEW f \in Family, Ended(f)
  PROVE  Ended(f)'
  <1>1. /\ t \in Usable /\ UNCHANGED <<owner, family, revoked, expired>>
        /\ Present(r, t, "refresh.revoke")
    BY DEF RefreshAccept, table
  <1>2. family[t] # f
    BY <1>1 DEF Ended, TokensIn, Usable, Issued
  <1>3. PICK q \in Requests : request' = [request EXCEPT ![r] = q] /\ q.token = t
    <2>1. ASSUME NEW i \in Requests
          PROVE  LET j == [i EXCEPT !.pc = "refresh.revoke", !.token = t]
                 IN j \in Requests /\ j.token = t
      BY DEF Requests, Labels
    <2>2. QED BY <1>1, <2>1, IdleRequestType DEF Present
  <1>4. ~InFlight(f)'
    BY <1>1, <1>2, <1>3 DEF InFlight, Exchanging, Ended, Inv, TypeOK
  <1>5. TokensIn(f)' = TokensIn(f) /\ Usable' = Usable
    BY <1>1 DEF TokensIn, Usable, Issued
  <1>6. QED BY <1>4, <1>5 DEF Ended

(* No step gives an ended family a usable token or an exchange. *)
LEMMA EndedStep ==
  ASSUME Inv, [Next]_vars, NEW f \in Family, Ended(f)
  PROVE  Ended(f)'
  <1>1. HandlersReady'
    BY NextInv DEF Inv
  <1>2. CASE \E r \in Request, t \in Token : RefreshAccept(r, t)
    BY <1>2, AcceptKeepsEnded
  <1>3. ASSUME NEW r \in Request, Start(r), ~(\E t \in Token : RefreshAccept(r, t))
        PROVE  Ended(f)'
    <2>1. UNCHANGED table
      BY <1>3 DEF Start, LoginWrong, LoginRight, RegisterRead, ChangeRead, ConfirmRead,
                  RefreshReuse, RefreshAccept
    <2>2. RowsKept /\ NewRowsElsewhere
      BY <2>1, NoRowsAdded DEF table
    <2>3. NoNewExchange
      BY <1>3, StartExchange
    <2>4. QED BY SMTT(20), <1>1, <2>2, <2>3, EndedKept
  <1>4. ASSUME NEW r \in Request,
               \/ LoginFail(r) \/ LoginReset(r) \/ RegisterCreate(r) \/ ChangeSet(r)
               \/ ConfirmSet(r) \/ ReuseSweep(r) \/ RefreshRevoke(r) \/ SweepUser(r)
        PROVE  Ended(f)'
    <2>1. RowsKept /\ NewRowsElsewhere
      BY <1>4, NoRowsAdded
      DEF LoginFail, LoginReset, RegisterCreate, ChangeSet, ConfirmSet, ReuseSweep,
          RefreshRevoke, SweepUser, Revoke, table
    <2>2. \/ Finish(r)
          \/ \E label \in {"issue", "sweep"} : Continue(r, label)
          \/ Exchanging(r) /\ Continue(r, "refresh.issue")
      BY <1>4 DEF LoginFail, LoginReset, RegisterCreate, ChangeSet, ConfirmSet, ReuseSweep,
                  RefreshRevoke, SweepUser, Exchanging, At
    <2>3. {"issue", "sweep"} \subseteq Labels \intersect UserLabels /\ "refresh.issue" \in Labels
      BY DEF Labels, UserLabels
    <2>4. NoNewExchange
      BY <2>2, <2>3, FinishExchange, ContinueExchange
    <2>5. QED BY <1>1, <2>1, <2>4, EndedKept
  <1>5. ASSUME NEW r \in Request, OpenSession(r)
        PROVE  Ended(f)'
    <2>1. PICK t \in Token, g \in FreshFamilies : InsertToken(t, request[r].user, g, NoToken)
      BY <1>5 DEF OpenSession
    <2>2. g \in Family /\ ~Ended(g)
      BY DEF FreshFamilies, Ended
    <2>3. request[r].user \in User
      BY <1>5, RequestOfUser DEF OpenSession, At, UserLabels
    <2>4. RowsKept /\ NewRowsElsewhere
      BY <2>1, <2>2, <2>3, RowAdded
    <2>5. NoNewExchange
      BY <1>5, FinishExchange DEF OpenSession
    <2>6. QED BY <1>1, <2>4, <2>5, EndedKept
  <1>6. ASSUME NEW r \in Request, RefreshIssue(r)
        PROVE  Ended(f)'
    <2> DEFINE old == request[r].token
    <2>1. PICK t \in Token : InsertToken(t, owner[old], family[old], old)
      BY <1>6 DEF RefreshIssue
    <2>2. owner[old] \in User /\ family[old] \in Family
      BY <1>6, RequestOfToken DEF RefreshIssue, At, TokenLabels
    <2>3. ~Ended(family[old])
      BY <1>6 DEF RefreshIssue, At, Ended, InFlight, Exchanging
    <2>4. RowsKept /\ NewRowsElsewhere
      BY <2>1, <2>2, <2>3, RowAdded
    <2>5. NoNewExchange
      BY <1>6, FinishExchange DEF RefreshIssue
    <2>6. QED BY <1>1, <2>4, <2>5, EndedKept
  <1>7. ASSUME NEW r \in Request, CutOff(r) \/ Lost(r)
        PROVE  Ended(f)'
    <2>1. RowsKept /\ NewRowsElsewhere
      BY <1>7, NoRowsAdded DEF CutOff, Lost, table
    <2>2. CASE Lost(r)
      <3>1. NoNewExchange
        BY <2>2, FinishExchange DEF Lost
      <3>2. QED BY <1>1, <2>1, <3>1, EndedKept
    <2>3. CASE CutOff(r)
      <3>1. request[r] \in Requests
        BY DEF Inv, TypeOK
      <3>2. request' = [request EXCEPT ![r] = [request[r] EXCEPT !.orphan = TRUE]]
        BY <2>3 DEF CutOff
      <3>3. \A q \in Request : request'[q].pc = request[q].pc /\ request'[q].token = request[q].token
        BY <3>1, <3>2 DEF Inv, TypeOK, Requests
      <3>4. NoNewExchange
        BY <3>3 DEF NoNewExchange, Exchanging
      <3>5. QED BY <1>1, <2>1, <3>4, EndedKept
    <2>4. QED BY <1>7, <2>2, <2>3
  <1>8. CASE \/ \E t \in Token : Logout(t) \/ TokenExpires(t)
             \/ \E u \in User : LogoutAll(u) \/ LockExpires(u)
             \/ UNCHANGED vars
    <2>1. RowsKept /\ NewRowsElsewhere /\ UNCHANGED request
      BY <1>8, NoRowsAdded DEF Logout, TokenExpires, LogoutAll, LockExpires, Revoke, table, vars
    <2>2. NoNewExchange
      BY <2>1 DEF NoNewExchange, Exchanging
    <2>3. QED BY <1>1, <2>1, <2>2, EndedKept
  <1>9. QED BY <1>2, <1>3, <1>4, <1>5, <1>6, <1>7, <1>8 DEF Next, Statement

-----------------------------------------------------------------------------
(* The tokens table implements the ledger of sessions *)

(* A row that appears continues a family and its user. *)
NewRowsFollow ==
  \A t \in Issued' \ Issued :
    \E s \in Issued : family[s] = family'[t] /\ owner[s] = owner'[t]

(* Unless a session is opened, rows are kept and new ones follow old ones. *)
LEMMA RowsOfStep ==
  ASSUME Inv, [Next]_vars, ~(\E r \in Request : OpenSession(r))
  PROVE  RowsKept /\ NewRowsFollow
  <1>1. CASE \E r \in Request : RefreshIssue(r)
    <2>1. PICK r \in Request : RefreshIssue(r)
      BY <1>1
    <2> DEFINE old == request[r].token
    <2>2. PICK t \in Token : InsertToken(t, owner[old], family[old], old)
      BY <2>1 DEF RefreshIssue
    <2>3. old \in Issued /\ owner[old] \in User /\ family[old] \in Family
      BY <2>1, RequestOfToken DEF RefreshIssue, At, TokenLabels
    <2>4. ~Ended(family[old])
      BY <2>1 DEF RefreshIssue, At, Ended, InFlight, Exchanging
    <2>5. RowsKept
      BY <2>2, <2>3, <2>4, RowAdded
    <2>6. /\ Issued' = Issued \union {t}
          /\ family'[t] = family[old] /\ owner'[t] = owner[old]
      BY <2>2, <2>3 DEF InsertToken, Inv, TypeOK, Issued
    <2>7. QED BY <2>3, <2>5, <2>6 DEF NewRowsFollow
  <1>2. CASE ~(\E r \in Request : RefreshIssue(r))
    <2>1. /\ UNCHANGED <<owner, family>>
          /\ revoked \subseteq revoked' /\ expired \subseteq expired'
      BY <1>2, ZenonT(60) DEF Next, Start, Statement, LoginWrong, LoginRight, RegisterRead, ChangeRead,
            ConfirmRead, RefreshReuse, RefreshAccept, LoginFail, LoginReset, RegisterCreate,
            ChangeSet, ConfirmSet, ReuseSweep, RefreshRevoke, SweepUser, CutOff, Lost,
            Logout, LogoutAll, TokenExpires, LockExpires, Revoke, table, vars
    <2>2. RowsKept
      BY <2>1, NoRowsAdded
    <2>3. Issued' = Issued
      BY <2>1 DEF Issued
    <2>4. QED BY <2>2, <2>3 DEF NewRowsFollow
  <1>3. QED BY <1>1, <1>2

(* Rows of a family stay rows of it, and a family without rows gets none   *)
(* from a step that opens no session.                                      *)
LEMMA FamiliesKept ==
  ASSUME Inv, Inv', RowsKept, NewRowsFollow, NEW f \in Family
  PROVE  /\ TokensIn(f) = {} <=> TokensIn(f)' = {}
         /\ SessionHolders'[f] = SessionHolders[f]
  <1>1. /\ TokensIn(f) = {t \in Issued : family[t] = f}
        /\ TokensIn(f)' = {t \in Issued' : family'[t] = f}
    BY DEF TokensIn, Issued, Inv, RowsComplete
  <1>2. TokensIn(f) \subseteq TokensIn(f)'
    BY <1>1 DEF RowsKept
  <1>3. ASSUME NEW t \in TokensIn(f)'
        PROVE  \E s \in TokensIn(f) : owner[s] = owner'[t]
    <2>1. CASE t \in Issued
      BY <1>1, <1>3, <2>1 DEF RowsKept
    <2>2. CASE t \notin Issued
      BY <1>1, <1>3, <2>2 DEF NewRowsFollow
    <2>3. QED BY <2>1, <2>2
  <1>4. \A s \in TokensIn(f) : owner'[s] = owner[s]
    BY <1>1 DEF RowsKept
  <1>5. {owner[s] : s \in TokensIn(f)} = {owner'[t] : t \in TokensIn(f)'}
    BY <1>2, <1>3, <1>4
  <1>6. QED BY <1>2, <1>3, <1>5 DEF SessionHolders

(* Such a step closes some sessions, or none, in the ledger. *)
LEMMA CloseStep ==
  ASSUME Inv, [Next]_vars, ~(\E r \in Request : OpenSession(r))
  PROVE  Ledger!LedgerNext
  <1> DEFINE S == {f \in Family : SessionStatus[f] = "open" /\ SessionStatus'[f] = "closed"}
  <1>1. Inv' /\ RowsKept /\ NewRowsFollow
    BY NextInv, RowsOfStep
  <1>2. ASSUME NEW f \in Family
        PROVE  SessionStatus'[f] = IF f \in S THEN "closed" ELSE SessionStatus[f]
    <2>1. TokensIn(f) = {} <=> TokensIn(f)' = {}
      BY <1>1, FamiliesKept
    <2>2. Ended(f) => Ended(f)'
      BY EndedStep
    <2>3. QED BY <2>1, <2>2 DEF SessionStatus
  <1>3. SessionStatus' = [f \in Family |-> IF f \in S THEN "closed" ELSE SessionStatus[f]]
    BY <1>2 DEF SessionStatus
  <1>4. SessionHolders' = SessionHolders
    BY <1>1, FamiliesKept DEF SessionHolders
  <1>5. Ledger!Close(S)
    BY <1>3, <1>4 DEF Ledger!Close
  <1>6. QED BY <1>5 DEF Ledger!LedgerNext

(* Opening a session opens it in the ledger. *)
LEMMA OpenStep ==
  ASSUME Inv, NEW r \in Request, OpenSession(r)
  PROVE  Ledger!LedgerNext
  <1> DEFINE u == request[r].user
  <1>1. PICK t \in Token, g \in FreshFamilies : InsertToken(t, u, g, NoToken)
    BY DEF OpenSession
  <1>2. g \in Family /\ TokensIn(g) = {} /\ u \in User
    BY RequestOfUser DEF FreshFamilies, OpenSession, At, UserLabels
  <1>3. /\ owner' = [owner EXCEPT ![t] = u] /\ family' = [family EXCEPT ![t] = g]
        /\ UNCHANGED <<revoked, expired>> /\ t \in Token \ Issued
    BY <1>1 DEF InsertToken
  <1>4. /\ TokensIn(g)' = {t}
        /\ Issued' = Issued \union {t}
        /\ t \notin revoked' /\ t \notin expired'
        /\ owner'[t] = u
    BY <1>2, <1>3 DEF TokensIn, Issued, Inv, TypeOK, RowsComplete, RowsMarked
  <1>5. \A q \in Request : /\ Exchanging(q)' <=> Exchanging(q)
                           /\ Exchanging(q) => request'[q].token = request[q].token
    BY DEF OpenSession, At, Finish, IdleRequest, Exchanging, Inv, TypeOK
  <1>6. ASSUME NEW f \in Family \ {g}
        PROVE  SessionStatus'[f] = SessionStatus[f] /\ SessionHolders'[f] = SessionHolders[f]
    <2>1. /\ TokensIn(f)' = TokensIn(f)
          /\ \A s \in TokensIn(f) : owner'[s] = owner[s] /\ s \in Issued
      BY <1>2, <1>3 DEF TokensIn, Inv, TypeOK, RowsComplete, Issued
    <2>2. TokensIn(f)' \intersect Usable' = TokensIn(f) \intersect Usable
      BY <1>3, <1>4, <2>1 DEF Usable
    <2>3. \A q \in Request : Exchanging(q) => family'[request[q].token] = family[request[q].token]
      BY <1>3, RequestOfToken DEF Exchanging, TokenLabels, Inv, TypeOK, Issued
    <2>4. InFlight(f)' <=> InFlight(f)
      BY <1>5, <2>3 DEF InFlight
    <2>5. {owner'[s] : s \in TokensIn(f)'} = {owner[s] : s \in TokensIn(f)}
      BY <2>1
    <2>6. QED BY <2>1, <2>2, <2>4, <2>5 DEF SessionStatus, SessionHolders, Ended
  <1>7. SessionStatus[g] = "unused" /\ SessionHolders[g] = {}
    BY <1>2 DEF SessionStatus, SessionHolders
  <1>8. SessionStatus'[g] = "open" /\ SessionHolders'[g] = {u}
    BY <1>2, <1>4 DEF SessionStatus, SessionHolders, Ended, Usable
  <1>9. /\ SessionStatus' = [SessionStatus EXCEPT ![g] = "open"]
        /\ SessionHolders' = [SessionHolders EXCEPT ![g] = {u}]
    BY <1>2, <1>6, <1>8, ZenonT(60) DEF SessionStatus, SessionHolders
  <1>10. Ledger!Open(g, u)
    BY <1>7, <1>9 DEF Ledger!Open
  <1>11. QED BY <1>2, <1>10 DEF Ledger!LedgerNext

(* The tables and handlers implement the ledger: a session is opened once, *)
(* for one user, may be closed, and never opens again.                     *)
THEOREM Refinement == Spec => ImplementsLedger
  <1>1. Init => Ledger!LedgerInit
    BY DEF Init, Ledger!LedgerInit, SessionStatus, SessionHolders, TokensIn
  <1>2. Inv /\ [Next]_vars => [Ledger!LedgerNext]_(Ledger!ledger)
    BY OpenStep, CloseStep
  <1>3. QED BY <1>1, <1>2, Invariance, PTL DEF Spec, ImplementsLedger, Ledger!LedgerSpec

-----------------------------------------------------------------------------
(* How far the upgrade of a hash can change a password *)

(* What the writes of an account leave of its password and hash format.    *)
LEMMA AccountWrites ==
  ASSUME NEW a \in Accounts
  PROVE  /\ \A n : Counted(a, n).password = a.password /\ Counted(a, n).legacy = a.legacy
         /\ Cleared(a).password = a.password /\ Cleared(a).legacy = a.legacy
         /\ \A p : Rehash(a, p).password = p /\ ~Rehash(a, p).legacy
  BY DEF Counted, Cleared, Rehash, Accounts

(* A new account has the password it was created with.                     *)
LEMMA NewAccountWrites ==
  ASSUME NEW p
  PROVE  NewAccount(p, FALSE).password = p /\ ~NewAccount(p, FALSE).legacy
  <1>1. ASSUME NEW a \in Accounts
        PROVE  /\ [a EXCEPT !.password = p, !.legacy = FALSE].password = p
               /\ ~[a EXCEPT !.password = p, !.legacy = FALSE].legacy
    BY DEF Accounts
  <1>2. QED BY <1>1, NoAccountType DEF NewAccount

(* The record of a login that may have to upgrade a hash.                  *)
LoginRecord(i, u) ==
  [i EXCEPT !.pc = "login.reset", !.user = u, !.password = account[u].password,
            !.rehash = account[u].legacy]

(* What each way to start puts into the handler's record. *)
LEMMA StartRecord ==
  ASSUME Inv, NEW r \in Request, Start(r)
  PROVE  LET q == request'[r]
         IN \/ /\ q.pc = "login.fail" /\ ~q.rehash
               /\ q.user \in User /\ q.failed = account[q.user].failed
            \/ /\ q.pc \in {"register.create", "change.set", "confirm.set"} /\ ~q.rehash
               /\ q.password \in Password
            \/ /\ q.pc = "login.reset"
               /\ q.user \in User /\ Registered(q.user)
               /\ q.password = account[q.user].password /\ q.rehash = account[q.user].legacy
            \/ q.pc = "reuse.sweep" /\ ~q.rehash
            \/ q.pc = "refresh.revoke" /\ ~q.rehash /\ q.token \in Usable
  <1>1. ASSUME NEW q, request' = [request EXCEPT ![r] = q]
        PROVE  request'[r] = q
    BY <1>1 DEF Inv, TypeOK
  <1>2. ASSUME NEW u \in User, NEW p \in Password, LoginWrong(r, u, p)
        PROVE  /\ request'[r].pc = "login.fail" /\ ~request'[r].rehash
               /\ request'[r].user = u /\ request'[r].failed = account[u].failed
    <2> DEFINE q == [IdleRequest EXCEPT !.pc = "login.fail", !.user = u,
                                        !.failed = account[u].failed]
    <2>1. ASSUME NEW i \in Requests, NEW n
          PROVE  LET j == [i EXCEPT !.pc = "login.fail", !.user = u, !.failed = n]
                 IN /\ j.pc = "login.fail" /\ j.rehash = i.rehash
                    /\ j.user = u /\ j.failed = n
      BY DEF Requests
    <2>2. IdleRequest \in Requests /\ ~IdleRequest.rehash
      BY IdleRequestType DEF IdleRequest
    <2>3. q.pc = "login.fail" /\ ~q.rehash /\ q.user = u /\ q.failed = account[u].failed
      BY <2>1, <2>2
    <2>4. request' = [request EXCEPT ![r] = q]
      BY <1>2 DEF LoginWrong
    <2> HIDE DEF q
    <2>5. QED BY <1>1, <2>3, <2>4
  <1>3. ASSUME NEW u \in User, LoginRight(r, u)
        PROVE  /\ request'[r].pc = "login.reset"
               /\ request'[r].user = u /\ Registered(u)
               /\ request'[r].password = account[u].password
               /\ request'[r].rehash = account[u].legacy
    <2>1. ASSUME NEW i \in Requests
          PROVE  LET j == LoginRecord(i, u)
                 IN /\ j.pc = "login.reset" /\ j.user = u
                    /\ j.password = account[u].password /\ j.rehash = account[u].legacy
      BY DEF Requests, LoginRecord
    <2>2. request' = [request EXCEPT ![r] = LoginRecord(IdleRequest, u)] /\ Registered(u)
      BY <1>3 DEF LoginRight, LoginRecord
    <2>3. QED BY <1>1, <2>1, <2>2, IdleRequestType
  <1>4. ASSUME NEW u \in User, NEW p \in Password,
               \/ RegisterRead(r, u, p) \/ ChangeRead(r, u, p) \/ ConfirmRead(r, u, p)
        PROVE  /\ request'[r].pc \in {"register.create", "change.set", "confirm.set"}
               /\ ~request'[r].rehash /\ request'[r].password \in Password
    <2>1. PICK label \in {"register.create", "change.set", "confirm.set"} :
            Begin(r, label, u, p)
      BY <1>4 DEF RegisterRead, ChangeRead, ConfirmRead
    <2>2. ASSUME NEW i \in Requests
          PROVE  LET j == [i EXCEPT !.pc = label, !.user = u, !.password = p]
                 IN j.pc = label /\ j.password = p /\ j.rehash = i.rehash
      BY DEF Requests
    <2>3. IdleRequest \in Requests /\ ~IdleRequest.rehash
      BY IdleRequestType DEF IdleRequest
    <2>4. QED BY <1>1, <2>1, <2>2, <2>3 DEF Begin
  <1>5. ASSUME NEW t \in Token, NEW label, Present(r, t, label)
        PROVE  request'[r].pc = label /\ request'[r].token = t /\ ~request'[r].rehash
    <2>1. ASSUME NEW i \in Requests
          PROVE  LET j == [i EXCEPT !.pc = label, !.token = t]
                 IN j.pc = label /\ j.token = t /\ j.rehash = i.rehash
      BY DEF Requests
    <2>2. IdleRequest \in Requests /\ ~IdleRequest.rehash
      BY IdleRequestType DEF IdleRequest
    <2>3. QED BY <1>1, <1>5, <2>1, <2>2 DEF Present
  <1>6. CASE \E u \in User, p \in Password :
               \/ LoginWrong(r, u, p)
               \/ RegisterRead(r, u, p) \/ ChangeRead(r, u, p) \/ ConfirmRead(r, u, p)
    BY <1>2, <1>4, <1>6
  <1>7. CASE \E u \in User : LoginRight(r, u)
    BY <1>3, <1>7
  <1>8. CASE \E t \in Token : RefreshReuse(r, t) \/ RefreshAccept(r, t)
    BY <1>5, <1>8 DEF RefreshReuse, RefreshAccept
  <1>9. QED BY <1>6, <1>7, <1>8 DEF Start

(* A handler that ends leaves the others where they were, *)
LEMMA FinishMoves ==
  ASSUME TypeOK, NEW r \in Request, Finish(r)
  PROVE  /\ \A s \in Request \ {r} : request'[s] = request[s]
         /\ request'[r].pc = "idle" /\ ~request'[r].rehash
  BY DEF Finish, IdleRequest, TypeOK

(* and so does one that goes on, about what it was about. *)
LEMMA ContinueMoves ==
  ASSUME TypeOK, NEW r \in Request, NEW label \in Labels, Continue(r, label)
  PROVE  /\ \A s \in Request \ {r} : request'[s] = request[s]
         /\ \/ request[r].orphan /\ request'[r].pc = "idle" /\ ~request'[r].rehash
            \/ /\ request'[r].pc = label
               /\ request'[r].user = request[r].user
               /\ request'[r].password = request[r].password
               /\ request'[r].token = request[r].token
               /\ request'[r].rehash = request[r].rehash
  <1>1. CASE request[r].orphan
    BY <1>1, FinishMoves DEF Continue
  <1>2. CASE ~request[r].orphan
    <2>1. request[r] \in Requests
      BY DEF TypeOK
    <2>2. request' = [request EXCEPT ![r] = [request[r] EXCEPT !.pc = label]]
      BY <1>2 DEF Continue
    <2>3. QED BY <2>1, <2>2 DEF TypeOK, Requests
  <1>3. QED BY <1>1, <1>2

(* The steps that write no account. *)
LEMMA AccountsKept ==
  ASSUME [Next]_vars,
         ~(\E r \in Request : \/ LoginFail(r) \/ LoginReset(r) \/ RegisterCreate(r)
                              \/ ChangeSet(r) \/ ConfirmSet(r)),
         ~(\E u \in User : LockExpires(u))
  PROVE  UNCHANGED account
  BY ZenonT(60) DEF Next, Start, Statement, LoginWrong, LoginRight, RegisterRead, ChangeRead,
         ConfirmRead, RefreshReuse, RefreshAccept, OpenSession, ReuseSweep, RefreshRevoke,
         RefreshIssue, SweepUser, CutOff, Lost, Logout, LogoutAll, TokenExpires, vars

(* A step is the login that upgrades the hash of u to one of another       *)
(* password.                                                               *)
Upgrading(u) ==
  \E r \in Request : /\ LoginReset(r) /\ request[r].user = u /\ request[r].rehash
                    /\ request[r].password # account[u].password

(* An account whose password differs after a step was created or changed   *)
(* by it, or a login upgraded its hash; it then has no legacy hash, and    *)
(* nothing becomes legacy.                                                 *)
LEMMA PasswordStep ==
  ASSUME Inv, [Next]_vars, NEW u \in User
  PROVE  /\ account[u].password # account'[u].password => PasswordSetBy(u) \/ Upgrading(u)
         /\ account'[u].legacy
              => account[u].legacy /\ account'[u].password = account[u].password
  <1>1. account[u] \in Accounts /\ TypeOK
    BY DEF Inv, TypeOK
  <1>2. ASSUME NEW r \in Request,
               \/ LoginFail(r) \/ LoginReset(r) \/ RegisterCreate(r)
               \/ ChangeSet(r) \/ ConfirmSet(r)
        PROVE  /\ account[u].password # account'[u].password => PasswordSetBy(u) \/ Upgrading(u)
               /\ account'[u].legacy
                    => account[u].legacy /\ account'[u].password = account[u].password
    <2> DEFINE v == request[r].user
               p == request[r].password
    <2>1. v \in User /\ account[v] \in Accounts /\ account \in [User -> Accounts]
      BY <1>2, RequestOfUser
      DEF LoginFail, LoginReset, RegisterCreate, ChangeSet, ConfirmSet, At, UserLabels,
          Inv, TypeOK
    <2>2. CASE u # v
      <3>1. account'[u] = account[u]
        BY <1>2, <2>1, <2>2 DEF LoginFail, LoginReset, RegisterCreate, ChangeSet, ConfirmSet
      <3>2. QED BY <3>1
    <2>3. CASE u = v /\ LoginFail(r)
      <3>1. account'[u] = Counted(account[u], Attempts(request[r].failed))
        BY <2>1, <2>3 DEF LoginFail
      <3>2. account'[u].password = account[u].password /\ account'[u].legacy = account[u].legacy
        BY <1>1, <3>1, AccountWrites
      <3>3. QED BY <3>2
    <2>4. CASE u = v /\ LoginReset(r)
      <3>1. account'[u] = IF request[r].rehash THEN Rehash(Cleared(account[u]), p)
                          ELSE Cleared(account[u])
        BY <2>1, <2>4 DEF LoginReset
      <3>2. Cleared(account[u]) \in Accounts
        BY <1>1, ClearedType
      <3>4. CASE request[r].rehash
        <4>1. account'[u].password = p /\ ~account'[u].legacy
          BY <3>1, <3>2, <3>4, AccountWrites
        <4>2. QED BY <2>4, <3>4, <4>1 DEF Upgrading
      <3>5. CASE ~request[r].rehash
        <4>1. /\ account'[u].password = account[u].password
              /\ account'[u].legacy = account[u].legacy
          BY <1>1, <3>1, <3>5, AccountWrites
        <4>2. QED BY <4>1
      <3>6. QED BY <3>4, <3>5
    <2>5. CASE u = v /\ RegisterCreate(r)
      <3>1. CASE Registered(u)
        <4>1. UNCHANGED account
          BY <2>5, <3>1 DEF RegisterCreate
        <4>2. QED BY <4>1
      <3>2. CASE ~Registered(u)
        <4>1. Continue(r, "issue") /\ request[r].pc = "register.create" /\ "issue" \in Labels
          BY <2>5, <3>2 DEF RegisterCreate, At, Labels
        <4>2. request'[r].pc # request[r].pc
          BY <1>1, <4>1, ContinueMoves
        <4>3. account'[u] = NewAccount(p, FALSE)
          BY <2>1, <2>5, <3>2 DEF RegisterCreate
        <4>4. ~account'[u].legacy
          BY <4>3, NewAccountWrites
        <4>5. QED BY <2>5, <3>2, <4>1, <4>2, <4>4 DEF PasswordSetBy
      <3>3. QED BY <3>1, <3>2
    <2>6. CASE u = v /\ (ChangeSet(r) \/ ConfirmSet(r))
      <3>1. /\ Continue(r, "sweep") /\ "sweep" \in Labels
            /\ request[r].pc \in {"change.set", "confirm.set"}
        BY <2>6 DEF ChangeSet, ConfirmSet, At, Labels
      <3>2. request'[r].pc # request[r].pc
        BY <1>1, <3>1, ContinueMoves
      <3>3. account'[u] = Rehash(account[u], p) \/ account'[u] = NewAccount(p, FALSE)
        BY <2>1, <2>6 DEF ChangeSet, ConfirmSet
      <3>4. ~Rehash(account[u], p).legacy
        BY <1>1, AccountWrites
      <3>5. ~NewAccount(p, FALSE).legacy
        BY NewAccountWrites
      <3>6. ~account'[u].legacy
        BY <3>3, <3>4, <3>5
      <3>7. QED BY <2>6, <3>1, <3>2, <3>6 DEF PasswordSetBy
    <2>7. QED BY <1>2, <2>2, <2>3, <2>4, <2>5, <2>6
  <1>3. ASSUME NEW v \in User, LockExpires(v)
        PROVE  account'[u].password = account[u].password /\ account'[u].legacy = account[u].legacy
    BY <1>1, <1>3 DEF LockExpires, TypeOK, Accounts
  <1>4. CASE UNCHANGED account
    BY <1>4
  <1>5. QED BY <1>2, <1>3, <1>4, AccountsKept

(* A login about to reset is one that just read the account, or was about  *)
(* to before the step.                                                     *)
LEMMA ResetOrigin ==
  ASSUME Inv, [Next]_vars, NEW s \in Request, request'[s].pc = "login.reset"
  PROVE  \/ /\ request[s].pc = "login.reset"
            /\ request'[s].user = request[s].user
            /\ request'[s].password = request[s].password
            /\ request'[s].rehash = request[s].rehash
         \/ /\ UNCHANGED account
            /\ request'[s].user \in User
            /\ request'[s].password = account[request'[s].user].password
            /\ request'[s].rehash = account[request'[s].user].legacy
  <1>1. ASSUME NEW r \in Request, Start(r), s = r
        PROVE  /\ UNCHANGED account
               /\ request'[s].user \in User
               /\ request'[s].password = account[request'[s].user].password
               /\ request'[s].rehash = account[request'[s].user].legacy
    <2>1. UNCHANGED account
      BY <1>1 DEF Start, LoginWrong, LoginRight, RegisterRead, ChangeRead, ConfirmRead,
                  RefreshReuse, RefreshAccept
    <2>2. QED BY <1>1, <2>1, StartRecord
  <1>2. ASSUME NEW r \in Request, Start(r), s # r
        PROVE  request'[s] = request[s]
    BY <1>2, StartShape DEF Starts, Inv, TypeOK
  <1>3. ASSUME NEW r \in Request, Statement(r) \/ Lost(r)
        PROVE  request'[s] = request[s]
    <2>1. \/ Finish(r)
          \/ \E label \in {"issue", "sweep", "refresh.issue"} : Continue(r, label)
      BY <1>3 DEF Statement, Lost, LoginFail, LoginReset, RegisterCreate, OpenSession,
                  ReuseSweep, RefreshRevoke, RefreshIssue, ChangeSet, ConfirmSet, SweepUser
    <2>2. {"issue", "sweep", "refresh.issue"} \subseteq Labels /\ TypeOK
      BY DEF Labels, Inv
    <2>3. s # r
      BY <2>1, <2>2, FinishMoves, ContinueMoves
    <2>4. QED BY <2>1, <2>2, <2>3, FinishMoves, ContinueMoves
  <1>4. ASSUME NEW r \in Request, CutOff(r)
        PROVE  /\ request[s].pc = "login.reset"
               /\ request'[s].user = request[s].user
               /\ request'[s].password = request[s].password
               /\ request'[s].rehash = request[s].rehash
    <2>1. request[s] \in Requests
      BY DEF Inv, TypeOK
    <2>2. QED BY <1>4, <2>1 DEF CutOff, Inv, TypeOK, Requests
  <1>5. CASE UNCHANGED request
    BY <1>5
  <1>6. QED BY <1>1, <1>2, <1>3, <1>4, <1>5
        DEF Next, Logout, LogoutAll, TokenExpires, LockExpires, vars

(* While an account has a hash of the old format, a login that is to       *)
(* upgrade it holds the account's password.                                *)
UpgradersKnow ==
  \A r \in Request :
    At(r, "login.reset") /\ request[r].rehash /\ account[request[r].user].legacy
      => request[r].password = account[request[r].user].password

(* No step changes that: what replaces the password replaces the hash.     *)
LEMMA UpgradersStep ==
  ASSUME Inv, UpgradersKnow, [Next]_vars
  PROVE  UpgradersKnow'
  <1> SUFFICES ASSUME NEW s \in Request,
                      request'[s].pc = "login.reset", request'[s].rehash,
                      account'[request'[s].user].legacy
               PROVE  request'[s].password = account'[request'[s].user].password
    BY DEF UpgradersKnow, At
  <1>1. CASE /\ request[s].pc = "login.reset"
             /\ request'[s].user = request[s].user
             /\ request'[s].password = request[s].password
             /\ request'[s].rehash = request[s].rehash
    <2>1. request[s].user \in User
      BY <1>1, RequestOfUser DEF UserLabels
    <2>2. /\ account[request[s].user].legacy
          /\ account'[request[s].user].password = account[request[s].user].password
      BY <1>1, <2>1, PasswordStep
    <2>3. QED BY <1>1, <2>2 DEF UpgradersKnow, At
  <1>2. CASE /\ UNCHANGED account
             /\ request'[s].password = account[request'[s].user].password
    BY <1>2
  <1>3. QED BY <1>1, <1>2, ResetOrigin

(* A login changes a password behind its owner's back only after somebody  *)
(* replaced the legacy hash that login has read, and once a hash is of the *)
(* new format no further login will: however the handlers interleave and   *)
(* wherever they are cut off.                                              *)
THEOREM UpgradesAreBounded == Spec => UpgradesBounded
  <1>1. Init => UpgradersKnow
    BY DEF Init, UpgradersKnow, At, IdleRequest
  <1>2. Inv /\ UpgradersKnow /\ [Next]_vars => UpgradersKnow'
    BY UpgradersStep
  <1>3. ASSUME Inv, UpgradersKnow, [Next]_vars, NEW u \in User
        PROVE  /\ account[u].password # account'[u].password /\ ~PasswordSetBy(u)
                    => ~account[u].legacy /\ Upgraders(u)' # Upgraders(u)
               /\ ~account[u].legacy => Upgraders(u)' \subseteq Upgraders(u)
    <2>1. ASSUME account[u].password # account'[u].password, ~PasswordSetBy(u)
          PROVE  ~account[u].legacy /\ Upgraders(u)' # Upgraders(u)
      <3>1. PICK r \in Request : /\ LoginReset(r) /\ request[r].user = u /\ request[r].rehash
                                /\ request[r].password # account[u].password
        BY <1>3, <2>1, PasswordStep DEF Upgrading
      <3>2. At(r, "login.reset") /\ Continue(r, "issue") /\ "issue" \in Labels
        BY <3>1 DEF LoginReset, Labels
      <3>3. request'[r].pc # "login.reset"
        BY <1>3, <3>2, ContinueMoves DEF Inv
      <3>4. r \in Upgraders(u) /\ r \notin Upgraders(u)'
        BY <3>1, <3>2, <3>3 DEF Upgraders, At
      <3>5. ~account[u].legacy
        BY <1>3, <3>1, <3>2 DEF UpgradersKnow
      <3>6. QED BY <3>4, <3>5
    <2>2. ASSUME ~account[u].legacy, NEW s \in Upgraders(u)'
          PROVE  s \in Upgraders(u)
      <3>1. /\ s \in Request /\ request'[s].pc = "login.reset"
            /\ request'[s].user = u /\ request'[s].rehash
        BY <2>2 DEF Upgraders, At
      <3>2. QED BY <1>3, <2>2, <3>1, ResetOrigin DEF Upgraders, At
    <2>3. QED BY <2>1, <2>2
  <1>4. Inv /\ UpgradersKnow /\ [Next]_vars
          => [\A u \in User :
                /\ account[u].password # account'[u].password /\ ~PasswordSetBy(u)
                     => ~account[u].legacy /\ Upgraders(u)' # Upgraders(u)
                /\ ~account[u].legacy => Upgraders(u)' \subseteq Upgraders(u)]_vars
    BY <1>3
  <1>5. QED BY <1>1, <1>2, <1>4, Invariance, PTL DEF Spec, UpgradesBounded

-----------------------------------------------------------------------------
(* Requests that follow one another: what a handler found in the tables is *)
(* still so when it writes.                                                *)

StillTrue(q) ==
  /\ q.pc \in {"register.create", "change.set", "confirm.set"} => q.password \in Password
  /\ q.pc \in {"login.reset", "issue"}
       => Registered(q.user) /\ q.password = account[q.user].password
  /\ q.pc \in {"refresh.revoke", "refresh.issue"} =>
       /\ openedWith[family[q.token]] = account[owner[q.token]].password
       /\ family[q.token] \notin reused
       /\ \A t \in Token : parent[t] # q.token
       /\ \A t \in Usable : family[t] = family[q.token] => t = q.token

Orderly ==
  /\ PasswordChangeEndsSessions /\ ReuseEndsFamily
  /\ SingleSuccessor /\ OneUsableTokenPerSession
  /\ \A t \in Issued : Registered(owner[t])
  /\ \A f \in reused : TokensIn(f) # {}
  /\ \A r \in Request : StillTrue(request[r])

AloneInv == alone => Sequential /\ Orderly

(* While one handler is under way the others are idle, before and after.   *)
LEMMA OthersIdle ==
  ASSUME Sequential, NEW r \in Request, ~Idle(r),
         \A s \in Request \ {r} : request'[s] = request[s],
         StillTrue(request[r])'
  PROVE  \A s \in Request : StillTrue(request[s])'
  <1> SUFFICES ASSUME NEW s \in Request \ {r} PROVE StillTrue(request[s])'
    OBVIOUS
  <1>1. request'[s].pc = "idle"
    BY DEF Sequential, Busy, Idle
  <1>2. QED BY <1>1 DEF StillTrue

(* An idle handler holds nothing.                                          *)
LEMMA IdleStillTrue ==
  ASSUME NEW r \in Request, request'[r].pc \in {"idle", "sweep"}
  PROVE  StillTrue(request[r])'
  BY DEF StillTrue

(* And unless it is about to end the sessions of its user, every usable    *)
(* token is of a session opened with the password the account has.         *)
LEMMA NoSweepPending ==
  ASSUME Sequential, Orderly, NEW r \in Request, ~Idle(r), ~At(r, "sweep"),
         NEW t \in Usable
  PROVE  openedWith[family[t]] = account[owner[t]].password
  <1>1. \A s \in Request : ~At(s, "sweep")
    BY DEF Sequential, Busy, Idle, At
  <1>2. QED BY <1>1 DEF Orderly, PasswordChangeEndsSessions

(* Steps that add no token and change no password, revoke and expire what  *)
(* they may, and lose no sweep.                                            *)
LEMMA TokensOnlyEnd ==
  ASSUME Inv, Orderly, UNCHANGED <<owner, family, parent, openedWith>>,
         revoked \subseteq revoked', expired \subseteq expired',
         \A u \in User : account'[u].password = account[u].password,
         \A f \in reused' : TokensIn(f) # {},
         ReuseEndsFamily', PasswordChangeEndsSessions',
         \A r \in Request : StillTrue(request[r])'
  PROVE  Orderly'
  <1>1. Usable' \subseteq Usable /\ Issued' = Issued
    BY DEF Usable, Issued
  <1>2. SingleSuccessor' /\ OneUsableTokenPerSession'
    BY <1>1 DEF Orderly, SingleSuccessor, OneUsableTokenPerSession
  <1>3. \A t \in Issued' : Registered(owner[t])'
    BY <1>1 DEF Orderly, Registered, Issued, Inv, TypeOK
  <1>4. \A f \in reused' : TokensIn(f)' # {}
    BY DEF TokensIn
  <1>5. QED BY <1>2, <1>3, <1>4 DEF Orderly

(* A handler that starts finds the tables in order. *)
LEMMA AloneStart ==
  ASSUME Inv, Orderly, Sequential', NEW r \in Request, Start(r)
  PROVE  Orderly'
  <1>1. UNCHANGED <<account, table, history>>
    BY ZenonT(60) DEF Start, LoginWrong, LoginRight, RegisterRead, ChangeRead, ConfirmRead,
           RefreshReuse, RefreshAccept
  <1>2. Idle(r) /\ \A s \in Request \ {r} : request'[s] = request[s]
    <2>1. Idle(r)
      BY DEF Start, LoginWrong, LoginRight, RegisterRead, ChangeRead, ConfirmRead, Begin,
             RefreshReuse, RefreshAccept, Present
    <2>2. QED BY <2>1, StartShape DEF Starts, Inv, TypeOK
  <1>3. UNCHANGED <<Usable, Issued>>
    BY <1>1 DEF Usable, Issued, table
  <1>4. \A s \in Request \ {r} : request[s].pc = "idle"
    <2>1. ~Idle(r)'
      BY StartRecord DEF Idle
    <2>2. QED BY <1>2, <2>1 DEF Sequential, Busy, Idle
  <1>5. StillTrue(request[r])'
    <2>1. CASE request'[r].pc \in {"register.create", "change.set", "confirm.set"}
      BY <2>1, StartRecord DEF StillTrue
    <2>2. CASE request'[r].pc = "login.reset"
      BY <1>1, <2>2, StartRecord DEF StillTrue, Registered
    <2>3. CASE request'[r].pc = "refresh.revoke"
      <3>1. PICK t : t = request'[r].token
        OBVIOUS
      <3>2. t \in Usable
        BY <2>3, <3>1, StartRecord
      <3>3. openedWith[family[t]] = account[owner[t]].password
        BY <1>2, <1>4, <3>2 DEF Orderly, PasswordChangeEndsSessions, At, Idle
      <3>4. family[t] \notin reused /\ \A s \in Usable : family[s] = family[t] => s = t
        BY <3>2 DEF Orderly, ReuseEndsFamily, OneUsableTokenPerSession
      <3>5. \A s \in Token : parent[s] # t
        BY <3>2 DEF Inv, ExchangedTokensRevoked, Usable, Issued
      <3>6. QED BY <1>1, <1>3, <2>3, <3>1, <3>3, <3>4, <3>5 DEF StillTrue, table, history
    <2>4. CASE request'[r].pc \in {"login.fail", "reuse.sweep"}
      BY <2>4 DEF StillTrue
    <2>5. QED BY <2>1, <2>2, <2>3, <2>4, StartRecord
  <1>6. \A s \in Request : StillTrue(request[s])'
    <2>1. \A s \in Request \ {r} : request'[s].pc = "idle"
      BY <1>2, <1>4
    <2>2. QED BY <1>5, <2>1, IdleStillTrue
  <1>7. PasswordChangeEndsSessions' /\ ReuseEndsFamily'
    <2>1. \A t \in Usable : openedWith[family[t]] = account[owner[t]].password
      BY <1>2, <1>4 DEF Orderly, PasswordChangeEndsSessions, At, Idle
    <2>2. QED BY <1>1, <1>3, <2>1
          DEF Orderly, PasswordChangeEndsSessions, ReuseEndsFamily, table, history
  <1>8. QED BY SMTT(20), <1>1, <1>6, <1>7, TokensOnlyEnd DEF Orderly, table, history

(* A login that fails or passes changes no password.                       *)
LEMMA AloneLogin ==
  ASSUME Inv, Sequential, Orderly, NEW r \in Request, LoginFail(r) \/ LoginReset(r)
  PROVE  Orderly'
  <1>1. UNCHANGED <<table, history>> /\ TypeOK /\ ~Idle(r) /\ ~At(r, "sweep")
    BY DEF LoginFail, LoginReset, At, Idle, Inv
  <1>2. \A s \in Request :
          At(s, "login.reset") => request[s].password = account[request[s].user].password
    BY DEF Orderly, StillTrue, At
  <1>3. \A u \in User : account'[u].password = account[u].password
    <2> SUFFICES ASSUME NEW u \in User, account[u].password # account'[u].password
                 PROVE  FALSE
      OBVIOUS
    <2>1. [Next]_vars
      BY DEF Next, Statement
    <2>2. PICK s \in Request : /\ request[s].pc \in {"register.create", "change.set", "confirm.set"}
                               /\ request'[s] # request[s]
      BY <1>2, <2>1, PasswordStep DEF PasswordSetBy, Upgrading, LoginReset
    <2>3. s # r /\ "issue" \in Labels
      BY <2>2 DEF LoginFail, LoginReset, At, Labels
    <2>4. QED BY <1>1, <2>2, <2>3, FinishMoves, ContinueMoves DEF LoginFail, LoginReset
  <1>4. request[r].user \in User
    BY RequestOfUser DEF LoginFail, LoginReset, At, UserLabels
  <1>5. \A s \in Request : StillTrue(request[s])'
    <2>1. CASE LoginFail(r)
      BY <1>1, <2>1, FinishMoves, IdleStillTrue, OthersIdle DEF LoginFail
    <2>2. CASE LoginReset(r)
      <3>1. Continue(r, "issue") /\ "issue" \in Labels /\ ~request[r].orphan
        BY <2>2 DEF LoginReset, Labels, Sequential
      <3>2. Registered(request[r].user) /\ request[r].password = account[request[r].user].password
        BY <2>2 DEF LoginReset, At, Orderly, StillTrue
      <3>3. StillTrue(request[r])'
        BY <1>1, <1>3, <1>4, <3>1, <3>2, ContinueMoves DEF StillTrue, Registered
      <3>4. QED BY <1>1, <3>1, <3>3, ContinueMoves, OthersIdle
    <2>3. QED BY <2>1, <2>2
  <1>6. PasswordChangeEndsSessions' /\ ReuseEndsFamily'
    <2>1. \A t \in Usable : /\ openedWith[family[t]] = account[owner[t]].password
                            /\ owner[t] \in User
      BY <1>1, NoSweepPending DEF Usable, Issued, Inv, TypeOK
    <2>2. Usable' = Usable
      BY <1>1 DEF Usable, Issued, table
    <2>3. QED BY <1>1, <1>3, <2>1, <2>2
          DEF Orderly, PasswordChangeEndsSessions, ReuseEndsFamily, table, history
  <1>7. QED BY <1>1, <1>3, <1>5, <1>6, TokensOnlyEnd DEF Orderly, table, history

(* An account that is created has opened no session before.                *)
LEMMA AloneRegister ==
  ASSUME Inv, Sequential, Orderly, NEW r \in Request, RegisterCreate(r)
  PROVE  Orderly'
  <1> DEFINE u == request[r].user
             p == request[r].password
  <1>1. UNCHANGED <<table, history>> /\ TypeOK /\ ~Idle(r) /\ ~At(r, "sweep")
    BY DEF RegisterCreate, At, Idle, Inv
  <1>2. u \in User /\ p \in Password
    BY RequestOfUser DEF RegisterCreate, At, UserLabels, Orderly, StillTrue
  <1>3. Usable' = Usable /\ Issued' = Issued
    BY <1>1 DEF Usable, Issued, table
  <1>4. \A t \in Usable : openedWith[family[t]] = account[owner[t]].password
    BY <1>1, NoSweepPending
  <1>5. CASE Registered(u)
    <2>1. Finish(r) /\ UNCHANGED account
      BY <1>5 DEF RegisterCreate
    <2>2. \A s \in Request : StillTrue(request[s])'
      BY <1>1, <2>1, FinishMoves, IdleStillTrue, OthersIdle
    <2>3. PasswordChangeEndsSessions' /\ ReuseEndsFamily'
      BY <1>1, <1>3, <1>4, <2>1
      DEF Orderly, PasswordChangeEndsSessions, ReuseEndsFamily, table, history
    <2>4. QED BY <1>1, <2>1, <2>2, <2>3, TokensOnlyEnd DEF Orderly, table, history
  <1>6. CASE ~Registered(u)
    <2>1. /\ account' = [account EXCEPT ![u] = NewAccount(p, FALSE)]
          /\ Continue(r, "issue") /\ "issue" \in Labels /\ ~request[r].orphan
      BY <1>6 DEF RegisterCreate, Labels, Sequential
    <2>2. account'[u].password = p /\ \A v \in User \ {u} : account'[v] = account[v]
      <3>1. account'[u] = NewAccount(p, FALSE) /\ \A v \in User \ {u} : account'[v] = account[v]
        BY <1>1, <1>2, <2>1 DEF TypeOK
      <3>2. QED BY <3>1, NewAccountWrites
    <2>3. \A s \in Request : StillTrue(request[s])'
      <3>1. /\ request'[r].pc = "issue"
            /\ request'[r].user = u
            /\ request'[r].password = p
        BY <1>1, <2>1, ContinueMoves
      <3>2. p # NoPassword
        BY <1>2
      <3>3. account'[u].password = p
        BY <2>2
      <3>4. Registered(request[r].user)' /\ request'[r].password = account'[request'[r].user].password
        BY <3>1, <3>2, <3>3 DEF Registered
      <3>5. StillTrue(request[r])'
        BY <3>1, <3>4 DEF StillTrue
      <3>6. QED BY <1>1, <2>1, <3>5, ContinueMoves, OthersIdle
    <2>4. \A t \in Issued : owner[t] \in User \ {u}
      BY <1>6 DEF Orderly, Issued, Inv, TypeOK
    <2>5. \A t \in Issued : Registered(owner[t])'
      BY <1>1, <2>2, <2>4 DEF Orderly, Registered, table
    <2>6. PasswordChangeEndsSessions' /\ ReuseEndsFamily'
      BY <1>1, <1>3, <1>4, <2>2, <2>4
      DEF Orderly, PasswordChangeEndsSessions, ReuseEndsFamily, Usable, table, history
    <2>7. SingleSuccessor' /\ OneUsableTokenPerSession' /\ \A f \in reused' : TokensIn(f)' # {}
      BY <1>1, <1>3
      DEF Orderly, SingleSuccessor, OneUsableTokenPerSession, TokensIn, table, history
    <2>8. QED BY <1>1, <1>3, <2>3, <2>5, <2>6, <2>7 DEF Orderly, table
  <1>7. QED BY <1>5, <1>6

(* A password that changes leaves the sweep of its user's sessions to do.  *)
LEMMA AloneChange ==
  ASSUME Inv, Sequential, Orderly, NEW r \in Request, ChangeSet(r) \/ ConfirmSet(r)
  PROVE  Orderly'
  <1> DEFINE u == request[r].user
             p == request[r].password
  <1>1. /\ UNCHANGED <<table, history>> /\ TypeOK /\ ~Idle(r) /\ ~At(r, "sweep")
        /\ Continue(r, "sweep") /\ "sweep" \in Labels /\ ~request[r].orphan
    BY DEF ChangeSet, ConfirmSet, At, Idle, Inv, Labels, Sequential
  <1>2. u \in User /\ p \in Password /\ account[u] \in Accounts
    BY RequestOfUser DEF ChangeSet, ConfirmSet, At, UserLabels, Orderly, StillTrue
  <1>3. Usable' = Usable /\ Issued' = Issued
    BY <1>1 DEF Usable, Issued, table
  <1>4. account'[u].password = p /\ \A v \in User \ {u} : account'[v] = account[v]
    <2>1. /\ account'[u] = Rehash(account[u], p) \/ account'[u] = NewAccount(p, FALSE)
          /\ \A v \in User \ {u} : account'[v] = account[v]
      BY <1>1, <1>2 DEF ChangeSet, ConfirmSet, TypeOK
    <2>2. Rehash(account[u], p).password = p
      BY <1>2, AccountWrites
    <2>3. NewAccount(p, FALSE).password = p
      BY NewAccountWrites
    <2>4. QED BY <2>1, <2>2, <2>3
  <1>5. request'[r].pc = "sweep" /\ request'[r].user = u
    BY <1>1, ContinueMoves
  <1>6. \A s \in Request : StillTrue(request[s])'
    BY <1>1, <1>5, ContinueMoves, IdleStillTrue, OthersIdle
  <1>7. \A t \in Issued : owner[t] \in User /\ Registered(owner[t])'
    <2> SUFFICES ASSUME NEW t \in Issued PROVE owner[t] \in User /\ Registered(owner[t])'
      OBVIOUS
    <2>1. owner[t] \in User /\ owner'[t] = owner[t]
      BY <1>1 DEF Issued, Inv, TypeOK, table
    <2>2. QED BY <1>2, <1>4, <2>1 DEF Orderly, Registered
  <1>8. PasswordChangeEndsSessions'
    <2> SUFFICES ASSUME NEW t \in Usable
                 PROVE  \/ openedWith[family[t]] = account'[owner[t]].password
                        \/ \E s \in Request : At(s, "sweep")' /\ request'[s].user = owner[t]
      BY <1>1, <1>3 DEF PasswordChangeEndsSessions, table, history
    <2>1. CASE owner[t] = u
      BY <1>5, <2>1 DEF At
    <2>2. CASE owner[t] # u
      BY <1>1, <1>4, <1>7, <2>2, NoSweepPending DEF Usable
    <2>3. QED BY <2>1, <2>2
  <1>9. /\ ReuseEndsFamily' /\ SingleSuccessor' /\ OneUsableTokenPerSession'
        /\ \A f \in reused' : TokensIn(f)' # {}
    BY <1>1, <1>3
    DEF Orderly, ReuseEndsFamily, SingleSuccessor, OneUsableTokenPerSession, TokensIn,
        table, history
  <1>10. QED BY <1>1, <1>3, <1>6, <1>7, <1>8, <1>9 DEF Orderly, table

(* A new token of a family none of whose tokens is usable, opened with the *)
(* password of its user, keeps the tables in order.                        *)
LEMMA TokenAdded ==
  ASSUME Inv, Sequential, Orderly, NEW r \in Request, ~Idle(r), ~At(r, "sweep"), Finish(r),
         NEW t \in Token, NEW u \in User, NEW f \in Family,
         NEW from \in Token \union {NoToken}, InsertToken(t, u, f, from),
         UNCHANGED <<account, reused>>,
         \A g \in Family \ {f} : openedWith'[g] = openedWith[g],
         openedWith'[f] = account[u].password, Registered(u),
         f \notin reused,
         \A s \in Token : from # NoToken => parent[s] # from,
         \A s \in Usable : family[s] # f
  PROVE  Orderly'
  <1>1. /\ t \notin Issued
        /\ owner' = [owner EXCEPT ![t] = u] /\ family' = [family EXCEPT ![t] = f]
        /\ parent' = [parent EXCEPT ![t] = from]
        /\ UNCHANGED <<revoked, expired>> /\ TypeOK
    BY DEF InsertToken, Inv
  <1>2. /\ Issued' = Issued \union {t} /\ Usable' = Usable \union {t}
        /\ owner'[t] = u /\ family'[t] = f /\ parent'[t] = from
        /\ \A s \in Issued : owner'[s] = owner[s] /\ family'[s] = family[s]
        /\ \A s \in Token \ {t} : parent'[s] = parent[s]
    <2>1. t \notin revoked /\ t \notin expired
      BY <1>1 DEF Inv, RowsMarked
    <2>2. Issued' = Issued \union {t}
      BY <1>1 DEF TypeOK, Issued
    <2>3. Usable' = Usable \union {t}
      BY <1>1, <2>1, <2>2 DEF Usable
    <2>4. QED BY <1>1, <2>2, <2>3 DEF TypeOK, Issued
  <1>3. \A s \in Request : StillTrue(request[s])'
    BY <1>1, FinishMoves, IdleStillTrue, OthersIdle
  <1>4. PasswordChangeEndsSessions'
    <2> SUFFICES ASSUME NEW s \in Usable'
                 PROVE  openedWith'[family'[s]] = account'[owner'[s]].password
      BY DEF PasswordChangeEndsSessions
    <2>1. CASE s = t
      BY <1>2, <2>1
    <2>2. CASE s # t
      <3>1. s \in Usable /\ family'[s] = family[s] /\ owner'[s] = owner[s]
        BY <1>2, <2>2 DEF Usable
      <3>2. family[s] \in Family \ {f}
        BY <3>1 DEF Usable, Issued, Inv, TypeOK, RowsComplete
      <3>3. QED BY <3>1, <3>2, NoSweepPending
    <2>3. QED BY <2>1, <2>2
  <1>5. ReuseEndsFamily' /\ OneUsableTokenPerSession'
    BY <1>2 DEF Orderly, ReuseEndsFamily, OneUsableTokenPerSession, Usable
  <1>6. SingleSuccessor'
    BY <1>2 DEF Orderly, SingleSuccessor
  <1>7. \A s \in Issued' : Registered(owner[s])'
    BY <1>2 DEF Orderly, Registered
  <1>8. \A g \in reused' : TokensIn(g)' # {}
    <2> SUFFICES ASSUME NEW g \in reused PROVE TokensIn(g)' # {}
      OBVIOUS
    <2>1. PICK s \in Token : family[s] = g
      BY DEF Orderly, TokensIn
    <2>2. g # NoFamily
      BY DEF Inv, TypeOK
    <2>3. s \in Issued
      BY <2>1, <2>2 DEF Inv, RowsComplete, Issued
    <2>4. QED BY <1>2, <2>1, <2>3 DEF TokensIn
  <1>9. QED BY <1>3, <1>4, <1>5, <1>6, <1>7, <1>8 DEF Orderly

(* A session is opened with the password that was found right.             *)
LEMMA AloneOpen ==
  ASSUME Inv, Sequential, Orderly, NEW r \in Request, OpenSession(r)
  PROVE  Orderly'
  <1> DEFINE u == request[r].user
  <1>1. PICK t \in Token, f \in FreshFamilies :
          /\ InsertToken(t, u, f, NoToken)
          /\ openedWith' = [openedWith EXCEPT ![f] = request[r].password]
    BY DEF OpenSession
  <1>2. /\ ~Idle(r) /\ ~At(r, "sweep") /\ Finish(r) /\ UNCHANGED <<account, reused>>
        /\ u \in User /\ Registered(u) /\ request[r].password = account[u].password
    BY RequestOfUser DEF OpenSession, At, Idle, UserLabels, Orderly, StillTrue
  <1>3. f \in Family /\ TokensIn(f) = {}
    BY DEF FreshFamilies
  <1>4. f \notin reused /\ \A s \in Usable : family[s] # f
    BY <1>3 DEF Orderly, TokensIn, Usable, Issued
  <1>5. /\ openedWith'[f] = account[u].password
        /\ \A g \in Family \ {f} : openedWith'[g] = openedWith[g]
    BY <1>1, <1>2, <1>3 DEF Inv, TypeOK
  <1>6. QED BY <1>1, <1>2, <1>3, <1>4, <1>5, TokenAdded

(* A refresh continues the session whose token it has revoked.             *)
LEMMA AloneIssue ==
  ASSUME Inv, Sequential, Orderly, NEW r \in Request, RefreshIssue(r)
  PROVE  Orderly'
  <1> DEFINE old == request[r].token
  <1>1. PICK t \in Token : InsertToken(t, owner[old], family[old], old)
    BY DEF RefreshIssue
  <1>2. /\ ~Idle(r) /\ ~At(r, "sweep") /\ Finish(r)
        /\ UNCHANGED <<account, openedWith, reused>>
        /\ request[r].pc = "refresh.issue"
    BY DEF RefreshIssue, At, Idle
  <1>3. old \in Issued /\ owner[old] \in User /\ family[old] \in Family /\ old \in revoked
    BY <1>2, RequestOfToken DEF TokenLabels, Inv, HandlersReady, Ready
  <1>4. /\ openedWith[family[old]] = account[owner[old]].password
        /\ family[old] \notin reused
        /\ \A s \in Token : parent[s] # old
        /\ \A s \in Usable : family[s] = family[old] => s = old
    BY <1>2 DEF Orderly, StillTrue
  <1>5. \A s \in Usable : family[s] # family[old]
    BY <1>3, <1>4 DEF Usable
  <1>6. Registered(owner[old])
    BY <1>3 DEF Orderly
  <1>7. old \in Token
    BY <1>3 DEF Issued
  <1>8. QED BY <1>1, <1>2, <1>3, <1>4, <1>5, <1>6, <1>7, TokenAdded

(* Reuse ends the whole family.                                            *)
LEMMA AloneReuse ==
  ASSUME Inv, Sequential, Orderly, NEW r \in Request, ReuseSweep(r)
  PROVE  Orderly'
  <1> DEFINE f == family[request[r].token]
  <1>1. /\ revoked' = revoked \union TokensIn(f) /\ reused' = reused \union {f}
        /\ UNCHANGED <<account, owner, family, expired, parent, openedWith>> /\ Finish(r)
        /\ ~Idle(r) /\ ~At(r, "sweep") /\ TypeOK
    BY DEF ReuseSweep, Revoke, At, Idle, Inv
  <1>2. f \in Family /\ request[r].token \in TokensIn(f)
    BY RequestOfToken DEF ReuseSweep, At, TokenLabels, TokensIn, Issued
  <1>3. \A s \in Request : StillTrue(request[s])'
    BY <1>1, FinishMoves, IdleStillTrue, OthersIdle
  <1>4. Usable' = Usable \ TokensIn(f)
    BY <1>1 DEF Usable, Issued
  <1>5. ReuseEndsFamily'
    BY <1>1, <1>4 DEF Orderly, ReuseEndsFamily, TokensIn, Usable, Issued
  <1>6. PasswordChangeEndsSessions'
    BY <1>1, <1>4, NoSweepPending DEF PasswordChangeEndsSessions
  <1>7. \A g \in reused' : TokensIn(g) # {}
    BY <1>1, <1>2 DEF Orderly
  <1>8. QED BY <1>1, <1>3, <1>5, <1>6, <1>7, TokensOnlyEnd

(* The token presented is revoked; its session waits for the next one.     *)
LEMMA AloneRevoke ==
  ASSUME Inv, Sequential, Orderly, NEW r \in Request, RefreshRevoke(r)
  PROVE  Orderly'
  <1>1. /\ revoked' = revoked \union {request[r].token}
        /\ UNCHANGED <<account, owner, family, expired, history>>
        /\ Continue(r, "refresh.issue") /\ "refresh.issue" \in Labels /\ ~request[r].orphan
        /\ request[r].pc = "refresh.revoke" /\ TypeOK
    BY DEF RefreshRevoke, Revoke, At, Inv, Labels, Sequential
  <1>2. ~Idle(r) /\ ~At(r, "sweep")
    BY <1>1 DEF Idle, At
  <1>3. Usable' \subseteq Usable
    BY <1>1 DEF Usable, Issued
  <1>4. \A s \in Request : StillTrue(request[s])'
    <2>1. StillTrue(request[r])
      BY DEF Orderly
    <2>2. request'[r].pc = "refresh.issue" /\ request'[r].token = request[r].token
      BY <1>1, ContinueMoves
    <2>3. StillTrue(request[r])'
      BY <1>1, <1>3, <2>1, <2>2 DEF StillTrue, history
    <2>4. QED BY <1>1, <1>2, <2>3, ContinueMoves, OthersIdle
  <1>5. ReuseEndsFamily' /\ PasswordChangeEndsSessions'
    BY <1>1, <1>2, <1>3, NoSweepPending
    DEF Orderly, ReuseEndsFamily, PasswordChangeEndsSessions, history
  <1>6. QED BY <1>1, <1>4, <1>5, TokensOnlyEnd DEF Orderly, history

(* The sessions opened with the password before end.                       *)
LEMMA AloneSweep ==
  ASSUME Inv, Sequential, Orderly, NEW r \in Request, SweepUser(r)
  PROVE  Orderly'
  <1> DEFINE u == request[r].user
  <1>1. /\ revoked' = revoked \union TokensOf(u)
        /\ UNCHANGED <<account, owner, family, expired, history>> /\ Finish(r)
        /\ ~Idle(r) /\ TypeOK
    BY DEF SweepUser, Revoke, At, Idle, Inv
  <1>2. Usable' = Usable \ TokensOf(u)
    BY <1>1 DEF Usable, Issued
  <1>3. \A s \in Request : StillTrue(request[s])'
    BY <1>1, FinishMoves, IdleStillTrue, OthersIdle
  <1>4. PasswordChangeEndsSessions'
    <2> SUFFICES ASSUME NEW t \in Usable, owner[t] # u
                 PROVE  openedWith[family[t]] = account[owner[t]].password
      BY <1>1, <1>2 DEF PasswordChangeEndsSessions, TokensOf, Usable, Issued, history
    <2>1. \A s \in Request : At(s, "sweep") => s = r
      BY <1>1 DEF Sequential, Busy, Idle, At
    <2>2. QED BY <2>1 DEF Orderly, PasswordChangeEndsSessions
  <1>5. ReuseEndsFamily'
    BY <1>1, <1>2 DEF Orderly, ReuseEndsFamily, history
  <1>6. QED BY <1>1, <1>3, <1>4, <1>5, TokensOnlyEnd DEF Orderly, history

(* What happens without a handler only ends sessions and locks.            *)
LEMMA AloneElsewhere ==
  ASSUME Inv, Orderly,
         \/ \E t \in Token : Logout(t) \/ TokenExpires(t)
         \/ \E u \in User : LogoutAll(u) \/ LockExpires(u)
  PROVE  Orderly'
  <1>1. /\ UNCHANGED <<owner, family, request, history>>
        /\ revoked \subseteq revoked' /\ expired \subseteq expired'
    BY DEF Logout, TokenExpires, LogoutAll, LockExpires, Revoke, table
  <1>2. \A u \in User : account'[u].password = account[u].password
    <2>1. ASSUME NEW v \in User, LockExpires(v), NEW u \in User
          PROVE  account'[u].password = account[u].password
      BY <2>1 DEF LockExpires, Inv, TypeOK, Accounts
    <2>2. CASE UNCHANGED account
      BY <2>2
    <2>3. QED BY <2>1, <2>2 DEF Logout, TokenExpires, LogoutAll
  <1>3. Usable' \subseteq Usable
    BY <1>1 DEF Usable, Issued
  <1>4. \A t \in Issued : owner[t] \in User
    BY DEF Issued, Inv, TypeOK
  <1>5. ASSUME NEW s \in Request PROVE StillTrue(request[s])'
    <2>1. StillTrue(request[s]) /\ request'[s] = request[s]
      BY <1>1 DEF Orderly
    <2>2. request[s].pc \in {"login.reset", "issue"} => request[s].user \in User
      BY DEF Inv, HandlersReady, Ready, UserLabels
    <2>3. request[s].pc \in {"refresh.revoke", "refresh.issue"} => request[s].token \in Issued
      BY DEF Inv, HandlersReady, Ready, TokenLabels
    <2>4. QED BY <1>1, <1>2, <1>3, <1>4, <2>1, <2>2, <2>3
          DEF StillTrue, Registered, history
  <1>6. PasswordChangeEndsSessions'
    <2> SUFFICES ASSUME NEW t \in Usable
                 PROVE  \/ openedWith[family[t]] = account'[owner[t]].password
                        \/ \E s \in Request : At(s, "sweep") /\ request[s].user = owner[t]
      BY <1>1, <1>3 DEF PasswordChangeEndsSessions, At, history
    <2>1. owner[t] \in User
      BY <1>4 DEF Usable
    <2>2. QED BY <1>2, <2>1 DEF Orderly, PasswordChangeEndsSessions
  <1>7. ReuseEndsFamily'
    BY <1>1, <1>3 DEF Orderly, ReuseEndsFamily, history
  <1>8. QED BY <1>1, <1>2, <1>5, <1>6, <1>7, TokensOnlyEnd DEF Orderly, history

(* Every step of requests that follow one another keeps the order.         *)
LEMMA AloneStep ==
  ASSUME Inv, Sequential, Orderly, Next, Sequential'
  PROVE  Orderly'
  <1>1. ASSUME NEW r \in Request, Statement(r) PROVE Orderly'
    BY <1>1, AloneLogin, AloneRegister, AloneChange, AloneOpen, AloneIssue, AloneReuse,
       AloneRevoke, AloneSweep DEF Statement
  <1>2. ASSUME NEW r \in Request, CutOff(r) PROVE FALSE
    <2>1. request'[r].orphan
      <3>1. request[r] \in Requests
        BY DEF Inv, TypeOK
      <3>2. QED BY <1>2, <3>1 DEF CutOff, Inv, TypeOK, Requests
    <2>2. QED BY <2>1 DEF Sequential
  <1>3. ASSUME NEW r \in Request, Lost(r) PROVE FALSE
    BY <1>3 DEF Lost, Sequential
  <1>4. QED BY <1>1, <1>2, <1>3, AloneStart, AloneElsewhere DEF Next

OrderStep == Next /\ UNCHANGED alone /\ (alone => Sequential')

(* The strengthened invariant starts out true,                             *)
LEMMA AloneInit == Init /\ alone \in BOOLEAN => Inv /\ AloneInv
  <1> SUFFICES ASSUME Init PROVE Inv /\ AloneInv
    OBVIOUS
  <1>1. Init /\ Inv
    BY InitInv
  <1>2. \A r \in Request : request[r].pc = "idle" /\ ~request[r].orphan
    BY <1>1 DEF Init, IdleRequest
  <1>3. Issued = {} /\ Usable = {}
    BY <1>1 DEF Init, Issued, Usable
  <1>4. Sequential
    BY <1>2 DEF Sequential, Busy, Idle
  <1>5. PasswordChangeEndsSessions /\ ReuseEndsFamily /\ OneUsableTokenPerSession
    BY <1>3 DEF PasswordChangeEndsSessions, ReuseEndsFamily, OneUsableTokenPerSession
  <1>6. SingleSuccessor /\ reused = {}
    BY <1>1 DEF Init, SingleSuccessor
  <1>7. Orderly
    BY <1>2, <1>3, <1>5, <1>6 DEF Orderly, StillTrue
  <1>8. QED BY <1>1, <1>4, <1>7 DEF AloneInv

(* and stays true.                                                         *)
LEMMA AloneNext ==
  ASSUME Inv, AloneInv, [OrderStep]_<<vars, alone>>
  PROVE  Inv' /\ AloneInv'
  <1>1. Inv' /\ [Next]_vars
    BY NextInv DEF OrderStep
  <1>2. CASE ~alone
    <2>1. alone' = alone
      BY DEF OrderStep
    <2>2. QED BY <1>1, <1>2, <2>1 DEF AloneInv
  <1>3. CASE alone /\ OrderStep
    <2>1. Sequential' /\ alone' = alone
      BY <1>3 DEF OrderStep
    <2>2. QED BY <1>1, <1>3, <2>1, AloneStep DEF AloneInv, OrderStep
  <1>4. CASE alone /\ UNCHANGED <<vars, alone>>
    <2>1. UNCHANGED <<Issued, Usable>>
      BY <1>4 DEF vars, table, Issued, Usable
    <2>2. Sequential' /\ \A r \in Request : StillTrue(request[r])'
      BY <1>4, <2>1 DEF AloneInv, Sequential, Busy, Idle, Orderly, StillTrue, Registered,
                        vars, table, history
    <2>3. PasswordChangeEndsSessions' /\ ReuseEndsFamily'
      BY <1>4, <2>1 DEF AloneInv, Orderly, PasswordChangeEndsSessions, ReuseEndsFamily, At,
                        vars, table, history
    <2>4. \A f \in reused' : TokensIn(f) # {}
      BY <1>4 DEF AloneInv, Orderly, vars, history
    <2>5. Orderly'
      BY <1>4, <2>2, <2>3, <2>4, TokensOnlyEnd DEF AloneInv, vars, table, history
    <2>6. QED BY <1>1, <1>4, <2>2, <2>5 DEF AloneInv
  <1>5. QED BY <1>2, <1>3, <1>4

(* The strengthened invariant holds throughout. *)
THEOREM AloneInvariance == OrderSpec => [](Inv /\ AloneInv)
  <1>1. Inv /\ AloneInv /\ [OrderStep]_<<vars, alone>> => (Inv /\ AloneInv)'
    BY AloneNext
  <1>2. QED BY <1>1, AloneInit, PTL DEF OrderSpec, OrderStep

(* If requests do not overlap and none is cut off, a password change ends  *)
(* the sessions opened before it, reuse ends the family for everyone, a    *)
(* token is exchanged once and a session has one usable token.             *)
THEOREM UndisturbedSafety == OrderSpec => []Undisturbed
  <1>1. Inv /\ AloneInv => Undisturbed
    BY DEF AloneInv, Orderly, Undisturbed
  <1>2. QED BY <1>1, AloneInvariance, PTL

-----------------------------------------------------------------------------
(* Wrong passwords run out *)

LessThan == {p \in Nat \X Nat : p[1] < p[2]}

(* The order of the numbers goes down to zero. *)
LEMMA LessThanWellFounded == IsWellFoundedOn(LessThan, Nat)
  BY NatLessThanWellFounded, Zenon DEF OpToRel, LessThan

(* A set of numbers that is not empty has a least one. *)
LEMMA Least ==
  ASSUME NEW S \in SUBSET Nat, S # {}
  PROVE  \E n \in S : \A m \in S : n <= m
  <1>1. PICK n \in S : \A m \in S : ~ (<<m, n>> \in LessThan)
    BY WFMin, LessThanWellFounded, Zenon
  <1>2. \A m \in S : ~ (m < n)
    BY <1>1 DEF LessThan
  <1>3. QED BY <1>2

(* Induction, in the form that takes a set and no operator. *)
LEMMA SetInduction ==
  ASSUME NEW T, 0 \in T, \A n \in Nat : n \in T => n + 1 \in T
  PROVE  Nat \subseteq T
  <1> DEFINE rest == Nat \ T
  <1> SUFFICES ASSUME rest # {} PROVE FALSE
    OBVIOUS
  <1>1. PICK n \in rest : \A m \in rest : n <= m
    <2>1. rest \subseteq Nat
      OBVIOUS
    <2> HIDE DEF rest
    <2>2. QED BY <2>1, Least
  <1>2. n # 0
    OBVIOUS
  <1>3. n - 1 \in Nat /\ n - 1 \notin rest
    BY <1>1, <1>2
  <1>4. n - 1 + 1 = n
    OBVIOUS
  <1>5. QED BY <1>3, <1>4

(* No sequence of ranks goes down for ever. *)
THEOREM RanksRunOut ==
  ASSUME NEW limit \in Nat
  PROVE  IsWellFoundedOn(Below(limit), Ranks(limit))
  <1> SUFFICES ASSUME NEW T \in SUBSET Ranks(limit), T # {}
      PROVE  \E x \in T : \A y \in T : ~ (<<y, x>> \in Below(limit))
    BY MinWF, Zenon
  <1> DEFINE Undercut(x, y, k) == /\ y[k] < x[k]
                                  /\ \A i \in Levels(limit) : i < k => y[i] = x[i]
             Best(x, n) == \A y \in T, k \in Levels(limit) : k < n => ~Undercut(x, y, k)
             C == {n \in Nat : n <= limit => \E x \in T : Best(x, n)}
  <1>1. 0 \in C
    BY DEF Levels
  <1>2. ASSUME NEW n \in Nat, n \in C PROVE n + 1 \in C
    <2> SUFFICES ASSUME n + 1 <= limit
        PROVE  \E z \in T : Best(z, n + 1)
      OBVIOUS
    <2>1. n \in Levels(limit)
      BY DEF Levels
    <2>2. PICK x \in T : Best(x, n)
      BY <1>2
    <2> DEFINE S == {y \in T : \A i \in Levels(limit) : i < n => y[i] = x[i]}
               N == {m \in Nat : \E y \in S : y[n] = m}
    <2>3. N # {}
      <3>1. x \in S /\ x[n] \in Nat
        BY <2>1 DEF Ranks
      <3>2. QED BY <3>1
    <2>4. PICK m \in N : \A l \in N : m <= l
      <3> HIDE DEF N
      <3>1. N \in SUBSET Nat
        BY DEF N
      <3>2. QED BY <2>3, <3>1, Least
    <2>5. PICK z \in S : z[n] = m
      OBVIOUS
    <2>6. ASSUME NEW y \in T, NEW k \in Levels(limit), k < n + 1, Undercut(z, y, k) PROVE FALSE
      <3>1. CASE k < n
        <4>1. Undercut(x, y, k)
          BY <2>5, <2>6, <3>1 DEF Levels
        <4>2. QED BY <2>2, <3>1, <4>1
      <3>2. CASE k = n
        <4>1. y \in S
          BY <2>5, <2>6, <3>2
        <4>2. y[n] \in N
          BY <2>1, <4>1 DEF Ranks
        <4>3. m <= y[n] /\ y[n] < m
          BY <2>4, <2>5, <2>6, <3>2, <4>2
        <4>4. m \in Nat /\ y[n] \in Nat
          BY <4>2
        <4>5. QED BY <4>3, <4>4
      <3>3. k < n \/ k = n
        BY <2>6 DEF Levels
      <3>4. QED BY <3>1, <3>2, <3>3
    <2>7. Best(z, n + 1)
      BY <2>6
    <2>8. QED BY <2>7
  <1>3. limit \in C
    <2> HIDE DEF C
    <2>1. QED BY <1>1, <1>2, SetInduction
  <1>4. PICK x \in T : Best(x, limit)
    BY <1>3
  <1>5. ASSUME NEW y \in T, <<y, x>> \in Below(limit) PROVE FALSE
    <2>1. PICK k \in Levels(limit) : Undercut(x, y, k)
      BY <1>5 DEF Below
    <2>2. k < limit
      BY DEF Levels
    <2>3. QED BY <1>4, <2>1, <2>2
  <1>6. QED BY <1>5

(* A rank that is less at a level, and at none before it more, is below.   *)
LEMMA LessIsBelow ==
  ASSUME NEW limit \in Nat, NEW x \in Ranks(limit), NEW y \in Ranks(limit),
         NEW c \in Levels(limit), x[c] < y[c],
         \A k \in Levels(limit) : k < c => x[k] <= y[k]
  PROVE  <<x, y>> \in Below(limit)
  <1> DEFINE D == {k \in Levels(limit) : x[k] # y[k]}
  <1>1. /\ D \in SUBSET Nat /\ c \in D
        /\ \A k \in Levels(limit) : x[k] \in Nat /\ y[k] \in Nat
    BY DEF Levels, Ranks
  <1>2. PICK k \in D : \A l \in D : k <= l
    <2> HIDE DEF D
    <2>1. QED BY <1>1, Least
  <1>3. k \in Levels(limit) /\ (k < c \/ k = c)
    BY <1>1, <1>2 DEF Levels
  <1>4. x[k] < y[k]
    BY <1>1, <1>3, x[k] # y[k]
  <1>5. \A i \in Levels(limit) : i < k => x[i] = y[i]
    BY <1>2 DEF Levels
  <1>6. QED BY <1>3, <1>4, <1>5 DEF Below

(* One that is more at no level is the same or below. *)
LEMMA NoMoreIsBelow ==
  ASSUME NEW limit \in Nat, NEW x \in Ranks(limit), NEW y \in Ranks(limit),
         \A k \in Levels(limit) : x[k] <= y[k]
  PROVE  x = y \/ <<x, y>> \in Below(limit)
  <1>1. CASE \E c \in Levels(limit) : x[c] < y[c]
    BY <1>1, LessIsBelow
  <1>2. CASE ~ \E c \in Levels(limit) : x[c] < y[c]
    <2>1. \A k \in Levels(limit) : x[k] = y[k]
      BY <1>2 DEF Ranks
    <2>2. QED BY <2>1 DEF Ranks
  <1>3. QED BY <1>1, <1>2

(* The wrong passwords of a user that were judged on a copy of the counter *)
(* no higher than a level, and are still to be counted.                    *)
Uncounted(u, k) ==
  {r \in Request : At(r, "login.fail") /\ request[r].user = u /\ request[r].failed <= k}

(* What is left of an account's patience: at each level the counter has    *)
(* passed, the copies that may still take it back there.                   *)
Patience(u) ==
  [k \in Levels(MaxFailedAttempts) |->
     IF account[u].failed <= k THEN Cardinality(Request) + 1 ELSE Cardinality(Uncounted(u, k))]

FailureCounted(u) == \E r \in Request : LoginFail(r) /\ request[r].user = u

CountCleared(u) ==
  \E r \in Request :
    (LoginReset(r) \/ ConfirmSet(r) \/ RegisterCreate(r)) /\ request[r].user = u

(* A failure that leaves the account unlocked takes some of its patience,  *)
(* and only a login, a reset or the registration of the user restores any. *)
PatienceRunsOut ==
  [][\A u \in User :
       /\ FailureCounted(u) /\ ~account'[u].locked
            => <<Patience(u)', Patience(u)>> \in Below(MaxFailedAttempts)
       /\ \/ CountCleared(u) \/ Patience(u)' = Patience(u)
          \/ <<Patience(u)', Patience(u)>> \in Below(MaxFailedAttempts)]_vars

(* A set of requests is as finite as all of them. *)
LEMMA SomeRequests ==
  ASSUME IsFiniteSet(Request), NEW S \in SUBSET Request
  PROVE  /\ IsFiniteSet(S) /\ Cardinality(S) \in Nat /\ Cardinality(Request) \in Nat
         /\ Cardinality(S) <= Cardinality(Request)
  BY FS_Subset, FS_CardinalityType

(* The patience is a rank, in both states. *)
LEMMA PatienceType ==
  ASSUME IsFiniteSet(Request), NEW u
  PROVE  Patience(u) \in Ranks(MaxFailedAttempts) /\ Patience(u)' \in Ranks(MaxFailedAttempts)
  <1>1. \A k : Uncounted(u, k) \in SUBSET Request /\ Uncounted(u, k)' \in SUBSET Request
    BY DEF Uncounted
  <1>2. Patience(u) \in Ranks(MaxFailedAttempts)
    BY <1>1, SomeRequests DEF Patience, Ranks
  <1>3. Patience(u)' \in Ranks(MaxFailedAttempts)
    BY <1>1, SomeRequests DEF Patience, Ranks
  <1>4. QED BY <1>2, <1>3

(* What a step leaves of the judgements that are still to be counted: a    *)
(* new one is of the counter as it is.                                     *)
FreshlyJudged(s) ==
  request'[s].pc = "login.fail" =>
    \/ /\ request[s].pc = "login.fail"
       /\ request'[s].user = request[s].user /\ request'[s].failed = request[s].failed
    \/ request'[s].failed = account[request'[s].user].failed

(* A handler that starts judges on the counter it read just now, and no    *)
(* other step makes a judgement.                                           *)
LEMMA StepJudges ==
  ASSUME Inv, [Next]_vars, NEW s \in Request
  PROVE  FreshlyJudged(s)
  <1>1. TypeOK
    BY DEF Inv
  <1>2. CASE request'[s] = request[s]
    BY <1>2 DEF FreshlyJudged
  <1>3. ASSUME NEW r \in Request, Start(r) PROVE FreshlyJudged(s)
    <2>1. CASE s = r
      BY <1>3, <2>1, StartRecord DEF FreshlyJudged
    <2>2. CASE s # r
      <3>1. PICK q \in Requests : request' = [request EXCEPT ![r] = q]
        BY <1>3, StartShape DEF Starts
      <3>2. QED BY <1>1, <1>2, <2>2, <3>1 DEF TypeOK
    <2>3. QED BY <2>1, <2>2
  <1>4. ASSUME NEW r \in Request, Finish(r) PROVE FreshlyJudged(s)
    BY <1>1, <1>2, <1>4, FinishMoves DEF FreshlyJudged
  <1>5. ASSUME NEW r \in Request, NEW label \in Labels \ {"login.fail"}, Continue(r, label)
        PROVE  FreshlyJudged(s)
    BY <1>1, <1>2, <1>5, ContinueMoves DEF FreshlyJudged
  <1>6. ASSUME NEW r \in Request, CutOff(r) PROVE FreshlyJudged(s)
    <2>1. request[r] \in Requests
      BY <1>1 DEF TypeOK
    <2>2. request' = [request EXCEPT ![r] = [request[r] EXCEPT !.orphan = TRUE]]
      BY <1>6 DEF CutOff
    <2>3. request'[r].user = request[r].user /\ request'[r].failed = request[r].failed
          /\ request'[r].pc = request[r].pc
      BY <1>1, <2>1, <2>2 DEF TypeOK, Requests
    <2>4. s # r => request'[s] = request[s]
      BY <1>1, <2>2 DEF TypeOK
    <2>5. QED BY <1>2, <2>3, <2>4 DEF FreshlyJudged
  <1>7. ASSUME NEW r \in Request, Statement(r) PROVE FreshlyJudged(s)
    <2>1. \/ Finish(r)
          \/ \E label \in {"issue", "refresh.issue", "sweep"} : Continue(r, label)
      BY <1>7 DEF Statement, LoginFail, LoginReset, RegisterCreate, OpenSession, ReuseSweep,
                  RefreshRevoke, RefreshIssue, ChangeSet, ConfirmSet, SweepUser
    <2>2. {"issue", "refresh.issue", "sweep"} \subseteq Labels \ {"login.fail"}
      BY DEF Labels
    <2>3. QED BY <1>4, <1>5, <2>1, <2>2
  <1>8. ASSUME NEW r \in Request, Lost(r) PROVE FreshlyJudged(s)
    BY <1>4, <1>8 DEF Lost
  <1>9. CASE \/ \E t \in Token : Logout(t) \/ TokenExpires(t)
             \/ \E u \in User : LogoutAll(u) \/ LockExpires(u)
             \/ UNCHANGED vars
    BY <1>2, <1>9 DEF Logout, TokenExpires, LogoutAll, LockExpires, vars
  <1>10. QED BY <1>3, <1>6, <1>7, <1>8, <1>9 DEF Next

(* Only a failure or a clearing of the user moves the counter. *)
LEMMA CounterKept ==
  ASSUME Inv, [Next]_vars, NEW u \in User, ~FailureCounted(u), ~CountCleared(u)
  PROVE  account'[u].failed = account[u].failed
  <1>1. account[u] \in Accounts /\ TypeOK
    BY DEF Inv, TypeOK
  <1>2. ASSUME NEW r \in Request,
               \/ LoginFail(r) \/ LoginReset(r) \/ RegisterCreate(r)
               \/ ChangeSet(r) \/ ConfirmSet(r)
        PROVE  account'[u].failed = account[u].failed
    <2>1. CASE u # request[r].user
      <3>1. account'[u] = account[u]
        BY <1>1, <1>2, <2>1
        DEF LoginFail, LoginReset, RegisterCreate, ChangeSet, ConfirmSet, TypeOK
      <3>2. QED BY <3>1
    <2>2. CASE u = request[r].user
      <3>1. ChangeSet(r)
        BY <1>2, <2>2 DEF FailureCounted, CountCleared
      <3>2. account'[u] = Rehash(account[u], request[r].password)
        BY <1>1, <2>2, <3>1 DEF ChangeSet, TypeOK
      <3>3. ASSUME NEW a \in Accounts, NEW p PROVE Rehash(a, p).failed = a.failed
        BY DEF Rehash, Accounts
      <3>4. QED BY <1>1, <3>2, <3>3
    <2>3. QED BY <2>1, <2>2
  <1>3. ASSUME NEW v \in User, LockExpires(v)
        PROVE  account'[u].failed = account[u].failed
    BY <1>1, <1>3 DEF LockExpires, TypeOK, Accounts
  <1>4. CASE UNCHANGED account
    BY <1>4
  <1>5. QED BY <1>2, <1>3, <1>4, AccountsKept

(* Unless it moves the counter, a step restores nothing. *)
LEMMA PatienceKept ==
  ASSUME IsFiniteSet(Request), Inv, [Next]_vars, NEW u \in User,
         ~FailureCounted(u), ~CountCleared(u)
  PROVE  Patience(u)' = Patience(u) \/ <<Patience(u)', Patience(u)>> \in Below(MaxFailedAttempts)
  <1>1. account'[u].failed = account[u].failed
    BY CounterKept
  <1>2. ASSUME NEW k \in Levels(MaxFailedAttempts), ~(account[u].failed <= k)
        PROVE  Uncounted(u, k)' \in SUBSET Uncounted(u, k)
    <2> SUFFICES ASSUME NEW s \in Request, s \in Uncounted(u, k)' PROVE s \in Uncounted(u, k)
      BY DEF Uncounted
    <2>1. request'[s].pc = "login.fail" /\ request'[s].user = u /\ request'[s].failed <= k
      BY DEF Uncounted, At
    <2>2. FreshlyJudged(s)
      BY StepJudges
    <2>3. QED BY <1>2, <2>1, <2>2 DEF FreshlyJudged, Uncounted, At
  <1>3. ASSUME NEW k \in Levels(MaxFailedAttempts) PROVE Patience(u)'[k] <= Patience(u)[k]
    <2>1. CASE account[u].failed <= k
      <3>1. Patience(u)'[k] = Cardinality(Request) + 1 /\ Patience(u)[k] = Cardinality(Request) + 1
        BY <1>1, <2>1 DEF Patience
      <3>2. Cardinality(Request) \in Nat
        BY SomeRequests
      <3>3. QED BY <3>1, <3>2
    <2>2. CASE ~(account[u].failed <= k)
      <3>1. Cardinality(Uncounted(u, k)') <= Cardinality(Uncounted(u, k))
        <4>1. Uncounted(u, k) \in SUBSET Request
          BY DEF Uncounted
        <4>2. IsFiniteSet(Uncounted(u, k))
          BY <4>1, SomeRequests
        <4>3. QED BY <1>2, <2>2, <4>2, FS_Subset
      <3>2. QED BY <1>1, <2>2, <3>1 DEF Patience
    <2>3. QED BY <2>1, <2>2
  <1>4. Patience(u) \in Ranks(MaxFailedAttempts) /\ Patience(u)' \in Ranks(MaxFailedAttempts)
    BY PatienceType
  <1>5. QED BY <1>3, <1>4, NoMoreIsBelow

(* A failure that leaves the account unlocked was judged on a copy below   *)
(* the limit: at that level one judgement less is left to be counted.      *)
LEMMA FailureTakes ==
  ASSUME IsFiniteSet(Request), Inv, NEW u \in User, NEW r \in Request,
         LoginFail(r), request[r].user = u
  PROVE  \/ <<Patience(u)', Patience(u)>> \in Below(MaxFailedAttempts)
         \/ account'[u].locked /\ Patience(u)' = Patience(u)
  <1> DEFINE N == Cardinality(Request)
  <1>0. PICK c \in 0 .. MaxFailedAttempts : c = request[r].failed
    BY DEF Inv, TypeOK, Requests
  <1>1. At(r, "login.fail") /\ account[u] \in Accounts /\ TypeOK
    BY DEF Inv, TypeOK, LoginFail
  <1>2. /\ account'[u].failed = Attempts(c)
        /\ Attempts(c) >= MaxFailedAttempts => account'[u].locked
    <2>1. account'[u] = Counted(account[u], Attempts(c))
      BY <1>0, <1>1 DEF LoginFail, TypeOK
    <2>2. ASSUME NEW a \in Accounts, NEW n
          PROVE  /\ Counted(a, n).failed = n
                 /\ n >= MaxFailedAttempts => Counted(a, n).locked
      BY DEF Counted, Accounts
    <2>3. QED BY <1>1, <2>1, <2>2
  <1>3. \A s \in Request \ {r} : request'[s] = request[s]
    BY <1>1, FinishMoves DEF LoginFail
  <1>4. request'[r].pc = "idle"
    BY <1>1, FinishMoves DEF LoginFail
  <1>5. \A k : Uncounted(u, k)' = Uncounted(u, k) \ {r}
    BY <1>3, <1>4 DEF Uncounted, At
  <1>6. \A k : Uncounted(u, k) \in SUBSET Request
    BY DEF Uncounted
  <1>7. N \in Nat
    BY SomeRequests
  <1>8. Patience(u) \in Ranks(MaxFailedAttempts) /\ Patience(u)' \in Ranks(MaxFailedAttempts)
    BY PatienceType
  <1>9. ASSUME NEW k \in Levels(MaxFailedAttempts), k < Attempts(c)
        PROVE  Patience(u)'[k] <= Patience(u)[k]
    <2>1. Patience(u)'[k] = Cardinality(Uncounted(u, k)')
      BY <1>1, <1>2, <1>9 DEF Patience, Levels, Attempts
    <2>2. /\ Cardinality(Uncounted(u, k)') <= Cardinality(Uncounted(u, k))
          /\ Cardinality(Uncounted(u, k)) \in Nat /\ Cardinality(Uncounted(u, k)') \in Nat
          /\ Cardinality(Uncounted(u, k)) <= N
      BY <1>5, <1>6, SomeRequests, FS_RemoveElement
    <2>3. QED BY <1>7, <2>1, <2>2 DEF Patience
  <1>10. CASE c < MaxFailedAttempts
    <2>1. c \in Levels(MaxFailedAttempts) /\ Attempts(c) = c + 1
      BY <1>1, <1>10 DEF Levels, Attempts
    <2>2. Patience(u)'[c] = Cardinality(Uncounted(u, c)')
      <3>1. ~(c + 1 <= c)
        BY <1>1
      <3>2. ~(account'[u].failed <= c)
        BY <1>2, <2>1, <3>1
      <3>3. QED BY <2>1, <3>2 DEF Patience
    <2>3. /\ Cardinality(Uncounted(u, c)') = Cardinality(Uncounted(u, c)) - 1
          /\ Cardinality(Uncounted(u, c)) \in Nat
          /\ Cardinality(Uncounted(u, c)) <= N
      <3>1. r \in Uncounted(u, c)
        BY <1>0, <1>1 DEF Uncounted
      <3>2. PICK S \in SUBSET Request : S = Uncounted(u, c)
        BY <1>6
      <3>3. IsFiniteSet(S) /\ Cardinality(S) \in Nat /\ Cardinality(S) <= N
        BY SomeRequests
      <3>4. r \in S
        BY <3>1, <3>2
      <3>5. Cardinality(S \ {r}) = Cardinality(S) - 1
        BY <3>3, <3>4, FS_RemoveElement
      <3>6. QED BY <1>5, <3>2, <3>3, <3>5
    <2>4. Patience(u)'[c] < Patience(u)[c]
      BY <1>7, <2>1, <2>2, <2>3 DEF Patience
    <2>5. \A k \in Levels(MaxFailedAttempts) : k < c => Patience(u)'[k] <= Patience(u)[k]
      BY <1>1, <1>9, <2>1 DEF Levels
    <2>6. QED BY <1>8, <2>1, <2>4, <2>5, LessIsBelow
  <1>11. CASE c = MaxFailedAttempts
    <2>1. Attempts(c) = MaxFailedAttempts
      BY <1>11 DEF Attempts
    <2>2. \A k \in Levels(MaxFailedAttempts) : Patience(u)'[k] <= Patience(u)[k]
      BY <1>9, <2>1 DEF Levels
    <2>3. account'[u].locked
      BY <1>2, <2>1
    <2>4. QED BY <1>8, <2>2, <2>3, NoMoreIsBelow
  <1>12. QED BY <1>1, <1>10, <1>11

(* However the failures of concurrent logins overwrite one another, each   *)
(* that leaves the account unlocked takes some of its patience, of which   *)
(* there is an end (RanksRunOut), and no step but a login, a reset or the  *)
(* registration of the user restores any: the lost updates of the counter  *)
(* delay the lock of auth.routes.ts only finitely often.                   *)
THEOREM LockIsDelayedOnly == IsFiniteSet(Request) /\ Spec => PatienceRunsOut
  <1> SUFFICES ASSUME IsFiniteSet(Request) PROVE Spec => PatienceRunsOut
    OBVIOUS
  <1>1. Inv /\ [Next]_vars =>
          [\A u \in User :
             /\ FailureCounted(u) /\ ~account'[u].locked
                  => <<Patience(u)', Patience(u)>> \in Below(MaxFailedAttempts)
             /\ \/ CountCleared(u) \/ Patience(u)' = Patience(u)
                \/ <<Patience(u)', Patience(u)>> \in Below(MaxFailedAttempts)]_vars
    <2> SUFFICES ASSUME Inv, [Next]_vars, NEW u \in User
        PROVE  /\ FailureCounted(u) /\ ~account'[u].locked
                    => <<Patience(u)', Patience(u)>> \in Below(MaxFailedAttempts)
               /\ \/ CountCleared(u) \/ Patience(u)' = Patience(u)
                  \/ <<Patience(u)', Patience(u)>> \in Below(MaxFailedAttempts)
      OBVIOUS
    <2>1. CASE FailureCounted(u)
      BY <2>1, FailureTakes DEF FailureCounted
    <2>2. CASE ~FailureCounted(u)
      BY <2>2, PatienceKept
    <2>3. QED BY <2>1, <2>2
  <1>2. QED BY <1>1, Invariance, PTL DEF Spec, PatienceRunsOut

-----------------------------------------------------------------------------
(* Overlapping exchanges. *)

(* The refreshes that found a token usable and are still to issue the one  *)
(* that replaces it.                                                       *)
Replacing(t) ==
  {r \in Request : request[r].pc \in {"refresh.revoke", "refresh.issue"} /\ request[r].token = t}

(* Nobody joins those who exchange a revoked token; one that has issued    *)
(* its successor leaves them, and nobody else makes a successor.           *)
ExchangesEnd ==
  [][\A t \in Token :
       /\ t \in revoked => Replacing(t)' \subseteq Replacing(t)
       /\ \A r \in Request :
            RefreshIssue(r) /\ request[r].token = t
              => t \in revoked /\ r \in Replacing(t) \ Replacing(t)'
       /\ \A s \in Token :
            parent'[s] = t /\ parent[s] # t
              => \E r \in Request : RefreshIssue(r) /\ request[r].token = t]_vars

(* What a step leaves of the exchanges under way: a new one found its      *)
(* token usable.                                                           *)
FreshlyFound(s) ==
  request'[s].pc \in {"refresh.revoke", "refresh.issue"} =>
    \/ /\ request[s].pc \in {"refresh.revoke", "refresh.issue"}
       /\ request'[s].token = request[s].token
    \/ request'[s].token \notin revoked

(* A refresh that starts has found its token usable just now, and no other *)
(* step begins an exchange.                                                *)
LEMMA StepFinds ==
  ASSUME Inv, [Next]_vars, NEW s \in Request
  PROVE  FreshlyFound(s)
  <1>1. TypeOK
    BY DEF Inv
  <1>2. CASE request'[s] = request[s]
    BY <1>2 DEF FreshlyFound
  <1>3. ASSUME NEW r \in Request, Start(r) PROVE FreshlyFound(s)
    <2>1. CASE s = r
      BY <1>3, <2>1, StartRecord DEF FreshlyFound, Usable
    <2>2. CASE s # r
      <3>1. PICK q \in Requests : request' = [request EXCEPT ![r] = q]
        BY <1>3, StartShape DEF Starts
      <3>2. QED BY <1>1, <1>2, <2>2, <3>1 DEF TypeOK
    <2>3. QED BY <2>1, <2>2
  <1>4. ASSUME NEW r \in Request, Finish(r) PROVE FreshlyFound(s)
    BY <1>1, <1>2, <1>4, FinishMoves DEF FreshlyFound
  <1>5. ASSUME NEW r \in Request, NEW label \in {"issue", "sweep"}, Continue(r, label)
        PROVE  FreshlyFound(s)
    <2>1. label \in Labels
      BY DEF Labels
    <2>2. QED BY <1>1, <1>2, <1>5, <2>1, ContinueMoves DEF FreshlyFound
  <1>6. ASSUME NEW r \in Request, RefreshRevoke(r) PROVE FreshlyFound(s)
    <2>1. "refresh.issue" \in Labels
      BY DEF Labels
    <2>2. request[r].pc = "refresh.revoke" /\ Continue(r, "refresh.issue")
      BY <1>6 DEF RefreshRevoke, At
    <2>3. QED BY <1>1, <1>2, <2>1, <2>2, ContinueMoves DEF FreshlyFound
  <1>7. ASSUME NEW r \in Request, CutOff(r) PROVE FreshlyFound(s)
    <2>1. request[r] \in Requests
      BY <1>1 DEF TypeOK
    <2>2. request' = [request EXCEPT ![r] = [request[r] EXCEPT !.orphan = TRUE]]
      BY <1>7 DEF CutOff
    <2>3. request'[r].token = request[r].token /\ request'[r].pc = request[r].pc
      BY <1>1, <2>1, <2>2 DEF TypeOK, Requests
    <2>4. s # r => request'[s] = request[s]
      BY <1>1, <2>2 DEF TypeOK
    <2>5. QED BY <1>2, <2>3, <2>4 DEF FreshlyFound
  <1>8. ASSUME NEW r \in Request, Statement(r) PROVE FreshlyFound(s)
    <2>1. \/ Finish(r) \/ RefreshRevoke(r)
          \/ \E label \in {"issue", "sweep"} : Continue(r, label)
      BY <1>8 DEF Statement, LoginFail, LoginReset, RegisterCreate, OpenSession, ReuseSweep,
                  RefreshIssue, ChangeSet, ConfirmSet, SweepUser
    <2>2. QED BY <1>4, <1>5, <1>6, <2>1
  <1>9. ASSUME NEW r \in Request, Lost(r) PROVE FreshlyFound(s)
    BY <1>4, <1>9 DEF Lost
  <1>10. CASE \/ \E t \in Token : Logout(t) \/ TokenExpires(t)
              \/ \E u \in User : LogoutAll(u) \/ LockExpires(u)
              \/ UNCHANGED vars
    BY <1>2, <1>10 DEF Logout, TokenExpires, LogoutAll, LockExpires, vars
  <1>11. QED BY <1>3, <1>7, <1>8, <1>9, <1>10 DEF Next

(* Only an exchange gives a token a parent: a new session has none. *)
LEMMA ParentsMade ==
  ASSUME Inv, [Next]_vars, NEW t \in Token, NEW s \in Token, parent'[s] = t, parent[s] # t
  PROVE  \E r \in Request : RefreshIssue(r) /\ request[r].token = t
  <1>1. TypeOK
    BY DEF Inv
  <1>2. ASSUME NEW r \in Request, RefreshIssue(r) PROVE request[r].token = t
    <2>1. PICK n \in Token : parent' = [parent EXCEPT ![n] = request[r].token]
      BY <1>2 DEF RefreshIssue, InsertToken
    <2>2. QED BY <1>1, <2>1 DEF TypeOK
  <1>3. ASSUME NEW r \in Request, OpenSession(r) PROVE FALSE
    <2>1. PICK n \in Token : parent' = [parent EXCEPT ![n] = NoToken]
      BY <1>3 DEF OpenSession, InsertToken
    <2>2. QED BY <1>1, <2>1 DEF TypeOK
  <1>4. CASE ~ \E r \in Request : RefreshIssue(r) \/ OpenSession(r)
    <2>1. UNCHANGED parent
      BY <1>4, ZenonT(60) DEF Next, Start, Statement, LoginWrong, LoginRight, RegisterRead, ChangeRead,
         ConfirmRead, RefreshReuse, RefreshAccept, LoginFail, LoginReset, RegisterCreate,
         ChangeSet, ConfirmSet, ReuseSweep, RefreshRevoke, SweepUser, CutOff, Lost, Logout,
         LogoutAll, TokenExpires, LockExpires, history, vars
    <2>2. QED BY <2>1
  <1>5. QED BY <1>2, <1>3, <1>4

(* A token has at most one successor for each of the refreshes that were   *)
(* looking at it when it was revoked: what overlap makes of rotation in    *)
(* auth.routes.ts is bounded by the refreshes that overlapped, and nothing *)
(* later adds to it.                                                       *)
THEOREM ExchangesAreBounded == Spec => ExchangesEnd
  <1>1. Inv /\ [Next]_vars =>
          [\A t \in Token :
             /\ t \in revoked => Replacing(t)' \subseteq Replacing(t)
             /\ \A r \in Request :
                  RefreshIssue(r) /\ request[r].token = t
                    => t \in revoked /\ r \in Replacing(t) \ Replacing(t)'
             /\ \A s \in Token :
                  parent'[s] = t /\ parent[s] # t
                    => \E r \in Request : RefreshIssue(r) /\ request[r].token = t]_vars
    <2> SUFFICES ASSUME Inv, [Next]_vars, NEW t \in Token
        PROVE  /\ t \in revoked => Replacing(t)' \subseteq Replacing(t)
               /\ \A r \in Request :
                    RefreshIssue(r) /\ request[r].token = t
                      => t \in revoked /\ r \in Replacing(t) \ Replacing(t)'
               /\ \A s \in Token :
                    parent'[s] = t /\ parent[s] # t
                      => \E r \in Request : RefreshIssue(r) /\ request[r].token = t
      OBVIOUS
    <2>1. \A s \in Request : FreshlyFound(s)
      BY StepFinds
    <2>2. ASSUME t \in revoked PROVE Replacing(t)' \subseteq Replacing(t)
      BY <2>1, <2>2 DEF FreshlyFound, Replacing
    <2>3. ASSUME NEW r \in Request, RefreshIssue(r), request[r].token = t
          PROVE  t \in revoked /\ r \in Replacing(t) \ Replacing(t)'
      <3>1. TypeOK /\ Ready(request[r], Issued, revoked)
        BY DEF Inv, HandlersReady
      <3>2. request'[r].pc = "idle"
        BY <2>3, <3>1, FinishMoves DEF RefreshIssue
      <3>3. t \in revoked
        BY <2>3, <3>1 DEF RefreshIssue, At, Ready
      <3>4. QED BY <2>3, <3>2, <3>3 DEF RefreshIssue, Replacing, At
    <2>4. QED BY <2>2, <2>3, ParentsMade
  <1>2. QED BY <1>1, Invariance, PTL DEF Spec, ExchangesEnd

=============================================================================
