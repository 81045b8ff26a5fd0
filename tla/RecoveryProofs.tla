--------------------------- MODULE RecoveryProofs ---------------------------
(***************************************************************************)
(* Theorems about Recovery, for any number of accounts, challenges, reset  *)
(* tokens and concurrent requests.                                         *)
(***************************************************************************)
EXTENDS MCRecovery, Ranking, FiniteSetTheorems, WellFoundedInduction, TLAPS

(* What a handler holds when it is about to run a statement, given the     *)
(* rows there are: a stored challenge of its user and purpose, still short *)
(* of the limit if a wrong code is to be counted; an accepted challenge of *)
(* the right purpose once the code was right; a stored reset token, spent  *)
(* once the password is to be set.                                         *)
GenerateLabels == {"generate.sweep", "generate.create"}
VerifyLabels == {"verify.burn", "verify.count", "verify.accept", "verify.email",
                 "reset.issue"}
ConfirmLabels == {"confirm.consume", "confirm.set"}

Accepted(c) == c \in consumed /\ accepts[c] > 0

Ready(q) ==
  /\ q.pc \in GenerateLabels \union VerifyLabels => q.user \in User
  /\ q.pc \in VerifyLabels => q.challenge \in For(q.user, q.purpose)
  /\ q.pc = "verify.count" => q.attempts < MaxAttempts
  /\ q.pc = "verify.email" => q.purpose = "EMAIL_VERIFICATION" /\ Accepted(q.challenge)
  /\ q.pc = "reset.issue" => q.purpose = "PASSWORD_RESET" /\ Accepted(q.challenge)
  /\ q.pc \in ConfirmLabels => q.token \in IssuedTokens
  /\ q.pc = "confirm.set" => q.token \in spent

HandlersReady == \A r \in Request : Ready(request[r])

(* A token that was never issued never set a password. *)
UnissuedUnused == \A t \in ResetToken \ IssuedTokens : resets[t] = 0

Inv ==
  /\ TypeOK
  /\ ExhaustedIsBurnt
  /\ VerifiedByOwnCode
  /\ ResetEarned
  /\ UnissuedUnused
  /\ HandlersReady

USE RecoveryAssumption DEF RecoveryAssumption

-----------------------------------------------------------------------------
(* Rows only accumulate: challenges keep their user and purpose, consumed  *)
(* and accepted ones stay so, reset tokens stay issued and spent.          *)
Grows ==
  /\ \A c \in Created : holder'[c] = holder[c] /\ purpose'[c] = purpose[c]
  /\ consumed \subseteq consumed'
  /\ \A c \in Challenge : accepts[c] > 0 => accepts'[c] > 0
  /\ IssuedTokens \subseteq IssuedTokens'
  /\ spent \subseteq spent'

(* An idle record is a request, and one that nothing need be said about. *)
LEMMA IdleRequestType == IdleRequest \in Requests
  <1>1. 0 \in 0..MaxAttempts
    OBVIOUS
  <1>2. QED BY <1>1 DEF IdleRequest, Requests, Labels, Purposes

(* As rows accumulate, a challenge found for a user is found again. *)
LEMMA ForGrows ==
  ASSUME TypeOK, Grows, NEW u \in User, NEW p
  PROVE  For(u, p) \subseteq For(u, p)'
  BY DEF Grows, For, Created, TypeOK

(* A handler that is ready remains so while the rows accumulate. *)
LEMMA ReadyKept ==
  ASSUME TypeOK, Grows, NEW q \in Requests, Ready(q)
  PROVE  Ready(q)'
  <1>1. q.pc \in VerifyLabels => q.challenge \in For(q.user, q.purpose)'
    BY ForGrows DEF Ready
  <1>2. q.pc \in VerifyLabels => q.challenge \in Challenge
    BY DEF Ready, For, Created
  <1>3. ASSUME NEW c \in Challenge, Accepted(c)
        PROVE  Accepted(c)'
    BY <1>3 DEF Accepted, Grows
  <1>4. QED BY <1>1, <1>2, <1>3 DEF Ready, Grows, VerifyLabels

(* One request is replaced by one that is ready in the new state. *)
LEMMA SetRequest ==
  ASSUME TypeOK, HandlersReady, Grows, NEW r \in Request, NEW q \in Requests,
         request' = [request EXCEPT ![r] = q], Ready(q)'
  PROVE  request' \in [Request -> Requests] /\ HandlersReady'
  <1>1. request' \in [Request -> Requests]
    BY DEF TypeOK
  <1>2. ASSUME NEW s \in Request
        PROVE  Ready(request[s])'
    <2>1. CASE s = r
      <3>1. request'[s] = q
        BY <2>1 DEF TypeOK
      <3>2. QED BY <3>1 DEF Ready, Accepted
    <2>2. CASE s # r
      <3>1. request'[s] = request[s] /\ request[s] \in Requests
        BY <2>2 DEF TypeOK
      <3>2. Ready(request[s])
        BY DEF HandlersReady
      <3> DEFINE old == request[s]
      <3>3. QED BY <3>1, <3>2, ReadyKept DEF Ready, Accepted
    <2>3. QED BY <2>1, <2>2
  <1>3. QED BY <1>1, <1>2 DEF HandlersReady

(* A handler that ends is ready. *)
LEMMA FinishReady ==
  ASSUME TypeOK, HandlersReady, Grows, NEW r \in Request, Finish(r)
  PROVE  request' \in [Request -> Requests] /\ HandlersReady'
  <1>1. PICK q \in Requests : q = IdleRequest
    BY IdleRequestType
  <1>2. q.pc = "idle"
    BY <1>1 DEF IdleRequest
  <1>3. Ready(q)'
    BY <1>2 DEF Ready, GenerateLabels, VerifyLabels, ConfirmLabels
  <1>4. QED BY <1>1, <1>3, SetRequest DEF Finish

(* So is one that goes on, if it is ready at the next label. *)
LEMMA ContinueReady ==
  ASSUME TypeOK, HandlersReady, Grows, NEW r \in Request,
         NEW label \in Labels, Continue(r, label),
         \A q \in Requests :
           /\ q.pc = label
           /\ q.user = request[r].user /\ q.purpose = request[r].purpose
           /\ q.challenge = request[r].challenge /\ q.token = request[r].token
           /\ q.attempts = request[r].attempts
           => Ready(q)'
  PROVE  request' \in [Request -> Requests] /\ HandlersReady'
  <1>1. CASE request[r].orphan
    BY <1>1, FinishReady DEF Continue
  <1>2. CASE ~request[r].orphan
    <2>1. request[r] \in Requests
      BY DEF TypeOK
    <2>2. PICK q \in Requests : q = [request[r] EXCEPT !.pc = label]
      BY <2>1 DEF Requests
    <2>3. /\ q.pc = label
          /\ q.user = request[r].user /\ q.purpose = request[r].purpose
          /\ q.challenge = request[r].challenge /\ q.token = request[r].token
          /\ q.attempts = request[r].attempts
      BY <2>1, <2>2 DEF Requests
    <2>4. request' = [request EXCEPT ![r] = q]
      BY <1>2, <2>2 DEF Continue
    <2>5. QED BY <2>3, <2>4, SetRequest
  <1>3. QED BY <1>1, <1>2

(* What was verified or earned stays so. *)
LEMMA VerifiedKept ==
  ASSUME Inv, Grows, verified' = verified
  PROVE  VerifiedByOwnCode'
  <1>1. ASSUME NEW u \in verified
        PROVE  \E c \in For(u, "EMAIL_VERIFICATION")' : accepts'[c] > 0 /\ c \in consumed'
    <2>1. PICK c \in For(u, "EMAIL_VERIFICATION") : accepts[c] > 0 /\ c \in consumed
      BY DEF Inv, VerifiedByOwnCode
    <2>2. u \in User /\ c \in Challenge
      BY <2>1 DEF Inv, TypeOK, For, Created
    <2>3. c \in For(u, "EMAIL_VERIFICATION")'
      BY <2>1, <2>2, ForGrows DEF Inv
    <2>4. QED BY <2>1, <2>2, <2>3 DEF Grows
  <1>2. QED BY <1>1 DEF VerifiedByOwnCode

(* Earned reset tokens stay earned. *)
LEMMA ResetKept ==
  ASSUME Inv, Grows, UNCHANGED <<tokenUser, origin, resets>>
  PROVE  ResetEarned' /\ UnissuedUnused'
  <1>1. IssuedTokens' = IssuedTokens
    BY DEF IssuedTokens
  <1>2. ASSUME NEW t \in IssuedTokens
        PROVE  /\ origin'[t] \in For(tokenUser[t], "PASSWORD_RESET")' \intersect consumed'
               /\ accepts'[origin[t]] > 0
               /\ resets[t] > 0 => t \in spent'
    <2>1. /\ origin[t] \in For(tokenUser[t], "PASSWORD_RESET") \intersect consumed
          /\ accepts[origin[t]] > 0
          /\ resets[t] > 0 => t \in spent
      BY DEF Inv, ResetEarned
    <2>2. PICK u \in User : u = tokenUser[t]
      BY DEF Inv, TypeOK, IssuedTokens
    <2>3. origin[t] \in For(u, "PASSWORD_RESET")' /\ origin[t] \in Challenge
      BY <2>1, <2>2, ForGrows DEF Inv, For, Created
    <2>4. QED BY <2>1, <2>2, <2>3 DEF Grows
  <1>3. ResetEarned'
    BY <1>1, <1>2 DEF ResetEarned
  <1>4. UnissuedUnused'
    BY <1>1 DEF Inv, UnissuedUnused
  <1>5. QED BY <1>3, <1>4

-----------------------------------------------------------------------------
(* The invariant, action by action *)

(* The invariant holds initially. *)
LEMMA InitInv == Init => Inv
  <1> SUFFICES ASSUME Init PROVE Inv
    OBVIOUS
  <1>1. TypeOK
    <2>1. request \in [Request -> Requests]
      BY IdleRequestType DEF Init
    <2>2. 0 \in 0..MaxAttempts /\ 0 \in 0..2
      OBVIOUS
    <2>3. QED BY <2>1, <2>2 DEF Init, TypeOK, Purposes
  <1>2. ExhaustedIsBurnt /\ VerifiedByOwnCode
    BY DEF Init, ExhaustedIsBurnt, VerifiedByOwnCode
  <1>3. ResetEarned /\ UnissuedUnused
    BY DEF Init, ResetEarned, UnissuedUnused, IssuedTokens
  <1>4. HandlersReady
    BY DEF Init, HandlersReady, Ready, IdleRequest, GenerateLabels, VerifyLabels, ConfirmLabels
  <1>5. QED BY <1>1, <1>2, <1>3, <1>4 DEF Inv

(* No row changes but the marks of time. *)
LEMMA RowsKept ==
  ASSUME Inv, UNCHANGED <<holder, purpose, attempts, consumed, tokenUser, spent,
                          verified, history>>,
         expired' \subseteq Challenge, lapsed' \subseteq ResetToken,
         request' \in [Request -> Requests], HandlersReady'
  PROVE  Inv'
  <1>1. Grows
    BY DEF Grows, IssuedTokens, history
  <1>2. VerifiedByOwnCode' /\ ResetEarned' /\ UnissuedUnused'
    BY <1>1, VerifiedKept, ResetKept DEF history
  <1>3. TypeOK' /\ ExhaustedIsBurnt'
    BY DEF Inv, TypeOK, ExhaustedIsBurnt, history
  <1>4. QED BY <1>2, <1>3 DEF Inv


(* A handler that starts fills its own record, and is ready. *)
Starts(r) == \E q \in Requests : request' = [request EXCEPT ![r] = q] /\ Ready(q)

(* Every start has that shape. *)
LEMMA StartReady ==
  ASSUME Inv, NEW r \in Request, Start(r)
  PROVE  Starts(r)
  <1>1. ASSUME NEW u \in User, ResendVerification(r, u) \/ ForgotPassword(r, u)
        PROVE  Starts(r)
    <2>1. PICK p \in Purposes : BeginGenerate(r, u, p)
      BY <1>1 DEF ResendVerification, ForgotPassword, Purposes
    <2> DEFINE q == [IdleRequest EXCEPT !.pc = "generate.sweep", !.user = u, !.purpose = p]
    <2>2. ASSUME NEW i \in Requests
          PROVE  LET j == [i EXCEPT !.pc = "generate.sweep", !.user = u, !.purpose = p]
                 IN j \in Requests /\ j.pc = "generate.sweep" /\ j.user = u
      BY DEF Requests, Labels
    <2>3. q \in Requests /\ q.pc = "generate.sweep" /\ q.user = u
      BY <2>2, IdleRequestType
    <2>4. Ready(q)
      BY <2>3 DEF Ready, VerifyLabels, ConfirmLabels
    <2>5. QED BY <2>1, <2>3, <2>4 DEF BeginGenerate, Starts
  <1>2. ASSUME NEW c \in Challenge,
               VerifyStale(r, c) \/ VerifyWrong(r, c) \/ VerifyRight(r, c)
        PROVE  Starts(r)
    <2>1. PICK label \in {"verify.burn", "verify.count", "verify.accept"} :
            Judge(r, c, label) /\ (label = "verify.count" => attempts[c] < MaxAttempts)
      BY <1>2 DEF VerifyStale, VerifyWrong, VerifyRight, Usable
    <2>2. holder[c] \in User /\ c \in For(holder[c], purpose[c])
      BY <2>1 DEF Judge, Newest, For
    <2>3. purpose[c] \in Purposes /\ attempts[c] \in 0..MaxAttempts
      BY DEF Inv, TypeOK
    <2> DEFINE q == [IdleRequest EXCEPT !.pc = label, !.user = holder[c], !.purpose = purpose[c],
                       !.challenge = c, !.attempts = attempts[c]]
    <2>4. ASSUME NEW i \in Requests
          PROVE  LET j == [i EXCEPT !.pc = label, !.user = holder[c], !.purpose = purpose[c],
                             !.challenge = c, !.attempts = attempts[c]]
                 IN /\ j \in Requests
                    /\ j.pc = label /\ j.user = holder[c] /\ j.purpose = purpose[c]
                    /\ j.challenge = c /\ j.attempts = attempts[c]
      BY <2>2, <2>3 DEF Requests, Labels
    <2>5. /\ q \in Requests
          /\ q.pc = label /\ q.user = holder[c] /\ q.purpose = purpose[c]
          /\ q.challenge = c /\ q.attempts = attempts[c]
      BY <2>4, IdleRequestType
    <2>6. Ready(q)
      BY <2>1, <2>2, <2>5 DEF Ready, ConfirmLabels
    <2>7. QED BY <2>1, <2>5, <2>6 DEF Judge, Starts
  <1>3. ASSUME NEW t \in ResetToken, ConfirmRead(r, t)
        PROVE  Starts(r)
    <2> DEFINE q == [IdleRequest EXCEPT !.pc = "confirm.consume", !.user = tokenUser[t], !.token = t]
    <2>1. tokenUser[t] \in User /\ t \in IssuedTokens
      BY <1>3 DEF ConfirmRead, IssuedTokens, Inv, TypeOK
    <2>2. ASSUME NEW i \in Requests
          PROVE  LET j == [i EXCEPT !.pc = "confirm.consume", !.user = tokenUser[t], !.token = t]
                 IN j \in Requests /\ j.pc = "confirm.consume" /\ j.token = t
      BY <2>1 DEF Requests, Labels
    <2>3. q \in Requests /\ q.pc = "confirm.consume" /\ q.token = t
      BY <2>2, IdleRequestType
    <2>4. Ready(q)
      BY <2>1, <2>3 DEF Ready, GenerateLabels, VerifyLabels
    <2>5. QED BY <1>3, <2>3, <2>4 DEF ConfirmRead, Starts
  <1>4. QED BY <1>1, <1>2, <1>3 DEF Start

(* Starting a handler keeps the invariant. *)
LEMMA StartKeeps ==
  ASSUME Inv, NEW r \in Request, Start(r)
  PROVE  Inv'
  <1>1. UNCHANGED <<codes, tokens, verified, history>>
    BY DEF Start, ResendVerification, ForgotPassword, BeginGenerate, VerifyStale,
           VerifyWrong, VerifyRight, Judge, ConfirmRead
  <1>2. Grows
    BY <1>1 DEF Grows, IssuedTokens, codes, tokens, history
  <1>3. PICK q \in Requests : request' = [request EXCEPT ![r] = q] /\ Ready(q)
    BY StartReady DEF Starts
  <1>4. TypeOK /\ HandlersReady
    BY DEF Inv
  <1>5. Ready(q)'
    BY <1>2, <1>3, <1>4, ReadyKept
  <1>6. request' \in [Request -> Requests] /\ HandlersReady'
    BY <1>2, <1>3, <1>4, <1>5, SetRequest
  <1>7. expired' \subseteq Challenge /\ lapsed' \subseteq ResetToken
    BY <1>1, <1>4 DEF codes, tokens, TypeOK
  <1>8. QED BY SMTT(30), <1>1, <1>6, <1>7, RowsKept DEF codes, tokens

(* The statements that only consume challenges. *)
LEMMA ConsumeKeeps ==
  ASSUME Inv, NEW r \in Request, GenerateSweep(r) \/ VerifyBurn(r)
  PROVE  Inv'
  <1>1. PICK C \in SUBSET Challenge : Consume(C)
    <2>1. CASE GenerateSweep(r)
      BY <2>1 DEF GenerateSweep, Retired, For, Created
    <2>2. CASE VerifyBurn(r)
      <3>1. request[r].challenge \in Challenge
        BY <2>2 DEF VerifyBurn, At, Inv, HandlersReady, Ready, VerifyLabels, For, Created
      <3>2. QED BY <2>2, <3>1 DEF VerifyBurn
    <2>3. QED BY <2>1, <2>2
  <1>2. UNCHANGED <<holder, purpose, attempts, expired, tokens, verified, history>>
    BY DEF GenerateSweep, VerifyBurn
  <1>3. Grows
    BY <1>1, <1>2 DEF Grows, Consume, IssuedTokens, tokens, history
  <1>4. TypeOK /\ HandlersReady
    BY DEF Inv
  <1>5. request' \in [Request -> Requests] /\ HandlersReady'
    <2>1. CASE GenerateSweep(r)
      <3>1. request[r].user \in User
        BY <2>1 DEF GenerateSweep, At, Inv, HandlersReady, Ready, GenerateLabels
      <3>2. \A q \in Requests :
              q.pc = "generate.create" /\ q.user = request[r].user => Ready(q)'
        BY <3>1 DEF Ready, VerifyLabels, ConfirmLabels
      <3>3. "generate.create" \in Labels
        BY DEF Labels
      <3>4. Continue(r, "generate.create")
        BY <2>1 DEF GenerateSweep
      <3>5. QED BY <1>3, <1>4, <3>2, <3>3, <3>4, ContinueReady
    <2>2. CASE VerifyBurn(r)
      BY <1>3, <1>4, <2>2, FinishReady DEF VerifyBurn
    <2>3. QED BY <2>1, <2>2
  <1>6. VerifiedByOwnCode' /\ ResetEarned' /\ UnissuedUnused'
    BY <1>2, <1>3, VerifiedKept, ResetKept DEF tokens, history
  <1>7. TypeOK' /\ ExhaustedIsBurnt'
    BY <1>1, <1>2, <1>5 DEF Inv, TypeOK, ExhaustedIsBurnt, Consume, tokens, history
  <1>8. QED BY <1>5, <1>6, <1>7 DEF Inv

(* A challenge is inserted. *)
LEMMA GenerateCreateKeeps ==
  ASSUME Inv, NEW r \in Request, GenerateCreate(r)
  PROVE  Inv'
  <1>1. PICK c \in Challenge \ Created :
          /\ holder' = [holder EXCEPT ![c] = request[r].user]
          /\ purpose' = [purpose EXCEPT ![c] = request[r].purpose]
    BY DEF GenerateCreate
  <1>2. UNCHANGED <<attempts, consumed, expired, tokens, verified, history>> /\ Finish(r)
    BY DEF GenerateCreate
  <1>3. request[r].user \in User /\ request[r].purpose \in Purposes
    BY DEF GenerateCreate, At, Inv, HandlersReady, Ready, GenerateLabels, TypeOK, Requests
  <1>4. Grows
    BY <1>1, <1>2 DEF Grows, Created, IssuedTokens, tokens, history, Inv, TypeOK
  <1>5. request' \in [Request -> Requests] /\ HandlersReady'
    BY <1>2, <1>4, FinishReady DEF Inv
  <1>6. VerifiedByOwnCode' /\ ResetEarned' /\ UnissuedUnused'
    BY <1>2, <1>4, VerifiedKept, ResetKept DEF tokens, history
  <1>7. TypeOK' /\ ExhaustedIsBurnt'
    BY <1>1, <1>2, <1>3, <1>5 DEF Inv, TypeOK, ExhaustedIsBurnt, tokens, history
  <1>8. QED BY <1>5, <1>6, <1>7 DEF Inv


(* What a verify handler holds. *)
LEMMA RequestOfChallenge ==
  ASSUME Inv, NEW r \in Request, request[r].pc \in VerifyLabels
  PROVE  /\ request[r] \in Requests
         /\ request[r].user \in User /\ request[r].purpose \in Purposes
         /\ request[r].challenge \in Challenge
         /\ request[r].challenge \in For(request[r].user, request[r].purpose)
  <1>1. request[r] \in Requests
    BY DEF Inv, TypeOK
  <1>2. QED BY <1>1 DEF Inv, HandlersReady, Ready, Requests, For, Created

(* A wrong code is recorded. *)
LEMMA VerifyCountKeeps ==
  ASSUME Inv, NEW r \in Request, VerifyCount(r)
  PROVE  Inv'
  <1> DEFINE c == request[r].challenge
             n == request[r].attempts + 1
  <1>1. c \in Challenge /\ request[r] \in Requests
    BY RequestOfChallenge DEF VerifyCount, At, VerifyLabels
  <1>2. n \in 0..MaxAttempts
    <2>1. request[r].attempts < MaxAttempts
      BY DEF VerifyCount, At, Inv, HandlersReady, Ready
    <2>2. QED BY <1>1, <2>1 DEF Requests
  <1>3. /\ attempts' = [attempts EXCEPT ![c] = n]
        /\ consumed' = consumed \union {d \in {c} : n >= MaxAttempts}
        /\ UNCHANGED <<holder, purpose, expired, tokens, verified, history>>
        /\ Finish(r)
    BY DEF VerifyCount, Counts, Burns, Consume
  <1>4. Grows
    BY <1>3 DEF Grows, IssuedTokens, tokens, history
  <1>5. request' \in [Request -> Requests] /\ HandlersReady'
    BY <1>3, <1>4, FinishReady DEF Inv
  <1>6. VerifiedByOwnCode' /\ ResetEarned' /\ UnissuedUnused'
    BY <1>3, <1>4, VerifiedKept, ResetKept DEF tokens, history
  <1>7. TypeOK'
    BY <1>1, <1>2, <1>3, <1>5 DEF Inv, TypeOK, tokens, history
  <1>8. ExhaustedIsBurnt'
    <2>1. ASSUME NEW d \in Challenge \ consumed' PROVE attempts'[d] < MaxAttempts
      <3>1. CASE d = c
        <4>1. ~(n >= MaxAttempts) /\ attempts'[d] = n
          BY <1>1, <1>3, <3>1 DEF Inv, TypeOK
        <4>2. QED BY <1>2, <4>1
      <3>2. CASE d # c
        BY <1>3, <3>2 DEF Inv, TypeOK, ExhaustedIsBurnt
      <3>3. QED BY <3>1, <3>2
    <2>2. QED BY <2>1 DEF ExhaustedIsBurnt
  <1>9. QED BY <1>5, <1>6, <1>7, <1>8 DEF Inv

(* Uses are counted as at least one. *)
LEMMA AgainType == \A n \in 0..2 : Again(n) \in 0..2 /\ Again(n) > 0
  BY DEF Again

(* A right code is accepted. *)
LEMMA VerifyAcceptKeeps ==
  ASSUME Inv, NEW r \in Request, VerifyAccept(r)
  PROVE  Inv'
  <1> DEFINE c == request[r].challenge
             p == request[r].purpose
  <1>1. /\ c \in Challenge /\ request[r] \in Requests
        /\ request[r].user \in User /\ p \in Purposes
        /\ c \in For(request[r].user, p)
    BY RequestOfChallenge DEF VerifyAccept, At, VerifyLabels
  <1>2. /\ consumed' = consumed \union {c}
        /\ accepts' = [accepts EXCEPT ![c] = Again(accepts[c])]
        /\ UNCHANGED <<holder, purpose, attempts, expired, tokens, verified, origin, resets>>
        /\ Continue(r, AfterAccept(p))
    BY DEF VerifyAccept, Consume
  <1>3. Again(accepts[c]) \in 0..2 /\ Again(accepts[c]) > 0
    <2>1. accepts[c] \in 0..2
      BY <1>1 DEF Inv, TypeOK
    <2>2. QED BY <2>1, AgainType
  <1>4. accepts' \in [Challenge -> 0..2] /\ accepts'[c] > 0 /\ c \in consumed'
    BY <1>1, <1>2, <1>3 DEF Inv, TypeOK
  <1>5. Grows
    <2>1. \A d \in Challenge : accepts[d] > 0 => accepts'[d] > 0
      BY <1>1, <1>2, <1>4 DEF Inv, TypeOK
    <2>2. QED BY <1>2, <2>1 DEF Grows, IssuedTokens, tokens
  <1>6. request' \in [Request -> Requests] /\ HandlersReady'
    <2> DEFINE label == AfterAccept(p)
    <2>1. label \in Labels
      BY DEF AfterAccept, Labels
    <2>2. ASSUME NEW q \in Requests, q.pc = label, q.challenge = c,
                 q.user = request[r].user, q.purpose = p
          PROVE  Ready(q)'
      <3>1. q.challenge \in For(q.user, q.purpose)'
        BY <1>1, <1>5, <2>2, ForGrows DEF Inv
      <3>2. Accepted(q.challenge)'
        BY <1>4, <2>2 DEF Accepted
      <3>3. \/ label = "verify.email" /\ p = "EMAIL_VERIFICATION"
            \/ label = "reset.issue" /\ p = "PASSWORD_RESET"
        BY <1>1 DEF AfterAccept, Purposes
      <3>4. QED BY <1>1, <2>2, <3>1, <3>2, <3>3 DEF Ready, VerifyLabels, ConfirmLabels
    <2>3. TypeOK /\ HandlersReady /\ Continue(r, label)
      BY <1>2 DEF Inv
    <2>4. QED BY <1>5, <2>1, <2>2, <2>3, ContinueReady
  <1>7. VerifiedByOwnCode' /\ ResetEarned' /\ UnissuedUnused'
    BY <1>2, <1>5, VerifiedKept, ResetKept DEF tokens
  <1>8. TypeOK' /\ ExhaustedIsBurnt'
    BY <1>1, <1>2, <1>4, <1>6 DEF Inv, TypeOK, ExhaustedIsBurnt, tokens
  <1>9. QED BY <1>6, <1>7, <1>8 DEF Inv

(* An address is marked verified. *)
LEMMA MarkVerifiedKeeps ==
  ASSUME Inv, NEW r \in Request, MarkVerified(r)
  PROVE  Inv'
  <1> DEFINE u == request[r].user
             c == request[r].challenge
  <1>1. /\ u \in User /\ c \in Challenge
        /\ c \in For(u, "EMAIL_VERIFICATION") /\ accepts[c] > 0 /\ c \in consumed
    BY RequestOfChallenge
       DEF MarkVerified, At, VerifyLabels, Inv, HandlersReady, Ready, Accepted
  <1>2. verified' = verified \union {u} /\ UNCHANGED <<codes, tokens, history>> /\ Finish(r)
    BY DEF MarkVerified
  <1>3. Grows
    BY <1>2 DEF Grows, IssuedTokens, codes, tokens, history
  <1>4. request' \in [Request -> Requests] /\ HandlersReady'
    BY <1>2, <1>3, FinishReady DEF Inv
  <1>5. VerifiedByOwnCode'
    BY <1>1, <1>2 DEF Inv, VerifiedByOwnCode, For, Created, codes, history
  <1>6. ResetEarned' /\ UnissuedUnused'
    BY <1>2, <1>3, ResetKept DEF tokens, history
  <1>7. TypeOK' /\ ExhaustedIsBurnt'
    BY <1>1, <1>2, <1>4 DEF Inv, TypeOK, ExhaustedIsBurnt, codes, tokens, history
  <1>8. QED BY <1>4, <1>5, <1>6, <1>7 DEF Inv

(* A reset token is issued. *)
LEMMA IssueResetKeeps ==
  ASSUME Inv, NEW r \in Request, IssueReset(r)
  PROVE  Inv'
  <1> DEFINE u == request[r].user
             c == request[r].challenge
  <1>1. /\ u \in User /\ c \in Challenge
        /\ c \in For(u, "PASSWORD_RESET") /\ accepts[c] > 0 /\ c \in consumed
    BY RequestOfChallenge
       DEF IssueReset, At, VerifyLabels, Inv, HandlersReady, Ready, Accepted
  <1>2. PICK t \in ResetToken \ IssuedTokens :
          /\ tokenUser' = [tokenUser EXCEPT ![t] = u]
          /\ origin' = [origin EXCEPT ![t] = c]
    BY DEF IssueReset
  <1>3. UNCHANGED <<codes, spent, lapsed, verified, accepts, resets>> /\ Finish(r)
    BY DEF IssueReset
  <1>4. IssuedTokens' = IssuedTokens \union {t}
    BY <1>1, <1>2 DEF IssuedTokens, Inv, TypeOK
  <1>5. Grows
    BY <1>3, <1>4 DEF Grows, codes
  <1>6. request' \in [Request -> Requests] /\ HandlersReady'
    BY <1>3, <1>5, FinishReady DEF Inv
  <1>7. VerifiedByOwnCode'
    BY <1>3, <1>5, VerifiedKept
  <1>8. TypeOK' /\ ExhaustedIsBurnt'
    BY <1>1, <1>2, <1>3, <1>6 DEF Inv, TypeOK, ExhaustedIsBurnt, codes
  <1>9. UnissuedUnused'
    BY <1>3, <1>4 DEF Inv, UnissuedUnused
  <1>10. ResetEarned'
    <2>1. ASSUME NEW s \in IssuedTokens'
          PROVE  (/\ origin[s] \in For(tokenUser[s], "PASSWORD_RESET") \intersect consumed
                  /\ accepts[origin[s]] > 0
                  /\ resets[s] > 0 => s \in spent)'
      <3>1. CASE s = t
        <4>1. tokenUser'[s] = u /\ origin'[s] = c
          BY <1>2, <3>1 DEF Inv, TypeOK
        <4>2. resets'[s] = 0
          BY <1>2, <1>3, <3>1 DEF Inv, UnissuedUnused
        <4>3. QED BY <1>1, <1>3, <4>1, <4>2 DEF For, Created, codes
      <3>2. CASE s # t
        <4>1. s \in IssuedTokens /\ tokenUser'[s] = tokenUser[s] /\ origin'[s] = origin[s]
          BY <1>2, <1>4, <3>2 DEF Inv, TypeOK
        <4>2. QED BY <1>3, <4>1 DEF Inv, ResetEarned, For, Created, codes
      <3>3. QED BY <3>1, <3>2
    <2>2. QED BY <2>1 DEF ResetEarned
  <1>11. QED BY <1>6, <1>7, <1>8, <1>9, <1>10 DEF Inv

(* A reset token is spent. *)
LEMMA ConfirmConsumeKeeps ==
  ASSUME Inv, NEW r \in Request, ConfirmConsume(r)
  PROVE  Inv'
  <1> DEFINE t == request[r].token
  <1>1. t \in IssuedTokens /\ t \in ResetToken
    BY DEF ConfirmConsume, At, Inv, HandlersReady, Ready, ConfirmLabels, IssuedTokens
  <1>2. /\ spent' = spent \union {t} /\ Continue(r, "confirm.set")
        /\ UNCHANGED <<codes, tokenUser, lapsed, verified, history>>
    BY DEF ConfirmConsume, Spend
  <1>3. Grows
    BY <1>2 DEF Grows, IssuedTokens, codes, history
  <1>4. request' \in [Request -> Requests] /\ HandlersReady'
    <2>1. \A q \in Requests : q.pc = "confirm.set" /\ q.token = t => Ready(q)'
      BY <1>1, <1>2, <1>3 DEF Ready, GenerateLabels, VerifyLabels, Grows
    <2>2. "confirm.set" \in Labels /\ TypeOK /\ HandlersReady
      BY DEF Labels, Inv
    <2>3. QED BY <1>2, <1>3, <2>1, <2>2, ContinueReady
  <1>5. VerifiedByOwnCode' /\ ResetEarned' /\ UnissuedUnused'
    BY <1>2, <1>3, VerifiedKept, ResetKept DEF history
  <1>6. TypeOK' /\ ExhaustedIsBurnt'
    BY <1>1, <1>2, <1>4 DEF Inv, TypeOK, ExhaustedIsBurnt, codes, history
  <1>7. QED BY <1>4, <1>5, <1>6 DEF Inv

(* A password is set. *)
LEMMA ConfirmSetKeeps ==
  ASSUME Inv, NEW r \in Request, ConfirmSet(r)
  PROVE  Inv'
  <1> DEFINE t == request[r].token
  <1>1. t \in IssuedTokens /\ t \in ResetToken /\ t \in spent
    BY DEF ConfirmSet, At, Inv, HandlersReady, Ready, ConfirmLabels, IssuedTokens
  <1>2. /\ resets' = [resets EXCEPT ![t] = Again(resets[t])] /\ Finish(r)
        /\ UNCHANGED <<codes, tokens, verified, accepts, origin>>
    BY DEF ConfirmSet
  <1>3. resets' \in [ResetToken -> 0..2]
    BY <1>1, <1>2 DEF Again, Inv, TypeOK
  <1>4. Grows
    BY <1>2 DEF Grows, IssuedTokens, codes, tokens
  <1>5. request' \in [Request -> Requests] /\ HandlersReady'
    BY <1>2, <1>4, FinishReady DEF Inv
  <1>6. VerifiedByOwnCode'
    BY <1>2, <1>4, VerifiedKept
  <1>7. ResetEarned' /\ UnissuedUnused'
    BY <1>1, <1>2
       DEF Inv, TypeOK, ResetEarned, UnissuedUnused, IssuedTokens, For, Created, codes, tokens
  <1>8. TypeOK' /\ ExhaustedIsBurnt'
    BY <1>2, <1>3, <1>5 DEF Inv, TypeOK, ExhaustedIsBurnt, codes, tokens
  <1>9. QED BY <1>5, <1>6, <1>7, <1>8 DEF Inv

(* Handlers are cut off and lose their statement. *)
LEMMA FaultKeeps ==
  ASSUME Inv, NEW r \in Request, CutOff(r) \/ Lost(r)
  PROVE  Inv'
  <1>1. UNCHANGED <<codes, tokens, verified, history>>
    BY DEF CutOff, Lost
  <1>2. Grows
    BY <1>1 DEF Grows, IssuedTokens, codes, tokens, history
  <1>3. request' \in [Request -> Requests] /\ HandlersReady'
    <2>1. CASE CutOff(r)
      <3>1. request[r] \in Requests
        BY DEF Inv, TypeOK
      <3>2. PICK q \in Requests : q = [request[r] EXCEPT !.orphan = TRUE]
        BY <3>1 DEF Requests
      <3>3. request' = [request EXCEPT ![r] = q]
        BY <2>1, <3>2 DEF CutOff
      <3>4. Ready(q)
        BY <3>1, <3>2 DEF Ready, Requests, Inv, HandlersReady
      <3>5. QED BY <1>2, <3>3, <3>4, ReadyKept, SetRequest DEF Inv
    <2>2. CASE Lost(r)
      BY <1>2, <2>2, FinishReady DEF Lost, Inv
    <2>3. QED BY <2>1, <2>2
  <1>4. QED BY <1>1, <1>3, RowsKept DEF codes, tokens, Inv, TypeOK

(* Time passes. *)
LEMMA TimeKeeps ==
  ASSUME Inv,
         \/ \E c \in Challenge : ChallengeExpires(c)
         \/ \E t \in ResetToken : TokenLapses(t)
  PROVE  Inv'
  <1>1. /\ UNCHANGED <<holder, purpose, attempts, consumed, tokenUser, spent,
                       verified, request, history>>
        /\ expired' \subseteq Challenge /\ lapsed' \subseteq ResetToken
    BY DEF ChallengeExpires, TokenLapses, codes, tokens, Inv, TypeOK, Created, IssuedTokens
  <1>2. Grows
    BY <1>1 DEF Grows, IssuedTokens, history
  <1>3. HandlersReady'
    BY <1>1 DEF Inv, HandlersReady, Ready, For, Created, Accepted, IssuedTokens, history
  <1>4. QED BY <1>1, <1>3, RowsKept DEF Inv, TypeOK

(* The invariant is inductive. *)
LEMMA NextInv == Inv /\ [Next]_vars => Inv'
  <1> SUFFICES ASSUME Inv, [Next]_vars PROVE Inv'
    OBVIOUS
  <1>1. ASSUME NEW r \in Request, Statement(r) PROVE Inv'
    BY <1>1, ConsumeKeeps, GenerateCreateKeeps, VerifyCountKeeps, VerifyAcceptKeeps,
       MarkVerifiedKeeps, IssueResetKeeps, ConfirmConsumeKeeps, ConfirmSetKeeps DEF Statement
  <1>2. CASE UNCHANGED vars
    <2>1. HandlersReady'
      BY <1>2 DEF Inv, HandlersReady, Ready, For, Created, Accepted, IssuedTokens,
                  vars, codes, tokens, history
    <2>2. QED BY <1>2, <2>1, RowsKept DEF vars, codes, tokens, Inv, TypeOK
  <1>3. QED BY <1>1, <1>2, StartKeeps, FaultKeeps, TimeKeeps DEF Next

(* The inductive invariant holds throughout. *)
THEOREM Invariance == Spec => []Inv
  BY InitInv, NextInv, PTL DEF Spec

(* Rows, records and counters keep their types; attempts never pass the    *)
(* limit, however stale the counts that are written.                       *)
THEOREM TypeCorrect == Spec => []TypeOK
  BY Invariance, PTL DEF Inv

(* No challenge is active with its attempts used up.                       *)
THEOREM AttemptsSafety == Spec => []ExhaustedIsBurnt
  BY Invariance, PTL DEF Inv

(* An address is verified only by an accepted verification code of its own *)
(* account.                                                                *)
THEOREM VerificationSafety == Spec => []VerifiedByOwnCode
  BY Invariance, PTL DEF Inv

(* A password is set by /confirm only with a spent token that an accepted  *)
(* reset code of the same account was exchanged for.                       *)
THEOREM ResetSafety == Spec => []ResetEarned
  BY Invariance, PTL DEF Inv

-----------------------------------------------------------------------------
(* Requests that follow one another: what a handler found unused is unused *)
(* when it takes it.                                                       *)

Untouched(q) ==
  /\ q.pc = "generate.create" => For(q.user, q.purpose) \subseteq consumed
  /\ q.pc = "verify.accept" => q.challenge \notin consumed
  /\ q.pc = "confirm.consume" => q.token \notin spent
  /\ q.pc = "confirm.set" => resets[q.token] = 0

FirstUses ==
  /\ OneActiveChallenge /\ CodeAcceptedOnce /\ ResetTokenUsedOnce
  /\ \A c \in Challenge \ consumed : accepts[c] = 0
  /\ \A t \in ResetToken \ spent : resets[t] = 0
  /\ \A r \in Request : Untouched(request[r])

AloneInv == alone => Sequential /\ FirstUses

(* A handler that ends claims nothing; the others are where they were.     *)
LEMMA FinishMoves ==
  ASSUME TypeOK, NEW r \in Request, Finish(r)
  PROVE  /\ \A s \in Request \ {r} : request'[s] = request[s]
         /\ request'[r].pc = "idle"
  BY DEF Finish, IdleRequest, TypeOK

(* One that goes on is about what it was about.                            *)
LEMMA ContinueMoves ==
  ASSUME TypeOK, NEW r \in Request, NEW label \in Labels, Continue(r, label)
  PROVE  /\ \A s \in Request \ {r} : request'[s] = request[s]
         /\ \/ request'[r].pc = "idle"
            \/ /\ request'[r].pc = label
               /\ request'[r].user = request[r].user
               /\ request'[r].purpose = request[r].purpose
               /\ request'[r].token = request[r].token
  <1>1. CASE request[r].orphan
    BY <1>1, FinishMoves DEF Continue
  <1>2. CASE ~request[r].orphan
    <2>1. request[r] \in Requests
      BY DEF TypeOK
    <2>2. request' = [request EXCEPT ![r] = [request[r] EXCEPT !.pc = label]]
      BY <1>2 DEF Continue
    <2>3. QED BY <2>1, <2>2 DEF TypeOK, Requests
  <1>3. QED BY <1>1, <1>2

(* While one handler is under way the others claim nothing. *)
LEMMA OthersIdle ==
  ASSUME Sequential, NEW r \in Request, ~Idle(r),
         \A s \in Request \ {r} : request'[s] = request[s],
         Untouched(request[r])'
  PROVE  \A s \in Request : Untouched(request[s])'
  <1> SUFFICES ASSUME NEW s \in Request \ {r} PROVE Untouched(request[s])'
    OBVIOUS
  <1>1. request'[s].pc = "idle"
    BY DEF Sequential, Busy, Idle
  <1>2. QED BY <1>1 DEF Untouched

(* An idle handler claims nothing. *)
LEMMA IdleUntouched ==
  ASSUME NEW r \in Request, request'[r].pc = "idle"
  PROVE  Untouched(request[r])'
  BY DEF Untouched

(* A handler that starts has read what it will use, and found it unused.   *)
LEMMA AloneStart ==
  ASSUME Inv, FirstUses, NEW r \in Request, Start(r)
  PROVE  FirstUses'
  <1>1. UNCHANGED <<codes, tokens, verified, history>>
    BY DEF Start, ResendVerification, ForgotPassword, BeginGenerate, VerifyStale,
           VerifyWrong, VerifyRight, Judge, ConfirmRead
  <1>2. PICK q \in Requests : request' = [request EXCEPT ![r] = q]
    BY StartReady DEF Starts
  <1>3. /\ request'[r] = q
        /\ \A s \in Request \ {r} : request'[s] = request[s]
    BY <1>2 DEF Inv, TypeOK
  <1>4. /\ q.pc \notin {"generate.create", "confirm.set"}
        /\ q.pc = "verify.accept" => q.challenge \notin consumed
        /\ q.pc = "confirm.consume" => q.token \notin spent
    <2>1. ASSUME NEW u \in User, NEW p \in Purposes, BeginGenerate(r, u, p)
          PROVE  q.pc = "generate.sweep"
      <3>1. ASSUME NEW i \in Requests
            PROVE  [i EXCEPT !.pc = "generate.sweep", !.user = u, !.purpose = p].pc
                     = "generate.sweep"
        BY DEF Requests
      <3>2. QED BY <1>3, <2>1, <3>1, IdleRequestType DEF BeginGenerate, Inv, TypeOK
    <2>2. ASSUME NEW c \in Challenge,
                 NEW label \in {"verify.burn", "verify.count", "verify.accept"},
                 Judge(r, c, label)
          PROVE  q.pc = label /\ q.challenge = c /\ c \notin consumed
      <3>1. holder[c] \in User /\ c \notin consumed
        BY <2>2 DEF Judge, Newest, For
      <3>2. purpose[c] \in Purposes /\ attempts[c] \in 0..MaxAttempts
        BY DEF Inv, TypeOK
      <3>3. ASSUME NEW i \in Requests
            PROVE  LET j == [i EXCEPT !.pc = label, !.user = holder[c],
                               !.purpose = purpose[c], !.challenge = c,
                               !.attempts = attempts[c]]
                   IN j.pc = label /\ j.challenge = c
        BY <3>1, <3>2 DEF Requests
      <3>4. QED BY <1>3, <2>2, <3>1, <3>3, IdleRequestType DEF Judge, Inv, TypeOK
    <2>3. ASSUME NEW t \in ResetToken, ConfirmRead(r, t)
          PROVE  q.pc = "confirm.consume" /\ q.token = t /\ t \notin spent
      <3>1. ASSUME NEW i \in Requests
            PROVE  LET j == [i EXCEPT !.pc = "confirm.consume", !.user = tokenUser[t],
                               !.token = t]
                   IN j.pc = "confirm.consume" /\ j.token = t
        BY DEF Requests
      <3>2. QED BY <1>3, <2>3, <3>1, IdleRequestType DEF ConfirmRead, Inv, TypeOK
    <2>4. CASE \E u \in User : ResendVerification(r, u) \/ ForgotPassword(r, u)
      <3>1. \E u \in User, p \in Purposes : BeginGenerate(r, u, p)
        BY <2>4 DEF ResendVerification, ForgotPassword, Purposes
      <3>2. QED BY <2>1, <3>1
    <2>5. CASE \E c \in Challenge : VerifyStale(r, c) \/ VerifyWrong(r, c) \/ VerifyRight(r, c)
      <3>1. \E c \in Challenge, label \in {"verify.burn", "verify.count", "verify.accept"} :
              Judge(r, c, label)
        BY <2>5 DEF VerifyStale, VerifyWrong, VerifyRight
      <3>2. QED BY <2>2, <3>1
    <2>6. CASE \E t \in ResetToken : ConfirmRead(r, t)
      BY <2>3, <2>6
    <2>7. QED BY <2>4, <2>5, <2>6 DEF Start
  <1>5. Untouched(request[r])'
    BY <1>1, <1>3, <1>4 DEF Untouched, codes, tokens
  <1>6. ASSUME NEW s \in Request \ {r} PROVE Untouched(request[s])'
    BY <1>1, <1>3 DEF FirstUses, Untouched, For, Created, codes, tokens, history
  <1>7. OneActiveChallenge'
    BY <1>1 DEF FirstUses, OneActiveChallenge, For, Created, codes
  <1>8. /\ CodeAcceptedOnce' /\ ResetTokenUsedOnce'
        /\ \A c \in Challenge \ consumed' : accepts'[c] = 0
        /\ \A t \in ResetToken \ spent' : resets'[t] = 0
    BY <1>1 DEF FirstUses, CodeAcceptedOnce, ResetTokenUsedOnce, codes, tokens, history
  <1>9. QED BY SMTT(30), <1>5, <1>6, <1>7, <1>8 DEF FirstUses

(* Consuming challenges, counting and time leave first uses first.         *)
LEMMA UsesKept ==
  ASSUME FirstUses, UNCHANGED <<holder, purpose, accepts, resets>>,
         consumed \subseteq consumed', spent \subseteq spent',
         \A r \in Request : Untouched(request[r])'
  PROVE  FirstUses'
  <1>1. OneActiveChallenge'
    <2>1. ASSUME NEW u, NEW p PROVE For(u, p)' = For(u, p)
      BY DEF For, Created
    <2>2. QED BY <2>1 DEF FirstUses, OneActiveChallenge
  <1>2. CodeAcceptedOnce' /\ ResetTokenUsedOnce'
    BY DEF FirstUses, CodeAcceptedOnce, ResetTokenUsedOnce
  <1>3. /\ \A c \in Challenge \ consumed' : accepts'[c] = 0
        /\ \A t \in ResetToken \ spent' : resets'[t] = 0
    BY DEF FirstUses
  <1>4. QED BY <1>1, <1>2, <1>3 DEF FirstUses

(* The statements that use nothing up for the first time but what they     *)
(* hold.                                                                   *)
LEMMA AloneStatement ==
  ASSUME Inv, Sequential, FirstUses, NEW r \in Request,
         \/ GenerateSweep(r) \/ VerifyBurn(r) \/ VerifyCount(r) \/ MarkVerified(r)
         \/ IssueReset(r) \/ ConfirmConsume(r)
  PROVE  FirstUses'
  <1>1. /\ UNCHANGED <<holder, purpose, accepts, resets>>
        /\ consumed \subseteq consumed' /\ spent \subseteq spent'
    BY DEF GenerateSweep, VerifyBurn, VerifyCount, MarkVerified, IssueReset, ConfirmConsume,
           Consume, Spend, codes, tokens, history
  <1>2. ~Idle(r) /\ TypeOK
    BY DEF GenerateSweep, VerifyBurn, VerifyCount, MarkVerified, IssueReset, ConfirmConsume,
           At, Idle, Inv
  <1>3. CASE GenerateSweep(r)
    <2>1. Continue(r, "generate.create") /\ "generate.create" \in Labels
      BY <1>3 DEF GenerateSweep, Labels
    <2>2. Untouched(request[r])'
      <3>1. For(request[r].user, request[r].purpose) \subseteq consumed'
        BY <1>3 DEF GenerateSweep, Consume, Retired
      <3>2. QED BY <1>1, <1>2, <2>1, <3>1, ContinueMoves DEF Untouched, For, Created
    <2>3. QED BY <1>1, <1>2, <2>1, <2>2, ContinueMoves, OthersIdle, UsesKept
  <1>4. CASE ConfirmConsume(r)
    <2>1. Continue(r, "confirm.set") /\ "confirm.set" \in Labels
      BY <1>4 DEF ConfirmConsume, Labels
    <2>2. request[r].token \in ResetToken /\ request[r].token \notin spent
      BY <1>4 DEF ConfirmConsume, At, Inv, HandlersReady, Ready, ConfirmLabels, IssuedTokens,
                  FirstUses, Untouched
    <2>3. Untouched(request[r])'
      BY <1>1, <1>2, <2>1, <2>2, ContinueMoves DEF Untouched, FirstUses
    <2>4. QED BY <1>1, <1>2, <2>1, <2>3, ContinueMoves, OthersIdle, UsesKept
  <1>5. CASE VerifyBurn(r) \/ VerifyCount(r) \/ MarkVerified(r) \/ IssueReset(r)
    <2>1. Finish(r)
      BY <1>5 DEF VerifyBurn, VerifyCount, MarkVerified, IssueReset
    <2>2. QED BY <1>1, <1>2, <2>1, FinishMoves, IdleUntouched, OthersIdle, UsesKept
  <1>6. QED BY <1>3, <1>4, <1>5

(* A new challenge finds the older ones retired.                           *)
LEMMA AloneCreate ==
  ASSUME Inv, Sequential, FirstUses, NEW r \in Request, GenerateCreate(r)
  PROVE  FirstUses'
  <1> DEFINE v == request[r].user
             w == request[r].purpose
  <1>1. PICK c \in Challenge \ Created :
          /\ holder' = [holder EXCEPT ![c] = v]
          /\ purpose' = [purpose EXCEPT ![c] = w]
    BY DEF GenerateCreate
  <1>2. /\ UNCHANGED <<attempts, consumed, expired, tokens, verified, history>> /\ Finish(r)
        /\ ~Idle(r) /\ TypeOK
        /\ For(v, w) \subseteq consumed
    BY DEF GenerateCreate, At, Idle, Inv, FirstUses, Untouched
  <1>3. \A s \in Request : Untouched(request[s])'
    BY <1>2, FinishMoves, IdleUntouched, OthersIdle
  <1>4. OneActiveChallenge'
    <2> SUFFICES ASSUME NEW u \in User, NEW p \in Purposes,
                        NEW a \in For(u, p)' \ consumed', NEW b \in For(u, p)' \ consumed'
                 PROVE  a = b
      BY DEF OneActiveChallenge
    <2>1. ASSUME NEW d \in For(u, p)' \ consumed'
          PROVE  IF d = c THEN u = v /\ p = w ELSE d \in For(u, p) \ consumed
      BY <1>1, <1>2 DEF For, Created, TypeOK
    <2>2. QED BY <1>2, <2>1 DEF FirstUses, OneActiveChallenge
  <1>5. QED BY <1>2, <1>3, <1>4
        DEF FirstUses, CodeAcceptedOnce, ResetTokenUsedOnce, tokens, history

(* A code is accepted for the first time.                                  *)
LEMMA AloneAccept ==
  ASSUME Inv, Sequential, FirstUses, NEW r \in Request, VerifyAccept(r)
  PROVE  FirstUses'
  <1> DEFINE c == request[r].challenge
             label == AfterAccept(request[r].purpose)
  <1>1. c \in Challenge /\ c \notin consumed
    BY RequestOfChallenge DEF VerifyAccept, At, VerifyLabels, FirstUses, Untouched
  <1>2. /\ consumed' = consumed \union {c}
        /\ accepts' = [accepts EXCEPT ![c] = Again(accepts[c])]
        /\ UNCHANGED <<holder, purpose, attempts, expired, tokens, verified, origin, resets>>
        /\ Continue(r, label)
        /\ ~Idle(r) /\ TypeOK
    BY DEF VerifyAccept, Consume, At, Idle, Inv
  <1>3. accepts[c] = 0 /\ Again(accepts[c]) = 1
    <2>1. accepts[c] = 0
      BY <1>1 DEF FirstUses
    <2>2. QED BY <2>1 DEF Again
  <1>4. \A s \in Request : Untouched(request[s])'
    <2>1. label \in Labels /\ label \in {"verify.email", "reset.issue"}
      BY DEF AfterAccept, Labels
    <2>2. Untouched(request[r])'
      BY <1>2, <2>1, ContinueMoves DEF Untouched
    <2>3. QED BY <1>2, <2>1, <2>2, ContinueMoves, OthersIdle
  <1>5. CodeAcceptedOnce' /\ \A d \in Challenge \ consumed' : accepts'[d] = 0
    BY <1>1, <1>2, <1>3 DEF FirstUses, CodeAcceptedOnce, TypeOK
  <1>6. OneActiveChallenge'
    BY <1>2 DEF FirstUses, OneActiveChallenge, For, Created
  <1>7. QED BY <1>2, <1>4, <1>5, <1>6 DEF FirstUses, ResetTokenUsedOnce, tokens

(* A reset token sets a password for the first time. *)
LEMMA AloneReset ==
  ASSUME Inv, Sequential, FirstUses, NEW r \in Request, ConfirmSet(r)
  PROVE  FirstUses'
  <1> DEFINE t == request[r].token
  <1>1. t \in ResetToken /\ t \in spent /\ resets[t] = 0
    BY DEF ConfirmSet, At, Inv, HandlersReady, Ready, ConfirmLabels, IssuedTokens,
           FirstUses, Untouched
  <1>2. /\ resets' = [resets EXCEPT ![t] = Again(resets[t])] /\ Finish(r)
        /\ UNCHANGED <<codes, tokens, verified, accepts, origin>>
        /\ ~Idle(r) /\ TypeOK
    BY DEF ConfirmSet, At, Idle, Inv
  <1>3. Again(resets[t]) = 1
    BY <1>1 DEF Again
  <1>4. \A s \in Request : Untouched(request[s])'
    BY <1>2, FinishMoves, IdleUntouched, OthersIdle
  <1>5. ResetTokenUsedOnce' /\ \A x \in ResetToken \ spent' : resets'[x] = 0
    BY <1>1, <1>2, <1>3 DEF FirstUses, ResetTokenUsedOnce, TypeOK, tokens
  <1>6. OneActiveChallenge'
    BY <1>2 DEF FirstUses, OneActiveChallenge, For, Created, codes
  <1>7. QED BY <1>2, <1>4, <1>5, <1>6 DEF FirstUses, CodeAcceptedOnce, codes

(* A handler cut off holds what it held; one that is lost holds nothing.   *)
LEMMA AloneFault ==
  ASSUME Inv, Sequential, FirstUses, NEW r \in Request, CutOff(r) \/ Lost(r)
  PROVE  FirstUses'
  <1>1. UNCHANGED <<codes, tokens, verified, history>> /\ TypeOK
    BY DEF CutOff, Lost, Inv
  <1>2. \A s \in Request : Untouched(request[s])'
    <2>1. ASSUME NEW s \in Request
          PROVE  \/ request'[s].pc = "idle"
                 \/ /\ request'[s].pc = request[s].pc
                    /\ request'[s].user = request[s].user
                    /\ request'[s].purpose = request[s].purpose
                    /\ request'[s].challenge = request[s].challenge
                    /\ request'[s].token = request[s].token
      <3>1. request[s] \in Requests
        BY DEF Inv, TypeOK
      <3>2. CASE CutOff(r)
        BY <3>1, <3>2 DEF CutOff, Inv, TypeOK, Requests
      <3>3. CASE Lost(r)
        BY <1>1, <3>3, FinishMoves DEF Lost
      <3>4. QED BY <3>2, <3>3
    <2>2. ASSUME NEW u, NEW p PROVE For(u, p)' = For(u, p)
      BY <1>1 DEF For, Created, codes
    <2>3. QED BY <1>1, <2>1, <2>2 DEF FirstUses, Untouched, codes, tokens, history
  <1>3. QED BY <1>1, <1>2, UsesKept DEF codes, tokens, history

(* Every step of requests that follow one another uses things once.        *)
LEMMA AloneStep ==
  ASSUME Inv, Sequential, FirstUses, Next
  PROVE  FirstUses'
  <1>1. ASSUME NEW r \in Request, Statement(r) PROVE FirstUses'
    BY <1>1, AloneStatement, AloneCreate, AloneAccept, AloneReset DEF Statement
  <1>2. CASE \/ \E c \in Challenge : ChallengeExpires(c)
             \/ \E t \in ResetToken : TokenLapses(t)
    <2>1. UNCHANGED <<holder, purpose, consumed, spent, request, history>>
      BY <1>2 DEF ChallengeExpires, TokenLapses, codes, tokens
    <2>2. QED BY <2>1 DEF FirstUses, OneActiveChallenge, CodeAcceptedOnce, ResetTokenUsedOnce,
                          Untouched, For, Created, history
  <1>3. QED BY <1>1, <1>2, AloneStart, AloneFault DEF Next

MCStep == Next /\ UNCHANGED alone /\ Arranged

(* If requests do not overlap, there is one active challenge per address   *)
(* and purpose, a code is accepted once and a reset token sets one         *)
(* password: what the comments of OtpService promise, which its separate   *)
(* statements keep only then.                                              *)
THEOREM SingleUseSafety == MCSpec => []SingleUse
  <1>1. MCInit => Inv /\ AloneInv
    <2> SUFFICES ASSUME MCInit PROVE Inv /\ AloneInv
      OBVIOUS
    <2>1. Init /\ Inv
      BY InitInv DEF MCInit
    <2>2. \A r \in Request : request[r].pc = "idle"
      BY <2>1 DEF Init, IdleRequest
    <2>3. Sequential
      BY <2>2 DEF Sequential, Busy, Idle
    <2>4. OneActiveChallenge /\ CodeAcceptedOnce /\ ResetTokenUsedOnce
      BY <2>1 DEF Init, OneActiveChallenge, CodeAcceptedOnce, ResetTokenUsedOnce, For, Created
    <2>5. FirstUses
      BY <2>1, <2>2, <2>4 DEF Init, FirstUses, Untouched
    <2>6. QED BY <2>1, <2>3, <2>5 DEF AloneInv
  <1>2. Inv /\ AloneInv /\ [MCStep]_<<vars, alone>> => (Inv /\ AloneInv)'
    <2> SUFFICES ASSUME Inv, AloneInv, [MCStep]_<<vars, alone>> PROVE (Inv /\ AloneInv)'
      OBVIOUS
    <2>1. Inv'
      BY NextInv DEF MCStep
    <2>2. CASE MCStep
      <3>1. alone => FirstUses'
        BY <2>2, AloneStep DEF MCStep, AloneInv
      <3>2. alone' = alone /\ (alone => Sequential')
        BY <2>2 DEF MCStep, Arranged
      <3>3. QED BY <2>1, <3>1, <3>2 DEF AloneInv
    <2>3. CASE UNCHANGED <<vars, alone>>
      BY <2>1, <2>3 DEF AloneInv, Sequential, Busy, Idle, FirstUses, OneActiveChallenge,
                        CodeAcceptedOnce, ResetTokenUsedOnce, Untouched, For, Created, vars,
                        codes, tokens, history
    <2>4. QED BY <2>2, <2>3
  <1>3. Inv /\ AloneInv => SingleUse
    BY DEF AloneInv, FirstUses, SingleUse
  <1>4. QED BY <1>1, <1>2, <1>3, PTL DEF MCSpec, MCStep

-----------------------------------------------------------------------------
(* Wrong codes run out *)

(* A set of numbers that is not empty has a least one. *)
LEMMA Least ==
  ASSUME NEW S \in SUBSET Nat, S # {}
  PROVE  \E n \in S : \A m \in S : n <= m
  <1>1. PICK n \in S : \A m \in S : ~ (<<m, n>> \in OpToRel(<, Nat))
    BY WFMin, NatLessThanWellFounded, Zenon
  <1>2. \A m \in S : ~ (m < n)
    BY <1>1 DEF OpToRel
  <1>3. QED BY <1>2

(* A rank that is less at a level, and at none before it more, is below.   *)
LEMMA LessIsBelow ==
  ASSUME NEW limit \in Nat, NEW x \in Ranks(limit), NEW y \in Ranks(limit),
         NEW c \in Levels(limit), x[c] < y[c],
         \A k \in Levels(limit) : k < c => x[k] <= y[k]
  PROVE  <<x, y>> \in Below(limit)
  <1> DEFINE D == {k \in Levels(limit) : x[k] # y[k]}
  <1>1. /\ D \in SUBSET Nat /\ c \in D
        /\ \A k \in Levels(limit) : x[k] \in Nat /\ y[k] \in Nat
    BY DEF Levels, Ranks
  <1>2. PICK k \in D : \A l \in D : k <= l
    <2> HIDE DEF D
    <2>1. QED BY <1>1, Least
  <1>3. k \in Levels(limit) /\ (k < c \/ k = c)
    BY <1>1, <1>2 DEF Levels
  <1>4. x[k] < y[k]
    BY <1>1, <1>3, x[k] # y[k]
  <1>5. \A i \in Levels(limit) : i < k => x[i] = y[i]
    BY <1>2 DEF Levels
  <1>6. QED BY <1>3, <1>4, <1>5 DEF Below

(* One that is more at no level is the same or below. *)
LEMMA NoMoreIsBelow ==
  ASSUME NEW limit \in Nat, NEW x \in Ranks(limit), NEW y \in Ranks(limit),
         \A k \in Levels(limit) : x[k] <= y[k]
  PROVE  x = y \/ <<x, y>> \in Below(limit)
  <1>1. CASE \E c \in Levels(limit) : x[c] < y[c]
    BY <1>1, LessIsBelow
  <1>2. CASE ~ \E c \in Levels(limit) : x[c] < y[c]
    <2>1. \A k \in Levels(limit) : x[k] = y[k]
      BY <1>2 DEF Ranks
    <2>2. QED BY <2>1 DEF Ranks
  <1>3. QED BY <1>1, <1>2

(* The wrong codes for a challenge that were judged on a copy of its count *)
(* no higher than a level, and are still to be counted.                    *)
Uncounted(c, k) ==
  {r \in Request : At(r, "verify.count") /\ request[r].challenge = c /\ request[r].attempts <= k}

(* What is left of a challenge's attempts: at each level the count has     *)
(* passed, the copies that may still take it back there.                   *)
Left(c) ==
  [k \in Levels(MaxAttempts) |->
     IF attempts[c] <= k THEN Cardinality(Request) + 1 ELSE Cardinality(Uncounted(c, k))]

WrongCodeCounted(c) == \E r \in Request : VerifyCount(r) /\ request[r].challenge = c

(* A wrong code that is counted takes some of what is left, and no step    *)
(* gives any back.                                                         *)
AttemptsRunOut ==
  [][\A c \in Challenge :
       /\ WrongCodeCounted(c) => <<Left(c)', Left(c)>> \in Below(MaxAttempts)
       /\ Left(c)' = Left(c) \/ <<Left(c)', Left(c)>> \in Below(MaxAttempts)]_vars

(* A set of requests is as finite as all of them. *)
LEMMA SomeRequests ==
  ASSUME IsFiniteSet(Request), NEW S \in SUBSET Request
  PROVE  /\ IsFiniteSet(S) /\ Cardinality(S) \in Nat /\ Cardinality(Request) \in Nat
         /\ Cardinality(S) <= Cardinality(Request)
  BY FS_Subset, FS_CardinalityType

(* What is left is a rank, in both states. *)
LEMMA LeftType ==
  ASSUME IsFiniteSet(Request), NEW c
  PROVE  Left(c) \in Ranks(MaxAttempts) /\ Left(c)' \in Ranks(MaxAttempts)
  <1>1. \A k : Uncounted(c, k) \in SUBSET Request /\ Uncounted(c, k)' \in SUBSET Request
    BY DEF Uncounted
  <1>2. Left(c) \in Ranks(MaxAttempts)
    BY <1>1, SomeRequests DEF Left, Ranks
  <1>3. Left(c)' \in Ranks(MaxAttempts)
    BY <1>1, SomeRequests DEF Left, Ranks
  <1>4. QED BY <1>2, <1>3

(* What a step leaves of the judgements that are still to be counted: a    *)
(* new one is of the count as it is.                                       *)
FreshlyJudged(s) ==
  request'[s].pc = "verify.count" =>
    \/ /\ request[s].pc = "verify.count"
       /\ request'[s].challenge = request[s].challenge
       /\ request'[s].attempts = request[s].attempts
    \/ request'[s].attempts = attempts[request'[s].challenge]

(* A handler that starts has judged on the count it read just now. *)
LEMMA StartJudges ==
  ASSUME Inv, NEW r \in Request, Start(r)
  PROVE  FreshlyJudged(r)
  <1>1. ASSUME NEW q, request' = [request EXCEPT ![r] = q]
        PROVE  request'[r] = q
    BY <1>1 DEF Inv, TypeOK
  <1>2. ASSUME NEW u \in User, ResendVerification(r, u) \/ ForgotPassword(r, u)
        PROVE  FreshlyJudged(r)
    <2>1. PICK p \in Purposes : BeginGenerate(r, u, p)
      BY <1>2 DEF ResendVerification, ForgotPassword, Purposes
    <2>2. ASSUME NEW i \in Requests
          PROVE  [i EXCEPT !.pc = "generate.sweep", !.user = u, !.purpose = p].pc = "generate.sweep"
      BY DEF Requests
    <2>3. request'[r].pc = "generate.sweep"
      BY <1>1, <2>1, <2>2, IdleRequestType DEF BeginGenerate
    <2>4. QED BY <2>3 DEF FreshlyJudged
  <1>3. ASSUME NEW c \in Challenge, NEW label, Judge(r, c, label)
        PROVE  FreshlyJudged(r)
    <2>1. ASSUME NEW i \in Requests, NEW u, NEW p, NEW n
          PROVE  LET j == [i EXCEPT !.pc = label, !.user = u, !.purpose = p,
                             !.challenge = c, !.attempts = n]
                 IN j.challenge = c /\ j.attempts = n
      BY DEF Requests
    <2> DEFINE q == [IdleRequest EXCEPT !.pc = label, !.user = holder[c], !.purpose = purpose[c],
                       !.challenge = c, !.attempts = attempts[c]]
    <2>2. q.challenge = c /\ q.attempts = attempts[c]
      BY <2>1, IdleRequestType
    <2>3. request' = [request EXCEPT ![r] = q]
      BY <1>3 DEF Judge
    <2> HIDE DEF q
    <2>4. QED BY <1>1, <2>2, <2>3 DEF FreshlyJudged
  <1>4. ASSUME NEW t \in ResetToken, ConfirmRead(r, t)
        PROVE  FreshlyJudged(r)
    <2>1. ASSUME NEW i \in Requests, NEW u
          PROVE  [i EXCEPT !.pc = "confirm.consume", !.user = u, !.token = t].pc = "confirm.consume"
      BY DEF Requests
    <2>2. request'[r].pc = "confirm.consume"
      BY ZenonT(60), <1>1, <1>4, <2>1, IdleRequestType DEF ConfirmRead
    <2>3. QED BY <2>2 DEF FreshlyJudged
  <1>5. QED BY <1>2, <1>3, <1>4 DEF Start, VerifyStale, VerifyWrong, VerifyRight

(* No other step makes a judgement. *)
LEMMA StepJudges ==
  ASSUME Inv, [Next]_vars, NEW s \in Request
  PROVE  FreshlyJudged(s)
  <1>1. TypeOK
    BY DEF Inv
  <1>2. CASE request'[s] = request[s]
    BY <1>2 DEF FreshlyJudged
  <1>3. ASSUME NEW r \in Request, Start(r) PROVE FreshlyJudged(s)
    <2>1. CASE s = r
      BY <1>3, <2>1, StartJudges
    <2>2. CASE s # r
      <3>1. PICK q \in Requests : request' = [request EXCEPT ![r] = q]
        BY <1>3, StartReady DEF Starts
      <3>2. QED BY <1>1, <1>2, <2>2, <3>1 DEF TypeOK
    <2>3. QED BY <2>1, <2>2
  <1>4. ASSUME NEW r \in Request, Finish(r) PROVE FreshlyJudged(s)
    BY <1>1, <1>2, <1>4, FinishMoves DEF FreshlyJudged
  <1>5. ASSUME NEW r \in Request, NEW label \in Labels \ {"verify.count"}, Continue(r, label)
        PROVE  FreshlyJudged(s)
    BY <1>1, <1>2, <1>5, ContinueMoves DEF FreshlyJudged
  <1>6. ASSUME NEW r \in Request, CutOff(r) PROVE FreshlyJudged(s)
    <2>1. request[r] \in Requests
      BY <1>1 DEF TypeOK
    <2>2. request' = [request EXCEPT ![r] = [request[r] EXCEPT !.orphan = TRUE]]
      BY <1>6 DEF CutOff
    <2>3. /\ request'[r].challenge = request[r].challenge
          /\ request'[r].attempts = request[r].attempts /\ request'[r].pc = request[r].pc
      BY <1>1, <2>1, <2>2 DEF TypeOK, Requests
    <2>4. s # r => request'[s] = request[s]
      BY <1>1, <2>2 DEF TypeOK
    <2>5. QED BY <1>2, <2>3, <2>4 DEF FreshlyJudged
  <1>7. ASSUME NEW r \in Request, Statement(r) PROVE FreshlyJudged(s)
    <2>1. \/ Finish(r)
          \/ \E label \in {"generate.create", "verify.email", "reset.issue", "confirm.set"} :
               Continue(r, label)
      BY <1>7 DEF Statement, GenerateSweep, GenerateCreate, VerifyBurn, VerifyCount, VerifyAccept,
                  AfterAccept, MarkVerified, IssueReset, ConfirmConsume, ConfirmSet
    <2>2. {"generate.create", "verify.email", "reset.issue", "confirm.set"}
             \subseteq Labels \ {"verify.count"}
      BY DEF Labels
    <2>3. QED BY <1>4, <1>5, <2>1, <2>2
  <1>8. ASSUME NEW r \in Request, Lost(r) PROVE FreshlyJudged(s)
    BY <1>4, <1>8 DEF Lost
  <1>9. CASE \/ \E c \in Challenge : ChallengeExpires(c)
             \/ \E t \in ResetToken : TokenLapses(t)
             \/ UNCHANGED vars
    BY <1>2, <1>9 DEF ChallengeExpires, TokenLapses, vars
  <1>10. QED BY <1>3, <1>6, <1>7, <1>8, <1>9 DEF Next

(* Only a wrong code moves the count of its challenge. *)
LEMMA CountKept ==
  ASSUME Inv, [Next]_vars, NEW c \in Challenge, ~WrongCodeCounted(c)
  PROVE  attempts'[c] = attempts[c]
  <1>1. CASE UNCHANGED attempts
    BY <1>1
  <1>2. ASSUME NEW r \in Request, VerifyCount(r) PROVE attempts'[c] = attempts[c]
    <2>1. request[r].challenge # c
      BY <1>2 DEF WrongCodeCounted
    <2>2. QED BY <1>2, <2>1 DEF VerifyCount, Inv, TypeOK
  <1>3. CASE ~ \E r \in Request : VerifyCount(r)
    <2>1. UNCHANGED attempts
      BY <1>3, ZenonT(60)
      DEF Next, Start, Statement, ResendVerification, ForgotPassword, BeginGenerate, VerifyStale,
          VerifyWrong, VerifyRight, Judge, ConfirmRead, GenerateSweep, GenerateCreate, VerifyBurn,
          VerifyAccept, MarkVerified, IssueReset, ConfirmConsume, ConfirmSet, CutOff, Lost,
          ChallengeExpires, TokenLapses, vars, codes
    <2>2. QED BY <1>1, <2>1
  <1>4. QED BY <1>2, <1>3

(* Unless it counts a wrong code, a step gives nothing back. *)
LEMMA LeftKept ==
  ASSUME IsFiniteSet(Request), Inv, [Next]_vars, NEW c \in Challenge, ~WrongCodeCounted(c)
  PROVE  Left(c)' = Left(c) \/ <<Left(c)', Left(c)>> \in Below(MaxAttempts)
  <1>1. attempts'[c] = attempts[c]
    BY CountKept
  <1>2. ASSUME NEW k \in Levels(MaxAttempts), ~(attempts[c] <= k)
        PROVE  Uncounted(c, k)' \in SUBSET Uncounted(c, k)
    <2> SUFFICES ASSUME NEW s \in Request, s \in Uncounted(c, k)' PROVE s \in Uncounted(c, k)
      BY DEF Uncounted
    <2>1. request'[s].pc = "verify.count" /\ request'[s].challenge = c /\ request'[s].attempts <= k
      BY DEF Uncounted, At
    <2>2. FreshlyJudged(s)
      BY StepJudges
    <2>3. QED BY <1>2, <2>1, <2>2 DEF FreshlyJudged, Uncounted, At
  <1>3. ASSUME NEW k \in Levels(MaxAttempts) PROVE Left(c)'[k] <= Left(c)[k]
    <2>1. CASE attempts[c] <= k
      <3>1. Left(c)'[k] = Cardinality(Request) + 1 /\ Left(c)[k] = Cardinality(Request) + 1
        BY <1>1, <2>1 DEF Left
      <3>2. Cardinality(Request) \in Nat
        BY SomeRequests
      <3>3. QED BY <3>1, <3>2
    <2>2. CASE ~(attempts[c] <= k)
      <3>1. Cardinality(Uncounted(c, k)') <= Cardinality(Uncounted(c, k))
        <4>1. Uncounted(c, k) \in SUBSET Request
          BY DEF Uncounted
        <4>2. IsFiniteSet(Uncounted(c, k))
          BY <4>1, SomeRequests
        <4>3. QED BY <1>2, <2>2, <4>2, FS_Subset
      <3>2. QED BY <1>1, <2>2, <3>1 DEF Left
    <2>3. QED BY <2>1, <2>2
  <1>4. Left(c) \in Ranks(MaxAttempts) /\ Left(c)' \in Ranks(MaxAttempts)
    BY LeftType
  <1>5. QED BY <1>3, <1>4, NoMoreIsBelow

(* A wrong code was judged on a copy below the limit: at that level one    *)
(* judgement less is left to be counted.                                   *)
LEMMA WrongCodeTakes ==
  ASSUME IsFiniteSet(Request), Inv, NEW c \in Challenge, NEW r \in Request,
         VerifyCount(r), request[r].challenge = c
  PROVE  <<Left(c)', Left(c)>> \in Below(MaxAttempts)
  <1> DEFINE N == Cardinality(Request)
  <1>1. At(r, "verify.count") /\ TypeOK
    BY DEF Inv, VerifyCount
  <1>2. PICK n \in Levels(MaxAttempts) : n = request[r].attempts
    <2>1. request[r].attempts \in 0 .. MaxAttempts
      BY <1>1 DEF TypeOK, Requests
    <2>2. request[r].attempts < MaxAttempts
      BY <1>1 DEF At, Inv, HandlersReady, Ready
    <2>3. QED BY <2>1, <2>2 DEF Levels
  <1>3. n \in Nat
    BY DEF Levels
  <1>4. attempts'[c] = n + 1
    BY <1>1, <1>2 DEF VerifyCount, Counts, TypeOK
  <1>5. \A s \in Request \ {r} : request'[s] = request[s]
    BY <1>1, FinishMoves DEF VerifyCount
  <1>6. request'[r].pc = "idle"
    BY <1>1, FinishMoves DEF VerifyCount
  <1>7. \A k : Uncounted(c, k)' = Uncounted(c, k) \ {r}
    BY <1>5, <1>6 DEF Uncounted, At
  <1>8. \A k : Uncounted(c, k) \in SUBSET Request
    BY DEF Uncounted
  <1>9. N \in Nat
    BY SomeRequests
  <1>10. ASSUME NEW k \in Levels(MaxAttempts), k < n + 1
         PROVE  /\ Left(c)'[k] = Cardinality(Uncounted(c, k) \ {r})
                /\ Left(c)[k] \in {N + 1, Cardinality(Uncounted(c, k))}
    <2>1. ~(attempts'[c] <= k)
      BY <1>3, <1>4, <1>10 DEF Levels
    <2>2. QED BY <1>7, <2>1 DEF Left
  <1>11. ASSUME NEW k \in Levels(MaxAttempts), k < n PROVE Left(c)'[k] <= Left(c)[k]
    <2>1. PICK S \in SUBSET Request : S = Uncounted(c, k)
      BY <1>8
    <2>2. IsFiniteSet(S) /\ Cardinality(S) \in Nat /\ Cardinality(S) <= N
      BY SomeRequests
    <2>3. Cardinality(S \ {r}) <= Cardinality(S)
      BY <2>2, S \ {r} \in SUBSET S, FS_Subset
    <2>4. Cardinality(S \ {r}) \in Nat
      BY SomeRequests
    <2>5. k < n + 1
      BY <1>3, <1>11 DEF Levels
    <2>6. Left(c)'[k] = Cardinality(S \ {r}) /\ Left(c)[k] \in {N + 1, Cardinality(S)}
      BY <1>10, <2>1, <2>5
    <2>7. QED BY <1>9, <2>2, <2>3, <2>4, <2>6
  <1>12. Left(c)'[n] < Left(c)[n]
    <2>1. PICK S \in SUBSET Request : S = Uncounted(c, n)
      BY <1>8
    <2>2. IsFiniteSet(S) /\ Cardinality(S) \in Nat /\ Cardinality(S) <= N
      BY SomeRequests
    <2>3. r \in S
      BY <1>1, <1>2, <1>3, <2>1 DEF Uncounted
    <2>4. Cardinality(S \ {r}) = Cardinality(S) - 1
      BY <2>2, <2>3, FS_RemoveElement
    <2>5. Left(c)'[n] = Cardinality(S \ {r}) /\ Left(c)[n] \in {N + 1, Cardinality(S)}
      BY <1>3, <1>10, <2>1
    <2>6. QED BY <1>9, <2>2, <2>4, <2>5
  <1>13. Left(c) \in Ranks(MaxAttempts) /\ Left(c)' \in Ranks(MaxAttempts)
    BY LeftType
  <1>14. QED BY <1>11, <1>12, <1>13, LessIsBelow

(* However the verifications of concurrent requests overwrite one another, *)
(* each wrong code that is counted takes some of what is left for its      *)
(* challenge, and nothing is ever given back: since no rank goes down for  *)
(* ever (RanksRunOut of SessionsProofs), a challenge of otp.service.ts can *)
(* be guessed at only finitely often.                                      *)
THEOREM GuessesRunOut == IsFiniteSet(Request) /\ Spec => AttemptsRunOut
  <1> SUFFICES ASSUME IsFiniteSet(Request) PROVE Spec => AttemptsRunOut
    OBVIOUS
  <1>1. Inv /\ [Next]_vars =>
          [\A c \in Challenge :
             /\ WrongCodeCounted(c) => <<Left(c)', Left(c)>> \in Below(MaxAttempts)
             /\ Left(c)' = Left(c) \/ <<Left(c)', Left(c)>> \in Below(MaxAttempts)]_vars
    <2> SUFFICES ASSUME Inv, [Next]_vars, NEW c \in Challenge
        PROVE  /\ WrongCodeCounted(c) => <<Left(c)', Left(c)>> \in Below(MaxAttempts)
               /\ Left(c)' = Left(c) \/ <<Left(c)', Left(c)>> \in Below(MaxAttempts)
      OBVIOUS
    <2>1. CASE WrongCodeCounted(c)
      BY <2>1, WrongCodeTakes DEF WrongCodeCounted
    <2>2. CASE ~WrongCodeCounted(c)
      BY <2>2, LeftKept
    <2>3. QED BY <2>1, <2>2
  <1>2. QED BY <1>1, Invariance, PTL DEF Spec, AttemptsRunOut

-----------------------------------------------------------------------------
(* Overlap.  Two requests may accept one code or use one reset token, each *)
(* having looked at the row before the other wrote it; the row still ends  *)
(* the race, which only those who have looked already go on with.          *)

(* The requests that found a code right and are still to consume it. *)
Accepting(c) == {r \in Request : At(r, "verify.accept") /\ request[r].challenge = c}

(* Those that found a reset token good and are still to set the password. *)
Spending(t) ==
  {r \in Request : request[r].pc \in {"confirm.consume", "confirm.set"} /\ request[r].token = t}

(* Nobody joins those who accept a consumed code or use a spent token, and *)
(* whoever has accepted it, or set the password, leaves them.              *)
RacesEnd ==
  [][/\ \A c \in consumed : Accepting(c)' \subseteq Accepting(c)
     /\ \A t \in spent : Spending(t)' \subseteq Spending(t)
     /\ \A r \in Request, c \in Challenge :
          VerifyAccept(r) /\ request[r].challenge = c => r \in Accepting(c) \ Accepting(c)'
     /\ \A r \in Request, t \in ResetToken :
          ConfirmSet(r) /\ request[r].token = t => r \in Spending(t) \ Spending(t)']_vars

(* What a step leaves of the requests that found a code or a token good: a *)
(* new one looked at the row as it is.                                     *)
FreshlyFound(s) ==
  /\ request'[s].pc = "verify.accept" =>
       \/ request[s].pc = "verify.accept" /\ request'[s].challenge = request[s].challenge
       \/ request'[s].challenge \notin consumed
  /\ request'[s].pc \in {"confirm.consume", "confirm.set"} =>
       \/ /\ request[s].pc \in {"confirm.consume", "confirm.set"}
          /\ request'[s].token = request[s].token
       \/ request'[s].token \notin spent

(* A handler that starts has found its row unused just now. *)
LEMMA StartFinds ==
  ASSUME Inv, NEW r \in Request, Start(r)
  PROVE  FreshlyFound(r)
  <1>1. ASSUME NEW q, request' = [request EXCEPT ![r] = q]
        PROVE  request'[r] = q
    BY <1>1 DEF Inv, TypeOK
  <1>2. ASSUME NEW u \in User, ResendVerification(r, u) \/ ForgotPassword(r, u)
        PROVE  FreshlyFound(r)
    <2>1. PICK p \in Purposes : BeginGenerate(r, u, p)
      BY <1>2 DEF ResendVerification, ForgotPassword, Purposes
    <2>2. ASSUME NEW i \in Requests
          PROVE  [i EXCEPT !.pc = "generate.sweep", !.user = u, !.purpose = p].pc = "generate.sweep"
      BY DEF Requests
    <2>3. request'[r].pc = "generate.sweep"
      BY <1>1, <2>1, <2>2, IdleRequestType DEF BeginGenerate
    <2>4. QED BY <2>3 DEF FreshlyFound
  <1>3. ASSUME NEW c \in Challenge,
               NEW label \in {"verify.burn", "verify.count", "verify.accept"}, Judge(r, c, label)
        PROVE  FreshlyFound(r)
    <2>1. ASSUME NEW i \in Requests, NEW u, NEW p, NEW n
          PROVE  LET j == [i EXCEPT !.pc = label, !.user = u, !.purpose = p,
                             !.challenge = c, !.attempts = n]
                 IN j.pc = label /\ j.challenge = c
      BY DEF Requests
    <2> DEFINE q == [IdleRequest EXCEPT !.pc = label, !.user = holder[c], !.purpose = purpose[c],
                       !.challenge = c, !.attempts = attempts[c]]
    <2>2. q.pc = label /\ q.challenge = c
      BY <2>1, IdleRequestType
    <2>3. request' = [request EXCEPT ![r] = q]
      BY <1>3 DEF Judge
    <2>4. c \notin consumed
      BY <1>3 DEF Judge, Newest
    <2> HIDE DEF q
    <2>5. request'[r].pc = label /\ request'[r].challenge = c
      BY <1>1, <2>2, <2>3
    <2>6. QED BY <2>4, <2>5 DEF FreshlyFound
  <1>4. ASSUME NEW t \in ResetToken, ConfirmRead(r, t)
        PROVE  FreshlyFound(r)
    <2>1. ASSUME NEW i \in Requests, NEW u
          PROVE  LET j == [i EXCEPT !.pc = "confirm.consume", !.user = u, !.token = t]
                 IN j.pc = "confirm.consume" /\ j.token = t
      BY DEF Requests
    <2>2. request'[r].pc = "confirm.consume" /\ request'[r].token = t
      BY ZenonT(60), <1>1, <1>4, <2>1, IdleRequestType DEF ConfirmRead
    <2>3. t \notin spent
      BY <1>4 DEF ConfirmRead
    <2>4. QED BY <2>2, <2>3 DEF FreshlyFound
  <1>5. QED BY <1>2, <1>3, <1>4 DEF Start, VerifyStale, VerifyWrong, VerifyRight

(* No other step finds anything. *)
LEMMA StepFinds ==
  ASSUME Inv, [Next]_vars, NEW s \in Request
  PROVE  FreshlyFound(s)
  <1>1. TypeOK
    BY DEF Inv
  <1>2. CASE request'[s] = request[s]
    BY <1>2 DEF FreshlyFound
  <1>3. ASSUME NEW r \in Request, Start(r) PROVE FreshlyFound(s)
    <2>1. CASE s = r
      BY <1>3, <2>1, StartFinds
    <2>2. CASE s # r
      <3>1. PICK q \in Requests : request' = [request EXCEPT ![r] = q]
        BY <1>3, StartReady DEF Starts
      <3>2. QED BY <1>1, <1>2, <2>2, <3>1 DEF TypeOK
    <2>3. QED BY <2>1, <2>2
  <1>4. ASSUME NEW r \in Request, Finish(r) PROVE FreshlyFound(s)
    BY <1>1, <1>2, <1>4, FinishMoves DEF FreshlyFound
  <1>5. ASSUME NEW r \in Request, NEW label \in {"generate.create", "verify.email", "reset.issue"},
               Continue(r, label)
        PROVE  FreshlyFound(s)
    <2>1. label \in Labels
      BY DEF Labels
    <2>2. QED BY <1>1, <1>2, <1>5, <2>1, ContinueMoves DEF FreshlyFound
  <1>6. ASSUME NEW r \in Request, ConfirmConsume(r) PROVE FreshlyFound(s)
    <2>1. "confirm.set" \in Labels
      BY DEF Labels
    <2>2. request[r].pc = "confirm.consume" /\ Continue(r, "confirm.set")
      BY <1>6 DEF ConfirmConsume, At
    <2>3. QED BY <1>1, <1>2, <2>1, <2>2, ContinueMoves DEF FreshlyFound
  <1>7. ASSUME NEW r \in Request, CutOff(r) PROVE FreshlyFound(s)
    <2>1. request[r] \in Requests
      BY <1>1 DEF TypeOK
    <2>2. request' = [request EXCEPT ![r] = [request[r] EXCEPT !.orphan = TRUE]]
      BY <1>7 DEF CutOff
    <2>3. /\ request'[r].challenge = request[r].challenge
          /\ request'[r].token = request[r].token /\ request'[r].pc = request[r].pc
      BY <1>1, <2>1, <2>2 DEF TypeOK, Requests
    <2>4. s # r => request'[s] = request[s]
      BY <1>1, <2>2 DEF TypeOK
    <2>5. QED BY <1>2, <2>3, <2>4 DEF FreshlyFound
  <1>8. ASSUME NEW r \in Request, Statement(r) PROVE FreshlyFound(s)
    <2>1. \/ Finish(r) \/ ConfirmConsume(r)
          \/ \E label \in {"generate.create", "verify.email", "reset.issue"} : Continue(r, label)
      BY <1>8 DEF Statement, GenerateSweep, GenerateCreate, VerifyBurn, VerifyCount, VerifyAccept,
                  AfterAccept, MarkVerified, IssueReset, ConfirmSet
    <2>2. QED BY <1>4, <1>5, <1>6, <2>1
  <1>9. ASSUME NEW r \in Request, Lost(r) PROVE FreshlyFound(s)
    BY <1>4, <1>9 DEF Lost
  <1>10. CASE \/ \E c \in Challenge : ChallengeExpires(c)
              \/ \E t \in ResetToken : TokenLapses(t)
              \/ UNCHANGED vars
    BY <1>2, <1>10 DEF ChallengeExpires, TokenLapses, vars
  <1>11. QED BY <1>3, <1>7, <1>8, <1>9, <1>10 DEF Next

(* A code is accepted, and a reset token used, at most once by each of the *)
(* requests that were looking at it when it was first used: what overlap   *)
(* makes of "so the code cannot be reused" (otp.service.ts) is bounded by  *)
(* the requests that overlapped, and nothing later adds to it.             *)
THEOREM OverlapIsBounded == Spec => RacesEnd
  <1>1. Inv /\ [Next]_vars =>
          [/\ \A c \in consumed : Accepting(c)' \subseteq Accepting(c)
           /\ \A t \in spent : Spending(t)' \subseteq Spending(t)
           /\ \A r \in Request, c \in Challenge :
                VerifyAccept(r) /\ request[r].challenge = c => r \in Accepting(c) \ Accepting(c)'
           /\ \A r \in Request, t \in ResetToken :
                ConfirmSet(r) /\ request[r].token = t => r \in Spending(t) \ Spending(t)']_vars
    <2> SUFFICES ASSUME Inv, [Next]_vars
        PROVE  /\ \A c \in consumed : Accepting(c)' \subseteq Accepting(c)
               /\ \A t \in spent : Spending(t)' \subseteq Spending(t)
               /\ \A r \in Request, c \in Challenge :
                    VerifyAccept(r) /\ request[r].challenge = c => r \in Accepting(c) \ Accepting(c)'
               /\ \A r \in Request, t \in ResetToken :
                    ConfirmSet(r) /\ request[r].token = t => r \in Spending(t) \ Spending(t)'
      OBVIOUS
    <2>1. \A s \in Request : FreshlyFound(s)
      BY StepFinds
    <2>2. ASSUME NEW c \in consumed PROVE Accepting(c)' \subseteq Accepting(c)
      BY <2>1, <2>2 DEF FreshlyFound, Accepting, At
    <2>3. ASSUME NEW t \in spent PROVE Spending(t)' \subseteq Spending(t)
      BY <2>1, <2>3 DEF FreshlyFound, Spending
    <2>4. TypeOK
      BY DEF Inv
    <2>5. ASSUME NEW r \in Request, NEW c \in Challenge, VerifyAccept(r), request[r].challenge = c
          PROVE  r \in Accepting(c) \ Accepting(c)'
      <3>1. PICK label \in {"verify.email", "reset.issue"} : Continue(r, label)
        BY <2>5 DEF VerifyAccept, AfterAccept
      <3>2. request'[r].pc # "verify.accept"
        <4>1. label \in Labels
          BY DEF Labels
        <4>2. QED BY <2>4, <3>1, <4>1, ContinueMoves
      <3>3. QED BY <2>5, <3>2 DEF VerifyAccept, Accepting, At
    <2>6. ASSUME NEW r \in Request, NEW t \in ResetToken, ConfirmSet(r), request[r].token = t
          PROVE  r \in Spending(t) \ Spending(t)'
      <3>1. request'[r].pc = "idle"
        BY <2>4, <2>6, FinishMoves DEF ConfirmSet
      <3>2. QED BY <2>6, <3>1 DEF ConfirmSet, Spending, At
    <2>7. QED BY <2>2, <2>3, <2>5, <2>6
  <1>2. QED BY <1>1, Invariance, PTL DEF Spec, RacesEnd

=============================================================================
