------------------------------ MODULE Recovery ------------------------------
(***************************************************************************)
(* One-time codes and password-reset tokens: the "otp_challenges" and      *)
(* "password_reset_tokens" tables, OtpService (otp.service.ts) and the     *)
(* handlers of auth-recovery.routes.ts that call it.                       *)
(*                                                                         *)
(* As in Sessions, one action is one awaited Prisma statement with the     *)
(* synchronous code up to the next await, and other requests run between   *)
(* any two.  The last two statements of /password-reset/confirm, which     *)
(* write the accounts and sessions, are ConfirmSet and SweepUser there;    *)
(* here the first of them is the use of the token.                         *)
(*                                                                         *)
(* A destination is the address of one account, so it is its User; codes   *)
(* of different challenges are taken to be different.                      *)
(***************************************************************************)
EXTENDS Naturals

CONSTANTS
  User,         \* accounts that may ask for a code
  Challenge,    \* numbers of the challenge rows in the order of createdAt;
                \* the size bounds those ever created
  ResetToken,   \* rows of password_reset_tokens; bounds those ever issued
  Request,      \* requests being handled at the same time
  NoUser, NoChallenge, NoToken,
  MaxAttempts   \* OTP_MAX_ATTEMPTS

ASSUME RecoveryAssumption ==
  /\ NoUser \notin User
  /\ Challenge \subseteq Nat
  /\ NoChallenge \notin Challenge
  /\ NoToken \notin ResetToken
  /\ MaxAttempts \in Nat \ {0}

VARIABLES
  holder,     \* otp_challenges.userId (and destination); NoUser: no such row
  purpose,    \* otp_challenges.purpose
  attempts,   \* otp_challenges.attempts
  consumed,   \* challenges with consumedAt set
  expired,    \* challenges whose expiresAt has passed
  tokenUser,  \* password_reset_tokens.userId; NoUser: no such row
  spent,      \* reset tokens with consumedAt set
  lapsed,     \* reset tokens whose expiresAt has passed
  verified,   \* users with emailVerifiedAt set
  request,    \* what each handler is about to do, and what it holds
  accepts,    \* history: times each challenge was accepted
  origin,     \* history: the challenge a reset token was issued for
  resets      \* history: passwords set with each reset token

codes == <<holder, purpose, attempts, consumed, expired>>
tokens == <<tokenUser, spent, lapsed>>
history == <<accepts, origin, resets>>
vars == <<codes, tokens, verified, request, history>>

-----------------------------------------------------------------------------
Purposes == {"EMAIL_VERIFICATION", "PASSWORD_RESET"}

Created == {c \in Challenge : holder[c] # NoUser}

For(u, p) == {c \in Created : holder[c] = u /\ purpose[c] = p}

(* otpChallenge.findFirst: the newest of the unconsumed challenges. *)
Newest(c, u, p) ==
  /\ c \in For(u, p) \ consumed
  /\ \A d \in For(u, p) \ consumed : d <= c

(* otpChallenge.update / updateMany setting consumedAt. *)
Consume(C) == consumed' = consumed \union C

IssuedTokens == {t \in ResetToken : tokenUser[t] # NoUser}

Labels ==
  {"idle", "generate.sweep", "generate.create", "verify.burn", "verify.count",
   "verify.accept", "verify.email", "reset.issue", "confirm.consume", "confirm.set"}

Requests ==
  [pc : Labels, orphan : BOOLEAN, user : User \union {NoUser}, purpose : Purposes,
   challenge : Challenge \union {NoChallenge}, attempts : 0..MaxAttempts,
   token : ResetToken \union {NoToken}]

IdleRequest ==
  [pc |-> "idle", orphan |-> FALSE, user |-> NoUser, purpose |-> "EMAIL_VERIFICATION",
   challenge |-> NoChallenge, attempts |-> 0, token |-> NoToken]

(* History counts uses as none, one or several. *)
Again(n) == IF n < 2 THEN n + 1 ELSE n

Idle(r) == request[r].pc = "idle"

At(r, label) == request[r].pc = label

Finish(r) == request' = [request EXCEPT ![r] = IdleRequest]

Continue(r, label) ==
  IF request[r].orphan THEN Finish(r)
  ELSE request' = [request EXCEPT ![r].pc = label]

-----------------------------------------------------------------------------
Init ==
  /\ holder = [c \in Challenge |-> NoUser]
  /\ purpose = [c \in Challenge |-> "EMAIL_VERIFICATION"]
  /\ attempts = [c \in Challenge |-> 0]
  /\ consumed = {}
  /\ expired = {}
  /\ tokenUser = [t \in ResetToken |-> NoUser]
  /\ spent = {}
  /\ lapsed = {}
  /\ verified = {}
  /\ request = [r \in Request |-> IdleRequest]
  /\ accepts = [c \in Challenge |-> 0]
  /\ origin = [t \in ResetToken |-> NoChallenge]
  /\ resets = [t \in ResetToken |-> 0]

(* POST /resend-verification and /forgot-password find the account and ask *)
(* OtpService for a code: generate retires the old challenges, then        *)
(* inserts a new one, whose code is e-mailed.                              *)
BeginGenerate(r, u, p) ==
  /\ Idle(r)
  /\ request' = [request EXCEPT ![r] =
       [IdleRequest EXCEPT !.pc = "generate.sweep", !.user = u, !.purpose = p]]
  /\ UNCHANGED <<codes, tokens, verified, history>>

ResendVerification(r, u) ==
  /\ u \notin verified
  /\ BeginGenerate(r, u, "EMAIL_VERIFICATION")

ForgotPassword(r, u) == BeginGenerate(r, u, "PASSWORD_RESET")

RetiredIfExpired(u, p) == For(u, p) \intersect expired   \* mutant: lazily

Retired(u, p) == For(u, p)

GenerateSweep(r) ==
  /\ At(r, "generate.sweep")
  /\ Consume(Retired(request[r].user, request[r].purpose))
  /\ Continue(r, "generate.create")
  /\ UNCHANGED <<holder, purpose, attempts, expired, tokens, verified, history>>

GenerateCreate(r) ==
  /\ At(r, "generate.create")
  /\ \E c \in Challenge \ Created :
       /\ \A d \in Challenge \ Created : c <= d
       /\ holder' = [holder EXCEPT ![c] = request[r].user]
       /\ purpose' = [purpose EXCEPT ![c] = request[r].purpose]
  /\ Finish(r)
  /\ UNCHANGED <<attempts, consumed, expired, tokens, verified, history>>

(* OtpService.verify, for /verify-email and /password-reset/verify.  The   *)
(* newest active challenge is read and judged on that copy; the submitted  *)
(* code is the challenge's or it is not.                                   *)
Judge(r, c, label) ==
  /\ Idle(r)
  /\ \E u \in User, p \in Purposes : Newest(c, u, p)
  /\ request' = [request EXCEPT ![r] =
       [IdleRequest EXCEPT !.pc = label, !.user = holder[c], !.purpose = purpose[c],
          !.challenge = c, !.attempts = attempts[c]]]
  /\ UNCHANGED <<codes, tokens, verified, history>>

Usable(c) == c \notin expired /\ attempts[c] < MaxAttempts

VerifyStale(r, c) ==
  /\ ~Usable(c)
  /\ Judge(r, c, "verify.burn")

VerifyWrong(r, c) ==
  /\ Usable(c)
  /\ Judge(r, c, "verify.count")

VerifyRight(r, c) ==
  /\ Usable(c)
  /\ Judge(r, c, "verify.accept")

VerifyBurn(r) ==
  /\ At(r, "verify.burn")
  /\ Consume({request[r].challenge})
  /\ Finish(r)
  /\ UNCHANGED <<holder, purpose, attempts, expired, tokens, verified, history>>

CountsFromRow(r) == attempts[request[r].challenge] + 1   \* mutant: the row, not the copy

(* The counter is written from the copy that was read; the write that      *)
(* reaches the limit burns the challenge.                                  *)
Counts(r) == request[r].attempts + 1

BurnsLate(n) == n > MaxAttempts   \* mutant: > for >=

Burns(n) == n >= MaxAttempts

VerifyCount(r) ==
  /\ At(r, "verify.count")
  /\ LET c == request[r].challenge
     IN /\ attempts' = [attempts EXCEPT ![c] = Counts(r)]
        /\ Consume({d \in {c} : Burns(Counts(r))})
  /\ Finish(r)
  /\ UNCHANGED <<holder, purpose, expired, tokens, verified, history>>

AlwaysVerifies(p) == "verify.email"   \* mutant: a reset code verifies the address

AfterAccept(p) == IF p = "PASSWORD_RESET" THEN "reset.issue" ELSE "verify.email"

VerifyAccept(r) ==
  /\ At(r, "verify.accept")
  /\ Consume({request[r].challenge})
  /\ accepts' = [accepts EXCEPT ![request[r].challenge] = Again(@)]
  /\ Continue(r, AfterAccept(request[r].purpose))
  /\ UNCHANGED <<holder, purpose, attempts, expired, tokens, verified, origin, resets>>

(* The rest of /verify-email: user.updateMany. *)
MarkVerified(r) ==
  /\ At(r, "verify.email")
  /\ verified' = verified \union {request[r].user}
  /\ Finish(r)
  /\ UNCHANGED <<codes, tokens, history>>

(* The rest of /password-reset/verify: issueResetToken. *)
IssueReset(r) ==
  /\ At(r, "reset.issue")
  /\ \E t \in ResetToken \ IssuedTokens :
       /\ tokenUser' = [tokenUser EXCEPT ![t] = request[r].user]
       /\ origin' = [origin EXCEPT ![t] = request[r].challenge]
  /\ Finish(r)
  /\ UNCHANGED <<codes, spent, lapsed, verified, accepts, resets>>

(* POST /password-reset/confirm: consumeResetToken, then the password. *)
ConfirmRead(r, t) ==
  /\ Idle(r)
  /\ t \in IssuedTokens \ (spent \union lapsed)
  /\ request' = [request EXCEPT ![r] =
       [IdleRequest EXCEPT !.pc = "confirm.consume", !.user = tokenUser[t], !.token = t]]
  /\ UNCHANGED <<codes, tokens, verified, history>>

SpendNothing(t) == UNCHANGED spent   \* mutant: the token stays good

Spend(t) == spent' = spent \union {t}

ConfirmConsume(r) ==
  /\ At(r, "confirm.consume")
  /\ Spend(request[r].token)
  /\ Continue(r, "confirm.set")
  /\ UNCHANGED <<codes, tokenUser, lapsed, verified, history>>

ConfirmSet(r) ==
  /\ At(r, "confirm.set")
  /\ resets' = [resets EXCEPT ![request[r].token] = Again(@)]
  /\ Finish(r)
  /\ UNCHANGED <<codes, tokens, verified, accepts, origin>>

(* Time passes; replicas stamp expiresAt with clocks of their own, so the  *)
(* order of expiry is not that of creation.  Nobody reads the expiry of a  *)
(* row that is consumed.                                                   *)
ChallengeExpires(c) ==
  /\ c \in Created \ (consumed \union expired)
  /\ expired' = expired \union {c}
  /\ UNCHANGED <<holder, purpose, attempts, consumed, tokens, verified, request, history>>

TokenLapses(t) ==
  /\ t \in IssuedTokens \ (spent \union lapsed)
  /\ lapsed' = lapsed \union {t}
  /\ UNCHANGED <<codes, tokenUser, spent, verified, request, history>>

(* The replica dies or the query times out, as in Sessions. *)
CutOff(r) ==
  /\ ~Idle(r) /\ ~request[r].orphan
  /\ request' = [request EXCEPT ![r].orphan = TRUE]
  /\ UNCHANGED <<codes, tokens, verified, history>>

Lost(r) ==
  /\ request[r].orphan
  /\ Finish(r)
  /\ UNCHANGED <<codes, tokens, verified, history>>

-----------------------------------------------------------------------------
Start(r) ==
  \/ \E u \in User : ResendVerification(r, u) \/ ForgotPassword(r, u)
  \/ \E c \in Challenge : VerifyStale(r, c) \/ VerifyWrong(r, c) \/ VerifyRight(r, c)
  \/ \E t \in ResetToken : ConfirmRead(r, t)

Statement(r) ==
  \/ GenerateSweep(r) \/ GenerateCreate(r)
  \/ VerifyBurn(r) \/ VerifyCount(r) \/ VerifyAccept(r)
  \/ MarkVerified(r) \/ IssueReset(r)
  \/ ConfirmConsume(r) \/ ConfirmSet(r)

Next ==
  \/ \E r \in Request : Start(r) \/ Statement(r) \/ CutOff(r) \/ Lost(r)
  \/ \E c \in Challenge : ChallengeExpires(c)
  \/ \E t \in ResetToken : TokenLapses(t)

Spec == Init /\ [][Next]_vars
-----------------------------------------------------------------------------
(* Properties *)

TypeOK ==
  /\ holder \in [Challenge -> User \union {NoUser}]
  /\ purpose \in [Challenge -> Purposes]
  /\ attempts \in [Challenge -> 0..MaxAttempts]
  /\ consumed \subseteq Challenge
  /\ expired \subseteq Challenge
  /\ tokenUser \in [ResetToken -> User \union {NoUser}]
  /\ spent \subseteq ResetToken
  /\ lapsed \subseteq ResetToken
  /\ verified \subseteq User
  /\ request \in [Request -> Requests]
  /\ accepts \in [Challenge -> 0..2]
  /\ origin \in [ResetToken -> Challenge \union {NoChallenge}]
  /\ resets \in [ResetToken -> 0..2]

(* A challenge is burnt by the write that exhausts its attempts: however   *)
(* stale the counts that handlers write back, no row is ever active with   *)
(* the limit reached (so the check at the top of verify never fires).      *)
ExhaustedIsBurnt ==
  \A c \in Challenge \ consumed : attempts[c] < MaxAttempts

(* An address counts as verified only after a verification code that was   *)
(* sent to it has been accepted; a reset code does not do.                 *)
VerifiedByOwnCode ==
  \A u \in verified :
    \E c \in For(u, "EMAIL_VERIFICATION") : accepts[c] > 0 /\ c \in consumed

(* Behind every password set by /confirm stands an accepted reset code of  *)
(* that same account, and the code and the token are both used up.         *)
ResetEarned ==
  \A t \in IssuedTokens :
    /\ origin[t] \in For(tokenUser[t], "PASSWORD_RESET") \intersect consumed
    /\ accepts[origin[t]] > 0
    /\ resets[t] > 0 => t \in spent

(* "enforce single active challenge per (destination, purpose)" *)
OneActiveChallenge ==
  \A u \in User, p \in Purposes : \A c, d \in For(u, p) \ consumed : c = d

(* "Consume the challenge so the code cannot be reused" *)
CodeAcceptedOnce == \A c \in Challenge : accepts[c] <= 1

(* "The token is marked consumed atomically so it cannot be replayed" *)
ResetTokenUsedOnce == \A t \in ResetToken : resets[t] <= 1

=============================================================================
