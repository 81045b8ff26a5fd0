--------------------------- MODULE SessionLedger ---------------------------
(***************************************************************************)
(* What the refresh-token machinery promises about login sessions, with    *)
(* tokens, cookies, requests and races all forgotten.  A session (a token  *)
(* "family" in the code) is opened once, for one user; it may be closed;   *)
(* a closed session never opens again and never changes hands.             *)
(* Sessions.tla is shown to implement this ledger.                         *)
(***************************************************************************)
CONSTANTS
  User,      \* accounts
  Session    \* session identifiers, one per token family

VARIABLES
  status,    \* status[s]: has the session been opened, has it been closed
  holders    \* holders[s]: the users the session speaks for

ledger == <<status, holders>>

LedgerTypeOK ==
  /\ status \in [Session -> {"unused", "open", "closed"}]
  /\ holders \in [Session -> SUBSET User]

LedgerInit ==
  /\ status = [s \in Session |-> "unused"]
  /\ holders = [s \in Session |-> {}]

Open(s, u) ==
  /\ status[s] = "unused"
  /\ status' = [status EXCEPT ![s] = "open"]
  /\ holders' = [holders EXCEPT ![s] = {u}]

(* One statement may close many sessions: UPDATE ... WHERE "userId" = ... *)
Close(S) ==
  /\ \A s \in S : status[s] = "open"
  /\ status' = [s \in Session |-> IF s \in S THEN "closed" ELSE status[s]]
  /\ UNCHANGED holders

LedgerNext ==
  \/ \E s \in Session, u \in User : Open(s, u)
  \/ \E S \in SUBSET Session : Close(S)

LedgerSpec == LedgerInit /\ [][LedgerNext]_ledger
=============================================================================
